---------------------------- MODULE MCHealthCheck ----------------------------
(* Small instances of HealthCheck for TLC. *)
EXTENDS HealthCheck

CONSTANTS k1, k2, c1, c2

=============================================================================
