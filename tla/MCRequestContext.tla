-------------------------- MODULE MCRequestContext --------------------------
(* Small instances of RequestContext for TLC. *)
EXTENDS RequestContext, TLC

CONSTANTS r1, r2, m1, m2, x1

(* Each request has the key of another merchant, and may claim the other.  *)
OwnMerchants == (r1 :> m1) @@ (r2 :> m2)

=============================================================================
