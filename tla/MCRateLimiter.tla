---------------------------- MODULE MCRateLimiter ----------------------------
(* Small instances of RateLimiter for TLC. *)
EXTENDS RateLimiter, TLC

CONSTANTS q1, q2, q3, q4, same

(* q1 and q2 have the same x-request-id, as a client that retries may send *)
(* it; the others have their own.                                          *)
RepeatedIds == [q \in Requests |-> IF q \in {q1, q2} THEN same ELSE q]
Symmetry == {f @@ g : f \in Permutations({q1, q2}), g \in Permutations(Requests \ {q1, q2})}

=============================================================================
