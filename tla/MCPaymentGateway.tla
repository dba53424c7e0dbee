-------------------------- MODULE MCPaymentGateway --------------------------
(* Small instances of PaymentGateway for TLC: r1 and r2 are the same       *)
(* request sent twice, r3 reuses their key with another body and another   *)
(* reference, r4 asks for r1's reference under a key of its own.           *)
EXTENDS PaymentGateway, TLC

CONSTANTS r1, r2, r3, r4, k1, k2, h1, h2, ref1, ref2

Symmetry == Permutations({r1, r2})

MCKeyOf == [r \in Requests |-> IF r = r4 THEN k2 ELSE k1]
MCHashOf == [r \in Requests |-> IF r = r3 THEN h2 ELSE h1]
MCReferenceOf == [r \in Requests |-> IF r = r3 THEN ref2 ELSE ref1]

=============================================================================
