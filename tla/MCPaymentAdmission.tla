------------------------- MODULE MCPaymentAdmission -------------------------
(* Small instances of PaymentAdmission for TLC: r1 and r2 are requests of  *)
(* m1 for one reference, for which m2 may have an order too.               *)
EXTENDS PaymentAdmission, TLC

CONSTANTS r1, r2, k1, m1, m2, ref

Symmetry == Permutations(Requests)

MCKeyMerchant == [k \in ApiKeys |-> m1]
MCApiKeyOf == [r \in Requests |-> k1]
MCRefOf == [r \in Requests |-> ref]
MCUpper == [c \in Currencies |-> IF c = "usd" THEN "USD" ELSE c]

Body(amount, currency) == [amount |-> amount, currency |-> currency]

(* A body that may be paid, one above the threshold, one in a currency the *)
(* fraud service does not support, one whose amount has a fraction and one *)
(* whose currency the payment service refuses.                             *)
MCBodies == {Body(200, "USD"), Body(600, "USD"), Body(200, "EUR"), Body(250, "USD"), Body(200, "usd")}
MCMovedSlots == {<<m1, ref>>}
MCOrderBodies == [slot \in Slots |->
  IF slot[1] = m1 THEN {Body(200, "usd"), Body(600, "USD"), Body(200, "EUR")}
  ELSE {Body(200, "USD")}]

=============================================================================
