---------------------------- MODULE OrderService ----------------------------
(***************************************************************************)
(* apps/order-service: orders by merchant and reference, and the rules of  *)
(* validateOrder.  Orders are created and change status outside of the     *)
(* requests modelled here; they are never deleted and amount and currency  *)
(* never change.                                                           *)
(***************************************************************************)
EXTENDS Naturals

CONSTANTS
  Merchants,   \* merchants
  OrderRefs,   \* references of orders
  OrderBodies, \* for each slot, what its order may be for: amount, in hundredths, and currency
  Currencies,  \* currencies as they are written
  Upper        \* toUpperCase of each

(* @IsInt of the controller's ValidationPipe; the orders table has integers. *)
IsInt(amount) == amount % 100 = 0

Slots == Merchants \X OrderRefs

ASSUME OrdersAssumption ==
  /\ OrderBodies \in [Slots -> SUBSET [amount : Nat, currency : Currencies]]
  /\ \A slot \in Slots : \A body \in OrderBodies[slot] : IsInt(body.amount)
  /\ Upper \in [Currencies -> Currencies]

VARIABLE orders  \* the order of each merchant and reference

NoOrder == [status |-> "ABSENT", amount |-> 0, currency |-> "none"]
OrderStatus == {"CREATED", "PAID", "CANCELLED", "REFUNDED"}
Order == [status : OrderStatus, amount : Nat, currency : Currencies]

OrderTypeOK == orders \in [Slots -> Order \cup {NoOrder}]

OrderInit == orders = [slot \in Slots |-> NoOrder]

(* createOrder: the check and the unique index agree on what is inserted. *)
CreateOrder(slot, body) ==
  /\ orders[slot] = NoOrder
  /\ orders' = [orders EXCEPT ![slot] =
       [status |-> "CREATED", amount |-> body.amount, currency |-> body.currency]]

(* The moves transitionTo allows. *)
Moves == {<<"CREATED", "PAID">>, <<"CREATED", "CANCELLED">>, <<"PAID", "REFUNDED">>}

TransitionTo(slot, to) ==
  /\ <<orders[slot].status, to>> \in Moves
  /\ orders' = [orders EXCEPT ![slot].status = to]

-----------------------------------------------------------------------------
(* validateOrder, its two reads apart.                                     *)

(* Mutant: the currency is not compared. *)
JudgeOrderAnyCurrency(order, body) ==
  IF order.amount # body.amount THEN "MISMATCH"
  ELSE IF order.status # "CREATED" THEN "ALREADY_PAID"
  ELSE "VALID"

(* Rules 3 to 5 for an order that was found, in their order. *)
JudgeOrder(order, body) ==
  IF order.amount # body.amount THEN "MISMATCH"
  ELSE IF Upper[order.currency] # Upper[body.currency] THEN "MISMATCH"
  ELSE IF order.status # "CREATED" THEN "ALREADY_PAID"
  ELSE "VALID"

(* findByReferenceOnly, when the merchant has no such order: a 403 when    *)
(* any merchant has one, a 404 otherwise.                                  *)
JudgeMissing(ref) ==
  IF \E m \in Merchants : orders[<<m, ref>>] # NoOrder THEN "OWNERSHIP" ELSE "NOT_FOUND"

=============================================================================
