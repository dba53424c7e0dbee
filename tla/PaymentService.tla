--------------------------- MODULE PaymentService ---------------------------
(***************************************************************************)
(* apps/payment-service: createPayment, with the order and fraud services  *)
(* it calls.  The table has a unique index on merchant and reference; the  *)
(* payment and its outbox event are inserted in one transaction.           *)
(***************************************************************************)
EXTENDS Naturals, ClientRequests

CONSTANTS
  References,  \* pairs of merchant and trimmed reference
  ReferenceOf  \* the reference of each request's body

ASSUME ReferencesAssumption == ReferenceOf \in [Requests -> References]

VARIABLES
  payments,  \* the payment of each reference, named by the request that created it
  outbox,    \* payments with a PaymentInitiated event in the outbox
  pay        \* the createPayment call of each request

paymentVars == <<payments, outbox, pay>>

(***************************************************************************)
(* find      findByReference                                               *)
(* order     orderService.post validate                                    *)
(* fraud     fraudService.post precheck                                    *)
(* persist   the transaction                                               *)
(* ACCEPTED is a 202, REJECTED a 4xx, ERROR a 5xx.                         *)
(***************************************************************************)
PayCall ==
  [at : {"off", "find", "order", "fraud", "persist", "answered"},
   reply : {"NONE", "ACCEPTED", "REJECTED", "ERROR"}]

PaymentTypeOK ==
  /\ payments \in [References -> Requests \cup {None}]
  /\ outbox \subseteq Requests
  /\ pay \in [Requests -> PayCall]

PaymentInit ==
  /\ payments = [ref \in References |-> None]
  /\ outbox = {}
  /\ pay = [r \in Requests |-> [at |-> "off", reply |-> "NONE"]]

PayReply(r, reply) == pay' = [pay EXCEPT ![r] = [at |-> "answered", reply |-> reply]]

ContinuePay(r, at) == pay' = [pay EXCEPT ![r].at = at]

(* The ValidationPipe refuses the body (400). *)
RefuseBody(r) ==
  /\ pay[r].at = "find"
  /\ PayReply(r, "REJECTED")
  /\ UNCHANGED <<payments, outbox>>

(* The local check for a duplicate reference. *)
FindByReference(r) ==
  /\ pay[r].at = "find"
  /\ \/ payments[ReferenceOf[r]] = None /\ ContinuePay(r, "order")
     \/ payments[ReferenceOf[r]] # None /\ PayReply(r, "REJECTED")
  /\ UNCHANGED <<payments, outbox>>

(* The order service accepts the order, refuses it (404, 403, 422, 409) or *)
(* cannot be asked (timeout, network, 5xx).                                *)
ValidateOrder(r) ==
  /\ pay[r].at = "order"
  /\ ContinuePay(r, "fraud") \/ PayReply(r, "REJECTED") \/ PayReply(r, "ERROR")
  /\ UNCHANGED <<payments, outbox>>

(* The fraud service approves, rejects (403) or cannot be asked. *)
FraudPrecheck(r) ==
  /\ pay[r].at = "fraud"
  /\ ContinuePay(r, "persist") \/ PayReply(r, "REJECTED") \/ PayReply(r, "ERROR")
  /\ UNCHANGED <<payments, outbox>>

Insert(r) ==
  /\ payments[ReferenceOf[r]] = None
  /\ payments' = [payments EXCEPT ![ReferenceOf[r]] = r]
  /\ outbox' = outbox \cup {r}

(* Mutant: no unique index, a later insert wins. *)
PersistOverwrites(r) ==
  /\ pay[r].at = "persist"
  /\ payments' = [payments EXCEPT ![ReferenceOf[r]] = r]
  /\ outbox' = outbox \cup {r}
  /\ PayReply(r, "ACCEPTED")

(* The transaction commits, or the unique index stops the insert: that     *)
(* error is thrown again and becomes a 500.                                *)
Persist(r) ==
  /\ pay[r].at = "persist"
  /\ \/ Insert(r) /\ PayReply(r, "ACCEPTED")
     \/ /\ payments[ReferenceOf[r]] # None
        /\ PayReply(r, "ERROR")
        /\ UNCHANGED <<payments, outbox>>

(* The database fails: any read or the transaction, committed or not. *)
DatabaseFails(r) ==
  /\ pay[r].at \in {"find", "persist"}
  /\ \/ pay[r].at = "persist" /\ Insert(r)
     \/ UNCHANGED <<payments, outbox>>
  /\ PayReply(r, "ERROR")

PayStep(r) ==
  RefuseBody(r) \/ FindByReference(r) \/ ValidateOrder(r) \/ FraudPrecheck(r) \/ Persist(r)

(* The service alone, called by anyone: what the gateway relies on. *)
Call(r) ==
  /\ pay[r].at = "off"
  /\ ContinuePay(r, "find")
  /\ UNCHANGED <<payments, outbox>>

PaymentNext == \E r \in Requests : Call(r) \/ PayStep(r) \/ DatabaseFails(r)

PaymentSpec == PaymentInit /\ [][PaymentNext]_paymentVars

=============================================================================
