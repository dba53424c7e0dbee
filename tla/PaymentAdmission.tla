-------------------------- MODULE PaymentAdmission --------------------------
(***************************************************************************)
(* The checks a payment request goes through, with the services that make  *)
(* them: the gateway authenticates it (AuthMiddleware, a GET that is       *)
(* retried), the payment service looks for a duplicate, asks the order     *)
(* service and the fraud service, and persists.  Meanwhile keys are        *)
(* revoked and merchants suspended, or reinstated, and orders are created  *)
(* and moved on.                                                           *)
(*                                                                         *)
(* Rate limit and idempotency lie between authentication and the payment   *)
(* service; RateLimiter and PaymentGateway model them.  PaymentService is  *)
(* the abstraction PaymentGateway uses of what is detailed here.           *)
(***************************************************************************)
EXTENDS MerchantService, OrderService, FraudService

CONSTANTS
  RefOf,              \* trimmed reference of each request
  Bodies,             \* amounts, in hundredths, and currencies clients ask for
  PaymentCurrencies,  \* SUPPORTED_CURRENCIES of the payment service
  MovedSlots,         \* bound: slots whose orders change status
  MaxRetries,         \* services.internalRequestRetries
  MaxFaults           \* bound: failed calls

ASSUME AdmissionAssumption ==
  /\ Owners \subseteq Merchants
  /\ RefOf \in [Requests -> OrderRefs]
  /\ Bodies \subseteq [amount : Nat, currency : Currencies]
  /\ MovedSlots \subseteq Slots
  /\ MaxRetries \in Nat
  /\ MaxFaults \in Nat

VARIABLES
  payments,  \* the payment of each merchant and reference, named by its request
  outbox,    \* payments with a PaymentInitiated event
  body,      \* the body of each request at work and of each payment
  at,        \* where each request is
  code,      \* what its client was told
  calls,     \* calls of validateApiKey the gateway made for it
  verdicts,  \* the answers the merchant service had for it since it was sent
  atSend,    \* what was so when the request was sent
  faults     \* faults so far

vars == <<revoked, suspended, orders, payments, outbox, body, at, code, calls, verdicts, atSend, faults>>
local == <<body, calls, atSend>>
tables == <<merchantVars, orders, payments, outbox>>

(***************************************************************************)
(* auth          merchantClient.validateApiKey                             *)
(* find          ValidationPipe, findByReference                           *)
(* order, owner  the two reads of validateOrder                            *)
(* fraud         runPrecheck                                               *)
(* persist       the transaction                                           *)
(* refused       the gateway answered, the payment service was not asked   *)
(***************************************************************************)
At == {"new", "auth", "find", "order", "owner", "fraud", "persist", "refused", "answered"}
Verdicts == {"VALID", "UNAUTHORIZED", "DISABLED"}
Refusals == {"BAD_REQUEST", "DUPLICATE", "NOT_FOUND", "MISMATCH", "ALREADY_PAID", "FRAUD"}
Code == {"NONE", "MISSING_KEY", "UNAUTHORIZED", "DISABLED", "UNAVAILABLE", "INTERNAL", "ACCEPTED"} \cup Refusals

MerchantOf(r) == KeyMerchant[ApiKeyOf[r]]
SlotOf(r) == <<MerchantOf(r), RefOf[r]>>

(* What a snapshot says: the merchant's order is there, and it can still   *)
(* be paid.                                                                *)
Snapshot(r) ==
  [owned |-> orders[SlotOf(r)] # NoOrder,
   open  |-> orders[SlotOf(r)].status \in {"ABSENT", "CREATED"}]

Unsent == [owned |-> FALSE, open |-> FALSE]

TypeOK ==
  /\ MerchantTypeOK
  /\ OrderTypeOK
  /\ payments \in [Slots -> Requests \cup {None}]
  /\ outbox \subseteq Requests
  /\ body \in [Requests -> Bodies \cup {None}]
  /\ at \in [Requests -> At]
  /\ code \in [Requests -> Code]
  /\ calls \in [Requests -> Nat]
  /\ verdicts \in [Requests -> SUBSET Verdicts]
  /\ atSend \in [Requests -> [owned : BOOLEAN, open : BOOLEAN]]
  /\ faults \in Nat

Init ==
  /\ MerchantInit
  /\ OrderInit
  /\ payments = [slot \in Slots |-> None]
  /\ outbox = {}
  /\ body = [r \in Requests |-> None]
  /\ at = [r \in Requests |-> "new"]
  /\ code = [r \in Requests |-> "NONE"]
  /\ calls = [r \in Requests |-> 0]
  /\ verdicts = [r \in Requests |-> {}]
  /\ atSend = [r \in Requests |-> Unsent]
  /\ faults = 0

Fault == faults < MaxFaults /\ faults' = faults + 1

(* Of the answers about its key a request that goes on keeps the good one. *)
GoOn(r, to) ==
  /\ at' = [at EXCEPT ![r] = to]
  /\ verdicts' = [verdicts EXCEPT ![r] = @ \cap {"VALID"}]
  /\ UNCHANGED <<code, local>>

(* The client is answered; what the request was about stays only in the    *)
(* row of a payment, and of the answers about its key the one it was told. *)
End(r, how, what) ==
  /\ at' = [at EXCEPT ![r] = how]
  /\ code' = [code EXCEPT ![r] = what]
  /\ body' = [body EXCEPT ![r] = IF r \in outbox' THEN @ ELSE None]
  /\ atSend' = [atSend EXCEPT ![r] = IF r \in outbox' THEN @ ELSE Unsent]
  /\ calls' = [calls EXCEPT ![r] = IF how = "refused" THEN @ ELSE 0]
  /\ verdicts' = [verdicts EXCEPT ![r] = IF r \in outbox' THEN @ ELSE @ \cap {what}]

-----------------------------------------------------------------------------
(* The gateway.                                                            *)

(* A request without a key is refused at once. *)
Send(r) ==
  /\ at[r] = "new"
  /\ UNCHANGED <<tables, faults>>
  /\ \/ \E b \in Bodies :
          /\ at' = [at EXCEPT ![r] = "auth"]
          /\ body' = [body EXCEPT ![r] = b]
          /\ atSend' = [atSend EXCEPT ![r] = Snapshot(r)]
          /\ calls' = [calls EXCEPT ![r] = 1]
          /\ verdicts' = [verdicts EXCEPT ![r] = {ValidateMerchantApiKey(r)}]
          /\ UNCHANGED code
     \/ End(r, "refused", "MISSING_KEY")

(* The merchant service answers; the merchant it names replaces whatever   *)
(* x-merchant-id the client sent.                                          *)
Authenticate(r) ==
  LET result == ValidateMerchantApiKey(r) IN
  /\ at[r] = "auth"
  /\ UNCHANGED <<tables, faults>>
  /\ \/ result = "VALID" /\ GoOn(r, "find")
     \/ result # "VALID" /\ End(r, "refused", result)

(* Mutant: a GET is tried once. *)
AuthenticateFailsOnce(r) ==
  /\ at[r] = "auth"
  /\ UNCHANGED tables
  /\ Fault
  /\ End(r, "refused", "UNAVAILABLE")

(* The call fails (timeout, network, 5xx): RetryPolicy tries again until   *)
(* maxAttempts retries have failed too, and the client is told 503.        *)
AuthenticateFails(r) ==
  /\ at[r] = "auth"
  /\ UNCHANGED tables
  /\ Fault
  /\ \/ /\ calls[r] <= MaxRetries
        /\ calls' = [calls EXCEPT ![r] = @ + 1]
        /\ UNCHANGED <<at, code, body, verdicts, atSend>>
     \/ calls[r] > MaxRetries /\ End(r, "refused", "UNAVAILABLE")

-----------------------------------------------------------------------------
(* The payment service.                                                    *)

(* Mutant: the duplicate is left to the unique index. *)
FindByReferenceSkips(r) ==
  /\ at[r] = "find"
  /\ UNCHANGED <<tables, faults>>
  /\ \/ body[r].currency \notin PaymentCurrencies /\ End(r, "answered", "BAD_REQUEST")
     \/ body[r].currency \in PaymentCurrencies /\ GoOn(r, "order")

FindByReference(r) ==
  /\ at[r] = "find"
  /\ UNCHANGED <<tables, faults>>
  /\ \/ body[r].currency \notin PaymentCurrencies /\ End(r, "answered", "BAD_REQUEST")
     \/ /\ body[r].currency \in PaymentCurrencies
        /\ \/ payments[SlotOf(r)] # None /\ End(r, "answered", "DUPLICATE")
           \/ payments[SlotOf(r)] = None /\ GoOn(r, "order")

(* What createPayment makes of the order service's answer.  A 403 becomes  *)
(* a 404 "to avoid leaking order existence"; a 400 is unexpected.          *)
OrderAnswer(r, result) ==
  CASE result = "VALID"       -> GoOn(r, "fraud")
    [] result = "OWNERSHIP"   -> End(r, "answered", "NOT_FOUND")
    [] result = "BAD_REQUEST" -> End(r, "answered", "INTERNAL")
    [] OTHER                  -> End(r, "answered", result)

(* Mutant: the order is looked up by its reference alone. *)
ValidateOrderOfAnyone(r) ==
  LET found == {orders[<<m, RefOf[r]>>] : m \in Merchants} \ {NoOrder} IN
  /\ at[r] = "order"
  /\ UNCHANGED <<tables, faults>>
  /\ \/ ~IsInt(body[r].amount) /\ OrderAnswer(r, "BAD_REQUEST")
     \/ /\ IsInt(body[r].amount)
        /\ \/ found = {} /\ GoOn(r, "owner")
           \/ \E order \in found : OrderAnswer(r, JudgeOrder(order, body[r]))

ValidateOrder(r) ==
  LET order == orders[SlotOf(r)] IN
  /\ at[r] = "order"
  /\ UNCHANGED <<tables, faults>>
  /\ \/ ~IsInt(body[r].amount) /\ OrderAnswer(r, "BAD_REQUEST")
     \/ /\ IsInt(body[r].amount)
        /\ \/ order = NoOrder /\ GoOn(r, "owner")
           \/ order # NoOrder /\ OrderAnswer(r, JudgeOrder(order, body[r]))

FindOwner(r) ==
  /\ at[r] = "owner"
  /\ UNCHANGED <<tables, faults>>
  /\ OrderAnswer(r, JudgeMissing(RefOf[r]))

FraudPrecheck(r) ==
  LET approved == RunPrecheck(MerchantOf(r), body[r].amount, Upper[body[r].currency]) IN
  /\ at[r] = "fraud"
  /\ UNCHANGED <<tables, faults>>
  /\ \/ approved /\ GoOn(r, "persist")
     \/ ~approved /\ End(r, "answered", "FRAUD")

Insert(r) ==
  /\ payments[SlotOf(r)] = None
  /\ payments' = [payments EXCEPT ![SlotOf(r)] = r]
  /\ outbox' = outbox \cup {r}

Persist(r) ==
  /\ at[r] = "persist"
  /\ \/ Insert(r) /\ End(r, "answered", "ACCEPTED")
     \/ /\ payments[SlotOf(r)] # None
        /\ UNCHANGED <<payments, outbox>>
        /\ End(r, "answered", "INTERNAL")
  /\ UNCHANGED <<merchantVars, orders, faults>>

(* The order or fraud service does not answer within two seconds, or the   *)
(* fraud service fails (503); the order service answers with a 5xx, or the *)
(* database of the payment service fails, committed or not (500).          *)
StepFails(r) ==
  /\ Fault
  /\ \/ at[r] = "persist" /\ Insert(r)
     \/ UNCHANGED <<payments, outbox>>
  /\ \/ at[r] \in {"order", "owner", "fraud"} /\ End(r, "answered", "UNAVAILABLE")
     \/ at[r] \in {"find", "order", "owner", "persist"} /\ End(r, "answered", "INTERNAL")
  /\ UNCHANGED <<merchantVars, orders>>

-----------------------------------------------------------------------------

RequestStep(r) ==
  \/ Send(r)
  \/ Authenticate(r)
  \/ AuthenticateFails(r)
  \/ FindByReference(r)
  \/ ValidateOrder(r)
  \/ FindOwner(r)
  \/ FraudPrecheck(r)
  \/ Persist(r)
  \/ StepFails(r)

(* An operator changes what the services know; the merchant service may    *)
(* have another answer for the requests that wait for one.                 *)
OperatorStep ==
  /\ \/ (\E k \in ApiKeys : RevokeKey(k) \/ ReinstateKey(k)) /\ UNCHANGED orders
     \/ (\E m \in Owners : SuspendMerchant(m) \/ ReinstateMerchant(m)) /\ UNCHANGED orders
     \/ (\E slot \in Slots : \E b \in OrderBodies[slot] : CreateOrder(slot, b)) /\ UNCHANGED merchantVars
     \/ (\E slot \in MovedSlots, to \in OrderStatus : TransitionTo(slot, to)) /\ UNCHANGED merchantVars
  /\ verdicts' = [r \in Requests |->
       IF at[r] = "auth" THEN verdicts[r] \cup {ValidateMerchantApiKey(r)'} ELSE verdicts[r]]
  /\ UNCHANGED <<payments, outbox, local, at, code, faults>>

Next == OperatorStep \/ \E r \in Requests : RequestStep(r)

Spec == Init /\ [][Next]_vars

-----------------------------------------------------------------------------
(* Safety.                                                                 *)

(* Every payment is vouched for (AuthMiddleware, validateOrder,            *)
(* runPrecheck): its key was good at a moment after the request was sent,  *)
(* though perhaps neither then nor now; its merchant has an order of that  *)
(* reference, amount and currency that could still be paid when it was     *)
(* sent; and every fraud rule approves.                                    *)
PaymentIsVouchedFor ==
  \A r \in outbox :
    LET order == orders[SlotOf(r)] IN
    /\ payments[SlotOf(r)] = r
    /\ "VALID" \in verdicts[r]
    /\ atSend[r].open
    /\ order.status # "ABSENT"
    /\ order.amount = body[r].amount
    /\ Upper[order.currency] = Upper[body[r].currency]
    /\ body[r].amount <= MaxThreshold
    /\ Upper[body[r].currency] \in SupportedCurrencies
    /\ MerchantOf(r) \notin BlacklistedMerchants

(* What a client learns about orders is about its own: 404 means it had no *)
(* such order when it asked, whether or not another merchant has one, and  *)
(* 409 or 422 that it has one.  The two reads of validateOrder may see     *)
(* different tables.                                                       *)
OrdersArePrivate ==
  [][\A r \in Requests : code'[r] # code[r] =>
       /\ code'[r] = "NOT_FOUND" => ~atSend[r].owned
       /\ code'[r] \in {"MISMATCH", "ALREADY_PAID"} => orders[SlotOf(r)] # NoOrder
       /\ code'[r] = "ALREADY_PAID" => orders[SlotOf(r)].status # "CREATED"]_vars

(* Retries absorb failures of the merchant service: a client is told 503   *)
(* when each of MaxRetries + 1 calls was lost and neither earlier nor      *)
(* later, and no fault turns a good key into a refusal for good: 401 and   *)
(* 403 are answers the merchant service had while the request waited.      *)
RetriesAbsorb ==
  \A r \in Requests :
    /\ calls[r] <= MaxRetries + 1
    /\ at[r] = "refused" =>
         /\ code[r] = "UNAVAILABLE" => calls[r] = MaxRetries + 1 /\ faults >= calls[r]
         /\ code[r] \in {"UNAUTHORIZED", "DISABLED"} => code[r] \in verdicts[r]

-----------------------------------------------------------------------------
(* Refinement: createPayment with real rules is one of the behaviours      *)
(* PaymentGateway assumes of the payment service.                          *)

AbstractAt(r) ==
  CASE at[r] \in {"new", "auth", "refused"} -> "off"
    [] at[r] = "owner"                      -> "order"
    [] OTHER                                -> at[r]

AbstractReply(r) ==
  CASE at[r] # "answered"     -> "NONE"
    [] code[r] = "ACCEPTED"   -> "ACCEPTED"
    [] code[r] \in Refusals   -> "REJECTED"
    [] code[r] \in {"INTERNAL", "UNAVAILABLE"} /\ at[r] = "answered" -> "ERROR"

Payment == INSTANCE PaymentService WITH
  References  <- Slots,
  ReferenceOf <- [r \in Requests |-> SlotOf(r)],
  pay         <- [r \in Requests |-> [at |-> AbstractAt(r), reply |-> AbstractReply(r)]]

(* The payment service as detailed here implements PaymentService. *)
ImplementsPaymentService == Payment!PaymentSpec

=============================================================================
