----------------------- MODULE PaymentAdmissionProofs -----------------------
(***************************************************************************)
(* Theorems about PaymentAdmission for every set of requests, keys,        *)
(* merchants and orders, whatever the bodies, the fraud rules' settings,   *)
(* the number of retries and the bound on faults.                          *)
(***************************************************************************)
EXTENDS PaymentAdmission, TLAPS

-----------------------------------------------------------------------------
(* The services the request passes through.                                *)

(* A request has its slot, its key and its merchant. *)
LEMMA SlotOK ==
  ASSUME NEW r \in Requests
  PROVE  SlotOf(r) \in Slots /\ ApiKeyOf[r] \in ApiKeys /\ MerchantOf(r) \in Owners
<1>1. ApiKeyOf[r] \in ApiKeys /\ MerchantOf(r) \in Owners
  BY ApiKeysAssumption DEF MerchantOf, Owners
<1> QED
  BY <1>1, AdmissionAssumption DEF SlotOf, Slots

(* An order that is missing is told apart by its status. *)
LEMMA NoOrderIsNone ==
  /\ NoOrder \notin Order
  /\ \A order \in Order \cup {NoOrder} :
       /\ order = NoOrder <=> order.status = "ABSENT"
       /\ order # NoOrder => order \in Order
  BY DEF NoOrder, Order, OrderStatus

(* The answers of the merchant service. *)
LEMMA VerdictIs == \A r : ValidateMerchantApiKey(r) \in Verdicts /\ ValidateMerchantApiKey(r)' \in Verdicts
  BY DEF ValidateMerchantApiKey, Verdicts

(* Operators change the answer of the merchant service, and the requests   *)
(* that wait for one have that answer too.                                 *)
LEMMA OperatorIs ==
  ASSUME TypeOK, OperatorStep
  PROVE  /\ MerchantTypeOK'
         /\ verdicts' \in [Requests -> SUBSET Verdicts]
         /\ \A r \in Requests :
              /\ verdicts[r] \subseteq verdicts'[r]
              /\ at[r] = "auth" => ValidateMerchantApiKey(r)' \in verdicts'[r]
         /\ UNCHANGED <<payments, outbox, local, at, code, faults>>
<1>1. MerchantTypeOK' /\ UNCHANGED <<payments, outbox, local, at, code, faults>>
  BY DEF TypeOK, MerchantTypeOK, OperatorStep, RevokeKey, ReinstateKey, SuspendMerchant, ReinstateMerchant,
     merchantVars
<1>2. verdicts' = [r \in Requests |->
        IF at[r] = "auth" THEN verdicts[r] \cup {ValidateMerchantApiKey(r)'} ELSE verdicts[r]]
  BY DEF OperatorStep
<1>3. verdicts \in [Requests -> SUBSET Verdicts]
  BY DEF TypeOK
<1> QED
  BY <1>1, <1>2, <1>3, VerdictIs, Zenon

(* An order is there for good; its amount and currency stay, and one that  *)
(* cannot be paid cannot be paid later.                                    *)
OrderStays(slot) ==
  orders[slot] # NoOrder =>
    /\ orders'[slot] # NoOrder
    /\ orders'[slot].amount = orders[slot].amount
    /\ orders'[slot].currency = orders[slot].currency
    /\ orders[slot].status # "CREATED" => orders'[slot].status # "CREATED"

(* Operators keep to that. *)
LEMMA OrdersStay ==
  ASSUME TypeOK, OperatorStep
  PROVE  OrderTypeOK' /\ \A slot \in Slots : OrderStays(slot)
<1>1. orders \in [Slots -> Order \cup {NoOrder}]
  BY DEF TypeOK, OrderTypeOK
<1>2. CASE UNCHANGED orders
  BY <1>1, <1>2 DEF OrderTypeOK, OrderStays
<1>3. ASSUME NEW slot \in Slots, NEW b \in OrderBodies[slot], CreateOrder(slot, b)
      PROVE  OrderTypeOK' /\ \A other \in Slots : OrderStays(other)
  <2> DEFINE new == [status |-> "CREATED", amount |-> b.amount, currency |-> b.currency]
  <2>1. b \in [amount : Nat, currency : Currencies]
    BY OrdersAssumption
  <2>2. new \in Order
    BY <2>1 DEF Order, OrderStatus
  <2>3. orders' = [orders EXCEPT ![slot] = new] /\ orders[slot] = NoOrder
    BY <1>3 DEF CreateOrder
  <2> HIDE DEF new
  <2> QED
    BY <1>1, <2>2, <2>3 DEF OrderTypeOK, OrderStays
<1>4. ASSUME NEW slot \in Slots, NEW to \in OrderStatus, TransitionTo(slot, to)
      PROVE  OrderTypeOK' /\ \A other \in Slots : OrderStays(other)
  <2> DEFINE old == orders[slot]
             new == [old EXCEPT !.status = to]
  <2>1. /\ old.status \in {"CREATED", "PAID"} /\ to \in {"PAID", "CANCELLED", "REFUNDED"}
        /\ orders' = [orders EXCEPT ![slot] = new]
    BY <1>4 DEF TransitionTo, Moves
  <2>2. old \in Order
    BY <1>1, <2>1, NoOrderIsNone
  <2>3. /\ new \in Order /\ new # NoOrder
        /\ new.amount = old.amount /\ new.currency = old.currency /\ new.status # "CREATED"
    BY <2>1, <2>2, NoOrderIsNone DEF Order, OrderStatus
  <2> HIDE DEF new
  <2> QED
    BY <1>1, <2>1, <2>3 DEF OrderTypeOK, OrderStays
<1> QED
  BY <1>2, <1>3, <1>4, AdmissionAssumption DEF OperatorStep

-----------------------------------------------------------------------------
(* Types.                                                                  *)

(* A request is answered, or goes on, and no other is touched. *)
Others(r) ==
  \A q \in Requests \ {r} :
    /\ at'[q] = at[q] /\ code'[q] = code[q] /\ body'[q] = body[q]
    /\ atSend'[q] = atSend[q] /\ calls'[q] = calls[q] /\ verdicts'[q] = verdicts[q]

LocalTypeOK ==
  /\ body \in [Requests -> Bodies \cup {None}]
  /\ at \in [Requests -> At]
  /\ code \in [Requests -> Code]
  /\ calls \in [Requests -> Nat]
  /\ verdicts \in [Requests -> SUBSET Verdicts]
  /\ atSend \in [Requests -> [owned : BOOLEAN, open : BOOLEAN]]

(* A request that goes on. *)
LEMMA GoOnType ==
  ASSUME LocalTypeOK, NEW r \in Requests, NEW to \in At, GoOn(r, to)
  PROVE  /\ LocalTypeOK' /\ Others(r)
         /\ at'[r] = to /\ code'[r] = code[r] /\ body'[r] = body[r]
         /\ atSend'[r] = atSend[r] /\ calls'[r] = calls[r] /\ verdicts'[r] = verdicts[r] \cap {"VALID"}
  BY DEF LocalTypeOK, GoOn, local, Others

(* A request that ends. *)
LEMMA EndType ==
  ASSUME LocalTypeOK, NEW r \in Requests, NEW how \in At, NEW what \in Code, End(r, how, what)
  PROVE  /\ LocalTypeOK' /\ Others(r)
         /\ at'[r] = how /\ code'[r] = what
         /\ calls'[r] = IF how = "refused" THEN calls[r] ELSE 0
         /\ verdicts'[r] = IF r \in outbox' THEN verdicts[r] ELSE verdicts[r] \cap {what}
         /\ body'[r] = IF r \in outbox' THEN body[r] ELSE None
         /\ atSend'[r] = IF r \in outbox' THEN atSend[r] ELSE Unsent
<1>1. Unsent \in [owned : BOOLEAN, open : BOOLEAN]
  BY DEF Unsent
<1> HIDE DEF Unsent
<1> QED
  BY <1>1 DEF LocalTypeOK, End, Others


(* The payment service is told of the order service's verdict. *)
LEMMA OrderAnswerIs ==
  ASSUME NEW r, NEW result \in {"VALID", "MISMATCH", "ALREADY_PAID", "OWNERSHIP", "NOT_FOUND", "BAD_REQUEST"},
         OrderAnswer(r, result)
  PROVE  \/ result = "VALID" /\ GoOn(r, "fraud")
         \/ result \in {"OWNERSHIP", "NOT_FOUND"} /\ End(r, "answered", "NOT_FOUND")
         \/ result = "BAD_REQUEST" /\ End(r, "answered", "INTERNAL")
         \/ result \in {"MISMATCH", "ALREADY_PAID"} /\ End(r, "answered", result)
  BY DEF OrderAnswer

(* The order service's verdicts, and what each of them says of the order. *)
LEMMA JudgeOrderIs ==
  ASSUME NEW order, NEW asked
  PROVE  /\ JudgeOrder(order, asked) \in {"VALID", "MISMATCH", "ALREADY_PAID"}
         /\ JudgeOrder(order, asked) = "ALREADY_PAID" => order.status # "CREATED"
         /\ JudgeOrder(order, asked) = "VALID" =>
              /\ order.amount = asked.amount
              /\ Upper[order.currency] = Upper[asked.currency]
              /\ order.status = "CREATED"
  BY DEF JudgeOrder

-----------------------------------------------------------------------------
(* The inductive invariant.                                                *)

InService == {"find", "order", "owner", "fraud", "persist"}

(* The order service agreed to the body, and the order has not changed     *)
(* since in what was agreed.                                               *)
OrderAgrees(r) ==
  /\ atSend[r].open
  /\ orders[SlotOf(r)] # NoOrder
  /\ orders[SlotOf(r)].amount = body[r].amount
  /\ Upper[orders[SlotOf(r)].currency] = Upper[body[r].currency]

FraudAgrees(r) == RunPrecheck(MerchantOf(r), body[r].amount, Upper[body[r].currency])

(* What was so when the request was sent bounds what can be so now: orders *)
(* are neither deleted nor reopened.                                       *)
Remembered(r) ==
  /\ body[r] \in Bodies
  /\ ~atSend[r].open => orders[SlotOf(r)].status \notin {"ABSENT", "CREATED"}
  /\ atSend[r].owned => orders[SlotOf(r)] # NoOrder

(* What the request has passed by the place it has reached. *)
Vouched(r) ==
  /\ at[r] \in InService \cup {"auth"} => Remembered(r)
  /\ at[r] \in InService \/ r \in outbox => "VALID" \in verdicts[r] /\ body[r] \in Bodies
  /\ at[r] = "auth" => ValidateMerchantApiKey(r) \in verdicts[r]
  /\ at[r] = "owner" => ~atSend[r].owned
  /\ at[r] \in {"fraud", "persist"} \/ r \in outbox => OrderAgrees(r)
  /\ at[r] = "persist" \/ r \in outbox => FraudAgrees(r)

(* What the client can have been told there. *)
Told(r) ==
  /\ calls[r] <= MaxRetries + 1 /\ calls[r] <= faults + 1
  /\ at[r] \notin {"refused", "answered"} => code[r] = "NONE"
  /\ at[r] = "answered" => code[r] \in Refusals \cup {"ACCEPTED", "INTERNAL", "UNAVAILABLE"}
  /\ at[r] = "refused" =>
       /\ code[r] \in {"MISSING_KEY", "UNAVAILABLE", "UNAUTHORIZED", "DISABLED"}
       /\ code[r] = "UNAVAILABLE" => calls[r] = MaxRetries + 1 /\ faults >= calls[r]
       /\ code[r] \in {"UNAUTHORIZED", "DISABLED"} => code[r] \in verdicts[r]

(* The rows of the table are the events of the outbox, and a request with  *)
(* a row is over.                                                          *)
Recorded(r) ==
  /\ r \in outbox <=> payments[SlotOf(r)] = r
  /\ r \in outbox => at[r] = "answered" /\ code[r] \in {"ACCEPTED", "INTERNAL"}

Inv == TypeOK /\ \A r \in Requests : Vouched(r) /\ Told(r) /\ Recorded(r)

(* What a step of a request leaves alone. *)
LEMMA Frame ==
  ASSUME TypeOK, NEW r \in Requests, RequestStep(r)
  PROVE  /\ UNCHANGED <<merchantVars, orders>>
         /\ faults' \in {faults, faults + 1}
         /\ \/ UNCHANGED <<payments, outbox>>
            \/ at[r] = "persist" /\ Insert(r)
  BY DEF RequestStep, Send, Authenticate, AuthenticateFails, FindByReference, ValidateOrder,
     FindOwner, FraudPrecheck, Persist, StepFails, tables, Fault, Insert

(* A step of a request keeps the types of what is its own. *)
LEMMA LocalType ==
  ASSUME TypeOK, NEW r \in Requests, RequestStep(r)
  PROVE  LocalTypeOK' /\ Others(r)
<1> USE SlotOK
<1>1. LocalTypeOK
  BY DEF TypeOK, LocalTypeOK
<1>2. CASE Send(r)
  <2>1. CASE End(r, "refused", "MISSING_KEY")
    BY <1>1, <2>1, EndType DEF At, Code
  <2>2. ASSUME NEW b \in Bodies, body' = [body EXCEPT ![r] = b], at' = [at EXCEPT ![r] = "auth"],
               atSend' = [atSend EXCEPT ![r] = Snapshot(r)], calls' = [calls EXCEPT ![r] = 1],
               verdicts' = [verdicts EXCEPT ![r] = {ValidateMerchantApiKey(r)}], UNCHANGED code
        PROVE  LocalTypeOK' /\ Others(r)
    <3>1. Snapshot(r) \in [owned : BOOLEAN, open : BOOLEAN]
      BY DEF Snapshot
    <3> QED
      BY <1>1, <2>2, <3>1, VerdictIs DEF LocalTypeOK, Others, At
  <2> QED
    BY <1>2, <2>1, <2>2 DEF Send
<1>3. CASE Authenticate(r)
  BY <1>1, <1>3, EndType, GoOnType DEF Authenticate, ValidateMerchantApiKey, At, Code
<1>4. CASE AuthenticateFails(r)
  <2>1. CASE End(r, "refused", "UNAVAILABLE")
    BY <1>1, <2>1, EndType DEF At, Code
  <2>2. CASE calls[r] <= MaxRetries /\ calls' = [calls EXCEPT ![r] = @ + 1] /\ UNCHANGED <<at, code, body, verdicts, atSend>>
    BY <1>1, <2>2, AdmissionAssumption DEF LocalTypeOK, Others
  <2> QED
    BY <1>4, <2>1, <2>2 DEF AuthenticateFails
<1>5. CASE FindByReference(r)
  BY <1>1, <1>5, EndType, GoOnType DEF FindByReference, At, Code, Refusals
<1>6. CASE ValidateOrder(r)
  <2>1. \E result \in {"VALID", "MISMATCH", "ALREADY_PAID", "BAD_REQUEST"} : OrderAnswer(r, result) \/ GoOn(r, "owner")
    BY <1>6, JudgeOrderIs DEF ValidateOrder
  <2> QED
    BY <1>1, <2>1, OrderAnswerIs, EndType, GoOnType DEF At, Code, Refusals
<1>7. CASE FindOwner(r)
  <2>1. \E result \in {"OWNERSHIP", "NOT_FOUND"} : OrderAnswer(r, result)
    BY <1>7 DEF FindOwner, JudgeMissing
  <2> QED
    BY <1>1, <2>1, OrderAnswerIs, EndType, GoOnType DEF At, Code, Refusals
<1>8. CASE FraudPrecheck(r)
  BY <1>1, <1>8, EndType, GoOnType DEF FraudPrecheck, At, Code, Refusals
<1>9. CASE Persist(r)
  BY <1>1, <1>9, EndType DEF Persist, At, Code
<1>10. CASE StepFails(r)
  BY <1>1, <1>10, EndType DEF StepFails, At, Code
<1> QED
  BY <1>2, <1>3, <1>4, <1>5, <1>6, <1>7, <1>8, <1>9, <1>10 DEF RequestStep

(* Every step keeps the types. *)
LEMMA NextType == TypeOK /\ [Next]_vars => TypeOK'
<1> SUFFICES ASSUME TypeOK, [Next]_vars PROVE TypeOK'
  OBVIOUS
<1>1. CASE OperatorStep
  BY <1>1, OperatorIs, OrdersStay DEF TypeOK, local
<1>2. ASSUME NEW r \in Requests, RequestStep(r) PROVE TypeOK'
  <2>1. LocalTypeOK'
    BY <1>2, LocalType
  <2>2. payments' \in [Slots -> Requests \cup {None}] /\ outbox' \subseteq Requests
    BY <1>2, Frame, SlotOK DEF TypeOK, Insert
  <2>3. MerchantTypeOK' /\ OrderTypeOK' /\ faults' \in Nat
    BY <1>2, Frame DEF TypeOK, MerchantTypeOK, OrderTypeOK, merchantVars
  <2> QED
    BY <2>1, <2>2, <2>3 DEF LocalTypeOK, TypeOK
<1>3. CASE UNCHANGED vars
  BY <1>3 DEF vars, TypeOK, MerchantTypeOK, OrderTypeOK
<1> QED
  BY <1>1, <1>2, <1>3 DEF Next

-----------------------------------------------------------------------------
(* Every step keeps the invariant.                                         *)

Own(r) == Vouched(r) /\ Told(r) /\ Recorded(r)

(* An answer without a row leaves nothing to vouch for. *)
LEMMA EndKeeps ==
  ASSUME Inv, NEW r \in Requests, at[r] # "answered", NEW how \in {"refused", "answered"}, NEW what \in Code,
         End(r, how, what), UNCHANGED <<payments, outbox, merchantVars, orders>>,
         faults' \in {faults, faults + 1},
         how = "answered" => what \in Refusals \cup {"ACCEPTED", "INTERNAL", "UNAVAILABLE"},
         how = "refused" =>
           \/ what = "MISSING_KEY"
           \/ what = "UNAVAILABLE" /\ calls[r] = MaxRetries + 1 /\ faults' >= calls[r]
           \/ what \in {"UNAUTHORIZED", "DISABLED"} /\ what \in verdicts[r]
  PROVE  Own(r)'
<1>1. LocalTypeOK /\ r \notin outbox /\ how \in At /\ faults \in Nat /\ MaxRetries \in Nat /\ calls[r] \in Nat
  BY AdmissionAssumption DEF Inv, TypeOK, LocalTypeOK, Recorded, At
<1>2. /\ at'[r] = how /\ code'[r] = what
      /\ calls'[r] \in {0, calls[r]}
      /\ how = "refused" => calls'[r] = calls[r] /\ (what \in verdicts[r] => what \in verdicts'[r])
  <2>1. /\ at'[r] = how /\ code'[r] = what
        /\ calls'[r] = IF how = "refused" THEN calls[r] ELSE 0
        /\ verdicts'[r] = IF r \in outbox' THEN verdicts[r] ELSE verdicts[r] \cap {what}
    BY <1>1, EndType, Zenon
  <2> QED
    BY <2>1
<1>3. r \notin outbox' /\ payments'[SlotOf(r)] # r
  BY <1>1 DEF Inv, Recorded
<1>4. Told(r)'
  BY <1>1, <1>2 DEF Inv, Told
<1> QED
  BY <1>1, <1>2, <1>3, <1>4 DEF Own, Vouched, Recorded, InService

(* A request that goes on has all its client was told and all its snapshot *)
(* says as before.                                                         *)
LEMMA GoOnKeeps ==
  ASSUME Inv, NEW r \in Requests, NEW to \in InService, at[r] \in InService \cup {"auth"},
         GoOn(r, to), UNCHANGED <<payments, outbox, merchantVars, orders, faults>>,
         "VALID" \in verdicts[r],
         to = "owner" => ~atSend[r].owned,
         to \in {"fraud", "persist"} => OrderAgrees(r),
         to = "persist" => FraudAgrees(r)
  PROVE  Own(r)'
<1>1. LocalTypeOK /\ to \in At /\ r \notin outbox
  BY DEF Inv, TypeOK, LocalTypeOK, At, InService, Recorded
<1>2. /\ at'[r] = to /\ code'[r] = code[r] /\ body'[r] = body[r]
      /\ atSend'[r] = atSend[r] /\ calls'[r] = calls[r] /\ verdicts'[r] = verdicts[r] \cap {"VALID"}
  BY <1>1, GoOnType
<1>3. Remembered(r) /\ Remembered(r)'
  BY <1>2 DEF Inv, Vouched, Remembered
<1>4. (OrderAgrees(r) => OrderAgrees(r)') /\ (FraudAgrees(r) => FraudAgrees(r)')
  BY <1>2 DEF OrderAgrees, FraudAgrees
<1>5. Vouched(r)'
  BY <1>1, <1>2, <1>3, <1>4 DEF Vouched, InService, Remembered
<1>6. Told(r)'
  BY <1>2 DEF Inv, Told, InService
<1>7. Recorded(r)'
  BY <1>1, <1>2 DEF Inv, Recorded
<1> QED
  BY <1>5, <1>6, <1>7 DEF Own

(* An insert makes the row of a request that every service agreed to. *)
LEMMA InsertKeeps ==
  ASSUME Inv, NEW r \in Requests, at[r] = "persist", Insert(r), UNCHANGED <<merchantVars, orders>>,
         faults' \in {faults, faults + 1},
         NEW what \in {"ACCEPTED", "INTERNAL"}, End(r, "answered", what)
  PROVE  Own(r)'
<1>1. LocalTypeOK /\ "answered" \in At /\ what \in Code /\ faults \in Nat /\ MaxRetries \in Nat
  BY AdmissionAssumption DEF Inv, TypeOK, LocalTypeOK, At, Code
<1>2. r \in outbox' /\ payments'[SlotOf(r)] = r
  BY SlotOK DEF Insert, Inv, TypeOK
<1>3. /\ at'[r] = "answered" /\ code'[r] = what /\ calls'[r] = 0 /\ body'[r] = body[r]
      /\ atSend'[r] = atSend[r] /\ verdicts'[r] = verdicts[r]
  <2>1. /\ at'[r] = "answered" /\ code'[r] = what
        /\ calls'[r] = IF "answered" = "refused" THEN calls[r] ELSE 0
        /\ verdicts'[r] = IF r \in outbox' THEN verdicts[r] ELSE verdicts[r] \cap {what}
        /\ body'[r] = IF r \in outbox' THEN body[r] ELSE None
        /\ atSend'[r] = IF r \in outbox' THEN atSend[r] ELSE Unsent
    BY <1>1, EndType, Zenon
  <2> QED
    BY <1>2, <2>1
<1>4. "VALID" \in verdicts[r] /\ body[r] \in Bodies /\ OrderAgrees(r) /\ FraudAgrees(r)
  BY DEF Inv, Vouched, InService
<1>5. Vouched(r)'
  BY <1>3, <1>4 DEF Vouched, OrderAgrees, FraudAgrees, InService
<1>6. Told(r)'
  BY <1>1, <1>3 DEF Told
<1>7. Recorded(r)'
  BY <1>2, <1>3 DEF Recorded
<1> QED
  BY <1>5, <1>6, <1>7 DEF Own

(* The request that moves. *)
LEMMA OwnNext ==
  ASSUME Inv, NEW r \in Requests, RequestStep(r)
  PROVE  Own(r)'
<1> USE SlotOK
<1>1. /\ LocalTypeOK /\ faults \in Nat /\ MaxRetries \in Nat /\ calls[r] \in Nat
      /\ orders[SlotOf(r)] \in Order \cup {NoOrder}
  BY AdmissionAssumption DEF Inv, TypeOK, LocalTypeOK, OrderTypeOK
<1>2. CASE Send(r)
  <2>1. CASE End(r, "refused", "MISSING_KEY")
    BY <1>2, <2>1, EndKeeps DEF Send, tables, Code
  <2>2. ASSUME NEW b \in Bodies, body' = [body EXCEPT ![r] = b], at' = [at EXCEPT ![r] = "auth"],
               atSend' = [atSend EXCEPT ![r] = Snapshot(r)], calls' = [calls EXCEPT ![r] = 1],
               verdicts' = [verdicts EXCEPT ![r] = {ValidateMerchantApiKey(r)}], UNCHANGED code
        PROVE  Own(r)'
    <3>1. /\ at'[r] = "auth" /\ body'[r] = b /\ atSend'[r] = Snapshot(r) /\ UNCHANGED <<tables, faults>>
          /\ at[r] = "new" /\ calls'[r] = 1 /\ verdicts'[r] = {ValidateMerchantApiKey(r)}
      BY <1>1, <1>2, <2>2 DEF LocalTypeOK, Send
    <3>2. Remembered(r)'
      <4>1. /\ atSend'[r].owned = (orders[SlotOf(r)] # NoOrder)
            /\ atSend'[r].open = (orders[SlotOf(r)].status \in {"ABSENT", "CREATED"})
        BY <3>1 DEF Snapshot
      <4> QED
        BY <3>1, <4>1 DEF Remembered, tables
    <3>3. r \notin outbox
      BY <3>1 DEF Inv, Recorded
    <3>4. Vouched(r)'
      BY <3>1, <3>2, <3>3 DEF Vouched, InService, tables, merchantVars, ValidateMerchantApiKey
    <3>5. Told(r)' /\ Recorded(r)'
      BY <1>1, <2>2, <3>1 DEF Inv, Told, Recorded, tables
    <3> QED
      BY <3>4, <3>5 DEF Own
  <2> QED
    BY <1>2, <2>1, <2>2 DEF Send
<1>3. CASE Authenticate(r)
  <2>1. CASE ValidateMerchantApiKey(r) = "VALID" /\ GoOn(r, "find")
    <3>1. "VALID" \in verdicts[r]
      BY <1>3, <2>1 DEF Authenticate, Inv, Vouched
    <3> QED
      BY <1>3, <2>1, <3>1, GoOnKeeps DEF Authenticate, InService, tables
  <2>2. CASE ValidateMerchantApiKey(r) # "VALID" /\ End(r, "refused", ValidateMerchantApiKey(r))
    <3>1. PICK what \in {"UNAUTHORIZED", "DISABLED"} :
            what = ValidateMerchantApiKey(r) /\ what \in verdicts[r] /\ End(r, "refused", what)
      BY <1>3, <2>2, VerdictIs DEF Authenticate, Verdicts, Inv, Vouched
    <3> QED
      BY <1>3, <3>1, EndKeeps DEF Authenticate, Code, tables
  <2> QED
    BY <1>3, <2>1, <2>2 DEF Authenticate
<1>4. CASE AuthenticateFails(r)
  <2>1. CASE calls[r] > MaxRetries /\ End(r, "refused", "UNAVAILABLE")
    <3>1. calls[r] = MaxRetries + 1 /\ faults' >= calls[r]
      BY <1>1, <1>4, <2>1 DEF Inv, Told, AuthenticateFails, Fault
    <3> QED
      BY <1>4, <2>1, <3>1, EndKeeps DEF AuthenticateFails, Fault, Code, tables
  <2>2. CASE /\ calls[r] <= MaxRetries /\ calls' = [calls EXCEPT ![r] = @ + 1]
             /\ UNCHANGED <<at, code, body, verdicts, atSend>>
    <3>1. calls'[r] = calls[r] + 1 /\ faults' = faults + 1 /\ UNCHANGED tables /\ at[r] = "auth"
      BY <1>1, <1>4, <2>2 DEF AuthenticateFails, Fault, LocalTypeOK
    <3>2. Told(r)'
      BY <1>1, <2>2, <3>1 DEF Inv, Told, tables
    <3>3. Vouched(r)' /\ Recorded(r)'
      BY <2>2, <3>1 DEF Inv, Vouched, Recorded, Remembered, OrderAgrees, FraudAgrees, InService, tables, merchantVars,
                              ValidateMerchantApiKey
    <3> QED
      BY <3>2, <3>3 DEF Own
  <2> QED
    BY <1>4, <2>1, <2>2 DEF AuthenticateFails
<1>5. ASSUME at[r] \in InService
      PROVE  "VALID" \in verdicts[r] /\ Remembered(r)
  BY <1>5 DEF Inv, Vouched
<1>6. CASE FindByReference(r)
  BY <1>6, <1>5, EndKeeps, GoOnKeeps DEF FindByReference, InService, Code, Refusals, tables
<1>7. CASE ValidateOrder(r)
  <2>1. CASE GoOn(r, "owner") /\ orders[SlotOf(r)] = NoOrder
    <3>1. ~atSend[r].owned
      BY <1>5, <1>7, <2>1 DEF ValidateOrder, Remembered, InService
    <3> QED
      BY <1>5, <1>7, <2>1, <3>1, GoOnKeeps DEF ValidateOrder, InService, tables
  <2>2. CASE OrderAnswer(r, JudgeOrder(orders[SlotOf(r)], body[r])) /\ orders[SlotOf(r)] # NoOrder
    <3>1. CASE JudgeOrder(orders[SlotOf(r)], body[r]) = "VALID"
      <4>1. GoOn(r, "fraud")
        BY <2>2, <3>1, OrderAnswerIs
      <4>2. OrderAgrees(r)
        BY <1>1, <1>5, <1>7, <2>2, <3>1, JudgeOrderIs DEF ValidateOrder, OrderAgrees, Remembered, InService, LocalTypeOK
      <4> QED
        BY <1>5, <1>7, <4>1, <4>2, GoOnKeeps DEF ValidateOrder, InService, tables
    <3>2. CASE JudgeOrder(orders[SlotOf(r)], body[r]) # "VALID"
      <4>1. PICK what \in {"MISMATCH", "ALREADY_PAID"} : End(r, "answered", what)
        BY <2>2, <3>2, OrderAnswerIs, JudgeOrderIs
      <4> QED
        BY <1>7, <4>1, EndKeeps DEF ValidateOrder, Code, Refusals, tables
    <3> QED
      BY <3>1, <3>2
  <2>3. CASE OrderAnswer(r, "BAD_REQUEST")
    BY <1>7, <2>3, OrderAnswerIs, EndKeeps DEF ValidateOrder, Code, Refusals, tables
  <2> QED
    BY <1>7, <2>1, <2>2, <2>3 DEF ValidateOrder
<1>8. CASE FindOwner(r)
  <2>1. End(r, "answered", "NOT_FOUND")
    BY <1>8, OrderAnswerIs DEF FindOwner, JudgeMissing
  <2> QED
    BY <1>8, <2>1, EndKeeps DEF FindOwner, Code, Refusals, tables
<1>9. CASE FraudPrecheck(r)
  <2>1. at[r] = "fraud" => OrderAgrees(r)
    BY DEF Inv, Vouched
  <2>2. CASE FraudAgrees(r) /\ GoOn(r, "persist")
    BY <1>9, <1>5, <2>1, <2>2, GoOnKeeps DEF FraudPrecheck, InService, tables
  <2>3. CASE End(r, "answered", "FRAUD")
    BY <1>9, <2>3, EndKeeps DEF FraudPrecheck, Code, Refusals, tables
  <2> QED
    BY <1>9, <2>2, <2>3 DEF FraudPrecheck, FraudAgrees
<1>10. CASE Persist(r)
  BY <1>10, EndKeeps, InsertKeeps DEF Persist, Code
<1>11. CASE StepFails(r)
  <2>1. CASE at[r] = "persist" /\ Insert(r)
    BY <1>11, <2>1, InsertKeeps DEF StepFails, Fault
  <2>2. CASE UNCHANGED <<payments, outbox>>
    BY <1>11, <2>2, EndKeeps DEF StepFails, Fault, Code
  <2> QED
    BY <1>11, <2>1, <2>2 DEF StepFails
<1> QED
  BY <1>2, <1>3, <1>4, <1>6, <1>7, <1>8, <1>9, <1>10, <1>11 DEF RequestStep

(* A request that is at rest while another moves. *)
LEMMA OthersNext ==
  ASSUME Inv, NEW r \in Requests, RequestStep(r), NEW q \in Requests \ {r}
  PROVE  Own(q)'
<1>1. /\ at'[q] = at[q] /\ code'[q] = code[q] /\ body'[q] = body[q]
      /\ atSend'[q] = atSend[q] /\ calls'[q] = calls[q] /\ verdicts'[q] = verdicts[q]
  BY LocalType DEF Inv, Others
<1>2. UNCHANGED <<merchantVars, orders>> /\ faults' \in {faults, faults + 1} /\ faults \in Nat /\ calls[q] \in Nat
      /\ MaxRetries \in Nat
  BY Frame, AdmissionAssumption DEF Inv, TypeOK
<1>3. (q \in outbox' <=> q \in outbox) /\ (payments'[SlotOf(q)] = q <=> payments[SlotOf(q)] = q)
  BY Frame, SlotOK, RequestsAssumption DEF Inv, TypeOK, Insert
<1>4. Vouched(q)'
  BY <1>1, <1>2, <1>3 DEF Inv, Vouched, Remembered, OrderAgrees, FraudAgrees, merchantVars, ValidateMerchantApiKey
<1>5. Told(q)'
  BY <1>1, <1>2 DEF Inv, Told, merchantVars
<1>6. Recorded(q)'
  BY <1>1, <1>3 DEF Inv, Recorded
<1> QED
  BY <1>4, <1>5, <1>6 DEF Own

(* Operators take nothing back that was vouched for when it was. *)
LEMMA OperatorNext ==
  ASSUME Inv, OperatorStep, NEW r \in Requests
  PROVE  Own(r)'
<1>1. /\ UNCHANGED <<payments, outbox, local, at, code, faults>>
      /\ verdicts[r] \subseteq verdicts'[r]
      /\ at[r] = "auth" => ValidateMerchantApiKey(r)' \in verdicts'[r]
  BY OperatorIs DEF Inv
<1>2. /\ OrderStays(SlotOf(r)) 
      /\ orders[SlotOf(r)] \in Order \cup {NoOrder} /\ orders'[SlotOf(r)] \in Order \cup {NoOrder}
  BY OrdersStay, SlotOK DEF Inv, TypeOK, OrderTypeOK
<1>3. Remembered(r) => Remembered(r)'
  BY <1>1, <1>2, NoOrderIsNone DEF Remembered, OrderStays, local
<1>4. OrderAgrees(r) => OrderAgrees(r)'
  BY <1>1, <1>2 DEF OrderAgrees, OrderStays, local
<1>5. FraudAgrees(r) => FraudAgrees(r)'
  BY <1>1 DEF FraudAgrees, local
<1>6. Vouched(r)'
  BY <1>1, <1>3, <1>4, <1>5 DEF Inv, Vouched, local
<1>7. Told(r)' /\ Recorded(r)'
  BY <1>1 DEF Inv, Told, Recorded, local
<1> QED
  BY <1>6, <1>7 DEF Own

(* The invariant holds initially. *)
LEMMA InitInv == Init => Inv
<1> SUFFICES ASSUME Init PROVE Inv
  OBVIOUS
<1>1. Unsent \in [owned : BOOLEAN, open : BOOLEAN]
  BY DEF Unsent
<1> HIDE DEF Unsent
<1>2. TypeOK
  BY <1>1, AdmissionAssumption
  DEF Init, TypeOK, MerchantInit, MerchantTypeOK, OrderInit, OrderTypeOK, At, Code
<1>3. ASSUME NEW r \in Requests PROVE Vouched(r) /\ Told(r) /\ Recorded(r)
  <2>1. at[r] = "new" /\ code[r] = "NONE" /\ calls[r] = 0 /\ faults = 0
    BY DEF Init
  <2>2. r \notin outbox /\ payments[SlotOf(r)] # r
    BY SlotOK, RequestsAssumption DEF Init
  <2> QED
    BY <2>1, <2>2, AdmissionAssumption DEF Vouched, Told, Recorded, InService
<1> QED
  BY <1>2, <1>3 DEF Inv

(* Every step keeps it. *)
LEMMA NextInv == Inv /\ [Next]_vars => Inv'
<1> SUFFICES ASSUME Inv, [Next]_vars PROVE Inv'
  OBVIOUS
<1>1. TypeOK'
  BY NextType DEF Inv
<1>2. \A q \in Requests : Own(q)'
  <2>1. CASE OperatorStep
    BY <2>1, OperatorNext
  <2>2. ASSUME NEW r \in Requests, RequestStep(r) PROVE \A q \in Requests : Own(q)'
    BY <2>2, OwnNext, OthersNext
  <2>3. CASE UNCHANGED vars
    BY <2>3 DEF vars, Inv, Own, Vouched, Told, Recorded, Remembered, OrderAgrees, FraudAgrees, ValidateMerchantApiKey
  <2> QED
    BY <2>1, <2>2, <2>3 DEF Next
<1> QED
  BY <1>1, <1>2 DEF Inv, Own

-----------------------------------------------------------------------------

(* The inductive invariant: at every step of a request, what it has passed *)
(* and what its client was told agree with the tables of the services.     *)
THEOREM AdmissionInvariant == Spec => []Inv
  BY InitInv, NextInv, PTL DEF Spec

(* No payment without a good key, an order that matches and could be paid, *)
(* and the fraud service's approval, whatever happens to keys, merchants   *)
(* and orders between the checks: keys and merchants may be reinstated.    *)
THEOREM PaymentIsVouchedForHolds == Spec => []PaymentIsVouchedFor
<1>1. Inv => PaymentIsVouchedFor
  <2> SUFFICES ASSUME Inv, NEW r \in outbox
               PROVE  /\ payments[SlotOf(r)] = r
                      /\ "VALID" \in verdicts[r]
                      /\ OrderAgrees(r)
                      /\ FraudAgrees(r)
                      /\ orders[SlotOf(r)].status # "ABSENT"
    BY DEF PaymentIsVouchedFor, OrderAgrees, FraudAgrees, RunPrecheck, AmountThresholdRule,
       UnsupportedCurrencyRule, BlacklistedMerchantRule
  <2>1. r \in Requests
    BY DEF Inv, TypeOK
  <2>2. orders[SlotOf(r)] \in Order \cup {NoOrder}
    BY <2>1, SlotOK DEF Inv, TypeOK, OrderTypeOK
  <2>3. OrderAgrees(r)
    BY <2>1 DEF Inv, Vouched
  <2> QED
    BY <2>1, <2>2, <2>3, NoOrderIsNone DEF Inv, Vouched, Recorded, OrderAgrees
<1> QED
  BY <1>1, AdmissionInvariant, PTL

(* A client is refused for good only by an answer the merchant service had *)
(* while it waited, and told 503 when every retry has failed and no later. *)
THEOREM RetriesAbsorbHolds == Spec => []RetriesAbsorb
<1>1. Inv => RetriesAbsorb
  BY DEF Inv, Told, RetriesAbsorb
<1> QED
  BY <1>1, AdmissionInvariant, PTL

(* What a client learns about orders is about its own. *)
THEOREM OrdersArePrivateHolds == Spec => OrdersArePrivate
<1>1. Inv /\ [Next]_vars =>
        [\A r \in Requests : code'[r] # code[r] =>
           /\ code'[r] = "NOT_FOUND" => ~atSend[r].owned
           /\ code'[r] \in {"MISMATCH", "ALREADY_PAID"} => orders[SlotOf(r)] # NoOrder
           /\ code'[r] = "ALREADY_PAID" => orders[SlotOf(r)].status # "CREATED"]_vars
  <2> SUFFICES ASSUME Inv, Next, NEW r \in Requests, code'[r] # code[r]
               PROVE  /\ code'[r] = "NOT_FOUND" => ~atSend[r].owned
                      /\ code'[r] \in {"MISMATCH", "ALREADY_PAID"} => orders[SlotOf(r)] # NoOrder
                      /\ code'[r] = "ALREADY_PAID" => orders[SlotOf(r)].status # "CREATED"
    OBVIOUS
  <2>1. RequestStep(r)
    BY OperatorIs, LocalType DEF Next, Inv, Others
  <2>2. LocalTypeOK
    BY DEF Inv, TypeOK, LocalTypeOK
  <2>3. CASE ValidateOrder(r)
    <3>1. CASE GoOn(r, "owner")
      BY <3>1 DEF GoOn
    <3>2. CASE OrderAnswer(r, "BAD_REQUEST")
      <4>1. End(r, "answered", "INTERNAL")
        BY <3>2, OrderAnswerIs
      <4>2. code'[r] = "INTERNAL"
        BY <2>2, <4>1, EndType DEF At, Code
      <4> QED
        BY <4>2
    <3>3. CASE orders[SlotOf(r)] # NoOrder /\ OrderAnswer(r, JudgeOrder(orders[SlotOf(r)], body[r]))
      <4>1. CASE GoOn(r, "fraud")
        BY <4>1 DEF GoOn
      <4>2. ASSUME NEW what \in {"MISMATCH", "ALREADY_PAID"}, what = JudgeOrder(orders[SlotOf(r)], body[r]),
                   End(r, "answered", what)
            PROVE  code'[r] = what
        BY <2>2, <4>2, EndType DEF At, Code, Refusals
      <4> QED
        BY <3>3, <4>1, <4>2, OrderAnswerIs, JudgeOrderIs
    <3> QED
      BY <2>3, <3>1, <3>2, <3>3 DEF ValidateOrder
  <2>4. CASE FindOwner(r)
    <3>1. End(r, "answered", "NOT_FOUND")
      BY <2>4, OrderAnswerIs DEF FindOwner, JudgeMissing
    <3>2. code'[r] = "NOT_FOUND"
      BY <2>2, <3>1, EndType DEF At, Code, Refusals
    <3> QED
      BY <2>4, <3>2 DEF FindOwner, Inv, Vouched
  <2>5. CASE ~ValidateOrder(r) /\ ~FindOwner(r)
    <3>1. code'[r] \in {"MISSING_KEY", "UNAUTHORIZED", "DISABLED", "UNAVAILABLE", "BAD_REQUEST",
                        "DUPLICATE", "FRAUD", "ACCEPTED", "INTERNAL"}
      BY <2>1, <2>2, <2>5
      DEF RequestStep, Send, Authenticate, AuthenticateFails, FindByReference, FraudPrecheck, Persist,
          StepFails, ValidateMerchantApiKey, GoOn, End, LocalTypeOK
    <3> QED
      BY <3>1
  <2> QED
    BY <2>3, <2>4, <2>5
<1> QED
  BY <1>1, AdmissionInvariant, PTL DEF Spec, OrdersArePrivate

-----------------------------------------------------------------------------
(* Refinement.                                                             *)

(* The call of each request as PaymentService sees it. *)
Pay == [r \in Requests |-> [at |-> AbstractAt(r), reply |-> AbstractReply(r)]]

Shown(what) ==
  IF what = "ACCEPTED" THEN "ACCEPTED" ELSE IF what \in Refusals THEN "REJECTED" ELSE "ERROR"

(* A step of a request that the payment service is working on. *)
LEMMA PayEnds ==
  ASSUME Inv, NEW r \in Requests, RequestStep(r),
         NEW what \in Refusals \cup {"ACCEPTED", "INTERNAL", "UNAVAILABLE"}, End(r, "answered", what)
  PROVE  Pay' = [Pay EXCEPT ![r] = [at |-> "answered", reply |-> Shown(what)]]
<1>1. LocalTypeOK /\ "answered" \in At /\ what \in Code
  BY DEF Inv, TypeOK, LocalTypeOK, At, Code, Refusals
<1>2. at'[r] = "answered" /\ code'[r] = what
  BY <1>1, EndType
<1>3. AbstractAt(r)' = "answered" /\ AbstractReply(r)' = Shown(what)
  BY <1>2 DEF AbstractAt, AbstractReply, Shown, Refusals
<1>4. \A q \in Requests \ {r} : at'[q] = at[q] /\ code'[q] = code[q]
  BY LocalType DEF Inv, Others
<1>5. \A q \in Requests \ {r} : AbstractAt(q)' = AbstractAt(q) /\ AbstractReply(q)' = AbstractReply(q)
  BY <1>4 DEF AbstractAt, AbstractReply
<1> QED
  BY <1>3, <1>5 DEF Pay

(* A request that goes on moves its call of PaymentService. *)
LEMMA PayGoesOn ==
  ASSUME Inv, NEW r \in Requests, RequestStep(r), at[r] \notin {"refused", "answered"},
         NEW to \in InService, GoOn(r, to)
  PROVE  Pay' = [Pay EXCEPT ![r] = [at |-> IF to = "owner" THEN "order" ELSE to, reply |-> "NONE"]]
<1>1. LocalTypeOK /\ to \in At
  BY DEF Inv, TypeOK, LocalTypeOK, At, InService
<1>2. at'[r] = to /\ code'[r] = "NONE"
  BY <1>1, GoOnType DEF Inv, Told
<1>3. AbstractAt(r)' = (IF to = "owner" THEN "order" ELSE to) /\ AbstractReply(r)' = "NONE"
  BY <1>2 DEF AbstractAt, AbstractReply, InService, Refusals
<1>4. \A q \in Requests \ {r} : at'[q] = at[q] /\ code'[q] = code[q]
  BY LocalType DEF Inv, Others
<1>5. \A q \in Requests \ {r} : AbstractAt(q)' = AbstractAt(q) /\ AbstractReply(q)' = AbstractReply(q)
  BY <1>4 DEF AbstractAt, AbstractReply
<1> QED
  BY <1>3, <1>5 DEF Pay

(* A step the payment service does not see. *)
LEMMA PayUnseen ==
  ASSUME Inv, Inv',
         \A q \in Requests :
           \/ at'[q] = at[q] /\ code'[q] = code[q]
           \/ at[q] \in {"new", "auth", "refused"} /\ at'[q] \in {"new", "auth", "refused"}
  PROVE  Pay' = Pay
<1>1. \A q \in Requests : AbstractAt(q)' = AbstractAt(q) /\ AbstractReply(q)' = AbstractReply(q)
  <2> SUFFICES ASSUME NEW q \in Requests
               PROVE  AbstractAt(q)' = AbstractAt(q) /\ AbstractReply(q)' = AbstractReply(q)
    OBVIOUS
  <2>1. CASE at'[q] = at[q] /\ code'[q] = code[q]
    BY <2>1 DEF AbstractAt, AbstractReply
  <2>2. CASE at[q] \in {"new", "auth", "refused"} /\ at'[q] \in {"new", "auth", "refused"}
    <3>1. /\ code[q] \in {"NONE", "MISSING_KEY", "UNAVAILABLE", "UNAUTHORIZED", "DISABLED"}
          /\ code'[q] \in {"NONE", "MISSING_KEY", "UNAVAILABLE", "UNAUTHORIZED", "DISABLED"}
      BY <2>2 DEF Inv, Told
    <3> QED
      BY <2>2, <3>1 DEF AbstractAt, AbstractReply, Refusals
  <2> QED
    BY <2>1, <2>2
<1> QED
  BY <1>1 DEF Pay

(* Where PaymentService sees a request that is at work. *)
LEMMA PayAt ==
  ASSUME Inv, NEW r \in Requests
  PROVE  /\ at[r] \in {"new", "auth"} => Pay[r] = [at |-> "off", reply |-> "NONE"]
         /\ at[r] \in InService => Pay[r] = [at |-> IF at[r] = "owner" THEN "order" ELSE at[r], reply |-> "NONE"]
<1>1. at[r] \in InService \cup {"new", "auth"} => code[r] = "NONE"
  BY DEF Inv, Told, InService
<1> QED
  BY <1>1 DEF Pay, AbstractAt, AbstractReply, InService, Refusals

(* Going on as PaymentService says it. *)
LEMMA PayContinues ==
  ASSUME Inv, NEW r \in Requests, RequestStep(r), at[r] \in InService \cup {"auth"},
         NEW to \in InService \ {"owner"}, GoOn(r, to)
  PROVE  Payment!ContinuePay(r, to)
<1>1. Pay' = [Pay EXCEPT ![r] = [at |-> to, reply |-> "NONE"]]
  BY PayGoesOn DEF InService
<1>2. PICK from : Pay[r] = [at |-> from, reply |-> "NONE"]
  BY PayAt
<1>3. [Pay[r] EXCEPT !.at = to] = [at |-> to, reply |-> "NONE"]
  BY <1>2
<1>4. Pay' = [Pay EXCEPT ![r].at = to]
  BY <1>1, <1>3
<1> QED
  BY <1>4 DEF Payment!ContinuePay, Pay

(* A step of the detailed system is one of PaymentService or none of it. *)
LEMMA PayNext ==
  ASSUME Inv, Inv', Next
  PROVE  [Payment!PaymentNext]_(Payment!paymentVars)
<1>1. CASE OperatorStep
  <2>1. UNCHANGED <<payments, outbox, at, code>>
    BY <1>1, OperatorIs DEF Inv
  <2> QED
    BY <2>1, PayUnseen DEF Payment!paymentVars, Pay
<1>2. ASSUME NEW r \in Requests, RequestStep(r)
      PROVE  [Payment!PaymentNext]_(Payment!paymentVars)
  <2>1. \A q \in Requests \ {r} : at'[q] = at[q] /\ code'[q] = code[q]
    BY <1>2, LocalType DEF Inv, Others
  <2>2. LocalTypeOK
    BY DEF Inv, TypeOK, LocalTypeOK
  <2>3. CASE Send(r) \/ AuthenticateFails(r)
    <3>1. at[r] = "auth" \/ at[r] = "new"
      BY <2>3 DEF Send, AuthenticateFails
    <3>2. at'[r] \in {"auth", "refused"} /\ UNCHANGED <<payments, outbox>>
      BY <2>2, <2>3 DEF Send, AuthenticateFails, tables, End, LocalTypeOK
    <3> QED
      BY <2>1, <3>1, <3>2, PayUnseen DEF Payment!paymentVars, Pay
  <2>4. CASE Authenticate(r)
    <3>1. CASE GoOn(r, "find")
      BY <1>2, <2>4, <3>1, PayAt, PayContinues
      DEF Authenticate, tables, InService, Pay, Payment!PaymentNext, Payment!Call
    <3>2. CASE End(r, "refused", ValidateMerchantApiKey(r))
      <4>1. at'[r] = "refused" /\ at[r] = "auth" /\ UNCHANGED <<payments, outbox>>
        BY <2>2, <2>4, <3>2 DEF Authenticate, tables, End, LocalTypeOK
      <4> QED
        BY <2>1, <4>1, PayUnseen DEF Payment!paymentVars, Pay
    <3> QED
      BY <2>4, <3>1, <3>2 DEF Authenticate
  <2>5. CASE FindByReference(r)
    <3>1. at[r] = "find" /\ UNCHANGED <<payments, outbox>>
      BY <2>5 DEF FindByReference, tables
    <3>2. CASE payments[SlotOf(r)] = None /\ GoOn(r, "order")
      BY <1>2, <3>1, <3>2, PayAt, PayContinues
      DEF InService, Pay, Payment!PaymentNext, Payment!PayStep, Payment!FindByReference
    <3>3. ASSUME NEW what \in {"BAD_REQUEST", "DUPLICATE"}, End(r, "answered", what)
          PROVE  Payment!RefuseBody(r)
      BY <1>2, <3>1, <3>3, PayAt, PayEnds
      DEF InService, Pay, Shown, Refusals, Payment!RefuseBody, Payment!PayReply
    <3> QED
      BY <2>5, <3>2, <3>3 DEF FindByReference, Payment!PaymentNext, Payment!PayStep
  <2>6. CASE ValidateOrder(r) \/ FindOwner(r)
    <3>1. at[r] \in {"order", "owner"} /\ UNCHANGED <<payments, outbox>>
      BY <2>6 DEF ValidateOrder, FindOwner, tables
    <3>2. CASE at[r] = "order" /\ GoOn(r, "owner")
      <4>1. Pay' = [Pay EXCEPT ![r] = [at |-> "order", reply |-> "NONE"]]
        BY <1>2, <3>2, PayGoesOn DEF InService
      <4>2. Pay[r] = [at |-> "order", reply |-> "NONE"]
        BY <3>2, PayAt DEF InService
      <4>3. Pay' = Pay
        BY <4>1, <4>2 DEF Pay
      <4> QED
        BY <3>1, <4>3 DEF Payment!paymentVars, Pay
    <3>3. CASE GoOn(r, "fraud")
      BY <1>2, <3>1, <3>3, PayAt, PayContinues
      DEF InService, Pay, Payment!PaymentNext, Payment!PayStep, Payment!ValidateOrder
    <3>4. ASSUME NEW what \in {"NOT_FOUND", "MISMATCH", "ALREADY_PAID", "INTERNAL"}, End(r, "answered", what)
          PROVE  Payment!ValidateOrder(r)
      BY <1>2, <3>1, <3>4, PayAt, PayEnds
      DEF InService, Pay, Shown, Refusals, Payment!ValidateOrder, Payment!PayReply
    <3>5. \/ at[r] = "order" /\ GoOn(r, "owner")
          \/ \E result \in {"VALID", "MISMATCH", "ALREADY_PAID", "OWNERSHIP", "NOT_FOUND", "BAD_REQUEST"} :
               OrderAnswer(r, result)
      BY <2>6, JudgeOrderIs DEF ValidateOrder, FindOwner, JudgeMissing
    <3> QED
      BY <3>2, <3>3, <3>4, <3>5, OrderAnswerIs DEF Payment!PaymentNext, Payment!PayStep
  <2>7. CASE FraudPrecheck(r)
    <3>1. at[r] = "fraud" /\ UNCHANGED <<payments, outbox>>
      BY <2>7 DEF FraudPrecheck, tables
    <3>2. CASE GoOn(r, "persist")
      BY <1>2, <3>1, <3>2, PayAt, PayContinues
      DEF InService, Pay, Payment!PaymentNext, Payment!PayStep, Payment!FraudPrecheck
    <3>3. CASE End(r, "answered", "FRAUD")
      BY <1>2, <3>1, <3>3, PayAt, PayEnds
      DEF InService, Pay, Shown, Refusals, Payment!PaymentNext, Payment!PayStep, Payment!FraudPrecheck, Payment!PayReply
    <3> QED
      BY <2>7, <3>2, <3>3 DEF FraudPrecheck
  <2>8. CASE Persist(r)
    <3>1. CASE Insert(r) /\ End(r, "answered", "ACCEPTED")
      BY <1>2, <2>8, <3>1, PayAt, PayEnds
      DEF Persist, Insert, InService, Pay, Shown, Payment!PaymentNext, Payment!PayStep, Payment!Persist,
          Payment!Insert, Payment!PayReply
    <3>2. CASE payments[SlotOf(r)] # None /\ UNCHANGED <<payments, outbox>> /\ End(r, "answered", "INTERNAL")
      BY <1>2, <2>8, <3>2, PayAt, PayEnds
      DEF Persist, InService, Pay, Shown, Refusals, Payment!PaymentNext, Payment!PayStep, Payment!Persist,
          Payment!PayReply
    <3> QED
      BY <2>8, <3>1, <3>2 DEF Persist
  <2>9. CASE StepFails(r)
    <3>1. PICK what \in {"UNAVAILABLE", "INTERNAL"} :
            /\ End(r, "answered", what)
            /\ at[r] \in InService
      BY <2>9 DEF StepFails, InService
    <3>2. Pay' = [Pay EXCEPT ![r] = [at |-> "answered", reply |-> "ERROR"]]
      BY <1>2, <3>1, PayEnds DEF Shown, Refusals
    <3>3. CASE at[r] \in {"find", "persist"}
      BY <2>9, <3>2, <3>3, PayAt
      DEF StepFails, InService, Insert, Pay, Payment!PaymentNext, Payment!DatabaseFails, Payment!PayReply,
          Payment!Insert
    <3>4. CASE at[r] \in {"order", "owner"}
      BY <2>9, <3>2, <3>4, PayAt
      DEF StepFails, InService, Pay, Payment!PaymentNext, Payment!PayStep, Payment!ValidateOrder, Payment!PayReply
    <3>5. CASE at[r] = "fraud"
      BY <2>9, <3>2, <3>5, PayAt
      DEF StepFails, InService, Pay, Payment!PaymentNext, Payment!PayStep, Payment!FraudPrecheck, Payment!PayReply
    <3> QED
      BY <3>1, <3>3, <3>4, <3>5 DEF InService
  <2> QED
    BY <1>2, <2>3, <2>4, <2>5, <2>6, <2>7, <2>8, <2>9 DEF RequestStep
<1> QED
  BY <1>1, <1>2 DEF Next

(* createPayment with its real rules is a behaviour of PaymentService, on  *)
(* which the theorems about the gateway rest.                              *)
THEOREM ImplementsPaymentServiceHolds == Spec => ImplementsPaymentService
<1>1. Init => Payment!PaymentInit
  <2> SUFFICES ASSUME Init PROVE Payment!PaymentInit
    OBVIOUS
  <2>1. \A r \in Requests : Pay[r] = [at |-> "off", reply |-> "NONE"]
    BY InitInv, PayAt DEF Init
  <2>2. Pay = [r \in Requests |-> [at |-> "off", reply |-> "NONE"]]
    BY <2>1 DEF Pay
  <2> QED
    BY <2>2 DEF Init, Payment!PaymentInit, Pay
<1>2. Inv /\ Inv' /\ [Next]_vars => [Payment!PaymentNext]_(Payment!paymentVars)
  <2>1. UNCHANGED vars => UNCHANGED Payment!paymentVars
    BY DEF vars, Payment!paymentVars, AbstractAt, AbstractReply
  <2> QED
    BY <2>1, PayNext
<1> QED
  BY <1>1, <1>2, AdmissionInvariant, PTL DEF Spec, ImplementsPaymentService, Payment!PaymentSpec

=============================================================================
