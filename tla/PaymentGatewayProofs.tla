------------------------ MODULE PaymentGatewayProofs ------------------------
(***************************************************************************)
(* Theorems about PaymentGateway for every set of requests, keys,           *)
(* checksums and references, and every bound on faults and expiries.       *)
(***************************************************************************)
EXTENDS PaymentGateway, TLAPS

-----------------------------------------------------------------------------
(* Types.                                                                  *)

(* Types hold initially. *)
LEMMA InitType == Init => TypeOK
  BY KeysAssumption, ReferencesAssumption
  DEF Init, TypeOK, IdempotencyInit, IdempotencyTypeOK, PaymentInit, PaymentTypeOK, NoCheck,
      CheckCall, CheckReply, PayCall, Gate, Answer

(* Where a call goes on, and what it answers, is a call again. *)
LEMMA CheckUpdate ==
  ASSUME check \in [Requests -> CheckCall], NEW r \in Requests
  PROVE  /\ \A at \in {"acquire", "find", "reacquire", "refind"} :
              ContinueCheck(r, at) => check' \in [Requests -> CheckCall]
         /\ \A reply \in CheckReply, body \in Requests \cup {None} :
              Reply(r, reply, body) => check' \in [Requests -> CheckCall]
<1>1. \A at \in {"acquire", "find", "reacquire", "refind"} : [check[r] EXCEPT !.at = at] \in CheckCall
  BY DEF CheckCall
<1>2. \A reply \in CheckReply, body \in Requests \cup {None} :
        [at |-> "answered", reply |-> reply, body |-> body] \in CheckCall
  BY DEF CheckCall
<1> QED
  BY <1>1, <1>2 DEF ContinueCheck, Reply

(* The same for createPayment. *)
LEMMA PayUpdate ==
  ASSUME pay \in [Requests -> PayCall], NEW r \in Requests
  PROVE  /\ \A at \in {"find", "order", "fraud", "persist"} :
              ContinuePay(r, at) => pay' \in [Requests -> PayCall]
         /\ \A reply \in {"ACCEPTED", "REJECTED", "ERROR"} :
              PayReply(r, reply) => pay' \in [Requests -> PayCall]
<1>1. \A at \in {"find", "order", "fraud", "persist"} : [pay[r] EXCEPT !.at = at] \in PayCall
  BY DEF PayCall
<1>2. \A reply \in {"ACCEPTED", "REJECTED", "ERROR"} : [at |-> "answered", reply |-> reply] \in PayCall
  BY DEF PayCall
<1> QED
  BY <1>1, <1>2 DEF ContinuePay, PayReply

(* What a Redis command leaves behind is a record or none. *)
LEMMA StoreUpdate ==
  ASSUME store \in [Keys -> Record \cup {NoRecord}], NEW r \in Requests,
         CreateInProgress(r) \/ MarkCompleted(r, r) \/ Delete(r) \/ UNCHANGED store
  PROVE  store' \in [Keys -> Record \cup {NoRecord}]
<1>1. KeyOf[r] \in Keys /\ HashOf[r] \in Hashes
  BY KeysAssumption
<1>2. [status |-> "IN_PROGRESS", owner |-> r, hash |-> HashOf[r], body |-> None] \in Record
  BY <1>1 DEF Record
<1>3. [status |-> "COMPLETED", owner |-> r, hash |-> HashOf[r], body |-> r] \in Record
  BY <1>1 DEF Record
<1> QED
  BY <1>1, <1>2, <1>3 DEF CreateInProgress, MarkCompleted, Delete

(* The payment service keeps the types of its table and of its calls. *)
LEMMA PaymentType ==
  ASSUME PaymentTypeOK, [PaymentNext]_paymentVars
  PROVE  PaymentTypeOK'
<1>1. CASE UNCHANGED paymentVars
  BY <1>1 DEF PaymentTypeOK, paymentVars
<1>2. CASE PaymentNext
  <2>1. PICK r \in Requests : Call(r) \/ PayStep(r) \/ DatabaseFails(r)
    BY <1>2 DEF PaymentNext
  <2>2. pay' \in [Requests -> PayCall]
    BY <2>1, PayUpdate DEF PaymentTypeOK, Call, PayStep, DatabaseFails, RefuseBody,
       FindByReference, ValidateOrder, FraudPrecheck, Persist
  <2>3. UNCHANGED <<payments, outbox>> \/ Insert(r)
    BY <2>1 DEF Call, PayStep, DatabaseFails, RefuseBody, FindByReference, ValidateOrder,
       FraudPrecheck, Persist
  <2> QED
    BY <2>2, <2>3, ReferencesAssumption DEF PaymentTypeOK, Insert
<1> QED
  BY <1>1, <1>2

(* Whatever the system does, the payment service makes a step of its own   *)
(* or none; that it is called once for each request is part of Linked.     *)
CalledOnce == \A r \in Requests : gate[r] = "check" => pay[r].at = "off"

(* A step of the system is a step of the payment service or none of it. *)
LEMMA PaymentAlone ==
  ASSUME CalledOnce, Next
  PROVE  [PaymentNext]_paymentVars
<1>1. CASE \E r \in Requests : GatewayStep(r)
  <2>1. PICK r \in Requests : GatewayStep(r)
    BY <1>1
  <2>2. CASE ReceiveCheck(r)
    <3>1. pay[r].at = "off"
      BY <2>2 DEF CalledOnce, ReceiveCheck
    <3>2. Call(r) \/ UNCHANGED paymentVars
      BY <2>2, <3>1 DEF ReceiveCheck, Call, paymentVars
    <3> QED
      BY <3>2 DEF PaymentNext
  <2> QED
    BY <2>1, <2>2 DEF GatewayStep, SendCheck, PaymentAccepted, PaymentRefused, Complete, Cleanup,
       LateCleanup
<1>2. CASE \E r \in Requests : GatewayFault(r)
  BY <1>2 DEF GatewayFault, CheckTimesOut, PaymentTimesOut, CompleteFails, CleanupFails, Kill
<1>3. CASE \E r \in Requests : PaymentStep(r)
  BY <1>3 DEF PaymentStep, PaymentNext
<1>4. CASE \E r \in Requests : IdempotencyStep(r)
  BY <1>4 DEF IdempotencyStep
<1>5. CASE \E k \in Keys : Expire(k) /\ UNCHANGED <<paymentVars, gatewayVars>>
  BY <1>5
<1> QED
  BY <1>1, <1>2, <1>3, <1>4, <1>5 DEF Next

(* The idempotency service keeps its types, and the gateway those of the   *)
(* commands it sends.                                                      *)
LEMMA IdempotencyType ==
  ASSUME IdempotencyTypeOK, Next
  PROVE  IdempotencyTypeOK'
<1>1. CASE \E r \in Requests : GatewayStep(r)
  <2>1. PICK r \in Requests : GatewayStep(r)
    BY <1>1
  <2>2. check' \in [Requests -> CheckCall]
    BY <2>1, CheckUpdate DEF IdempotencyTypeOK, idempotencyVars, GatewayStep, SendCheck, ReceiveCheck,
       PaymentAccepted, PaymentRefused, Complete, Cleanup, LateCleanup
  <2>3. store' \in [Keys -> Record \cup {NoRecord}]
    BY <2>1, StoreUpdate DEF IdempotencyTypeOK, idempotencyVars, GatewayStep, SendCheck, ReceiveCheck,
       PaymentAccepted, PaymentRefused, Complete, Cleanup, LateCleanup
  <2>4. UNCHANGED <<expired, expiries, faults>>
    BY <2>1 DEF idempotencyVars, GatewayStep, SendCheck, ReceiveCheck, PaymentAccepted,
       PaymentRefused, Complete, Cleanup, LateCleanup
  <2> QED
    BY <2>2, <2>3, <2>4 DEF IdempotencyTypeOK
<1>2. CASE \E r \in Requests : GatewayFault(r)
  <2>1. PICK r \in Requests : GatewayFault(r)
    BY <1>2
  <2>2. UNCHANGED <<check, expired, expiries>> /\ faults' = faults + 1
    BY <2>1 DEF Fault, idempotencyVars, GatewayFault, CheckTimesOut, PaymentTimesOut, CompleteFails,
       CleanupFails, Kill
  <2>3. MarkCompleted(r, r) \/ UNCHANGED store
    BY <2>1 DEF idempotencyVars, GatewayFault, CheckTimesOut, PaymentTimesOut, CompleteFails,
       CleanupFails, Kill
  <2>4. store' \in [Keys -> Record \cup {NoRecord}]
    BY <2>3, StoreUpdate DEF IdempotencyTypeOK
  <2> QED
    BY <2>2, <2>4 DEF IdempotencyTypeOK
<1>3. CASE \E r \in Requests : PaymentStep(r)
  BY <1>3 DEF PaymentStep, idempotencyVars, IdempotencyTypeOK, Fault
<1>4. CASE \E r \in Requests : IdempotencyStep(r)
  <2>1. PICK r \in Requests : CheckStep(r) \/ CheckFault(r)
    BY <1>4 DEF IdempotencyStep
  <2>2. UNCHANGED <<expired, expiries>> /\ faults' \in Nat
    BY <2>1 DEF CheckStep, CheckFault, Acquire, FindRequest, CheckFails, CheckResent, Fault, IdempotencyTypeOK
  <2>3. CreateInProgress(r) \/ UNCHANGED store
    BY <2>1 DEF CheckStep, CheckFault, Acquire, FindRequest, CheckFails, CheckResent
  <2>4. store' \in [Keys -> Record \cup {NoRecord}]
    BY <2>3, StoreUpdate DEF IdempotencyTypeOK
  <2>5. ~Free(r) => store[KeyOf[r]] \in Record /\ store[KeyOf[r]].body \in Requests \cup {None}
    BY KeysAssumption DEF IdempotencyTypeOK, Free, Record
  <2>6. \/ \E at \in {"acquire", "find", "reacquire", "refind"} : ContinueCheck(r, at)
        \/ \E reply \in CheckReply, body \in Requests \cup {None} : Reply(r, reply, body)
        \/ UNCHANGED check
    BY <2>1, <2>5 DEF CheckStep, CheckFault, Acquire, FindRequest, CheckFails, CheckResent, Judge, CheckReply
  <2>7. check' \in [Requests -> CheckCall]
    BY <2>6, CheckUpdate DEF IdempotencyTypeOK
  <2> QED
    BY <2>2, <2>4, <2>7 DEF IdempotencyTypeOK
<1>5. CASE \E k \in Keys : Expire(k) /\ UNCHANGED <<paymentVars, gatewayVars>>
  BY <1>5 DEF Expire, IdempotencyTypeOK
<1> QED
  BY <1>1, <1>2, <1>3, <1>4, <1>5 DEF Next

(* What the client of a failed request is told is an answer. *)
LEMMA GatewayType ==
  ASSUME TypeOK, Next
  PROVE  /\ gate' \in [Requests -> Gate]
         /\ answer' \in [Requests -> Answer]
         /\ shown' \in [Requests -> Requests \cup {None}]
<1>1. \A r \in Requests : check[r].body \in Requests \cup {None}
  BY DEF TypeOK, IdempotencyTypeOK, CheckCall
<1>2. \A r \in Requests : pay[r].reply \in Answer
  BY DEF TypeOK, PaymentTypeOK, PayCall, Answer
<1>3. CASE \E r \in Requests : GatewayStep(r)
  <2>1. PICK r \in Requests : GatewayStep(r)
    BY <1>3
  <2>2. \E at \in Gate : GoTo(r, at)
    BY <2>1 DEF GatewayStep, SendCheck, ReceiveCheck, PaymentAccepted, PaymentRefused, Complete,
       Cleanup, LateCleanup, Gate
  <2>3. \/ UNCHANGED <<answer, shown>>
        \/ \E what \in Answer, payment \in Requests \cup {None} : Tell(r, what, payment)
    <3>1. CASE ReceiveCheck(r)
      BY <3>1, <1>1 DEF ReceiveCheck, Answer
    <3>2. CASE PaymentAccepted(r)
      BY <3>2 DEF PaymentAccepted, Answer
    <3>3. CASE Cleanup(r)
      <4>1. (IF gate[r] = "cleanup" THEN pay[r].reply ELSE "ERROR") \in Answer
        BY <1>2 DEF Answer
      <4> QED
        BY <3>3, <4>1 DEF Cleanup, TellFailure
    <3> QED
      BY <2>1, <3>1, <3>2, <3>3 DEF GatewayStep, SendCheck, PaymentRefused, Complete, LateCleanup
  <2> QED
    BY <2>2, <2>3 DEF TypeOK, GoTo, Tell
<1>4. CASE \E r \in Requests : GatewayFault(r)
  <2>1. PICK r \in Requests : GatewayFault(r)
    BY <1>4
  <2>2. \E at \in Gate : GoTo(r, at)
    BY <2>1 DEF GatewayFault, CheckTimesOut, PaymentTimesOut, CompleteFails, CleanupFails, Kill, Gate
  <2>3. \/ UNCHANGED <<answer, shown>>
        \/ \E what \in Answer, payment \in Requests \cup {None} : Tell(r, what, payment)
    <3>1. CASE CheckTimesOut(r)
      BY <3>1 DEF CheckTimesOut, Answer
    <3>2. CASE CleanupFails(r)
      <4>1. (IF gate[r] = "cleanup" THEN pay[r].reply ELSE "ERROR") \in Answer
        BY <1>2 DEF Answer
      <4> QED
        BY <3>2, <4>1 DEF CleanupFails, TellFailure
    <3>3. CASE Kill(r)
      BY <3>3 DEF Kill, Answer
    <3> QED
      BY <2>1, <3>1, <3>2, <3>3 DEF GatewayFault, PaymentTimesOut, CompleteFails
  <2> QED
    BY <2>2, <2>3 DEF TypeOK, GoTo, Tell
<1>5. CASE UNCHANGED gatewayVars
  BY <1>5 DEF TypeOK, gatewayVars
<1> QED
  BY <1>3, <1>4, <1>5 DEF Next, PaymentStep, IdempotencyStep

-----------------------------------------------------------------------------
(* The inductive invariant.                                                *)

(* The table and the outbox agree, and what createPayment answers agrees   *)
(* with both: an accepted request has its payment, a payment was made by a *)
(* call that has ended, and a refused request has none.                    *)
Ledger ==
  /\ outbox = {r \in Requests : payments[ReferenceOf[r]] = r}
  /\ \A r \in Requests :
       /\ pay[r].at # "answered" => pay[r].reply = "NONE"
       /\ pay[r].reply = "ACCEPTED" => payments[ReferenceOf[r]] = r
       /\ payments[ReferenceOf[r]] = r => pay[r].reply \in {"ACCEPTED", "ERROR"}

(* Where the gateway is with a request, and how far its calls have come. *)
Linked ==
  \A r \in Requests :
    /\ gate[r] = "new" => check[r].at = "off"
    /\ check[r].at # "answered" => check[r].reply = "NONE"
    /\ gate[r] \in {"new", "check"} => pay[r].at = "off"
    /\ gate[r] = "complete" => pay[r].reply = "ACCEPTED"
    /\ gate[r] = "cleanup" => pay[r].reply \in {"REJECTED", "ERROR"}
    /\ gate[r] \in {"new", "check", "forward", "cleanup", "abandon"} => answer[r] = "NONE"
    /\ answer[r] = "ACCEPTED" =>
         shown[r] = r /\ pay[r].reply = "ACCEPTED" /\ gate[r] \in {"complete", "done", "dead"}
    /\ answer[r] = "REJECTED" => pay[r].reply = "REJECTED"

(* q is a payment that a replay to r may show. *)
SameRequest(q, r) ==
  q \in Requests /\ Holds(q) /\ KeyOf[q] = KeyOf[r] /\ HashOf[q] = HashOf[r]

(* The cache, the answers of check under way and the answers given. *)
Truth ==
  /\ CacheIsTrue
  /\ \A r \in Requests :
       /\ check[r].reply = "COMPLETED" => SameRequest(check[r].body, r)
       /\ answer[r] = "REPLAYED" => SameRequest(shown[r], r)

(* A request has the lock from the MISS until its handler ends, and for    *)
(* good when it was accepted, even if complete failed.                     *)
HasLock(r) ==
  \/ gate[r] = "check" /\ check[r].reply = "MISS"
  \/ gate[r] \in {"forward", "complete"}
  \/ answer[r] = "ACCEPTED"

Locked ==
  \A r \in Requests : HasLock(r) /\ KeyOf[r] \notin expired => store[KeyOf[r]].owner = r

Inv == TypeOK /\ Ledger /\ Linked /\ Truth /\ Locked

-----------------------------------------------------------------------------
(* The payment service.                                                    *)

(* Mutations of the table: an insert or nothing. *)
LEMMA InsertOrNothing ==
  ASSUME NEW r \in Requests, Call(r) \/ PayStep(r) \/ DatabaseFails(r)
  PROVE  /\ UNCHANGED <<payments, outbox>> \/ (pay[r].at = "persist" /\ Insert(r))
         /\ pay[r].at # "answered"
         /\ \/ \E at \in {"find", "order", "fraud", "persist"} : ContinuePay(r, at) /\ UNCHANGED payments
            \/ PayReply(r, "REJECTED") /\ UNCHANGED payments
            \/ PayReply(r, "ERROR")
            \/ PayReply(r, "ACCEPTED") /\ Insert(r)
  BY DEF Call, PayStep, DatabaseFails, RefuseBody, FindByReference, ValidateOrder, FraudPrecheck,
     Persist

(* An answer of createPayment is final, and so is a payment. *)
LEMMA LedgerStays ==
  ASSUME PaymentTypeOK, [PaymentNext]_paymentVars
  PROVE  /\ \A ref \in References : payments[ref] # None => payments'[ref] = payments[ref]
         /\ \A r \in Requests : pay[r].at = "answered" => pay'[r] = pay[r]
<1>1. CASE UNCHANGED paymentVars
  BY <1>1 DEF paymentVars
<1>2. CASE PaymentNext
  <2>1. PICK r \in Requests : Call(r) \/ PayStep(r) \/ DatabaseFails(r)
    BY <1>2 DEF PaymentNext
  <2> QED
    BY <2>1, InsertOrNothing, ReferencesAssumption
    DEF PaymentTypeOK, Insert, ContinuePay, PayReply
<1> QED
  BY <1>1, <1>2

(* The payment service alone keeps its ledger. *)
LEMMA LedgerNext ==
  ASSUME PaymentTypeOK, Ledger, [PaymentNext]_paymentVars
  PROVE  Ledger'
<1>1. CASE UNCHANGED paymentVars
  BY <1>1 DEF Ledger, paymentVars
<1>2. CASE PaymentNext
  <2>1. PICK r \in Requests : Call(r) \/ PayStep(r) \/ DatabaseFails(r)
    BY <1>2 DEF PaymentNext
  <2>2. /\ UNCHANGED <<payments, outbox>> \/ (pay[r].at = "persist" /\ Insert(r))
        /\ pay[r].at # "answered"
    BY <2>1, InsertOrNothing
  <2>3. /\ pay[r].reply = "NONE"
        /\ payments[ReferenceOf[r]] # r
    BY <2>2 DEF Ledger
  <2>4. \A q \in Requests \ {r} :
          payments'[ReferenceOf[q]] = q <=> payments[ReferenceOf[q]] = q
    BY <2>2, RequestsAssumption, ReferencesAssumption DEF Insert, PaymentTypeOK
  <2>5. outbox' = {q \in Requests : payments'[ReferenceOf[q]] = q}
    <3>1. CASE UNCHANGED <<payments, outbox>>
      BY <3>1 DEF Ledger
    <3>2. CASE Insert(r)
      <4>1. payments'[ReferenceOf[r]] = r /\ outbox' = outbox \cup {r}
        BY <3>2, ReferencesAssumption DEF Insert, PaymentTypeOK
      <4> QED
        BY <4>1, <2>4 DEF Ledger
    <3> QED
      BY <2>2, <3>1, <3>2
  <2>6. \A q \in Requests \ {r} : pay'[q] = pay[q]
    BY <2>1, InsertOrNothing DEF ContinuePay, PayReply, PaymentTypeOK
  <2>7. /\ pay'[r].at # "answered" => pay'[r].reply = "NONE"
        /\ pay'[r].reply = "ACCEPTED" => payments'[ReferenceOf[r]] = r
        /\ payments'[ReferenceOf[r]] = r => pay'[r].reply \in {"ACCEPTED", "ERROR"}
    <3>1. CASE \E at \in {"find", "order", "fraud", "persist"} : ContinuePay(r, at) /\ UNCHANGED payments
      BY <3>1, <2>3 DEF ContinuePay, PaymentTypeOK, PayCall
    <3>2. CASE PayReply(r, "REJECTED") /\ UNCHANGED payments
      BY <3>2, <2>3 DEF PayReply, PaymentTypeOK
    <3>3. CASE PayReply(r, "ERROR")
      BY <3>3 DEF PayReply, PaymentTypeOK
    <3>4. CASE PayReply(r, "ACCEPTED") /\ Insert(r)
      BY <3>4, ReferencesAssumption DEF PayReply, PaymentTypeOK, Insert
    <3> QED
      BY <2>1, InsertOrNothing, <3>1, <3>2, <3>3, <3>4
  <2>8. \A q \in Requests :
          /\ pay'[q].at # "answered" => pay'[q].reply = "NONE"
          /\ pay'[q].reply = "ACCEPTED" => payments'[ReferenceOf[q]] = q
          /\ payments'[ReferenceOf[q]] = q => pay'[q].reply \in {"ACCEPTED", "ERROR"}
    BY <2>4, <2>6, <2>7 DEF Ledger
  <2> QED
    BY <2>5, <2>8 DEF Ledger
<1> QED
  BY <1>1, <1>2

(* What was shown to a client stays true. *)
LEMMA HoldsStays ==
  ASSUME PaymentTypeOK, Ledger, [PaymentNext]_paymentVars, NEW r \in Requests, Holds(r)
  PROVE  Holds(r)'
<1>1. payments[ReferenceOf[r]] = r /\ r # None
  BY RequestsAssumption DEF Holds
<1>2. payments'[ReferenceOf[r]] = r
  BY <1>1, LedgerStays, ReferencesAssumption
<1>3. Ledger'
  BY LedgerNext
<1> QED
  BY <1>2, <1>3 DEF Holds, Ledger

-----------------------------------------------------------------------------
(* The store.                                                              *)

(* How a step may change the record of a key: a lock is taken, a lock is   *)
(* completed or released by its owner, or the record expires.              *)
StoreStep(k) ==
  \/ store'[k] = store[k]
  \/ /\ store[k] = NoRecord
     /\ store'[k].status = "IN_PROGRESS"
     /\ UNCHANGED <<gatewayVars, expired>>
     /\ \E r \in Requests :
          /\ KeyOf[r] = k /\ store'[k].owner = r /\ store'[k].hash = HashOf[r]
          /\ check[r].at # "off"
          /\ check'[r].at = "answered" \/ faults' = faults + 1
  \/ \E r \in Requests :
       /\ KeyOf[r] = k /\ store[k].owner = r
       /\ gate[r] = "complete" /\ gate'[r] = "done"
       /\ store'[k] = [status |-> "COMPLETED", owner |-> r, hash |-> HashOf[r], body |-> r]
  \/ \E r \in Requests :
       /\ KeyOf[r] = k /\ store[k].owner = r
       /\ gate[r] \in {"cleanup", "abandon", "late"} /\ gate'[r] = "done"
       /\ store'[k] = NoRecord
  \/ store'[k] = NoRecord /\ k \in expired' /\ expiries' = expiries + 1

(* Every step changes a record in one of these ways, and expiry is remembered. *)
LEMMA StoreChanges ==
  ASSUME TypeOK, Next, NEW k \in Keys
  PROVE  StoreStep(k) /\ expired \subseteq expired'
<1>1. CASE \E r \in Requests : GatewayStep(r)
  <2>1. PICK r \in Requests : GatewayStep(r)
    BY <1>1
  <2>2. CASE Complete(r)
    BY <2>2, KeysAssumption
    DEF TypeOK, IdempotencyTypeOK, StoreStep, Complete, MarkCompleted, GoTo
  <2>3. CASE Cleanup(r) \/ LateCleanup(r)
    BY <2>3, KeysAssumption
    DEF TypeOK, IdempotencyTypeOK, StoreStep, Cleanup, LateCleanup, Delete, GoTo
  <2>4. CASE UNCHANGED <<store, expired>>
    BY <2>4 DEF StoreStep
  <2> QED
    BY <2>1, <2>2, <2>3, <2>4 DEF GatewayStep, SendCheck, ReceiveCheck, PaymentAccepted,
       PaymentRefused, idempotencyVars
<1>2. CASE \E r \in Requests : GatewayFault(r)
  <2>1. PICK r \in Requests : GatewayFault(r)
    BY <1>2
  <2>2. CASE CompleteFails(r)
    BY <2>2, KeysAssumption
    DEF TypeOK, IdempotencyTypeOK, StoreStep, CompleteFails, MarkCompleted, GoTo
  <2>3. CASE UNCHANGED <<store, expired>>
    BY <2>3 DEF StoreStep
  <2> QED
    BY <2>1, <2>2, <2>3 DEF GatewayFault, CheckTimesOut, PaymentTimesOut, CleanupFails, Kill,
       idempotencyVars
<1>3. CASE \E r \in Requests : PaymentStep(r)
  BY <1>3 DEF PaymentStep, idempotencyVars, StoreStep
<1>4. CASE \E r \in Requests : IdempotencyStep(r)
  <2>1. PICK r \in Requests : (CheckStep(r) \/ CheckFault(r)) /\ UNCHANGED gatewayVars
    BY <1>4 DEF IdempotencyStep
  <2>2. CASE UNCHANGED <<store, expired>>
    BY <2>2 DEF StoreStep
  <2>3. CASE /\ CreateInProgress(r)
             /\ UNCHANGED expired
             /\ check[r].at # "off"
             /\ Free(r) => Reply(r, "MISS", None) \/ faults' = faults + 1
    <3>1. CASE k = KeyOf[r] /\ Free(r)
      <4>1. check'[r].at = "answered" \/ faults' = faults + 1
        BY <2>3, <3>1 DEF Reply, TypeOK, IdempotencyTypeOK
      <4> QED
        BY <2>1, <2>3, <3>1, <4>1 DEF TypeOK, IdempotencyTypeOK, StoreStep, CreateInProgress, Free
    <3>2. CASE ~(k = KeyOf[r] /\ Free(r))
      BY <2>3, <3>2 DEF TypeOK, IdempotencyTypeOK, StoreStep, CreateInProgress
    <3> QED
      BY <3>1, <3>2
  <2> QED
    BY <2>1, <2>2, <2>3 DEF CheckStep, CheckFault, Acquire, FindRequest, CheckFails, CheckResent,
       Fault
<1>5. CASE \E l \in Keys : Expire(l) /\ UNCHANGED <<paymentVars, gatewayVars>>
  BY <1>5 DEF Expire, StoreStep, TypeOK, IdempotencyTypeOK
<1> QED
  BY <1>1, <1>2, <1>3, <1>4, <1>5 DEF Next

-----------------------------------------------------------------------------
(* The gateway.                                                            *)

(* Every step keeps the gateway in line with its calls. *)
LEMMA LinkedNext ==
  ASSUME TypeOK, Ledger, Linked, Next
  PROVE  Linked'
<1> USE DEF Linked
<1>1. ASSUME NEW r \in Requests, GatewayStep(r)
      PROVE  Linked'
  <2>1. CASE SendCheck(r)
    BY <2>1 DEF SendCheck, GoTo, ContinueCheck, TypeOK, IdempotencyTypeOK, CheckCall, paymentVars
  <2>2. CASE ReceiveCheck(r)
    BY <2>2 DEF ReceiveCheck, GoTo, Tell, ContinuePay, TypeOK, PaymentTypeOK, PayCall, idempotencyVars,
       Ledger
  <2>3. CASE PaymentAccepted(r)
    BY <2>3 DEF PaymentAccepted, GoTo, Tell, TypeOK, idempotencyVars, paymentVars
  <2>4. CASE PaymentRefused(r)
    BY <2>4 DEF PaymentRefused, GoTo, TypeOK, idempotencyVars, paymentVars
  <2>5. CASE Complete(r)
    BY <2>5 DEF Complete, GoTo, TypeOK, paymentVars
  <2>6. CASE Cleanup(r)
    BY <2>6 DEF Cleanup, GoTo, Tell, TellFailure, TypeOK, paymentVars
  <2>7. CASE LateCleanup(r)
    BY <2>7 DEF LateCleanup, GoTo, TypeOK, paymentVars
  <2> QED
    BY <1>1, <2>1, <2>2, <2>3, <2>4, <2>5, <2>6, <2>7 DEF GatewayStep
<1>2. ASSUME NEW r \in Requests, GatewayFault(r)
      PROVE  Linked'
  <2>1. CASE CheckTimesOut(r)
    BY <2>1 DEF CheckTimesOut, GoTo, Tell, TypeOK, idempotencyVars, paymentVars
  <2>2. CASE PaymentTimesOut(r)
    BY <2>2 DEF PaymentTimesOut, GoTo, TypeOK, idempotencyVars, paymentVars
  <2>3. CASE CompleteFails(r)
    BY <2>3 DEF CompleteFails, GoTo, TypeOK, paymentVars
  <2>4. CASE CleanupFails(r)
    BY <2>4 DEF CleanupFails, GoTo, Tell, TellFailure, TypeOK, idempotencyVars, paymentVars
  <2>5. CASE Kill(r)
    BY <2>5 DEF Kill, GoTo, Tell, TypeOK, idempotencyVars, paymentVars
  <2> QED
    BY <1>2, <2>1, <2>2, <2>3, <2>4, <2>5 DEF GatewayFault
<1>3. ASSUME NEW r \in Requests, PaymentStep(r)
      PROVE  Linked'
  <2>1. PayStep(r) \/ DatabaseFails(r)
    BY <1>3 DEF PaymentStep
  <2>2. pay[r].at \notin {"off", "answered"}
    BY <2>1 DEF PayStep, DatabaseFails, RefuseBody, FindByReference, ValidateOrder, FraudPrecheck,
       Persist
  <2>3. pay[r].reply = "NONE"
    BY <2>2 DEF Ledger
  <2>4. \A q \in Requests \ {r} : pay'[q] = pay[q]
    BY <2>1, InsertOrNothing DEF ContinuePay, PayReply, TypeOK, PaymentTypeOK
  <2> QED
    BY <1>3, <2>2, <2>3, <2>4 DEF PaymentStep, idempotencyVars, gatewayVars
<1>4. ASSUME NEW r \in Requests, IdempotencyStep(r)
      PROVE  Linked'
  <2>1. CheckStep(r) \/ CheckFault(r)
    BY <1>4 DEF IdempotencyStep
  <2>2. check[r].at \notin {"off", "answered"}
    BY <2>1 DEF CheckStep, CheckFault, Acquire, FindRequest, CheckFails, CheckResent
  <2>3. \/ \E at \in {"find", "reacquire", "refind"} : ContinueCheck(r, at)
        \/ \E reply, body : Reply(r, reply, body)
        \/ UNCHANGED check
    BY <2>1 DEF CheckStep, CheckFault, Acquire, FindRequest, CheckFails, CheckResent, Judge
  <2>4. check'[r].at # "answered" => check'[r].reply = "NONE"
    BY <2>2, <2>3 DEF ContinueCheck, Reply, TypeOK, IdempotencyTypeOK, CheckCall, Linked
  <2>5. \A q \in Requests \ {r} : check'[q] = check[q]
    BY <2>3 DEF ContinueCheck, Reply, TypeOK, IdempotencyTypeOK
  <2> QED
    BY <1>4, <2>2, <2>4, <2>5 DEF IdempotencyStep, gatewayVars, paymentVars
<1>5. CASE \E k \in Keys : Expire(k) /\ UNCHANGED <<paymentVars, gatewayVars>>
  BY <1>5 DEF Expire, paymentVars, gatewayVars
<1> QED
  BY <1>1, <1>2, <1>3, <1>4, <1>5 DEF Next

(* The cache and the answers stay true: only a request that was accepted   *)
(* is cached, and payments stay.                                           *)
LEMMA TruthNext ==
  ASSUME TypeOK, Ledger, Linked, Truth, Next
  PROVE  Truth'
<1>1. [PaymentNext]_paymentVars
  BY PaymentAlone DEF Linked, CalledOnce
<1>2. PaymentTypeOK
  BY DEF TypeOK
<1>3. \A q \in Requests : Holds(q) => Holds(q)'
  BY <1>1, <1>2, HoldsStays
<1>4. \A q, r \in Requests : SameRequest(q, r) => SameRequest(q, r)'
  BY <1>3 DEF SameRequest
<1>5. CacheIsTrue'
  <2> SUFFICES ASSUME NEW k \in Keys, store'[k].status = "COMPLETED"
               PROVE  /\ Holds(store[k].body)'
                      /\ KeyOf[store'[k].body] = k
                      /\ HashOf[store'[k].body] = store'[k].hash
    BY DEF CacheIsTrue
  <2>1. StoreStep(k)
    BY StoreChanges
  <2>2. CASE store'[k] = store[k]
    <3>1. store[k] \in Record \cup {NoRecord}
      BY DEF TypeOK, IdempotencyTypeOK
    <3>2. store[k].body \in Requests
      BY <2>2, <3>1 DEF Record, NoRecord
    <3>3. Holds(store[k].body) /\ KeyOf[store[k].body] = k /\ HashOf[store[k].body] = store[k].hash
      BY <2>2 DEF Truth, CacheIsTrue
    <3>4. payments'[ReferenceOf[store[k].body]] = store[k].body /\ store[k].body \in outbox'
      BY <3>2, <3>3, <1>3 DEF Holds
    <3> QED
      BY <2>2, <3>3, <3>4 DEF Holds
  <2>3. CASE \E r \in Requests :
               /\ KeyOf[r] = k /\ gate[r] = "complete"
               /\ store'[k] = [status |-> "COMPLETED", owner |-> r, hash |-> HashOf[r], body |-> r]
    <3>1. PICK r \in Requests :
               /\ KeyOf[r] = k /\ gate[r] = "complete"
               /\ store'[k] = [status |-> "COMPLETED", owner |-> r, hash |-> HashOf[r], body |-> r]
      BY <2>3
    <3>2. Holds(r)
      BY <3>1 DEF Linked, Ledger, Holds
    <3>3. payments'[ReferenceOf[r]] = r /\ r \in outbox'
      BY <3>2, <1>3 DEF Holds
    <3> QED
      BY <3>1, <3>3 DEF Holds
  <2> QED
    BY <2>1, <2>2, <2>3 DEF StoreStep, NoRecord
<1>6. ASSUME NEW r \in Requests, check'[r].reply = "COMPLETED"
      PROVE  SameRequest(check[r].body, r)'
  <2>1. CASE check'[r] = check[r]
    <3>1. SameRequest(check[r].body, r)
      BY <1>6, <2>1 DEF Truth
    <3>2. check[r].body \in Requests /\ Holds(check[r].body)
      BY <3>1 DEF SameRequest
    <3>3. payments'[ReferenceOf[check[r].body]] = check[r].body /\ check[r].body \in outbox'
      BY <3>2, <1>3 DEF Holds
    <3> QED
      BY <2>1, <3>1, <3>3 DEF SameRequest, Holds
  <2>2. CASE FindRequest(r) /\ UNCHANGED paymentVars
    <3>1. check[r].reply # "COMPLETED"
      BY <2>2 DEF FindRequest, Linked
    <3>2. /\ store[KeyOf[r]].status = "COMPLETED"
          /\ store[KeyOf[r]].hash = HashOf[r]
          /\ check'[r].body = store[KeyOf[r]].body
      BY <1>6, <2>2, <3>1
      DEF FindRequest, Judge, Reply, ContinueCheck, TypeOK, IdempotencyTypeOK, CheckCall
    <3>3. store[KeyOf[r]] \in Record \cup {NoRecord} /\ KeyOf[r] \in Keys
      BY KeysAssumption DEF TypeOK, IdempotencyTypeOK
    <3>4. store[KeyOf[r]].body \in Requests
      BY <3>2, <3>3 DEF Record, NoRecord
    <3>5. SameRequest(store[KeyOf[r]].body, r)
      BY <3>2, <3>3, <3>4 DEF Truth, CacheIsTrue, SameRequest
    <3> QED
      BY <2>2, <3>2, <3>5 DEF SameRequest, Holds, paymentVars
  <2>3. check'[r] = check[r] \/ check'[r].reply # "COMPLETED" \/ (FindRequest(r) /\ UNCHANGED paymentVars)
    <3>1. CASE \E q \in Requests : IdempotencyStep(q)
      <4>1. PICK q \in Requests : (CheckStep(q) \/ CheckFault(q)) /\ UNCHANGED paymentVars
        BY <3>1 DEF IdempotencyStep
      <4>2. CASE q # r
        BY <4>1, <4>2 DEF CheckStep, CheckFault, Acquire, FindRequest, CheckFails, CheckResent, Judge, Reply, ContinueCheck,
           TypeOK, IdempotencyTypeOK
      <4>3. CASE Acquire(r)
        BY <4>3 DEF Acquire, Reply, ContinueCheck, TypeOK, IdempotencyTypeOK, CheckCall, Linked
      <4>4. CASE CheckFails(r)
        BY <4>4 DEF CheckFails, Reply, TypeOK, IdempotencyTypeOK
      <4> QED
        BY <4>1, <4>2, <4>3, <4>4 DEF CheckStep, CheckFault, CheckResent
    <3>2. CASE \E q \in Requests : SendCheck(q)
      BY <3>2 DEF SendCheck, ContinueCheck, Linked, TypeOK, IdempotencyTypeOK, CheckCall
    <3>3. CASE UNCHANGED check
      BY <3>3
    <3> QED
      BY <3>1, <3>2, <3>3 DEF Next, GatewayStep, GatewayFault, ReceiveCheck, PaymentAccepted,
         PaymentRefused, Complete, Cleanup, LateCleanup, CheckTimesOut, PaymentTimesOut,
         CompleteFails, CleanupFails, Kill, PaymentStep, Expire, idempotencyVars
  <2> QED
    BY <1>6, <2>1, <2>2, <2>3
<1>7. ASSUME NEW r \in Requests, answer'[r] = "REPLAYED"
      PROVE  SameRequest(shown[r], r)'
  <2>1. CASE answer'[r] = answer[r] /\ shown'[r] = shown[r]
    <3>1. SameRequest(shown[r], r)
      BY <1>7, <2>1 DEF Truth
    <3>2. payments'[ReferenceOf[shown[r]]] = shown[r] /\ shown[r] \in outbox'
      BY <3>1, <1>3 DEF Holds, SameRequest
    <3> QED
      BY <2>1, <3>1, <3>2 DEF SameRequest, Holds
  <2>2. CASE check[r].reply = "COMPLETED" /\ shown'[r] = check[r].body
    <3>1. SameRequest(check[r].body, r)
      BY <2>2 DEF Truth
    <3>2. payments'[ReferenceOf[check[r].body]] = check[r].body /\ check[r].body \in outbox'
      BY <3>1, <1>3 DEF Holds, SameRequest
    <3> QED
      BY <2>2, <3>1, <3>2 DEF SameRequest, Holds
  <2>3. \/ answer'[r] = answer[r] /\ shown'[r] = shown[r]
        \/ answer'[r] # "REPLAYED"
        \/ check[r].reply = "COMPLETED" /\ shown'[r] = check[r].body
    <3>1. CASE \E q \in Requests : GatewayStep(q)
      BY <3>1 DEF GatewayStep, SendCheck, ReceiveCheck, PaymentAccepted, PaymentRefused, Complete,
         Cleanup, LateCleanup, Tell, TellFailure, TypeOK, Linked
    <3>2. CASE \E q \in Requests : GatewayFault(q)
      BY <3>2 DEF GatewayFault, CheckTimesOut, PaymentTimesOut, CompleteFails, CleanupFails, Kill,
         Tell, TellFailure, TypeOK, Linked
    <3>3. CASE UNCHANGED gatewayVars
      BY <3>3 DEF gatewayVars
    <3> QED
      BY <3>1, <3>2, <3>3 DEF Next, PaymentStep, IdempotencyStep
  <2> QED
    BY <1>7, <2>1, <2>2, <2>3
<1> QED
  BY <1>5, <1>6, <1>7 DEF Truth

(* Nobody but the owner, and nothing but the TTL, takes a lock away. *)
LEMMA LockedNext ==
  ASSUME TypeOK, Linked, Locked, Next
  PROVE  Locked'
<1> SUFFICES ASSUME NEW r \in Requests, HasLock(r)', KeyOf[r] \notin expired'
             PROVE  store'[KeyOf[r]].owner = r
  BY DEF Locked
<1>1. /\ KeyOf[r] \in Keys
      /\ StoreStep(KeyOf[r])
      /\ KeyOf[r] \notin expired
  BY StoreChanges, KeysAssumption
<1>2. CASE HasLock(r)
  <2>1. store[KeyOf[r]].owner = r
    BY <1>1, <1>2 DEF Locked
  <2>2. gate[r] \notin {"cleanup", "abandon", "late"}
    BY <1>2 DEF HasLock, Linked
  <2>3. store[KeyOf[r]] # NoRecord
    BY <2>1, RequestsAssumption DEF NoRecord
  <2>4. store'[KeyOf[r]] = store[KeyOf[r]] \/ store'[KeyOf[r]].owner = r
    <3>1. CASE \E q \in Requests :
                 /\ store[KeyOf[r]].owner = q
                 /\ store'[KeyOf[r]] = [status |-> "COMPLETED", owner |-> q, hash |-> HashOf[q],
                                        body |-> q]
      BY <2>1, <3>1
    <3>2. ~ \E q \in Requests :
              store[KeyOf[r]].owner = q /\ gate[q] \in {"cleanup", "abandon", "late"}
      BY <2>1, <2>2
    <3> QED
      BY <1>1, <2>3, <3>1, <3>2 DEF StoreStep
  <2> QED
    BY <2>1, <2>4
<1>3. CASE ~HasLock(r)
  <2>1. Acquire(r) /\ Free(r)
    <3>1. CASE \E q \in Requests : GatewayStep(q)
      <4>1. PICK q \in Requests : GatewayStep(q)
        BY <3>1
      <4>2. CASE SendCheck(q)
        BY <4>2, <1>3 DEF SendCheck, GoTo, ContinueCheck, HasLock, Linked, TypeOK, IdempotencyTypeOK,
           CheckCall
      <4>3. CASE ReceiveCheck(q)
        BY <4>3, <1>3 DEF ReceiveCheck, GoTo, Tell, HasLock, TypeOK, idempotencyVars
      <4>4. CASE PaymentAccepted(q)
        BY <4>4, <1>3 DEF PaymentAccepted, GoTo, Tell, HasLock, TypeOK, idempotencyVars
      <4>5. CASE PaymentRefused(q) \/ Complete(q) \/ LateCleanup(q)
        BY <4>5, <1>3 DEF PaymentRefused, Complete, LateCleanup, GoTo, HasLock, TypeOK, idempotencyVars
      <4>6. CASE Cleanup(q)
        BY <4>6, <1>3 DEF Cleanup, GoTo, Tell, TellFailure, HasLock, Linked, TypeOK
      <4> QED
        BY <4>1, <4>2, <4>3, <4>4, <4>5, <4>6 DEF GatewayStep
    <3>2. CASE \E q \in Requests : GatewayFault(q)
      BY <3>2, <1>3 DEF GatewayFault, CheckTimesOut, PaymentTimesOut, CompleteFails, CleanupFails,
         Kill, GoTo, Tell, TellFailure, HasLock, Linked, TypeOK, idempotencyVars
    <3>3. CASE \E q \in Requests : IdempotencyStep(q)
      <4>1. PICK q \in Requests : (CheckStep(q) \/ CheckFault(q)) /\ UNCHANGED gatewayVars
        BY <3>3 DEF IdempotencyStep
      <4>2. check'[r].reply = "MISS" /\ check[r].reply # "MISS"
        BY <1>3, <4>1 DEF HasLock, gatewayVars
      <4>3. CASE q = r
        BY <4>1, <4>2, <4>3 DEF CheckStep, CheckFault, Acquire, FindRequest, CheckFails, CheckResent, Judge, Reply,
           ContinueCheck, TypeOK, IdempotencyTypeOK, CheckCall
      <4>4. CASE q # r
        BY <4>1, <4>2, <4>4 DEF CheckStep, CheckFault, Acquire, FindRequest, CheckFails, CheckResent, Judge, Reply,
           ContinueCheck, TypeOK, IdempotencyTypeOK
      <4> QED
        BY <4>3, <4>4
    <3>4. CASE UNCHANGED <<check, gatewayVars>>
      BY <3>4, <1>3 DEF HasLock, gatewayVars
    <3> QED
      BY <3>1, <3>2, <3>3, <3>4 DEF Next, PaymentStep, Expire, idempotencyVars
  <2> QED
    BY <2>1, <1>1 DEF Acquire, CreateInProgress, TypeOK, IdempotencyTypeOK
<1> QED
  BY <1>2, <1>3

-----------------------------------------------------------------------------
(* Theorems.                                                               *)

(* The invariant holds initially. *)
LEMMA InitInv == Init => Inv
<1> SUFFICES ASSUME Init PROVE Inv
  OBVIOUS
<1>1. TypeOK
  BY InitType
<1>2. \A r \in Requests : payments[ReferenceOf[r]] = None /\ r # None
  BY ReferencesAssumption, RequestsAssumption DEF Init, PaymentInit
<1>3. Ledger
  BY <1>2 DEF Init, PaymentInit, Ledger
<1>4. Linked
  BY DEF Init, IdempotencyInit, PaymentInit, NoCheck, Linked
<1>5. Truth
  BY DEF Init, IdempotencyInit, NoCheck, NoRecord, Truth, CacheIsTrue
<1>6. Locked
  BY DEF Init, IdempotencyInit, NoCheck, Locked, HasLock
<1> QED
  BY <1>1, <1>3, <1>4, <1>5, <1>6 DEF Inv

(* Every step keeps it. *)
LEMMA NextInv == Inv /\ [Next]_vars => Inv'
<1>1. ASSUME Inv, Next PROVE Inv'
  <2>1. [PaymentNext]_paymentVars
    BY <1>1, PaymentAlone DEF Inv, Linked, CalledOnce
  <2>2. TypeOK'
    BY <1>1, <2>1, IdempotencyType, PaymentType, GatewayType DEF Inv, TypeOK
  <2>3. Ledger'
    BY <1>1, <2>1, LedgerNext DEF Inv, TypeOK
  <2> QED
    BY <1>1, <2>2, <2>3, LinkedNext, TruthNext, LockedNext DEF Inv
<1>2. ASSUME Inv, UNCHANGED vars PROVE Inv'
  BY <1>2 DEF Inv, vars, TypeOK, IdempotencyTypeOK, PaymentTypeOK, Ledger, Linked, Truth, CacheIsTrue,
     SameRequest, Holds, Locked, HasLock
<1> QED
  BY <1>1, <1>2

(* The inductive invariant: the table agrees with the outbox and with what *)
(* createPayment answered, the gateway with the calls it made, and each    *)
(* record of the store with both.                                          *)
THEOREM GatewayInvariant == Spec => []Inv
  BY InitInv, NextInv, PTL DEF Spec

(* A COMPLETED record names a payment of the same key and checksum. *)
THEOREM CacheIsTrueHolds == Spec => []CacheIsTrue
<1>1. Inv => CacheIsTrue
  BY DEF Inv, Truth
<1> QED
  BY <1>1, GatewayInvariant, PTL

(* No client is told of a payment that is not there or not its own, and    *)
(* none that was refused gets one.                                         *)
THEOREM AnswersAreTrueHolds == Spec => []AnswersAreTrue
<1>1. Inv => AnswersAreTrue
  BY DEF Inv, Ledger, Linked, Truth, SameRequest, AnswersAreTrue, Holds
<1> QED
  BY <1>1, GatewayInvariant, PTL

(* One request of a key at a time is in the handler, until a record of the *)
(* key expires.                                                            *)
THEOREM OneInHandlerHolds == Spec => []OneInHandler
<1>1. Inv => OneInHandler
  BY DEF Inv, Locked, HasLock, OneInHandler
<1> QED
  BY <1>1, GatewayInvariant, PTL

(* The gateway uses the payment service as PaymentService says it may be   *)
(* used: each request is handed over at most once.                         *)
THEOREM ImplementsPaymentHolds == Spec => PaymentSpec
<1>1. Init => PaymentInit
  BY DEF Init
<1>2. Inv /\ [Next]_vars => [PaymentNext]_paymentVars
  <2>1. Inv => CalledOnce
    BY DEF Inv, Linked, CalledOnce
  <2>2. UNCHANGED vars => UNCHANGED paymentVars
    BY DEF vars, paymentVars
  <2> QED
    BY <2>1, <2>2, PaymentAlone
<1> QED
  BY <1>1, <1>2, GatewayInvariant, PTL DEF Spec, PaymentSpec

(* Payments are never taken back or replaced, and each has its event. *)
THEOREM PaymentsStayHolds == Spec => PaymentsStay
<1>1. Inv /\ Inv' /\ [Next]_vars =>
        [/\ \A ref \in References : payments[ref] # None => payments'[ref] = payments[ref]
         /\ outbox' = {r \in Requests : payments'[ReferenceOf[r]] = r}]_vars
  <2> SUFFICES ASSUME Inv, Inv', Next
               PROVE  /\ \A ref \in References : payments[ref] # None => payments'[ref] = payments[ref]
                      /\ outbox' = {r \in Requests : payments'[ReferenceOf[r]] = r}
    OBVIOUS
  <2>1. [PaymentNext]_paymentVars
    BY PaymentAlone DEF Inv, Linked, CalledOnce
  <2> QED
    BY <2>1, LedgerStays DEF Inv, TypeOK, Ledger
<1> QED
  BY <1>1, GatewayInvariant, PTL DEF Spec, PaymentsStay

(* A payment that was accepted is not executed again under its key. *)
THEOREM AcceptedOnceHolds == Spec => AcceptedOnce
<1>1. Inv /\ [Next]_vars =>
        [\A r, q \in Requests :
           /\ Starts(r)
           /\ KeyOf[q] = KeyOf[r]
           /\ KeyOf[r] \notin expired
           => answer[q] # "ACCEPTED"]_vars
  <2> SUFFICES ASSUME Inv, Next, NEW r \in Requests, NEW q \in Requests, Starts(r),
                      KeyOf[q] = KeyOf[r], KeyOf[r] \notin expired, answer[q] = "ACCEPTED"
               PROVE  FALSE
    OBVIOUS
  <2>1. ReceiveCheck(r) /\ check[r].reply = "MISS"
    <3>1. CASE \E s \in Requests : GatewayStep(s)
      BY <3>1 DEF Starts, GatewayStep, SendCheck, ReceiveCheck, PaymentAccepted, PaymentRefused,
         Complete, Cleanup, LateCleanup, ContinuePay, paymentVars, Inv, TypeOK, PaymentTypeOK
    <3>2. CASE \E s \in Requests : PaymentStep(s)
      <4>1. PICK s \in Requests : PayStep(s) \/ DatabaseFails(s)
        BY <3>2 DEF PaymentStep
      <4>2. pay[s].at # "off"
        BY <4>1 DEF PayStep, DatabaseFails, RefuseBody, FindByReference, ValidateOrder,
           FraudPrecheck, Persist
      <4>3. \A t \in Requests \ {s} : pay'[t] = pay[t]
        BY <4>1, InsertOrNothing DEF ContinuePay, PayReply, Inv, TypeOK, PaymentTypeOK
      <4> QED
        BY <4>2, <4>3 DEF Starts
    <3>3. CASE UNCHANGED paymentVars
      BY <3>3 DEF Starts, paymentVars
    <3> QED
      BY <3>1, <3>2, <3>3 DEF Next, IdempotencyStep, GatewayFault, CheckTimesOut, PaymentTimesOut,
         CompleteFails, CleanupFails, Kill
  <2>2. HasLock(r) /\ HasLock(q)
    BY <2>1 DEF ReceiveCheck, HasLock
  <2>3. r = q
    BY <2>2 DEF Inv, Locked
  <2> QED
    BY <2>1, <2>3 DEF ReceiveCheck, Inv, Linked
<1> QED
  BY <1>1, GatewayInvariant, PTL DEF Spec, AcceptedOnce

(* A record changes only with its owner or when it expires. *)
THEOREM LockIsOwnedHolds == Spec => LockIsOwned
<1>1. Inv /\ [Next]_vars =>
        [\A k \in Keys :
           store[k] # NoRecord /\ store'[k] # store[k] =>
             expiries' # expiries \/ gate'[store[k].owner] # gate[store[k].owner]]_vars
  <2> SUFFICES ASSUME Inv, Next, NEW k \in Keys, store[k] # NoRecord, store'[k] # store[k],
                      expiries' = expiries
               PROVE  gate'[store[k].owner] # gate[store[k].owner]
    OBVIOUS
  <2>1. StoreStep(k) /\ expiries \in Nat
    BY StoreChanges DEF Inv, TypeOK, IdempotencyTypeOK
  <2>2. expiries' # expiries + 1
    BY <2>1
  <2>3. \E r \in Requests :
          store[k].owner = r /\ gate'[r] = "done"
          /\ gate[r] \in {"complete", "cleanup", "abandon", "late"}
    BY <2>1, <2>2, Zenon DEF StoreStep
  <2> QED
    BY <2>3
<1> QED
  BY <1>1, GatewayInvariant, PTL DEF Spec, LockIsOwned

-----------------------------------------------------------------------------
(* Refusals.                                                               *)

(* Another request with the key of r has been sent: one with another body  *)
(* for a mismatch, with the same body otherwise.                           *)
Cause(r, reply) ==
  \E q \in Requests \ {r} :
    /\ KeyOf[q] = KeyOf[r]
    /\ check[q].at # "off"
    /\ reply = "MISMATCH" <=> HashOf[q] # HashOf[r]

(* The lock is that of r itself, whose answer was lost, and nobody will    *)
(* ever give it back: it is left to its TTL.                               *)
Orphaned(r) ==
  /\ faults > 0
  /\ \/ KeyOf[r] \in expired
     \/ store[KeyOf[r]].owner = r /\ store[KeyOf[r]].status = "IN_PROGRESS"

Reason(r, reply) == Cause(r, reply) \/ (reply = "IN_PROGRESS" /\ Orphaned(r))

Refusals == {"MISMATCH", "IN_PROGRESS"}

(* Who is told 422 has another request with its key and another body to    *)
(* blame, never its own record.  Who is told 409 has one with the same     *)
(* body to blame, or a lost answer: then it met its own lock, which stays  *)
(* until it expires.                                                       *)
RefusalsAreTrue == \A r \in Requests : answer[r] \in Refusals => Reason(r, answer[r])

(* A record is of the request that made it; while the check of that        *)
(* request goes on, its answer was lost.                                   *)
Owned ==
  \A k \in Keys : store[k] # NoRecord =>
    \E q \in Requests :
      /\ store[k].owner = q /\ KeyOf[q] = k /\ store[k].hash = HashOf[q]
      /\ check[q].at # "off"
      /\ check[q].at # "answered" => faults > 0

(* Only after a MISS does the gateway complete or clean up. *)
Through ==
  \A r \in Requests :
    gate[r] \in {"forward", "complete", "cleanup", "abandon", "late"} => check[r].reply = "MISS"

(* The answer of check on its way has the same reason. *)
Blamed ==
  /\ Owned
  /\ Through
  /\ \A r \in Requests : check[r].reply \in Refusals => Reason(r, check[r].reply)
  /\ \A r \in Requests : answer[r] \in Refusals => answer[r] = check[r].reply

(* An answer of check is final, and a refusal was judged by a record. *)
LEMMA CheckSteps ==
  ASSUME TypeOK, Linked, Next, NEW r \in Requests
  PROVE  \/ check'[r] = check[r]
         \/ check[r].at # "answered" /\ check'[r].reply \notin Refusals
         \/ check[r].at # "answered" /\ ~Free(r) /\ Judge(r, store[KeyOf[r]])
<1> USE DEF TypeOK, IdempotencyTypeOK, Refusals
<1>1. CASE \E q \in Requests : IdempotencyStep(q)
  <2>1. PICK q \in Requests : CheckStep(q) \/ CheckFault(q)
    BY <1>1 DEF IdempotencyStep
  <2>2. CASE q # r
    BY <2>1, <2>2 DEF CheckStep, CheckFault, Acquire, FindRequest, CheckFails, CheckResent, Judge, Reply, ContinueCheck
  <2>3. CASE Acquire(r)
    BY <2>3 DEF Acquire, Reply, ContinueCheck, CheckCall, Linked
  <2>4. CASE FindRequest(r)
    BY <2>4 DEF FindRequest, Reply, ContinueCheck, CheckCall, Linked
  <2>5. CASE CheckFails(r)
    BY <2>5 DEF CheckFails, Reply
  <2> QED
    BY <2>1, <2>2, <2>3, <2>4, <2>5 DEF CheckStep, CheckFault, CheckResent
<1>2. CASE \E q \in Requests : SendCheck(q)
  BY <1>2 DEF SendCheck, ContinueCheck, Linked, CheckCall
<1>3. CASE UNCHANGED check
  BY <1>3
<1> QED
  BY <1>1, <1>2, <1>3 DEF Next, GatewayStep, GatewayFault, ReceiveCheck, PaymentAccepted,
     PaymentRefused, Complete, Cleanup, LateCleanup, CheckTimesOut, PaymentTimesOut,
     CompleteFails, CleanupFails, Kill, PaymentStep, Expire, idempotencyVars

(* A client is refused with the answer of its check. *)
LEMMA RefusalIsReply ==
  ASSUME TypeOK, Linked, Next, NEW r \in Requests, answer'[r] \in Refusals
  PROVE  answer'[r] = answer[r] \/ (check'[r] = check[r] /\ answer'[r] = check[r].reply)
<1> USE DEF Refusals
<1>1. CASE \E q \in Requests : ReceiveCheck(q)
  BY <1>1 DEF ReceiveCheck, Tell, TypeOK, idempotencyVars
<1>2. CASE \E q \in Requests : PaymentAccepted(q) \/ CheckTimesOut(q) \/ Kill(q)
  BY <1>2 DEF PaymentAccepted, CheckTimesOut, Kill, Tell, TypeOK
<1>3. CASE \E q \in Requests : Cleanup(q) \/ CleanupFails(q)
  BY <1>3 DEF Cleanup, CleanupFails, TellFailure, Tell, TypeOK, Linked
<1>4. CASE UNCHANGED answer
  BY <1>4
<1> QED
  BY <1>1, <1>2, <1>3, <1>4 DEF Next, GatewayStep, GatewayFault, SendCheck, PaymentRefused, Complete,
     LateCleanup, PaymentTimesOut, CompleteFails, PaymentStep, IdempotencyStep, gatewayVars

(* Where the gateway is after a step, and after which answer of check. *)
LEMMA ThroughNext ==
  ASSUME TypeOK, Linked, Through, Next
  PROVE  Through'
<1> DEFINE Inside == {"forward", "complete", "cleanup", "abandon", "late"}
<1>1. \A r \in Requests : gate'[r] \in Inside =>
        gate[r] \in Inside \/ (ReceiveCheck(r) /\ check[r].reply = "MISS")
  <2>1. CASE \E q \in Requests : GatewayStep(q)
    BY <2>1 DEF GatewayStep, SendCheck, ReceiveCheck, PaymentAccepted, PaymentRefused, Complete,
       Cleanup, LateCleanup, GoTo, TypeOK
  <2>2. CASE \E q \in Requests : GatewayFault(q)
    BY <2>2 DEF GatewayFault, CheckTimesOut, PaymentTimesOut, CompleteFails, CleanupFails, Kill, GoTo,
       TypeOK
  <2>3. CASE UNCHANGED gatewayVars
    BY <2>3 DEF gatewayVars
  <2> QED
    BY <2>1, <2>2, <2>3 DEF Next, PaymentStep, IdempotencyStep
<1>2. \A r \in Requests : check[r].reply = "MISS" => check'[r] = check[r]
  BY CheckSteps DEF Linked
<1> QED
  BY <1>1, <1>2 DEF Through

(* No step refuses a request without a reason. *)
LEMMA BlamedNext ==
  ASSUME TypeOK, Linked, Blamed, Next
  PROVE  Blamed'
<1>1. \A q \in Requests :
        /\ check[q].at = "answered" => check'[q] = check[q]
        /\ check[q].at # "off" => check'[q].at # "off"
  <2>1. CASE \E q \in Requests : IdempotencyStep(q)
    <3>1. PICK q \in Requests : CheckStep(q) \/ CheckFault(q)
      BY <2>1 DEF IdempotencyStep
    <3>2. \/ \E at \in {"find", "reacquire", "refind"} : ContinueCheck(q, at)
          \/ \E reply, body : Reply(q, reply, body)
          \/ UNCHANGED check
      BY <3>1 DEF CheckStep, CheckFault, Acquire, FindRequest, CheckFails, CheckResent, Judge
    <3>3. \A r \in Requests : check[r].at # "off" => check'[r].at # "off"
      BY <3>2 DEF ContinueCheck, Reply, TypeOK, IdempotencyTypeOK, CheckCall
    <3> QED
      BY <3>3, CheckSteps
  <2>2. CASE \E q \in Requests : SendCheck(q)
    BY <2>2, CheckSteps DEF SendCheck, ContinueCheck, TypeOK, IdempotencyTypeOK, CheckCall
  <2>3. CASE UNCHANGED check
    BY <2>3
  <2> QED
    BY <2>1, <2>2, <2>3 DEF Next, GatewayStep, GatewayFault, ReceiveCheck, PaymentAccepted,
       PaymentRefused, Complete, Cleanup, LateCleanup, CheckTimesOut, PaymentTimesOut,
       CompleteFails, CleanupFails, Kill, PaymentStep, Expire, idempotencyVars
<1>2. faults \in Nat /\ faults' \in Nat /\ (faults > 0 => faults' > 0)
  <2>1. faults' = faults \/ faults' = faults + 1
    BY DEF Next, GatewayStep, GatewayFault, SendCheck, ReceiveCheck, PaymentAccepted,
       PaymentRefused, Complete, Cleanup, LateCleanup, CheckTimesOut, PaymentTimesOut,
       CompleteFails, CleanupFails, Kill, PaymentStep, IdempotencyStep, CheckStep, CheckFault,
       Acquire, FindRequest, CheckFails, CheckResent, Expire, Fault
  <2> QED
    BY <2>1 DEF TypeOK, IdempotencyTypeOK
<1>3. Owned'
  <2> SUFFICES ASSUME NEW k \in Keys, store'[k] # NoRecord
               PROVE  \E q \in Requests :
                        /\ store'[k].owner = q /\ KeyOf[q] = k /\ store'[k].hash = HashOf[q]
                        /\ check'[q].at # "off"
                        /\ check'[q].at # "answered" => faults' > 0
    BY DEF Owned
  <2>1. StoreStep(k)
    BY StoreChanges
  <2>2. CASE store'[k] = store[k]
    BY <1>1, <1>2, <2>2 DEF Blamed, Owned
  <2>3. CASE \E q \in Requests :
               /\ KeyOf[q] = k /\ store'[k].owner = q /\ store'[k].hash = HashOf[q]
               /\ check[q].at # "off"
               /\ check'[q].at = "answered" \/ faults' = faults + 1
    BY <1>1, <1>2, <2>3
  <2>4. ASSUME NEW q \in Requests, KeyOf[q] = k, store[k].owner = q,
               store'[k] = [status |-> "COMPLETED", owner |-> q, hash |-> HashOf[q], body |-> q]
        PROVE  /\ store'[k].owner = q /\ store'[k].hash = HashOf[q]
               /\ check'[q].at # "off"
               /\ check'[q].at # "answered" => faults' > 0
    <3>1. store[k] # NoRecord
      BY <2>4, RequestsAssumption DEF NoRecord
    <3> QED
      BY <1>1, <1>2, <2>4, <3>1 DEF Blamed, Owned
  <2> QED
    BY <2>1, <2>2, <2>3, <2>4 DEF StoreStep
<1>4. ASSUME NEW r \in Requests, check[r].reply = "IN_PROGRESS", Orphaned(r)
      PROVE  Orphaned(r)'
  <2>1. KeyOf[r] \in Keys /\ StoreStep(KeyOf[r]) /\ expired \subseteq expired'
    BY StoreChanges, KeysAssumption
  <2>2. gate[r] \notin {"complete", "cleanup", "abandon", "late"}
    BY <1>4 DEF Blamed, Through
  <2>3. CASE KeyOf[r] \in expired
    BY <1>2, <1>4, <2>1, <2>3 DEF Orphaned
  <2>4. CASE store[KeyOf[r]].owner = r /\ store[KeyOf[r]].status = "IN_PROGRESS"
    <3>1. store[KeyOf[r]] # NoRecord
      BY <2>4 DEF NoRecord
    <3>2. store'[KeyOf[r]] = store[KeyOf[r]] \/ KeyOf[r] \in expired'
      BY <2>1, <2>2, <2>4, <3>1 DEF StoreStep
    <3> QED
      BY <1>2, <1>4, <2>4, <3>2 DEF Orphaned
  <2> QED
    BY <1>4, <2>3, <2>4 DEF Orphaned
<1>5. ASSUME NEW r \in Requests, check'[r].reply \in Refusals
      PROVE  Reason(r, check[r].reply)'
  <2>1. CASE check'[r] = check[r]
    <3>1. Cause(r, check[r].reply) => Cause(r, check[r].reply)'
      BY <1>1, <2>1 DEF Cause
    <3> QED
      BY <1>4, <1>5, <2>1, <3>1 DEF Blamed, Reason
  <2>2. CASE check[r].at # "answered" /\ ~Free(r) /\ Judge(r, store[KeyOf[r]])
    <3>1. PICK q \in Requests :
            /\ store[KeyOf[r]].owner = q
            /\ KeyOf[q] = KeyOf[r] /\ store[KeyOf[r]].hash = HashOf[q]
            /\ check[q].at # "off"
            /\ check[q].at # "answered" => faults > 0
      BY <2>2, KeysAssumption DEF Blamed, Owned, Free
    <3>2. check'[r].reply = "MISMATCH" <=> HashOf[q] # HashOf[r]
      BY <1>5, <2>2, <3>1 DEF Judge, Reply, Refusals, TypeOK, IdempotencyTypeOK
    <3>3. CASE q # r
      BY <1>1, <3>1, <3>2, <3>3 DEF Cause, Reason
    <3>4. CASE q = r
      <4>1. check'[r].reply = "IN_PROGRESS" /\ store[KeyOf[r]].status = "IN_PROGRESS"
        BY <1>5, <2>2, <3>1, <3>2, <3>4 DEF Judge, Reply, Refusals, TypeOK, IdempotencyTypeOK
      <4>2. gate[r] \notin {"complete", "cleanup", "abandon", "late"}
        BY <2>2 DEF Blamed, Through, Linked
      <4>3. KeyOf[r] \in Keys /\ StoreStep(KeyOf[r])
        BY StoreChanges, KeysAssumption
      <4>4. store'[KeyOf[r]] = store[KeyOf[r]] \/ KeyOf[r] \in expired'
        BY <2>2, <3>1, <3>4, <4>2, <4>3 DEF StoreStep, Free
      <4> QED
        BY <1>2, <2>2, <3>1, <3>4, <4>1, <4>4 DEF Reason, Orphaned
    <3> QED
      BY <3>3, <3>4
  <2> QED
    BY <1>5, <2>1, <2>2, CheckSteps
<1>6. ASSUME NEW r \in Requests, answer'[r] \in Refusals
      PROVE  answer'[r] = check'[r].reply
  <2>1. CASE answer'[r] = answer[r]
    <3>1. answer[r] = check[r].reply /\ check[r].at = "answered"
      BY <1>6, <2>1 DEF Blamed, Linked, Refusals
    <3> QED
      BY <1>1, <2>1, <3>1
  <2> QED
    BY <1>6, <2>1, RefusalIsReply
<1>7. Through'
  BY ThroughNext DEF Blamed
<1> QED
  BY <1>3, <1>5, <1>6, <1>7 DEF Blamed

(* idempotency.service.ts, steps 3 to 5 of check: no request is told 422   *)
(* or 409 without a reason; the one that is not another request is a lost  *)
(* answer, and its lock is then left to the TTL.                           *)
THEOREM RefusalsAreTrueHolds == Spec => []RefusalsAreTrue
<1>1. Init => Blamed
  BY DEF Init, IdempotencyInit, NoCheck, Blamed, Owned, Through, Refusals
<1>2. Inv /\ Blamed /\ [Next]_vars => Blamed'
  <2>1. CASE UNCHANGED vars
    BY <2>1 DEF vars, Blamed, Owned, Through, Reason, Orphaned, Cause
  <2> QED
    BY <2>1, BlamedNext DEF Inv
<1>3. Blamed => RefusalsAreTrue
  BY DEF Blamed, RefusalsAreTrue
<1> QED
  BY <1>1, <1>2, <1>3, GatewayInvariant, PTL DEF Spec

=============================================================================
