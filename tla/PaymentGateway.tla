--------------------------- MODULE PaymentGateway ---------------------------
(***************************************************************************)
(* apps/gateway: POST /api/v1/payments, the idempotency interceptor around *)
(* the proxy to the payment service, composed with both services.          *)
(*                                                                         *)
(* The gateway waits for each call no longer than its timeout; the service *)
(* it called goes on regardless.                                           *)
(***************************************************************************)
EXTENDS IdempotencyService, PaymentService

VARIABLES
  gate,    \* where the gateway is with each request
  answer,  \* what the client of a request was told
  shown    \* the payment the answer names

gatewayVars == <<gate, answer, shown>>
vars == <<store, check, expired, expiries, faults, payments, outbox, pay, gate, answer, shown>>

(***************************************************************************)
(* new        the client has not sent the request                          *)
(* check      idempotencyClient.check                                      *)
(* forward    next.handle(): the proxy waits for the payment service       *)
(* complete   idempotencyClient.complete, the answer already sent          *)
(* cleanup    idempotencyClient.cleanup, the answer waiting for it         *)
(* abandon    the same, after the proxy gave up waiting                    *)
(* late       cleanup timed out, its call still under way                  *)
(* done, dead the gateway is through with it, or was killed                *)
(***************************************************************************)
Gate == {"new", "check", "forward", "complete", "cleanup", "abandon", "late", "done", "dead"}
Answer == {"NONE", "ACCEPTED", "REPLAYED", "IN_PROGRESS", "MISMATCH", "REJECTED", "ERROR"}

TypeOK ==
  /\ IdempotencyTypeOK
  /\ PaymentTypeOK
  /\ gate \in [Requests -> Gate]
  /\ answer \in [Requests -> Answer]
  /\ shown \in [Requests -> Requests \cup {None}]

Init ==
  /\ IdempotencyInit
  /\ PaymentInit
  /\ gate = [r \in Requests |-> "new"]
  /\ answer = [r \in Requests |-> "NONE"]
  /\ shown = [r \in Requests |-> None]

-----------------------------------------------------------------------------

GoTo(r, at) == gate' = [gate EXCEPT ![r] = at]

Tell(r, what, payment) ==
  /\ answer' = [answer EXCEPT ![r] = what]
  /\ shown' = [shown EXCEPT ![r] = payment]

SendCheck(r) ==
  /\ gate[r] = "new"
  /\ GoTo(r, "check")
  /\ ContinueCheck(r, "acquire")
  /\ UNCHANGED <<store, expired, expiries, faults, paymentVars, answer, shown>>

(* MISS goes on to the payment service, COMPLETED is replayed, and every   *)
(* refusal or error of the check is the client's answer.                   *)
ReceiveCheck(r) ==
  /\ gate[r] = "check"
  /\ check[r].at = "answered"
  /\ \/ /\ check[r].reply = "MISS"
        /\ GoTo(r, "forward")
        /\ ContinuePay(r, "find")
        /\ UNCHANGED <<answer, shown>>
     \/ /\ check[r].reply = "COMPLETED"
        /\ GoTo(r, "done")
        /\ Tell(r, "REPLAYED", check[r].body)
        /\ UNCHANGED pay
     \/ /\ check[r].reply \in {"IN_PROGRESS", "MISMATCH", "ERROR"}
        /\ GoTo(r, "done")
        /\ Tell(r, check[r].reply, None)
        /\ UNCHANGED pay
  /\ UNCHANGED <<idempotencyVars, faults, payments, outbox>>

CheckTimesOut(r) ==
  /\ gate[r] = "check"
  /\ Fault
  /\ GoTo(r, "done")
  /\ Tell(r, "ERROR", None)
  /\ UNCHANGED <<idempotencyVars, paymentVars>>

(* tap: the response goes out, and complete runs beside it. *)
PaymentAccepted(r) ==
  /\ gate[r] = "forward"
  /\ pay[r] = [at |-> "answered", reply |-> "ACCEPTED"]
  /\ GoTo(r, "complete")
  /\ Tell(r, "ACCEPTED", r)
  /\ UNCHANGED <<idempotencyVars, faults, paymentVars>>

(* Mutant: complete is called although the payment was refused. *)
CacheRefusal(r) ==
  /\ gate[r] = "forward"
  /\ pay[r].at = "answered"
  /\ pay[r].reply \in {"REJECTED", "ERROR"}
  /\ GoTo(r, "complete")
  /\ UNCHANGED <<idempotencyVars, faults, paymentVars, answer, shown>>

(* Mutant: the error is thrown again with the lock still held. *)
RefusedKeepsLock(r) ==
  /\ gate[r] = "forward"
  /\ pay[r].at = "answered"
  /\ pay[r].reply \in {"REJECTED", "ERROR"}
  /\ GoTo(r, "done")
  /\ Tell(r, pay[r].reply, None)
  /\ UNCHANGED <<idempotencyVars, faults, paymentVars>>

(* catchError: the lock is released before the error is thrown again. *)
PaymentRefused(r) ==
  /\ gate[r] = "forward"
  /\ pay[r].at = "answered"
  /\ pay[r].reply \in {"REJECTED", "ERROR"}
  /\ GoTo(r, "cleanup")
  /\ UNCHANGED <<idempotencyVars, faults, paymentVars, answer, shown>>

(* The proxy's timeout, or a lost answer: the same catchError. *)
PaymentTimesOut(r) ==
  /\ gate[r] = "forward"
  /\ Fault
  /\ GoTo(r, "abandon")
  /\ UNCHANGED <<idempotencyVars, paymentVars, answer, shown>>

(* Mutant: the lock is released instead of the response being cached. *)
CompleteReleases(r) ==
  /\ gate[r] = "complete"
  /\ Delete(r)
  /\ GoTo(r, "done")
  /\ UNCHANGED <<check, expired, expiries, faults, paymentVars, answer, shown>>

Complete(r) ==
  /\ gate[r] = "complete"
  /\ MarkCompleted(r, r)
  /\ GoTo(r, "done")
  /\ UNCHANGED <<check, expired, expiries, faults, paymentVars, answer, shown>>

(* complete fails, its effect done or not; the error is logged. *)
CompleteFails(r) ==
  /\ gate[r] = "complete"
  /\ Fault
  /\ MarkCompleted(r, r) \/ UNCHANGED store
  /\ GoTo(r, "done")
  /\ UNCHANGED <<check, expired, expiries, paymentVars, answer, shown>>

(* What the client of a failed request is told: the status of the payment  *)
(* service, or a 504 or 503.                                               *)
TellFailure(r) == Tell(r, IF gate[r] = "cleanup" THEN pay[r].reply ELSE "ERROR", None)

(* Mutant: the error is not thrown again. *)
CleanupSwallows(r) ==
  /\ gate[r] \in {"cleanup", "abandon"}
  /\ Delete(r)
  /\ GoTo(r, "done")
  /\ UNCHANGED <<check, expired, expiries, faults, paymentVars, answer, shown>>

Cleanup(r) ==
  /\ gate[r] \in {"cleanup", "abandon"}
  /\ Delete(r)
  /\ GoTo(r, "done")
  /\ TellFailure(r)
  /\ UNCHANGED <<check, expired, expiries, faults, paymentVars>>

(* cleanup fails or times out; the error is logged and the client told.    *)
(* The call may still be carried out later.                                *)
CleanupFails(r) ==
  /\ gate[r] \in {"cleanup", "abandon"}
  /\ Fault
  /\ GoTo(r, "done") \/ GoTo(r, "late")
  /\ TellFailure(r)
  /\ UNCHANGED <<idempotencyVars, paymentVars>>

LateCleanup(r) ==
  /\ gate[r] = "late"
  /\ Delete(r)
  /\ GoTo(r, "done")
  /\ UNCHANGED <<check, expired, expiries, faults, paymentVars, answer, shown>>

(* The gateway is killed: the client of an open request sees a broken      *)
(* connection.                                                             *)
Kill(r) ==
  /\ gate[r] \in {"check", "forward", "complete", "cleanup", "abandon"}
  /\ Fault
  /\ GoTo(r, "dead")
  /\ IF answer[r] = "NONE" THEN Tell(r, "ERROR", None) ELSE UNCHANGED <<answer, shown>>
  /\ UNCHANGED <<idempotencyVars, paymentVars>>

-----------------------------------------------------------------------------

GatewayStep(r) ==
  \/ SendCheck(r)
  \/ ReceiveCheck(r)
  \/ PaymentAccepted(r)
  \/ PaymentRefused(r)
  \/ Complete(r)
  \/ Cleanup(r)
  \/ LateCleanup(r)

GatewayFault(r) ==
  \/ CheckTimesOut(r)
  \/ PaymentTimesOut(r)
  \/ CompleteFails(r)
  \/ CleanupFails(r)
  \/ Kill(r)

IdempotencyStep(r) == (CheckStep(r) \/ CheckFault(r)) /\ UNCHANGED <<paymentVars, gatewayVars>>

PaymentStep(r) ==
  /\ \/ PayStep(r) /\ UNCHANGED faults
     \/ Fault /\ DatabaseFails(r)
  /\ UNCHANGED <<idempotencyVars, gatewayVars>>

Next ==
  \/ \E r \in Requests :
       GatewayStep(r) \/ GatewayFault(r) \/ IdempotencyStep(r) \/ PaymentStep(r)
  \/ \E k \in Keys : Expire(k) /\ UNCHANGED <<paymentVars, gatewayVars>>

Spec == Init /\ [][Next]_vars

-----------------------------------------------------------------------------
(* Safety.                                                                 *)

(* The record a payment has: what a replay will show. *)
Holds(r) == payments[ReferenceOf[r]] = r /\ r \in outbox

(* The cache never lies (markCompleted, interceptor): a COMPLETED record   *)
(* names a committed payment that was asked for under the same key with    *)
(* the same checksum, and no late complete or cleanup of another request   *)
(* breaks that.                                                            *)
CacheIsTrue ==
  \A k \in Keys : store[k].status = "COMPLETED" =>
    /\ Holds(store[k].body)
    /\ KeyOf[store[k].body] = k
    /\ HashOf[store[k].body] = store[k].hash

(* Clients are told the truth: an accepted or replayed payment exists, is  *)
(* in the outbox and is the client's own key and body; a request that was  *)
(* refused by the payment service never gets a payment.                    *)
AnswersAreTrue ==
  \A r \in Requests :
    /\ answer[r] = "ACCEPTED" => shown[r] = r /\ Holds(r)
    /\ answer[r] = "REPLAYED" =>
         /\ Holds(shown[r])
         /\ KeyOf[shown[r]] = KeyOf[r]
         /\ HashOf[shown[r]] = HashOf[r]
    /\ answer[r] = "REJECTED" => ~Holds(r)

(* The lock (createInProgress, delete): as long as no record of the key    *)
(* expired, one request of a key at a time is inside the handler, and it   *)
(* owns the record; lost answers and late cleanups included.               *)
OneInHandler ==
  \A r, q \in Requests :
    /\ KeyOf[r] = KeyOf[q]
    /\ KeyOf[r] \notin expired
    /\ gate[r] \in {"forward", "complete"}
    /\ gate[q] \in {"forward", "complete"}
    => r = q /\ store[KeyOf[r]].owner = r

(* Payments are unique and never taken back, and each has its outbox event *)
(* although the duplicate check precedes the insert by two network calls.  *)
PaymentsStay ==
  [][/\ \A ref \in References : payments[ref] # None => payments'[ref] = payments[ref]
     /\ outbox' = {r \in Requests : payments'[ReferenceOf[r]] = r}]_vars

(* A payment whose client was told ACCEPTED is not executed again: until   *)
(* its record expires no request of the same key reaches the payment       *)
(* service, whether complete was done, is under way or failed.             *)
Starts(r) == pay[r].at = "off" /\ pay'[r].at # "off"

AcceptedOnce ==
  [][\A r, q \in Requests :
       /\ Starts(r)
       /\ KeyOf[q] = KeyOf[r]
       /\ KeyOf[r] \notin expired
       => answer[q] # "ACCEPTED"]_vars

(* Ownership (the Lua scripts): a record goes away or changes only when it *)
(* expires or when the gateway completes or cleans up the request that     *)
(* owns it; a request whose lock expired under it leaves the next owner's  *)
(* record alone.                                                           *)
LockIsOwned ==
  [][\A k \in Keys :
       store[k] # NoRecord /\ store'[k] # store[k] =>
         expiries' # expiries \/ gate'[store[k].owner] # gate[store[k].owner]]_vars

-----------------------------------------------------------------------------
(* Liveness.  A service works on what it was sent and its answer arrives;  *)
(* a call that hangs ends in the gateway's timeout, one of the faults.     *)

FairSpec ==
  /\ Spec
  /\ \A r \in Requests : /\ WF_vars(GatewayStep(r))
                         /\ WF_vars(IdempotencyStep(r))
                         /\ WF_vars(PaymentStep(r))

(* Every client is answered (intercept): no path through the interceptor   *)
(* waits for something that does not come.                                 *)
EveryoneIsAnswered == \A r \in Requests : <>(answer[r] # "NONE")

(* Unless a call failed, no lock is left to the 24 hours of its TTL: every *)
(* path through the interceptor completes the record or deletes it.        *)
LocksAreReleased ==
  \A k \in Keys : <>[](faults = 0 => store[k].status # "IN_PROGRESS")

=============================================================================
