----------------------------- MODULE OutboxRelay -----------------------------
(***************************************************************************)
(* apps/outbox-relay: several relay processes drain the payment service's  *)
(* outbox table into Kafka.                                                *)
(*                                                                         *)
(*   Database  a row per event: its status, its retryCount, whether its    *)
(*             lastAttemptAt has passed the stale timeout, and the row     *)
(*             locks of open claim transactions.                           *)
(*   Relay     a scheduler that runs one cycle at a time (scheduler.ts);   *)
(*             a cycle recovers stale claims, then polls and spawns        *)
(*             batches until capacity is used up, then awaits them         *)
(*             (relay.service.ts).  Batches run concurrently with the      *)
(*             cycle and may outlive it.                                   *)
(*   Kafka     the copies of events the broker accepted.                   *)
(*                                                                         *)
(* A claimed event is the row that claimPending returned.  Only its id and *)
(* its retryCount at the time of the claim are kept, so a batch is a set   *)
(* of pairs <<event, retryCount>>, and Kafka's log holds the same pairs.   *)
(***************************************************************************)
EXTENDS Integers, FiniteSets

CONSTANTS
  Events,              \* outbox ids; the order of numbers is the order of createdAt
  Poison,              \* events publishBatch throws on before anything is sent
  Relays,              \* relay processes
  RetryLimit,          \* config.outbox.retryLimit
  BatchSize,           \* config.outbox.batchSize
  MaxInFlight,         \* config.outbox.maxInFlightMessages
  MaxBatchesPerCycle,  \* maxBatchesPerCycle, 10 in the code
  MaxFaults            \* bound: database errors, kills and shutdowns together

ASSUME EventsAssumption == Events \subseteq Nat /\ IsFiniteSet(Events)
ASSUME PoisonAssumption == Poison \subseteq Events
ASSUME LimitsAssumption ==
  /\ RetryLimit \in Nat \ {0}
  /\ BatchSize \in Nat \ {0}
  /\ MaxInFlight \in Nat \ {0}
  /\ MaxBatchesPerCycle \in Nat \ {0}
ASSUME FaultsAssumption == MaxFaults \in Nat

VARIABLES
  status,          \* OutboxEvent.status, "NONE" before the row exists
  retryCount,      \* OutboxEvent.retryCount
  stale,           \* events whose lastAttemptAt is older than staleTimeoutMs
  locked,          \* rows locked by each relay's open claim transaction
  log,             \* copies accepted by Kafka
  pc,              \* where each relay's scheduler and cycle are
  isRunning,       \* OutboxScheduler.isRunning
  batchLimit,      \* currentBatchLimit of the poll under way
  batchesSpawned,  \* batchesSpawned of the cycle under way
  activeInFlight,  \* OutboxRelayService.activeInFlight
  batches,         \* the runPublish promises that have not settled
  faults           \* faults so far

db    == <<status, retryCount, stale, locked>>
cycle == <<pc, batchLimit, batchesSpawned>>
vars  == <<status, retryCount, stale, locked, log, pc, isRunning, batchLimit,
           batchesSpawned, activeInFlight, batches, faults>>

Status == {"NONE", "PENDING", "PUBLISHING", "PUBLISHED", "FAILED", "RETRYING"}

(***************************************************************************)
(* idle      the flush timer is armed (or, after shutdown, cleared)        *)
(* recover   processBatch is at recoverStale                               *)
(* polling   pollPending called, no row selected yet                       *)
(* claiming  rows selected FOR UPDATE, transaction not committed           *)
(* awaiting  at Promise.all(promises)                                      *)
(* killed    the process was killed                                        *)
(* exited    the process ended on an unhandled rejection                   *)
(* stopped   the process ended after a graceful shutdown                   *)
(***************************************************************************)
Polling == {"recover", "polling", "claiming", "awaiting"}
Down    == {"killed", "exited", "stopped"}
PC      == {"idle"} \cup Polling \cup Down

(***************************************************************************)
(* What runPublish awaits: "publish" is publishBatch, then                 *)
(* "markPublished" or "markFailed".  inCycle: the promise belongs to the   *)
(* cycle under way.  inDrain: a shutdown awaits it.                        *)
(***************************************************************************)
Stage == {"publish", "markPublished", "markFailed"}
Copies == Events \X Nat
Batch == [items : SUBSET Copies, stage : Stage, inCycle : BOOLEAN, inDrain : BOOLEAN]

EventsOf(items) == {item[1] : item \in items}
ItemsOf(B) == UNION {b.items : b \in B}
InFlight(r) == ItemsOf(batches[r])
Min2(a, b) == IF a < b THEN a ELSE b

TypeOK ==
  /\ status \in [Events -> Status]
  /\ retryCount \in [Events -> Nat]
  /\ stale \subseteq Events
  /\ locked \in [Relays -> SUBSET Events]
  /\ log \subseteq Copies
  /\ pc \in [Relays -> PC]
  /\ isRunning \in [Relays -> BOOLEAN]
  /\ batchLimit \in [Relays -> Nat]
  /\ batchesSpawned \in [Relays -> Nat]
  /\ activeInFlight \in [Relays -> Int]
  /\ batches \in [Relays -> SUBSET Batch]
  /\ faults \in Nat

Init ==
  /\ status = [e \in Events |-> "NONE"]
  /\ retryCount = [e \in Events |-> 0]
  /\ stale = {}
  /\ locked = [r \in Relays |-> {}]
  /\ log = {}
  /\ pc = [r \in Relays |-> "idle"]
  /\ isRunning = [r \in Relays |-> TRUE]
  /\ batchLimit = [r \in Relays |-> 0]
  /\ batchesSpawned = [r \in Relays |-> 0]
  /\ activeInFlight = [r \in Relays |-> 0]
  /\ batches = [r \in Relays |-> {}]
  /\ faults = 0

-----------------------------------------------------------------------------
(* The environment: the payment service saves an event in its payment      *)
(* transaction; a claim grows older than the stale timeout.                *)

Save(e) ==
  /\ status[e] = "NONE"
  /\ status' = [status EXCEPT ![e] = "PENDING"]
  /\ UNCHANGED <<retryCount, stale, locked, log, cycle, isRunning, activeInFlight,
                 batches, faults>>

Age(e) ==
  /\ status[e] = "PUBLISHING"
  /\ e \notin stale
  /\ stale' = stale \cup {e}
  /\ UNCHANGED <<status, retryCount, locked, log, cycle, isRunning, activeInFlight,
                 batches, faults>>

Fault == faults < MaxFaults /\ faults' = faults + 1

-----------------------------------------------------------------------------
(* Updates of the outbox table.                                            *)

(* Mutant: one attempt too many. *)
AfterFailureLate(e) == IF retryCount[e] + 1 <= RetryLimit THEN "RETRYING" ELSE "FAILED"

(* What one failed attempt leaves of a claimed row, by recoverStale and by *)
(* the two updates of markFailedBatch.                                     *)
AfterFailure(e) == IF retryCount[e] + 1 < RetryLimit THEN "RETRYING" ELSE "FAILED"

(* Mutant: the failure is counted down. *)
FailRowsDecrement(S) ==
  /\ status' = [e \in Events |-> IF e \in S THEN AfterFailure(e) ELSE status[e]]
  /\ retryCount' = [e \in Events |-> IF e \in S THEN retryCount[e] - 1 ELSE retryCount[e]]

FailRows(S) ==
  /\ status' = [e \in Events |-> IF e \in S THEN AfterFailure(e) ELSE status[e]]
  /\ retryCount' = [e \in Events |-> IF e \in S THEN retryCount[e] + 1 ELSE retryCount[e]]

Publishing(S) == {e \in S : status[e] = "PUBLISHING"}

(* Mutant: the update forgets that another relay may have taken the row. *)
MarkPublishedBatchAny(S) ==
  /\ status' = [e \in Events |-> IF e \in S THEN "PUBLISHED" ELSE status[e]]
  /\ UNCHANGED retryCount

MarkPublishedBatch(S) ==
  /\ status' = [e \in Events |-> IF e \in Publishing(S) THEN "PUBLISHED" ELSE status[e]]
  /\ UNCHANGED retryCount

(* Mutant: the same omission in markFailedBatch. *)
MarkFailedBatchAny(S) == FailRows(S)

(* Rows that are FAILED with attempts left: the second update of           *)
(* markFailedBatch does not ask who failed them.                           *)
Promoted(S) == {e \in S : status[e] = "FAILED" /\ retryCount[e] < RetryLimit}

MarkFailedBatch(S) ==
  /\ status' = [e \in Events |-> CASE e \in Publishing(S) -> AfterFailure(e)
                                  [] e \in Promoted(S)   -> "RETRYING"
                                  [] OTHER               -> status[e]]
  /\ retryCount' = [e \in Events |-> IF e \in Publishing(S) THEN retryCount[e] + 1
                                     ELSE retryCount[e]]

-----------------------------------------------------------------------------
(* The scheduler and the cycle.                                            *)

Goto(r, label) == pc' = [pc EXCEPT ![r] = label]

(* The flush timer fires.  isPolling is pc[r] \in Polling. *)
StartCycle(r) ==
  /\ pc[r] = "idle"
  /\ isRunning[r]
  /\ Goto(r, "recover")
  /\ UNCHANGED <<db, log, isRunning, batchLimit, batchesSpawned, activeInFlight,
                 batches, faults>>

(* The loop's variables end with it. *)
LeaveLoop(r) ==
  /\ Goto(r, "awaiting")
  /\ batchLimit' = [batchLimit EXCEPT ![r] = 0]
  /\ batchesSpawned' = [batchesSpawned EXCEPT ![r] = 0]

(* The head of the polling loop, run in one go with what precedes it: on   *)
(* to another poll, or out of the loop when the cycle has spawned its      *)
(* batches or the relay is saturated (back-pressure).                      *)
LoopHead(r, spawned, active) ==
  IF spawned < MaxBatchesPerCycle /\ active < MaxInFlight
  THEN /\ Goto(r, "polling")
       /\ batchLimit' = [batchLimit EXCEPT ![r] = Min2(BatchSize, MaxInFlight - active)]
       /\ batchesSpawned' = [batchesSpawned EXCEPT ![r] = spawned]
  ELSE LeaveLoop(r)

(* Mutant: stale claims are not recovered. *)
RecoverStaleNever(r) ==
  /\ pc[r] = "recover"
  /\ LoopHead(r, 0, activeInFlight[r])
  /\ UNCHANGED <<db, log, isRunning, activeInFlight, batches, faults>>

RecoverStale(r) ==
  /\ pc[r] = "recover"
  /\ FailRows(Publishing(stale))
  /\ LoopHead(r, 0, activeInFlight[r])
  /\ UNCHANGED <<stale, locked, log, isRunning, activeInFlight, batches, faults>>

(* The transaction rolls back; the error is swallowed and the cycle goes on. *)
RecoverStaleFails(r) ==
  /\ pc[r] = "recover"
  /\ Fault
  /\ LoopHead(r, 0, activeInFlight[r])
  /\ UNCHANGED <<db, log, isRunning, activeInFlight, batches>>

(* Mutant: no FOR UPDATE SKIP LOCKED. *)
ClaimableLocked == {e \in Events : status[e] \in {"PENDING", "RETRYING"}}

(* Rows that SELECT ... FOR UPDATE SKIP LOCKED considers. *)
Claimable ==
  {e \in Events : /\ status[e] \in {"PENDING", "RETRYING"}
                  /\ \A r \in Relays : e \notin locked[r]}

(* The prefix of the claimable rows, by createdAt, that LIMIT n leaves. *)
IsOldest(S, n) ==
  /\ S \subseteq Claimable
  /\ Cardinality(S) <= n
  /\ S # Claimable => Cardinality(S) = n
  /\ \A e \in S, f \in Claimable \ S : e < f

SelectRows(r) ==
  /\ pc[r] = "polling"
  /\ \E S \in SUBSET Claimable :
       /\ IsOldest(S, batchLimit[r])
       /\ locked' = [locked EXCEPT ![r] = S]
       /\ \/ S = {} /\ LeaveLoop(r)
          \/ S # {} /\ Goto(r, "claiming") /\ UNCHANGED <<batchLimit, batchesSpawned>>
  /\ UNCHANGED <<status, retryCount, stale, log, isRunning, activeInFlight, batches,
                 faults>>

ClaimRows(r) ==
  /\ status' = [e \in Events |-> IF e \in locked[r] THEN "PUBLISHING" ELSE status[e]]
  /\ stale' = stale \ locked[r]
  /\ locked' = [locked EXCEPT ![r] = {}]
  /\ UNCHANGED retryCount

NewBatch(r) ==
  [items |-> {<<e, retryCount[e]>> : e \in locked[r]}, stage |-> "publish",
   inCycle |-> TRUE, inDrain |-> FALSE]

(* The claim commits and its rows come back: runPublish is spawned, and    *)
(* the loop ends if the table had fewer rows than the limit.               *)
SpawnBatch(r) ==
  /\ pc[r] = "claiming"
  /\ ClaimRows(r)
  /\ batches' = [batches EXCEPT ![r] = @ \cup {NewBatch(r)}]
  /\ activeInFlight' = [activeInFlight EXCEPT ![r] = @ + Cardinality(locked[r])]
  /\ \/ /\ Cardinality(locked[r]) < batchLimit[r]
        /\ LeaveLoop(r)
     \/ /\ Cardinality(locked[r]) >= batchLimit[r]
        /\ LoopHead(r, batchesSpawned[r] + 1, activeInFlight[r] + Cardinality(locked[r]))
  /\ UNCHANGED <<log, isRunning, faults>>

(* pollPending throws: the transaction rolled back, or its commit went     *)
(* through and only the answer was lost.                                   *)
PollFails(r) ==
  /\ pc[r] \in {"polling", "claiming"}
  /\ Fault
  /\ \/ ClaimRows(r)
     \/ /\ locked' = [locked EXCEPT ![r] = {}]
        /\ UNCHANGED <<status, retryCount, stale>>
  /\ LeaveLoop(r)
  /\ UNCHANGED <<log, isRunning, activeInFlight, batches>>

Forget(S) == {[b EXCEPT !.inCycle = FALSE] : b \in S}

(* Promise.all(promises) resolves: every batch of the cycle has. *)
EndCycle(r) ==
  /\ pc[r] = "awaiting"
  /\ \A b \in batches[r] : ~b.inCycle
  /\ Goto(r, "idle")
  /\ UNCHANGED <<db, log, isRunning, batchLimit, batchesSpawned, activeInFlight,
                 batches, faults>>

-----------------------------------------------------------------------------
(* A batch: runPublish.                                                    *)

SetStage(r, b, stage) ==
  batches' = [batches EXCEPT ![r] = (@ \ {b}) \cup {[b EXCEPT !.stage = stage]}]

Publish(r, b) ==
  /\ b.stage = "publish"
  /\ EventsOf(b.items) \cap Poison = {}
  /\ log' = log \cup b.items
  /\ SetStage(r, b, "markPublished")
  /\ UNCHANGED <<db, cycle, isRunning, activeInFlight, faults>>

(* Mutant: the producer's error is swallowed. *)
PublishFailsSwallowed(r, b) ==
  /\ b.stage = "publish"
  /\ SetStage(r, b, "markPublished")
  /\ UNCHANGED <<db, log, cycle, isRunning, activeInFlight, faults>>

(* publishBatch throws.  A poison event throws before anything is sent;    *)
(* otherwise the broker may have taken any part of the batch, all of it    *)
(* included when only the acknowledgement was lost.                        *)
PublishFails(r, b) ==
  /\ b.stage = "publish"
  /\ \E taken \in SUBSET b.items :
       /\ EventsOf(b.items) \cap Poison # {} => taken = {}
       /\ log' = log \cup taken
  /\ SetStage(r, b, "markFailed")
  /\ UNCHANGED <<db, cycle, isRunning, activeInFlight, faults>>

(* Mutant: the counter is not given back. *)
SettleForgotten(r, b) == UNCHANGED activeInFlight

(* The finally block. *)
Settle(r, b) == activeInFlight' = [activeInFlight EXCEPT ![r] = @ - Cardinality(b.items)]

MarkPublished(r, b) ==
  /\ b.stage = "markPublished"
  /\ MarkPublishedBatch(EventsOf(b.items))
  /\ Settle(r, b)
  /\ batches' = [batches EXCEPT ![r] = @ \ {b}]
  /\ UNCHANGED <<stale, locked, log, cycle, isRunning, faults>>

(* markPublishedBatch throws, its update done or not: the same catch block *)
(* that handles a failed publish runs next.                                *)
MarkPublishedFails(r, b) ==
  /\ b.stage = "markPublished"
  /\ Fault
  /\ MarkPublishedBatch(EventsOf(b.items)) \/ UNCHANGED <<status, retryCount>>
  /\ SetStage(r, b, "markFailed")
  /\ UNCHANGED <<stale, locked, log, cycle, isRunning, activeInFlight>>

(* A process that ends loses its memory and its open transaction. *)
EndProcess(r, how) ==
  /\ Goto(r, how)
  /\ isRunning' = [isRunning EXCEPT ![r] = FALSE]
  /\ locked' = [locked EXCEPT ![r] = {}]
  /\ batches' = [batches EXCEPT ![r] = {}]
  /\ activeInFlight' = [activeInFlight EXCEPT ![r] = 0]
  /\ batchLimit' = [batchLimit EXCEPT ![r] = 0]
  /\ batchesSpawned' = [batchesSpawned EXCEPT ![r] = 0]
  /\ UNCHANGED <<stale, log>>

(* A rejection nobody awaits yet: Promise.all is only reached after the    *)
(* loop.                                                                   *)
Unhandled(r, b) == b.inCycle /\ ~b.inDrain /\ pc[r] # "awaiting"

(* runPublish rejects.  Promise.all rejects with the first rejection: the  *)
(* cycle ends while its other batches go on, and so does a shutdown's wait.*)
Reject(r, b) ==
  \/ Unhandled(r, b) /\ EndProcess(r, "exited")
  \/ /\ ~Unhandled(r, b)
     /\ Settle(r, b)
     /\ LET rest   == batches[r] \ {b}
            cycled == IF b.inCycle /\ pc[r] = "awaiting" THEN Forget(rest) ELSE rest
        IN  batches' = [batches EXCEPT ![r] =
              IF b.inDrain THEN {[c EXCEPT !.inDrain = FALSE] : c \in cycled} ELSE cycled]
     /\ Goto(r, IF b.inCycle /\ pc[r] = "awaiting" THEN "idle" ELSE pc[r])
     /\ UNCHANGED <<stale, locked, log, isRunning, batchLimit, batchesSpawned>>

(* markFailedBatch, then the error is thrown again. *)
MarkFailed(r, b) ==
  /\ b.stage = "markFailed"
  /\ MarkFailedBatch(EventsOf(b.items))
  /\ Reject(r, b)
  /\ UNCHANGED faults

(* markFailedBatch throws and rolls back; that error is swallowed. *)
MarkFailedFails(r, b) ==
  /\ b.stage = "markFailed"
  /\ Fault
  /\ UNCHANGED <<status, retryCount>>
  /\ Reject(r, b)

-----------------------------------------------------------------------------
(* The life of a process.                                                  *)

Kill(r) ==
  /\ pc[r] \notin Down
  /\ Fault
  /\ EndProcess(r, "killed")
  /\ UNCHANGED <<status, retryCount>>

(* SIGTERM: the scheduler and the service get onApplicationShutdown.  The  *)
(* timer is cleared, a cycle under way goes on, and the batches in flight  *)
(* now are the ones that are awaited.                                      *)
Shutdown(r) ==
  /\ pc[r] \notin Down
  /\ isRunning[r]
  /\ Fault
  /\ isRunning' = [isRunning EXCEPT ![r] = FALSE]
  /\ batches' = [batches EXCEPT ![r] = {[b EXCEPT !.inDrain = TRUE] : b \in @}]
  /\ UNCHANGED <<db, log, cycle, activeInFlight>>

(* onApplicationShutdown is done: the process ends, whatever a cycle is at.*)
FinishShutdown(r) ==
  /\ pc[r] \notin Down
  /\ ~isRunning[r]
  /\ \A b \in batches[r] : ~b.inDrain
  /\ EndProcess(r, "stopped")
  /\ UNCHANGED <<status, retryCount, faults>>

(* The process is started again: onApplicationBootstrap. *)
Restart(r) ==
  /\ pc[r] \in Down
  /\ Goto(r, "idle")
  /\ isRunning' = [isRunning EXCEPT ![r] = TRUE]
  /\ UNCHANGED <<db, log, batchLimit, batchesSpawned, activeInFlight, batches, faults>>

-----------------------------------------------------------------------------

CycleStep(r) ==
  \/ StartCycle(r)
  \/ RecoverStale(r)
  \/ RecoverStaleFails(r)
  \/ SelectRows(r)
  \/ SpawnBatch(r)
  \/ PollFails(r)
  \/ EndCycle(r)

BatchStep(r) ==
  \E b \in batches[r] :
    \/ Publish(r, b)
    \/ PublishFails(r, b)
    \/ MarkPublished(r, b)
    \/ MarkPublishedFails(r, b)
    \/ MarkFailed(r, b)
    \/ MarkFailedFails(r, b)

LifeStep(r) ==
  \/ Kill(r)
  \/ Shutdown(r)
  \/ FinishShutdown(r)
  \/ Restart(r)

Next ==
  \/ \E e \in Events : Save(e) \/ Age(e)
  \/ \E r \in Relays : CycleStep(r) \/ BatchStep(r) \/ LifeStep(r)

Spec == Init /\ [][Next]_vars

-----------------------------------------------------------------------------
(* Safety.                                                                 *)

(* The retry budget of an event (markFailedBatch, recoverStale): whoever   *)
(* counts its failures, relays racing each other included, an event is     *)
(* FAILED exactly when RetryLimit attempts have failed, and the count      *)
(* never passes the limit.                                                 *)
RetryBudget ==
  \A e \in Events :
    /\ retryCount[e] <= RetryLimit
    /\ status[e] = "FAILED" <=> retryCount[e] = RetryLimit

(* A row says PUBLISHED only if Kafka holds the event: a relay whose claim *)
(* was recovered under it may still mark the row, never without a send.    *)
PublishedIsInKafka ==
  \A e \in Events : status[e] = "PUBLISHED" => e \in EventsOf(log)

(* The back-pressure counter of relay.service.ts counts exactly the events *)
(* of unsettled batches, those of earlier cycles included, and stays       *)
(* within maxInFlightMessages although it is read before pollPending is    *)
(* awaited and raised after.                                               *)
BackPressure ==
  \A r \in Relays :
    /\ activeInFlight[r] = Cardinality(InFlight(r))
    /\ activeInFlight[r] <= MaxInFlight

(* Every attempt at an event belongs to one batch: two relays (or two      *)
(* batches of one) may hold the same event after stale recovery, never the *)
(* same attempt at it, and an attempt still to be sent is not in Kafka.    *)
OneBatchPerAttempt ==
  \A r, q \in Relays : \A b \in batches[r], c \in batches[q] :
    /\ b.items \cap c.items # {} => r = q /\ b = c
    /\ b.stage = "publish" => b.items \cap log = {}

(* At-least-once is bounded: Kafka gets no more copies of an event than    *)
(* RetryLimit, whatever fails after the broker accepted one.               *)
BoundedCopies ==
  \A e \in Events : Cardinality({copy \in log : copy[1] = e}) <= RetryLimit

(* PUBLISHED and FAILED are final: no late markFailedBatch, recovery or    *)
(* claim takes a row out of them.                                          *)
Final == {"PUBLISHED", "FAILED"}
FinalIsFinal ==
  [][\A e \in Events : status[e] \in Final => status'[e] = status[e]]_vars

-----------------------------------------------------------------------------
(* Refinement.  The open states of a row are one state of the promise.     *)

FateOf(e) ==
  CASE status[e] = "NONE"      -> "absent"
    [] status[e] = "PUBLISHED" -> "published"
    [] status[e] = "FAILED"    -> "failed"
    [] OTHER                   -> "open"

Delivery == INSTANCE OutboxDelivery WITH
  Attempts <- 0 .. (RetryLimit - 1),
  fate     <- [e \in Events |-> FateOf(e)],
  copies   <- log

(* The relays, the table and Kafka together implement OutboxDelivery.      *)
ImplementsDelivery == Delivery!DeliverySpec

-----------------------------------------------------------------------------
(* Liveness.  A running process takes its steps, a pending call returns,   *)
(* time passes and a process that ended is started again.  Faults are      *)
(* bounded by MaxFaults; Kafka may fail as often as it likes.              *)

Fairness ==
  /\ \A r \in Relays : /\ WF_vars(CycleStep(r))
                       /\ WF_vars(BatchStep(r))
                       /\ WF_vars(FinishShutdown(r))
                       /\ WF_vars(Restart(r))
  /\ \A e \in Events : WF_vars(Age(e))

FairSpec == Spec /\ Fairness

(* Every saved event is settled: a claim that a killed relay, a lost       *)
(* answer or a failed update left behind is recovered, and retries end.    *)
EventuallySettled ==
  \A e \in Events : status[e] = "PENDING" ~> status[e] \in Final

=============================================================================
