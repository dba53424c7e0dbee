------------------------ MODULE InboxConsumerProofs -------------------------
(***************************************************************************)
(* Theorems about InboxConsumer for every number of workers, partitions    *)
(* and events, whatever the partitions hold, every retry limit and every   *)
(* bound on rebalances and faults.                                         *)
(***************************************************************************)
EXTENDS InboxConsumer, TLAPS

-----------------------------------------------------------------------------
(* Types.                                                                  *)

(* The message of a busy worker is in the log and is an event. *)
JobOK ==
  \A w \in Workers : pc[w] # "idle" =>
    /\ part[w] \in Partitions
    /\ offset[w] < Len(log[part[w]])
    /\ EventOf(w) \in Events

TypeInv == TypeOK /\ JobOK

(* Everything but the group's offsets and the job of the worker itself. *)
LEMMA GotoType ==
  ASSUME TypeInv, NEW w \in Workers, NEW call \in PC, pc[w] # "idle", Goto(w, call), UNCHANGED log
  PROVE  /\ pc' \in [Workers -> PC]
         /\ part' \in [Workers -> Partitions \cup {None}]
         /\ offset' \in [Workers -> Nat]
         /\ count' \in [Workers -> Nat]
         /\ JobOK'
<1> USE DEF TypeInv, TypeOK
<1>1. pc' \in [Workers -> PC] /\ pc'[w] = call /\ \A v \in Workers \ {w} : pc'[v] = pc[v]
  BY DEF Goto
<1>2. \A v \in Workers : EventOf(v)' = EventOf(v)
  BY DEF Goto, EventOf, MessageAt
<1>3. JobOK'
  BY <1>1, <1>2 DEF Goto, JobOK
<1> QED
  BY <1>1, <1>3 DEF Goto

(* A job that ends leaves well-typed jobs. *)
LEMMA EndJobType ==
  ASSUME TypeInv, NEW w \in Workers, EndJob(w), UNCHANGED log
  PROVE  /\ pc' \in [Workers -> PC]
         /\ part' \in [Workers -> Partitions \cup {None}]
         /\ offset' \in [Workers -> Nat]
         /\ count' \in [Workers -> Nat]
         /\ JobOK'
<1> USE DEF TypeInv, TypeOK
<1>1. pc' \in [Workers -> PC] /\ pc'[w] = "idle" /\ \A v \in Workers \ {w} : pc'[v] = pc[v]
  BY DEF EndJob, PC
<1>2. \A v \in Workers \ {w} : part'[v] = part[v] /\ offset'[v] = offset[v] /\ EventOf(v)' = EventOf(v)
  BY DEF EndJob, EventOf, MessageAt
<1>3. JobOK'
  BY <1>1, <1>2 DEF JobOK
<1> QED
  BY <1>1, <1>3 DEF EndJob

(* What the calls write has the type of the columns. *)
LEMMA EffectType ==
  ASSUME TypeInv, NEW w \in Workers, pc[w] # "idle", Effect(w) \/ UNCHANGED stored
  PROVE  /\ status' \in [Events -> Status]
         /\ retryCount' \in [Events -> Nat]
         /\ dlq' \subseteq Events
         /\ committed' \in [Partitions -> Nat]
<1> DEFINE e == EventOf(w)
<1>1. e \in Events /\ part[w] \in Partitions /\ offset[w] \in Nat /\ count[w] \in Nat
  BY DEF TypeInv, TypeOK, JobOK
<1> HIDE DEF e
<1>2. CASE UNCHANGED stored
  BY <1>2 DEF TypeInv, TypeOK, stored
<1>3. CASE CommitOffset(part[w], offset[w] + 1)
  BY <1>1, <1>3 DEF TypeInv, TypeOK, CommitOffset
<1>4. CASE RecordReceived(e) \/ TransitionStatus(e, Open, "PROCESSING")
  BY <1>1, <1>4 DEF TypeInv, TypeOK, RecordReceived, TransitionStatus, Status
<1>5. CASE PublishToDlq(e)
  BY <1>1, <1>5 DEF TypeInv, TypeOK, PublishToDlq
<1>6. CASE \E to \in Status, n \in Nat : UpdateStatus(e, to, n)
  BY <1>1, <1>6 DEF TypeInv, TypeOK, UpdateStatus
<1>7. retryCount[e] \in Nat
  BY <1>1 DEF TypeInv, TypeOK
<1> QED
  BY <1>1, <1>2, <1>3, <1>4, <1>5, <1>6, <1>7 DEF Effect, Status, e

(* The calls that write the inbox row, and what is in it then; every other *)
(* row stays as it is.                                                     *)
LEMMA EffectIs ==
  ASSUME TypeInv, NEW w \in Workers, NEW e \in Events, pc[w] # "idle", Effect(w), e = EventOf(w)
  PROVE  /\ \A f \in Events \ {e} : status'[f] = status[f] /\ retryCount'[f] = retryCount[f]
         /\ pc[w] \in Reads \cup Commits \cup {"publishDlq"} => UNCHANGED row
         /\ pc[w] \in {"record", "transition", "markProcessed"} => UNCHANGED retryCount
         /\ pc[w] = "record" => status'[e] = IF status[e] = "NONE" THEN "RECEIVED" ELSE status[e]
         /\ pc[w] = "transition" =>
              status'[e] = IF status[e] \in Open THEN "PROCESSING" ELSE status[e]
         /\ pc[w] = "markProcessed" => status'[e] = "PROCESSED"
         /\ pc[w] = "markRetrying" => status'[e] = "RETRYING" /\ retryCount'[e] = count[w]
         /\ pc[w] = "markDlq" => status'[e] = "DLQ_SENT" /\ retryCount'[e] = count[w]
         /\ pc[w] = "markFailed" => status'[e] = "FAILED" /\ retryCount'[e] = count[w]
         /\ IF pc[w] = "publishDlq" THEN dlq' = dlq \cup {e} ELSE UNCHANGED dlq
         /\ IF pc[w] \in Commits
            THEN committed' = [committed EXCEPT ![part[w]] = offset[w] + 1]
            ELSE UNCHANGED committed
<1> USE DEF TypeInv, TypeOK
<1>1. CASE pc[w] \in Reads
  BY <1>1 DEF Effect, stored, row, Reads, Commits
<1>2. CASE pc[w] \in Commits
  BY <1>2 DEF Effect, CommitOffset, row, Reads, Commits
<1>3. CASE pc[w] = "record"
  BY <1>3 DEF Effect, RecordReceived, Reads, Commits
<1>4. CASE pc[w] = "transition"
  BY <1>4 DEF Effect, TransitionStatus, Reads, Commits
<1>5. CASE pc[w] = "markProcessed"
  BY <1>5 DEF Effect, UpdateStatus, Reads, Commits
<1>6. CASE pc[w] = "markRetrying"
  BY <1>6 DEF Effect, UpdateStatus, Reads, Commits
<1>7. CASE pc[w] = "publishDlq"
  BY <1>7 DEF Effect, PublishToDlq, row, Reads, Commits
<1>8. CASE pc[w] = "markDlq"
  BY <1>8 DEF Effect, UpdateStatus, Reads, Commits
<1>9. CASE pc[w] = "markFailed"
  BY <1>9 DEF Effect, UpdateStatus, Reads, Commits
<1> QED
  BY <1>1, <1>2, <1>3, <1>4, <1>5, <1>6, <1>7, <1>8, <1>9 DEF Effect

-----------------------------------------------------------------------------
(* eachMessage seen from the inbox row.                                    *)

(* The calls a worker makes between taking the lock and giving it back. *)
AfterRun == {"markProcessed", "commitDone", "readRetry"}
InDlq    == {"publishDlq", "markDlq", "commitDlq"}
Custody  == {"handle", "markRetrying", "markFailed"} \cup AfterRun \cup InDlq

RowStays(e)   == status'[e] = status[e] /\ retryCount'[e] = retryCount[e]
Saved(e, s, n) == status'[e] = s /\ retryCount'[e] = n
RunsStay(e)   == executed'[e] = executed[e] /\ failed'[e] = failed[e]
DlqStays(e)   == e \in dlq' <=> e \in dlq
From(w, a, b) == pc[w] = a /\ pc'[w] = b
Failing == faults' = faults + 1
Refusal(w, e) == Fenced(w) /\ refused'[e] = refused[e] + 1

(* What a step of a busy worker leaves alone: the log, the operator's      *)
(* work, the jobs of the others and the rows of other events; its own job  *)
(* goes on or ends.                                                        *)
Frame(w, e) ==
  /\ UNCHANGED <<log, owner, rebalances, replayed>>
  /\ faults' = faults \/ Failing
  /\ refused'[e] = refused[e] \/ Refusal(w, e)
  /\ \A v \in Workers \ {w} :
       /\ pc'[v] = pc[v] /\ part'[v] = part[v] /\ offset'[v] = offset[v] /\ count'[v] = count[v]
       /\ EventOf(v)' = EventOf(v)
  /\ \A f \in Events \ {e} :
       RowStays(f) /\ RunsStay(f) /\ DlqStays(f) /\ refused'[f] = refused[f]
  /\ \/ pc'[w] = "idle"
     \/ part'[w] = part[w] /\ offset'[w] = offset[w] /\ EventOf(w)' = e

(* Before the lock is taken, and for duplicates. *)
Outside(w, e) ==
  /\ pc[w] \notin Custody
  /\ pc'[w] \notin Custody
  /\ pc'[w] = "commitDup" => status[e] \in Settled
  /\ \/ status'[e] = status[e]
     \/ status[e] = "NONE" /\ status'[e] = "RECEIVED"
     \/ status[e] \in Open /\ status'[e] = "PROCESSING" /\ Failing
  /\ retryCount'[e] = retryCount[e]
  /\ RunsStay(e) /\ DlqStays(e)

TakeLock(w, e) ==
  /\ From(w, "transition", "handle")
  /\ status[e] \in Open
  /\ Saved(e, "PROCESSING", retryCount[e])
  /\ RunsStay(e) /\ DlqStays(e)

(* handleEvent. *)
Run(w, e) ==
  /\ \/ From(w, "handle", "markProcessed") /\ executed'[e] = executed[e] + 1 /\ failed'[e] = failed[e]
     \/ From(w, "handle", "readRetry") /\ failed'[e] = failed[e] + 1 /\ executed'[e] = executed[e]
  /\ RowStays(e) /\ DlqStays(e)

(* After a run that succeeded. *)
Finish(w, e) ==
  /\ \/ From(w, "markProcessed", "commitDone") /\ Saved(e, "PROCESSED", retryCount[e])
     \/ /\ From(w, "markProcessed", "readRetry")
        /\ Failing
        /\ RowStays(e) \/ Saved(e, "PROCESSED", retryCount[e])
     \/ From(w, "commitDone", "idle") /\ RowStays(e)
     \/ From(w, "commitDone", "readRetry") /\ (Failing \/ Refusal(w, e)) /\ RowStays(e)
  /\ RunsStay(e) /\ DlqStays(e)

(* The catch block. *)
Catch(w, e) ==
  /\ \/ /\ pc[w] = "readRetry"
        /\ count'[w] = retryCount[e] + 1
        /\ pc'[w] = IF count'[w] <= RetryLimit THEN "markRetrying" ELSE "publishDlq"
        /\ RowStays(e)
     \/ From(w, "markRetrying", "idle") /\ (Saved(e, "RETRYING", count[w]) \/ (Failing /\ RowStays(e)))
     \/ From(w, "markFailed", "idle") /\ (Saved(e, "FAILED", count[w]) \/ (Failing /\ RowStays(e)))
     \/ From(w, "readRetry", "idle") /\ Failing /\ RowStays(e)
  /\ RunsStay(e) /\ DlqStays(e)

(* The branch to the dead letter topic. *)
DeadLetter(w, e) ==
  /\ \/ From(w, "publishDlq", "markDlq") /\ e \in dlq' /\ RowStays(e)
     \/ From(w, "publishDlq", "markFailed") /\ Failing /\ (e \in dlq' \/ DlqStays(e)) /\ RowStays(e)
     \/ From(w, "markDlq", "commitDlq") /\ DlqStays(e) /\ Saved(e, "DLQ_SENT", count[w])
     \/ /\ From(w, "markDlq", "markFailed")
        /\ Failing
        /\ DlqStays(e)
        /\ RowStays(e) \/ Saved(e, "DLQ_SENT", count[w])
     \/ From(w, "commitDlq", "idle") /\ DlqStays(e) /\ RowStays(e)
     \/ /\ From(w, "commitDlq", "markFailed")
        /\ Failing \/ Refusal(w, e)
        /\ DlqStays(e) /\ RowStays(e)
  /\ count'[w] = count[w] \/ pc'[w] = "idle"
  /\ RunsStay(e)

Dies(w, e) ==
  /\ pc'[w] = "idle"
  /\ Failing
  /\ RowStays(e) /\ RunsStay(e) /\ DlqStays(e)

Move(w, e) ==
  /\ Frame(w, e)
  /\ Outside(w, e) \/ TakeLock(w, e) \/ Run(w, e) \/ Finish(w, e) \/ Catch(w, e)
       \/ DeadLetter(w, e) \/ Dies(w, e)

BusyStep(w) ==
  \/ Lookup(w) \/ Record(w) \/ Collided(w) \/ Transition(w) \/ Reread(w)
  \/ HandlerSucceeds(w) \/ HandlerFails(w) \/ ReadRetry(w)
  \/ MarkForRetry(w) \/ CallReturns(w) \/ Commit(w) \/ CommitRefused(w)
  \/ CallFails(w) \/ Kill(w)

(* Its steps are those of a worker with a message. *)
LEMMA BusyIsBusy ==
  ASSUME NEW w \in Workers, BusyStep(w)
  PROVE  pc[w] # "idle"
  BY DEF BusyStep, Lookup, Record, Collided, Transition, Reread, HandlerSucceeds, HandlerFails,
     ReadRetry, MarkForRetry, CallReturns, Commit, CommitRefused, Commits, CallFails, Calls, Reads,
     Kill

(* What becomes of a job: it goes on to another call, ends, or counts its retry. *)
LEMMA JobStep ==
  ASSUME NEW w \in Workers, BusyStep(w)
  PROVE  (\E call \in PC : Goto(w, call)) \/ EndJob(w) \/ ReadRetry(w)
<1>1. CASE Lookup(w) \/ Collided(w) \/ Reread(w)
  BY <1>1 DEF Lookup, Collided, Reread, Decide, Proceed, Throw, PC, Calls, Reads, Commits
<1>2. CASE Record(w) \/ Transition(w) \/ HandlerSucceeds(w) \/ HandlerFails(w)
  BY <1>2 DEF Record, Transition, HandlerSucceeds, HandlerFails, Proceed, PC, Calls, Reads, Commits
<1>3. CASE CallReturns(w)
  BY <1>3 DEF CallReturns, AfterCall, Proceed, PC, Calls, Reads, Commits
<1>4. CASE MarkForRetry(w) \/ Commit(w) \/ Kill(w)
  BY <1>4 DEF MarkForRetry, Commit, Kill, Throw, Return
<1>5. CASE CallFails(w) \/ CommitRefused(w)
  BY <1>5 DEF CallFails, CommitRefused, Caught, Proceed, Throw, PC, Calls, Reads, Commits
<1> QED
  BY <1>1, <1>2, <1>3, <1>4, <1>5 DEF BusyStep

(* The job of a worker goes on or ends; nobody else's changes. *)
LEMMA JobFrame ==
  ASSUME TypeInv, NEW w \in Workers, BusyStep(w)
  PROVE  /\ UNCHANGED <<log, owner, rebalances, replayed>>
         /\ faults' = faults \/ Failing
         /\ \A v \in Workers \ {w} :
              /\ pc'[v] = pc[v] /\ part'[v] = part[v] /\ offset'[v] = offset[v]
              /\ count'[v] = count[v] /\ EventOf(v)' = EventOf(v)
         /\ \/ pc'[w] = "idle"
            \/ part'[w] = part[w] /\ offset'[w] = offset[w] /\ EventOf(w)' = EventOf(w)
<1> USE DEF TypeInv, TypeOK
<1>1. UNCHANGED <<log, rebalances, replayed>> /\ (faults' = faults \/ Failing)
  BY DEF BusyStep, Lookup, Record, Collided, Transition, Reread, HandlerSucceeds, HandlerFails,
     ReadRetry, MarkForRetry, CallReturns, Commit, CommitRefused, CallFails, Kill, manual, Fault,
     Failing
<1>2. UNCHANGED owner
  BY DEF BusyStep, Lookup, Record, Collided, Transition, Reread, HandlerSucceeds, HandlerFails,
     ReadRetry, MarkForRetry, CallReturns, Commit, CommitRefused, CallFails, Kill, Caught, Decide,
     Proceed, Throw, Return, group
<1>3. (\E call \in PC : Goto(w, call)) \/ EndJob(w) \/ ReadRetry(w)
  BY JobStep
<1>4. CASE \E call \in PC : Goto(w, call)
  BY <1>1, <1>2, <1>4 DEF Goto, EventOf, MessageAt
<1>5. CASE EndJob(w)
  BY <1>1, <1>2, <1>5 DEF EndJob, EventOf, MessageAt
<1>6. CASE ReadRetry(w)
  BY <1>1, <1>2, <1>6 DEF ReadRetry, EventOf, MessageAt
<1> QED
  BY <1>3, <1>4, <1>5, <1>6

(* The runs counted: only handleEvent counts any. *)
LEMMA RunsFrame ==
  ASSUME TypeInv, NEW w \in Workers, BusyStep(w), NEW e \in Events, e = EventOf(w)
  PROVE  \A f \in Events :
           f # e \/ ~(HandlerSucceeds(w) \/ HandlerFails(w)) => RunsStay(f)
<1>1. CASE HandlerSucceeds(w) \/ HandlerFails(w)
  BY <1>1 DEF HandlerSucceeds, HandlerFails, RunsStay, TypeInv, TypeOK
<1>2. CASE UNCHANGED <<failed, executed>>
  BY <1>2 DEF RunsStay
<1> QED
  BY <1>1, <1>2 DEF BusyStep, Lookup, Record, Collided, Transition, Reread, ReadRetry, MarkForRetry,
     CallReturns, Commit, CommitRefused, CallFails, Kill, runs

(* The commits refused: one of the worker itself, when it lost its partition. *)
LEMMA RefusedFrame ==
  ASSUME TypeInv, NEW w \in Workers, BusyStep(w), NEW e \in Events, e = EventOf(w)
  PROVE  /\ refused'[e] = refused[e] \/ Refusal(w, e)
         /\ \A f \in Events \ {e} : refused'[f] = refused[f]
<1>1. CASE CommitRefused(w)
  BY <1>1 DEF CommitRefused, Refusal, TypeInv, TypeOK
<1>2. CASE UNCHANGED refused
  BY <1>2
<1> QED
  BY <1>1, <1>2 DEF BusyStep, Lookup, Record, Collided, Transition, Reread, HandlerSucceeds,
     HandlerFails, ReadRetry, MarkForRetry, CallReturns, Commit, CallFails, Kill, runs

(* Every step of a busy worker is one of the moves. *)
LEMMA Moves ==
  ASSUME TypeInv, NEW w \in Workers, BusyStep(w), NEW e \in Events, e = EventOf(w)
  PROVE  Move(w, e)
<1> USE DEF From
<1>1. pc[w] # "idle"
  BY BusyIsBusy
<1>2. pc \in [Workers -> PC] /\ dlq \subseteq Events
  BY DEF TypeInv, TypeOK
<1>3. UNCHANGED stored => \A f \in Events : RowStays(f) /\ DlqStays(f)
  BY DEF stored, RowStays, DlqStays
<1>4. ASSUME Effect(w) \/ UNCHANGED stored
      PROVE  \A f \in Events \ {e} : RowStays(f) /\ DlqStays(f)
  BY <1>1, <1>3, <1>4, EffectIs DEF RowStays, DlqStays
<1>5. Effect(w) \/ UNCHANGED stored
  BY DEF BusyStep, Lookup, Record, Collided, Transition, Reread, HandlerSucceeds, HandlerFails,
     ReadRetry, MarkForRetry, CallReturns, Commit, CommitRefused, CallFails, Kill
<1>6. Frame(w, e)
  BY <1>4, <1>5, JobFrame, RunsFrame, RefusedFrame DEF Frame
<1>7. CASE Lookup(w) \/ Collided(w) \/ Reread(w)
  <2>1. RunsStay(e) /\ RowStays(e) /\ DlqStays(e)
    BY <1>3, <1>7, RunsFrame DEF Lookup, Collided, Reread, HandlerSucceeds, HandlerFails
  <2>2. pc'[w] \in {"idle", "commitDup", "transition", "record"}
    BY <1>2, <1>7 DEF Lookup, Collided, Reread, Decide, Proceed, Throw, Goto, EndJob
  <2>3. pc'[w] = "commitDup" => status[e] \in Settled
    BY <1>2, <1>7 DEF Lookup, Collided, Reread, Decide, Proceed, Throw, Goto, EndJob
  <2>4. pc[w] \notin Custody
    BY <1>7 DEF Lookup, Collided, Reread, Custody, AfterRun, InDlq
  <2> QED
    BY <1>6, <2>1, <2>2, <2>3, <2>4 DEF Move, Outside, RowStays, Custody, AfterRun, InDlq
<1>8. CASE Record(w)
  <2>1. RunsStay(e)
    BY <1>8, RunsFrame DEF Record, HandlerSucceeds, HandlerFails
  <2>2. /\ status'[e] = IF status[e] = "NONE" THEN "RECEIVED" ELSE status[e]
        /\ retryCount'[e] = retryCount[e]
        /\ DlqStays(e)
    BY <1>1, <1>8, EffectIs DEF Record, DlqStays
  <2>3. pc[w] = "record" /\ pc'[w] \in {"transition", "collided"}
    BY <1>2, <1>8 DEF Record, Proceed, Goto
  <2> QED
    BY <1>6, <2>1, <2>2, <2>3 DEF Move, Outside, Custody, AfterRun, InDlq
<1>9. CASE Transition(w)
  <2>1. RunsStay(e)
    BY <1>9, RunsFrame DEF Transition, HandlerSucceeds, HandlerFails
  <2>2. /\ status'[e] = IF status[e] \in Open THEN "PROCESSING" ELSE status[e]
        /\ retryCount'[e] = retryCount[e]
        /\ DlqStays(e)
    BY <1>1, <1>9, EffectIs DEF Transition, DlqStays
  <2>3. /\ pc[w] = "transition"
        /\ pc'[w] = IF status[e] \in Open THEN "handle" ELSE "reread"
    BY <1>2, <1>9 DEF Transition, Proceed, Goto
  <2> QED
    BY <1>6, <2>1, <2>2, <2>3 DEF Move, Outside, TakeLock, Saved, Custody, AfterRun, InDlq
<1>10. CASE HandlerSucceeds(w) \/ HandlerFails(w)
  <2>1. RowStays(e) /\ DlqStays(e)
    BY <1>3, <1>10 DEF HandlerSucceeds, HandlerFails
  <2>2. \/ From(w, "handle", "markProcessed") /\ executed'[e] = executed[e] + 1 /\ failed'[e] = failed[e]
        \/ From(w, "handle", "readRetry") /\ failed'[e] = failed[e] + 1 /\ executed'[e] = executed[e]
    BY <1>2, <1>10 DEF HandlerSucceeds, HandlerFails, Proceed, Goto, TypeInv, TypeOK
  <2> QED
    BY <1>6, <2>1, <2>2 DEF Move, Run
<1>11. CASE ReadRetry(w)
  <2>1. RunsStay(e) /\ RowStays(e) /\ DlqStays(e)
    BY <1>3, <1>11, RunsFrame DEF ReadRetry, HandlerSucceeds, HandlerFails
  <2>2. /\ pc[w] = "readRetry"
        /\ count'[w] = retryCount[e] + 1
        /\ pc'[w] = IF count'[w] <= RetryLimit THEN "markRetrying" ELSE "publishDlq"
    BY <1>2, <1>11 DEF ReadRetry, TypeInv, TypeOK
  <2> QED
    BY <1>6, <2>1, <2>2 DEF Move, Catch
<1>12. CASE MarkForRetry(w)
  <2>1. RunsStay(e)
    BY <1>12, RunsFrame DEF MarkForRetry, HandlerSucceeds, HandlerFails
  <2>2. /\ pc[w] = "markRetrying" => Saved(e, "RETRYING", count[w])
        /\ pc[w] = "markFailed" => Saved(e, "FAILED", count[w])
        /\ DlqStays(e)
    BY <1>1, <1>12, EffectIs DEF MarkForRetry, DlqStays, Saved
  <2>3. pc[w] \in {"markRetrying", "markFailed"} /\ pc'[w] = "idle"
    BY <1>2, <1>12 DEF MarkForRetry, Throw, EndJob
  <2> QED
    BY <1>6, <2>1, <2>2, <2>3 DEF Move, Catch
<1>13. CASE CallReturns(w)
  <2>1. RunsStay(e)
    BY <1>13, RunsFrame DEF CallReturns, HandlerSucceeds, HandlerFails
  <2>2. /\ pc[w] = "markProcessed" => Saved(e, "PROCESSED", retryCount[e]) /\ DlqStays(e)
        /\ pc[w] = "publishDlq" => RowStays(e) /\ e \in dlq'
        /\ pc[w] = "markDlq" => Saved(e, "DLQ_SENT", count[w]) /\ DlqStays(e)
    BY <1>1, <1>13, EffectIs DEF CallReturns, DlqStays, Saved, RowStays, row
  <2>3. /\ count'[w] = count[w]
        /\ \/ From(w, "markProcessed", "commitDone")
           \/ From(w, "publishDlq", "markDlq")
           \/ From(w, "markDlq", "commitDlq")
    BY <1>2, <1>13 DEF CallReturns, AfterCall, Proceed, Goto
  <2> QED
    BY <1>6, <2>1, <2>2, <2>3 DEF Move, Finish, DeadLetter
<1>14. CASE Commit(w)
  <2>1. RunsStay(e)
    BY <1>14, RunsFrame DEF Commit, HandlerSucceeds, HandlerFails, Commits
  <2>2. RowStays(e) /\ DlqStays(e)
    BY <1>1, <1>14, EffectIs DEF Commit, Commits, DlqStays, RowStays, row
  <2>3. pc[w] \in Commits /\ pc'[w] = "idle"
    BY <1>2, <1>14 DEF Commit, Return, EndJob
  <2>4. CASE pc[w] = "commitDup"
    BY <1>6, <2>1, <2>2, <2>3, <2>4 DEF Move, Outside, RowStays, Custody, AfterRun, InDlq
  <2>5. CASE pc[w] = "commitDone"
    BY <1>6, <2>1, <2>2, <2>3, <2>5 DEF Move, Finish
  <2>6. CASE pc[w] = "commitDlq"
    BY <1>6, <2>1, <2>2, <2>3, <2>6 DEF Move, DeadLetter
  <2> QED
    BY <2>3, <2>4, <2>5, <2>6 DEF Commits
<1>15. CASE Kill(w)
  <2>1. RunsStay(e) /\ RowStays(e) /\ DlqStays(e)
    BY <1>3, <1>15 DEF Kill, RunsStay, runs
  <2>2. pc'[w] = "idle" /\ Failing
    BY <1>2, <1>15 DEF Kill, EndJob, Fault, Failing
  <2> QED
    BY <1>6, <2>1, <2>2 DEF Move, Dies
<1>16. CASE CallFails(w)
  <2>1. RunsStay(e)
    BY <1>16 DEF CallFails, RunsStay, runs
  <2>2. Failing
    BY <1>16 DEF CallFails, Fault, Failing
  <2>3. /\ pc[w] \in {"record", "transition"} =>
             /\ \/ status'[e] = status[e]
                \/ status[e] = "NONE" /\ status'[e] = "RECEIVED"
                \/ status[e] \in Open /\ status'[e] = "PROCESSING"
             /\ retryCount'[e] = retryCount[e]
             /\ DlqStays(e)
        /\ pc[w] \in Reads \cup Commits => RowStays(e) /\ DlqStays(e)
        /\ pc[w] = "markProcessed" =>
             (RowStays(e) \/ Saved(e, "PROCESSED", retryCount[e])) /\ DlqStays(e)
        /\ pc[w] = "markRetrying" => (RowStays(e) \/ Saved(e, "RETRYING", count[w])) /\ DlqStays(e)
        /\ pc[w] = "markFailed" => (RowStays(e) \/ Saved(e, "FAILED", count[w])) /\ DlqStays(e)
        /\ pc[w] = "markDlq" => (RowStays(e) \/ Saved(e, "DLQ_SENT", count[w])) /\ DlqStays(e)
        /\ pc[w] = "publishDlq" => RowStays(e) /\ (e \in dlq' \/ DlqStays(e))
    <3>1. CASE UNCHANGED stored
      BY <1>3, <3>1 DEF RowStays
    <3>2. CASE Effect(w)
      BY <1>1, <3>2, EffectIs DEF DlqStays, Saved, RowStays, row, Reads, Commits
    <3> QED
      BY <1>16, <3>1, <3>2 DEF CallFails
  <2>4. CASE pc[w] \in {"markProcessed", "commitDone"}
    <3>1. pc'[w] = "readRetry"
      BY <1>2, <1>16, <2>4 DEF CallFails, Caught, Proceed, Goto, Reads
    <3> QED
      BY <1>6, <2>1, <2>2, <2>3, <2>4, <3>1 DEF Move, Finish, Commits
  <2>5. CASE pc[w] \in {"publishDlq", "markDlq", "commitDlq"}
    <3>1. pc'[w] = "markFailed" /\ count'[w] = count[w]
      BY <1>2, <1>16, <2>5 DEF CallFails, Caught, Proceed, Goto, Reads
    <3> QED
      BY <1>6, <2>1, <2>2, <2>3, <2>5, <3>1 DEF Move, DeadLetter, Commits
  <2>6. CASE pc[w] \in {"record", "transition", "commitDup", "lookup", "collided", "reread"}
    <3>1. pc'[w] = "idle"
      BY <1>2, <1>16, <2>6 DEF CallFails, Caught, Throw, EndJob
    <3>2. \/ status'[e] = status[e]
          \/ status[e] = "NONE" /\ status'[e] = "RECEIVED"
          \/ status[e] \in Open /\ status'[e] = "PROCESSING"
      BY <2>3, <2>6 DEF RowStays, Reads, Commits
    <3>3. retryCount'[e] = retryCount[e] /\ DlqStays(e)
      BY <2>3, <2>6 DEF RowStays, Reads, Commits
    <3> QED
      BY <1>6, <2>1, <2>2, <2>6, <3>1, <3>2, <3>3 DEF Move, Outside, Custody, AfterRun, InDlq
  <2>7. CASE pc[w] \in {"markRetrying", "markFailed", "readRetry"}
    <3>1. pc'[w] = "idle"
      BY <1>2, <1>16, <2>7 DEF CallFails, Caught, Throw, EndJob
    <3> QED
      BY <1>6, <2>1, <2>2, <2>3, <2>7, <3>1 DEF Move, Catch, Reads
  <2> QED
    BY <1>16, <2>4, <2>5, <2>6, <2>7 DEF CallFails, Calls, Reads, Commits
<1>17. CASE CommitRefused(w)
  <2>1. RunsStay(e) /\ RowStays(e) /\ DlqStays(e)
    BY <1>3, <1>17 DEF CommitRefused, RunsStay
  <2>2. pc[w] # "commitDup" => Refusal(w, e)
    BY <1>17 DEF CommitRefused, Refusal, TypeInv, TypeOK
  <2>3. /\ pc[w] = "commitDup" => pc'[w] = "idle"
        /\ pc[w] = "commitDone" => pc'[w] = "readRetry"
        /\ pc[w] = "commitDlq" => pc'[w] = "markFailed" /\ count'[w] = count[w]
    BY <1>2, <1>17 DEF CommitRefused, Caught, Proceed, Goto, Throw, EndJob, Reads
  <2>4. CASE pc[w] = "commitDup"
    BY <1>6, <2>1, <2>3, <2>4 DEF Move, Outside, RowStays, Custody, AfterRun, InDlq
  <2>5. CASE pc[w] = "commitDone"
    BY <1>6, <2>1, <2>2, <2>3, <2>5 DEF Move, Finish
  <2>6. CASE pc[w] = "commitDlq"
    BY <1>6, <2>1, <2>2, <2>3, <2>6 DEF Move, DeadLetter
  <2> QED
    BY <1>17, <2>4, <2>5, <2>6 DEF CommitRefused, Commits
<1> QED
  BY <1>7, <1>8, <1>9, <1>10, <1>11, <1>12, <1>13, <1>14, <1>15, <1>16, <1>17 DEF BusyStep

-----------------------------------------------------------------------------
(* The steps of the others: a message is passed over or delivered, the     *)
(* partitions move, an operator publishes an event again.                  *)

Reassigned == Rebalance \/ \E w \in Workers : Join(w)

Elsewhere ==
  \/ \E w \in Workers, p \in Partitions : SkipTombstone(w, p) \/ Deliver(w, p)
  \/ Reassigned
  \/ \E e \in Events : Replay(e)

(* Every step is of a busy worker, of the group and the log, or of the operator. *)
LEMMA NextCases ==
  ASSUME Next
  PROVE  \/ \E w \in Workers : BusyStep(w)
         \/ Elsewhere
         \/ \E e \in Events : PrepareForReplay(e)
  BY DEF Next, WorkerStep, BusyStep, Elsewhere, Reassigned

(* They touch no row, and a busy worker keeps its message. *)
Aside ==
  /\ UNCHANGED <<status, retryCount, dlq, executed, failed, refused, replayed, faults, committed>>
  /\ \A v \in Workers :
       \/ /\ pc'[v] = pc[v] /\ part'[v] = part[v] /\ offset'[v] = offset[v] /\ count'[v] = count[v]
          /\ pc[v] # "idle" => EventOf(v)' = EventOf(v)
       \/ pc[v] = "idle" /\ pc'[v] = "lookup"

(* Partitions only grow at their end. *)
LEMMA LogGrows ==
  ASSUME TypeInv, Next, NEW p \in Partitions
  PROVE  /\ log[p] \in Seq(Message) /\ log'[p] \in Seq(Message)
         /\ Len(log[p]) <= Len(log'[p])
         /\ \A o \in Nat : o < Len(log[p]) => MessageAt(p, o)' = MessageAt(p, o)
<1> USE DEF TypeInv, TypeOK
<1>1. CASE UNCHANGED log
  BY <1>1 DEF MessageAt
<1>2. CASE \E e \in Events : Replay(e)
  <2>1. PICK e \in Events : log' = [log EXCEPT ![ReplayPartition[e]] = Append(@, e)]
    BY <1>2 DEF Replay
  <2>2. CASE p = ReplayPartition[e]
    <3>1. log'[p] = Append(log[p], e) /\ e \in Message
      BY <2>1, <2>2, MessagesAssumption DEF Message
    <3> QED
      BY <3>1 DEF MessageAt
  <2>3. CASE p # ReplayPartition[e]
    BY <2>1, <2>3, MessagesAssumption DEF MessageAt
  <2> QED
    BY <2>2, <2>3
<1>3. (\E w \in Workers : BusyStep(w)) => UNCHANGED log
  BY JobFrame
<1> QED
  BY <1>1, <1>2, <1>3, NextCases DEF Elsewhere, Reassigned, SkipTombstone, Deliver, Rebalance,
     Join, PrepareForReplay

(* The steps of the group and of the log leave the rows and the jobs alone. *)
LEMMA ElsewhereIsAside ==
  ASSUME TypeInv, Elsewhere, Next
  PROVE  Aside
<1> USE DEF TypeInv, TypeOK
<1>1. CASE Reassigned \/ \E w \in Workers, p \in Partitions : SkipTombstone(w, p)
  BY <1>1 DEF SkipTombstone, Reassigned, Rebalance, Join, Aside, stored, job, runs, manual, EventOf, MessageAt
<1>2. CASE \E w \in Workers, p \in Partitions : Deliver(w, p)
  <2>1. PICK w \in Workers, p \in Partitions : Deliver(w, p)
    BY <1>2
  <2>2. pc[w] = "idle" /\ pc'[w] = "lookup"
    BY <2>1 DEF Deliver
  <2>3. \A v \in Workers \ {w} :
          /\ pc'[v] = pc[v] /\ part'[v] = part[v] /\ offset'[v] = offset[v] /\ count'[v] = count[v]
          /\ EventOf(v)' = EventOf(v)
    BY <2>1 DEF Deliver, EventOf, MessageAt
  <2> QED
    BY <2>1, <2>2, <2>3 DEF Deliver, Aside, stored, runs, manual
<1>3. CASE \E e \in Events : Replay(e)
  <2>1. UNCHANGED <<status, retryCount, dlq, executed, failed, refused, replayed, faults, committed, job>>
    BY <1>3 DEF Replay, stored, runs
  <2>2. \A v \in Workers : pc[v] # "idle" => EventOf(v)' = EventOf(v)
    <3> SUFFICES ASSUME NEW v \in Workers, pc[v] # "idle"
                 PROVE  EventOf(v)' = EventOf(v)
      OBVIOUS
    <3>1. part[v] \in Partitions /\ offset[v] \in Nat /\ offset[v] < Len(log[part[v]])
      BY DEF JobOK
    <3>2. MessageAt(part[v], offset[v])' = MessageAt(part[v], offset[v])
      BY <2>1, <3>1, LogGrows DEF MessageAt, job
    <3> QED
      BY <3>2 DEF EventOf
  <2> QED
    BY <2>1, <2>2 DEF Aside, job
<1> QED
  BY <1>1, <1>2, <1>3 DEF Elsewhere

(* Types hold initially. *)
LEMMA InitTypeInv == Init => TypeInv
  BY MessagesAssumption DEF Init, TypeInv, TypeOK, JobOK, Status, PC

(* A busy worker keeps the types. *)
LEMMA BusyType ==
  ASSUME TypeInv, NEW w \in Workers, BusyStep(w)
  PROVE  TypeInv'
<1> USE DEF TypeInv
<1>1. pc[w] # "idle"
  BY BusyIsBusy
<1>2. /\ UNCHANGED <<log, manual, rebalances>>
      /\ faults' \in Nat
  BY DEF TypeOK, BusyStep, Lookup, Record, Collided, Transition, Reread, HandlerSucceeds, HandlerFails,
     ReadRetry, MarkForRetry, CallReturns, Commit, CommitRefused, CallFails, Kill, Fault
<1>3. /\ pc' \in [Workers -> PC]
      /\ part' \in [Workers -> Partitions \cup {None}]
      /\ offset' \in [Workers -> Nat]
      /\ count' \in [Workers -> Nat]
      /\ JobOK'
  <2>1. CASE \E call \in PC : Goto(w, call)
    BY <1>1, <1>2, <2>1, GotoType
  <2>2. CASE EndJob(w)
    BY <1>2, <2>2, EndJobType
  <2>3. CASE ReadRetry(w)
    <3>1. EventOf(w) \in Events /\ retryCount[EventOf(w)] \in Nat
      BY <1>1 DEF TypeOK, JobOK
    <3>2. pc' \in [Workers -> PC] /\ \A v \in Workers : pc'[v] # "idle" => pc[v] # "idle"
      BY <2>3 DEF ReadRetry, TypeOK, PC, Calls
    <3>3. \A v \in Workers : EventOf(v)' = EventOf(v)
      BY <2>3 DEF ReadRetry, EventOf, MessageAt
    <3>4. JobOK'
      BY <2>3, <3>2, <3>3 DEF ReadRetry, JobOK
    <3> QED
      BY <2>3, <3>1, <3>2, <3>4 DEF ReadRetry, TypeOK
  <2> QED
    BY <2>1, <2>2, <2>3, JobStep
<1>4. /\ status' \in [Events -> Status]
      /\ retryCount' \in [Events -> Nat]
      /\ dlq' \subseteq Events
      /\ committed' \in [Partitions -> Nat]
  <2>1. Effect(w) \/ UNCHANGED stored
    BY DEF BusyStep, Lookup, Record, Collided, Transition, Reread, HandlerSucceeds, HandlerFails,
       ReadRetry, MarkForRetry, CallReturns, Commit, CommitRefused, CallFails, Kill
  <2> QED
    BY <1>1, <2>1, EffectType
<1>5. executed' \in [Events -> Nat] /\ failed' \in [Events -> Nat] /\ refused' \in [Events -> Nat]
  <2>1. CASE HandlerSucceeds(w) \/ HandlerFails(w)
    <3>1. /\ EventOf(w) \in Events
          /\ executed \in [Events -> Nat] /\ failed \in [Events -> Nat]
          /\ refused \in [Events -> Nat]
      BY <1>1 DEF JobOK, TypeOK
    <3>2. CASE HandlerSucceeds(w)
      BY <3>1, <3>2 DEF HandlerSucceeds
    <3>3. CASE HandlerFails(w)
      BY <3>1, <3>3 DEF HandlerFails
    <3> QED
      BY <2>1, <3>2, <3>3
  <2>2. CASE UNCHANGED runs
    BY <2>2 DEF runs, TypeOK
  <2>3. CASE CommitRefused(w)
    <3>1. refused \in [Events -> Nat] /\ UNCHANGED <<failed, executed>>
      BY <2>3 DEF CommitRefused, TypeOK
    <3>2. refused' \in [Events -> Nat]
      BY <1>1, <2>3, <3>1 DEF CommitRefused, JobOK
    <3> QED
      BY <3>1, <3>2 DEF TypeOK
  <2> QED
    BY <2>1, <2>2, <2>3 DEF BusyStep, Lookup, Record, Collided, Transition, Reread, ReadRetry, MarkForRetry,
       CallReturns, Commit, CallFails, Kill
<1>6. position' \in [Partitions -> Nat] /\ owner' \in [Partitions -> Workers \cup {None}]
  <2>1. CASE Commit(w)
    BY <1>1, <2>1 DEF Commit, Return, TypeOK, JobOK
  <2>2. CASE Kill(w)
    BY <2>2 DEF Kill, TypeOK
  <2>3. CASE UNCHANGED group
    BY <2>3 DEF group, TypeOK
  <2> QED
    BY <2>1, <2>2, <2>3 DEF BusyStep, Lookup, Record, Collided, Transition, Reread, HandlerSucceeds,
       HandlerFails, ReadRetry, MarkForRetry, CallReturns, CommitRefused, CallFails, Caught, Decide,
       Proceed, Throw
<1> QED
  BY <1>2, <1>3, <1>4, <1>5, <1>6 DEF TypeOK, manual

(* Every step keeps the types. *)
LEMMA NextTypeInv == TypeInv /\ [Next]_vars => TypeInv'
<1>1. ASSUME TypeInv, UNCHANGED vars PROVE TypeInv'
  BY <1>1 DEF TypeInv, TypeOK, JobOK, EventOf, MessageAt, vars
<1>2. ASSUME TypeInv, Next,
             Reassigned \/ \E w \in Workers, p \in Partitions : SkipTombstone(w, p)
      PROVE  TypeInv'
  <2>1. UNCHANGED <<log, stored, job, runs, manual>>
    BY <1>2 DEF SkipTombstone, Reassigned, Rebalance, Join
  <2>2. JobOK'
    BY <1>2, <2>1 DEF TypeInv, JobOK, EventOf, MessageAt, job
  <2>3. /\ position' \in [Partitions -> Nat] /\ owner' \in [Partitions -> Workers \cup {None}]
        /\ rebalances' \in Nat /\ faults' \in Nat
    <3>1. /\ position \in [Partitions -> Nat] /\ owner \in [Partitions -> Workers \cup {None}]
          /\ rebalances \in Nat /\ faults \in Nat /\ committed \in [Partitions -> Nat]
      BY <1>2 DEF TypeInv, TypeOK
    <3>2. CASE \E w \in Workers, p \in Partitions : SkipTombstone(w, p)
      BY <3>1, <3>2 DEF SkipTombstone
    <3>3. CASE Rebalance
      BY <3>1, <3>3 DEF Rebalance
    <3>4. CASE \E w \in Workers : Join(w)
      BY <3>1, <3>4 DEF Join
    <3> QED
      BY <1>2, <3>2, <3>3, <3>4 DEF Reassigned
  <2> QED
    BY <1>2, <2>1, <2>2, <2>3 DEF TypeInv, TypeOK, stored, job, runs, manual
<1>3. ASSUME TypeInv, Next, NEW w \in Workers, NEW p \in Partitions, Deliver(w, p)
      PROVE  TypeInv'
  <2>1. TypeOK'
    BY <1>3 DEF TypeInv, TypeOK, Deliver, stored, group, runs, manual, PC, Calls, Reads
  <2>2. part'[w] = p /\ offset'[w] = position[p] /\ EventOf(w)' = MessageAt(p, position[p])
    BY <1>3 DEF TypeInv, TypeOK, Deliver, EventOf, MessageAt
  <2>3. \A v \in Workers \ {w} :
          pc'[v] = pc[v] /\ part'[v] = part[v] /\ offset'[v] = offset[v] /\ EventOf(v)' = EventOf(v)
    BY <1>3 DEF TypeInv, TypeOK, Deliver, EventOf, MessageAt
  <2>4. JobOK'
    BY <1>3, <2>2, <2>3 DEF TypeInv, JobOK, Deliver
  <2> QED
    BY <2>1, <2>4 DEF TypeInv
<1>4. ASSUME TypeInv, Next, NEW e \in Events, PrepareForReplay(e)
      PROVE  TypeInv'
  BY <1>4 DEF TypeInv, TypeOK, JobOK, EventOf, MessageAt, PrepareForReplay, UpdateStatus, group, job,
     runs, Status
<1>5. ASSUME TypeInv, Next, NEW e \in Events, Replay(e)
      PROVE  TypeInv'
  <2>1. \A p \in Partitions : log'[p] \in Seq(Message) /\ Len(log[p]) <= Len(log'[p])
    BY <1>5, LogGrows
  <2>2. log' \in [Partitions -> Seq(Message)]
    <3>1. log' = [p \in Partitions |-> log'[p]]
      BY <1>5 DEF Replay, TypeInv, TypeOK
    <3> QED
      BY <2>1, <3>1
  <2>3. TypeOK'
    BY <1>5, <2>2 DEF TypeInv, TypeOK, Replay, stored, group, job, runs
  <2>4. JobOK'
    <3>1. Aside
      BY <1>5, ElsewhereIsAside DEF Elsewhere
    <3>2. UNCHANGED job
      BY <1>5 DEF Replay
    <3> SUFFICES ASSUME NEW v \in Workers, pc[v] # "idle"
                 PROVE  /\ part[v] \in Partitions
                        /\ offset[v] < Len(log'[part[v]])
                        /\ EventOf(v)' \in Events
      BY <3>2 DEF JobOK, job
    <3>3. EventOf(v)' = EventOf(v)
      BY <3>1 DEF Aside
    <3>4. part[v] \in Partitions /\ offset[v] < Len(log[part[v]]) /\ EventOf(v) \in Events
      BY <1>5 DEF TypeInv, JobOK
    <3>5. offset[v] \in Nat /\ Len(log[part[v]]) \in Nat /\ Len(log'[part[v]]) \in Nat
      BY <1>5, <2>2, <3>4 DEF TypeInv, TypeOK
    <3> QED
      BY <2>1, <3>3, <3>4, <3>5
  <2> QED
    BY <2>3, <2>4 DEF TypeInv
<1> QED
  BY <1>1, <1>2, <1>3, <1>4, <1>5, NextCases, BusyType DEF Elsewhere

(* Every variable keeps its type. *)
THEOREM TypeCorrect == Spec => []TypeOK
<1>1. TypeInv => TypeOK
  BY DEF TypeInv
<1> QED
  BY <1>1, InitTypeInv, NextTypeInv, PTL DEF Spec

-----------------------------------------------------------------------------
(* The inductive invariant.                                                *)

Has(w, e) == pc[w] \in Custody /\ EventOf(w) = e

(* Until an operator replays an event, one worker at a time has it, and    *)
(* while one has it nobody can take the lock.                              *)
Exclusive ==
  \A e \in Events \ replayed : \A w \in Workers : Has(w, e) =>
    /\ status[e] \in Settled \cup {"PROCESSING"}
    /\ \A v \in Workers : Has(v, e) => v = w

(* What a status and a call say has happened, has. *)
Evidence ==
  /\ \A e \in Events :
       /\ status[e] = "PROCESSED" => executed[e] > 0
       /\ status[e] = "DLQ_SENT" => e \in dlq
  /\ \A w \in Workers :
       /\ pc[w] \in {"markProcessed", "commitDone"} => executed[EventOf(w)] > 0
       /\ pc[w] \in {"markDlq", "commitDlq"} => EventOf(w) \in dlq
       /\ pc[w] = "commitDup" => executed[EventOf(w)] > 0 \/ EventOf(w) \in dlq

(* The runs of an event, and when one more may follow: retryCount counts   *)
(* the runs that ended in the catch block but for at most one a setback.     *)
Ran(e) == failed[e] + executed[e]

MayRun(e) ==
  /\ executed[e] <= Setbacks(e)
  /\ retryCount[e] <= Ran(e)
  /\ Ran(e) <= retryCount[e] + Setbacks(e)
  /\ Ran(e) <= RetryLimit + Setbacks(e)

(* The budget of retries, for a worker in each phase of eachMessage. *)
InBudget(w, e) ==
  /\ pc[w] \notin {"markProcessed", "commitDone"} => executed[e] <= Setbacks(e)
  /\ pc[w] = "handle" => MayRun(e)
  /\ pc[w] \in AfterRun => retryCount[e] < Ran(e) /\ Ran(e) <= retryCount[e] + 1 + Setbacks(e)
  /\ pc[w] = "markRetrying" => count[w] <= RetryLimit
  /\ pc[w] \in InDlq \cup {"markFailed"} => RetryLimit < count[w]
  /\ pc[w] \in InDlq \cup {"markRetrying", "markFailed"} =>
       count[w] <= Ran(e) /\ Ran(e) <= count[w] + Setbacks(e)
  /\ pc[w] = "markFailed" => Ran(e) <= RetryLimit + Setbacks(e)

Budget ==
  \A e \in Events \ replayed :
    /\ executed[e] <= 1 + Setbacks(e)
    /\ Ran(e) <= RetryLimit + 1 + Setbacks(e)
    /\ e \in dlq => RetryLimit < Ran(e)
    /\ status[e] \in Open \cup {"NONE"} => MayRun(e)
    /\ \A w \in Workers : Has(w, e) => InBudget(w, e)

(* As long as nothing fails and no commit of the event is refused, who may *)
(* write its row has the lock, replayed events included.                   *)
Writing == Custody \ {"commitDone", "commitDlq"}

Quiet ==
  faults = 0 =>
    \A w \in Workers : pc[w] \in Writing /\ refused[EventOf(w)] = 0 =>
      /\ pc[w] # "markFailed"
      /\ status[EventOf(w)] = "PROCESSING"
      /\ \A v \in Workers : pc[v] \in Writing /\ EventOf(v) = EventOf(w) => v = w

(* What an operator does to a row; the jobs go on. *)
Prepared(e) ==
  /\ status[e] = "DLQ_SENT" /\ Saved(e, "RETRYING", 0)
  /\ \A f \in Events \ {e} : RowStays(f)
  /\ replayed' = replayed \cup {e}
  /\ UNCHANGED <<dlq, executed, failed, refused, faults, rebalances, log, committed, owner, position,
                 pc, part, offset, count>>
  /\ \A v \in Workers : EventOf(v)' = EventOf(v)

(* prepareForReplay resets one row and nothing else. *)
LEMMA PrepareIsPrepared ==
  ASSUME TypeInv, NEW e \in Events, PrepareForReplay(e)
  PROVE  Prepared(e)
  BY DEF TypeInv, TypeOK, PrepareForReplay, UpdateStatus, Prepared, Saved, RowStays, group, job, runs,
     EventOf, MessageAt

(* No step gives an event to a second worker. *)
LEMMA ExclusiveNext ==
  ASSUME TypeInv, Exclusive, Next
  PROVE  Exclusive'
<1> USE DEF Exclusive, Has
<1>1. ASSUME NEW w \in Workers, BusyStep(w)
      PROVE  Exclusive'
  <2> DEFINE e == EventOf(w)
  <2>1. e \in Events
    BY <1>1, BusyIsBusy DEF TypeInv, JobOK
  <2>2. Move(w, e)
    BY <1>1, <2>1, Moves
  <2> HIDE DEF e
  <2>3. /\ replayed' = replayed
        /\ \A v \in Workers \ {w} : pc'[v] = pc[v] /\ EventOf(v)' = EventOf(v)
        /\ \A f \in Events \ {e} : status'[f] = status[f]
        /\ pc'[w] \in Custody => EventOf(w)' = e
    BY <2>2 DEF Move, Frame, RowStays, Custody, AfterRun, InDlq
  <2>4. CASE Outside(w, e)
    BY <2>1, <2>3, <2>4 DEF Outside, Open, Settled
  <2>5. CASE TakeLock(w, e)
    BY <2>1, <2>3, <2>5 DEF TakeLock, From, Saved, Open, Settled, e
  <2>6. CASE /\ pc[w] \in Custody
             /\ status'[e] \in {status[e], "PROCESSED", "DLQ_SENT"} \/ pc'[w] = "idle"
    BY <2>1, <2>3, <2>6 DEF Settled, Custody, AfterRun, InDlq, e
  <2>7. CASE Dies(w, e)
    BY <2>1, <2>3, <2>7 DEF Dies, RowStays, Custody, AfterRun, InDlq, e
  <2>8. Run(w, e) \/ Finish(w, e) \/ Catch(w, e) \/ DeadLetter(w, e) =>
          /\ pc[w] \in Custody
          /\ status'[e] \in {status[e], "PROCESSED", "DLQ_SENT"} \/ pc'[w] = "idle"
    BY DEF Run, Finish, Catch, DeadLetter, From, RowStays, Saved, Custody, AfterRun, InDlq
  <2> QED
    BY <2>2, <2>4, <2>5, <2>6, <2>7, <2>8 DEF Move
<1>2. CASE Elsewhere
  <2>1. Aside
    BY <1>2, ElsewhereIsAside
  <2> QED
    BY <2>1 DEF Aside, Custody, AfterRun, InDlq
<1>3. ASSUME NEW e \in Events, PrepareForReplay(e)
      PROVE  Exclusive'
  <2>1. Prepared(e)
    BY <1>3, PrepareIsPrepared
  <2> QED
    BY <2>1 DEF Prepared, RowStays
<1> QED
  BY <1>1, <1>2, <1>3, NextCases

(* Runs and dead letters are never taken back. *)
LEMMA EvidenceGrows ==
  ASSUME TypeInv, Next, NEW e \in Events
  PROVE  /\ executed[e] \in Nat /\ executed'[e] \in Nat
         /\ failed[e] \in Nat /\ failed'[e] \in Nat
         /\ executed[e] <= executed'[e]
         /\ e \in dlq => e \in dlq'
<1>1. /\ executed[e] \in Nat /\ executed'[e] \in Nat
      /\ failed[e] \in Nat /\ failed'[e] \in Nat
  <2>1. TypeInv'
    BY NextTypeInv
  <2> QED
    BY <2>1 DEF TypeInv, TypeOK
<1>2. ASSUME NEW w \in Workers, BusyStep(w)
      PROVE  executed[e] <= executed'[e] /\ (e \in dlq => e \in dlq')
  <2>1. EventOf(w) \in Events
    BY <1>2, BusyIsBusy DEF TypeInv, JobOK
  <2>2. Move(w, EventOf(w))
    BY <1>2, <2>1, Moves
  <2>3. CASE e # EventOf(w)
    BY <1>1, <2>2, <2>3 DEF Move, Frame, RunsStay, DlqStays
  <2>4. CASE e = EventOf(w)
    BY <1>1, <2>2, <2>4 DEF Move, Outside, TakeLock, Run, Finish, Catch, DeadLetter, Dies, RunsStay,
       DlqStays
  <2> QED
    BY <2>3, <2>4
<1>3. CASE Elsewhere
  BY <1>1, <1>3, ElsewhereIsAside DEF Aside
<1>4. CASE \E f \in Events : PrepareForReplay(f)
  BY <1>1, <1>4, PrepareIsPrepared DEF Prepared
<1> QED
  BY <1>1, <1>2, <1>3, <1>4, NextCases

(* No step makes a row or a call claim what has not happened. *)
LEMMA EvidenceNext ==
  ASSUME TypeInv, Evidence, Next
  PROVE  Evidence'
<1>1. \A f \in Events :
        /\ executed[f] \in Nat /\ executed'[f] \in Nat
        /\ executed[f] <= executed'[f]
        /\ f \in dlq => f \in dlq'
  BY EvidenceGrows
<1>2. \A v \in Workers : pc[v] # "idle" => EventOf(v) \in Events
  BY DEF TypeInv, JobOK
<1>3. ASSUME NEW w \in Workers, BusyStep(w)
      PROVE  Evidence'
  <2> DEFINE e == EventOf(w)
  <2>1. e \in Events
    BY <1>2, <1>3, BusyIsBusy
  <2>2. Move(w, e)
    BY <1>3, <2>1, Moves
  <2>3. /\ \A v \in Workers \ {w} : pc'[v] = pc[v] /\ EventOf(v)' = EventOf(v)
        /\ \A f \in Events \ {e} : status'[f] = status[f]
        /\ pc'[w] # "idle" => EventOf(w)' = e
    BY <2>2 DEF Move, Frame, RowStays
  <2>4. /\ status[e] = "PROCESSED" => executed[e] > 0
        /\ status[e] = "DLQ_SENT" => e \in dlq
        /\ pc[w] \in {"markProcessed", "commitDone"} => executed[e] > 0
        /\ pc[w] \in {"markDlq", "commitDlq"} => e \in dlq
    BY <2>1 DEF Evidence
  <2> HIDE DEF e
  <2>5. /\ status'[e] = "PROCESSED" => executed'[e] > 0
        /\ status'[e] = "DLQ_SENT" => e \in dlq'
        /\ pc'[w] \in {"markProcessed", "commitDone"} => executed'[e] > 0
        /\ pc'[w] \in {"markDlq", "commitDlq"} => e \in dlq'
        /\ pc'[w] = "commitDup" => executed'[e] > 0 \/ e \in dlq'
    <3>1. CASE Outside(w, e)
      BY <1>1, <2>1, <2>4, <3>1 DEF Outside, Custody, AfterRun, InDlq, Settled
    <3>2. CASE TakeLock(w, e)
      BY <3>2 DEF TakeLock, From, Saved
    <3>3. CASE Run(w, e)
      BY <1>1, <2>1, <2>4, <3>3 DEF Run, From, RowStays
    <3>4. CASE Finish(w, e)
      BY <1>1, <2>1, <2>4, <3>4 DEF Finish, From, RowStays, Saved
    <3>5. CASE Catch(w, e)
      BY <1>1, <2>1, <2>4, <3>5 DEF Catch, From, RowStays, Saved
    <3>6. CASE DeadLetter(w, e)
      BY <1>1, <2>1, <2>4, <3>6 DEF DeadLetter, From, RowStays, Saved
    <3>7. CASE Dies(w, e)
      BY <1>1, <2>1, <2>4, <3>7 DEF Dies, RowStays
    <3> QED
      BY <2>2, <3>1, <3>2, <3>3, <3>4, <3>5, <3>6, <3>7 DEF Move
  <2>6. \A f \in Events :
          /\ status'[f] = "PROCESSED" => executed'[f] > 0
          /\ status'[f] = "DLQ_SENT" => f \in dlq'
    BY <1>1, <2>3, <2>5 DEF Evidence
  <2>7. ASSUME NEW v \in Workers
        PROVE  /\ pc'[v] \in {"markProcessed", "commitDone"} => executed'[EventOf(v)'] > 0
               /\ pc'[v] \in {"markDlq", "commitDlq"} => EventOf(v)' \in dlq'
               /\ pc'[v] = "commitDup" => executed'[EventOf(v)'] > 0 \/ EventOf(v)' \in dlq'
    <3>1. CASE v = w
      BY <2>3, <2>5, <3>1
    <3>2. CASE v # w
      BY <1>1, <1>2, <2>3, <3>2 DEF Evidence
    <3> QED
      BY <3>1, <3>2
  <2> QED
    BY <2>6, <2>7 DEF Evidence
<1>4. CASE Elsewhere
  <2>1. Aside
    BY <1>4, ElsewhereIsAside
  <2> QED
    BY <2>1 DEF Aside, Evidence
<1>5. ASSUME NEW e \in Events, PrepareForReplay(e)
      PROVE  Evidence'
  <2>1. Prepared(e)
    BY <1>5, PrepareIsPrepared
  <2> QED
    BY <2>1 DEF Prepared, RowStays, Saved, Evidence
<1> QED
  BY <1>3, <1>4, <1>5, NextCases

(* Without faults, no step writes a row without the lock. *)
LEMMA QuietNext ==
  ASSUME TypeInv, Quiet, Next
  PROVE  Quiet'
<1> USE DEF Quiet
<1>1. \A v \in Workers : pc[v] # "idle" => EventOf(v) \in Events
  BY DEF TypeInv, JobOK
<1>2. faults \in Nat /\ \A e \in Events : refused[e] \in Nat
  BY DEF TypeInv, TypeOK
<1>3. ASSUME NEW w \in Workers, BusyStep(w)
      PROVE  Quiet'
  <2> DEFINE e == EventOf(w)
  <2>1. e \in Events
    BY <1>1, <1>3, BusyIsBusy
  <2>2. Move(w, e)
    BY <1>3, <2>1, Moves
  <2> SUFFICES ASSUME faults' = 0
               PROVE  Quiet'
    OBVIOUS
  <2>3. faults = 0 /\ ~Failing
    BY <1>2, <2>2 DEF Move, Frame, Failing
  <2>4. /\ \A v \in Workers \ {w} : pc'[v] = pc[v] /\ EventOf(v)' = EventOf(v)
        /\ \A f \in Events \ {e} : status'[f] = status[f] /\ refused'[f] = refused[f]
        /\ pc'[w] # "idle" => EventOf(w)' = e
        /\ refused'[e] = 0 => refused[e] = 0 /\ ~Refusal(w, e)
    BY <1>2, <2>1, <2>2 DEF Move, Frame, RowStays, Refusal
  <2>5. refused[e] = 0 =>
          /\ pc[w] \in Writing => pc[w] # "markFailed" /\ status[e] = "PROCESSING"
          /\ \A v \in Workers \ {w} : pc[v] \in Writing /\ EventOf(v) = e =>
               status[e] = "PROCESSING" /\ pc[w] \notin Writing
    BY <2>3
  <2> HIDE DEF e
  <2>6. ASSUME refused'[e] = 0
        PROVE
        /\ pc'[w] \in Writing =>
             /\ pc'[w] # "markFailed"
             /\ status'[e] = "PROCESSING"
             /\ \A v \in Workers \ {w} : ~(pc[v] \in Writing /\ EventOf(v) = e)
        /\ \A v \in Workers \ {w} : pc[v] \in Writing /\ EventOf(v) = e => status'[e] = "PROCESSING"
    <3>1. CASE Outside(w, e)
      BY <2>4, <2>5, <2>6, <3>1 DEF Outside, Writing, Open
    <3>2. CASE TakeLock(w, e)
      BY <2>4, <2>5, <2>6, <3>2 DEF TakeLock, From, Saved, Open
    <3>3. CASE Run(w, e)
      BY <2>4, <2>5, <2>6, <3>3 DEF Run, From, RowStays, Writing, Custody, AfterRun, InDlq
    <3>4. CASE Finish(w, e)
      BY <2>3, <2>4, <2>5, <2>6, <3>4 DEF Finish, From, RowStays, Saved, Writing, Custody, AfterRun, InDlq
    <3>5. CASE Catch(w, e)
      BY <2>3, <2>4, <2>5, <2>6, <3>5 DEF Catch, From, RowStays, Saved, Writing, Custody, AfterRun, InDlq
    <3>6. CASE DeadLetter(w, e)
      BY <2>3, <2>4, <2>5, <2>6, <3>6 DEF DeadLetter, From, RowStays, Saved, Writing, Custody, AfterRun, InDlq
    <3>7. CASE Dies(w, e)
      BY <2>3, <3>7 DEF Dies
    <3> QED
      BY <2>2, <3>1, <3>2, <3>3, <3>4, <3>5, <3>6, <3>7 DEF Move
  <2>7. "idle" \notin Writing
    BY DEF Writing, Custody, AfterRun, InDlq
  <2>8. ASSUME NEW v \in Workers, pc'[v] \in Writing, refused'[EventOf(v)'] = 0
        PROVE  /\ pc'[v] # "markFailed"
               /\ status'[EventOf(v)'] = "PROCESSING"
               /\ \A u \in Workers : pc'[u] \in Writing /\ EventOf(u)' = EventOf(v)' => u = v
    <3>1. CASE v = w
      BY <2>4, <2>6, <2>7, <2>8, <3>1
    <3>2. CASE v # w
      <4>1. /\ pc[v] \in Writing /\ EventOf(v)' = EventOf(v) /\ EventOf(v) \in Events
            /\ pc[v] # "markFailed" /\ status[EventOf(v)] = "PROCESSING"
            /\ pc'[v] = pc[v] /\ refused[EventOf(v)] = 0 /\ refused'[EventOf(v)] = 0
        BY <1>1, <2>3, <2>4, <2>7, <2>8, <3>2
      <4>2. status'[EventOf(v)] = "PROCESSING"
        BY <2>4, <2>6, <3>2, <4>1
      <4>3. ASSUME NEW u \in Workers, pc'[u] \in Writing, EventOf(u)' = EventOf(v)'
            PROVE  u = v
        <5>1. CASE u = w
          BY <2>4, <2>6, <2>7, <3>2, <4>1, <4>3, <5>1
        <5>2. CASE u # w
          BY <2>3, <2>4, <4>1, <4>3, <5>2
        <5> QED
          BY <5>1, <5>2
      <4> QED
        BY <4>1, <4>2, <4>3
    <3> QED
      BY <3>1, <3>2
  <2> QED
    BY <2>8
<1>4. CASE Elsewhere
  <2>1. Aside
    BY <1>4, ElsewhereIsAside
  <2> QED
    BY <2>1 DEF Aside, Writing, Custody, AfterRun, InDlq
<1>5. ASSUME NEW e \in Events, PrepareForReplay(e)
      PROVE  Quiet'
  <2>1. Prepared(e)
    BY <1>5, PrepareIsPrepared
  <2> QED
    BY <1>1, <2>1 DEF Prepared, RowStays, Saved, Writing, Custody, AfterRun, InDlq
<1> QED
  BY <1>3, <1>4, <1>5, NextCases

(* Numbers, before and after a step. *)
Numbers ==
  /\ faults \in Nat /\ faults' \in Nat /\ faults <= faults' /\ RetryLimit \in Nat
  /\ \A e \in Events :
       /\ executed[e] \in Nat /\ executed'[e] \in Nat
       /\ failed[e] \in Nat /\ failed'[e] \in Nat
       /\ retryCount[e] \in Nat /\ retryCount'[e] \in Nat
       /\ refused[e] \in Nat /\ refused'[e] \in Nat /\ refused[e] <= refused'[e]
  /\ \A w \in Workers : count[w] \in Nat /\ count'[w] \in Nat

(* The counters are numbers on both sides of a step, and setbacks only     *)
(* grow.                                                                   *)
LEMMA NumbersOK ==
  ASSUME TypeInv, Next
  PROVE  Numbers
<1>1. TypeInv'
  BY NextTypeInv
<1>2. faults <= faults'
  <2>1. faults' = faults \/ faults' = faults + 1
    BY NextCases, JobFrame, ElsewhereIsAside, PrepareIsPrepared DEF Failing, Aside, Prepared
  <2> QED
    BY <2>1 DEF TypeInv, TypeOK
<1>3. ASSUME NEW e \in Events
      PROVE  refused[e] <= refused'[e]
  <2>1. refused[e] \in Nat
    BY DEF TypeInv, TypeOK
  <2>2. ASSUME NEW w \in Workers, BusyStep(w)
        PROVE  refused'[e] = refused[e] \/ refused'[e] = refused[e] + 1
    <3>1. EventOf(w) \in Events
      BY <2>2, BusyIsBusy DEF TypeInv, JobOK
    <3> QED
      BY <2>2, <3>1, RefusedFrame DEF Refusal
  <2>3. Elsewhere => refused'[e] = refused[e]
    BY ElsewhereIsAside DEF Aside
  <2>4. (\E f \in Events : PrepareForReplay(f)) => refused'[e] = refused[e]
    BY PrepareIsPrepared DEF Prepared
  <2> QED
    BY <2>1, <2>2, <2>3, <2>4, NextCases
<1> QED
  BY <1>1, <1>2, <1>3, BoundsAssumption DEF Numbers, TypeInv, TypeOK

(* Without faults, who may still write the row of a settled event lost its *)
(* partition and had its commit refused.                                   *)
Lost ==
  faults = 0 =>
    \A w \in Workers :
      pc[w] \in Writing /\ EventOf(w) \notin replayed /\ status[EventOf(w)] \in Settled =>
        Fenced(w) /\ refused[EventOf(w)] > 0

(* A worker that lost its partition has lost it for the message it has. *)
LEMMA StaysFenced ==
  ASSUME TypeInv, Next, NEW w \in Workers, Fenced(w), pc'[w] # "idle"
  PROVE  Fenced(w)'
<1>1. pc[w] # "idle" /\ part[w] \in Partitions /\ owner[part[w]] # w
  BY DEF Fenced, TypeInv, JobOK
<1>2. UNCHANGED owner \/ Reassigned
  BY NextCases, JobFrame, PrepareIsPrepared DEF Elsewhere, SkipTombstone, Deliver, Replay, Prepared, group
<1>3. part'[w] = part[w]
  <2>1. ASSUME NEW v \in Workers, BusyStep(v)
        PROVE  part'[w] = part[w]
    BY <2>1, JobFrame
  <2> QED
    BY <1>1, <2>1, NextCases, ElsewhereIsAside, PrepareIsPrepared DEF Aside, Prepared
<1>4. CASE UNCHANGED owner
  BY <1>1, <1>3, <1>4 DEF Fenced
<1>5. CASE Reassigned
  <2>1. owner'[part[w]] # w
    BY <1>1, <1>5, MessagesAssumption DEF Reassigned, Rebalance, Join
  <2> QED
    BY <1>3, <2>1 DEF Fenced
<1> QED
  BY <1>2, <1>4, <1>5

(* No step lets anybody else near the row of a settled event. *)
LEMMA LostNext ==
  ASSUME TypeInv, Exclusive, Lost, Next
  PROVE  Lost'
<1> SUFFICES ASSUME faults' = 0, NEW w \in Workers, pc'[w] \in Writing,
                    EventOf(w)' \notin replayed', status'[EventOf(w)'] \in Settled
             PROVE  Fenced(w)' /\ refused'[EventOf(w)'] > 0
  BY DEF Lost
<1>1. Numbers
  BY NumbersOK
<1>2. faults = 0 /\ pc'[w] # "idle" /\ pc'[w] # "lookup"
  BY <1>1 DEF Numbers, Writing, Custody, AfterRun, InDlq
<1>3. ASSUME pc[w] \in Writing, EventOf(w)' = EventOf(w), EventOf(w) \in Events,
             EventOf(w) \notin replayed, status[EventOf(w)] \in Settled
      PROVE  Fenced(w)' /\ refused'[EventOf(w)'] > 0
  <2>1. Fenced(w) /\ refused[EventOf(w)] > 0
    BY <1>2, <1>3 DEF Lost
  <2>2. Fenced(w)'
    BY <1>2, <2>1, StaysFenced
  <2> QED
    BY <1>1, <1>3, <2>1, <2>2 DEF Numbers
<1>4. ASSUME NEW v \in Workers, BusyStep(v)
      PROVE  Fenced(w)' /\ refused'[EventOf(w)'] > 0
  <2> DEFINE e == EventOf(v)
  <2>1. e \in Events
    BY <1>4, BusyIsBusy DEF TypeInv, JobOK
  <2>2. Move(v, e)
    BY <1>4, <2>1, Moves
  <2> HIDE DEF e
  <2>3. /\ UNCHANGED replayed /\ ~Failing
        /\ \A u \in Workers \ {v} : pc'[u] = pc[u] /\ EventOf(u)' = EventOf(u)
        /\ \A f \in Events \ {e} : status'[f] = status[f]
    BY <1>1, <1>2, <2>2 DEF Move, Frame, RowStays, Failing, Numbers
  <2>4. CASE w # v
    <3>1. pc[w] \in Writing /\ EventOf(w)' = EventOf(w) /\ EventOf(w) \notin replayed
      BY <2>3, <2>4
    <3>2. EventOf(w) \in Events
      BY <3>1 DEF TypeInv, JobOK, Writing, Custody, AfterRun, InDlq
    <3>3. status[EventOf(w)] \in Settled
      <4>1. CASE EventOf(w) # e
        BY <2>3, <3>1, <3>2, <4>1
      <4>2. CASE EventOf(w) = e
        <5>1. pc[v] \notin Custody
          BY <2>4, <3>1, <3>2, <4>2 DEF Exclusive, Has, Writing, e
        <5>2. Outside(v, e) \/ TakeLock(v, e) \/ Dies(v, e)
          BY <2>2, <5>1 DEF Move, Run, Finish, Catch, DeadLetter, From, Custody, AfterRun, InDlq
        <5> QED
          BY <3>1, <4>2, <5>2 DEF Outside, TakeLock, Dies, Saved, RowStays, Settled
      <4> QED
        BY <4>1, <4>2
    <3> QED
      BY <1>3, <3>1, <3>2, <3>3
  <2>5. CASE w = v
    <3>1. EventOf(w)' = e /\ EventOf(w) = e
      BY <1>2, <2>2, <2>5 DEF Move, Frame, e
    <3>2. CASE Refusal(v, e)
      <4>1. Fenced(w)'
        BY <1>2, <2>5, <3>2, StaysFenced DEF Refusal
      <4> QED
        BY <1>1, <2>1, <3>1, <3>2, <4>1 DEF Refusal, Numbers
    <3>3. CASE ~Refusal(v, e)
      <4>1. pc[w] \in Writing /\ status[e] \in Settled
        <5>1. CASE Outside(v, e) \/ TakeLock(v, e) \/ Dies(v, e)
          BY <1>2, <2>5, <3>1, <5>1 DEF Outside, TakeLock, Dies, Saved, Settled, Writing
        <5>2. CASE Run(v, e)
          BY <2>5, <3>1, <5>2 DEF Run, From, RowStays, Writing, Custody
        <5>3. CASE Finish(v, e)
          BY <1>2, <2>3, <2>5, <3>3, <5>3 DEF Finish, From, Writing, Custody, AfterRun, InDlq
        <5>4. CASE Catch(v, e)
          BY <1>2, <2>5, <3>1, <5>4 DEF Catch, From, RowStays, Writing, Custody, AfterRun, InDlq
        <5>5. CASE DeadLetter(v, e)
          BY <1>2, <2>3, <2>5, <3>1, <3>3, <5>5 DEF DeadLetter, From, RowStays, Writing, Custody,
             AfterRun, InDlq
        <5> QED
          BY <2>2, <5>1, <5>2, <5>3, <5>4, <5>5 DEF Move
      <4> QED
        BY <1>3, <2>1, <2>3, <3>1, <4>1
    <3> QED
      BY <3>2, <3>3
  <2> QED
    BY <2>4, <2>5
<1>5. CASE Elsewhere
  <2>1. Aside
    BY <1>5, ElsewhereIsAside
  <2>2. pc[w] \in Writing /\ pc[w] # "idle" /\ EventOf(w)' = EventOf(w)
    BY <1>2, <2>1 DEF Aside
  <2>3. EventOf(w) \in Events
    BY <2>2 DEF TypeInv, JobOK
  <2> QED
    BY <1>3, <2>1, <2>2, <2>3 DEF Aside
<1>6. ASSUME NEW f \in Events, PrepareForReplay(f)
      PROVE  Fenced(w)' /\ refused'[EventOf(w)'] > 0
  <2>1. Prepared(f)
    BY <1>6, PrepareIsPrepared
  <2>2. /\ pc[w] \in Writing /\ pc[w] # "idle" /\ EventOf(w)' = EventOf(w)
        /\ EventOf(w) \notin replayed /\ EventOf(w) # f
    BY <1>2, <2>1 DEF Prepared
  <2>3. EventOf(w) \in Events
    BY <2>2 DEF TypeInv, JobOK
  <2> QED
    BY <1>3, <2>1, <2>2, <2>3 DEF Prepared, RowStays
<1> QED
  BY <1>4, <1>5, <1>6, NextCases

(* Without a rebalance every worker keeps its partition, and no commit is  *)
(* refused.                                                                *)
Unmoved ==
  rebalances = 0 =>
    /\ \A p \in Partitions : owner[p] \in Workers
    /\ \A w \in Workers : ~Fenced(w)
    /\ \A e \in Events : refused[e] = 0

(* Only a rebalance takes a partition away. *)
LEMMA UnmovedNext ==
  ASSUME TypeInv, Unmoved, Next
  PROVE  Unmoved'
<1> SUFFICES ASSUME rebalances' = 0
             PROVE  /\ \A p \in Partitions : owner'[p] \in Workers
                    /\ \A w \in Workers : ~Fenced(w)'
                    /\ \A e \in Events : refused'[e] = 0
  BY DEF Unmoved
<1>0. rebalances \in Nat
  BY DEF TypeInv, TypeOK
<1>1. ASSUME rebalances = 0, UNCHANGED owner,
             \A v \in Workers : pc'[v] # "idle" => pc[v] # "idle" /\ part'[v] = part[v]
      PROVE  /\ \A p \in Partitions : owner'[p] \in Workers
             /\ \A w \in Workers : ~Fenced(w)'
  BY <1>1 DEF Unmoved, Fenced
<1>2. ASSUME NEW w \in Workers, BusyStep(w)
      PROVE  /\ \A p \in Partitions : owner'[p] \in Workers
             /\ \A v \in Workers : ~Fenced(v)'
             /\ \A e \in Events : refused'[e] = 0
  <2>1. rebalances = 0 /\ UNCHANGED owner
    BY <1>2, JobFrame
  <2>2. \A v \in Workers : pc'[v] # "idle" => pc[v] # "idle" /\ part'[v] = part[v]
    BY <1>2, JobFrame, BusyIsBusy
  <2>3. EventOf(w) \in Events
    BY <1>2, BusyIsBusy DEF TypeInv, JobOK
  <2>4. ~Fenced(w) /\ \A e \in Events : refused[e] = 0
    BY <2>1 DEF Unmoved
  <2>5. \A e \in Events : refused'[e] = 0
    BY <1>2, <2>3, <2>4, RefusedFrame DEF Refusal
  <2> QED
    BY <1>1, <2>1, <2>2, <2>5
<1>3. CASE \E w \in Workers, p \in Partitions : SkipTombstone(w, p)
  BY <1>1, <1>3 DEF SkipTombstone, Unmoved, job, runs
<1>4. ASSUME NEW w \in Workers, NEW p \in Partitions, Deliver(w, p)
      PROVE  /\ \A q \in Partitions : owner'[q] \in Workers
             /\ \A v \in Workers : ~Fenced(v)'
             /\ \A e \in Events : refused'[e] = 0
  <2>1. rebalances = 0 /\ UNCHANGED <<owner, refused>> /\ owner[p] = w
    BY <1>4 DEF Deliver, group, runs
  <2>2. part'[w] = p /\ \A v \in Workers \ {w} : pc'[v] = pc[v] /\ part'[v] = part[v]
    BY <1>4 DEF Deliver, TypeInv, TypeOK
  <2> QED
    BY <2>1, <2>2 DEF Unmoved, Fenced
<1>5. CASE Rebalance
  BY <1>0, <1>5 DEF Rebalance
<1>6. ASSUME NEW w \in Workers, Join(w)
      PROVE  /\ \A p \in Partitions : owner'[p] \in Workers
             /\ \A v \in Workers : ~Fenced(v)'
             /\ \A e \in Events : refused'[e] = 0
  <2>1. rebalances = 0 /\ UNCHANGED <<pc, part, refused>>
    BY <1>6 DEF Join, job, runs
  <2>2. Partitions = {}
    BY <1>6, <2>1, MessagesAssumption DEF Join, Unmoved
  <2>3. \A v \in Workers : pc[v] = "idle"
    BY <2>2 DEF TypeInv, JobOK
  <2> QED
    BY <2>1, <2>2, <2>3 DEF Unmoved, Fenced
<1>7. CASE \E e \in Events : Replay(e)
  BY <1>1, <1>7 DEF Replay, Unmoved, group, job, runs
<1>8. CASE \E e \in Events : PrepareForReplay(e)
  BY <1>1, <1>8, PrepareIsPrepared DEF Prepared, Unmoved
<1> QED
  BY <1>2, <1>3, <1>4, <1>5, <1>6, <1>7, <1>8, NextCases DEF Elsewhere, Reassigned

(* A step elsewhere, or a setback, takes nothing from a budget. *)
LEMMA BudgetStays ==
  ASSUME Numbers, NEW v \in Workers, NEW f \in Events, InBudget(v, f), RunsStay(f),
         retryCount'[f] = retryCount[f], pc'[v] = pc[v], count'[v] = count[v]
  PROVE  InBudget(v, f)'
  BY DEF Numbers, InBudget, MayRun, Ran, RunsStay, Setbacks

(* A row nobody touches may still run: setbacks only add to its allowance. *)
LEMMA MayRunStays ==
  ASSUME Numbers, NEW f \in Events, MayRun(f), RunsStay(f), retryCount'[f] = retryCount[f]
  PROVE  MayRun(f)'
  BY DEF Numbers, MayRun, Ran, RunsStay, Setbacks

(* The worker that has an event spends no more than its budget. *)
LEMMA BudgetMove ==
  ASSUME Numbers, NEW w \in Workers, NEW e \in Events, Has(w, e), InBudget(w, e),
         executed[e] <= 1 + Setbacks(e),
         Ran(e) <= RetryLimit + 1 + Setbacks(e),
         e \in dlq => RetryLimit < Ran(e),
         status[e] \in Settled \cup {"PROCESSING"},
         Run(w, e) \/ Finish(w, e) \/ Catch(w, e) \/ DeadLetter(w, e)
  PROVE  /\ executed'[e] <= 1 + Setbacks(e)'
         /\ Ran(e)' <= RetryLimit + 1 + Setbacks(e)'
         /\ e \in dlq' => RetryLimit < Ran(e)'
         /\ status'[e] \in Open \cup {"NONE"} => MayRun(e)'
         /\ pc'[w] \in Custody => InBudget(w, e)'
<1> USE DEF Numbers, InBudget, MayRun, Ran, From, RowStays, Saved, RunsStay, DlqStays, Open, Settled,
            AfterRun, InDlq, Setbacks
<1>1. CASE Run(w, e)
  BY <1>1 DEF Run
<1>2. CASE Finish(w, e)
  BY <1>2 DEF Finish, Failing, Refusal, Custody
<1>3. CASE Catch(w, e)
  BY <1>3 DEF Catch, Failing, Custody
<1>4. CASE DeadLetter(w, e)
  BY <1>4 DEF DeadLetter, Failing, Refusal, Custody
<1> QED
  BY <1>1, <1>2, <1>3, <1>4

(* No step exceeds the budget of an event. *)
LEMMA BudgetNext ==
  ASSUME TypeInv, Exclusive, Budget, Next
  PROVE  Budget'
<1>1. Numbers
  BY NumbersOK
<1>2. ASSUME NEW w \in Workers, BusyStep(w), NEW f \in Events, f \notin replayed
      PROVE  /\ executed'[f] <= 1 + Setbacks(f)'
             /\ Ran(f)' <= RetryLimit + 1 + Setbacks(f)'
             /\ f \in dlq' => RetryLimit < Ran(f)'
             /\ status'[f] \in Open \cup {"NONE"} => MayRun(f)'
             /\ \A v \in Workers : Has(v, f)' => InBudget(v, f)'
  <2> DEFINE e == EventOf(w)
  <2>1. e \in Events
    BY <1>2, BusyIsBusy DEF TypeInv, JobOK
  <2>2. Move(w, e)
    BY <1>2, <2>1, Moves
  <2>3. /\ \A v \in Workers \ {w} :
             pc'[v] = pc[v] /\ EventOf(v)' = EventOf(v) /\ count'[v] = count[v]
        /\ \A g \in Events \ {e} : RowStays(g) /\ RunsStay(g) /\ DlqStays(g)
        /\ pc'[w] \in Custody => EventOf(w)' = e
    BY <2>2 DEF Move, Frame, Custody, AfterRun, InDlq
  <2>4. /\ executed[f] <= 1 + Setbacks(f)
        /\ Ran(f) <= RetryLimit + 1 + Setbacks(f)
        /\ f \in dlq => RetryLimit < Ran(f)
        /\ status[f] \in Open \cup {"NONE"} => MayRun(f)
        /\ \A v \in Workers : Has(v, f) => InBudget(v, f)
    BY <1>2 DEF Budget
  <2>5. Has(w, e) <=> pc[w] \in Custody
    BY DEF Has
  <2> HIDE DEF e
  <2>6. ASSUME RunsStay(f), DlqStays(f), retryCount'[f] = retryCount[f],
               status'[f] \in Open \cup {"NONE"} => status[f] \in Open \cup {"NONE"}
        PROVE  /\ executed'[f] <= 1 + Setbacks(f)'
               /\ Ran(f)' <= RetryLimit + 1 + Setbacks(f)'
               /\ f \in dlq' => RetryLimit < Ran(f)'
               /\ status'[f] \in Open \cup {"NONE"} => MayRun(f)'
               /\ \A v \in Workers \ {w} : Has(v, f)' => InBudget(v, f)'
    <3>1. /\ executed'[f] <= 1 + Setbacks(f)'
          /\ Ran(f)' <= RetryLimit + 1 + Setbacks(f)'
          /\ f \in dlq' => RetryLimit < Ran(f)'
      BY <1>1, <1>2, <2>4, <2>6 DEF Numbers, Ran, RunsStay, DlqStays, Setbacks
    <3>2. status'[f] \in Open \cup {"NONE"} => MayRun(f)'
      BY <1>1, <1>2, <2>4, <2>6, MayRunStays
    <3>3. \A v \in Workers \ {w} : Has(v, f)' => Has(v, f)
      BY <2>3 DEF Has
    <3> QED
      BY <1>1, <1>2, <2>3, <2>4, <2>6, <3>1, <3>2, <3>3, BudgetStays
  <2>7. CASE f # e
    <3>1. ~Has(w, f)'
      BY <2>3, <2>7 DEF Has
    <3>2. RunsStay(f) /\ DlqStays(f) /\ RowStays(f)
      BY <1>2, <2>3, <2>7
    <3> QED
      BY <2>6, <3>1, <3>2 DEF RowStays
  <2>8. CASE f = e /\ (Outside(w, e) \/ Dies(w, e))
    <3>1. ~Has(w, f)'
      BY <2>8 DEF Has, Outside, Dies, Custody, AfterRun, InDlq
    <3>2. /\ RunsStay(f) /\ DlqStays(f) /\ retryCount'[f] = retryCount[f]
          /\ status'[f] \in Open \cup {"NONE"} => status[f] \in Open \cup {"NONE"}
      BY <2>8 DEF Outside, Dies, RowStays, Open
    <3> QED
      BY <2>6, <3>1, <3>2
  <2>9. CASE f = e /\ TakeLock(w, e)
    <3>1. /\ RunsStay(f) /\ DlqStays(f) /\ retryCount'[f] = retryCount[f]
          /\ status[f] \in Open /\ status'[f] = "PROCESSING"
      BY <2>9 DEF TakeLock, Saved
    <3>2. MayRun(f)'
      BY <1>1, <1>2, <2>4, <3>1, MayRunStays
    <3>3. pc'[w] = "handle"
      BY <2>9 DEF TakeLock, From
    <3>4. InBudget(w, f)'
      BY <3>2, <3>3 DEF InBudget, MayRun, AfterRun, InDlq
    <3> QED
      BY <2>6, <3>1, <3>4 DEF Open
  <2>10. CASE f = e /\ (Run(w, e) \/ Finish(w, e) \/ Catch(w, e) \/ DeadLetter(w, e))
    <3>1. Has(w, e)
      BY <2>5, <2>10 DEF Run, Finish, Catch, DeadLetter, From, Custody, AfterRun, InDlq
    <3>2. /\ status[e] \in Settled \cup {"PROCESSING"}
          /\ \A v \in Workers : Has(v, e) => v = w
      BY <1>2, <2>10, <3>1 DEF Exclusive
    <3>3. \A v \in Workers : Has(v, f)' => v = w
      BY <2>3, <2>10, <3>2 DEF Has
    <3>4. pc'[w] \in Custody <=> Has(w, f)'
      BY <2>3, <2>10 DEF Has
    <3> QED
      BY <1>1, <2>1, <2>4, <2>10, <3>1, <3>2, <3>3, <3>4, BudgetMove
  <2> QED
    BY <2>2, <2>7, <2>8, <2>9, <2>10 DEF Move
<1>3. CASE \E w \in Workers : BusyStep(w)
  <2>1. UNCHANGED replayed
    BY <1>3, JobFrame
  <2> QED
    BY <1>2, <1>3, <2>1 DEF Budget
<1>4. CASE Elsewhere
  <2>1. Aside
    BY <1>4, ElsewhereIsAside
  <2>2. \A f \in Events : RunsStay(f) /\ retryCount'[f] = retryCount[f]
    BY <2>1 DEF Aside, RunsStay
  <2>3. ASSUME NEW f \in Events \ replayed, NEW v \in Workers, Has(v, f)'
        PROVE  InBudget(v, f)'
    <3>1. Has(v, f) /\ pc'[v] = pc[v] /\ count'[v] = count[v]
      BY <2>1, <2>3 DEF Aside, Has, Custody, AfterRun, InDlq
    <3> QED
      BY <1>1, <2>2, <3>1, BudgetStays DEF Budget
  <2>4. ASSUME NEW f \in Events \ replayed, status'[f] \in Open \cup {"NONE"}
        PROVE  MayRun(f)'
    BY <1>1, <2>1, <2>2, <2>4, MayRunStays DEF Aside, Budget
  <2> QED
    BY <2>1, <2>3, <2>4 DEF Aside, Budget, Ran, Setbacks
<1>5. ASSUME NEW e \in Events, PrepareForReplay(e)
      PROVE  Budget'
  <2>1. Prepared(e)
    BY <1>5, PrepareIsPrepared
  <2>2. \A f \in Events \ {e} : RunsStay(f) /\ retryCount'[f] = retryCount[f] /\ status'[f] = status[f]
    BY <2>1 DEF Prepared, RunsStay, RowStays
  <2>3. ASSUME NEW f \in Events \ replayed', NEW v \in Workers, Has(v, f)'
        PROVE  InBudget(v, f)'
    <3>1. f \in Events \ {e} /\ f \notin replayed
      BY <2>1 DEF Prepared
    <3>2. Has(v, f) /\ pc'[v] = pc[v] /\ count'[v] = count[v]
      BY <2>1, <2>3 DEF Prepared, Has
    <3> QED
      BY <1>1, <2>2, <3>1, <3>2, BudgetStays DEF Budget
  <2>4. ASSUME NEW f \in Events \ replayed', status'[f] \in Open \cup {"NONE"}
        PROVE  MayRun(f)'
    <3>1. f \in Events \ {e} /\ f \notin replayed
      BY <2>1 DEF Prepared
    <3> QED
      BY <1>1, <2>2, <2>4, <3>1, MayRunStays DEF Budget
  <2> QED
    BY <2>1, <2>3, <2>4 DEF Prepared, Budget, Ran, Setbacks
<1> QED
  BY <1>3, <1>4, <1>5, NextCases

-----------------------------------------------------------------------------
(* Offsets.                                                                *)

Passed(p, o) ==
  /\ MessageAt(p, o) # Malformed
  /\ MessageAt(p, o) \in Events => executed[MessageAt(p, o)] > 0 \/ MessageAt(p, o) \in dlq

PassedBelow(p, n) == n <= Len(log[p]) /\ \A o \in 0 .. (n - 1) : Passed(p, o)

(* Neither the committed offset, nor the position of the owner, nor the    *)
(* offset a worker is at, whoever owns the partition by now, is beyond a   *)
(* message that was not dealt with.                                        *)
Progress ==
  /\ \A p \in Partitions : PassedBelow(p, committed[p]) /\ PassedBelow(p, position[p])
  /\ \A w \in Workers : pc[w] # "idle" => PassedBelow(part[w], offset[w])

(* A message that was dealt with stays so. *)
LEMMA PassedStays ==
  ASSUME TypeInv, Next, NEW p \in Partitions, NEW n \in Nat, PassedBelow(p, n)
  PROVE  PassedBelow(p, n)'
<1>1. /\ log[p] \in Seq(Message) /\ log'[p] \in Seq(Message)
      /\ Len(log[p]) <= Len(log'[p])
      /\ \A o \in Nat : o < Len(log[p]) => MessageAt(p, o)' = MessageAt(p, o)
  BY LogGrows
<1>2. Len(log[p]) \in Nat /\ Len(log'[p]) \in Nat /\ n <= Len(log[p])
  BY <1>1 DEF PassedBelow
<1>3. ASSUME NEW o \in 0 .. (n - 1)
      PROVE  Passed(p, o)'
  <2>1. Passed(p, o) /\ MessageAt(p, o)' = MessageAt(p, o)
    BY <1>1, <1>2 DEF PassedBelow
  <2>2. CASE MessageAt(p, o) \in Events
    BY <2>1, <2>2, EvidenceGrows DEF Passed
  <2>3. CASE MessageAt(p, o) \notin Events
    BY <2>1, <2>3 DEF Passed
  <2> QED
    BY <2>2, <2>3
<1> QED
  BY <1>1, <1>2, <1>3 DEF PassedBelow

(* A message passed extends what is passed. *)
LEMMA PassedMore ==
  ASSUME NEW p \in Partitions, NEW n \in Nat, PassedBelow(p, n), log[p] \in Seq(Message),
         n < Len(log[p]), Passed(p, n)
  PROVE  PassedBelow(p, n + 1)
<1>1. \A o \in 0 .. ((n + 1) - 1) : o \in 0 .. (n - 1) \/ o = n
  OBVIOUS
<1>2. Len(log[p]) \in Nat
  OBVIOUS
<1> QED
  BY <1>1, <1>2 DEF PassedBelow

(* A message may be committed when commitOffset is called. *)
LEMMA CommitIsPassed ==
  ASSUME TypeInv, Evidence, Progress, NEW w \in Workers, pc[w] \in Commits
  PROVE  /\ part[w] \in Partitions
         /\ offset[w] \in Nat
         /\ PassedBelow(part[w], offset[w] + 1)
<1>1. pc[w] # "idle"
  BY DEF Commits
<1>2. part[w] \in Partitions /\ offset[w] < Len(log[part[w]]) /\ EventOf(w) \in Events
  BY <1>1 DEF TypeInv, JobOK
<1>3. offset[w] \in Nat /\ log[part[w]] \in Seq(Message)
  BY <1>2 DEF TypeInv, TypeOK
<1>4. EventOf(w) # Malformed
  BY <1>2, MessagesAssumption
<1>5. executed[EventOf(w)] > 0 \/ EventOf(w) \in dlq
  BY DEF Commits, Evidence
<1>6. Passed(part[w], offset[w])
  BY <1>4, <1>5 DEF Passed, EventOf
<1>7. PassedBelow(part[w], offset[w])
  BY <1>1 DEF Progress
<1> QED
  BY <1>2, <1>3, <1>6, <1>7, PassedMore

(* Where the offsets of a partition come from. *)
Offsets(p, w) ==
  /\ \/ committed'[p] = committed[p]
     \/ pc[w] \in Commits /\ p = part[w] /\ committed'[p] = offset[w] + 1
  /\ \/ position'[p] \in {position[p], committed[p]}
     \/ pc[w] \in Commits /\ p = part[w] /\ position'[p] = offset[w] + 1

(* A busy worker moves offsets by one message, when it commits, or back. *)
LEMMA BusyOffsets ==
  ASSUME TypeInv, NEW w \in Workers, BusyStep(w), NEW p \in Partitions
  PROVE  Offsets(p, w)
<1>1. /\ pc[w] # "idle"
      /\ EventOf(w) \in Events /\ part[w] \in Partitions
  BY BusyIsBusy DEF TypeInv, JobOK
<1>2. Effect(w) \/ UNCHANGED stored
  BY DEF BusyStep, Lookup, Record, Collided, Transition, Reread, HandlerSucceeds, HandlerFails,
     ReadRetry, MarkForRetry, CallReturns, Commit, CommitRefused, CallFails, Kill
<1>3. \/ committed' = committed
      \/ pc[w] \in Commits /\ committed' = [committed EXCEPT ![part[w]] = offset[w] + 1]
  BY <1>1, <1>2, EffectIs DEF stored
<1>4. committed'[p] = committed[p]
      \/ (pc[w] \in Commits /\ p = part[w] /\ committed'[p] = offset[w] + 1)
  BY <1>1, <1>3 DEF TypeInv, TypeOK
<1>5. \/ position'[p] \in {position[p], committed[p]}
      \/ pc[w] \in Commits /\ p = part[w] /\ position'[p] = offset[w] + 1
  <2>1. CASE Commit(w)
    BY <1>1, <2>1 DEF Commit, Return, TypeInv, TypeOK
  <2>2. CASE Kill(w)
    BY <2>2 DEF Kill
  <2>3. CASE UNCHANGED group
    BY <2>3 DEF group
  <2> QED
    BY <2>1, <2>2, <2>3 DEF BusyStep, Lookup, Record, Collided, Transition, Reread, HandlerSucceeds,
       HandlerFails, ReadRetry, MarkForRetry, CallReturns, CommitRefused, CallFails, Caught, Decide,
       Proceed, Throw
<1> QED
  BY <1>4, <1>5 DEF Offsets

(* No step moves an offset past a message that was not dealt with. *)
LEMMA ProgressNext ==
  ASSUME TypeInv, Evidence, Progress, Next
  PROVE  Progress'
<1>1. \A p \in Partitions, n \in Nat : PassedBelow(p, n) => PassedBelow(p, n)'
  BY PassedStays
<1>2. \A p \in Partitions :
        committed[p] \in Nat /\ position[p] \in Nat /\ log[p] \in Seq(Message)
  BY DEF TypeInv, TypeOK
<1>3. \A p \in Partitions : PassedBelow(p, committed[p]) /\ PassedBelow(p, position[p])
  BY DEF Progress
<1>4. ASSUME NEW v \in Workers, pc[v] # "idle", pc'[v] # "idle",
             part'[v] = part[v], offset'[v] = offset[v]
      PROVE  PassedBelow(part[v], offset[v])'
  <2>1. part[v] \in Partitions /\ offset[v] \in Nat
    BY <1>4 DEF TypeInv, TypeOK, JobOK
  <2>2. PassedBelow(part[v], offset[v])
    BY <1>4 DEF Progress
  <2>3. PICK p \in Partitions, n \in Nat : part[v] = p /\ offset[v] = n /\ PassedBelow(p, n)
    BY <2>1, <2>2
  <2>4. PassedBelow(p, n)'
    BY <1>1, <2>3
  <2> QED
    BY <1>4, <2>3, <2>4 DEF PassedBelow, Passed, MessageAt
<1>5. ASSUME NEW w \in Workers, BusyStep(w)
      PROVE  Progress'
  <2>1. ASSUME NEW p \in Partitions
        PROVE  \E m, n \in Nat : /\ committed'[p] = m /\ PassedBelow(p, m)
                                 /\ position'[p] = n /\ PassedBelow(p, n)
    <3>1. Offsets(p, w)
      BY <1>5, BusyOffsets
    <3>2. pc[w] \in Commits /\ p = part[w] => offset[w] + 1 \in Nat /\ PassedBelow(p, offset[w] + 1)
      BY CommitIsPassed
    <3> QED
      BY <1>2, <1>3, <3>1, <3>2 DEF Offsets
  <2>2. ASSUME NEW p \in Partitions
        PROVE  PassedBelow(p, committed[p])' /\ PassedBelow(p, position[p])'
    <3>1. PICK m \in Nat, n \in Nat : /\ committed'[p] = m /\ PassedBelow(p, m)
                                      /\ position'[p] = n /\ PassedBelow(p, n)
      BY <2>1
    <3>2. PassedBelow(p, m)' /\ PassedBelow(p, n)'
      BY <1>1, <3>1
    <3> QED
      BY <3>1, <3>2 DEF PassedBelow
  <2>3. \A v \in Workers : pc'[v] # "idle" =>
          pc[v] # "idle" /\ part'[v] = part[v] /\ offset'[v] = offset[v]
    BY <1>5, JobFrame, BusyIsBusy
  <2> QED
    BY <1>4, <2>2, <2>3 DEF Progress
<1>6. ASSUME UNCHANGED committed,
             \A p \in Partitions : \E n \in Nat : position'[p] = n /\ PassedBelow(p, n),
             \A v \in Workers : pc'[v] # "idle" =>
               \/ pc[v] # "idle" /\ part'[v] = part[v] /\ offset'[v] = offset[v]
               \/ \E p \in Partitions : part'[v] = p /\ offset'[v] = position[p]
      PROVE  Progress'
  <2>1. ASSUME NEW p \in Partitions
        PROVE  PassedBelow(p, committed[p])' /\ PassedBelow(p, position[p])'
    <3>1. PICK n \in Nat : position'[p] = n /\ PassedBelow(p, n)
      BY <1>6
    <3>2. PICK m \in Nat : committed'[p] = m /\ PassedBelow(p, m)
      BY <1>2, <1>3, <1>6
    <3>3. PassedBelow(p, m)' /\ PassedBelow(p, n)'
      BY <1>1, <3>1, <3>2
    <3> QED
      BY <3>1, <3>2, <3>3 DEF PassedBelow
  <2>2. ASSUME NEW v \in Workers, pc'[v] # "idle"
        PROVE  PassedBelow(part[v], offset[v])'
    <3>1. CASE pc[v] # "idle" /\ part'[v] = part[v] /\ offset'[v] = offset[v]
      BY <1>4, <2>2, <3>1
    <3>2. CASE \E p \in Partitions : part'[v] = p /\ offset'[v] = position[p]
      <4>1. PICK p \in Partitions, n \in Nat : part'[v] = p /\ offset'[v] = n /\ PassedBelow(p, n)
        BY <1>2, <1>3, <3>2
      <4>2. PassedBelow(p, n)'
        BY <1>1, <4>1
      <4> QED
        BY <4>1, <4>2 DEF PassedBelow, Passed, MessageAt
    <3> QED
      BY <1>6, <2>2, <3>1, <3>2
  <2> QED
    BY <2>1, <2>2 DEF Progress
<1>7. ASSUME NEW w \in Workers, NEW p \in Partitions, SkipTombstone(w, p)
      PROVE  Progress'
  <2>1. Passed(p, position[p])
    BY <1>7, MessagesAssumption DEF SkipTombstone, Passed
  <2>2. PassedBelow(p, position[p] + 1)
    BY <1>2, <1>3, <1>7, <2>1, PassedMore DEF SkipTombstone
  <2>3. \A q \in Partitions : position'[q] = IF q = p THEN position[p] + 1 ELSE position[q]
    BY <1>7 DEF SkipTombstone, TypeInv, TypeOK
  <2>4. \A q \in Partitions : \E n \in Nat : position'[q] = n /\ PassedBelow(q, n)
    BY <1>2, <1>3, <2>2, <2>3
  <2> QED
    BY <1>6, <1>7, <2>4 DEF SkipTombstone, stored, job
<1>8. ASSUME NEW w \in Workers, NEW p \in Partitions, Deliver(w, p)
      PROVE  Progress'
  <2>1. UNCHANGED <<committed, position>>
    BY <1>8 DEF Deliver, stored, group
  <2>2. \A v \in Workers : pc'[v] # "idle" =>
               \/ pc[v] # "idle" /\ part'[v] = part[v] /\ offset'[v] = offset[v]
               \/ part'[v] = p /\ offset'[v] = position[p]
    BY <1>8 DEF Deliver, TypeInv, TypeOK
  <2> QED
    BY <1>2, <1>3, <1>6, <2>1, <2>2
<1>9. CASE Reassigned
  BY <1>2, <1>3, <1>6, <1>9 DEF Reassigned, Rebalance, Join, stored, job
<1>10. CASE \E e \in Events : Replay(e)
  BY <1>2, <1>3, <1>6, <1>10 DEF Replay, stored, group, job
<1>11. CASE \E e \in Events : PrepareForReplay(e)
  BY <1>2, <1>3, <1>6, <1>11, PrepareIsPrepared DEF Prepared
<1> QED
  BY <1>5, <1>7, <1>8, <1>9, <1>10, <1>11, NextCases DEF Elsewhere

-----------------------------------------------------------------------------
(* Theorems.                                                               *)

Inv == TypeInv /\ Exclusive /\ Evidence /\ Budget /\ Quiet /\ Lost /\ Unmoved /\ Progress

(* The invariant holds initially. *)
LEMMA InitInv == Init => Inv
<1> SUFFICES ASSUME Init PROVE Inv
  OBVIOUS
<1>1. TypeInv
  BY InitTypeInv
<1>2. Exclusive /\ Quiet /\ Lost /\ Unmoved
  BY DEF Init, Exclusive, Has, Quiet, Lost, Unmoved, Fenced, Writing, Custody, AfterRun, InDlq
<1>3. Evidence
  BY DEF Init, Evidence
<1>4. Budget
  BY BoundsAssumption DEF Init, Budget, MayRun, Ran, Setbacks, Has, Custody, AfterRun, InDlq
<1>5. Progress
  BY <1>1 DEF Init, Progress, PassedBelow, TypeInv, TypeOK
<1> QED
  BY <1>1, <1>2, <1>3, <1>4, <1>5 DEF Inv

(* Every step keeps it. *)
LEMMA NextInv == Inv /\ [Next]_vars => Inv'
<1>1. ASSUME Inv, Next PROVE Inv'
  BY <1>1, NextTypeInv, ExclusiveNext, EvidenceNext, BudgetNext, QuietNext, LostNext, UnmovedNext,
     ProgressNext DEF Inv
<1>2. ASSUME Inv, UNCHANGED vars PROVE Inv'
  <2>1. TypeInv'
    BY <1>2, NextTypeInv DEF Inv
  <2>2. \A v \in Workers : EventOf(v)' = EventOf(v)
    BY <1>2 DEF vars, EventOf, MessageAt
  <2>3. Exclusive' /\ Evidence' /\ Quiet'
    BY <1>2, <2>2 DEF Inv, vars, Exclusive, Evidence, Quiet, Has
  <2>6. Lost' /\ Unmoved'
    BY <1>2, <2>2 DEF Inv, vars, Lost, Unmoved, Fenced
  <2>4. Budget'
    BY <1>2, <2>2 DEF Inv, vars, Budget, InBudget, MayRun, Ran, Setbacks, Has
  <2>5. Progress'
    BY <1>2 DEF Inv, vars, Progress, PassedBelow, Passed, MessageAt
  <2> QED
    BY <2>1, <2>3, <2>4, <2>5, <2>6 DEF Inv
<1> QED
  BY <1>1, <1>2

(* The inductive invariant: who has an event, what its row and the calls   *)
(* of its worker say has happened, how many runs are left, who may write   *)
(* the row of a settled event, and how far the offsets may be.             *)
THEOREM InboxInvariant == Spec => []Inv
  BY InitInv, NextInv, PTL DEF Spec

(* The PROCESSING status is a lock: one worker at a time runs the handler  *)
(* of an event that no operator replayed.                                  *)
THEOREM OneHandlerHolds == Spec => []OneHandler
<1>1. Inv => OneHandler
  <2> SUFFICES ASSUME Inv, NEW e \in Events \ replayed, NEW v \in InHandler(e), NEW w \in InHandler(e)
               PROVE  v = w
    BY DEF OneHandler
  <2>1. v \in Workers /\ w \in Workers /\ Has(v, e) /\ Has(w, e)
    BY DEF InHandler, Has, Custody
  <2> QED
    BY <2>1 DEF Inv, Exclusive
<1> QED
  BY <1>1, InboxInvariant, PTL

(* The committed offset never passes an event that was neither executed    *)
(* nor dead-lettered, nor a message that cannot be read.                   *)
THEOREM NothingSkippedHolds == Spec => []NothingSkipped
<1>1. Inv => NothingSkipped
  BY DEF Inv, Progress, PassedBelow, Passed, NothingSkipped
<1> QED
  BY <1>1, InboxInvariant, PTL

(* A handler that succeeded runs again only after a fault or a commit that *)
(* Kafka refused, once for each, and a commit is refused only after a      *)
(* rebalance.                                                              *)
THEOREM RepeatNeedsSetbackHolds == Spec => []RepeatNeedsSetback
<1>1. Inv => RepeatNeedsSetback
  <2> SUFFICES ASSUME Inv
               PROVE  RepeatNeedsSetback
    OBVIOUS
  <2>1. rebalances \in Nat /\ \A e \in Events : refused[e] \in Nat
    BY DEF Inv, TypeInv, TypeOK
  <2>2. \A e \in Events : refused[e] > 0 => rebalances > 0
    BY <2>1 DEF Inv, Unmoved
  <2> QED
    BY <2>2 DEF Inv, Budget, RepeatNeedsSetback
<1> QED
  BY <1>1, InboxInvariant, PTL

(* Dead letters follow more than consumerRetryLimit runs, and runs end     *)
(* there.                                                                  *)
THEOREM RetriesThenDlqHolds == Spec => []RetriesThenDlq
<1>1. Inv => RetriesThenDlq
  <2> SUFFICES ASSUME Inv, NEW e \in Events \ replayed
               PROVE  /\ status[e] = "DLQ_SENT" => e \in dlq
                      /\ e \in dlq => failed[e] + executed[e] > RetryLimit
                      /\ failed[e] + executed[e] <= RetryLimit + 1 + Setbacks(e)
    BY DEF RetriesThenDlq
  <2>1. failed[e] + executed[e] \in Nat /\ RetryLimit \in Nat
    BY BoundsAssumption DEF Inv, TypeInv, TypeOK
  <2>2. status[e] = "DLQ_SENT" => e \in dlq
    BY DEF Inv, Evidence
  <2> QED
    BY <2>1, <2>2 DEF Inv, Budget, Ran
<1> QED
  BY <1>1, InboxInvariant, PTL

(* Until something fails, a settled event is reopened only by an operator  *)
(* or by the worker whose commit was refused after it lost the partition.  *)
THEOREM SettledIsFinalHolds == Spec => SettledIsFinal
<1>1. Inv /\ [Next]_vars =>
        [\A e \in Events :
           status[e] \in Settled /\ status'[e] # status[e] /\ faults = 0 =>
             \/ e \in replayed' /\ e \notin replayed
             \/ /\ refused[e] > 0
                /\ \/ e \in replayed
                   \/ \E w \in Workers : Fenced(w) /\ EventOf(w) = e /\ pc'[w] # pc[w]]_vars
  <2> DEFINE ByOperator(e) == e \in replayed' /\ e \notin replayed
             ByRefusal(e) ==
               /\ refused[e] > 0
               /\ \/ e \in replayed
                  \/ \E w \in Workers : Fenced(w) /\ EventOf(w) = e /\ pc'[w] # pc[w]
  <2> SUFFICES ASSUME Inv, Next, NEW e \in Events,
                      status[e] \in Settled, status'[e] # status[e], faults = 0
               PROVE  ByOperator(e) \/ ByRefusal(e)
    OBVIOUS
  <2>1. ASSUME NEW w \in Workers, BusyStep(w)
        PROVE  ByRefusal(e)
    <3>1. EventOf(w) \in Events
      BY <2>1, BusyIsBusy DEF Inv, TypeInv, JobOK
    <3>2. Move(w, EventOf(w))
      BY <2>1, <3>1, Moves DEF Inv
    <3>3. e = EventOf(w)
      BY <3>2 DEF Move, Frame, RowStays
    <3>4. ~Outside(w, e) /\ ~TakeLock(w, e) /\ ~Run(w, e) /\ ~Dies(w, e)
      BY DEF Outside, TakeLock, Run, Dies, RowStays, Open, Settled
    <3>5. pc[w] \in Writing /\ pc'[w] # pc[w]
      BY <3>2, <3>3, <3>4 DEF Move, Finish, Catch, DeadLetter, From, RowStays, Writing, Custody,
         AfterRun, InDlq
    <3>6. refused[e] \in Nat /\ refused[e] # 0
      BY <3>3, <3>5 DEF Inv, TypeInv, TypeOK, Quiet, Settled
    <3>7. e \notin replayed => Fenced(w)
      BY <3>3, <3>5 DEF Inv, Lost
    <3> QED
      BY <3>3, <3>5, <3>6, <3>7
  <2>2. ~Elsewhere
    BY ElsewhereIsAside DEF Inv, Aside
  <2>3. ASSUME NEW f \in Events, PrepareForReplay(f)
        PROVE  ByOperator(e)
    <3>1. Prepared(f) /\ f \notin replayed
      BY <2>3, PrepareIsPrepared DEF Inv, PrepareForReplay
    <3> QED
      BY <3>1 DEF Prepared, RowStays
  <2> QED
    BY <2>1, <2>2, <2>3, NextCases
<1> QED
  BY <1>1, InboxInvariant, PTL DEF Spec, SettledIsFinal

-----------------------------------------------------------------------------
(* The lock that is never given back.  Its row has no owner and no time,   *)
(* so nothing tells a worker that was killed from one that is slow.        *)

(* The row of the event is locked, and no worker has the event. *)
Stuck(e) == status[e] = "PROCESSING" /\ \A w \in Workers : ~Has(w, e)

(* Without faults, who took a lock still works on the event. *)
Attended ==
  faults = 0 =>
    \A e \in Events : status[e] = "PROCESSING" =>
      \E w \in Workers : pc[w] \in Writing /\ EventOf(w) = e

(* No step abandons a lock unless something fails. *)
LEMMA AttendedNext ==
  ASSUME TypeInv, Attended, Next
  PROVE  Attended'
<1> SUFFICES ASSUME faults' = 0, NEW e \in Events, status'[e] = "PROCESSING"
             PROVE  \E w \in Workers : pc'[w] \in Writing /\ EventOf(w)' = e
  BY DEF Attended
<1> USE DEF Writing, Custody, AfterRun, InDlq
<1>0. faults \in Nat
  BY DEF TypeInv, TypeOK
<1>1. ASSUME NEW v \in Workers, BusyStep(v)
      PROVE  \E w \in Workers : pc'[w] \in Writing /\ EventOf(w)' = e
  <2>1. PICK f \in Events : f = EventOf(v)
    BY <1>1, BusyIsBusy DEF TypeInv, JobOK
  <2>2. Move(v, f)
    BY <1>1, <2>1, Moves
  <2>3. /\ faults = 0 /\ ~Failing
        /\ \A u \in Workers \ {v} : pc'[u] = pc[u] /\ EventOf(u)' = EventOf(u)
        /\ \A g \in Events \ {f} : status'[g] = status[g]
        /\ pc'[v] = "idle" \/ EventOf(v)' = f
    BY <1>0, <2>2 DEF Move, Frame, Failing, RowStays
  <2>4. CASE e # f
    <3>1. PICK w \in Workers : pc[w] \in Writing /\ EventOf(w) = e
      BY <2>3, <2>4 DEF Attended
    <3>2. w # v
      BY <2>1, <2>4, <3>1
    <3> QED
      BY <2>3, <3>1, <3>2
  <2>5. CASE e = f /\ status[e] = "PROCESSING"
    <3>1. PICK w \in Workers : pc[w] \in Writing /\ EventOf(w) = e
      BY <2>3, <2>5 DEF Attended
    <3>2. CASE w # v
      BY <2>3, <3>1, <3>2
    <3>3. CASE w = v
      <4>1. pc'[v] \in Writing
        BY <2>2, <2>3, <2>5, <3>1, <3>3 DEF Move, Outside, TakeLock, Run, Finish, Catch, DeadLetter,
           Dies, From, Saved, RowStays
      <4> QED
        BY <2>3, <2>5, <4>1
    <3> QED
      BY <3>2, <3>3
  <2>6. CASE e = f /\ status[e] # "PROCESSING"
    <3>1. pc'[v] = "handle"
      BY <2>2, <2>3, <2>6 DEF Move, Outside, TakeLock, Run, Finish, Catch, DeadLetter, Dies, From,
         Saved, RowStays
    <3> QED
      BY <2>3, <2>6, <3>1
  <2> QED
    BY <2>4, <2>5, <2>6
<1>2. CASE Elsewhere
  <2>1. Aside
    BY <1>2, ElsewhereIsAside
  <2>2. PICK w \in Workers : pc[w] \in Writing /\ EventOf(w) = e
    BY <2>1 DEF Aside, Attended
  <2> QED
    BY <2>1, <2>2 DEF Aside
<1>3. ASSUME NEW f \in Events, PrepareForReplay(f)
      PROVE  \E w \in Workers : pc'[w] \in Writing /\ EventOf(w)' = e
  <2>1. Prepared(f)
    BY <1>3, PrepareIsPrepared
  <2>2. faults = 0 /\ status[e] = "PROCESSING"
    BY <2>1 DEF Prepared, Saved, RowStays
  <2>3. PICK w \in Workers : pc[w] \in Writing /\ EventOf(w) = e
    BY <2>2 DEF Attended
  <2> QED
    BY <2>1, <2>3 DEF Prepared
<1> QED
  BY <1>1, <1>2, <1>3, NextCases

(* No step of anybody, an operator's replay included, frees a stuck row,   *)
(* runs its handler or writes its dead letter.                             *)
LEMMA StuckNext ==
  ASSUME TypeInv, Next, NEW e \in Events, Stuck(e)
  PROVE  Stuck(e)' /\ RunsStay(e) /\ DlqStays(e)
<1> USE DEF Stuck, Has
<1>1. ASSUME NEW w \in Workers, BusyStep(w)
      PROVE  Stuck(e)' /\ RunsStay(e) /\ DlqStays(e)
  <2>1. PICK f \in Events : f = EventOf(w)
    BY <1>1, BusyIsBusy DEF TypeInv, JobOK
  <2>2. Move(w, f)
    BY <1>1, <2>1, Moves
  <2>3. /\ \A v \in Workers \ {w} : pc'[v] = pc[v] /\ EventOf(v)' = EventOf(v)
        /\ \A g \in Events \ {f} : RowStays(g) /\ RunsStay(g) /\ DlqStays(g)
        /\ pc'[w] = "idle" \/ EventOf(w)' = f
    BY <2>2 DEF Move, Frame
  <2>4. CASE e # f
    BY <2>3, <2>4 DEF RowStays, Custody, AfterRun, InDlq
  <2>5. CASE e = f
    <3>1. pc[w] \notin Custody
      BY <2>1, <2>5
    <3>2. Outside(w, e) \/ Dies(w, e)
      BY <2>2, <2>5, <3>1 DEF Move, TakeLock, Run, Finish, Catch, DeadLetter, From, Open, Custody,
         AfterRun, InDlq
    <3>3. /\ pc'[w] \notin Custody /\ status'[e] = "PROCESSING"
          /\ RunsStay(e) /\ DlqStays(e)
      BY <3>2 DEF Outside, Dies, RowStays, Open, Custody, AfterRun, InDlq
    <3> QED
      BY <2>3, <3>3
  <2> QED
    BY <2>4, <2>5
<1>2. CASE Elsewhere
  BY <1>2, ElsewhereIsAside DEF Aside, RunsStay, DlqStays, Custody, AfterRun, InDlq
<1>3. ASSUME NEW f \in Events, PrepareForReplay(f)
      PROVE  Stuck(e)' /\ RunsStay(e) /\ DlqStays(e)
  BY <1>3, PrepareIsPrepared DEF Prepared, RowStays, RunsStay, DlqStays
<1> QED
  BY <1>1, <1>2, <1>3, NextCases

(* consumer.ts:281: rebalances, duplicates and redeliveries leave no lock  *)
(* behind; a row is stuck only after a call failed or a worker was killed. *)
THEOREM StuckNeedsFault == Spec => [](\A e \in Events : Stuck(e) => faults > 0)
<1>1. Init => Attended
  BY DEF Init, Attended
<1>2. TypeInv /\ Attended /\ [Next]_vars => Attended'
  <2>1. CASE UNCHANGED vars
    BY <2>1 DEF vars, Attended, EventOf, MessageAt
  <2> QED
    BY <2>1, AttendedNext
<1>3. Inv => TypeInv
  BY DEF Inv
<1>4. Inv /\ Attended => \A e \in Events : Stuck(e) => faults > 0
  <2>1. Inv => faults \in Nat
    BY DEF Inv, TypeInv, TypeOK
  <2> QED
    BY <2>1 DEF Attended, Stuck, Has, Writing
<1> QED
  BY <1>1, <1>2, <1>3, <1>4, InboxInvariant, PTL DEF Spec

(* A stuck row stays so for ever, whoever is given the message again and   *)
(* whatever an operator replays: its handler never runs, and it is never   *)
(* dead-lettered.                                                          *)
THEOREM StuckForEver ==
  ASSUME NEW e \in Events
  PROVE  Spec => /\ [](Stuck(e) => []Stuck(e))
                 /\ [][Stuck(e) => RunsStay(e) /\ DlqStays(e)]_vars
<1>1. TypeInv /\ Stuck(e) /\ [Next]_vars => Stuck(e)'
  <2>1. Stuck(e) /\ UNCHANGED vars => Stuck(e)'
    BY DEF vars, Stuck, Has, EventOf, MessageAt
  <2> QED
    BY <2>1, StuckNext
<1>2. TypeInv /\ [Next]_vars => [Stuck(e) => RunsStay(e) /\ DlqStays(e)]_vars
  BY StuckNext
<1>3. Inv => TypeInv
  BY DEF Inv
<1> QED
  BY <1>1, <1>2, <1>3, InboxInvariant, PTL DEF Spec

=============================================================================
