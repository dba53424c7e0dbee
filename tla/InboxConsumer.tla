---------------------------- MODULE InboxConsumer ----------------------------
(***************************************************************************)
(* packages/common/src/messaging/consumer.ts: the consumers of one group   *)
(* read partitions of a topic at least once and deduplicate by an inbox    *)
(* row per event.                                                          *)
(*                                                                         *)
(*   Kafka     the messages of each partition, the group's committed       *)
(*             offset, the worker a partition is assigned to and the next  *)
(*             offset that worker will be given.                           *)
(*   Database  the inbox row of each event: status and retryCount.         *)
(*   Worker    runs eachMessage for one message at a time.  A worker that  *)
(*             lost its partition in a rebalance goes on with the message  *)
(*             it has, but Kafka refuses its commit: kafkajs joins again   *)
(*             only between messages, so its generation is an old one.     *)
(*                                                                         *)
(* Every await of eachMessage is a step of its own.  A call that fails may *)
(* have taken effect with only its answer lost.                            *)
(***************************************************************************)
EXTENDS Integers, Sequences, FiniteSets

CONSTANTS
  Workers,         \* consumer processes of the group
  Partitions,      \* partitions of the topic
  Events,          \* event ids
  Tombstone,       \* a message without a value
  Malformed,       \* a message EventSerializer.deserialize throws on
  None,            \* no partition, and no worker
  Published,       \* what each partition holds when the group starts
  ReplayPartition, \* the partition of an event's id, the key a replay uses
  RetryLimit,      \* config.kafka.consumerRetryLimit
  Replayable,      \* bound: events an operator replays
  MaxRebalances,   \* bound: rebalances of the group
  MaxFaults        \* bound: failed calls and killed workers together

Message == Events \cup {Tombstone, Malformed}

ASSUME MessagesAssumption ==
  /\ Tombstone \notin Events
  /\ Malformed \notin Events
  /\ Tombstone # Malformed
  /\ None \notin Partitions \cup Workers
  /\ Published \in [Partitions -> Seq(Message)]
  /\ ReplayPartition \in [Events -> Partitions]
ASSUME BoundsAssumption ==
  /\ RetryLimit \in Nat
  /\ MaxRebalances \in Nat
  /\ MaxFaults \in Nat

VARIABLES
  status,      \* InboxEvent.status, "NONE" before the row exists
  retryCount,  \* InboxEvent.retryCount
  dlq,         \* events with a record in the dead letter topic
  log,         \* messages of each partition; offset o is element o + 1
  committed,   \* the group's committed offset
  owner,       \* the worker a partition is assigned to, None if there is no member
  position,    \* the next offset the owner is given
  pc,          \* the call each worker awaits
  part,        \* partition of the message each worker has
  offset,      \* offset of that message
  count,       \* newRetryCount
  failed,      \* handler runs that failed
  executed,    \* handler runs that succeeded
  refused,     \* commits of a settled event that Kafka refused
  replayed,    \* events an operator prepared for replay
  republished, \* events an operator published again
  rebalances,  \* rebalances so far
  faults       \* faults so far

row    == <<status, retryCount>>
stored == <<status, retryCount, dlq, committed>>
group  == <<owner, position>>
job    == <<pc, part, offset, count>>
runs   == <<failed, executed, refused>>
manual == <<replayed, republished>>
vars   == <<status, retryCount, dlq, log, committed, owner, position, pc, part, offset,
            count, failed, executed, refused, replayed, republished, rebalances, faults>>

Status == {"NONE", "RECEIVED", "PROCESSING", "PROCESSED", "FAILED", "RETRYING", "DLQ_SENT"}
Settled == {"PROCESSED", "DLQ_SENT"}

(* Mutant: a processed event may be claimed again. *)
OpenTooWide == {"RECEIVED", "RETRYING", "FAILED", "PROCESSED"}

Open == {"RECEIVED", "RETRYING", "FAILED"}

(***************************************************************************)
(* lookup, collided, reread  findByEventIdAndConsumer: first, after the    *)
(*                           unique constraint hit, after a lost lock      *)
(* record                    recordReceived                                *)
(* transition                transitionStatus to PROCESSING                *)
(* handle                    handleEvent                                   *)
(* markProcessed             updateStatus PROCESSED                        *)
(* readRetry                 the read of retryCount in the catch block     *)
(* markRetrying, markDlq, markFailed   updateStatus of the catch block     *)
(* publishDlq                eventProducer.publish                         *)
(* commitDup, commitDone, commitDlq    commitOffset of a duplicate, after  *)
(*                           PROCESSED, after DLQ_SENT                     *)
(***************************************************************************)
Reads   == {"lookup", "collided", "reread", "readRetry"}
Commits == {"commitDup", "commitDone", "commitDlq"}
Calls   == Reads \cup Commits \cup {"record", "transition", "markProcessed",
             "markRetrying", "publishDlq", "markDlq", "markFailed"}
PC      == Calls \cup {"idle", "handle"}

TypeOK ==
  /\ status \in [Events -> Status]
  /\ retryCount \in [Events -> Nat]
  /\ dlq \subseteq Events
  /\ log \in [Partitions -> Seq(Message)]
  /\ committed \in [Partitions -> Nat]
  /\ owner \in [Partitions -> Workers \cup {None}]
  /\ position \in [Partitions -> Nat]
  /\ pc \in [Workers -> PC]
  /\ part \in [Workers -> Partitions \cup {None}]
  /\ offset \in [Workers -> Nat]
  /\ count \in [Workers -> Nat]
  /\ failed \in [Events -> Nat]
  /\ executed \in [Events -> Nat]
  /\ refused \in [Events -> Nat]
  /\ replayed \subseteq Events
  /\ republished \subseteq Events
  /\ rebalances \in Nat
  /\ faults \in Nat

(* subscribe with fromBeginning: a group without a commit starts at 0. *)
Init ==
  /\ status = [e \in Events |-> "NONE"]
  /\ retryCount = [e \in Events |-> 0]
  /\ dlq = {}
  /\ log = Published
  /\ committed = [p \in Partitions |-> 0]
  /\ owner \in [Partitions -> Workers]
  /\ position = [p \in Partitions |-> 0]
  /\ pc = [w \in Workers |-> "idle"]
  /\ part = [w \in Workers |-> None]
  /\ offset = [w \in Workers |-> 0]
  /\ count = [w \in Workers |-> 0]
  /\ failed = [e \in Events |-> 0]
  /\ executed = [e \in Events |-> 0]
  /\ refused = [e \in Events |-> 0]
  /\ replayed = {}
  /\ republished = {}
  /\ rebalances = 0
  /\ faults = 0

-----------------------------------------------------------------------------
(* The message of a worker, and the ways its eachMessage goes on.          *)

MessageAt(p, o) == log[p][o + 1]
EventOf(w) == MessageAt(part[w], offset[w])

(* The partition went to another worker, or to nobody, meanwhile. *)
Fenced(w) == pc[w] # "idle" /\ owner[part[w]] # w

Goto(w, call) ==
  /\ pc' = [pc EXCEPT ![w] = call]
  /\ UNCHANGED <<part, offset, count>>

EndJob(w) ==
  /\ pc' = [pc EXCEPT ![w] = "idle"]
  /\ part' = [part EXCEPT ![w] = None]
  /\ offset' = [offset EXCEPT ![w] = 0]
  /\ count' = [count EXCEPT ![w] = 0]

(* eachMessage throws: the same offset is delivered again. *)
Throw(w) == EndJob(w) /\ UNCHANGED group

(* eachMessage returns, its message committed: on to the next. *)
Return(w) ==
  /\ EndJob(w)
  /\ position' = [position EXCEPT ![part[w]] = offset[w] + 1]
  /\ UNCHANGED owner

Proceed(w, call) == Goto(w, call) /\ UNCHANGED group

Fault == faults < MaxFaults /\ faults' = faults + 1

-----------------------------------------------------------------------------
(* What the calls do to the database and to Kafka.                         *)

RecordReceived(e) ==
  /\ status' = [status EXCEPT ![e] = IF @ = "NONE" THEN "RECEIVED" ELSE @]
  /\ UNCHANGED <<retryCount, dlq, committed>>

(* Mutant: the update does not look at the status it replaces. *)
TransitionStatusAny(e, from, to) ==
  /\ status' = [status EXCEPT ![e] = to]
  /\ UNCHANGED <<retryCount, dlq, committed>>

TransitionStatus(e, from, to) ==
  /\ status' = [status EXCEPT ![e] = IF @ \in from THEN to ELSE @]
  /\ UNCHANGED <<retryCount, dlq, committed>>

(* Whatever the status was. *)
UpdateStatus(e, to, n) ==
  /\ status' = [status EXCEPT ![e] = to]
  /\ retryCount' = [retryCount EXCEPT ![e] = n]
  /\ UNCHANGED <<dlq, committed>>

PublishToDlq(e) ==
  /\ dlq' = dlq \cup {e}
  /\ UNCHANGED <<status, retryCount, committed>>

(* Only for the worker the partition is assigned to. *)
CommitOffset(p, o) ==
  /\ committed' = [committed EXCEPT ![p] = o]
  /\ UNCHANGED <<status, retryCount, dlq>>

Effect(w) ==
  LET e == EventOf(w) IN
  \/ pc[w] \in Reads /\ UNCHANGED stored
  \/ pc[w] \in Commits /\ ~Fenced(w) /\ CommitOffset(part[w], offset[w] + 1)
  \/ pc[w] = "record" /\ RecordReceived(e)
  \/ pc[w] = "transition" /\ TransitionStatus(e, Open, "PROCESSING")
  \/ pc[w] = "markProcessed" /\ UpdateStatus(e, "PROCESSED", retryCount[e])
  \/ pc[w] = "markRetrying" /\ UpdateStatus(e, "RETRYING", count[w])
  \/ pc[w] = "publishDlq" /\ PublishToDlq(e)
  \/ pc[w] = "markDlq" /\ UpdateStatus(e, "DLQ_SENT", count[w])
  \/ pc[w] = "markFailed" /\ UpdateStatus(e, "FAILED", count[w])

-----------------------------------------------------------------------------
(* eachMessage, call by call.                                              *)

(* A message without a value is passed over, its offset not committed. *)
SkipTombstone(w, p) ==
  /\ pc[w] = "idle"
  /\ owner[p] = w
  /\ position[p] < Len(log[p])
  /\ MessageAt(p, position[p]) = Tombstone
  /\ position' = [position EXCEPT ![p] = @ + 1]
  /\ UNCHANGED <<stored, log, owner, job, runs, manual, rebalances, faults>>

(* A malformed message throws before any state is touched, so only events  *)
(* get further than this.                                                  *)
Deliver(w, p) ==
  /\ pc[w] = "idle"
  /\ owner[p] = w
  /\ position[p] < Len(log[p])
  /\ MessageAt(p, position[p]) \in Events
  /\ pc' = [pc EXCEPT ![w] = "lookup"]
  /\ part' = [part EXCEPT ![w] = p]
  /\ offset' = [offset EXCEPT ![w] = position[p]]
  /\ UNCHANGED <<stored, log, group, count, runs, manual, rebalances, faults>>

(* Mutant: an event in progress elsewhere counts as a duplicate. *)
DecideSkipsInProgress(w) ==
  LET s == status[EventOf(w)] IN
  \/ s \in Settled \cup {"PROCESSING"} /\ Proceed(w, "commitDup")
  \/ s \in Open /\ Proceed(w, "transition")

(* What a status read means: a settled event is a duplicate whose offset   *)
(* is committed, one in progress is thrown back, an open one goes on.      *)
Decide(w) ==
  LET s == status[EventOf(w)] IN
  \/ s \in Settled /\ Proceed(w, "commitDup")
  \/ s = "PROCESSING" /\ Throw(w)
  \/ s \in Open /\ Proceed(w, "transition")

Lookup(w) ==
  /\ pc[w] = "lookup"
  /\ Decide(w) \/ (status[EventOf(w)] = "NONE" /\ Proceed(w, "record"))
  /\ UNCHANGED <<stored, log, runs, manual, rebalances, faults>>

Record(w) ==
  /\ pc[w] = "record"
  /\ Effect(w)
  /\ Proceed(w, IF status[EventOf(w)] = "NONE" THEN "transition" ELSE "collided")
  /\ UNCHANGED <<log, runs, manual, rebalances, faults>>

Collided(w) ==
  /\ pc[w] = "collided"
  /\ Decide(w)
  /\ UNCHANGED <<stored, log, runs, manual, rebalances, faults>>

(* Mutant: the number of rows the update changed is not looked at. *)
TransitionUnchecked(w) ==
  /\ pc[w] = "transition"
  /\ Effect(w)
  /\ Proceed(w, "handle")
  /\ UNCHANGED <<log, runs, manual, rebalances, faults>>

Transition(w) ==
  /\ pc[w] = "transition"
  /\ Effect(w)
  /\ Proceed(w, IF status[EventOf(w)] \in Open THEN "handle" ELSE "reread")
  /\ UNCHANGED <<log, runs, manual, rebalances, faults>>

Reread(w) ==
  /\ pc[w] = "reread"
  /\ \/ status[EventOf(w)] \in Settled /\ Proceed(w, "commitDup")
     \/ status[EventOf(w)] \notin Settled /\ Throw(w)
  /\ UNCHANGED <<stored, log, runs, manual, rebalances, faults>>

HandlerSucceeds(w) ==
  /\ pc[w] = "handle"
  /\ executed' = [executed EXCEPT ![EventOf(w)] = @ + 1]
  /\ Proceed(w, "markProcessed")
  /\ UNCHANGED <<stored, log, failed, refused, manual, rebalances, faults>>

HandlerFails(w) ==
  /\ pc[w] = "handle"
  /\ failed' = [failed EXCEPT ![EventOf(w)] = @ + 1]
  /\ Proceed(w, "readRetry")
  /\ UNCHANGED <<stored, log, executed, refused, manual, rebalances, faults>>

(* Mutants: the count goes down; one retry too few. *)
ReadRetryDecrement(w) ==
  /\ pc[w] = "readRetry"
  /\ count' = [count EXCEPT ![w] = retryCount[EventOf(w)] - 1]
  /\ pc' = [pc EXCEPT ![w] = "markRetrying"]
  /\ UNCHANGED <<stored, log, group, part, offset, runs, manual, rebalances, faults>>

ReadRetryEarly(w) ==
  LET n == retryCount[EventOf(w)] + 1 IN
  /\ pc[w] = "readRetry"
  /\ count' = [count EXCEPT ![w] = n]
  /\ pc' = [pc EXCEPT ![w] = IF n < RetryLimit THEN "markRetrying" ELSE "publishDlq"]
  /\ UNCHANGED <<stored, log, group, part, offset, runs, manual, rebalances, faults>>

ReadRetry(w) ==
  LET n == retryCount[EventOf(w)] + 1 IN
  /\ pc[w] = "readRetry"
  /\ count' = [count EXCEPT ![w] = n]
  /\ pc' = [pc EXCEPT ![w] = IF n <= RetryLimit THEN "markRetrying" ELSE "publishDlq"]
  /\ UNCHANGED <<stored, log, group, part, offset, runs, manual, rebalances, faults>>

(* Mutant: the error is thrown again and the row left as it is. *)
MarkForRetryNoUpdate(w) ==
  /\ pc[w] \in {"markRetrying", "markFailed"}
  /\ Throw(w)
  /\ UNCHANGED <<stored, log, runs, manual, rebalances, faults>>

(* updateStatus RETRYING or FAILED, then the error is thrown again. *)
MarkForRetry(w) ==
  /\ pc[w] \in {"markRetrying", "markFailed"}
  /\ Effect(w)
  /\ Throw(w)
  /\ UNCHANGED <<log, runs, manual, rebalances, faults>>

AfterCall(call) ==
  CASE call = "markProcessed" -> "commitDone"
    [] call = "publishDlq"    -> "markDlq"
    [] call = "markDlq"       -> "commitDlq"

(* The calls whose answer only leads to the next. *)
CallReturns(w) ==
  /\ pc[w] \in {"markProcessed", "publishDlq", "markDlq"}
  /\ Effect(w)
  /\ Proceed(w, AfterCall(pc[w]))
  /\ UNCHANGED <<log, runs, manual, rebalances, faults>>

Commit(w) ==
  /\ pc[w] \in Commits
  /\ Effect(w)
  /\ Return(w)
  /\ UNCHANGED <<log, runs, manual, rebalances, faults>>

(* Where an error leads.  The catch block of the handler also takes those  *)
(* of the updateStatus and of the commitOffset that follow it, and the     *)
(* inner catch block those that follow the publication; every other error  *)
(* leaves eachMessage.                                                     *)
Caught(w) ==
  \/ pc[w] \in {"markProcessed", "commitDone"} /\ Proceed(w, "readRetry")
  \/ pc[w] \in {"publishDlq", "markDlq", "commitDlq"} /\ Proceed(w, "markFailed")
  \/ /\ pc[w] \in {"record", "transition", "commitDup", "markRetrying", "markFailed"} \cup Reads
     /\ Throw(w)

(* The group coordinator refuses the commit of an old generation, and the  *)
(* catch blocks take it for a handler or a publication that failed.        *)
CommitRefused(w) ==
  /\ pc[w] \in Commits
  /\ Fenced(w)
  /\ Caught(w)
  /\ refused' = [refused EXCEPT ![EventOf(w)] = IF pc[w] = "commitDup" THEN @ ELSE @ + 1]
  /\ UNCHANGED <<stored, log, failed, executed, manual, rebalances, faults>>

(* A call throws, its effect done or not. *)
CallFails(w) ==
  /\ pc[w] \in Calls
  /\ Fault
  /\ Effect(w) \/ UNCHANGED stored
  /\ Caught(w)
  /\ UNCHANGED <<log, runs, manual, rebalances>>

(* The first to be through with its message joins a group without members. *)
Join(w) ==
  /\ pc[w] = "idle"
  /\ \A p \in Partitions : owner[p] = None
  /\ owner' = [p \in Partitions |-> w]
  /\ position' = committed
  /\ UNCHANGED <<stored, log, job, runs, manual, rebalances, faults>>

WorkerStep(w) ==
  \/ \E p \in Partitions : SkipTombstone(w, p) \/ Deliver(w, p)
  \/ Lookup(w)
  \/ Record(w)
  \/ Collided(w)
  \/ Transition(w)
  \/ Reread(w)
  \/ HandlerSucceeds(w)
  \/ HandlerFails(w)
  \/ ReadRetry(w)
  \/ MarkForRetry(w)
  \/ CallReturns(w)
  \/ Commit(w)
  \/ CommitRefused(w)
  \/ Join(w)

-----------------------------------------------------------------------------
(* The group and the operator.                                             *)

(* A rebalance: members that are between messages share the partitions and *)
(* start at the committed offsets.  A worker with a message is left out;   *)
(* it keeps the message.                                                   *)
Rebalance ==
  LET members == {w \in Workers : pc[w] = "idle"} IN
  /\ rebalances < MaxRebalances
  /\ rebalances' = rebalances + 1
  /\ owner' \in [Partitions -> IF members = {} THEN {None} ELSE members]
  /\ position' = committed
  /\ UNCHANGED <<stored, log, job, runs, manual, faults>>

(* A worker is killed and started again, and its partitions with it. *)
Kill(w) ==
  /\ pc[w] # "idle"
  /\ Fault
  /\ EndJob(w)
  /\ position' = [p \in Partitions |-> IF owner[p] = w THEN committed[p] ELSE position[p]]
  /\ UNCHANGED <<stored, log, owner, runs, manual, rebalances>>

(* prepareForReplay, at most once an event. *)
PrepareForReplay(e) ==
  /\ status[e] = "DLQ_SENT"
  /\ e \in Replayable \ replayed
  /\ UpdateStatus(e, "RETRYING", 0)
  /\ replayed' = replayed \cup {e}
  /\ UNCHANGED <<log, group, job, runs, republished, rebalances, faults>>

(* DeadLetterReplayer.replay of a dead letter record, at most once an event. *)
Replay(e) ==
  /\ e \in dlq
  /\ e \in Replayable \ republished
  /\ republished' = republished \cup {e}
  /\ log' = [log EXCEPT ![ReplayPartition[e]] = Append(@, e)]
  /\ UNCHANGED <<stored, group, job, runs, replayed, rebalances, faults>>

Next ==
  \/ \E w \in Workers : WorkerStep(w) \/ CallFails(w) \/ Kill(w)
  \/ Rebalance
  \/ \E e \in Events : PrepareForReplay(e) \/ Replay(e)

Spec == Init /\ [][Next]_vars

-----------------------------------------------------------------------------
(* Safety.                                                                 *)

InHandler(e) == {w \in Workers : pc[w] = "handle" /\ EventOf(w) = e}

(* The PROCESSING status is a lock (consumer.ts:281): whatever rebalances  *)
(* and duplicate messages do, one worker at a time runs the handler of an  *)
(* event, unless an operator replays it while a worker still has it.       *)
OneHandler ==
  \A e \in Events \ replayed : \A v, w \in InHandler(e) : v = w

(* "no message is ever silently lost" (README): the group never commits    *)
(* past an event that was neither executed nor dead-lettered, nor past a   *)
(* message it cannot read; a worker that lost the partition does not       *)
(* either.                                                                 *)
NothingSkipped ==
  \A p \in Partitions : \A o \in 0 .. (committed[p] - 1) :
    /\ MessageAt(p, o) # Malformed
    /\ MessageAt(p, o) \in Events =>
         executed[MessageAt(p, o)] > 0 \/ MessageAt(p, o) \in dlq

(* What may undo the work on an event: a fault, or a refused commit. *)
Setbacks(e) == faults + refused[e]

(* A handler that succeeded runs again for the same event only after a     *)
(* fault or a commit that Kafka refused, once for each: duplicates and     *)
(* redeliveries alone never repeat it.  Without a rebalance no commit is   *)
(* refused.                                                                *)
RepeatNeedsSetback ==
  /\ \A e \in Events \ replayed : executed[e] <= 1 + Setbacks(e)
  /\ \A e \in Events : refused[e] > 0 => rebalances > 0

(* Retries come before the dead letter topic, and end there: an event is   *)
(* dead-lettered after more than consumerRetryLimit runs that ended in the *)
(* catch block, and its handler runs no more than that often, setbacks     *)
(* apart.                                                                  *)
RetriesThenDlq ==
  \A e \in Events \ replayed :
    /\ status[e] = "DLQ_SENT" => e \in dlq
    /\ e \in dlq => failed[e] + executed[e] > RetryLimit
    /\ failed[e] + executed[e] <= RetryLimit + 1 + Setbacks(e)

(* Without faults, the row of a settled event changes only by an operator  *)
(* or by the worker that settled it, when it lost the partition and its    *)
(* commit was refused: no redelivery and no other worker takes it back.    *)
SettledIsFinal ==
  [][\A e \in Events :
       status[e] \in Settled /\ status'[e] # status[e] /\ faults = 0 =>
         \/ e \in replayed' /\ e \notin replayed
         \/ /\ refused[e] > 0
            /\ \/ e \in replayed
               \/ \E w \in Workers : Fenced(w) /\ EventOf(w) = e /\ pc'[w] # pc[w]]_vars

-----------------------------------------------------------------------------
(* Liveness.  kafkajs delivers an offset that was thrown back again, a     *)
(* call returns or throws, and a handler ends.                             *)

FairSpec == Spec /\ \A w \in Workers : WF_vars(WorkerStep(w))

(* Every partition is read to its end and every event executed or          *)
(* dead-lettered: workers that throw each other's events back as in        *)
(* progress do not do so forever.  A row is left open for good only where  *)
(* a commit was refused or an operator reset it.                           *)
EventuallyDrained ==
  <>[](/\ \A p \in Partitions : position[p] = Len(log[p])
       /\ \A e \in Events :
            /\ executed[e] > 0 \/ e \in dlq
            /\ status[e] \in Settled \/ refused[e] > 0 \/ e \in replayed)

(* README "bounded recovery paths, structured retries, and dead-letter     *)
(* queueing": an event whose row exists is eventually settled.             *)
EventuallyHandled == \A e \in Events : status[e] = "PROCESSING" ~> status[e] \in Settled

=============================================================================
