-------------------------- MODULE OutboxRelayProofs --------------------------
(***************************************************************************)
(* Theorems about OutboxRelay for every number of relays and events, every *)
(* retry limit, batch size, capacity and fault bound.                      *)
(***************************************************************************)
EXTENDS OutboxRelay, FiniteSetTheorems, TLAPS

-----------------------------------------------------------------------------
(* Types.                                                                  *)

(* The in-flight events of a relay are finitely many, so that the counter  *)
(* of relay.service.ts is a number.                                        *)
FiniteInFlight == \A r \in Relays : IsFiniteSet(InFlight(r))

TypeInv == TypeOK /\ FiniteInFlight

(* A batch of a relay is finite and is a Batch. *)
LEMMA BatchOf ==
  ASSUME TypeInv, NEW r \in Relays, NEW b \in batches[r]
  PROVE  /\ b \in Batch
         /\ b.items \subseteq InFlight(r)
         /\ IsFiniteSet(b.items)
         /\ Cardinality(b.items) \in Nat
<1>1. b \in Batch
  BY DEF TypeInv, TypeOK
<1>2. b.items \subseteq InFlight(r)
  BY DEF InFlight, ItemsOf
<1>3. IsFiniteSet(b.items)
  BY <1>2, FS_Subset DEF TypeInv, FiniteInFlight
<1> QED
  BY <1>1, <1>2, <1>3, FS_CardinalityType

(* Changing the stage or the flags of a batch gives a batch. *)
LEMMA BatchUpdate ==
  ASSUME NEW b \in Batch
  PROVE  /\ \A s \in Stage : /\ [b EXCEPT !.stage = s] \in Batch
                             /\ [b EXCEPT !.stage = s].items = b.items
                             /\ [b EXCEPT !.stage = s].stage = s
         /\ \A f \in BOOLEAN :
              /\ [b EXCEPT !.inCycle = f] \in Batch
              /\ [b EXCEPT !.inCycle = f].items = b.items
              /\ [b EXCEPT !.inCycle = f].stage = b.stage
              /\ [b EXCEPT !.inDrain = f] \in Batch
              /\ [b EXCEPT !.inDrain = f].items = b.items
              /\ [b EXCEPT !.inDrain = f].stage = b.stage
  BY DEF Batch

(* What claimPending returns. *)
LEMMA NewBatchOK ==
  ASSUME TypeInv, NEW r \in Relays
  PROVE  /\ NewBatch(r) \in Batch
         /\ NewBatch(r).items = {<<e, retryCount[e]>> : e \in locked[r]}
         /\ NewBatch(r).stage = "publish"
         /\ IsFiniteSet(NewBatch(r).items)
         /\ IsFiniteSet(locked[r])
         /\ Cardinality(locked[r]) \in Nat
         /\ Cardinality(NewBatch(r).items) = Cardinality(locked[r])
<1> DEFINE S == locked[r]
           items == {<<e, retryCount[e]>> : e \in S}
           f == [e \in S |-> <<e, retryCount[e]>>]
<1>1. S \subseteq Events
  BY DEF TypeInv, TypeOK
<1>2. items \subseteq Copies
  BY <1>1 DEF TypeInv, TypeOK, Copies
<1>3. NewBatch(r) \in Batch /\ NewBatch(r).items = items /\ NewBatch(r).stage = "publish"
  BY <1>2 DEF NewBatch, Batch, Stage
<1>4. IsFiniteSet(S) /\ Cardinality(S) \in Nat
  BY <1>1, EventsAssumption, FS_Subset, FS_CardinalityType
<1>5. f \in Bijection(S, items)
  <2>1. f \in [S -> items]
    OBVIOUS
  <2>2. \A x, y \in S : f[x] = f[y] => x = y
    OBVIOUS
  <2>3. \A t \in items : \E x \in S : f[x] = t
    OBVIOUS
  <2> QED
    BY <2>1, <2>2, <2>3 DEF Bijection, Injection, Surjection, IsInjective
<1>6. IsFiniteSet(items) /\ Cardinality(items) = Cardinality(S)
  BY <1>4, <1>5, FS_Bijection DEF ExistsBijection
<1> QED
  BY <1>3, <1>4, <1>6

(* How the events in flight follow from the batches. *)
LEMMA ItemsOfAdd ==
  ASSUME NEW B, NEW b
  PROVE  /\ ItemsOf(B \cup {b}) = ItemsOf(B) \cup b.items
         /\ ItemsOf({}) = {}
  BY DEF ItemsOf

(* A set of batches with the items of others holds nothing more. *)
LEMMA ItemsOfSubset ==
  ASSUME NEW B, NEW X, \A x \in X : \E c \in B : x.items = c.items
  PROVE  ItemsOf(X) \subseteq ItemsOf(B)
  BY DEF ItemsOf

(* Batches made of some of a relay's batches by changing their stages and  *)
(* flags are batches, and finite together.                                 *)
LEMMA FiniteUpdate ==
  ASSUME TypeInv, NEW r \in Relays, NEW X \in SUBSET Batch,
         \A x \in X : \E c \in batches[r] : x.items = c.items,
         batches' = [batches EXCEPT ![r] = X]
  PROVE  batches' \in [Relays -> SUBSET Batch] /\ FiniteInFlight'
<1>1. ItemsOf(X) \subseteq ItemsOf(batches[r])
  BY ItemsOfSubset
<1>2. IsFiniteSet(ItemsOf(X))
  BY <1>1, FS_Subset DEF TypeInv, FiniteInFlight, InFlight
<1> QED
  BY <1>2 DEF TypeInv, TypeOK, FiniteInFlight, InFlight

(* Moving a batch of runPublish to another stage keeps the types. *)
LEMMA StageUpdate ==
  ASSUME TypeInv, NEW r \in Relays, NEW b \in batches[r], NEW s \in Stage,
         SetStage(r, b, s)
  PROVE  batches' \in [Relays -> SUBSET Batch] /\ FiniteInFlight'
<1> DEFINE c == [b EXCEPT !.stage = s]
           X == (batches[r] \ {b}) \cup {c}
<1>1. c \in Batch /\ c.items = b.items
  BY BatchOf, BatchUpdate
<1>2. batches' = [batches EXCEPT ![r] = X]
  BY DEF SetStage
<1> HIDE DEF c
<1>3. X \in SUBSET Batch /\ \A x \in X : \E d \in batches[r] : x.items = d.items
  BY <1>1 DEF TypeInv, TypeOK
<1> HIDE DEF X
<1> QED
  BY <1>2, <1>3, FiniteUpdate

(* X holds the batches of B with other flags, as when one settles, a cycle *)
(* ends, or a shutdown begins or stops waiting.                            *)
Reflagged(B, X) ==
  \E f \in [B -> Batch] :
    /\ X = {f[c] : c \in B}
    /\ \A c \in B : f[c].items = c.items /\ f[c].stage = c.stage

(* Batches whose flags alone changed have the same items and stages, and   *)
(* are as disjoint as before.                                              *)
LEMMA ReflaggedSame ==
  ASSUME NEW B, NEW X, Reflagged(B, X)
  PROVE  /\ X \in SUBSET Batch
         /\ \A x \in X : \E c \in B : x.items = c.items /\ x.stage = c.stage
         /\ ItemsOf(X) = ItemsOf(B)
         /\ (\A c, d \in B : c.items \cap d.items # {} => c = d)
              => (\A x, y \in X : x.items \cap y.items # {} => x = y)
<1> PICK f \in [B -> Batch] :
      /\ X = {f[c] : c \in B}
      /\ \A c \in B : f[c].items = c.items /\ f[c].stage = c.stage
  BY DEF Reflagged
<1>1. \A x \in X : \E c \in B : x.items = c.items /\ x.stage = c.stage
  OBVIOUS
<1>2. \A c \in B : \E x \in X : x.items = c.items
  OBVIOUS
<1>3. ItemsOf(X) \subseteq ItemsOf(B)
  <2>1. \A x \in X : \E c \in B : x.items = c.items
    BY <1>1
  <2> QED
    BY <2>1, ItemsOfSubset
<1>4. ItemsOf(B) \subseteq ItemsOf(X)
  BY <1>2, ItemsOfSubset
<1>5. X \in SUBSET Batch
  OBVIOUS
<1>6. ASSUME \A c, d \in B : c.items \cap d.items # {} => c = d,
             NEW x \in X, NEW y \in X, x.items \cap y.items # {}
      PROVE  x = y
  <2>1. PICK c \in B, d \in B : x = f[c] /\ y = f[d]
    OBVIOUS
  <2>2. c.items \cap d.items # {}
    BY <2>1, <1>6
  <2>3. c = d
    BY <1>6, <2>2
  <2> QED
    BY <2>1, <2>3
<1> QED
  BY <1>1, <1>3, <1>4, <1>5, <1>6

(* Setting inCycle or inDrain of every batch changes flags alone. *)
LEMMA ReflaggedBy ==
  ASSUME NEW B \in SUBSET Batch, NEW u \in BOOLEAN
  PROVE  /\ Reflagged(B, B)
         /\ Reflagged(B, {[c EXCEPT !.inCycle = u] : c \in B})
         /\ Reflagged(B, {[c EXCEPT !.inDrain = u] : c \in B})
<1>1. Reflagged(B, B)
  <2> DEFINE f == [c \in B |-> c]
  <2>1. f \in [B -> Batch] /\ B = {f[c] : c \in B}
    OBVIOUS
  <2> QED
    BY <2>1 DEF Reflagged
<1>2. Reflagged(B, {[c EXCEPT !.inCycle = u] : c \in B})
  <2> DEFINE f == [c \in B |-> [c EXCEPT !.inCycle = u]]
  <2>1. \A c \in B : f[c] \in Batch /\ f[c].items = c.items /\ f[c].stage = c.stage
    BY BatchUpdate
  <2>2. {[c EXCEPT !.inCycle = u] : c \in B} = {f[c] : c \in B}
    OBVIOUS
  <2>3. f \in [B -> Batch]
    BY <2>1
  <2> HIDE DEF f
  <2> QED
    BY <2>1, <2>2, <2>3 DEF Reflagged
<1>3. Reflagged(B, {[c EXCEPT !.inDrain = u] : c \in B})
  <2> DEFINE f == [c \in B |-> [c EXCEPT !.inDrain = u]]
  <2>1. \A c \in B : f[c] \in Batch /\ f[c].items = c.items /\ f[c].stage = c.stage
    BY BatchUpdate
  <2>2. {[c EXCEPT !.inDrain = u] : c \in B} = {f[c] : c \in B}
    OBVIOUS
  <2>3. f \in [B -> Batch]
    BY <2>1
  <2> HIDE DEF f
  <2> QED
    BY <2>1, <2>2, <2>3 DEF Reflagged
<1> QED
  BY <1>1, <1>2, <1>3

(* Changing flags twice changes flags alone. *)
LEMMA ReflaggedTwice ==
  ASSUME NEW B, NEW C, NEW D, Reflagged(B, C), Reflagged(C, D)
  PROVE  Reflagged(B, D)
<1> PICK f \in [B -> Batch] :
      /\ C = {f[c] : c \in B}
      /\ \A c \in B : f[c].items = c.items /\ f[c].stage = c.stage
  BY DEF Reflagged
<1> PICK g \in [C -> Batch] :
      /\ D = {g[c] : c \in C}
      /\ \A c \in C : g[c].items = c.items /\ g[c].stage = c.stage
  BY DEF Reflagged
<1> DEFINE h == [c \in B |-> g[f[c]]]
<1>1. h \in [B -> Batch]
  OBVIOUS
<1>2. D = {h[c] : c \in B}
  OBVIOUS
<1>3. \A c \in B : h[c].items = c.items /\ h[c].stage = c.stage
  OBVIOUS
<1> HIDE DEF h
<1> QED
  BY <1>1, <1>2, <1>3 DEF Reflagged

(* A rejection that is handled removes the batch and only touches flags.   *)
LEMMA RejectReflags ==
  ASSUME TypeInv, NEW r \in Relays, NEW b \in batches[r],
         Reject(r, b), ~EndProcess(r, "exited")
  PROVE  \E X : /\ batches' = [batches EXCEPT ![r] = X]
                /\ Reflagged(batches[r] \ {b}, X)
<1> DEFINE rest == batches[r] \ {b}
           cycled == IF b.inCycle /\ pc[r] = "awaiting" THEN Forget(rest) ELSE rest
           X == IF b.inDrain THEN {[c EXCEPT !.inDrain = FALSE] : c \in cycled} ELSE cycled
<1>1. batches' = [batches EXCEPT ![r] = X]
  BY DEF Reject
<1>2. Reflagged(rest, cycled)
  BY ReflaggedBy DEF Forget, TypeInv, TypeOK
<1>3. cycled \in SUBSET Batch
  BY <1>2, ReflaggedSame
<1>4. Reflagged(cycled, X)
  <2> HIDE DEF cycled
  <2> QED
    BY <1>3, ReflaggedBy
<1> HIDE DEF rest, cycled, X
<1>5. Reflagged(rest, X)
  BY <1>2, <1>4, ReflaggedTwice
<1> QED
  BY <1>1, <1>5 DEF rest

(* The type invariant holds of an empty table and idle relays. *)
LEMMA InitTypeInv == Init => TypeInv
<1> SUFFICES ASSUME Init PROVE TypeInv
  OBVIOUS
<1>1. TypeOK
  BY DEF Init, TypeOK, Status, PC
<1>2. \A r \in Relays : InFlight(r) = {}
  BY ItemsOfAdd DEF Init, InFlight
<1> QED
  BY <1>1, <1>2, FS_EmptySet DEF TypeInv, FiniteInFlight

(* The type invariant survives every step. *)
LEMMA NextTypeInv ==
  ASSUME TypeInv, [Next]_vars
  PROVE  TypeInv'
<1>0. ASSUME UNCHANGED batches PROVE FiniteInFlight'
  BY <1>0 DEF TypeInv, InFlight, FiniteInFlight
<1>a. CASE UNCHANGED vars
  BY <1>a, <1>0 DEF vars, TypeInv, TypeOK
<1>b. ASSUME NEW e \in Events, Save(e) \/ Age(e) PROVE TypeInv'
  BY <1>b, <1>0 DEF Save, Age, TypeInv, TypeOK, Status, cycle
<1>c. ASSUME NEW r \in Relays, CycleStep(r) PROVE TypeInv'
  <2> USE LimitsAssumption
  <2>0. TypeOK /\ FiniteInFlight
    BY DEF TypeInv
  <2>1. CASE StartCycle(r)
    BY <2>1, <2>0, <1>0 DEF TypeInv, StartCycle, Goto, TypeOK, PC, Polling, db
  <2>2. CASE RecoverStale(r)
    BY <2>2, <2>0, <1>0 DEF TypeInv, RecoverStale, Goto, TypeOK, PC, Polling, FailRows, AfterFailure, Publishing,
       Status, LoopHead, LeaveLoop, Min2
  <2>3. CASE RecoverStaleFails(r)
    BY <2>3, <2>0, <1>0 DEF TypeInv, RecoverStaleFails, Goto, TypeOK, PC, Polling, LoopHead, LeaveLoop, Min2,
       db, Fault
  <2>4. CASE SelectRows(r)
    BY <2>4, <2>0, <1>0 DEF TypeInv, SelectRows, Goto, TypeOK, PC, Polling, LeaveLoop, Claimable
  <2>5. CASE SpawnBatch(r)
    <3>0. NewBatch(r) \in Batch /\ Cardinality(locked[r]) \in Nat
      BY NewBatchOK
    <3>1. TypeOK'
      BY <2>0, <2>5, <3>0 DEF SpawnBatch, ClaimRows, Goto, TypeOK, PC, Polling, Status,
         LeaveLoop, LoopHead, Min2
    <3>2. batches' = [batches EXCEPT ![r] = @ \cup {NewBatch(r)}]
      BY <2>5 DEF SpawnBatch
    <3>3. IsFiniteSet(ItemsOf(batches[r])) /\ IsFiniteSet(NewBatch(r).items)
      BY <2>0, NewBatchOK DEF FiniteInFlight, InFlight
    <3>4. IsFiniteSet(ItemsOf(batches[r] \cup {NewBatch(r)}))
      <4>1. IsFiniteSet(ItemsOf(batches[r]) \cup NewBatch(r).items)
        BY <3>3, FS_Union
      <4> QED
        BY <4>1, ItemsOfAdd
    <3> QED
      BY <2>0, <3>1, <3>2, <3>4 DEF TypeInv, TypeOK, FiniteInFlight, InFlight
  <2>6. CASE PollFails(r)
    BY <2>6, <2>0, <1>0 DEF TypeInv, PollFails, Goto, TypeOK, PC, Polling, LeaveLoop, ClaimRows, Status, Fault
  <2>7. CASE EndCycle(r)
    BY <2>7, <2>0, <1>0 DEF TypeInv, EndCycle, Goto, TypeOK, PC, db
  <2> QED
    BY <1>c, <2>1, <2>2, <2>3, <2>4, <2>5, <2>6, <2>7 DEF CycleStep
<1>d. ASSUME NEW r \in Relays, NEW X, X \in SUBSET Batch,
             batches' = [batches EXCEPT ![r] = X],
             \A x \in X : \E c \in batches[r] : x.items = c.items
      PROVE  batches' \in [Relays -> SUBSET Batch] /\ FiniteInFlight'
  BY <1>d, FiniteUpdate
<1>e. ASSUME NEW r \in Relays, NEW how \in Down, EndProcess(r, how),
             status' \in [Events -> Status], retryCount' \in [Events -> Nat], faults' \in Nat
      PROVE  TypeInv'
  <2> DEFINE X == {}
  <2>1. batches' = [batches EXCEPT ![r] = X]
    BY <1>e DEF EndProcess
  <2>2. X \in SUBSET Batch /\ \A x \in X : \E c \in batches[r] : x.items = c.items
    OBVIOUS
  <2> HIDE DEF X
  <2>3. batches' \in [Relays -> SUBSET Batch] /\ FiniteInFlight'
    BY <2>1, <2>2, <1>d
  <2>4. TypeOK
    BY DEF TypeInv
  <2>5. locked' \in [Relays -> SUBSET Events] /\ stale' \subseteq Events /\ log' \subseteq Copies
    BY <1>e, <2>4 DEF TypeOK, EndProcess
  <2>6. pc' \in [Relays -> PC] /\ isRunning' \in [Relays -> BOOLEAN]
    BY <1>e, <2>4 DEF TypeOK, EndProcess, Goto, PC
  <2>7. /\ activeInFlight' \in [Relays -> Int]
        /\ batchLimit' \in [Relays -> Nat]
        /\ batchesSpawned' \in [Relays -> Nat]
    BY <1>e, <2>4 DEF TypeOK, EndProcess
  <2> QED
    BY <1>e, <2>3, <2>5, <2>6, <2>7 DEF TypeInv, TypeOK
<1>f. ASSUME NEW r \in Relays, BatchStep(r) PROVE TypeInv'
  <2> PICK b \in batches[r] :
        \/ Publish(r, b) \/ PublishFails(r, b)
        \/ MarkPublished(r, b) \/ MarkPublishedFails(r, b)
        \/ MarkFailed(r, b) \/ MarkFailedFails(r, b)
    BY <1>f DEF BatchStep
  <2>0. /\ b \in Batch
        /\ b.items \subseteq Copies
        /\ Cardinality(b.items) \in Nat
    BY BatchOf DEF Batch
  <2>1. CASE Publish(r, b)
    BY <2>0, <2>1, StageUpdate DEF Publish, db, cycle, TypeInv, TypeOK, Stage
  <2>2. CASE PublishFails(r, b)
    <3>1. log' \subseteq Copies
      BY <2>0, <2>2 DEF PublishFails, TypeInv, TypeOK
    <3> QED
      BY <3>1, <2>2, StageUpdate DEF PublishFails, db, cycle, TypeInv, TypeOK, Stage
  <2>3. CASE MarkPublished(r, b)
    <3> DEFINE X == batches[r] \ {b}
    <3>1. batches' = [batches EXCEPT ![r] = X]
      BY <2>3 DEF MarkPublished
    <3>0. X \in SUBSET Batch /\ \A x \in X : \E c \in batches[r] : x.items = c.items
      BY DEF TypeInv, TypeOK
    <3> HIDE DEF X
    <3>2. batches' \in [Relays -> SUBSET Batch] /\ FiniteInFlight'
      BY <3>0, <3>1, <1>d
    <3> QED
      BY <2>0, <2>3, <3>2 DEF MarkPublished, MarkPublishedBatch, Settle, cycle, TypeInv, TypeOK,
         Status
  <2>4. CASE MarkPublishedFails(r, b)
    BY <2>4, StageUpdate DEF MarkPublishedFails, MarkPublishedBatch, cycle, TypeInv, TypeOK,
       Stage, Status, Fault
  <2>5. CASE MarkFailed(r, b) \/ MarkFailedFails(r, b)
    <3>1. /\ status' \in [Events -> Status]
          /\ retryCount' \in [Events -> Nat]
          /\ faults' \in Nat
          /\ Reject(r, b)
      BY <2>5 DEF MarkFailed, MarkFailedFails, MarkFailedBatch, AfterFailure, Fault,
         TypeInv, TypeOK, Status
    <3>2. CASE EndProcess(r, "exited")
      BY <3>1, <3>2, <1>e DEF Down
    <3>3. CASE ~EndProcess(r, "exited")
      <4>1. PICK X : batches' = [batches EXCEPT ![r] = X] /\ Reflagged(batches[r] \ {b}, X)
        BY <3>1, <3>3, RejectReflags
      <4>2. X \in SUBSET Batch /\ \A x \in X : \E c \in batches[r] : x.items = c.items
        BY <4>1, ReflaggedSame
      <4>3. batches' \in [Relays -> SUBSET Batch] /\ FiniteInFlight'
        BY <4>1, <4>2, <1>d
      <4> QED
        BY <2>0, <3>1, <3>3, <4>3 DEF Reject, Settle, Goto, TypeInv, TypeOK, PC
    <3> QED
      BY <3>2, <3>3
  <2> QED
    BY <2>1, <2>2, <2>3, <2>4, <2>5
<1>g. ASSUME NEW r \in Relays, LifeStep(r) PROVE TypeInv'
  <2>1. CASE Kill(r)
    BY <2>1, <1>e DEF Down, Kill, Fault, TypeInv, TypeOK
  <2>2. CASE Shutdown(r)
    <3> DEFINE X == {[c EXCEPT !.inDrain = TRUE] : c \in batches[r]}
    <3>1. batches' = [batches EXCEPT ![r] = X]
      BY <2>2 DEF Shutdown
    <3>2. Reflagged(batches[r], X)
      BY ReflaggedBy DEF TypeInv, TypeOK
    <3> HIDE DEF X
    <3>3. X \in SUBSET Batch /\ \A x \in X : \E c \in batches[r] : x.items = c.items
      BY <3>2, ReflaggedSame
    <3>4. batches' \in [Relays -> SUBSET Batch] /\ FiniteInFlight'
      BY <3>1, <3>3, <1>d
    <3> QED
      BY <2>2, <3>4 DEF Shutdown, db, cycle, Fault, TypeInv, TypeOK
  <2>3. CASE FinishShutdown(r)
    BY <2>3, <1>e DEF Down, FinishShutdown, TypeInv, TypeOK
  <2>4. CASE Restart(r)
    BY <2>4, <1>0 DEF Restart, Goto, db, TypeInv, TypeOK, PC
  <2> QED
    BY <1>g, <2>1, <2>2, <2>3, <2>4 DEF LifeStep
<1> QED
  BY <1>a, <1>b, <1>c, <1>f, <1>g DEF Next

(* Type correctness of the relay, its table and Kafka's log.               *)
THEOREM TypeCorrect == Spec => []TypeOK
<1>1. TypeInv => TypeOK
  BY DEF TypeInv
<1> QED
  BY <1>1, InitTypeInv, NextTypeInv, PTL DEF Spec

-----------------------------------------------------------------------------
(* The inductive invariant.                                                *)

(* An attempt the relays know of: its number was the row's retryCount when *)
(* the row was claimed, so it is current only while the row is PUBLISHING  *)
(* or once it is PUBLISHED.                                                *)
Known(copy) ==
  /\ copy[1] \in Events
  /\ copy[2] \in Nat
  /\ status[copy[1]] # "NONE"
  /\ copy[2] <= retryCount[copy[1]]
  /\ copy[2] = retryCount[copy[1]] => status[copy[1]] \in {"PUBLISHING", "PUBLISHED"}

AttemptsKnown ==
  /\ \A copy \in log : Known(copy)
  /\ \A r \in Relays : \A b \in batches[r] : \A copy \in b.items : Known(copy)

(* A batch is at markPublishedBatch only after Kafka took all of it. *)
SentBeforeMarked ==
  \A r \in Relays : \A b \in batches[r] : b.stage = "markPublished" => b.items \subseteq log

(* Open claim transactions lock waiting rows, each row for one relay. *)
LocksHeld ==
  /\ \A r \in Relays : \A e \in locked[r] : status[e] \in {"PENDING", "RETRYING"}
  /\ \A r, q \in Relays : \A e \in locked[r] \cap locked[q] : r = q

AttemptInv ==
  /\ RetryBudget
  /\ AttemptsKnown
  /\ SentBeforeMarked
  /\ LocksHeld
  /\ OneBatchPerAttempt
  /\ PublishedIsInKafka

(* How one row may move in one step. *)
Stays(e)      == status'[e] = status[e] /\ retryCount'[e] = retryCount[e]
IsSaved(e)    == status[e] = "NONE" /\ status'[e] = "PENDING" /\ retryCount'[e] = retryCount[e]
IsClaimed(e)  == /\ status[e] \in {"PENDING", "RETRYING"}
                 /\ status'[e] = "PUBLISHING"
                 /\ retryCount'[e] = retryCount[e]
IsPublished(e) == /\ status[e] = "PUBLISHING"
                  /\ status'[e] = "PUBLISHED"
                  /\ retryCount'[e] = retryCount[e]
                  /\ e \in EventsOf(log)
IsFailed(e)   == /\ status[e] = "PUBLISHING"
                 /\ status'[e] = AfterFailure(e)
                 /\ retryCount'[e] = retryCount[e] + 1
Moves(e) == Stays(e) \/ IsSaved(e) \/ IsClaimed(e) \/ IsPublished(e) \/ IsFailed(e)

(* So does the invariant of attempts. *)
LEMMA InitAttemptInv == Init => AttemptInv
  BY LimitsAssumption DEF Init, AttemptInv, RetryBudget, AttemptsKnown, SentBeforeMarked, LocksHeld,
     OneBatchPerAttempt, PublishedIsInKafka

(* Failing the PUBLISHING rows of a set, publishing them, and claiming the *)
(* locked ones are moves.                                                  *)
LEMMA FailRowsMoves ==
  ASSUME TypeInv, NEW S, FailRows(Publishing(S))
  PROVE  \A e \in Events : Stays(e) \/ IsFailed(e)
  BY DEF TypeInv, TypeOK, FailRows, Publishing, Stays, IsFailed

(* So is markFailedBatch: the budget leaves it nothing to promote but the  *)
(* rows it failed itself.                                                  *)
LEMMA MarkFailedMoves ==
  ASSUME TypeInv, RetryBudget, NEW S, MarkFailedBatch(S)
  PROVE  \A e \in Events : Stays(e) \/ IsFailed(e)
<1> SUFFICES ASSUME NEW e \in Events PROVE Stays(e) \/ IsFailed(e)
  OBVIOUS
<1>1. e \notin Promoted(S)
  BY LimitsAssumption DEF TypeInv, TypeOK, RetryBudget, Promoted
<1>2. CASE e \in Publishing(S)
  BY <1>1, <1>2 DEF MarkFailedBatch, Publishing, IsFailed
<1>3. CASE e \notin Publishing(S)
  BY <1>1, <1>3 DEF MarkFailedBatch, Stays
<1> QED
  BY <1>2, <1>3

(* markPublishedBatch, at the stage where it is called, publishes rows.    *)
LEMMA MarkPublishedMoves ==
  ASSUME TypeInv, AttemptInv, NEW r \in Relays, NEW b \in batches[r],
         b.stage = "markPublished", MarkPublishedBatch(EventsOf(b.items))
  PROVE  \A e \in Events : Stays(e) \/ IsPublished(e)
<1>1. EventsOf(b.items) \subseteq EventsOf(log)
  BY DEF AttemptInv, SentBeforeMarked, EventsOf
<1> HIDE DEF EventsOf
<1> QED
  BY <1>1 DEF TypeInv, TypeOK, MarkPublishedBatch, Publishing, Stays, IsPublished

(* claimPending's update claims rows and moves no other. *)
LEMMA ClaimMoves ==
  ASSUME TypeInv, AttemptInv, NEW r \in Relays, ClaimRows(r)
  PROVE  \A e \in Events : Stays(e) \/ IsClaimed(e)
  BY DEF TypeInv, TypeOK, AttemptInv, LocksHeld, ClaimRows, Stays, IsClaimed

(* Every step moves every row by one of these moves. *)
LEMMA RowsMove ==
  ASSUME TypeInv, AttemptInv, [Next]_vars
  PROVE  \A e \in Events : Moves(e)
<1>0. ASSUME UNCHANGED <<status, retryCount>> PROVE \A e \in Events : Moves(e)
  BY <1>0 DEF Moves, Stays
<1>1. CASE UNCHANGED vars
  BY <1>0, <1>1 DEF vars
<1>2. ASSUME NEW f \in Events, Save(f) \/ Age(f) PROVE \A e \in Events : Moves(e)
  BY <1>2 DEF Save, Age, TypeInv, TypeOK, Moves, Stays, IsSaved
<1>3. ASSUME NEW r \in Relays, CycleStep(r) PROVE \A e \in Events : Moves(e)
  <2>1. CASE RecoverStale(r)
    BY <2>1, FailRowsMoves DEF RecoverStale, Moves
  <2>2. CASE SpawnBatch(r)
    BY <2>2, ClaimMoves DEF SpawnBatch, Moves
  <2>3. CASE PollFails(r)
    <3>1. CASE ClaimRows(r)
      BY <3>1, ClaimMoves DEF Moves
    <3> QED
      BY <2>3, <3>1, <1>0 DEF PollFails
  <2>4. CASE StartCycle(r) \/ RecoverStaleFails(r) \/ SelectRows(r) \/ EndCycle(r)
    BY <2>4, <1>0 DEF StartCycle, RecoverStaleFails, SelectRows, EndCycle, db
  <2> QED
    BY <1>3, <2>1, <2>2, <2>3, <2>4 DEF CycleStep
<1>4. ASSUME NEW r \in Relays, BatchStep(r) PROVE \A e \in Events : Moves(e)
  <2> PICK b \in batches[r] :
        \/ Publish(r, b) \/ PublishFails(r, b)
        \/ MarkPublished(r, b) \/ MarkPublishedFails(r, b)
        \/ MarkFailed(r, b) \/ MarkFailedFails(r, b)
    BY <1>4 DEF BatchStep
  <2>1. CASE Publish(r, b) \/ PublishFails(r, b) \/ MarkFailedFails(r, b)
    BY <2>1, <1>0 DEF Publish, PublishFails, MarkFailedFails, db
  <2>2. CASE MarkPublished(r, b) \/ MarkPublishedFails(r, b)
    <3>1. CASE MarkPublishedBatch(EventsOf(b.items))
      BY <2>2, <3>1, MarkPublishedMoves DEF MarkPublished, MarkPublishedFails, Moves
    <3> QED
      BY <2>2, <3>1, <1>0 DEF MarkPublished, MarkPublishedFails
  <2>3. CASE MarkFailed(r, b)
    BY <2>3, MarkFailedMoves DEF MarkFailed, AttemptInv, Moves
  <2> QED
    BY <2>1, <2>2, <2>3
<1>5. ASSUME NEW r \in Relays, LifeStep(r) PROVE \A e \in Events : Moves(e)
  BY <1>5, <1>0 DEF LifeStep, Kill, Shutdown, FinishShutdown, Restart, db
<1> QED
  BY <1>1, <1>2, <1>3, <1>4, <1>5 DEF Next

(* The retry budget follows from the moves. *)
LEMMA MovesKeepBudget ==
  ASSUME TypeInv, RetryBudget, \A e \in Events : Moves(e)
  PROVE  RetryBudget'
<1> SUFFICES ASSUME NEW e \in Events
             PROVE  /\ retryCount'[e] <= RetryLimit
                    /\ status'[e] = "FAILED" <=> retryCount'[e] = RetryLimit
  BY DEF RetryBudget
<1> QED
  BY LimitsAssumption DEF TypeInv, TypeOK, RetryBudget, Moves, Stays, IsSaved, IsClaimed,
     IsPublished, IsFailed, AfterFailure

(* So does it that what is known stays known. *)
LEMMA MovesKeepKnown ==
  ASSUME TypeInv, \A e \in Events : Moves(e), NEW copy, Known(copy)
  PROVE  Known(copy)'
<1> DEFINE e == copy[1]
<1>1. e \in Events /\ Moves(e)
  BY DEF Known
<1>2. retryCount[e] \in Nat
  BY <1>1 DEF TypeInv, TypeOK
<1> QED
  BY <1>1, <1>2 DEF Known, Moves, Stays, IsSaved, IsClaimed, IsPublished, IsFailed, AfterFailure

(* Batches that are only dropped or get other flags. *)
Kept ==
  \/ UNCHANGED batches
  \/ \E r \in Relays : \E X : \E B \in SUBSET batches[r] :
       batches' = [batches EXCEPT ![r] = X] /\ Reflagged(B, X)

(* Every step keeps the batches and the log, spawns a batch, or moves one  *)
(* batch to its next stage.                                                *)
LEMMA BatchesStep ==
  ASSUME TypeInv, [Next]_vars
  PROVE  \/ Kept /\ UNCHANGED log
         \/ \E r \in Relays : SpawnBatch(r)
         \/ \E r \in Relays : \E b \in batches[r] :
              Publish(r, b) \/ PublishFails(r, b) \/ MarkPublishedFails(r, b)
<1>0. ASSUME UNCHANGED <<batches, log>> PROVE Kept /\ UNCHANGED log
  BY <1>0 DEF Kept
<1>1. CASE UNCHANGED vars
  BY <1>0, <1>1 DEF vars
<1>2. ASSUME NEW e \in Events, Save(e) \/ Age(e) PROVE Kept /\ UNCHANGED log
  BY <1>0, <1>2 DEF Save, Age
<1>3. ASSUME NEW r \in Relays, CycleStep(r) PROVE (Kept /\ UNCHANGED log) \/ SpawnBatch(r)
  BY <1>0, <1>3 DEF CycleStep, StartCycle, RecoverStale, RecoverStaleFails, SelectRows, PollFails,
     EndCycle
<1>4. ASSUME NEW r \in Relays, NEW X, NEW B \in SUBSET batches[r], UNCHANGED log,
             batches' = [batches EXCEPT ![r] = X], Reflagged(B, X)
      PROVE  Kept /\ UNCHANGED log
  BY <1>4 DEF Kept
<1>5. ASSUME NEW r \in Relays, NEW how, EndProcess(r, how) PROVE Kept /\ UNCHANGED log
  <2> DEFINE X == {}
  <2>1. batches' = [batches EXCEPT ![r] = X] /\ UNCHANGED log
    BY <1>5 DEF EndProcess
  <2>2. Reflagged(X, X)
    BY ReflaggedBy
  <2>3. X \in SUBSET batches[r]
    OBVIOUS
  <2> HIDE DEF X
  <2> QED
    BY <1>4, <2>1, <2>2, <2>3
<1>6. ASSUME NEW r \in Relays, NEW b \in batches[r], MarkPublished(r, b)
      PROVE  Kept /\ UNCHANGED log
  <2> DEFINE X == batches[r] \ {b}
  <2>1. batches' = [batches EXCEPT ![r] = X] /\ UNCHANGED log
    BY <1>6 DEF MarkPublished
  <2>2. X \in SUBSET Batch /\ X \in SUBSET batches[r]
    BY DEF TypeInv, TypeOK
  <2> HIDE DEF X
  <2>3. Reflagged(X, X)
    BY <2>2, ReflaggedBy
  <2> QED
    BY <1>4, <2>1, <2>2, <2>3
<1>7. ASSUME NEW r \in Relays, NEW b \in batches[r], MarkFailed(r, b) \/ MarkFailedFails(r, b)
      PROVE  Kept /\ UNCHANGED log
  <2>1. Reject(r, b)
    BY <1>7 DEF MarkFailed, MarkFailedFails
  <2>2. CASE EndProcess(r, "exited")
    BY <1>5, <2>2
  <2>3. CASE ~EndProcess(r, "exited")
    <3>1. PICK X : batches' = [batches EXCEPT ![r] = X] /\ Reflagged(batches[r] \ {b}, X)
      BY <2>1, <2>3, RejectReflags
    <3>2. batches[r] \ {b} \in SUBSET batches[r] /\ UNCHANGED log
      BY <2>1, <2>3 DEF Reject
    <3> QED
      BY <1>4, <3>1, <3>2
  <2> QED
    BY <2>2, <2>3
<1>8. ASSUME NEW r \in Relays, LifeStep(r) PROVE Kept /\ UNCHANGED log
  <2>1. CASE Kill(r) \/ FinishShutdown(r)
    BY <2>1, <1>5 DEF Kill, FinishShutdown
  <2>2. CASE Shutdown(r)
    <3> DEFINE B == batches[r]
               X == {[c EXCEPT !.inDrain = TRUE] : c \in B}
    <3>1. batches' = [batches EXCEPT ![r] = X] /\ UNCHANGED log
      BY <2>2 DEF Shutdown
    <3>2. Reflagged(B, X)
      BY ReflaggedBy DEF TypeInv, TypeOK
    <3>3. B \in SUBSET batches[r]
      OBVIOUS
    <3> HIDE DEF B, X
    <3> QED
      BY <1>4, <3>1, <3>2, <3>3
  <2>3. CASE Restart(r)
    BY <2>3, <1>0 DEF Restart
  <2> QED
    BY <1>8, <2>1, <2>2, <2>3 DEF LifeStep
<1> QED
  BY <1>1, <1>2, <1>3, <1>6, <1>7, <1>8 DEF Next, BatchStep

(* Keeping batches keeps what the invariant says of them. *)
LEMMA KeptBatches ==
  ASSUME TypeInv, OneBatchPerAttempt, Kept
  PROVE  /\ \A q \in Relays : \A x \in batches'[q] :
              \E c \in batches[q] : x.items = c.items /\ x.stage = c.stage
         /\ \A p, q \in Relays : \A x \in batches'[p], y \in batches'[q] :
              x.items \cap y.items # {} => p = q /\ x = y
<1>1. CASE UNCHANGED batches
  BY <1>1 DEF OneBatchPerAttempt
<1>2. ASSUME NEW r \in Relays, NEW X, NEW B \in SUBSET batches[r],
             batches' = [batches EXCEPT ![r] = X], Reflagged(B, X)
      PROVE  /\ \A q \in Relays : \A x \in batches'[q] :
                  \E c \in batches[q] : x.items = c.items /\ x.stage = c.stage
             /\ \A p, q \in Relays : \A x \in batches'[p], y \in batches'[q] :
                  x.items \cap y.items # {} => p = q /\ x = y
  <2>1. batches'[r] = X /\ \A q \in Relays : q # r => batches'[q] = batches[q]
    BY <1>2 DEF TypeInv, TypeOK
  <2>2. \A x \in X : \E c \in B : x.items = c.items /\ x.stage = c.stage
    BY <1>2, ReflaggedSame
  <2>3. \A x, y \in X : x.items \cap y.items # {} => x = y
    <3>1. \A c, d \in B : c.items \cap d.items # {} => c = d
      BY DEF OneBatchPerAttempt
    <3> QED
      BY <3>1, <1>2, ReflaggedSame
  <2>4. ASSUME NEW q \in Relays, NEW x \in batches'[q]
        PROVE  \E c \in batches[q] : x.items = c.items /\ x.stage = c.stage
    BY <2>1, <2>2
  <2>5. ASSUME NEW p \in Relays, NEW q \in Relays, NEW x \in batches'[p], NEW y \in batches'[q],
               x.items \cap y.items # {}
        PROVE  p = q /\ x = y
    <3>1. PICK c \in batches[p], d \in batches[q] : x.items = c.items /\ y.items = d.items
      BY <2>4
    <3>2. p = q
      BY <3>1, <2>5 DEF OneBatchPerAttempt
    <3>3. CASE p = r
      BY <2>1, <2>3, <2>5, <3>2, <3>3
    <3>4. CASE p # r
      BY <2>1, <2>5, <3>2, <3>4 DEF OneBatchPerAttempt
    <3> QED
      BY <3>2, <3>3, <3>4
  <2> QED
    BY <2>4, <2>5
<1> QED
  BY <1>1, <1>2 DEF Kept

(* What a spawned batch and a batch that moves to its next stage leave.    *)
LEMMA SpawnedBatch ==
  ASSUME TypeInv, NEW r \in Relays, SpawnBatch(r)
  PROVE  /\ batches'[r] = batches[r] \cup {NewBatch(r)}
         /\ \A q \in Relays : q # r => batches'[q] = batches[q]
         /\ log' = log
  BY DEF SpawnBatch, TypeInv, TypeOK

(* A batch that moves to its next stage keeps its items, and every other   *)
(* batch stays as it is.                                                   *)
LEMMA StagedBatch ==
  ASSUME TypeInv, NEW r \in Relays, NEW b \in batches[r], NEW s \in Stage, SetStage(r, b, s)
  PROVE  \E c : /\ batches'[r] = (batches[r] \ {b}) \cup {c}
                /\ \A q \in Relays : q # r => batches'[q] = batches[q]
                /\ c.items = b.items
                /\ c.stage = s
<1> DEFINE c == [b EXCEPT !.stage = s]
<1>1. c.items = b.items /\ c.stage = s
  BY BatchOf, BatchUpdate
<1>2. /\ batches'[r] = (batches[r] \ {b}) \cup {c}
      /\ \A q \in Relays : q # r => batches'[q] = batches[q]
  BY DEF SetStage, TypeInv, TypeOK
<1> HIDE DEF c
<1> QED
  BY <1>1, <1>2

(* A fresh claim is an attempt nobody has made. *)
LEMMA ClaimIsFresh ==
  ASSUME TypeInv, AttemptInv, NEW r \in Relays, NEW copy \in NewBatch(r).items
  PROVE  ~Known(copy)
<1>1. PICK e \in locked[r] : copy = <<e, retryCount[e]>>
  BY NewBatchOK
<1>2. e \in Events /\ status[e] \in {"PENDING", "RETRYING"}
  BY DEF TypeInv, TypeOK, AttemptInv, LocksHeld
<1> QED
  BY <1>1, <1>2 DEF Known

(* Once it is made it is known. *)
LEMMA ClaimIsKnown ==
  ASSUME TypeInv, AttemptInv, NEW r \in Relays, SpawnBatch(r), NEW copy \in NewBatch(r).items
  PROVE  Known(copy)'
<1>1. PICK e \in locked[r] : copy = <<e, retryCount[e]>>
  BY NewBatchOK
<1>2. e \in Events /\ retryCount[e] \in Nat
  BY DEF TypeInv, TypeOK
<1>3. status'[e] = "PUBLISHING" /\ retryCount' = retryCount
  BY <1>2 DEF SpawnBatch, ClaimRows
<1> QED
  BY <1>1, <1>2, <1>3 DEF Known

(* Kafka's log only grows, by attempts of a batch at "publish".            *)
LEMMA LogGrows ==
  ASSUME TypeInv, [Next]_vars
  PROVE  log \subseteq log'
<1>1. \A r \in Relays : SpawnBatch(r) => log' = log
  BY DEF SpawnBatch
<1>2. \A r \in Relays : \A b \in batches[r] :
        Publish(r, b) \/ PublishFails(r, b) \/ MarkPublishedFails(r, b) => log \subseteq log'
  BY DEF Publish, PublishFails, MarkPublishedFails
<1> QED
  BY <1>1, <1>2, BatchesStep

(* Row locks are kept as PostgreSQL keeps them. *)
LEMMA NextLocksHeld ==
  ASSUME TypeInv, AttemptInv, [Next]_vars
  PROVE  LocksHeld'
<1> USE DEF TypeInv, AttemptInv
<1>0. \A e \in Events : Moves(e)
  BY RowsMove
<1>1. ASSUME UNCHANGED locked, \A e \in Events : ~IsClaimed(e) PROVE LocksHeld'
  BY <1>0, <1>1 DEF LocksHeld, TypeOK, Moves, Stays, IsSaved, IsClaimed, IsPublished, IsFailed
<1>2. ASSUME NEW r \in Relays, locked' = [locked EXCEPT ![r] = {}],
             \A e \in Events : IsClaimed(e) => e \in locked[r]
      PROVE  LocksHeld'
  BY <1>0, <1>2 DEF LocksHeld, TypeOK, Moves, Stays, IsSaved, IsClaimed, IsPublished, IsFailed
<1>3. ASSUME UNCHANGED <<status, retryCount, locked>> PROVE LocksHeld'
  BY <1>3 DEF LocksHeld
<1>4. CASE UNCHANGED vars
  BY <1>3, <1>4 DEF vars
<1>5. ASSUME NEW e \in Events, Save(e) \/ Age(e) PROVE LocksHeld'
  BY <1>1, <1>5 DEF Save, Age, IsClaimed, TypeOK
<1>6. ASSUME NEW r \in Relays, NEW how, EndProcess(r, how),
             \A e \in Events : Stays(e) \/ IsFailed(e)
      PROVE  LocksHeld'
  BY <1>2, <1>6 DEF EndProcess, Stays, IsFailed, IsClaimed
<1>7. ASSUME NEW r \in Relays, CycleStep(r) PROVE LocksHeld'
  <2>1. CASE RecoverStale(r)
    <3>1. \A e \in Events : Stays(e) \/ IsFailed(e)
      BY <2>1, FailRowsMoves DEF RecoverStale
    <3> QED
      BY <1>1, <2>1, <3>1 DEF RecoverStale, Stays, IsFailed, IsClaimed
  <2>2. CASE SpawnBatch(r)
    BY <1>2, <2>2 DEF SpawnBatch, ClaimRows, IsClaimed, TypeOK
  <2>3. CASE PollFails(r)
    BY <1>2, <2>3 DEF PollFails, ClaimRows, IsClaimed, TypeOK
  <2>4. CASE SelectRows(r)
    BY <2>4 DEF SelectRows, Claimable, LocksHeld, TypeOK
  <2>5. CASE StartCycle(r) \/ RecoverStaleFails(r) \/ EndCycle(r)
    BY <1>3, <2>5 DEF StartCycle, RecoverStaleFails, EndCycle, db
  <2> QED
    BY <1>7, <2>1, <2>2, <2>3, <2>4, <2>5 DEF CycleStep
<1>8. ASSUME NEW r \in Relays, NEW b \in batches[r],
             \/ Publish(r, b) \/ PublishFails(r, b)
             \/ MarkPublished(r, b) \/ MarkPublishedFails(r, b)
             \/ MarkFailed(r, b) \/ MarkFailedFails(r, b)
      PROVE  LocksHeld'
  <2>1. CASE Publish(r, b) \/ PublishFails(r, b)
    BY <1>3, <2>1 DEF Publish, PublishFails, db
  <2>2. CASE MarkPublished(r, b) \/ MarkPublishedFails(r, b)
    BY <1>1, <1>3, <2>2 DEF MarkPublished, MarkPublishedFails, MarkPublishedBatch, IsClaimed
  <2>3. CASE MarkFailed(r, b) \/ MarkFailedFails(r, b)
    <3>1. \A e \in Events : Stays(e) \/ IsFailed(e)
      BY <2>3, MarkFailedMoves DEF MarkFailed, MarkFailedFails, AttemptInv, Stays
    <3>2. CASE EndProcess(r, "exited")
      BY <1>6, <3>1, <3>2
    <3>3. CASE ~EndProcess(r, "exited")
      BY <1>1, <2>3, <3>1, <3>3 DEF MarkFailed, MarkFailedFails, Reject, Stays, IsFailed, IsClaimed
    <3> QED
      BY <3>2, <3>3
  <2> QED
    BY <1>8, <2>1, <2>2, <2>3
<1>9. ASSUME NEW r \in Relays, LifeStep(r) PROVE LocksHeld'
  <2>1. CASE Kill(r) \/ FinishShutdown(r)
    BY <1>6, <2>1 DEF Kill, FinishShutdown, Stays
  <2>2. CASE Shutdown(r) \/ Restart(r)
    BY <1>3, <2>2 DEF Shutdown, Restart, db
  <2> QED
    BY <1>9, <2>1, <2>2 DEF LifeStep
<1> QED
  BY <1>4, <1>5, <1>7, <1>8, <1>9 DEF Next, BatchStep

(* The part of the invariant about batches, in each of the three kinds of  *)
(* step.                                                                   *)
BatchInv == AttemptsKnown /\ SentBeforeMarked /\ OneBatchPerAttempt

(* Steps that spawn nothing and send nothing keep the invariant of batches.*)
LEMMA KeptKeepsBatchInv ==
  ASSUME TypeInv, AttemptInv, \A e \in Events : Moves(e), Kept, UNCHANGED log
  PROVE  BatchInv'
<1>1. /\ \A q \in Relays : \A x \in batches'[q] :
           \E c \in batches[q] : x.items = c.items /\ x.stage = c.stage
      /\ \A p, q \in Relays : \A x \in batches'[p], y \in batches'[q] :
           x.items \cap y.items # {} => p = q /\ x = y
  BY KeptBatches DEF AttemptInv
<1>2. AttemptsKnown'
  <2>1. \A copy \in log' : Known(copy)'
    BY MovesKeepKnown DEF AttemptInv, AttemptsKnown
  <2>2. \A q \in Relays : \A x \in batches'[q] : \A copy \in x.items : Known(copy)'
    BY <1>1, MovesKeepKnown DEF AttemptInv, AttemptsKnown
  <2> QED
    BY <2>1, <2>2 DEF AttemptsKnown
<1>3. SentBeforeMarked'
  BY <1>1 DEF AttemptInv, SentBeforeMarked
<1>4. OneBatchPerAttempt'
  BY <1>1 DEF AttemptInv, OneBatchPerAttempt
<1> QED
  BY <1>2, <1>3, <1>4 DEF BatchInv

(* A spawned batch keeps it: its attempts are fresh. *)
LEMMA SpawnKeepsBatchInv ==
  ASSUME TypeInv, AttemptInv, \A e \in Events : Moves(e), NEW r \in Relays, SpawnBatch(r)
  PROVE  BatchInv'
<1> DEFINE new == NewBatch(r)
<1>1. /\ batches'[r] = batches[r] \cup {new}
      /\ \A q \in Relays : q # r => batches'[q] = batches[q]
      /\ log' = log
  BY SpawnedBatch
<1>2. new.stage = "publish" /\ \A copy \in new.items : ~Known(copy) /\ Known(copy)'
  BY NewBatchOK, ClaimIsFresh, ClaimIsKnown
<1>3. /\ \A copy \in log : Known(copy) /\ Known(copy)'
      /\ \A q \in Relays : \A b \in batches[q] : \A copy \in b.items : Known(copy) /\ Known(copy)'
  BY MovesKeepKnown DEF AttemptInv, AttemptsKnown
<1> HIDE DEF new
<1>4. AttemptsKnown'
  <2>1. \A copy \in log' : Known(copy)'
    BY <1>1, <1>3
  <2>2. \A q \in Relays : \A x \in batches'[q] : \A copy \in x.items : Known(copy)'
    BY <1>1, <1>2, <1>3
  <2> QED
    BY <2>1, <2>2 DEF AttemptsKnown
<1>5. SentBeforeMarked'
  BY <1>1, <1>2 DEF AttemptInv, SentBeforeMarked
<1>6. OneBatchPerAttempt'
  <2>1. new.items \cap log = {} /\ \A q \in Relays : \A b \in batches[q] : new.items \cap b.items = {}
    BY <1>2, <1>3
  <2>2. \A q \in Relays : \A b \in batches'[q] : b \in batches[q] \/ (q = r /\ b = new)
    BY <1>1
  <2>3. ASSUME NEW p \in Relays, NEW q \in Relays, NEW b \in batches'[p], NEW c \in batches'[q]
        PROVE  /\ b.items \cap c.items # {} => p = q /\ b = c
               /\ b.stage = "publish" => b.items \cap log' = {}
    BY <1>1, <2>1, <2>2 DEF AttemptInv, OneBatchPerAttempt
  <2> QED
    BY <2>3 DEF OneBatchPerAttempt
<1> QED
  BY <1>4, <1>5, <1>6 DEF BatchInv

(* A batch that moves on keeps it: what it sends was not sent before, and   *)
(* it is marked published only after everything was sent.                  *)
LEMMA StageKeepsBatchInv ==
  ASSUME TypeInv, AttemptInv, \A e \in Events : Moves(e), NEW r \in Relays, NEW b \in batches[r],
         Publish(r, b) \/ PublishFails(r, b) \/ MarkPublishedFails(r, b)
  PROVE  BatchInv'
<1>1. PICK s \in Stage \ {"publish"} :
        /\ SetStage(r, b, s)
        /\ s = "markPublished" => log' = log \cup b.items
        /\ log \subseteq log'
        /\ log' # log => b.stage = "publish"
        /\ log' \subseteq log \cup b.items
  BY DEF Publish, PublishFails, MarkPublishedFails, Stage
<1>2. PICK n : /\ batches'[r] = (batches[r] \ {b}) \cup {n}
               /\ \A q \in Relays : q # r => batches'[q] = batches[q]
               /\ n.items = b.items
               /\ n.stage = s
  BY <1>1, StagedBatch
<1>3. \A q \in Relays : \A c \in batches'[q] :
        \/ c \in batches[q] /\ ~(q = r /\ c = b)
        \/ q = r /\ c = n
  BY <1>2
<1>4. AttemptsKnown'
  <2>1. \A copy \in log' : Known(copy)'
    BY <1>1, MovesKeepKnown DEF AttemptInv, AttemptsKnown
  <2>2. \A q \in Relays : \A x \in batches'[q] : \A copy \in x.items : Known(copy)'
    BY <1>2, <1>3, MovesKeepKnown DEF AttemptInv, AttemptsKnown
  <2> QED
    BY <2>1, <2>2 DEF AttemptsKnown
<1>5. SentBeforeMarked'
  <2>1. ASSUME NEW q \in Relays, NEW c \in batches'[q], c.stage = "markPublished"
        PROVE  c.items \subseteq log'
    BY <1>1, <1>2, <1>3, <2>1 DEF AttemptInv, SentBeforeMarked
  <2> QED
    BY <2>1 DEF SentBeforeMarked
<1>6. OneBatchPerAttempt'
  <2>1. \A q \in Relays : \A c \in batches[q] : ~(q = r /\ c = b) => b.items \cap c.items = {}
    BY DEF AttemptInv, OneBatchPerAttempt
  <2>2. ASSUME NEW p \in Relays, NEW q \in Relays, NEW c \in batches'[p], NEW d \in batches'[q]
        PROVE  c.items \cap d.items # {} => p = q /\ c = d
    BY <1>2, <1>3, <2>1 DEF AttemptInv, OneBatchPerAttempt
  <2>3. ASSUME NEW p \in Relays, NEW c \in batches'[p], c.stage = "publish"
        PROVE  c.items \cap log' = {}
    <3>1. c \in batches[p] /\ ~(p = r /\ c = b)
      BY <1>1, <1>2, <1>3, <2>3
    <3>2. c.items \cap log = {}
      BY <3>1, <2>3 DEF AttemptInv, OneBatchPerAttempt
    <3> QED
      BY <1>1, <2>1, <3>1, <3>2
  <2> QED
    BY <2>2, <2>3 DEF OneBatchPerAttempt
<1> QED
  BY <1>4, <1>5, <1>6 DEF BatchInv

(* The invariant survives every step. *)
LEMMA NextAttemptInv ==
  ASSUME TypeInv, AttemptInv, [Next]_vars
  PROVE  AttemptInv'
<1>1. \A e \in Events : Moves(e)
  BY RowsMove
<1>2. RetryBudget'
  BY <1>1, MovesKeepBudget DEF AttemptInv
<1>3. LocksHeld'
  BY NextLocksHeld
<1>4. PublishedIsInKafka'
  <2> SUFFICES ASSUME NEW e \in Events, status'[e] = "PUBLISHED"
               PROVE  e \in EventsOf(log)'
    BY DEF PublishedIsInKafka
  <2>1. e \in EventsOf(log)
    BY <1>1 DEF Moves, Stays, IsSaved, IsClaimed, IsPublished, IsFailed, AfterFailure, AttemptInv,
       PublishedIsInKafka
  <2> QED
    BY <2>1, LogGrows DEF EventsOf
<1>5. BatchInv'
  BY <1>1, BatchesStep, KeptKeepsBatchInv, SpawnKeepsBatchInv, StageKeepsBatchInv
<1> QED
  BY <1>2, <1>3, <1>4, <1>5 DEF AttemptInv, BatchInv

(* Both invariants hold throughout. *)
THEOREM SafetyInvariant == Spec => [](TypeInv /\ AttemptInv)
<1>1. Init => TypeInv /\ AttemptInv
  BY InitTypeInv, InitAttemptInv
<1>2. TypeInv /\ AttemptInv /\ [Next]_vars => TypeInv' /\ AttemptInv'
  BY NextTypeInv, NextAttemptInv
<1> QED
  BY <1>1, <1>2, PTL DEF Spec

(* markFailedBatch and recoverStale, whoever calls them, count the retries *)
(* of an event to RetryLimit and no further.                               *)
THEOREM RetryBudgetHolds == Spec => []RetryBudget
<1>1. TypeInv /\ AttemptInv => RetryBudget
  BY DEF AttemptInv
<1> QED
  BY <1>1, SafetyInvariant, PTL

(* No row is PUBLISHED without a copy in Kafka. *)
THEOREM PublishedIsInKafkaHolds == Spec => []PublishedIsInKafka
<1>1. TypeInv /\ AttemptInv => PublishedIsInKafka
  BY DEF AttemptInv
<1> QED
  BY <1>1, SafetyInvariant, PTL

(* No attempt is held by two batches or sent twice. *)
THEOREM OneBatchPerAttemptHolds == Spec => []OneBatchPerAttempt
<1>1. TypeInv /\ AttemptInv => OneBatchPerAttempt
  BY DEF AttemptInv
<1> QED
  BY <1>1, SafetyInvariant, PTL

(* Every copy in Kafka is one of RetryLimit attempts at its event. *)
LEMMA CopiesBounded ==
  ASSUME TypeInv, AttemptInv, NEW copy, Known(copy)
  PROVE  copy[2] \in 0 .. (RetryLimit - 1) /\ copy[1] \in Events
  BY LimitsAssumption DEF TypeInv, TypeOK, AttemptInv, RetryBudget, Known

(* At-least-once delivery is bounded by RetryLimit copies per event. *)
THEOREM BoundedCopiesHolds == Spec => []BoundedCopies
<1>1. TypeInv /\ AttemptInv => BoundedCopies
  <2> SUFFICES ASSUME TypeInv, AttemptInv, NEW e \in Events
               PROVE  Cardinality({copy \in log : copy[1] = e}) <= RetryLimit
    BY DEF BoundedCopies
  <2> DEFINE C == {copy \in log : copy[1] = e}
             N == 0 .. (RetryLimit - 1)
             f == [n \in N |-> <<e, n>>]
             D == {<<e, n>> : n \in N}
  <2>1. C \subseteq D
    <3> SUFFICES ASSUME NEW copy \in C PROVE copy \in D
      OBVIOUS
    <3>1. copy \in Copies /\ Known(copy)
      BY DEF TypeInv, TypeOK, AttemptInv, AttemptsKnown
    <3>2. copy = <<copy[1], copy[2]>>
      BY <3>1 DEF Copies
    <3>3. copy[2] \in N /\ copy[1] = e
      BY <3>1, CopiesBounded
    <3> QED
      BY <3>2, <3>3
  <2>2. IsFiniteSet(N) /\ Cardinality(N) = RetryLimit
    BY FS_Interval, LimitsAssumption
  <2>3. f \in Surjection(N, D)
    <3>1. f \in [N -> D]
      OBVIOUS
    <3>2. \A t \in D : \E n \in N : f[n] = t
      OBVIOUS
    <3> QED
      BY <3>1, <3>2 DEF Surjection
  <2>4. IsFiniteSet(D) /\ Cardinality(D) <= RetryLimit
    BY <2>2, <2>3, FS_Surjection
  <2>5. Cardinality(C) <= Cardinality(D)
    BY <2>1, <2>4, FS_Subset
  <2>6. Cardinality(C) \in Nat /\ Cardinality(D) \in Nat
    BY <2>1, <2>4, FS_Subset, FS_CardinalityType
  <2> QED
    BY <2>4, <2>5, <2>6, LimitsAssumption
<1> QED
  BY <1>1, SafetyInvariant, PTL

(* PUBLISHED and FAILED rows are never touched again. *)
THEOREM FinalIsFinalHolds == Spec => FinalIsFinal
<1>1. TypeInv /\ AttemptInv /\ [Next]_vars
        => [\A e \in Events : status[e] \in Final => status'[e] = status[e]]_vars
  BY RowsMove DEF Moves, Stays, IsSaved, IsClaimed, IsPublished, IsFailed, Final
<1> QED
  BY <1>1, SafetyInvariant, PTL DEF Spec, FinalIsFinal

-----------------------------------------------------------------------------
(* Refinement.                                                             *)

(* A step of the relays is a step of OutboxDelivery or changes nothing it  *)
(* speaks of.                                                              *)
LEMMA StepRefines ==
  ASSUME TypeInv, AttemptInv, [Next]_vars
  PROVE  [Delivery!DeliveryNext]_(Delivery!fateVars)
<1> DEFINE F == [e \in Events |-> FateOf(e)]
<1>0. \A e \in Events : Moves(e)
  BY RowsMove
<1>1. ASSUME UNCHANGED <<status, log>> PROVE UNCHANGED Delivery!fateVars
  BY <1>1 DEF Delivery!fateVars, FateOf
<1>2. ASSUME NEW f \in Events, Save(f) PROVE Delivery!SaveEvent(f)
  BY <1>2 DEF Save, Delivery!SaveEvent, FateOf, TypeInv, TypeOK
<1>3. ASSUME NEW r \in Relays, NEW b \in batches[r], Publish(r, b) \/ PublishFails(r, b)
      PROVE  \E new \in SUBSET (Events \X (0 .. (RetryLimit - 1))) : Delivery!Deliver(new)
  <2>1. PICK new \in SUBSET b.items : log' = log \cup new
    BY <1>3 DEF Publish, PublishFails
  <2>2. b.stage = "publish" /\ UNCHANGED status
    BY <1>3 DEF Publish, PublishFails, db
  <2>3. new \cap log = {}
    BY <2>1, <2>2 DEF AttemptInv, OneBatchPerAttempt
  <2>4. \A copy \in new : copy \in Copies /\ Known(copy)
    BY BatchOf DEF Batch, AttemptInv, AttemptsKnown
  <2>5. \A copy \in new : copy \in Events \X (0 .. (RetryLimit - 1))
    BY <2>4, CopiesBounded DEF Copies
  <2>6. \A copy \in new : FateOf(copy[1]) # "absent" /\ copy[1] \in Events
    BY <2>4 DEF Known, FateOf
  <2>7. Delivery!Deliver(new)
    BY <2>1, <2>2, <2>3, <2>6 DEF Delivery!Deliver, FateOf
  <2> QED
    BY <2>5, <2>7
<1>4. ASSUME UNCHANGED log, \A e \in Events : Stays(e) \/ IsPublished(e)
      PROVE  Delivery!DeliveryNext
  <2> DEFINE S == {e \in Events : IsPublished(e)}
  <2>1. \A e \in S : FateOf(e) = "open" /\ \E n \in 0 .. (RetryLimit - 1) : <<e, n>> \in log
    <3> SUFFICES ASSUME NEW e \in S
                 PROVE  FateOf(e) = "open" /\ \E n \in 0 .. (RetryLimit - 1) : <<e, n>> \in log
      OBVIOUS
    <3>1. PICK copy \in log : copy[1] = e
      BY DEF IsPublished, EventsOf
    <3>2. copy \in Copies /\ Known(copy)
      BY <3>1 DEF TypeInv, TypeOK, AttemptInv, AttemptsKnown
    <3>3. copy = <<e, copy[2]>> /\ copy[2] \in 0 .. (RetryLimit - 1)
      BY <3>1, <3>2, CopiesBounded DEF Copies
    <3>4. FateOf(e) = "open"
      BY DEF IsPublished, FateOf
    <3> QED
      BY <3>1, <3>3, <3>4
  <2>2. [e \in Events |-> FateOf(e)]' = [e \in Events |-> IF e \in S THEN "published" ELSE F[e]]
    BY <1>4 DEF Stays, IsPublished, FateOf
  <2>3. Delivery!Decide(S, "published")
    BY <1>4, <2>1, <2>2 DEF Delivery!Decide
  <2> QED
    BY <2>3 DEF Delivery!DeliveryNext
<1>5. ASSUME UNCHANGED log, \A e \in Events : Stays(e) \/ IsFailed(e)
      PROVE  Delivery!DeliveryNext
  <2> DEFINE S == {e \in Events : IsFailed(e) /\ status'[e] = "FAILED"}
  <2>1. \A e \in S : FateOf(e) = "open"
    BY DEF IsFailed, FateOf
  <2>2. [e \in Events |-> FateOf(e)]' = [e \in Events |-> IF e \in S THEN "failed" ELSE F[e]]
    BY <1>5 DEF Stays, IsFailed, AfterFailure, FateOf
  <2>3. Delivery!Decide(S, "failed")
    BY <1>5, <2>1, <2>2 DEF Delivery!Decide
  <2> QED
    BY <2>3 DEF Delivery!DeliveryNext
<1>6. ASSUME UNCHANGED log, \A e \in Events : Stays(e) \/ IsClaimed(e)
      PROVE  UNCHANGED Delivery!fateVars
  BY <1>6 DEF Stays, IsClaimed, FateOf, Delivery!fateVars
<1>7. ASSUME NEW r \in Relays, CycleStep(r) PROVE [Delivery!DeliveryNext]_(Delivery!fateVars)
  <2>1. CASE RecoverStale(r)
    BY <1>5, <2>1, FailRowsMoves DEF RecoverStale
  <2>2. CASE SpawnBatch(r)
    BY <1>6, <2>2, ClaimMoves DEF SpawnBatch
  <2>3. CASE PollFails(r)
    <3>1. CASE ClaimRows(r)
      BY <1>6, <2>3, <3>1, ClaimMoves DEF PollFails
    <3> QED
      BY <1>1, <2>3, <3>1 DEF PollFails
  <2>4. CASE StartCycle(r) \/ RecoverStaleFails(r) \/ SelectRows(r) \/ EndCycle(r)
    BY <2>4, <1>1 DEF StartCycle, RecoverStaleFails, SelectRows, EndCycle, db
  <2> QED
    BY <1>7, <2>1, <2>2, <2>3, <2>4 DEF CycleStep
<1>8. ASSUME NEW r \in Relays, NEW b \in batches[r],
             MarkPublished(r, b) \/ MarkPublishedFails(r, b) \/ MarkFailed(r, b)
               \/ MarkFailedFails(r, b)
      PROVE  [Delivery!DeliveryNext]_(Delivery!fateVars)
  <2>1. CASE MarkPublished(r, b) \/ MarkPublishedFails(r, b)
    <3>1. UNCHANGED log /\ b.stage = "markPublished"
      BY <2>1 DEF MarkPublished, MarkPublishedFails
    <3>2. CASE MarkPublishedBatch(EventsOf(b.items))
      BY <1>4, <3>1, <3>2, MarkPublishedMoves
    <3> QED
      BY <1>1, <2>1, <3>1, <3>2 DEF MarkPublished, MarkPublishedFails
  <2>2. CASE MarkFailed(r, b) \/ MarkFailedFails(r, b)
    <3>1. UNCHANGED log
      BY <2>2 DEF MarkFailed, MarkFailedFails, Reject, EndProcess
    <3>2. \A e \in Events : Stays(e) \/ IsFailed(e)
      BY <2>2, MarkFailedMoves DEF MarkFailed, MarkFailedFails, AttemptInv, Stays
    <3> QED
      BY <1>5, <3>1, <3>2
  <2> QED
    BY <1>8, <2>1, <2>2
<1>9. ASSUME NEW r \in Relays, LifeStep(r) PROVE UNCHANGED Delivery!fateVars
  BY <1>9, <1>1 DEF LifeStep, Kill, Shutdown, FinishShutdown, Restart, EndProcess, db
<1>10. CASE UNCHANGED vars
  BY <1>1, <1>10 DEF vars
<1>11. ASSUME NEW e \in Events, Age(e) PROVE UNCHANGED Delivery!fateVars
  BY <1>1, <1>11 DEF Age
<1>12. ASSUME NEW f \in Events, Save(f) PROVE Delivery!DeliveryNext
  BY <1>2, <1>12 DEF Delivery!DeliveryNext
<1>13. ASSUME NEW r \in Relays, NEW b \in batches[r], Publish(r, b) \/ PublishFails(r, b)
       PROVE  Delivery!DeliveryNext
  BY <1>3, <1>13 DEF Delivery!DeliveryNext
<1> QED
  BY <1>7, <1>8, <1>9, <1>10, <1>11, <1>12, <1>13 DEF Next, BatchStep

(* The relay implements the promise of the transactional outbox.           *)
THEOREM ImplementsDeliveryHolds == Spec => ImplementsDelivery
<1>1. Init => Delivery!DeliveryInit
  BY DEF Init, Delivery!DeliveryInit, FateOf
<1>2. TypeInv /\ AttemptInv /\ [Next]_vars => [Delivery!DeliveryNext]_(Delivery!fateVars)
  BY StepRefines
<1> QED
  BY <1>1, <1>2, SafetyInvariant, PTL DEF Spec, ImplementsDelivery, Delivery!DeliverySpec

-----------------------------------------------------------------------------
(* Back-pressure.                                                          *)

(* BackPressure, with what a poll under way has reserved: the limit it     *)
(* computed before its await, and the rows it has locked since.            *)
CapacityInv ==
  \A r \in Relays :
    /\ activeInFlight[r] = Cardinality(InFlight(r))
    /\ activeInFlight[r] <= MaxInFlight
    /\ pc[r] \in {"polling", "claiming"} => activeInFlight[r] + batchLimit[r] <= MaxInFlight
    /\ pc[r] = "claiming" => Cardinality(locked[r]) <= batchLimit[r]

(* A relay starts with nothing in flight. *)
LEMMA InitCapacityInv == Init => CapacityInv
<1> SUFFICES ASSUME Init PROVE CapacityInv
  OBVIOUS
<1>1. \A r \in Relays : Cardinality(InFlight(r)) = 0
  BY ItemsOfAdd, FS_EmptySet DEF Init, InFlight
<1> QED
  BY <1>1, LimitsAssumption DEF Init, CapacityInv

(* Dropping a batch drops its events from the count, and only them.        *)
LEMMA SettledCount ==
  ASSUME TypeInv, OneBatchPerAttempt, NEW r \in Relays, NEW b \in batches[r]
  PROVE  /\ Cardinality(ItemsOf(batches[r] \ {b})) \in Nat
         /\ Cardinality(ItemsOf(batches[r] \ {b})) = Cardinality(InFlight(r)) - Cardinality(b.items)
<1> DEFINE R == ItemsOf(batches[r] \ {b})
<1>1. R \cup b.items = ItemsOf(batches[r]) /\ R \cap b.items = {}
  <2>1. \A copy : copy \in ItemsOf(batches[r]) <=> \E c \in batches[r] : copy \in c.items
    BY DEF ItemsOf
  <2>2. \A copy : copy \in R <=> \E c \in batches[r] \ {b} : copy \in c.items
    BY DEF ItemsOf
  <2>3. \A c \in batches[r] \ {b} : c.items \cap b.items = {}
    BY DEF OneBatchPerAttempt
  <2> HIDE DEF R
  <2> QED
    BY <2>1, <2>2, <2>3
<1>2. IsFiniteSet(ItemsOf(batches[r]))
  BY DEF TypeInv, FiniteInFlight, InFlight
<1> HIDE DEF R
<1>3. IsFiniteSet(R) /\ IsFiniteSet(b.items)
  BY <1>1, <1>2, FS_Subset
<1>4. Cardinality(R \cup b.items) = Cardinality(R) + Cardinality(b.items) - Cardinality(R \cap b.items)
  BY <1>3, FS_Union
<1>5. Cardinality(R \cap b.items) = 0
  BY <1>1, FS_EmptySet
<1>6. Cardinality(R) \in Nat /\ Cardinality(b.items) \in Nat
  BY <1>3, FS_CardinalityType
<1>7. Cardinality(R \cup b.items) = Cardinality(R) + Cardinality(b.items)
  BY <1>4, <1>5, <1>6
<1>8. Cardinality(R) = Cardinality(R \cup b.items) - Cardinality(b.items)
  BY <1>6, <1>7
<1>9. Cardinality(R) = Cardinality(InFlight(r)) - Cardinality(b.items)
  BY <1>1, <1>8 DEF InFlight
<1> QED
  BY <1>6, <1>9 DEF R

(* A spawned batch adds its events to the count. *)
LEMMA SpawnedCount ==
  ASSUME TypeInv, AttemptInv, NEW r \in Relays
  PROVE  Cardinality(ItemsOf(batches[r] \cup {NewBatch(r)}))
           = Cardinality(InFlight(r)) + Cardinality(locked[r])
<1> DEFINE new == NewBatch(r)
<1>1. \A copy \in new.items : ~Known(copy)
  BY ClaimIsFresh
<1>2. \A copy \in ItemsOf(batches[r]) : Known(copy)
  <2>1. \A copy \in ItemsOf(batches[r]) : \E b \in batches[r] : copy \in b.items
    BY DEF ItemsOf
  <2> QED
    BY <2>1 DEF AttemptInv, AttemptsKnown
<1>3. IsFiniteSet(new.items) /\ Cardinality(new.items) = Cardinality(locked[r])
  BY NewBatchOK
<1>4. ItemsOf(batches[r] \cup {new}) = ItemsOf(batches[r]) \cup new.items
  BY ItemsOfAdd
<1>5. IsFiniteSet(ItemsOf(batches[r]))
  BY DEF TypeInv, FiniteInFlight, InFlight
<1> HIDE DEF new
<1>6. Cardinality(ItemsOf(batches[r]) \cup new.items)
        = Cardinality(ItemsOf(batches[r])) + Cardinality(new.items)
            - Cardinality(ItemsOf(batches[r]) \cap new.items)
  BY <1>3, <1>5, FS_Union
<1>7. Cardinality(ItemsOf(batches[r]) \cap new.items) = 0
  <2>1. ItemsOf(batches[r]) \cap new.items = {}
    BY <1>1, <1>2
  <2> QED
    BY <2>1, FS_EmptySet
<1>8. Cardinality(ItemsOf(batches[r])) \in Nat /\ Cardinality(new.items) \in Nat
  BY <1>3, <1>5, FS_CardinalityType
<1>9. Cardinality(ItemsOf(batches[r]) \cup new.items)
        = Cardinality(ItemsOf(batches[r])) + Cardinality(new.items)
  BY <1>6, <1>7, <1>8
<1>10. Cardinality(ItemsOf(batches[r] \cup {new}))
         = Cardinality(ItemsOf(batches[r])) + Cardinality(new.items)
  BY <1>4, <1>9
<1> QED
  BY <1>3, <1>10 DEF new, InFlight

(* The capacity of a relay, other relays' steps aside. *)
CapacityOf(r) ==
  /\ activeInFlight[r] = Cardinality(InFlight(r))
  /\ activeInFlight[r] <= MaxInFlight
  /\ pc[r] \in {"polling", "claiming"} => activeInFlight[r] + batchLimit[r] <= MaxInFlight
  /\ pc[r] = "claiming" => Cardinality(locked[r]) <= batchLimit[r]

(* The count of events in flight stays exact, and the room that a poll was *)
(* given is still there when its rows come back.                           *)
LEMMA NextCapacityInv ==
  ASSUME TypeInv, AttemptInv, CapacityInv, [Next]_vars
  PROVE  CapacityInv'
<1> USE LimitsAssumption
<1>t. /\ activeInFlight \in [Relays -> Int]
      /\ batchLimit \in [Relays -> Nat]
      /\ batchesSpawned \in [Relays -> Nat]
      /\ pc \in [Relays -> PC]
      /\ batches \in [Relays -> SUBSET Batch]
      /\ locked \in [Relays -> SUBSET Events]
  BY DEF TypeInv, TypeOK
<1>0. ASSUME NEW r \in Relays,
             \A q \in Relays : q # r => /\ activeInFlight'[q] = activeInFlight[q]
                                        /\ batches'[q] = batches[q]
                                        /\ pc'[q] = pc[q]
                                        /\ batchLimit'[q] = batchLimit[q]
                                        /\ locked'[q] = locked[q],
             CapacityOf(r)'
      PROVE  CapacityInv'
  BY <1>0 DEF CapacityInv, CapacityOf, InFlight
<1>1. ASSUME UNCHANGED <<activeInFlight, batches, pc, batchLimit, locked>> PROVE CapacityInv'
  BY <1>1 DEF CapacityInv, InFlight
<1>2. ASSUME NEW r \in Relays, LeaveLoop(r), UNCHANGED <<activeInFlight, batches>>,
             locked' = locked \/ \E S : locked' = [locked EXCEPT ![r] = S]
      PROVE  CapacityInv'
  <2>1. CapacityOf(r)'
    BY <1>2, <1>t DEF LeaveLoop, Goto, CapacityInv, CapacityOf, InFlight
  <2> QED
    BY <1>0, <1>2, <1>t, <2>1 DEF LeaveLoop, Goto
<1>3. ASSUME NEW r \in Relays, LoopHead(r, 0, activeInFlight[r]),
             UNCHANGED <<activeInFlight, batches, locked>>
      PROVE  CapacityInv'
  <2>1. CASE LeaveLoop(r)
    BY <1>2, <1>3, <2>1
  <2>2. CASE ~LeaveLoop(r)
    <3>1. CapacityOf(r)'
      BY <1>3, <1>t, <2>2 DEF LoopHead, Goto, Min2, CapacityInv, CapacityOf, InFlight
    <3> QED
      BY <1>0, <1>3, <1>t, <2>2, <3>1 DEF LoopHead, Goto
  <2> QED
    BY <2>1, <2>2
<1>4. ASSUME NEW r \in Relays, NEW how \in Down, EndProcess(r, how) PROVE CapacityInv'
  <2>1. InFlight(r)' = {}
    BY <1>4, <1>t, ItemsOfAdd DEF EndProcess, InFlight
  <2>2. CapacityOf(r)'
    BY <1>4, <1>t, <2>1, FS_EmptySet DEF EndProcess, Goto, Down, CapacityOf
  <2> QED
    BY <1>0, <1>4, <1>t, <2>2 DEF EndProcess, Goto
<1>5. ASSUME NEW r \in Relays, CycleStep(r) PROVE CapacityInv'
  <2>1. CASE StartCycle(r) \/ EndCycle(r)
    <3>1. CapacityOf(r)'
      BY <1>t, <2>1 DEF StartCycle, EndCycle, Goto, CapacityInv, CapacityOf, InFlight, db
    <3> QED
      BY <1>0, <1>t, <2>1, <3>1 DEF StartCycle, EndCycle, Goto, db
  <2>2. CASE RecoverStale(r) \/ RecoverStaleFails(r)
    BY <1>3, <2>2 DEF RecoverStale, RecoverStaleFails, db
  <2>3. CASE SelectRows(r)
    <3>1. CASE LeaveLoop(r)
      BY <1>2, <2>3, <3>1 DEF SelectRows
    <3>2. CASE ~LeaveLoop(r)
      <4>1. CapacityOf(r)'
        BY <1>t, <2>3, <3>2 DEF SelectRows, IsOldest, Goto, CapacityInv, CapacityOf, InFlight
      <4> QED
        BY <1>0, <1>t, <2>3, <3>2, <4>1 DEF SelectRows, Goto
    <3> QED
      BY <3>1, <3>2
  <2>4. CASE SpawnBatch(r)
    <3>1. /\ activeInFlight[r] + Cardinality(locked[r]) <= MaxInFlight
          /\ Cardinality(locked[r]) \in Nat
      BY <1>t, <2>4, NewBatchOK DEF SpawnBatch, CapacityInv
    <3>2. /\ activeInFlight'[r] = activeInFlight[r] + Cardinality(locked[r])
          /\ Cardinality(InFlight(r)') = activeInFlight'[r]
      BY <1>t, <2>4, SpawnedCount DEF SpawnBatch, CapacityInv, InFlight
    <3>3. \/ pc'[r] = "awaiting"
          \/ pc'[r] = "polling" /\ batchLimit'[r] <= MaxInFlight - activeInFlight'[r]
      BY <1>t, <2>4, <3>1, <3>2 DEF SpawnBatch, LeaveLoop, LoopHead, Goto, Min2
    <3>4. CapacityOf(r)'
      BY <1>t, <3>1, <3>2, <3>3, NextTypeInv DEF CapacityOf, TypeInv, TypeOK
    <3> QED
      BY <1>0, <1>t, <2>4, <3>4 DEF SpawnBatch, ClaimRows, LeaveLoop, LoopHead, Goto
  <2>5. CASE PollFails(r)
    BY <1>2, <2>5 DEF PollFails, ClaimRows
  <2> QED
    BY <1>5, <2>1, <2>2, <2>3, <2>4, <2>5 DEF CycleStep
<1>6. ASSUME NEW r \in Relays, NEW b \in batches[r], NEW s \in Stage, SetStage(r, b, s),
             UNCHANGED <<activeInFlight, pc, batchLimit, locked>>
      PROVE  CapacityInv'
  <2>1. PICK c : /\ batches'[r] = (batches[r] \ {b}) \cup {c}
                 /\ \A q \in Relays : q # r => batches'[q] = batches[q]
                 /\ c.items = b.items
    BY <1>6, StagedBatch
  <2>2. ItemsOf(batches'[r]) = ItemsOf(batches[r])
    BY <2>1 DEF ItemsOf
  <2> QED
    BY <1>0, <1>6, <2>1, <2>2 DEF CapacityInv, CapacityOf, InFlight
<1>7. ASSUME NEW r \in Relays, NEW b \in batches[r], NEW X, Settle(r, b),
             batches' = [batches EXCEPT ![r] = X], ItemsOf(X) = ItemsOf(batches[r] \ {b}),
             UNCHANGED <<batchLimit, locked>>,
             pc' = pc \/ pc' = [pc EXCEPT ![r] = "idle"]
      PROVE  CapacityInv'
  <2>1. /\ Cardinality(InFlight(r)') = Cardinality(InFlight(r)) - Cardinality(b.items)
        /\ Cardinality(InFlight(r)') \in Nat
    BY <1>7, <1>t, SettledCount DEF AttemptInv, InFlight
  <2>2. Cardinality(b.items) \in Nat /\ activeInFlight'[r] = activeInFlight[r] - Cardinality(b.items)
    BY <1>7, <1>t, BatchOf DEF Settle
  <2>3. CapacityOf(r)'
    BY <1>7, <1>t, <2>1, <2>2 DEF CapacityInv, CapacityOf
  <2> QED
    BY <1>0, <1>7, <1>t, <2>3 DEF Settle
<1>8. ASSUME NEW r \in Relays, NEW b \in batches[r],
             \/ Publish(r, b) \/ PublishFails(r, b)
             \/ MarkPublished(r, b) \/ MarkPublishedFails(r, b)
             \/ MarkFailed(r, b) \/ MarkFailedFails(r, b)
      PROVE  CapacityInv'
  <2>1. CASE Publish(r, b) \/ PublishFails(r, b) \/ MarkPublishedFails(r, b)
    BY <1>6, <2>1 DEF Publish, PublishFails, MarkPublishedFails, Stage, db, cycle
  <2>2. CASE MarkPublished(r, b)
    <3> DEFINE X == batches[r] \ {b}
    <3>1. batches' = [batches EXCEPT ![r] = X] /\ ItemsOf(X) = ItemsOf(batches[r] \ {b})
      BY <2>2 DEF MarkPublished
    <3> HIDE DEF X
    <3> QED
      BY <1>7, <2>2, <3>1 DEF MarkPublished, cycle
  <2>3. CASE MarkFailed(r, b) \/ MarkFailedFails(r, b)
    <3>1. Reject(r, b)
      BY <2>3 DEF MarkFailed, MarkFailedFails
    <3>2. CASE EndProcess(r, "exited")
      BY <1>4, <3>2 DEF Down
    <3>3. CASE ~EndProcess(r, "exited")
      <4>1. PICK X : batches' = [batches EXCEPT ![r] = X] /\ Reflagged(batches[r] \ {b}, X)
        BY <3>1, <3>3, RejectReflags
      <4>2. ItemsOf(X) = ItemsOf(batches[r] \ {b})
        BY <4>1, ReflaggedSame
      <4>3. /\ Settle(r, b)
            /\ UNCHANGED <<batchLimit, locked>>
            /\ pc' = pc \/ pc' = [pc EXCEPT ![r] = "idle"]
        BY <1>t, <3>1, <3>3 DEF Reject, Goto
      <4> QED
        BY <1>7, <4>1, <4>2, <4>3
    <3> QED
      BY <3>2, <3>3
  <2> QED
    BY <1>8, <2>1, <2>2, <2>3
<1>9. ASSUME NEW r \in Relays, LifeStep(r) PROVE CapacityInv'
  <2>1. CASE Kill(r) \/ FinishShutdown(r)
    BY <1>4, <2>1 DEF Kill, FinishShutdown, Down
  <2>2. CASE Shutdown(r)
    <3> DEFINE X == {[c EXCEPT !.inDrain = TRUE] : c \in batches[r]}
    <3>1. batches' = [batches EXCEPT ![r] = X]
      BY <2>2 DEF Shutdown
    <3>2. Reflagged(batches[r], X)
      BY <1>t, ReflaggedBy
    <3> HIDE DEF X
    <3>3. ItemsOf(X) = ItemsOf(batches[r])
      BY <3>2, ReflaggedSame
    <3>4. \A q \in Relays : InFlight(q)' = InFlight(q)
      BY <1>t, <3>1, <3>3 DEF InFlight
    <3> QED
      BY <2>2, <3>4 DEF Shutdown, CapacityInv, db, cycle
  <2>3. CASE Restart(r)
    <3>1. CapacityOf(r)'
      BY <1>t, <2>3 DEF Restart, Goto, CapacityInv, CapacityOf, InFlight, db
    <3> QED
      BY <1>0, <1>t, <2>3, <3>1 DEF Restart, Goto, db
  <2> QED
    BY <1>9, <2>1, <2>2, <2>3 DEF LifeStep
<1>10. CASE UNCHANGED vars
  BY <1>1, <1>10 DEF vars
<1>11. ASSUME NEW e \in Events, Save(e) \/ Age(e) PROVE CapacityInv'
  BY <1>1, <1>11 DEF Save, Age, cycle
<1> QED
  BY <1>5, <1>8, <1>9, <1>10, <1>11 DEF Next, BatchStep

(* activeInFlight is exact and never above maxInFlightMessages, although   *)
(* the poll that fills the capacity awaits the database in between.        *)
THEOREM BackPressureHolds == Spec => []BackPressure
<1>1. Init => CapacityInv
  BY InitCapacityInv
<1>2. TypeInv /\ AttemptInv /\ CapacityInv /\ [Next]_vars => CapacityInv'
  BY NextCapacityInv
<1>3. CapacityInv => BackPressure
  BY DEF CapacityInv, BackPressure
<1> QED
  BY <1>1, <1>2, <1>3, SafetyInvariant, PTL DEF Spec

=============================================================================
