--------------------------- MODULE OutboxDelivery ---------------------------
(***************************************************************************)
(* What the transactional outbox promises, without processes, claims or    *)
(* timers.  An event is saved once.  While Attempts last, copies of it may *)
(* reach Kafka, each attempt at most once.  An event is reported published *)
(* only when a copy is in Kafka, given up only from the open state, and    *)
(* neither verdict is taken back.  A copy may still arrive after a         *)
(* verdict: a slow relay is not stopped by another one's report.           *)
(***************************************************************************)
EXTENDS Naturals

CONSTANTS Events, Attempts

VARIABLES
  fate,    \* "absent", "open", "published" or "failed", by event
  copies   \* pairs <<event, attempt>> that Kafka accepted

fateVars == <<fate, copies>>

DeliveryInit ==
  /\ fate = [e \in Events |-> "absent"]
  /\ copies = {}

SaveEvent(e) ==
  /\ fate[e] = "absent"
  /\ fate' = [fate EXCEPT ![e] = "open"]
  /\ UNCHANGED copies

Deliver(new) ==
  /\ new \cap copies = {}
  /\ \A copy \in new : fate[copy[1]] # "absent"
  /\ copies' = copies \cup new
  /\ UNCHANGED fate

Decide(S, verdict) ==
  /\ \A e \in S : fate[e] = "open"
  /\ verdict = "published" => \A e \in S : \E n \in Attempts : <<e, n>> \in copies
  /\ fate' = [e \in Events |-> IF e \in S THEN verdict ELSE fate[e]]
  /\ UNCHANGED copies

DeliveryNext ==
  \/ \E e \in Events : SaveEvent(e)
  \/ \E new \in SUBSET (Events \X Attempts) : Deliver(new)
  \/ \E S \in SUBSET Events, verdict \in {"published", "failed"} : Decide(S, verdict)

DeliverySpec == DeliveryInit /\ [][DeliveryNext]_fateVars

=============================================================================
