--------------------------- MODULE MCInboxConsumer ---------------------------
(* Small instances of InboxConsumer for TLC. *)
EXTENDS InboxConsumer, TLC

CONSTANTS w1, w2, p1, p2, e1, e2

Symmetry == Permutations(Workers)

(* The relay published e1 twice, with a tombstone between the copies. *)
Readable == [p \in Partitions |-> IF p = p1 THEN <<e1, Tombstone, e1>> ELSE <<e2>>]

(* A message that cannot be read blocks the end of the other partition. *)
Blocked == [Readable EXCEPT ![p2] = Append(@, Malformed)]

(* Replays use the event id as key and land in the other partition. *)
OtherPartition == [e \in Events |-> IF e = e1 THEN p2 ELSE p1]

=============================================================================
