SPECIFICATION Spec
CONSTANTS
  w1 = w1
  w2 = w2
  p1 = p1
  p2 = p2
  e1 = e1
  e2 = e2
  Tombstone = Tombstone
  Malformed = Malformed
  None = None
  Workers = {w1, w2}
  Partitions = {p1, p2}
  Events = {e1, e2}
  Published <- Blocked
  ReplayPartition <- OtherPartition
  Replayable = {e1}
  RetryLimit = 1
  MaxRebalances = 1
  MaxFaults = 1
SYMMETRY Symmetry
CHECK_DEADLOCK FALSE
INVARIANTS
  TypeOK
  OneHandler
  NothingSkipped
  RepeatNeedsSetback
  RetriesThenDlq
PROPERTY
  SettledIsFinal
