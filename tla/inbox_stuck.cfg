SPECIFICATION FairSpec
CONSTANTS
  w1 = w1
  w2 = w2
  p1 = p1
  p2 = p2
  e1 = e1
  e2 = e2
  Tombstone = Tombstone
  Malformed = Malformed
  None = None
  Workers = {w1, w2}
  Partitions = {p1, p2}
  Events = {e1, e2}
  Published <- Readable
  ReplayPartition <- OtherPartition
  Replayable = {e1}
  RetryLimit = 1
  MaxRebalances = 0
  MaxFaults = 1
CHECK_DEADLOCK FALSE
PROPERTY
  EventuallyHandled
