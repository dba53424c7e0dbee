SPECIFICATION FairSpec
CONSTANTS
  r1 = r1
  r2 = r2
  Relays = {r1, r2}
  Events = {1, 2}
  Poison = {2}
  RetryLimit = 2
  BatchSize = 2
  MaxInFlight = 3
  MaxBatchesPerCycle = 2
  MaxFaults = 1
INVARIANTS
  TypeOK
  RetryBudget
  PublishedIsInKafka
  BackPressure
  OneBatchPerAttempt
  BoundedCopies
PROPERTIES
  FinalIsFinal
  EventuallySettled
  ImplementsDelivery
