SPECIFICATION Spec
CONSTANTS
  q1 = q1
  q2 = q2
  q3 = q3
  q4 = q4
  same = same
  Requests = {q1, q2, q3, q4}
  IdOf <- RepeatedIds
  Limit = 2
  WindowSeconds = 2
  TicksPerSecond = 2
  MaxTime = 7
  MaxFaults = 1
SYMMETRY Symmetry
CHECK_DEADLOCK FALSE
INVARIANTS
  WindowRespected
  RetryAfterIsEnough
