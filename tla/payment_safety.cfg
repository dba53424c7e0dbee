SPECIFICATION Spec
CONSTANTS
  r1 = r1
  r2 = r2
  r3 = r3
  r4 = r4
  k1 = k1
  k2 = k2
  h1 = h1
  h2 = h2
  ref1 = ref1
  ref2 = ref2
  None = None
  Requests = {r1, r2, r3, r4}
  Keys = {k1, k2}
  Hashes = {h1, h2}
  References = {ref1, ref2}
  KeyOf <- MCKeyOf
  HashOf <- MCHashOf
  ReferenceOf <- MCReferenceOf
  MaxFaults = 1
  MaxExpiries = 1
SYMMETRY Symmetry
CHECK_DEADLOCK FALSE
INVARIANTS
  CacheIsTrue
  AnswersAreTrue
  OneInHandler
PROPERTIES
  PaymentsStay
  AcceptedOnce
  LockIsOwned
