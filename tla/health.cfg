SPECIFICATION FairSpec
CONSTANTS
  k1 = k1
  k2 = k2
  c1 = c1
  c2 = c2
  Quit = Quit
  None = None
  Services = {"merchant-service", "idempotency-service"}
  Checks = {k1, k2}
  Clients = {c1, c2}
  DatabaseConfigured = TRUE
INVARIANTS
  NoClientLeaks
  UpWasSeen
PROPERTY
  ReadyAgain
