SPECIFICATION Spec
CONSTANTS
  r1 = r1
  r2 = r2
  m1 = m1
  m2 = m2
  x1 = x1
  Absent = Absent
  Empty = Empty
  NotAvailable = NotAvailable
  Requests = {r1, r2}
  Ids = {x1}
  Merchants = {m1, m2}
  MerchantOf <- OwnMerchants
CHECK_DEADLOCK FALSE
INVARIANTS
  PaidByKeyOwner
  OneCorrelation
