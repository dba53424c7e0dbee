SPECIFICATION BodySpec
CONSTANTS
  r1 = r1
  r2 = r2
  r3 = r3
  None = None
  Attempts = {r1, r2}
  Keys <- SmallKeys
  Required = {"amount", "currency", "orderId", "paymentMethod"}
  Optional = {"customerId"}
  Bodies <- SmallBodies
  Currencies = {"USD"}
  Valid <- SmallValid
SYMMETRY Symmetry
CHECK_DEADLOCK FALSE
INVARIANTS
  RetryIsRecognised
  ReplayIsOwnPayment
