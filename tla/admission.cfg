SPECIFICATION Spec
CONSTANTS
  r1 = r1
  r2 = r2
  k1 = k1
  m1 = m1
  m2 = m2
  ref = ref
  None = None
  Requests = {r1, r2}
  ApiKeys = {k1}
  Merchants = {m1, m2}
  KeyMerchant <- MCKeyMerchant
  ApiKeyOf <- MCApiKeyOf
  OrderRefs = {ref}
  RefOf <- MCRefOf
  Currencies = {"USD", "usd", "EUR"}
  Upper <- MCUpper
  Bodies <- MCBodies
  OrderBodies <- MCOrderBodies
  PaymentCurrencies = {"USD", "EUR"}
  SupportedCurrencies = {"USD"}
  MaxAmountThreshold = 500
  BlacklistedMerchants = {m2}
  MovedSlots <- MCMovedSlots
  MaxRetries = 1
  MaxFaults = 2
CHECK_DEADLOCK FALSE
SYMMETRY Symmetry
INVARIANTS
  PaymentIsVouchedFor
  RetriesAbsorb
PROPERTIES
  OrdersArePrivate
  ImplementsPaymentService
