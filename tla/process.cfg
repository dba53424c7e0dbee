SPECIFICATION FairSpec
CONSTANTS
  Services = {"gateway", "order-service", "outbox-relay"}
  Settings = {"PORT", "KAFKA_CONSUMER_RETRY_LIMIT", "RATE_LIMIT_DEFAULT_LIMIT"}
  RawValues <- SmallRaws
  MaxRequests = 1
  MaxSignals = 1
  MaxOutages = 1
INVARIANTS
  UsableSettings
  UpAndReachable
PROPERTY
  AllUp
