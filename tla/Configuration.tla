---------------------------- MODULE Configuration ----------------------------
(***************************************************************************)
(* packages/config and the gateway's gateway-config.schema.ts: what the    *)
(* zod schemas accept of an environment, and what the factories that the   *)
(* services read make of it.  Schema and factory parse the same variable   *)
(* on their own.  A raw value is absent, an empty string, some other text, *)
(* or the text of an integer.  Only numbers are here: texts and URLs, and  *)
(* numbers without a default, are as in .env.example.                      *)
(***************************************************************************)
EXTENDS Integers

Absent == [form |-> "absent", n |-> 0]
EmptyText == [form |-> "empty", n |-> 0]
Word == [form |-> "word", n |-> 0]
Digits(i) == [form |-> "digits", n |-> i]

Raw == [form : {"absent", "empty", "word", "digits"}, n : Int]

(* `val ? ... : ...` *)
Given(raw) == raw.form \in {"word", "digits"}

(* parseInt; Word stands for NaN. *)
ParseInt(raw) == IF raw.form = "digits" THEN raw ELSE Word

(* int().positive().default(...), schema by schema, with the defaults.     *)
HttpSchema == [PORT |-> 3000]

DatabaseSchema ==
  [DATABASE_POOL_SIZE       |-> 10,
   DATABASE_CONNECT_TIMEOUT |-> 5000,
   DATABASE_IDLE_TIMEOUT    |-> 30000]

OutboxSchema ==
  [OUTBOX_POLLING_INTERVAL       |-> 500,
   OUTBOX_BATCH_SIZE             |-> 100,
   OUTBOX_RETRY_LIMIT            |-> 3,
   OUTBOX_PUBLISH_TIMEOUT        |-> 5000,
   OUTBOX_RETENTION_DAYS         |-> 7,
   OUTBOX_STALE_TIMEOUT          |-> 300000,
   OUTBOX_MAX_IN_FLIGHT_MESSAGES |-> 1000,
   OUTBOX_FLUSH_INTERVAL         |-> 100]

ServicesSchema == [INTERNAL_REQUEST_TIMEOUT |-> 2000]

PositiveSchemas == {HttpSchema, DatabaseSchema, OutboxSchema, ServicesSchema}

(* int().nonnegative().default(...), in services.schema.ts too. *)
RetrySchema == [INTERNAL_REQUEST_RETRIES |-> 3, INTERNAL_REQUEST_RETRY_DELAY |-> 100]

(* z.number(), and no preprocessing that takes empty for absent. *)
KafkaSchema == [KAFKA_CONSUMER_RETRY_LIMIT |-> 3]

(* int().positive().default(...) *)
GatewaySchema ==
  [MERCHANT_SERVICE_TIMEOUT    |-> 5000,
   IDEMPOTENCY_SERVICE_TIMEOUT |-> 5000,
   PAYMENT_SERVICE_TIMEOUT     |-> 5000,
   RATE_LIMIT_WINDOW_SECONDS   |-> 60,
   RATE_LIMIT_DEFAULT_LIMIT    |-> 100]

-----------------------------------------------------------------------------
(* Mutant: zero passes. *)
IsPositiveOrZero(raw) == Given(raw) => ParseInt(raw).form = "digits" /\ raw.n >= 0

IsPositive(raw) == Given(raw) => ParseInt(raw).form = "digits" /\ raw.n > 0

IsNonNegative(raw) == Given(raw) => ParseInt(raw).form = "digits" /\ raw.n >= 0

IsNumber(raw) == raw # Absent => ParseInt(raw).form = "digits"

(* validation.ts: every service; env gives raw values to some variables,   *)
(* the others are as in .env.example and pass.                             *)
Validates(env) ==
  \A v \in DOMAIN env :
    /\ \A schema \in PositiveSchemas : v \in DOMAIN schema => IsPositive(env[v])
    /\ v \in DOMAIN RetrySchema => IsNonNegative(env[v])
    /\ v \in DOMAIN KafkaSchema => IsNumber(env[v])

(* getGatewayConfig: the gateway, after ConfigModule. *)
GatewayValidates(env) ==
  \A v \in DOMAIN env \cap DOMAIN GatewaySchema : IsPositive(env[v])

(* The factories: process.env.X ? parseInt(process.env.X, 10) : default.   *)
Loaded(raw, default) == IF Given(raw) THEN ParseInt(raw) ELSE Digits(default)

=============================================================================
