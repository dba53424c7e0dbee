# SurgePay: TLA+ models, checks and proofs

SurgePay is a set of NestJS services behind an API gateway. A merchant posts a
payment; the gateway authenticates it, limits its rate and makes it idempotent;
the payment service validates it with the order and fraud services and stores
it with an outbox event; a relay publishes the event to Kafka; consumers read
it at least once and deduplicate it by an inbox table. This directory models
those parts in TLA+, model-checks them with TLC and proves theorems about them
with TLAPS. Paths below are relative to `src/`.

## The system

| part | state | operations | asks / is asked by |
|---|---|---|---|
| gateway authentication (`apps/gateway/src/auth`) | none | `AuthMiddleware.use`, `validateApiKey` with retries | merchant service |
| gateway rate limiter (`apps/gateway/src/rate-limit`) | a Redis sorted set per merchant | one Lua script per request | Redis |
| gateway payment route (`apps/gateway/src/idempotency`, `controllers`, `services`) | the request being served | `IdempotencyInterceptor.intercept`, proxy | idempotency service, payment service |
| idempotency service | a Redis record per key (owner, hash, status, response), with a TTL | `check`, `complete`, `cleanup` | Redis |
| merchant service | API keys, merchants | `validateMerchantApiKey` | gateway |
| payment service | `Payment`, `OutboxEvent` | `createPayment`, `getPayment` | order service, fraud service, PostgreSQL |
| order service | `Order` | `validateOrder`, `createOrder`, transitions | payment service |
| fraud service | none | `runPrecheck` | payment service |
| outbox relay (`apps/outbox-relay`) | `OutboxEvent` rows; in memory: the cycle, open batches, in-flight counter | scheduler, `processBatch`, `runPublish`, stale recovery, shutdown | PostgreSQL, Kafka |
| inbox consumer (`packages/common/src/messaging`) | `InboxEvent` rows, committed offsets, dead letter topic | `eachMessage`, `prepareForReplay`, `DeadLetterReplayer.replay` | PostgreSQL, Kafka |
| HTTP client (`packages/common/http`) | its agents | timeout, retry of GET, translation of failures, propagated headers | every service call |
| Kafka producer (`packages/common/src/messaging/producer.ts`, relay's `publisher.ts`) | its connection, two counters | `publish`, `publishBatch` | outbox relay, inbox consumer, Kafka |
| request hash and validation (`request-hash.service.ts`, DTOs, proxy) | none | `generate`, two validation pipes, the rewrite in between | gateway, idempotency service, payment service |
| request context (`packages/common/src/logger`) | an `AsyncLocalStorage` store per request | `LoggingMiddleware.use`, `propagateHeaders` | every service, outbox rows, Kafka headers |
| health checks (`packages/common/src/health`) | the Redis indicator's client | `checkReadiness`, `isHealthy`, `cleanupClient` | PostgreSQL, Redis, orchestrator |
| configuration (`packages/config`) | the environment | schemas, factories | every service |
| service processes (`main.ts`, modules) | connections, agents, the port | `bootstrap`, `onModuleInit`, `onModuleDestroy`, signals | operating system, NestJS |

Services interact by HTTP (with timeouts after which the callee goes on), by
rows of a database (relays race with `FOR UPDATE SKIP LOCKED`, consumers with a
conditional update), by Lua scripts in Redis and by Kafka.

What is hard in this code, and what the properties are about:

* calls whose effect happened and whose answer was lost (claim, publish, mark,
  check, commit, transaction), and commands that ioredis then sends again;
* processes that are slow and taken for dead: stale recovery, rebalances,
  proxy timeouts and expired locks leave two actors with the same work;
* decisions on values read before an await: the in-flight counter, the inbox
  row, the duplicate reference, the order, the API key, the time of the rate
  limiter;
* kills between any two steps, and shutdown while a cycle goes on;
* budgets at their limit: retries, copies in Kafka, in-flight messages,
  requests per window;
* one resource shared by overlapping work: the Redis client of the health
  checks, the agents and producers that shutdown closes;
* the same value read twice in different ways: the body as hashed and as
  validated, a setting as validated and as loaded.

`PROJECT.json` lists these hazards at their lines, with the properties that
would catch each.

## Modules

| module | models | extends / used by |
|---|---|---|
| `OutboxDelivery` | the promise of the outbox: what may happen to an event and its copies in Kafka | implemented by `OutboxRelay` |
| `OutboxRelay` | relays, outbox table, Kafka | `MCOutboxRelay`, `OutboxRelayProofs` |
| `InboxConsumer` | consumer group, inbox table, dead letters, operator replays | `MCInboxConsumer`, `InboxConsumerProofs` |
| `ClientRequests` | the requests shared by the modules below | |
| `IdempotencyService` | Redis records and `check`, command by command | `PaymentGateway` |
| `PaymentService` | `createPayment` as its callers see it | `PaymentGateway`; implemented by `PaymentAdmission` |
| `PaymentGateway` | interceptor and proxy, composed with both services | `MCPaymentGateway`, `PaymentGatewayProofs` |
| `RateLimiter` | sliding window script, clock, Retry-After | `MCRateLimiter`, `RateLimiterProofs` |
| `MerchantService`, `OrderService`, `FraudService` | what the three services keep and decide | `PaymentAdmission` |
| `PaymentAdmission` | authentication and the real checks of `createPayment` | `MCPaymentAdmission`, `PaymentAdmissionProofs` |
| `PaymentBody` | what becomes of a body: hash, pipes, rewrite | `MCPaymentBody`, `RequestProofs` |
| `RequestContext` | the ids from the client's headers to the dead letter | `MCRequestContext`, `RequestProofs` |
| `HealthCheck` | readiness, the shared Redis client | `MCHealthCheck`, `HealthCheckProofs` |
| `Configuration` | what schemas accept and factories load | `ServiceProcess` |
| `ServiceProcess` | start-up, hooks, ports, shutdown, restart | `MCServiceProcess`, `ServiceProcessProofs` |
| `...Proofs` | theorems about the module of that name, `RequestProofs` about the two that follow a request (see Proofs) | |

The order and names of actions follow the code; `PROJECT.json` ("map") gives
the lines of every definition. Definitions commented "Mutant" are wrong
variants of the definition below them: with the variant in place, the property
named in `PROJECT.json` fails. They are not part of any specification.

### OutboxRelay

A row has a status and a retry count; `stale` marks a `PUBLISHING` row older
than the threshold (`Age` is time passing). Each relay has a program counter
over the awaits of `processBatch`, the capacity it computed, and its open
batches. A batch holds pairs of an event and its retry count at the claim,
which identify the *attempt*; `log` holds the pairs Kafka accepted. A batch
remembers whether its cycle (`inCycle`) or a shutdown (`inDrain`) will await
it: that decides whether a rejection is handled. Actions: `Save`, `Age`,
`StartCycle`, `LoopHead`, `RecoverStale`, `SelectRows`, `ClaimRows`,
`SpawnBatch`, `EndCycle`, `Publish`, `MarkPublished`, `MarkFailed`, each with
its failure (with and without effect), and `Kill`, `Shutdown`,
`FinishShutdown`, `Restart`.

### InboxConsumer

A worker runs `eachMessage` for one message, one action per await. kafkajs
joins the group again only between messages, so `Rebalance` shares the
partitions among the workers that are idle, which start at the committed
offsets, and leaves out one that has a message: it goes on with the message, but
Kafka refuses the commits of its old generation (`Fenced`, `CommitRefused`).
Nobody may be left, and then the first worker to be through is the group (`Join`).
`Caught` is where an error leads, whether the call failed (`CallFails`, with or
without effect, bounded) or its commit was refused (unbounded): into the catch
block that reads `retryCount` and puts the row back, into the one around the
dead letter, or out of `eachMessage`. `refused` counts the refused commits of
settled events. Operators reset a dead-lettered row
(`PrepareForReplay`) and publish it again (`Replay`), in either order. Whether
a message can be deserialized (`serializer.ts`) is a property of the message:
`Malformed` messages throw, `Tombstone`s are passed over.

### IdempotencyService, PaymentService, PaymentGateway

A request has a key, a checksum (`HashOf`) and a reference. Redis commands are
atomic; `SET NX` and the later `GET` are two steps, between which a record may
expire or be deleted. The gateway's calls end in an answer or in a timeout
after which the callee goes on; the proxy's timeout therefore leaves
`createPayment` running while the lock is deleted, and a `cleanup` that times
out may run late. A Redis command whose answer is lost fails (`CheckFails`) or is
sent again, since `maxRetriesPerRequest` is null (`CheckResent`): a second
`SET NX` then finds the record of the first, and `check` answers 409 from the
request's own lock. `GET` and the two scripts change nothing more when they run
twice.

### RateLimiter

Time is counted in ticks (milliseconds) and seconds of `TicksPerSecond` ticks,
since `Retry-After` rounds to seconds. A request takes its time when it arrives
and its script runs at some later tick. The member of the sorted set is the
client's `x-request-id` (`IdOf`), which a client may repeat: `WindowRespected`
therefore counts ids that are new in the window. A connection may break with a
script under way: the request is let through, the script run or not
(`FailOpen`), or the script is sent again and finds what its first run left
(`Resend`). `allowed` are the requests the script counted, whether or not its
answer arrived.

### PaymentAdmission

A request is sent with a body (amount in hundredths, currency), authenticated
by a GET that is retried, and goes through `findByReference`, the two reads of
`validateOrder`, `runPrecheck` and the transaction. Between any two steps an
operator may revoke the key or suspend the merchant, take either back (both are
plain columns that nothing makes final), create orders or move them
on. `verdicts` holds the answers the merchant service would have given since the
request was sent, and `atSend` what was so of its order then, to state what a
decision is based on. A fraud threshold of 0 is the default of 10,000,000, as the
rule's `||` makes it (`MaxThreshold`). The refinement mapping to `PaymentService` forgets the
codes, and takes both reads of `validateOrder` for one call.

### PaymentBody

A body is a sequence of fields in the order sent; a value has its JSON kind and
the text `deterministicStringify` makes of it. The code escapes nothing, so a
text that contains `,"name":` reads like a further field. The model cuts every
text at such delimiters: `text` is what comes before the first, `more` the names
and texts that follow. `Pieces` are what the sorted fields become, cut at all
delimiters, and `Generate` is the set of pieces with their places: two bodies have
the same checksum when the joined texts are the same, whichever of the delimiters
were in a text. SHA-256 is taken to have no collisions. A nested object
(`metadata`) is one more value with a text, in which its own commas and names
count as delimiters; the proofs cover it, the run has texts only. The requests
share one idempotency key; the record is made by the hash of the body as sent, before the
pipes look at it.

### RequestContext

Each service makes a store of a request's headers (`ContextOf`, with fresh ids
for missing ones; an empty id is kept), and `HttpClient` makes headers of the store
(`PropagateHeaders`). The payment service writes the ids into the payment and
the envelope; the producer writes them into Kafka headers; the dead letter is
made from the message. The merchant is the one the API key belongs to,
whatever `x-merchant-id` a client sends.

### HealthCheck

Several checks run `checkReadiness` at one time, indicator by indicator. All of
them share the Redis indicator's client: a queue of commands answered in order
(`Answer`), refused together once the client is closed (`Refuse`, before
anything else runs). A failed PING starts `cleanupClient`, which is not awaited
and looks at the field again when its QUIT is settled. The database is asked
only where the indicator has a client (`DatabaseConfigured`, true in the run).
PostgreSQL and Redis come
and go at any time; `wasUp` records what was available during a check.

### Configuration, ServiceProcess

A raw setting is absent, empty, a word or an integer. `Validates` and
`GatewayValidates` are the zod schemas, `Loaded` the factories, which parse the
same variable again. A process goes from `off` through creation, hooks and
`listen` to `up`, and on SIGTERM through the destroy hooks to the closing of
the server and the exit; any failure on the way up ends in `process.exit(1)`
and a later start. `Main` gives each service its hooks, its resources and its
port, from its `main.ts` and modules. The hooks of NestJS are external: init hooks
run before the server listens, destroy hooks before it stops listening and
before `onApplicationShutdown`.

## Runs

Runs that pass:

| run | instance | shows |
|---|---|---|
| `outbox` | 2 relays, 2 events, one of them poison, batches of 2, 3 in flight, retry limit 2, 1 fault | `RetryBudget`, `PublishedIsInKafka`, `BackPressure`, `OneBatchPerAttempt`, `BoundedCopies`, `FinalIsFinal`, `EventuallySettled`, `ImplementsDelivery` |
| `inbox_safety` | 2 workers, 2 partitions with duplicates, a tombstone and an unreadable message, retry limit 1, 1 rebalance, 1 fault, 1 event to replay | `OneHandler`, `NothingSkipped`, `RepeatNeedsSetback`, `RetriesThenDlq`, `SettledIsFinal` |
| `inbox_liveness` | readable messages, 1 rebalance, no faults, 1 event to replay | `EventuallyDrained` |
| `payment_safety` | 4 requests over 2 keys, 2 references, 2 bodies, 1 fault, 1 expiry | `CacheIsTrue`, `AnswersAreTrue`, `OneInHandler`, `PaymentsStay`, `AcceptedOnce`, `LockIsOwned` |
| `payment_liveness` | 3 requests of one key, 1 fault, 1 expiry | `EveryoneIsAnswered`, `LocksAreReleased` |
| `rate_limit` | 4 requests, two with one `x-request-id`, limit 2, window of 4 ticks, 7 ticks, 1 lost connection | `WindowRespected`, `RetryAfterIsEnough` |
| `admission` | 2 requests of one merchant for one reference, an order of another merchant for it, 5 bodies, 1 retry, 2 faults, keys and merchants reinstated | `PaymentIsVouchedFor`, `OrdersArePrivate`, `RetriesAbsorb`, `ImplementsPaymentService` |
| `body` | 2 requests of one key, bodies that differ in order, kind, nulls, missing and unknown fields, and in texts with delimiters | `RetryIsRecognised`, `ReplayIsOwnPayment` |
| `context` | 2 interleaved requests, headers missing, empty, the same, or of the other merchant | `PaidByKeyOwner`, `OneCorrelation` |
| `health` | merchant and idempotency service, 2 overlapping checks, 2 clients | `NoClientLeaks`, `UpWasSeen`, `ReadyAgain` |
| `process` | gateway, order service and relay, 3 settings with 5 raw values each, 1 signal, 1 outage | `UsableSettings`, `UpAndReachable`, `AllUp` |

`outbox` and `inbox_safety` also check `TypeOK` of their modules. The `TypeOK` of
the other modules (`BodyTypeOK` of `PaymentBody`) is part of the inductive invariant each proof establishes.

A run in which the code does something else than the repository says
(`PROJECT.json`, "findings"):

* `inbox_stuck`: a row left in `PROCESSING` by a kill or a failed update is never
  handled again, while README.md promises "bounded recovery paths".

Other disagreements met while modelling. The passing runs contain each of these
behaviours unless stated otherwise, and say what holds in spite of it:

* A batch that fails while the cycle still polls rejects a promise nobody awaits
  yet (`relay.service.ts:148`). Node ends the process, although `scheduler.ts:59`
  calls such a failure recoverable. The outbox survives the exit and the restart
  (`outbox`).
* An offset commit that fails after `PROCESSED` puts the row back to `RETRYING`,
  and the handler runs a second time (`consumer.ts:351`). A rebalance alone is
  enough: Kafka refuses the commit of a worker it left out. Every repetition takes
  a fault or a refused commit (`RepeatNeedsSetback`), and nobody but such a worker
  reopens a settled row while nothing fails (`SettledIsFinal`). If the new owner
  has already committed the message as a duplicate, the row stays `RETRYING` for
  good behind the offset, although its event was handled (`EventuallyDrained`
  says of which rows that can be true); at the retry limit an event that was
  handled goes to the dead letters (`RetriesThenDlq`).
* A `SET NX` whose answer is lost and that ioredis sends again tells its client 409
  for its own lock, which then blocks the key until the TTL
  (`redis.module.ts:19`, README.md:82: "if a duplicate request arrives").
  `RefusalsAreTrueHolds` says that this takes a lost answer.
* A rate limit script that runs again may be refused for the element its own first
  run left (`rate-limit.module.ts:20`; `RefusedForCauseHolds`).
* A timeout of the proxy deletes the lock of a payment that then commits, and a
  retry reaches the payment service again (`idempotency.interceptor.ts:148`,
  README.md:83). The unique reference keeps the payment single (`PaymentsStay`).
* A repeated `x-request-id` moves its element of the sorted set instead of adding
  one (`redis-rate-limit.repository.ts:25`), so more requests than the limit
  pass; `WindowRespected` claims the limit for new ids only.
* `null` and `""`, or a number and its text, hash alike
  (`request-hash.service.ts:20`), so a different body may be answered with the
  stored response instead of 422 (README.md:84 and 420). No valid request gets the
  payment of another body that way (`ReplayIsOwnPayment`).
* Nothing is escaped in what is hashed (`request-hash.service.ts:32`), so the free
  texts `customerId` and `paymentMethod` can be worded so that two valid bodies
  with different orders hash alike, and one is answered with the payment of the
  other. `ReplayIsOwnPayment` therefore has a premise about the caller: its own
  texts contain no delimiter (`Plain`). Then it is safe whatever others with its
  key send. Without the premise TLC finds such a pair among the bodies of `body`.
* A late cleanup disconnects the healthy client a later check has made
  (`redis.health.ts:59`). No client is left open by it (`NoClientLeaks`).
* Only two services name the dependencies they work with
  (`health.service.ts:45`); the others are ready without PostgreSQL or Redis,
  unlike README.md:423 says. `UpWasSeen` is about the dependencies that are named.
* The destroy hooks cut off the downstream calls of requests that the gateway
  still serves (`service-client.ts:90`), and the relay disconnects its producer
  before it awaits its batches (`relay.service.ts:26`). For `PaymentGateway` the
  former is a failed call, for `OutboxRelay` the latter is a failed publication
  that uses up a retry.
* Publish results are matched to items by topic (`producer.ts:308`), so events of
  one topic in different partitions are all stored with the same place; and a
  batch that breaks before the broker is asked is not counted as a failed
  publication (`producer.ts:255`). Neither is modelled: nothing reads the columns
  or the counter.
* An amount with a fraction passes the payment service's `@IsNumber` and fails
  the order service's `@IsInt`, so its client is told 500 and not 400
  (`admission`).

### Bounds

Two actors of each kind, because every race in the code is between two, and a
third only repeats what one of them does. Two events or two references, because
batches, partitions and keys must be able to mix. The retry limits are the
smallest for which "not the last attempt" and "the last attempt" both happen.
Faults are bounded by one (two in `admission`, where one must be absorbed and
two must not); failures of Kafka are unbounded in `OutboxRelay`. In
`rate_limit` the ticks cover almost two windows, so that elements leave, the key
expires and is used again. In the inbox runs one event can be replayed, and one
rebalance is enough for a commit to be refused, whoever owns the partition
afterwards. In `admission` the other merchant's order does not change
status (`MovedSlots`), since only its existence is looked at, and no request
belongs to a blacklisted merchant.
In `health` a client is made anew while an older one still refuses its
commands, which takes two clients; `ReadyAgain` is claimed for checks that do not
overlap for ever, because those that do may close each other's client. In `body` the two free texts
take four values each, two of them with delimiters. The
services of `process` are one of each kind (HTTP clients and Redis; awaited
connections; no server), its settings one of each kind of schema, and its raw
values absent, empty, a word, and a usable and an unusable (or, for `PORT`,
another) number. In
`context` two requests are enough for a store to leak into another.
Where deadlock is not checked, the finite set of requests or messages is
exhausted and the system may stop.

### Fairness

* `OutboxRelay`: weak fairness of each relay's cycle, batches, shutdown and
  restart and of time. Node runs its timers and promises, calls to PostgreSQL
  and Kafka return or fail, and a process that ended is restarted by its
  supervisor.
* `InboxConsumer`: weak fairness of each worker's next step. kafkajs delivers
  an offset that was thrown back again, and a handler ends.
* `PaymentGateway`: weak fairness of the gateway's and the services' steps; the
  HTTP client bounds every wait, and a hang ends in a fault. Nothing is assumed
  of faults and expiry.
* `HealthCheck`: weak fairness of each check and each client. The orchestrator
  keeps probing, the event loop runs every continuation, and Redis or the
  operating system settles every command. That Redis stays up is a premise of
  the property.
* `ServiceProcess`: weak fairness of each service's start and stop, of answers
  and of the return of a dependency. A supervisor (or an operator) starts what
  has ended, and every wait in the hooks ends or fails.

## Proofs

Every safety invariant, every action property and both refinements that the runs
check are theorems: they hold for any sets of processes, requests, events and
keys, any limits and any bound on faults. The theorems rest on the named ASSUMEs
of the modules and on nothing else. Each inductive invariant was first checked by
TLC on the instance of the module's run. `XHolds` is the theorem that the property
`X` holds. Four theorems state more than the runs check: `RefusalsAreTrueHolds`, `StuckNeedsFault`,
`StuckForEver` and `RefusedForCauseHolds`.

### OutboxRelayProofs

`OutboxRelayProofs` proves, for any relays, finite set of events, retry limit,
batch size, capacity and bound on faults, given the named assumptions of
`OutboxRelay` (the limits are positive numbers, events are ordered by their
age):

* `TypeCorrect`: `Spec => []TypeOK`. The induction needs `FiniteInFlight`, for
  the counter to be a number.
* `SafetyInvariant`: `Spec => [](TypeInv /\ AttemptInv)`. No safety property
  is inductive alone. `AttemptInv` joins them (`RetryBudget`,
  `OneBatchPerAttempt`, `PublishedIsInKafka`) to what they need: no attempt in
  Kafka or in an open batch is ahead of the count of its row, and one that is
  level with it belongs to a row that is still `PUBLISHING` or is `PUBLISHED`
  (`AttemptsKnown`, which makes every new claim a new attempt); a batch is at
  `markPublished` only once Kafka took all of it (`SentBeforeMarked`); rows
  locked by a select are waiting, and locked by one relay (`LocksHeld`).
  The steps of
  rows are summarised by one lemma (`RowsMove`: a row is saved, claimed, published or
  failed, or stays), those of batches by another (`BatchesStep`: some
  are kept with other flags, one is added, one changes its stage), so that each
  conjunct is proved once for every kind of step and not once for every action.
* `RetryBudgetHolds`, `PublishedIsInKafkaHolds`, `OneBatchPerAttemptHolds`,
  `BoundedCopiesHolds`: consequences of that invariant, the last one by counting
  the attempts below the limit.
* `FinalIsFinalHolds`: the action property, from `RowsMove`.
* `ImplementsDeliveryHolds`: `Spec => ImplementsDelivery`; `StepRefines` shows
  every step to be a step of `OutboxDelivery` or a stutter.
* `BackPressureHolds`: the in-flight counter is exact and within its limit; the
  induction carries the capacity the loop computed before the claim.

### PaymentGatewayProofs

For any requests with their keys, checksums and references: `CacheIsTrue`,
`AnswersAreTrue`, `OneInHandler`, `PaymentsStay`, `AcceptedOnce` and
`LockIsOwned`, from `GatewayInvariant`: `Spec => []Inv`. None of them is
inductive, because each speaks of one service and depends on what another was
asked. `Inv` joins

* `Ledger`: table, outbox and what `createPayment` answers agree. This is the
  payment service's own invariant, kept by `PaymentNext` alone (`LedgerNext`);
* `Linked`: where the interceptor is with a request, and how far its calls have
  come; in particular the payment service is called once for a request;
* `Truth`: not only a cached record but also an answer of `check` still on its
  way and a replay already given name a payment of the same key and checksum;
* `Locked`: from the MISS until the handler ends, and for good once the client
  was told ACCEPTED, the record is the request's own unless the key has expired
  before. It is this conjunct that survives a lost answer of `check`, a proxy
  timeout and a late `cleanup`.

`StoreChanges` says once in which ways a step may change a record (taken,
completed or released by its owner, expired); `LockIsOwned` and the last two
conjuncts follow from it. `ImplementsPaymentHolds` shows that the composed
system is a behaviour of `PaymentSpec`.

`RefusalsAreTrueHolds` is about the clients that are turned away. A 422 has
*another* request with the same key and another checksum behind it, always. A 409
has another one with the same checksum behind it (`Cause`), or a lost answer: the
request met its own lock, nobody will give it back, and it stays until it expires
(`Orphaned`). The invariant (`Blamed`) says that a record has the key and checksum
of its owner, that the owner's `check` is over unless an answer was lost
(`Owned`), and that only after a MISS does the gateway complete or clean up
(`Through`), which is why an orphaned lock stays.

### PaymentAdmissionProofs

For any keys, merchants, orders, bodies, fraud settings and number of retries:
`PaymentIsVouchedFor`, `RetriesAbsorb`, `OrdersArePrivate`, and the refinement
`ImplementsPaymentService`. Checks are made at different times, so the invariant
carries what each of them found past the changes operators make: for every
request `Vouched` (what it passed by the place it has reached), `Told` (which
codes its client can have got there) and `Recorded` (rows and outbox). Keys and
merchants may change in both directions, so what is carried of them is history:
`verdicts` grows while the request waits (`OperatorIs`, `Remembered`). Of orders
it is the present that counts: the order service neither deletes nor reopens them
nor changes amount or currency (`OrdersStay`). With `ImplementsPaymentHolds` this ties the two models together: the
real checks are one way to be the payment service the gateway relies on.

### InboxConsumerProofs

For any workers, partitions, published messages (duplicates included), retry
limit and bounds: `TypeOK`, `OneHandler`, `NothingSkipped`, `RepeatNeedsSetback`,
`RetriesThenDlq` and `SettledIsFinal`, from `InboxInvariant`. `Inv` joins

* `TypeInv`: types, and a busy worker's message is in the log and is an event
  (which needs `Tombstone # Malformed`: the two kinds of message differ);
* `Exclusive`: until an operator replays an event, one worker has it, from taking
  the lock to giving it back, and the row cannot be taken meanwhile;
* `Evidence`: what a row or a call says has happened, has;
* `Budget`: how `retryCount`, the count a worker holds and the setbacks (faults,
  and refused commits of the event) bound the
  runs of an event, in every phase of `eachMessage`. `RepeatNeedsSetback` and
  `RetriesThenDlq` are its first lines; the rest is what they need;
* `Quiet`: as long as nothing failed and no commit of the event was refused, who
  may write its row has the lock, replayed events included;
* `Lost`: without faults, who may still write the row of a settled event lost its
  partition and had its commit refused (with `Quiet`, for `SettledIsFinal`). It
  needs that a worker stays without the partition of the message it has
  (`StaysFenced`);
* `Unmoved`: without a rebalance everyone keeps its partitions and no commit is
  refused;
* `Progress`: no committed offset, position or worker's offset is past a message
  that was not dealt with.

`Move` sums up a busy worker's step by its effect on one event, so that each
conjunct is proved for seven kinds of step and not for thirteen actions.

Two theorems are about the lock that is never given back, of which `inbox_stuck`
shows one case. `Stuck(e)` says that the row is `PROCESSING` and no worker has the
event. `StuckNeedsFault`: it takes a fault to get there (`Attended`: without one,
who took a lock still works on the event). `StuckForEver`: there is no way out,
by redelivery, rebalance, restart or replay. Recovery from it has to come from
outside this program.

### RequestProofs

Of `RequestContext`: `PaidByKeyOwner` and `OneCorrelation`, for any requests, ids
and merchants. The invariant is a `Chain` for each request that says at every hop
what the ids are. `IdsAssumption` says that an absent header, an empty one and
the "N/A" that a missing id is replaced by are no ids themselves.

Of `PaymentBody`: `RetryIsRecognised` and `ReplayIsOwnPayment`, for any requests,
fields, decorators and bodies, with any texts. The proofs extend both modules, so the
names that the two share have the prefix `Body` in `PaymentBody` (`BodySpec`,
`BodyNext`). They rest on its two ASSUMEs: `FieldsAssumption` (an object has no
field twice; the fields that are paid are required) and `KindsAssumption` (the
decorators of a paid field admit values of one JSON kind, without delimiters:
`@IsPositive()` numbers, the currency code and the UUID texts).

* `HashOfParsed`: the hash is a function of the object, whatever the order of its
  fields. With it, a 422 has a body that differs behind it.
* `SameHashSamePayment`: the other direction, which holds of two valid bodies one
  of which is `Plain`. The pieces of a plain body are its own fields, each name
  once (`FieldOnce`), so every paid field of the other body has a piece among
  them, and the same text (`SameHashSameText`); by `KindsAssumption` it then has
  the same value (`PaidValue`).
* `BodyInvariant`: the inductive invariant. `Held` says that the record of the key
  has the hash of its owner's body, that a request which is still being worked on
  is the owner, and that a completed record holds the payment of a body the
  gateway accepted; without the last part a replay could be of a body that only
  hashes alike.

### RateLimiterProofs

`WindowRespected` and `RetryAfterIsEnough`, for any limit, window, tick length and
time bound. The property counts requests; the script
counts elements of a set. The invariant joins the two: the set is within the
limit (`Bounded`), its elements are of requests it counted and leave the window
before the key expires (`Scored`), and every id that is new in the window is in
it (`Present`), although scripts run later than their time was read
(`Stamped`). `Promised` keeps room for every time Retry-After named.
`RetryAfterIsLate` shows that rounding to seconds never names too early a time.
Whatever becomes of its answer, a run of the script counts the request
(`CountInv`) or only trims the set (`TrimInv`), so lost answers and second runs
cost one lemma (`RunScriptInv`).
`RefusedForCauseHolds` is the converse of `WindowRespected`: a request is refused
only if `Limit` different ids were counted in its window, and by other requests
unless an answer was lost: its own element is in the set only then (`Uncounted`).
It needs that an id has one score (`OneScore`), so that elements can be counted as
ids.

### ServiceProcessProofs

`UsableSettings` and `UpAndReachable`, for any of the seven services, any raw values
and any number of signals and outages. The invariant says that a process past its
validation has an environment its schema accepts, and that one that is up has
its connections and its port. For the settings, the proof goes through the
schemas: each accepts only texts the factories load as usable numbers.

### HealthCheckProofs

`NoClientLeaks` and `UpWasSeen`, for any number of overlapping checks and clients.
`NoClientLeaks` is inductive with the types: a client is made only when the field is
empty, and the field is emptied only when its client is no longer open.
`UpWasSeen` needs more: every PING in a client's queue is that of one waiting check
(`Queues`, with lemmas about taking from and adding to a queue), a check that
waits is at the Redis indicator (`Asked`), and a check that is still UP has seen
everything it asked and everything available now (`Seen`).

### Only model-checked

Liveness under fairness, which is out of the prover's reach: `EventuallySettled`,
`EventuallyDrained`, `EveryoneIsAnswered`, `LocksAreReleased`, `ReadyAgain`, `AllUp`.

## Not modelled

* Log lines, trace spans and metrics: they are output, and nothing in the
  program reads them. The partition and offset columns of the outbox likewise.
* The Kafka health indicator, which is in no service's list; liveness probes,
  which always answer 200.
* The serializer's upgrade chain: the current version is 1 and only a test
  registers an upgrader, so the loop is never entered. A message is readable or
  not.
* Numbers that no schema looks at: `IDEMPOTENCY_TTL_HOURS`
  (`idempotency.config.ts:10`; a word is NaN), `IDEMPOTENCY_CONFLICT_MODE`, which
  nothing reads, and `FRAUD_MAX_AMOUNT_THRESHOLD` (`fraud.config.ts:7`; NaN and 0 become the
  default in the rule, which `FraudService` models). `UsableSettings` does not
  cover them.
* Texts, URLs and booleans of the configuration, taken as in `.env.example`; the
  factory of Prisma clients; the relay's optional metrics server; OpenAPI
  documents.
* `lastUsedAt` of API keys, which nothing reads; `getPayment`, which only reads;
  the payment state machine and the repository methods without a caller; no code
  path moves a payment out of `PENDING`.
* Contracts and event types (declarations), benchmarks and scripts (run against
  a deployment), and the directories of services that hold no code yet.

## Plan

1. Done: the outbox with its abstract promise and its proofs; the inbox; the
   gateway with idempotency and payment service; the rate limiter; admission;
   request bodies; the request context; health checks;
   configuration and service processes.
2. Done: the proofs of all safety properties and refinements.
3. Left of the models: the end-to-end composition of payment, outbox, Kafka and
   inbox, with the abstract statement that a payment's event reaches its handler.
