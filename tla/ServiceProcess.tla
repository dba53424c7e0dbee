--------------------------- MODULE ServiceProcess ---------------------------
(***************************************************************************)
(* The life of the service processes: main.ts of the seven services, their *)
(* modules' onModuleInit and onModuleDestroy hooks, and the environment    *)
(* file they share.  A process that fails to start ends with code 1 and    *)
(* somebody starts it again.  NestJS runs the hooks: init hooks before the *)
(* server listens, destroy hooks before it stops listening.                *)
(***************************************************************************)
EXTENDS Naturals, FiniteSets, Configuration

CONSTANTS
  Services,     \* services that run
  Settings,     \* variables the shared file may give other values than the template
  RawValues,    \* those values, for each
  MaxRequests,  \* bound: requests (batches) a service has in flight
  MaxSignals,   \* bound: SIGTERMs and kills
  MaxOutages    \* bound: times a dependency goes down

ASSUME ProcessAssumption ==
  /\ Services \subseteq {"gateway", "merchant-service", "idempotency-service", "payment-service",
                         "order-service", "fraud-service", "outbox-relay"}
  /\ DOMAIN RawValues = Settings
  /\ \A v \in Settings : RawValues[v] \subseteq Raw
  /\ MaxRequests \in Nat
  /\ MaxSignals \in Nat
  /\ MaxOutages \in Nat

VARIABLES
  env,       \* the settings of the shared file
  available, \* dependencies that answer
  pc,        \* "off", "created", "starting", "up", "stopping", "closing"
  open,      \* connections and agents each process holds
  bound,     \* the port each process listens on, 0 for none
  requests,  \* requests in flight; in the relay, batches being published
  signals,   \* SIGTERMs and kills so far
  outages    \* outages so far

vars == <<env, available, pc, open, bound, requests, signals, outages>>

(***************************************************************************)
(* The services, as their main.ts and modules make them: awaits, what      *)
(* their onModuleInit hooks connect to ($connect of PrismaService, connect *)
(* of KafkaEventProducer and of the consumer); makes, what a module makes  *)
(* when it is created (an ioredis client that connects by itself, agents   *)
(* of HttpClient and IdempotencyClientService); port, where they listen by *)
(* default, which is where services.config.ts (.env.example for the        *)
(* idempotency service) sends their callers.  The relay is an application  *)
(* context without a server.                                               *)
(***************************************************************************)
GatewayMain == [awaits |-> {}, makes |-> {"redis", "http"}, port |-> 3000]

MerchantMain == [awaits |-> {"database"}, makes |-> {}, port |-> 3001]

IdempotencyMain == [awaits |-> {}, makes |-> {"redis"}, port |-> 3002]

PaymentMain == [awaits |-> {"database"}, makes |-> {"http"}, port |-> 3003]

OrderMain == [awaits |-> {"database", "kafka"}, makes |-> {}, port |-> 3004]

FraudMain == [awaits |-> {}, makes |-> {}, port |-> 3008]

RelayMain == [awaits |-> {"database", "kafka"}, makes |-> {}, port |-> 0]

Main(s) ==
  CASE s = "gateway"             -> GatewayMain
    [] s = "merchant-service"    -> MerchantMain
    [] s = "idempotency-service" -> IdempotencyMain
    [] s = "payment-service"     -> PaymentMain
    [] s = "order-service"       -> OrderMain
    [] s = "fraud-service"       -> FraudMain
    [] s = "outbox-relay"        -> RelayMain

Awaited(s) == Main(s).awaits
Created(s) == Main(s).makes
DefaultPort(s) == Main(s).port
HasServer(s) == DefaultPort(s) # 0

SharedPort == IF "PORT" \in Settings THEN env["PORT"] ELSE Digits(3000)

(* Mutant: PORT of the shared file, for every service. *)
PortAsGiven(s) == IF Given(SharedPort) THEN SharedPort.n ELSE DefaultPort(s)

(* main.ts: the gateway takes PORT, the others only if it is not 3000. *)
PortOf(s) ==
  IF s = "gateway" THEN Loaded(SharedPort, 3000).n
  ELSE IF Given(SharedPort) /\ SharedPort # Digits(3000) THEN SharedPort.n
  ELSE DefaultPort(s)

Environments ==
  {e \in [Settings -> UNION {RawValues[v] : v \in Settings}] :
     \A v \in Settings : e[v] \in RawValues[v]}

TypeOK ==
  /\ env \in Environments
  /\ available \subseteq {"database", "kafka"}
  /\ pc \in [Services -> {"off", "created", "starting", "up", "stopping", "closing"}]
  /\ open \in [Services -> SUBSET {"database", "kafka", "redis", "http"}]
  /\ \A s \in Services : open[s] \subseteq Awaited(s) \cup Created(s)
  /\ bound \in [Services -> Nat]
  /\ requests \in [Services -> 0 .. MaxRequests]
  /\ signals \in 0 .. MaxSignals
  /\ outages \in 0 .. MaxOutages

Init ==
  /\ env \in Environments
  /\ available \in SUBSET {"database", "kafka"}
  /\ pc = [s \in Services |-> "off"]
  /\ open = [s \in Services |-> {}]
  /\ bound = [s \in Services |-> 0]
  /\ requests = [s \in Services |-> 0]
  /\ signals = 0
  /\ outages = 0

(* The process ends, in whatever way; the system closes what it held. *)
End(s) ==
  /\ pc' = [pc EXCEPT ![s] = "off"]
  /\ open' = [open EXCEPT ![s] = {}]
  /\ bound' = [bound EXCEPT ![s] = 0]
  /\ requests' = [requests EXCEPT ![s] = 0]

(***************************************************************************)
(* bootstrap().                                                            *)
(***************************************************************************)

(* What ConfigModule's validate and, in the gateway, getGatewayConfig make *)
(* of the environment.                                                     *)
Accepted(s) == Validates(env) /\ (s = "gateway" => GatewayValidates(env))

(* dotenv, NestFactory.create: validation, then modules are made. *)
Create(s) ==
  /\ pc[s] = "off"
  /\ Accepted(s)
  /\ pc' = [pc EXCEPT ![s] = "created"]
  /\ open' = [open EXCEPT ![s] = Created(s)]
  /\ UNCHANGED <<env, available, bound, requests, signals, outages>>

(* The validation throws, bootstrap().catch exits with code 1. *)
CreateFails(s) ==
  /\ pc[s] = "off"
  /\ ~Accepted(s)
  /\ UNCHANGED vars

(* enableShutdownHooks, pipes, filters, interceptors, prefix, versioning.  *)
(* The relay enables the hooks once its init hooks are done.               *)
EnableShutdownHooks(s) ==
  /\ pc[s] = "created"
  /\ HasServer(s)
  /\ pc' = [pc EXCEPT ![s] = "starting"]
  /\ UNCHANGED <<env, available, open, bound, requests, signals, outages>>

Initializing(s) == pc[s] = IF HasServer(s) THEN "starting" ELSE "created"

(* onModuleInit *)
Connect(s, d) ==
  /\ Initializing(s)
  /\ d \in Awaited(s) \ open[s]
  /\ d \in available
  /\ open' = [open EXCEPT ![s] = @ \cup {d}]
  /\ UNCHANGED <<env, available, pc, bound, requests, signals, outages>>

(* bootstrap().catch: process.exit(1). *)
ConnectFails(s, d) ==
  /\ Initializing(s)
  /\ d \in Awaited(s) \ open[s]
  /\ d \notin available
  /\ End(s)
  /\ UNCHANGED <<env, available, signals, outages>>

(* Mutant: the hooks are not awaited. *)
InitializedEarly(s) == Initializing(s)

Initialized(s) == Initializing(s) /\ Awaited(s) \subseteq open[s]

PortTaken(p) == \E q \in Services : bound[q] = p

(* app.listen *)
Listen(s) ==
  /\ HasServer(s)
  /\ Initialized(s)
  /\ ~PortTaken(PortOf(s))
  /\ pc' = [pc EXCEPT ![s] = "up"]
  /\ bound' = [bound EXCEPT ![s] = PortOf(s)]
  /\ UNCHANGED <<env, available, open, requests, signals, outages>>

(* EADDRINUSE, and bootstrap().catch. *)
ListenFails(s) ==
  /\ HasServer(s)
  /\ Initialized(s)
  /\ PortTaken(PortOf(s))
  /\ End(s)
  /\ UNCHANGED <<env, available, signals, outages>>

(* outbox-relay: onApplicationBootstrap starts the scheduler. *)
StartScheduler(s) ==
  /\ ~HasServer(s)
  /\ Initialized(s)
  /\ pc' = [pc EXCEPT ![s] = "up"]
  /\ UNCHANGED <<env, available, open, bound, requests, signals, outages>>

(***************************************************************************)
(* Serving and stopping.                                                   *)
(***************************************************************************)

(* The server listens until the destroy hooks are done; the scheduler goes *)
(* on until onApplicationShutdown, which comes after them too.             *)
Accept(s) ==
  /\ IF HasServer(s) THEN bound[s] # 0 ELSE pc[s] \in {"up", "stopping"}
  /\ requests[s] < MaxRequests
  /\ requests' = [requests EXCEPT ![s] = @ + 1]
  /\ UNCHANGED <<env, available, pc, open, bound, signals, outages>>

Answer(s) ==
  /\ requests[s] > 0
  /\ requests' = [requests EXCEPT ![s] = @ - 1]
  /\ UNCHANGED <<env, available, pc, open, bound, signals, outages>>

(* SIGTERM with the hooks enabled: app.close(). *)
Terminate(s) ==
  /\ pc[s] = "up"
  /\ signals < MaxSignals
  /\ signals' = signals + 1
  /\ pc' = [pc EXCEPT ![s] = "stopping"]
  /\ UNCHANGED <<env, available, open, bound, requests, outages>>

(* SIGKILL, a signal nobody handles yet, or SIGTERM while it starts (which *)
(* ends in the same place: nothing is served yet).                         *)
Kill(s) ==
  /\ pc[s] # "off"
  /\ signals < MaxSignals
  /\ signals' = signals + 1
  /\ End(s)
  /\ UNCHANGED <<env, available, outages>>

(* What the work in flight goes out over: the agents of HttpClient, and in *)
(* the relay the Kafka producer.                                           *)
Carrier(s) == IF HasServer(s) THEN "http" ELSE "kafka"

(* onModuleDestroy: $disconnect, disconnect, quit; each hook catches its   *)
(* own errors or finds nothing to close.  Prisma connects again by itself. *)
Disconnect(s, d) ==
  /\ pc[s] = "stopping"
  /\ d \in open[s] \ {Carrier(s)}
  /\ open' = [open EXCEPT ![s] = @ \ {d}]
  /\ UNCHANGED <<env, available, pc, bound, requests, signals, outages>>

(* ServiceClient.onModuleDestroy: Agent.destroy() destroys the sockets in  *)
(* use too; KafkaEventProducer.onModuleDestroy: disconnect() rejects what  *)
(* is being sent.  Any of the work in flight may be in such a call.        *)
DestroyAgents(s) ==
  /\ pc[s] = "stopping"
  /\ Carrier(s) \in open[s]
  /\ open' = [open EXCEPT ![s] = @ \ {Carrier(s)}]
  /\ \E calls \in 0 .. requests[s] : requests' = [requests EXCEPT ![s] = @ - calls]
  /\ UNCHANGED <<env, available, pc, bound, signals, outages>>

(* The server stops listening; requests in flight go on. *)
CloseServer(s) ==
  /\ pc[s] = "stopping"
  /\ open[s] = {}
  /\ pc' = [pc EXCEPT ![s] = "closing"]
  /\ bound' = [bound EXCEPT ![s] = 0]
  /\ UNCHANGED <<env, available, open, requests, signals, outages>>

(* onApplicationShutdown (the relay awaits its batches here), and the      *)
(* signal once more.                                                       *)
Exit(s) ==
  /\ pc[s] = "closing"
  /\ requests[s] = 0
  /\ End(s)
  /\ UNCHANGED <<env, available, signals, outages>>

Outage(d) ==
  /\ d \in available
  /\ outages < MaxOutages
  /\ outages' = outages + 1
  /\ available' = available \ {d}
  /\ UNCHANGED <<env, pc, open, bound, requests, signals>>

Return(d) ==
  /\ d \notin available
  /\ available' = available \cup {d}
  /\ UNCHANGED <<env, pc, open, bound, requests, signals, outages>>

Dependencies == {"database", "kafka"}

BootSteps(s) ==
  \/ Create(s) \/ CreateFails(s)
  \/ EnableShutdownHooks(s)
  \/ \E d \in Dependencies : Connect(s, d) \/ ConnectFails(s, d)
  \/ Listen(s) \/ ListenFails(s)
  \/ StartScheduler(s)

StopSteps(s) ==
  \/ \E d \in Dependencies \cup {"redis"} : Disconnect(s, d)
  \/ DestroyAgents(s)
  \/ CloseServer(s)
  \/ Exit(s)

Next ==
  \/ \E s \in Services :
       BootSteps(s) \/ StopSteps(s) \/ Accept(s) \/ Answer(s) \/ Terminate(s) \/ Kill(s)
  \/ \E d \in Dependencies : Outage(d) \/ Return(d)

Spec == Init /\ [][Next]_vars

(* Somebody starts a service that is off and runs its bootstrap, hooks run *)
(* to their end, requests are answered, dependencies come back.            *)
Fairness ==
  /\ \A s \in Services : WF_vars(BootSteps(s)) /\ WF_vars(StopSteps(s)) /\ WF_vars(Answer(s))
  /\ \A d \in Dependencies : WF_vars(Return(d))

FairSpec == Spec /\ Fairness

(***************************************************************************)
(* Properties.                                                             *)
(***************************************************************************)
Up(s) == pc[s] = "up"

(* However the shared file is filled in, no service that is up works with  *)
(* a setting its schema was to keep out: NaN, or a batch size, retry or    *)
(* rate limit of zero.  These are the assumptions of OutboxRelay and       *)
(* RateLimiter on their constants.                                         *)
UsableSettings ==
  \A s \in Services, v \in Settings : Up(s) =>
    /\ \A schema \in PositiveSchemas :
         v \in DOMAIN schema => Loaded(env[v], schema[v]).n > 0
    /\ v \in DOMAIN RetrySchema => Loaded(env[v], RetrySchema[v]).form = "digits"
    /\ v \in DOMAIN KafkaSchema => Loaded(env[v], KafkaSchema[v]).form = "digits"
    /\ v \in DOMAIN GatewaySchema /\ s = "gateway" =>
         Loaded(env[v], GatewaySchema[v]).n > 0

(* README.md:413-415 (the ports, "connects to PostgreSQL"): a service that *)
(* is up has made the connections its hooks wait for, and, with the        *)
(* template's PORT or none, listens where its callers look for it.         *)
UpAndReachable ==
  \A s \in Services : Up(s) =>
    /\ Awaited(s) \subseteq open[s]
    /\ HasServer(s) /\ (Given(SharedPort) => SharedPort = Digits(3000))
         => bound[s] = DefaultPort(s)

(* With a valid environment and the template's PORT or none, all services  *)
(* are up together in the end, in whatever order they start, fail and are  *)
(* started again.                                                          *)
AllUp ==
  (/\ Validates(env) /\ GatewayValidates(env)
   /\ Given(SharedPort) => SharedPort = Digits(3000))
    => <>[](\A s \in Services : Up(s))

=============================================================================
