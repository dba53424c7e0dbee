----------------------------- MODULE HealthCheck -----------------------------
(***************************************************************************)
(* packages/common/src/health: the readiness probe of a service.  A check  *)
(* asks its indicators one after the other; several checks overlap, and    *)
(* all of them share the Redis indicator's one client, which a failed ping *)
(* releases in the background (cleanupClient is not awaited).  Commands of *)
(* one client are answered in order; a closed client refuses what is left, *)
(* all of it before the event loop turns to anything else.  A promise's    *)
(* continuation runs in the step that settles the promise.                 *)
(* The Kafka indicator is in no service's list, so no check reaches it.    *)
(***************************************************************************)
EXTENDS Naturals, Sequences, FiniteSets, SequencesExt

CONSTANTS
  Services,  \* service names a process may run under
  Checks,    \* HTTP requests for /health/ready that may overlap
  Clients,   \* bound: ioredis clients in existence at one time
  DatabaseConfigured  \* dbIndicator.isConfigured(): was the indicator given a client?

CONSTANTS Quit, None

ASSUME ConfiguredAssumption == DatabaseConfigured \in BOOLEAN
ASSUME NamesAssumption == Quit \notin Checks /\ None \notin Clients

VARIABLES
  service,      \* the name this process runs under
  portSet,      \* is process.env.PORT more than an empty string?
  database,     \* does PostgreSQL answer?
  redis,        \* "up", "down", or "loading": it refuses PING
  client,       \* "free", "open", "closing" (its socket still is) or "closed"
  queue,        \* its unanswered commands: the check a PING is of, or Quit
  redisClient,  \* the indicator's field
  destroyed,    \* onModuleDestroy has run
  todo,         \* indicators a check has still to ask
  asking,       \* checks whose PING is unanswered
  status,       \* overallStatus of a check, "idle" before it starts
  answer,       \* HTTP status a check was answered with, 0 before
  wasUp         \* history: indicators' subjects seen available during the check

envVars == <<service, portSet>>
checkVars == <<todo, asking, status, answer>>
redisVars == <<client, queue, redisClient>>
vars == <<envVars, database, redis, redisVars, destroyed, checkVars, wasUp>>

(* health.service.ts: what the service asks, in this order.                *)
Indicators(s) ==
  CASE s = "merchant-service" /\ DatabaseConfigured -> <<"database", "configuration">>
    [] s = "idempotency-service" -> <<"redis", "configuration">>
    [] OTHER                     -> <<"configuration">>

(* Those of them available now.  Once the environment was validated, all    *)
(* the configuration indicator can miss is a PORT that is there and empty: *)
(* the schema gives it a default, process.env keeps the empty string.      *)
Available ==
  {i \in Range(Indicators(service)) :
     CASE i = "database"      -> database
       [] i = "redis"         -> redis = "up"
       [] i = "configuration" -> portSet}

TypeOK ==
  /\ service \in Services
  /\ portSet \in BOOLEAN
  /\ database \in BOOLEAN
  /\ redis \in {"up", "down", "loading"}
  /\ client \in [Clients -> {"free", "open", "closing", "closed"}]
  /\ queue \in [Clients -> Seq(Checks \cup {Quit})]
  /\ redisClient \in Clients \cup {None}
  /\ destroyed \in BOOLEAN
  /\ todo \in [Checks -> Seq({"database", "redis", "configuration"})]
  /\ asking \subseteq Checks
  /\ status \in [Checks -> {"idle", "UP", "DOWN"}]
  /\ answer \in [Checks -> {0, 200, 503}]
  /\ wasUp \in [Checks -> SUBSET {"database", "redis", "configuration"}]

Init ==
  /\ service \in Services
  /\ portSet \in BOOLEAN
  /\ database \in BOOLEAN
  /\ redis \in {"up", "down", "loading"}
  /\ client = [c \in Clients |-> "free"]
  /\ queue = [c \in Clients |-> <<>>]
  /\ redisClient = None
  /\ destroyed = FALSE
  /\ todo = [k \in Checks |-> <<>>]
  /\ asking = {}
  /\ status = [k \in Checks |-> "idle"]
  /\ answer = [k \in Checks |-> 0]
  /\ wasUp = [k \in Checks |-> {}]

(* A closed client still refuses commands.                                 *)
Draining == \E c \in Clients : client[c] = "closed" /\ queue[c] # <<>>

(***************************************************************************)
(* checkReadiness.                                                         *)
(***************************************************************************)
Start(k) ==
  /\ ~Draining
  /\ status[k] = "idle"
  /\ todo' = [todo EXCEPT ![k] = Indicators(service)]
  /\ status' = [status EXCEPT ![k] = "UP"]
  /\ answer' = [answer EXCEPT ![k] = 0]
  /\ wasUp' = [wasUp EXCEPT ![k] = Available]
  /\ UNCHANGED <<envVars, database, redis, redisVars, destroyed, asking>>

AsksNext(k, indicator) ==
  /\ ~Draining
  /\ status[k] # "idle"
  /\ todo[k] # <<>>
  /\ Head(todo[k]) = indicator
  /\ k \notin asking

(* Mutant: a failing indicator is listed but does not turn the result.     *)
RecordOnly(k, ok) ==
  /\ todo' = [todo EXCEPT ![k] = Tail(@)]
  /\ status' = status

(* The rest of the loop body: one indicator that is down turns the result. *)
Record(k, ok) ==
  /\ todo' = [todo EXCEPT ![k] = Tail(@)]
  /\ status' = IF ok THEN status ELSE [status EXCEPT ![k] = "DOWN"]

(* packages/database: SELECT 1, false on any error.                        *)
IsConnected == database

(* database.health.ts *)
CheckDatabase(k) ==
  /\ AsksNext(k, "database")
  /\ Record(k, IsConnected)
  /\ UNCHANGED <<envVars, database, redis, redisVars, destroyed, asking, answer, wasUp>>

(* config.health.ts *)
CheckConfiguration(k) ==
  /\ AsksNext(k, "configuration")
  /\ Record(k, portSet)
  /\ UNCHANGED <<envVars, database, redis, redisVars, destroyed, asking, answer, wasUp>>

(* health.controller.ts: 200 for UP, 503 otherwise.                        *)
Respond(k) ==
  /\ ~Draining
  /\ status[k] # "idle"
  /\ todo[k] = <<>>
  /\ answer' = [answer EXCEPT ![k] = IF status[k] = "UP" THEN 200 ELSE 503]
  /\ status' = [status EXCEPT ![k] = "idle"]
  /\ UNCHANGED <<envVars, database, redis, redisVars, destroyed, todo, asking, wasUp>>

(***************************************************************************)
(* redis.health.ts: the shared client.                                     *)
(***************************************************************************)
Collectable(c) ==
  client[c] \in {"free", "closed"} /\ queue[c] = <<>> /\ c # redisClient

(* isHealthy up to its await: make a client when there is none, PING.      *)
Ping(k) ==
  /\ AsksNext(k, "redis")
  /\ asking' = asking \cup {k}
  /\ IF redisClient = None
     THEN \E c \in Clients :
            /\ Collectable(c)
            /\ redisClient' = c
            /\ client' = [client EXCEPT ![c] = "open"]
            /\ queue' = [queue EXCEPT ![c] = <<k>>]
     ELSE /\ queue' = [queue EXCEPT ![redisClient] = Append(@, k)]
          /\ UNCHANGED <<client, redisClient>>
  /\ UNCHANGED <<envVars, database, redis, destroyed, todo, status, answer, wasUp>>

(* Mutant: a failed PING does not release the client.                      *)
SendNothing(q) == q

(* cleanupClient up to its await: QUIT to the client of the field, which   *)
(* need not be the one that failed.                                        *)
SendQuit(q) ==
  IF redisClient = None THEN q ELSE [q EXCEPT ![redisClient] = Append(@, Quit)]

(* PONG *)
Pong(c, k) ==
  /\ queue' = [queue EXCEPT ![c] = Tail(@)]
  /\ asking' = asking \ {k}
  /\ Record(k, TRUE)
  /\ UNCHANGED <<client, redisClient>>

(* The catch block of isHealthy.                                           *)
PingFails(c, k) ==
  /\ queue' = SendQuit([queue EXCEPT ![c] = Tail(@)])
  /\ asking' = asking \ {k}
  /\ Record(k, FALSE)
  /\ UNCHANGED <<client, redisClient>>

(* quit() resolves: the client closes, the field is cleared.               *)
QuitResolves(c) ==
  /\ queue' = [queue EXCEPT ![c] = Tail(@)]
  /\ client' = [client EXCEPT ![c] = "closing"]
  /\ redisClient' = None
  /\ UNCHANGED <<todo, asking, status>>

(* Mutant: the catch of cleanupClient does not disconnect.                 *)
QuitForgets(c) ==
  /\ queue' = [queue EXCEPT ![c] = Tail(@)]
  /\ redisClient' = None
  /\ UNCHANGED <<client, todo, asking, status>>

(* quit() rejects: whatever client the field holds by now is disconnected  *)
(* (a field that is null throws and is ignored), the field is cleared.     *)
QuitRejects(c) ==
  /\ queue' = [queue EXCEPT ![c] = Tail(@)]
  /\ client' = IF redisClient = None \/ client[redisClient] # "open" THEN client
               ELSE [client EXCEPT ![redisClient] = "closing"]
  /\ redisClient' = None
  /\ UNCHANGED <<todo, asking, status>>

(* Redis answers the oldest command of an open client.                     *)
Answer(c) ==
  /\ ~Draining
  /\ client[c] = "open"
  /\ redis # "down"
  /\ queue[c] # <<>>
  /\ LET command == Head(queue[c])
     IN \/ command = Quit /\ QuitResolves(c)
        \/ command # Quit /\ redis = "up" /\ Pong(c, command)
        \/ command # Quit /\ redis = "loading" /\ PingFails(c, command)
  /\ UNCHANGED <<envVars, database, redis, destroyed, answer, wasUp>>

(* A closed client refuses the oldest command it still holds.              *)
Refuse(c) ==
  /\ client[c] = "closed"
  /\ queue[c] # <<>>
  /\ LET command == Head(queue[c])
     IN \/ command = Quit /\ QuitRejects(c)
        \/ command # Quit /\ PingFails(c, command)
  /\ UNCHANGED <<envVars, database, redis, destroyed, answer, wasUp>>

(* The socket closes after QUIT or disconnect(), or because Redis is gone; *)
(* retryStrategy gives up at once.                                         *)
Close(c) ==
  /\ ~Draining
  /\ \/ client[c] = "closing"
     \/ client[c] = "open" /\ redis = "down"
  /\ client' = [client EXCEPT ![c] = "closed"]
  /\ UNCHANGED <<envVars, database, redis, queue, redisClient, destroyed, checkVars, wasUp>>

OnModuleDestroy ==
  /\ ~Draining
  /\ ~destroyed
  /\ destroyed' = TRUE
  /\ queue' = SendQuit(queue)
  /\ UNCHANGED <<envVars, database, redis, client, redisClient, checkVars, wasUp>>

(* PostgreSQL and Redis come and go.                                       *)
Environment ==
  /\ ~Draining
  /\ \/ database' = ~database /\ redis' = redis
     \/ redis' \in {"up", "down", "loading"} \ {redis} /\ database' = database
  /\ UNCHANGED <<envVars, redisVars, destroyed, checkVars>>
  /\ wasUp' = [k \in Checks |->
                 IF status[k] = "idle" THEN wasUp[k] ELSE wasUp[k] \cup Available']

CheckSteps(k) ==
  CheckDatabase(k) \/ CheckConfiguration(k) \/ Ping(k) \/ Respond(k)

ClientSteps(c) == Answer(c) \/ Refuse(c) \/ Close(c)

Next ==
  \/ \E k \in Checks : Start(k) \/ CheckSteps(k)
  \/ \E c \in Clients : ClientSteps(c)
  \/ OnModuleDestroy
  \/ Environment

Spec == Init /\ [][Next]_vars

(* The orchestrator keeps probing, the event loop runs every continuation, *)
(* and Redis or the operating system settles every command.                *)
Fairness ==
  /\ \A k \in Checks : WF_vars(Start(k) \/ CheckSteps(k))
  /\ \A c \in Clients : WF_vars(ClientSteps(c))

FairSpec == Spec /\ Fairness

(***************************************************************************)
(* Properties.                                                             *)
(***************************************************************************)

(* However cleanups and checks overlap, no client of redis.health.ts stays *)
(* open outside the field, where nothing would ever close it.              *)
NoClientLeaks == \A c \in Clients : client[c] = "open" => c = redisClient

(* health.controller.ts answers 200 only if every dependency in the        *)
(* service's list was available at some moment of that very check.         *)
UpWasSeen ==
  \A k \in Checks : answer[k] = 200 => Range(Indicators(service)) \subseteq wasUp[k]

(* test/e2e/redis-recovery.e2e-spec.ts: once Redis answers for good, the   *)
(* idempotency service reports ready again and again, although the next    *)
(* check may overtake the cleanup of the last, provided that checks do not *)
(* overlap for ever: those that do may close each other's client.          *)
ReadyAgain ==
  (/\ service = "idempotency-service" /\ portSet
   /\ <>[](redis = "up")
   /\ <>[](Cardinality({k \in Checks : status[k] # "idle"}) <= 1))
    => []<>(\E k \in Checks : answer[k] = 200)

=============================================================================
