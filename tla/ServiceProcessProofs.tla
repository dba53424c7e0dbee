------------------------ MODULE ServiceProcessProofs ------------------------
(***************************************************************************)
(* Theorems about ServiceProcess for any of the services, whatever         *)
(* variables the shared file sets and to what, and every bound on          *)
(* requests, signals and outages.                                          *)
(***************************************************************************)
EXTENDS ServiceProcess, TLAPS

-----------------------------------------------------------------------------
(* The configuration.                                                      *)

(* Every default is positive. *)
LEMMA DefaultsArePositive ==
  /\ \A schema \in PositiveSchemas \cup {GatewaySchema} : \A v \in DOMAIN schema : schema[v] \in Nat \ {0}
  /\ \A v \in DOMAIN RetrySchema : RetrySchema[v] \in Nat
  /\ \A v \in DOMAIN KafkaSchema : KafkaSchema[v] \in Nat
<1>1. \A v \in DOMAIN HttpSchema : HttpSchema[v] \in Nat \ {0}
  BY DEF HttpSchema
<1>2. \A v \in DOMAIN DatabaseSchema : DatabaseSchema[v] \in Nat \ {0}
  BY DEF DatabaseSchema
<1>3. \A v \in DOMAIN OutboxSchema : OutboxSchema[v] \in Nat \ {0}
  BY DEF OutboxSchema
<1>4. \A v \in DOMAIN ServicesSchema : ServicesSchema[v] \in Nat \ {0}
  BY DEF ServicesSchema
<1>5. \A v \in DOMAIN GatewaySchema : GatewaySchema[v] \in Nat \ {0}
  BY DEF GatewaySchema
<1>6. \A v \in DOMAIN RetrySchema : RetrySchema[v] \in Nat
  BY DEF RetrySchema
<1>7. \A v \in DOMAIN KafkaSchema : KafkaSchema[v] \in Nat
  BY DEF KafkaSchema
<1> QED
  BY <1>1, <1>2, <1>3, <1>4, <1>5, <1>6, <1>7 DEF PositiveSchemas

(* What a schema accepts and what the factory makes of it: the two parse   *)
(* the variable on their own, and agree.                                   *)
LEMMA LoadedIs ==
  ASSUME NEW raw \in Raw, NEW default \in Nat
  PROVE  /\ Loaded(raw, default).n \in Int
         /\ IsPositive(raw) /\ default # 0 => Loaded(raw, default).n > 0
         /\ IsNonNegative(raw) => Loaded(raw, default).form = "digits"
         /\ IsNumber(raw) => Loaded(raw, default).form = "digits"
  BY DEF Raw, Loaded, Given, ParseInt, Digits, Word, Absent, IsPositive, IsNonNegative, IsNumber

(* What the services wait for, make and listen on. *)
LEMMA MainIs ==
  ASSUME NEW s \in Services
  PROVE  /\ Awaited(s) \subseteq {"database", "kafka"} /\ Created(s) \subseteq {"redis", "http"}
         /\ DefaultPort(s) \in Nat
         /\ s = "gateway" => DefaultPort(s) = 3000
  BY ProcessAssumption
  DEF Awaited, Created, DefaultPort, Main, GatewayMain, MerchantMain, IdempotencyMain, PaymentMain,
      OrderMain, FraudMain, RelayMain

(* The environment has a raw value for every setting. *)
LEMMA EnvIs ==
  ASSUME env \in Environments
  PROVE  /\ DOMAIN env = Settings
         /\ \A v \in Settings : env[v] \in Raw
         /\ SharedPort \in Raw
<1>1. DOMAIN env = Settings /\ \A v \in Settings : env[v] \in Raw
  BY ProcessAssumption DEF Environments
<1>2. Digits(3000) \in Raw
  BY DEF Digits, Raw
<1> QED
  BY <1>1, <1>2 DEF SharedPort

(* An accepted environment gives every service a port. *)
LEMMA PortIs ==
  ASSUME env \in Environments, NEW s \in Services, Accepted(s)
  PROVE  /\ PortOf(s) \in Nat
         /\ (Given(SharedPort) => SharedPort = Digits(3000)) => PortOf(s) = DefaultPort(s)
<1>1. SharedPort \in Raw /\ IsPositive(SharedPort)
  <2>1. CASE "PORT" \in Settings
    <3>1. "PORT" \in DOMAIN env /\ "PORT" \in DOMAIN HttpSchema /\ HttpSchema \in PositiveSchemas
      BY <2>1, EnvIs DEF HttpSchema, PositiveSchemas
    <3>2. IsPositive(env["PORT"])
      BY <3>1 DEF Accepted, Validates
    <3> QED
      BY <2>1, <3>2, EnvIs DEF SharedPort
  <2>2. CASE "PORT" \notin Settings
    BY <2>2, EnvIs DEF SharedPort, IsPositive, ParseInt, Digits
  <2> QED
    BY <2>1, <2>2
<1> HIDE DEF SharedPort
<1>2. Given(SharedPort) => SharedPort.n \in Nat
  BY <1>1 DEF IsPositive, Raw
<1>3. Loaded(SharedPort, 3000).n \in Nat
  <2>1. 3000 \in Nat /\ 3000 # 0
    OBVIOUS
  <2>2. Loaded(SharedPort, 3000).n \in Int /\ Loaded(SharedPort, 3000).n > 0
    BY <1>1, <2>1, LoadedIs
  <2> QED
    BY <2>2
<1>4. PortOf(s) \in Nat
  BY <1>2, <1>3, MainIs DEF PortOf
<1>5. ASSUME Given(SharedPort) => SharedPort = Digits(3000) PROVE PortOf(s) = DefaultPort(s)
  <2>1. Loaded(SharedPort, 3000).n = 3000
    BY <1>5 DEF Loaded, ParseInt, Digits
  <2> QED
    BY <1>5, <2>1, MainIs DEF PortOf
<1> QED
  BY <1>4, <1>5

-----------------------------------------------------------------------------
(* The inductive invariant: a process that is there was made from an       *)
(* accepted environment, and one that is up has what its bootstrap waited  *)
(* for until its hooks run.                                                *)

Ready(s) ==
  /\ pc[s] # "off" => Accepted(s)
  /\ pc[s] = "up" =>
       /\ Awaited(s) \subseteq open[s]
       /\ HasServer(s) => bound[s] = PortOf(s)

Inv == TypeOK /\ \A s \in Services : Ready(s)

Own(s) == <<pc[s], open[s], bound[s], requests[s]>>

(* The invariant holds initially. *)
LEMMA InitInv == Init => Inv
<1> SUFFICES ASSUME Init PROVE Inv
  OBVIOUS
<1>1. TypeOK
  BY ProcessAssumption DEF Init, TypeOK
<1>2. \A s \in Services : Ready(s)
  BY DEF Init, Ready
<1> QED
  BY <1>1, <1>2 DEF Inv

(* The steps of one service. *)
StepOf(s) ==
  \/ BootSteps(s) \/ StopSteps(s) \/ Accept(s) \/ Answer(s) \/ Terminate(s) \/ Kill(s)

(* What a step of one service leaves alone. *)
LEMMA Frame ==
  ASSUME TypeOK, NEW s \in Services, StepOf(s)
  PROVE  /\ UNCHANGED <<env, available, outages>>
         /\ signals' \in 0 .. MaxSignals
         /\ \A q \in Services \ {s} : Own(q)' = Own(q)
<1>1. UNCHANGED <<env, available, outages>> /\ signals' \in 0 .. MaxSignals
  BY ProcessAssumption DEF TypeOK, StepOf, BootSteps, StopSteps, Accept, Answer, Terminate, Kill, Create, CreateFails,
     EnableShutdownHooks, Connect, ConnectFails, Listen, ListenFails, StartScheduler, Disconnect,
     DestroyAgents, CloseServer, Exit, vars
<1>2. \A q \in Services \ {s} : Own(q)' = Own(q)
  BY DEF TypeOK, StepOf, BootSteps, StopSteps, Accept, Answer, Terminate, Kill, Create, CreateFails,
     EnableShutdownHooks, Connect, ConnectFails, Listen, ListenFails, StartScheduler, Disconnect,
     DestroyAgents, CloseServer, Exit, End, vars, Own
<1> QED
  BY <1>1, <1>2

(* The types of what is the service's own, and Ready, after a step of it. *)
OwnOK(s) ==
  /\ pc[s] \in {"off", "created", "starting", "up", "stopping", "closing"}
  /\ open[s] \subseteq Awaited(s) \cup Created(s)
  /\ bound[s] \in Nat
  /\ requests[s] \in 0 .. MaxRequests
  /\ Ready(s)

(* The variables stay functions of the services. *)
LEMMA StillFunctions ==
  ASSUME TypeOK, NEW s \in Services, StepOf(s)
  PROVE  /\ pc' = [q \in Services |-> pc'[q]] /\ open' = [q \in Services |-> open'[q]]
         /\ bound' = [q \in Services |-> bound'[q]] /\ requests' = [q \in Services |-> requests'[q]]
  BY DEF TypeOK, StepOf, BootSteps, StopSteps, Accept, Answer, Terminate, Kill, Create, CreateFails,
     EnableShutdownHooks, Connect, ConnectFails, Listen, ListenFails, StartScheduler, Disconnect,
     DestroyAgents, CloseServer, Exit, End, vars

(* A process that has ended holds nothing. *)
LEMMA EndOK ==
  ASSUME TypeOK, NEW s \in Services, End(s)
  PROVE  OwnOK(s)'
<1>1. pc'[s] = "off" /\ open'[s] = {} /\ bound'[s] = 0 /\ requests'[s] = 0
  BY DEF End, TypeOK
<1> QED
  BY <1>1, ProcessAssumption DEF OwnOK, Ready

(* A service that is up after a step has validated, connected and bound. *)
LEMMA OwnNext ==
  ASSUME Inv, NEW s \in Services, StepOf(s)
  PROVE  OwnOK(s)'
<1> HIDE DEF Accepted, PortOf
<1>1. /\ pc[s] \in {"off", "created", "starting", "up", "stopping", "closing"}
      /\ open[s] \subseteq Awaited(s) \cup Created(s) /\ bound[s] \in Nat
      /\ requests[s] \in 0 .. MaxRequests /\ Ready(s) /\ TypeOK
      /\ pc \in [Services -> {"off", "created", "starting", "up", "stopping", "closing"}]
      /\ open \in [Services -> SUBSET {"database", "kafka", "redis", "http"}]
      /\ bound \in [Services -> Nat] /\ requests \in [Services -> 0 .. MaxRequests]
      /\ MaxRequests \in Nat
  BY ProcessAssumption DEF Inv, TypeOK
<1>2. UNCHANGED env
  BY <1>1, Frame
<1>3. Accepted(s)' = Accepted(s) /\ PortOf(s)' = PortOf(s)
  BY <1>2 DEF Accepted, PortOf, SharedPort
<1>4. CASE Create(s)
  BY <1>1, <1>3, <1>4 DEF Create, OwnOK, Ready
<1>5. CASE CreateFails(s)
  BY <1>1, <1>3, <1>5 DEF CreateFails, vars, OwnOK, Ready
<1>6. CASE EnableShutdownHooks(s)
  BY <1>1, <1>3, <1>6 DEF EnableShutdownHooks, OwnOK, Ready
<1>7. ASSUME NEW d \in Dependencies, Connect(s, d) PROVE OwnOK(s)'
  BY <1>1, <1>3, <1>7 DEF Connect, Initializing, OwnOK, Ready
<1>8. CASE Listen(s)
  <2>1. Accepted(s)
    BY <1>1, <1>8 DEF Listen, Initialized, Initializing, Ready
  <2>2. PortOf(s) \in Nat
    BY <2>1, PortIs DEF Inv, TypeOK
  <2> QED
    BY <1>1, <1>3, <1>8, <2>1, <2>2 DEF Listen, Initialized, OwnOK, Ready
<1>9. CASE StartScheduler(s)
  <2>1. Accepted(s)
    BY <1>1, <1>9 DEF StartScheduler, Initialized, Initializing, Ready
  <2> QED
    BY <1>1, <1>3, <1>9, <2>1 DEF StartScheduler, Initialized, OwnOK, Ready
<1>10. CASE Accept(s)
  BY <1>1, <1>3, <1>10 DEF Accept, OwnOK, Ready
<1>11. CASE Answer(s)
  BY <1>1, <1>3, <1>11 DEF Answer, OwnOK, Ready
<1>12. CASE Terminate(s)
  BY <1>1, <1>3, <1>12 DEF Terminate, OwnOK, Ready
<1>13. ASSUME NEW d \in Dependencies \cup {"redis"}, Disconnect(s, d) PROVE OwnOK(s)'
  BY <1>1, <1>3, <1>13 DEF Disconnect, OwnOK, Ready
<1>14. CASE DestroyAgents(s)
  BY <1>1, <1>3, <1>14 DEF DestroyAgents, OwnOK, Ready
<1>15. CASE CloseServer(s)
  BY <1>1, <1>3, <1>15 DEF CloseServer, OwnOK, Ready
<1>16. CASE End(s)
  BY <1>1, <1>16, EndOK
<1> QED
  BY <1>4, <1>5, <1>6, <1>7, <1>8, <1>9, <1>10, <1>11, <1>12, <1>13, <1>14, <1>15, <1>16
  DEF StepOf, BootSteps, StopSteps, ConnectFails, ListenFails, Kill, Exit

(* Every step keeps it. *)
LEMMA NextInv == Inv /\ [Next]_vars => Inv'
<1> SUFFICES ASSUME Inv, [Next]_vars PROVE Inv'
  OBVIOUS
<1> HIDE DEF Accepted, PortOf
<1>1. ASSUME NEW s \in Services, StepOf(s) PROVE Inv'
  <2>1. ASSUME NEW q \in Services PROVE OwnOK(q)'
    <3>1. CASE q = s
      BY <1>1, <3>1, OwnNext
    <3>2. CASE q # s
      <4>1. Own(q)' = Own(q) /\ UNCHANGED env
        BY <1>1, <3>2, Frame DEF Inv
      <4>2. Accepted(q)' = Accepted(q) /\ PortOf(q)' = PortOf(q)
        BY <4>1 DEF Accepted, PortOf, SharedPort
      <4> QED
        BY <4>1, <4>2 DEF Own, OwnOK, Ready, Inv, TypeOK
    <3> QED
      BY <3>1, <3>2
  <2>2. /\ pc' \in [Services -> {"off", "created", "starting", "up", "stopping", "closing"}]
        /\ bound' \in [Services -> Nat] /\ requests' \in [Services -> 0 .. MaxRequests]
    BY <1>1, <2>1, StillFunctions DEF OwnOK, Inv
  <2>3. open' \in [Services -> SUBSET {"database", "kafka", "redis", "http"}]
    <3>1. \A q \in Services : open'[q] \subseteq {"database", "kafka", "redis", "http"}
      BY <2>1, MainIs DEF OwnOK
    <3> QED
      BY <1>1, <3>1, StillFunctions DEF Inv
  <2>4. TypeOK'
    BY <1>1, <2>1, <2>2, <2>3, Frame DEF Inv, TypeOK, OwnOK
  <2> QED
    BY <2>1, <2>4 DEF Inv, OwnOK
<1>2. ASSUME NEW d \in Dependencies, Outage(d) \/ Return(d) PROVE Inv'
  <2>1. UNCHANGED <<env, pc, open, bound, requests, signals>>
    BY <1>2 DEF Outage, Return
  <2>2. available' \subseteq {"database", "kafka"} /\ outages' \in 0 .. MaxOutages
    <3>1. available \subseteq {"database", "kafka"} /\ outages \in 0 .. MaxOutages /\ MaxOutages \in Nat
      BY ProcessAssumption DEF Inv, TypeOK
    <3>2. available' \subseteq {"database", "kafka"}
      BY <1>2, <3>1 DEF Outage, Return, Dependencies
    <3>3. outages' = outages \/ (outages < MaxOutages /\ outages' = outages + 1)
      BY <1>2 DEF Outage, Return
    <3> QED
      BY <3>1, <3>2, <3>3
  <2>3. TypeOK'
    BY <2>1, <2>2 DEF Inv, TypeOK
  <2>4. \A q \in Services : Ready(q)'
    BY <2>1 DEF Inv, Ready, Accepted, PortOf, SharedPort
  <2> QED
    BY <2>3, <2>4 DEF Inv
<1>3. CASE UNCHANGED vars
  <2>1. TypeOK'
    BY <1>3 DEF vars, Inv, TypeOK
  <2>2. \A q \in Services : Ready(q)'
    BY <1>3 DEF vars, Inv, Ready, Accepted, PortOf, SharedPort
  <2> QED
    BY <2>1, <2>2 DEF Inv
<1> QED
  BY <1>1, <1>2, <1>3 DEF Next, StepOf

-----------------------------------------------------------------------------

(* The inductive invariant: a process past its validation has settings the *)
(* schemas accept, and one that is up has its connections and its port.    *)
THEOREM ProcessInvariant == Spec => []Inv
  BY InitInv, NextInv, PTL DEF Spec

(* No service that is up works with a setting its schema was to keep out:  *)
(* the schemas and the factories that parse the same texts agree on every  *)
(* one of them.                                                            *)
THEOREM UsableSettingsHolds == Spec => []UsableSettings
<1>1. Inv => UsableSettings
  <2> SUFFICES ASSUME Inv, NEW s \in Services, NEW v \in Settings, Up(s)
               PROVE  /\ \A schema \in PositiveSchemas :
                           v \in DOMAIN schema => Loaded(env[v], schema[v]).n > 0
                      /\ v \in DOMAIN RetrySchema => Loaded(env[v], RetrySchema[v]).form = "digits"
                      /\ v \in DOMAIN KafkaSchema => Loaded(env[v], KafkaSchema[v]).form = "digits"
                      /\ v \in DOMAIN GatewaySchema /\ s = "gateway" =>
                           Loaded(env[v], GatewaySchema[v]).n > 0
    BY DEF UsableSettings
  <2>1. Accepted(s) /\ v \in DOMAIN env /\ env[v] \in Raw
    BY EnvIs DEF Inv, TypeOK, Ready, Up
  <2>2. ASSUME NEW schema \in PositiveSchemas, v \in DOMAIN schema
        PROVE  Loaded(env[v], schema[v]).n > 0
    <3>1. IsPositive(env[v]) /\ schema[v] \in Nat /\ schema[v] # 0
      BY <2>1, <2>2, DefaultsArePositive DEF Accepted, Validates
    <3> QED
      BY <2>1, <3>1, LoadedIs
  <2>3. ASSUME v \in DOMAIN RetrySchema PROVE Loaded(env[v], RetrySchema[v]).form = "digits"
    <3>1. IsNonNegative(env[v]) /\ RetrySchema[v] \in Nat
      BY <2>1, <2>3, DefaultsArePositive DEF Accepted, Validates
    <3> QED
      BY <2>1, <3>1, LoadedIs
  <2>4. ASSUME v \in DOMAIN KafkaSchema PROVE Loaded(env[v], KafkaSchema[v]).form = "digits"
    <3>1. IsNumber(env[v]) /\ KafkaSchema[v] \in Nat
      BY <2>1, <2>4, DefaultsArePositive DEF Accepted, Validates
    <3> QED
      BY <2>1, <3>1, LoadedIs
  <2>5. ASSUME v \in DOMAIN GatewaySchema, s = "gateway" PROVE Loaded(env[v], GatewaySchema[v]).n > 0
    <3>1. IsPositive(env[v]) /\ GatewaySchema[v] \in Nat /\ GatewaySchema[v] # 0
      BY <2>1, <2>5, DefaultsArePositive DEF Accepted, GatewayValidates
    <3> QED
      BY <2>1, <3>1, LoadedIs
  <2> QED
    BY <2>2, <2>3, <2>4, <2>5
<1> QED
  BY <1>1, ProcessInvariant, PTL

(* A service that is up has made the connections its hooks wait for and    *)
(* listens where its callers look for it.                                  *)
THEOREM UpAndReachableHolds == Spec => []UpAndReachable
<1>1. Inv => UpAndReachable
  BY PortIs DEF Inv, TypeOK, Ready, Up, UpAndReachable
<1> QED
  BY <1>1, ProcessInvariant, PTL

=============================================================================
