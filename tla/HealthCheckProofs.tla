-------------------------- MODULE HealthCheckProofs --------------------------
(***************************************************************************)
(* Theorems about HealthCheck for every set of overlapping checks and of   *)
(* clients, and any services.                                              *)
(***************************************************************************)
EXTENDS HealthCheck, TLAPS

-----------------------------------------------------------------------------
(* The command queues of the clients.                                      *)

(* Every PING is the one of a check that waits for it. *)
QueuesOK(q, waiting) ==
  /\ q \in [Clients -> Seq(Checks \cup {Quit})]
  /\ \A c \in Clients : \A i \in 1 .. Len(q[c]) : q[c][i] # Quit => q[c][i] \in waiting
  /\ \A c, d \in Clients : \A i \in 1 .. Len(q[c]), j \in 1 .. Len(q[d]) :
       q[c][i] = q[d][j] /\ q[c][i] # Quit => c = d /\ i = j

(* The oldest command is answered. *)
LEMMA TailOK ==
  ASSUME NEW q, NEW waiting, QueuesOK(q, waiting), NEW c \in Clients, q[c] # <<>>
  PROVE  QueuesOK([q EXCEPT ![c] = Tail(@)], waiting \ {Head(q[c])})
<1> DEFINE r == [q EXCEPT ![c] = Tail(@)]
<1>1. q[c] \in Seq(Checks \cup {Quit})
  BY DEF QueuesOK
<1>2. /\ Tail(q[c]) \in Seq(Checks \cup {Quit}) /\ Len(Tail(q[c])) = Len(q[c]) - 1 /\ Len(q[c]) \in Nat \ {0}
      /\ \A i \in 1 .. Len(Tail(q[c])) : Tail(q[c])[i] = q[c][i + 1]
      /\ Head(q[c]) = q[c][1]
  BY <1>1
<1>3. r \in [Clients -> Seq(Checks \cup {Quit})] /\ r[c] = Tail(q[c]) /\ \A d \in Clients \ {c} : r[d] = q[d]
  BY <1>2 DEF QueuesOK
<1> HIDE DEF r
<1>4. ASSUME NEW d \in Clients, NEW i \in 1 .. Len(r[d]), r[d][i] # Quit
      PROVE  r[d][i] \in waiting \ {Head(q[c])}
  <2>1. CASE d = c
    BY <1>2, <1>3, <1>4, <2>1 DEF QueuesOK
  <2>2. CASE d # c
    <3>1. r[d] = q[d] /\ 1 \in 1 .. Len(q[c])
      BY <1>2, <1>3, <2>2
    <3> QED
      BY <1>2, <1>4, <2>2, <3>1 DEF QueuesOK
  <2> QED
    BY <2>1, <2>2
<1>5. ASSUME NEW d \in Clients, NEW i \in 1 .. Len(r[d])
      PROVE  \/ d = c /\ i \in Nat /\ i + 1 \in 1 .. Len(q[d]) /\ r[d][i] = q[d][i + 1]
             \/ d # c /\ i \in 1 .. Len(q[d]) /\ r[d][i] = q[d][i]
  <2>1. CASE d = c
    BY <1>2, <1>3, <2>1
  <2>2. CASE d # c
    <3>1. r[d] = q[d]
      BY <1>3, <2>2
    <3> QED
      BY <2>2, <3>1
  <2> QED
    BY <2>1, <2>2
<1>6. ASSUME NEW d \in Clients, NEW e \in Clients, NEW i \in 1 .. Len(r[d]), NEW j \in 1 .. Len(r[e]),
             r[d][i] = r[e][j], r[d][i] # Quit
      PROVE  d = e /\ i = j
  <2>1. PICK m \in 1 .. Len(q[d]) : /\ r[d][i] = q[d][m]
                                    /\ \/ d = c /\ m = i + 1 /\ i \in Nat
                                       \/ d # c /\ m = i
    BY <1>5
  <2>2. PICK n \in 1 .. Len(q[e]) : /\ r[e][j] = q[e][n]
                                    /\ \/ e = c /\ n = j + 1 /\ j \in Nat
                                       \/ e # c /\ n = j
    BY <1>5
  <2>3. d = e /\ m = n
    <3>1. q[d][m] = q[e][n] /\ q[d][m] # Quit
      BY <1>6, <2>1, <2>2
    <3>2. \A x \in 1 .. Len(q[d]), y \in 1 .. Len(q[e]) :
            q[d][x] = q[e][y] /\ q[d][x] # Quit => d = e /\ x = y
      BY DEF QueuesOK
    <3> QED
      BY <3>1, <3>2
  <2> QED
    BY <2>1, <2>2, <2>3
<1> QED
  BY <1>3, <1>4, <1>6 DEF QueuesOK, r

(* A command is sent: QUIT, or the PING of a check that waits for no other. *)
LEMMA AppendOK ==
  ASSUME NEW q, NEW waiting, QueuesOK(q, waiting), NEW c \in Clients, NEW k \in Checks \cup {Quit},
         k = Quit \/ k \notin waiting
  PROVE  QueuesOK([q EXCEPT ![c] = Append(@, k)], waiting \cup {k})
<1> DEFINE r == [q EXCEPT ![c] = Append(@, k)]
<1>1. q[c] \in Seq(Checks \cup {Quit})
  BY DEF QueuesOK
<1>2. /\ Append(q[c], k) \in Seq(Checks \cup {Quit}) /\ Len(Append(q[c], k)) = Len(q[c]) + 1 /\ Len(q[c]) \in Nat
      /\ \A i \in 1 .. Len(q[c]) : Append(q[c], k)[i] = q[c][i]
      /\ Append(q[c], k)[Len(q[c]) + 1] = k
  BY <1>1
<1>3. r \in [Clients -> Seq(Checks \cup {Quit})] /\ r[c] = Append(q[c], k) /\ \A d \in Clients \ {c} : r[d] = q[d]
  BY <1>2 DEF QueuesOK
<1> HIDE DEF r
<1>4. ASSUME NEW d \in Clients, NEW i \in 1 .. Len(r[d])
      PROVE  \/ d = c /\ i = Len(q[c]) + 1 /\ r[d][i] = k
             \/ i \in 1 .. Len(q[d]) /\ r[d][i] = q[d][i]
  <2>1. CASE d = c
    BY <1>2, <1>3, <2>1
  <2>2. CASE d # c
    <3>1. r[d] = q[d]
      BY <1>3, <2>2
    <3> QED
      BY <2>2, <3>1
  <2> QED
    BY <2>1, <2>2
<1>5. ASSUME NEW d \in Clients, NEW i \in 1 .. Len(r[d]), r[d][i] # Quit
      PROVE  r[d][i] \in waiting \cup {k}
  BY <1>4, <1>5 DEF QueuesOK
<1>6. ASSUME NEW d \in Clients, NEW e \in Clients, NEW i \in 1 .. Len(r[d]), NEW j \in 1 .. Len(r[e]),
             r[d][i] = r[e][j], r[d][i] # Quit
      PROVE  d = e /\ i = j
  <2>1. CASE i \in 1 .. Len(q[d]) /\ r[d][i] = q[d][i] /\ j \in 1 .. Len(q[e]) /\ r[e][j] = q[e][j]
    <3>1. q[d][i] = q[e][j] /\ q[d][i] # Quit
      BY <1>6, <2>1
    <3>2. \A m \in 1 .. Len(q[d]), n \in 1 .. Len(q[e]) :
            q[d][m] = q[e][n] /\ q[d][m] # Quit => d = e /\ m = n
      BY DEF QueuesOK
    <3> QED
      BY <2>1, <3>1, <3>2
  <2>2. CASE d = c /\ i = Len(q[c]) + 1 /\ r[d][i] = k
    <3>1. ~(j \in 1 .. Len(q[e]) /\ r[e][j] = q[e][j])
      BY <1>6, <2>2 DEF QueuesOK
    <3> QED
      BY <1>4, <2>2, <3>1
  <2>3. CASE e = c /\ j = Len(q[c]) + 1 /\ r[e][j] = k
    <3>1. ~(i \in 1 .. Len(q[d]) /\ r[d][i] = q[d][i])
      BY <1>6, <2>3 DEF QueuesOK
    <3> QED
      BY <1>4, <2>3, <3>1
  <2> QED
    BY <1>4, <2>1, <2>2, <2>3
<1> QED
  BY <1>3, <1>5, <1>6 DEF QueuesOK, r

(* Only the PINGs need someone who waits. *)
LEMMA WeakenOK ==
  ASSUME NEW q, NEW waiting, QueuesOK(q, waiting), NEW others, waiting \ {Quit} \subseteq others
  PROVE  QueuesOK(q, others)
BY DEF QueuesOK

(* cleanupClient sends QUIT, to the client of the field if there is one. *)
LEMMA SendQuitOK ==
  ASSUME NEW q, NEW waiting, QueuesOK(q, waiting), redisClient \in Clients \cup {None}
  PROVE  QueuesOK(SendQuit(q), waiting)
<1>1. CASE redisClient = None
  BY <1>1 DEF SendQuit
<1>2. CASE redisClient # None
  <2>1. redisClient \in Clients /\ SendQuit(q) = [q EXCEPT ![redisClient] = Append(@, Quit)]
    BY <1>2 DEF SendQuit
  <2>2. PICK c \in Clients : c = redisClient
    BY <2>1
  <2>3. QueuesOK([q EXCEPT ![c] = Append(@, Quit)], waiting \cup {Quit})
    BY AppendOK
  <2> QED
    BY <2>1, <2>2, <2>3, WeakenOK
<1> QED
  BY <1>1, <1>2

-----------------------------------------------------------------------------
(* The inductive invariant.                                                *)

Queues == QueuesOK(queue, asking)

(* A check that waits for a PONG is at the Redis indicator. *)
Asked ==
  \A k \in asking : status[k] # "idle" /\ todo[k] # <<>> /\ Head(todo[k]) = "redis"

(* A check under way has seen what is available now, and, as long as its   *)
(* result is UP, everything it has asked already.                          *)
Seen ==
  \A k \in Checks : status[k] # "idle" =>
    /\ Available \subseteq wasUp[k]
    /\ Range(todo[k]) \subseteq Range(Indicators(service))
    /\ status[k] = "UP" => Range(Indicators(service)) \subseteq wasUp[k] \cup Range(todo[k])

Inv == TypeOK /\ NoClientLeaks /\ Queues /\ Asked /\ Seen /\ UpWasSeen

Names == {"database", "redis", "configuration"}

(* Every service's list is one of indicators. *)
LEMMA IndicatorsType == \A s : Indicators(s) \in Seq(Names)
<1>1. /\ <<"database", "configuration">> \in Seq(Names) /\ <<"redis", "configuration">> \in Seq(Names)
      /\ <<"configuration">> \in Seq(Names)
  BY DEF Names
<1>2. \A s : Indicators(s) \in {<<"database", "configuration">>, <<"redis", "configuration">>, <<"configuration">>}
  BY ConfiguredAssumption DEF Indicators
<1> QED
  BY <1>1, <1>2

(* What is left after one indicator was asked. *)
LEMMA RangeTail ==
  ASSUME NEW s \in Seq(Names), s # <<>>
  PROVE  /\ Tail(s) \in Seq(Names) /\ Head(s) \in Range(s)
         /\ Range(s) = {Head(s)} \cup Range(Tail(s))
<1>1. /\ Tail(s) \in Seq(Names) /\ Len(Tail(s)) = Len(s) - 1 /\ Len(s) \in Nat \ {0}
      /\ \A i \in 1 .. Len(Tail(s)) : Tail(s)[i] = s[i + 1]
      /\ Head(s) = s[1] /\ DOMAIN s = 1 .. Len(s) /\ DOMAIN Tail(s) = 1 .. Len(Tail(s))
  OBVIOUS
<1>2. Head(s) \in Range(s)
  BY <1>1 DEF Range
<1>3. ASSUME NEW x \in Range(Tail(s))
      PROVE  x \in Range(s)
  <2>1. PICK i \in 1 .. Len(Tail(s)) : x = Tail(s)[i]
    BY <1>1, <1>3 DEF Range
  <2>2. i + 1 \in 1 .. Len(s) /\ x = s[i + 1]
    BY <1>1, <2>1
  <2> QED
    BY <1>1, <2>2 DEF Range
<1>4. ASSUME NEW x \in Range(s), x # Head(s)
      PROVE  x \in Range(Tail(s))
  <2>1. PICK i \in 1 .. Len(s) : x = s[i]
    BY <1>1, <1>4 DEF Range
  <2>2. i - 1 \in 1 .. Len(Tail(s)) /\ x = Tail(s)[i - 1]
    BY <1>1, <1>4, <2>1
  <2> QED
    BY <1>1, <2>2 DEF Range
<1> QED
  BY <1>1, <1>2, <1>3, <1>4

(* The names of a list are names. *)
LEMMA RangeIn == \A s \in Seq(Names) : Range(s) \subseteq Names
BY DEF Range

(* The entry of an indicator that answers well. *)
LEMMA AvailableIs ==
  ASSUME NEW i \in Range(Indicators(service))
  PROVE  /\ i = "database" /\ database => i \in Available
         /\ i = "redis" /\ redis = "up" => i \in Available
         /\ i = "configuration" /\ portSet => i \in Available
BY DEF Available

(* No indicator is left. *)
LEMMA RangeEmpty == Range(<<>>) = {}
BY DEF Range

(* One turn of the loop over the indicators: its answer comes in. *)
LEMMA RecordKeeps ==
  ASSUME Inv, NEW k \in Checks, NEW ok \in BOOLEAN, Record(k, ok),
         status[k] # "idle", todo[k] # <<>>, ok => Head(todo[k]) \in Available,
         asking' = asking \ {k},
         UNCHANGED <<envVars, database, redis, answer, wasUp>>
  PROVE  /\ todo' \in [Checks -> Seq(Names)] /\ status' \in [Checks -> {"idle", "UP", "DOWN"}]
         /\ Asked' /\ Seen' /\ UpWasSeen'
<1>1. todo \in [Checks -> Seq(Names)] /\ status \in [Checks -> {"idle", "UP", "DOWN"}] /\ asking \subseteq Checks
  BY DEF Inv, TypeOK, Names
<1>2. /\ Tail(todo[k]) \in Seq(Names)
      /\ Range(todo[k]) = {Head(todo[k])} \cup Range(Tail(todo[k]))
  BY <1>1, RangeTail
<1>3. /\ todo' \in [Checks -> Seq(Names)] /\ todo'[k] = Tail(todo[k])
      /\ \A j \in Checks \ {k} : todo'[j] = todo[j]
      /\ status' \in [Checks -> {"idle", "UP", "DOWN"}]
      /\ \A j \in Checks \ {k} : status'[j] = status[j]
      /\ status'[k] = IF ok THEN status[k] ELSE "DOWN"
  BY <1>1, <1>2 DEF Record
<1>4. service' = service /\ Available' = Available /\ wasUp' = wasUp /\ answer' = answer
  BY DEF envVars, Available
<1>5. Asked'
  <2> SUFFICES ASSUME NEW j \in asking'
               PROVE  status'[j] # "idle" /\ todo'[j] # <<>> /\ Head(todo'[j]) = "redis"
    BY DEF Asked
  <2>1. j \in asking /\ j \in Checks \ {k}
    BY <1>1
  <2> QED
    BY <1>3, <2>1 DEF Inv, Asked
<1>6. Seen'
  <2> SUFFICES ASSUME NEW j \in Checks, status'[j] # "idle"
               PROVE  /\ Available \subseteq wasUp[j]
                      /\ Range(todo'[j]) \subseteq Range(Indicators(service))
                      /\ status'[j] = "UP" => Range(Indicators(service)) \subseteq wasUp[j] \cup Range(todo'[j])
    BY <1>4 DEF Seen
  <2>1. CASE j # k
    <3>1. todo'[j] = todo[j] /\ status'[j] = status[j]
      BY <1>3, <2>1
    <3> QED
      BY <3>1 DEF Inv, Seen
  <2>2. CASE j = k
    <3>1. /\ Available \subseteq wasUp[k]
          /\ Range(todo[k]) \subseteq Range(Indicators(service))
          /\ status[k] = "UP" => Range(Indicators(service)) \subseteq wasUp[k] \cup Range(todo[k])
      BY DEF Inv, Seen
    <3>2. Range(todo'[k]) = Range(Tail(todo[k]))
      BY <1>3
    <3>3. CASE ok
      BY <1>2, <1>3, <2>2, <3>1, <3>2, <3>3
    <3>4. CASE ~ok
      BY <1>2, <1>3, <2>2, <3>1, <3>2, <3>4
    <3> QED
      BY <3>3, <3>4
  <2> QED
    BY <2>1, <2>2
<1>7. UpWasSeen'
  BY <1>4 DEF Inv, UpWasSeen
<1> QED
  BY <1>3, <1>5, <1>6, <1>7

-----------------------------------------------------------------------------
(* Steps.                                                                  *)

(* The invariant holds initially. *)
LEMMA InitInv == Init => Inv
<1> SUFFICES ASSUME Init PROVE Inv
  OBVIOUS
<1>1. TypeOK
  <2>1. /\ client \in [Clients -> {"free", "open", "closing", "closed"}]
        /\ queue \in [Clients -> Seq(Checks \cup {Quit})]
        /\ todo \in [Checks -> Seq({"database", "redis", "configuration"})]
    BY DEF Init
  <2> QED
    BY <2>1 DEF Init, TypeOK
<1>2. Queues
  <2>1. \A c \in Clients : queue[c] = <<>> /\ Len(queue[c]) = 0
    BY DEF Init
  <2> QED
    BY <1>1, <2>1 DEF Queues, QueuesOK, TypeOK
<1>3. NoClientLeaks /\ Asked /\ Seen /\ UpWasSeen
  BY DEF Init, NoClientLeaks, Asked, Seen, UpWasSeen
<1> QED
  BY <1>1, <1>2, <1>3 DEF Inv

(* The clients are left alone. *)
LEMMA ClientsStay ==
  ASSUME Inv, redisVars' = redisVars, asking \subseteq asking'
  PROVE  NoClientLeaks' /\ Queues'
<1>1. client' = client /\ queue' = queue /\ redisClient' = redisClient
  BY DEF redisVars
<1>2. QueuesOK(queue, asking')
  BY WeakenOK DEF Inv, Queues
<1> QED
  BY <1>1, <1>2 DEF Inv, NoClientLeaks, Queues

(* checkReadiness begins. *)
LEMMA StartInv ==
  ASSUME Inv, NEW k \in Checks, Start(k)
  PROVE  Inv'
<1>1. /\ todo \in [Checks -> Seq(Names)] /\ status \in [Checks -> {"idle", "UP", "DOWN"}]
      /\ answer \in [Checks -> {0, 200, 503}] /\ wasUp \in [Checks -> SUBSET Names] /\ asking \subseteq Checks
  BY DEF Inv, TypeOK, Names
<1>2. Indicators(service) \in Seq(Names)
  BY IndicatorsType
<1>3. Available \subseteq Names /\ Range(Indicators(service)) \subseteq Names
  <2>1. Available \subseteq Range(Indicators(service))
    BY DEF Available
  <2> QED
    BY <1>2, <2>1, RangeIn
<1>4. /\ todo' \in [Checks -> Seq(Names)] /\ todo'[k] = Indicators(service)
      /\ \A j \in Checks \ {k} : todo'[j] = todo[j]
      /\ status' \in [Checks -> {"idle", "UP", "DOWN"}] /\ status'[k] = "UP"
      /\ \A j \in Checks \ {k} : status'[j] = status[j]
      /\ answer' \in [Checks -> {0, 200, 503}] /\ answer'[k] = 0
      /\ \A j \in Checks \ {k} : answer'[j] = answer[j]
      /\ wasUp' \in [Checks -> SUBSET Names] /\ wasUp'[k] = Available
      /\ \A j \in Checks \ {k} : wasUp'[j] = wasUp[j]
  BY <1>1, <1>2, <1>3 DEF Start
<1>5. /\ service' = service /\ Available' = Available /\ asking' = asking
      /\ UNCHANGED <<portSet, database, redis, client, queue, redisClient, destroyed>>
  BY DEF Start, envVars, redisVars, Available
<1>6. TypeOK'
  BY <1>4, <1>5 DEF Inv, TypeOK, Names
<1>7. NoClientLeaks' /\ Queues'
  BY <1>5, ClientsStay DEF redisVars
<1>8. Asked'
  <2>1. k \notin asking
    BY DEF Inv, Asked, Start
  <2> QED
    BY <1>1, <1>4, <1>5, <2>1 DEF Inv, Asked
<1>9. Seen'
  <2> SUFFICES ASSUME NEW j \in Checks, status'[j] # "idle"
               PROVE  /\ Available \subseteq wasUp'[j]
                      /\ Range(todo'[j]) \subseteq Range(Indicators(service))
                      /\ status'[j] = "UP" => Range(Indicators(service)) \subseteq wasUp'[j] \cup Range(todo'[j])
    BY <1>5 DEF Seen
  <2>1. CASE j = k
    BY <1>4, <2>1
  <2>2. CASE j # k
    <3>1. todo'[j] = todo[j] /\ status'[j] = status[j] /\ wasUp'[j] = wasUp[j]
      BY <1>4, <2>2
    <3> QED
      BY <3>1 DEF Inv, Seen
  <2> QED
    BY <2>1, <2>2
<1>10. UpWasSeen'
  BY <1>4, <1>5 DEF Inv, UpWasSeen
<1> QED
  BY <1>6, <1>7, <1>8, <1>9, <1>10 DEF Inv

(* The two indicators that answer in the same turn. *)
LEMMA CheckInv ==
  ASSUME Inv, NEW k \in Checks, CheckDatabase(k) \/ CheckConfiguration(k)
  PROVE  Inv'
<1>1. PICK ok \in BOOLEAN : Record(k, ok) /\ (ok => Head(todo[k]) \in Available)
  <2>1. status[k] # "idle" /\ todo[k] # <<>>
    BY DEF CheckDatabase, CheckConfiguration, AsksNext
  <2>2. Head(todo[k]) \in Range(Indicators(service))
    BY <2>1, RangeTail DEF Inv, TypeOK, Names, Seen
  <2>3. CASE CheckDatabase(k)
    <3>1. Head(todo[k]) = "database" /\ Record(k, database) /\ database \in BOOLEAN
      BY <2>3 DEF CheckDatabase, AsksNext, IsConnected, Inv, TypeOK
    <3>2. database => Head(todo[k]) \in Available
      BY <2>2, <3>1, AvailableIs
    <3> QED
      BY <3>1, <3>2, Zenon
  <2>4. CASE CheckConfiguration(k)
    <3>1. Head(todo[k]) = "configuration" /\ Record(k, portSet) /\ portSet \in BOOLEAN
      BY <2>4 DEF CheckConfiguration, AsksNext, Inv, TypeOK
    <3>2. portSet => Head(todo[k]) \in Available
      BY <2>2, <3>1, AvailableIs
    <3> QED
      BY <3>1, <3>2, Zenon
  <2> QED
    BY <2>3, <2>4
<1>2. /\ status[k] # "idle" /\ todo[k] # <<>> /\ k \notin asking /\ asking' = asking
      /\ UNCHANGED <<envVars, database, redis, answer, wasUp, redisVars, destroyed>>
  BY DEF CheckDatabase, CheckConfiguration, AsksNext
<1>3. /\ todo' \in [Checks -> Seq(Names)] /\ status' \in [Checks -> {"idle", "UP", "DOWN"}]
      /\ Asked' /\ Seen' /\ UpWasSeen'
  <2>1. asking' = asking \ {k}
    BY <1>2
  <2> QED
    BY <1>1, <1>2, <2>1, RecordKeeps
<1>4. NoClientLeaks' /\ Queues'
  BY <1>2, ClientsStay
<1>5. TypeOK'
  BY <1>2, <1>3 DEF Inv, TypeOK, envVars, redisVars, Names
<1> QED
  BY <1>3, <1>4, <1>5 DEF Inv

(* The controller answers. *)
LEMMA RespondInv ==
  ASSUME Inv, NEW k \in Checks, Respond(k)
  PROVE  Inv'
<1>1. /\ todo \in [Checks -> Seq(Names)] /\ status \in [Checks -> {"idle", "UP", "DOWN"}]
      /\ answer \in [Checks -> {0, 200, 503}] /\ asking \subseteq Checks
  BY DEF Inv, TypeOK, Names
<1>2. /\ status' \in [Checks -> {"idle", "UP", "DOWN"}] /\ status'[k] = "idle"
      /\ \A j \in Checks \ {k} : status'[j] = status[j]
      /\ answer' \in [Checks -> {0, 200, 503}] /\ answer'[k] = (IF status[k] = "UP" THEN 200 ELSE 503)
      /\ \A j \in Checks \ {k} : answer'[j] = answer[j]
  BY <1>1 DEF Respond
<1>3. /\ service' = service /\ Available' = Available /\ asking' = asking /\ todo' = todo /\ wasUp' = wasUp
      /\ UNCHANGED <<portSet, database, redis, client, queue, redisClient, destroyed>>
  BY DEF Respond, envVars, redisVars, Available
<1>4. TypeOK'
  BY <1>2, <1>3 DEF Inv, TypeOK
<1>5. NoClientLeaks' /\ Queues'
  BY <1>3, ClientsStay DEF redisVars
<1>6. Asked'
  <2>1. k \notin asking
    BY DEF Inv, Asked, Respond
  <2> QED
    BY <1>1, <1>2, <1>3, <2>1 DEF Inv, Asked
<1>7. Seen'
  BY <1>2, <1>3 DEF Inv, Seen
<1>8. UpWasSeen'
  <2>1. status[k] = "UP" => Range(Indicators(service)) \subseteq wasUp[k]
    BY RangeEmpty DEF Inv, Seen, Respond
  <2> SUFFICES ASSUME NEW j \in Checks, answer'[j] = 200
               PROVE  Range(Indicators(service)) \subseteq wasUp[j]
    BY <1>3 DEF UpWasSeen
  <2> QED
    BY <1>2, <2>1 DEF Inv, UpWasSeen
<1> QED
  BY <1>4, <1>5, <1>6, <1>7, <1>8 DEF Inv

(* isHealthy of the Redis indicator sends its PING. *)
LEMMA PingInv ==
  ASSUME Inv, NEW k \in Checks, Ping(k)
  PROVE  Inv'
<1>1. /\ k \notin asking /\ k # Quit /\ asking' = asking \cup {k}
      /\ status[k] # "idle" /\ todo[k] # <<>> /\ Head(todo[k]) = "redis"
      /\ UNCHANGED <<envVars, database, redis, destroyed, todo, status, answer, wasUp>>
  BY NamesAssumption DEF Ping, AsksNext
<1>2. /\ service' = service /\ Available' = Available
      /\ UNCHANGED <<portSet, database, redis, destroyed, todo, status, answer, wasUp>>
  BY <1>1 DEF envVars, Available
<1>3. Asked' /\ Seen' /\ UpWasSeen'
  BY <1>1, <1>2 DEF Inv, Asked, Seen, UpWasSeen
<1>4. /\ client' \in [Clients -> {"free", "open", "closing", "closed"}]
      /\ redisClient' \in Clients \cup {None} /\ NoClientLeaks' /\ Queues'
  <2>1. CASE redisClient = None
    <3>1. PICK c \in Clients : /\ Collectable(c) /\ redisClient' = c
                               /\ client' = [client EXCEPT ![c] = "open"]
                               /\ queue' = [queue EXCEPT ![c] = <<k>>]
      BY <2>1 DEF Ping
    <3>2. \A d \in Clients : client[d] # "open"
      BY <2>1, NamesAssumption DEF Inv, NoClientLeaks
    <3>3. /\ client' \in [Clients -> {"free", "open", "closing", "closed"}]
          /\ redisClient' \in Clients \cup {None} /\ NoClientLeaks'
      BY <3>1, <3>2 DEF Inv, TypeOK, NoClientLeaks
    <3>4. queue[c] = <<>> /\ queue' = [queue EXCEPT ![c] = Append(@, k)]
      BY <3>1 DEF Collectable
    <3>5. QueuesOK([queue EXCEPT ![c] = Append(@, k)], asking \cup {k})
      BY <1>1, AppendOK DEF Inv, Queues
    <3> QED
      BY <1>1, <3>3, <3>4, <3>5 DEF Queues
  <2>2. CASE redisClient # None
    <3>1. PICK c \in Clients : c = redisClient
      BY <2>2 DEF Inv, TypeOK
    <3>2. queue' = [queue EXCEPT ![c] = Append(@, k)] /\ client' = client /\ redisClient' = redisClient
      BY <2>2, <3>1 DEF Ping
    <3>3. QueuesOK([queue EXCEPT ![c] = Append(@, k)], asking \cup {k})
      BY <1>1, AppendOK DEF Inv, Queues
    <3>4. Queues'
      BY <1>1, <3>2, <3>3 DEF Queues
    <3> QED
      BY <3>2, <3>4 DEF Inv, TypeOK, NoClientLeaks
  <2> QED
    BY <2>1, <2>2
<1>5. TypeOK'
  <2>1. queue' \in [Clients -> Seq(Checks \cup {Quit})]
    BY <1>4 DEF Queues, QueuesOK
  <2>2. asking' \subseteq Checks
    BY <1>1 DEF Inv, TypeOK
  <2> QED
    BY <1>2, <1>4, <2>1, <2>2 DEF Inv, TypeOK
<1> QED
  BY <1>3, <1>4, <1>5 DEF Inv

(* A PING is answered, for good or ill: its check goes on. *)
LEMMA PingEnds ==
  ASSUME Inv, NEW c \in Clients, queue[c] # <<>>, Head(queue[c]) # Quit,
         UNCHANGED <<envVars, database, redis, destroyed, answer, wasUp>>,
         \/ redis = "up" /\ Pong(c, Head(queue[c]))
         \/ PingFails(c, Head(queue[c]))
  PROVE  Inv'
<1>1. /\ queue \in [Clients -> Seq(Checks \cup {Quit})] /\ asking \subseteq Checks
      /\ redisClient \in Clients \cup {None}
  BY DEF Inv, TypeOK
<1>2. 1 \in 1 .. Len(queue[c]) /\ Head(queue[c]) = queue[c][1]
  BY <1>1
<1>3. PICK k \in Checks : k = Head(queue[c]) /\ k \in asking
  BY <1>1, <1>2 DEF Inv, Queues, QueuesOK
<1>4. /\ status[k] # "idle" /\ todo[k] # <<>> /\ Head(todo[k]) = "redis"
  BY <1>3 DEF Inv, Asked
<1>5. redis = "up" => Head(todo[k]) \in Available
  <2>1. Head(todo[k]) \in Range(Indicators(service))
    BY <1>4, RangeTail DEF Inv, TypeOK, Names, Seen
  <2> QED
    BY <1>4, <2>1, AvailableIs
<1>6. PICK ok \in BOOLEAN : Record(k, ok) /\ (ok => redis = "up")
  BY <1>3 DEF Pong, PingFails
<1>7. asking' = asking \ {k} /\ client' = client /\ redisClient' = redisClient
  BY <1>3 DEF Pong, PingFails
<1>8. /\ todo' \in [Checks -> Seq(Names)] /\ status' \in [Checks -> {"idle", "UP", "DOWN"}]
      /\ Asked' /\ Seen' /\ UpWasSeen'
  BY <1>4, <1>5, <1>6, <1>7, RecordKeeps
<1>9. Queues'
  <2>1. QueuesOK([queue EXCEPT ![c] = Tail(@)], asking \ {k})
    BY <1>3, TailOK DEF Inv, Queues
  <2>2. QueuesOK(SendQuit([queue EXCEPT ![c] = Tail(@)]), asking \ {k})
    BY <1>1, <2>1, SendQuitOK
  <2>3. \/ queue' = [queue EXCEPT ![c] = Tail(@)]
        \/ queue' = SendQuit([queue EXCEPT ![c] = Tail(@)])
    BY DEF Pong, PingFails
  <2> QED
    BY <1>7, <2>1, <2>2, <2>3 DEF Queues
<1>10. NoClientLeaks'
  BY <1>7 DEF Inv, NoClientLeaks
<1>11. TypeOK'
  <2>1. queue' \in [Clients -> Seq(Checks \cup {Quit})]
    BY <1>9 DEF Queues, QueuesOK
  <2> QED
    BY <1>7, <1>8, <2>1 DEF Inv, TypeOK, envVars, Names
<1> QED
  BY <1>8, <1>9, <1>10, <1>11 DEF Inv

(* A QUIT is answered: the field's client is released, and no other open   *)
(* one is left.                                                            *)
LEMMA QuitEnds ==
  ASSUME Inv, NEW c \in Clients, queue[c] # <<>>, Head(queue[c]) = Quit,
         UNCHANGED <<envVars, database, redis, destroyed, answer, wasUp>>,
         \/ client[c] = "open" /\ QuitResolves(c)
         \/ QuitRejects(c)
  PROVE  Inv'
<1>1. /\ queue' = [queue EXCEPT ![c] = Tail(@)] /\ redisClient' = None
      /\ UNCHANGED <<todo, asking, status>>
  BY DEF QuitResolves, QuitRejects
<1>2. /\ service' = service /\ Available' = Available
      /\ UNCHANGED <<portSet, database, redis, destroyed, answer, wasUp>>
  BY DEF envVars, Available
<1>3. Asked' /\ Seen' /\ UpWasSeen'
  BY <1>1, <1>2 DEF Inv, Asked, Seen, UpWasSeen
<1>4. Queues'
  <2>1. QueuesOK([queue EXCEPT ![c] = Tail(@)], asking \ {Quit})
    BY TailOK DEF Inv, Queues
  <2>2. QueuesOK([queue EXCEPT ![c] = Tail(@)], asking)
    BY <2>1, WeakenOK
  <2> QED
    BY <1>1, <2>2 DEF Queues
<1>5. /\ client' \in [Clients -> {"free", "open", "closing", "closed"}]
      /\ \A d \in Clients : client'[d] # "open"
  <2>1. CASE client[c] = "open" /\ QuitResolves(c)
    BY <2>1 DEF Inv, TypeOK, NoClientLeaks, QuitResolves
  <2>2. CASE QuitRejects(c)
    BY <2>2, NamesAssumption DEF Inv, TypeOK, NoClientLeaks, QuitRejects
  <2> QED
    BY <2>1, <2>2
<1>6. NoClientLeaks'
  BY <1>5 DEF NoClientLeaks
<1>7. TypeOK'
  <2>1. queue' \in [Clients -> Seq(Checks \cup {Quit})]
    BY <1>4 DEF Queues, QueuesOK
  <2> QED
    BY <1>1, <1>2, <1>5, <2>1 DEF Inv, TypeOK
<1> QED
  BY <1>3, <1>4, <1>6, <1>7 DEF Inv

(* A socket closes. *)
LEMMA CloseInv ==
  ASSUME Inv, NEW c \in Clients, Close(c)
  PROVE  Inv'
<1>1. /\ service' = service /\ Available' = Available /\ client' = [client EXCEPT ![c] = "closed"]
      /\ UNCHANGED <<portSet, database, redis, queue, redisClient, destroyed, todo, asking, status, answer, wasUp>>
  BY DEF Close, envVars, checkVars, Available
<1>2. Asked' /\ Seen' /\ UpWasSeen' /\ Queues'
  BY <1>1 DEF Inv, Asked, Seen, UpWasSeen, Queues
<1>3. TypeOK' /\ NoClientLeaks'
  BY <1>1 DEF Inv, TypeOK, NoClientLeaks
<1> QED
  BY <1>2, <1>3 DEF Inv

(* onModuleDestroy. *)
LEMMA DestroyInv == Inv /\ OnModuleDestroy => Inv'
<1> SUFFICES ASSUME Inv, OnModuleDestroy PROVE Inv'
  OBVIOUS
<1>1. /\ service' = service /\ Available' = Available /\ queue' = SendQuit(queue) /\ destroyed' = TRUE
      /\ UNCHANGED <<portSet, database, redis, client, redisClient, todo, asking, status, answer, wasUp>>
  BY DEF OnModuleDestroy, envVars, checkVars, Available
<1>2. Queues'
  <2>1. QueuesOK(SendQuit(queue), asking)
    BY SendQuitOK DEF Inv, TypeOK, Queues
  <2> QED
    BY <1>1, <2>1 DEF Queues
<1>3. Asked' /\ Seen' /\ UpWasSeen' /\ NoClientLeaks'
  BY <1>1 DEF Inv, Asked, Seen, UpWasSeen, NoClientLeaks
<1>4. TypeOK'
  <2>1. queue' \in [Clients -> Seq(Checks \cup {Quit})]
    BY <1>2 DEF Queues, QueuesOK
  <2> QED
    BY <1>1, <2>1 DEF Inv, TypeOK
<1> QED
  BY <1>2, <1>3, <1>4 DEF Inv

(* PostgreSQL or Redis comes or goes, and every check under way sees it. *)
LEMMA EnvironmentInv == Inv /\ Environment => Inv'
<1> SUFFICES ASSUME Inv, Environment PROVE Inv'
  OBVIOUS
<1>1. /\ service' = service
      /\ UNCHANGED <<portSet, client, queue, redisClient, destroyed, todo, asking, status, answer>>
      /\ database' \in BOOLEAN /\ redis' \in {"up", "down", "loading"}
  BY DEF Environment, envVars, checkVars, redisVars, Inv, TypeOK
<1>2. Available' \subseteq Names
  <2>1. Available' \subseteq Range(Indicators(service'))
    BY DEF Available
  <2>2. Range(Indicators(service')) \subseteq Names
    BY IndicatorsType, RangeIn
  <2> QED
    BY <2>1, <2>2
<1>3. /\ wasUp' \in [Checks -> SUBSET Names]
      /\ \A k \in Checks : /\ wasUp[k] \subseteq wasUp'[k]
                           /\ status[k] # "idle" => Available' \subseteq wasUp'[k]
  <2>1. wasUp' = [k \in Checks |-> IF status[k] = "idle" THEN wasUp[k] ELSE wasUp[k] \cup Available']
    BY DEF Environment
  <2>2. wasUp \in [Checks -> SUBSET Names]
    BY DEF Inv, TypeOK, Names
  <2> QED
    BY <1>2, <2>1, <2>2
<1>4. Asked' /\ NoClientLeaks' /\ Queues'
  BY <1>1 DEF Inv, Asked, NoClientLeaks, Queues
<1>5. Seen'
  <2> SUFFICES ASSUME NEW k \in Checks, status[k] # "idle"
               PROVE  /\ Available' \subseteq wasUp'[k]
                      /\ Range(todo[k]) \subseteq Range(Indicators(service))
                      /\ status[k] = "UP" => Range(Indicators(service)) \subseteq wasUp'[k] \cup Range(todo[k])
    BY <1>1 DEF Seen
  <2>1. /\ Range(todo[k]) \subseteq Range(Indicators(service))
        /\ status[k] = "UP" => Range(Indicators(service)) \subseteq wasUp[k] \cup Range(todo[k])
    BY DEF Inv, Seen
  <2> QED
    BY <1>3, <2>1
<1>6. UpWasSeen'
  <2> SUFFICES ASSUME NEW k \in Checks, answer[k] = 200
               PROVE  Range(Indicators(service)) \subseteq wasUp'[k]
    BY <1>1 DEF UpWasSeen
  <2>1. Range(Indicators(service)) \subseteq wasUp[k]
    BY DEF Inv, UpWasSeen
  <2> QED
    BY <1>3, <2>1
<1>7. TypeOK'
  BY <1>1, <1>3 DEF Inv, TypeOK, Names
<1> QED
  BY <1>4, <1>5, <1>6, <1>7 DEF Inv

(* Every step keeps it. *)
LEMMA NextInv == Inv /\ [Next]_vars => Inv'
<1> SUFFICES ASSUME Inv, [Next]_vars PROVE Inv'
  OBVIOUS
<1>1. CASE \E k \in Checks : Start(k) \/ CheckSteps(k)
  BY <1>1, StartInv, CheckInv, PingInv, RespondInv DEF CheckSteps
<1>2. CASE \E c \in Clients : ClientSteps(c)
  <2> PICK c \in Clients : ClientSteps(c)
    BY <1>2
  <2>1. CASE Answer(c) \/ Refuse(c)
    <3>1. /\ queue[c] # <<>>
          /\ UNCHANGED <<envVars, database, redis, destroyed, answer, wasUp>>
          /\ \/ /\ Head(queue[c]) = Quit
                /\ \/ client[c] = "open" /\ QuitResolves(c)
                   \/ QuitRejects(c)
             \/ /\ Head(queue[c]) # Quit
                /\ \/ redis = "up" /\ Pong(c, Head(queue[c]))
                   \/ PingFails(c, Head(queue[c]))
      BY <2>1 DEF Answer, Refuse
    <3> QED
      BY <3>1, PingEnds, QuitEnds
  <2>2. CASE Close(c)
    BY <2>2, CloseInv
  <2> QED
    BY <2>1, <2>2 DEF ClientSteps
<1>3. CASE OnModuleDestroy \/ Environment
  BY <1>3, DestroyInv, EnvironmentInv
<1>4. CASE UNCHANGED vars
  <2>1. /\ UNCHANGED <<service, portSet, database, redis, client, queue, redisClient, destroyed>>
        /\ UNCHANGED <<todo, asking, status, answer, wasUp>>
    BY <1>4 DEF vars, envVars, redisVars, checkVars
  <2>2. Available' = Available
    BY <2>1 DEF Available
  <2> QED
    BY <2>1, <2>2 DEF Inv, TypeOK, NoClientLeaks, Queues, Asked, Seen, UpWasSeen
<1> QED
  BY <1>1, <1>2, <1>3, <1>4 DEF Next

-----------------------------------------------------------------------------
(* What follows.                                                           *)

(* The inductive invariant holds throughout: every unanswered PING is that *)
(* of exactly one waiting check, and a check whose result is still UP has  *)
(* seen every dependency it asked.                                         *)
THEOREM HealthInvariant == Spec => []Inv
<1>1. Init => Inv
  BY InitInv
<1>2. Inv /\ [Next]_vars => Inv'
  BY NextInv
<1> QED
  BY <1>1, <1>2, PTL DEF Spec

(* However many checks overlap with however many cleanups, redis.health.ts *)
(* leaves no client open outside its field.                                *)
THEOREM NoClientLeaksHolds == Spec => []NoClientLeaks
<1>1. Inv => NoClientLeaks
  BY DEF Inv
<1> QED
  BY <1>1, HealthInvariant, PTL

(* However many checks overlap, health.controller.ts answers 200 only if   *)
(* every dependency of the service was available during that very check.   *)
THEOREM UpWasSeenHolds == Spec => []UpWasSeen
<1>1. Inv => UpWasSeen
  BY DEF Inv
<1> QED
  BY <1>1, HealthInvariant, PTL

=============================================================================
