-------------------------- MODULE RateLimiterProofs --------------------------
(***************************************************************************)
(* Theorems about RateLimiter for every number of requests and ids, every  *)
(* limit, window and clock resolution.                                     *)
(***************************************************************************)
EXTENDS RateLimiter, FiniteSetTheorems, WellFoundedInduction, TLAPS

-----------------------------------------------------------------------------
(* Arithmetic of the headers.                                              *)

(* A set of times has an earliest one. *)
LEMMA MinOfNats ==
  ASSUME NEW S \in SUBSET Nat, S # {}
  PROVE  Min(S) \in S /\ \A y \in S : Min(S) <= y
<1>1. PICK x \in S : \A y \in S : <<y, x>> \notin OpToRel(<, Nat)
  BY NatLessThanWellFounded, WFMin
<1>2. \A y \in Nat : y < x => <<y, x>> \in OpToRel(<, Nat)
  BY DEF OpToRel
<1>3. \A y \in S : ~(y < x)
  BY <1>1, <1>2, Zenon
<1>4. \A y \in S : x <= y
  BY <1>3
<1> QED
  BY <1>4 DEF Min

(* Math.max, by which Retry-After is at least a second. *)
LEMMA MaxOfTwo ==
  ASSUME NEW a \in Int, NEW b \in Int
  PROVE  Max({a, b}) \in Int /\ Max({a, b}) >= a /\ Max({a, b}) >= b
<1>1. \E x \in {a, b} : \A y \in {a, b} : x >= y
  OBVIOUS
<1> QED
  BY <1>1 DEF Max

(* Rounding to seconds: up is not early, down is not late. *)
LEMMA Rounding ==
  ASSUME NEW t \in Nat
  PROVE  /\ CeilSeconds(t) \in Nat /\ CeilSeconds(t) * TicksPerSecond >= t
         /\ FloorSeconds(t) \in Nat /\ FloorSeconds(t) * TicksPerSecond <= t
  BY LimitsAssumption DEF CeilSeconds, FloorSeconds

(* The window and the limit are numbers. *)
LEMMA WindowIs == Window \in Nat /\ Limit \in Nat \ {0}
  BY LimitsAssumption DEF Window

(* Retry-After names no time before the reset.  Seconds are counted from   *)
(* the start of the current one, so rounding never loses a tick.           *)
LEMMA RetryAfterIsLate ==
  ASSUME TypeOK, NEW reset \in Nat
  PROVE  /\ RetryAfter(reset) \in Nat
         /\ time + RetryAfter(reset) * TicksPerSecond >= reset
<1> DEFINE ceil == CeilSeconds(reset)
           floor == FloorSeconds(time)
<1>1. time \in Nat /\ TicksPerSecond \in Nat \ {0}
  BY LimitsAssumption DEF TypeOK
<1>2. /\ ceil \in Nat /\ ceil * TicksPerSecond >= reset
      /\ floor \in Nat /\ floor * TicksPerSecond <= time
  BY <1>1, Rounding
<1>3. PICK retry \in Int : retry = RetryAfter(reset) /\ retry >= 1 /\ retry >= ceil - floor
  <2> HIDE DEF ceil, floor
  <2>1. PICK d \in Int : d = ceil - floor
    BY <1>2
  <2>2. 1 \in Int
    OBVIOUS
  <2>3. Max({1, d}) \in Int /\ Max({1, d}) >= 1 /\ Max({1, d}) >= d
    BY <2>1, <2>2, MaxOfTwo, Zenon
  <2>4. RetryAfter(reset) = Max({1, d})
    BY <2>1 DEF RetryAfter, ceil, floor
  <2> QED
    BY <2>1, <2>3, <2>4
<1> HIDE DEF ceil, floor
<1>4. retry * TicksPerSecond >= (ceil - floor) * TicksPerSecond
  BY <1>1, <1>2, <1>3
<1>5. (ceil - floor) * TicksPerSecond = ceil * TicksPerSecond - floor * TicksPerSecond
  BY <1>1, <1>2
<1>6. ceil * TicksPerSecond \in Int /\ floor * TicksPerSecond \in Int /\ retry * TicksPerSecond \in Int
  BY <1>1, <1>2, <1>3
<1> QED
  BY <1>1, <1>2, <1>3, <1>4, <1>5, <1>6

(* Fewer elements leave room. *)
LEMMA RoomGrows ==
  ASSUME NEW S, IsFiniteSet(S), NEW T \in SUBSET S
  PROVE  /\ IsFiniteSet(T)
         /\ HasRoom(S) => HasRoom(T)
         /\ Cardinality(S) <= Limit => Cardinality(T) <= Limit
         /\ Cardinality(S) <= Limit /\ T # S => HasRoom(T)
<1>1. /\ IsFiniteSet(T) /\ Cardinality(T) <= Cardinality(S) /\ (Cardinality(S) = Cardinality(T) => S = T)
  BY FS_Subset
<1>2. Cardinality(S) \in Nat /\ Cardinality(T) \in Nat
  BY <1>1, FS_CardinalityType
<1> QED
  BY <1>1, <1>2, WindowIs DEF HasRoom

-----------------------------------------------------------------------------
(* The inductive invariant.                                                *)

Bounded == IsFiniteSet(zset) /\ Cardinality(zset) <= Limit

(* Times were read in the past. *)
Stamped ==
  \A q \in Requests : stamp[q] <= time /\ (q \in sent \cup allowed => stamp[q] \in Nat)

(* Every element is of a request the script counted, and leaves the        *)
(* window before the key expires.                                          *)
Scored ==
  \A x \in zset :
    /\ x[2] + Window <= expireAt
    /\ \E q \in allowed : x[1] = IdOf[q] /\ x[2] = stamp[q]

Recent(id) == \A q \in allowed : IdOf[q] = id => stamp[q] > time - Window

(* What WindowRespected counts is still in the set. *)
Present == \A q \in allowed : Recent(IdOf[q]) => \E x \in zset : x[1] = IdOf[q]

(* What is left of the set at a promised time leaves room. *)
Promised == \A t \in promise : HasRoom({x \in zset : x[2] + Window > t})

Inv == TypeOK /\ Bounded /\ Stamped /\ Scored /\ Present /\ Promised

(* The invariant holds initially. *)
LEMMA InitInv == Init => Inv
<1> SUFFICES ASSUME Init PROVE Inv
  OBVIOUS
<1>1. TypeOK
  BY LimitsAssumption DEF Init, TypeOK, Never
<1>2. Bounded
  BY FS_EmptySet, WindowIs DEF Init, Bounded
<1>3. Stamped
  BY DEF Init, Stamped, Never
<1>4. Scored /\ Present /\ Promised
  BY DEF Init, Scored, Present, Promised
<1> QED
  BY <1>1, <1>2, <1>3, <1>4 DEF Inv

(* What ZREMRANGEBYSCORE or the expiry of the key removes has left the     *)
(* window of every request that is still to come.                          *)
LEMMA KeptIs ==
  ASSUME Inv, NEW now \in Nat, now <= time
  PROVE  /\ Kept(now) \in SUBSET zset
         /\ IsFiniteSet(Kept(now)) /\ Cardinality(Kept(now)) <= Limit
         /\ \A x \in zset : x[2] > time - Window => x \in Kept(now)
<1>1. Kept(now) \in SUBSET zset
  BY DEF Kept
<1>2. IsFiniteSet(Kept(now)) /\ Cardinality(Kept(now)) <= Limit
  BY <1>1, RoomGrows DEF Inv, Bounded
<1>3. ASSUME NEW x \in zset, x[2] > time - Window PROVE x \in Kept(now)
  <2>1. x[2] \in Nat /\ time \in Nat /\ expireAt \in Nat /\ x[2] + Window <= expireAt
    BY DEF Inv, TypeOK, Scored
  <2> QED
    BY <1>3, <2>1, WindowIs DEF Kept
<1> QED
  BY <1>1, <1>2, <1>3

(* What a step of the gateway may do besides running the script. *)
Aside ==
  /\ sent' \subseteq sent /\ opened' \subseteq Requests /\ faults' \in Nat
  /\ UNCHANGED <<time, stamp>>

(* A run of the script that counts the request. *)
LEMMA CountInv ==
  ASSUME Inv, NEW q \in sent, HasRoom(Kept(stamp[q])), RunScript(q), Aside
  PROVE  Inv'
<1> DEFINE kept == Kept(stamp[q])
<1>1. /\ stamp[q] \in Nat /\ stamp[q] <= time /\ time \in Nat /\ q \in Requests
      /\ zset \subseteq {IdOf[p] : p \in Requests} \X Nat
  BY DEF Inv, TypeOK, Stamped
<1>2. /\ kept \in SUBSET zset /\ IsFiniteSet(kept)
      /\ \A x \in zset : x[2] > time - Window => x \in kept
  BY <1>1, KeptIs
<1>3. PICK new : new = <<IdOf[q], stamp[q]>>
  OBVIOUS
<1>4. PICK rest : rest = {x \in kept : x[1] # IdOf[q]}
  OBVIOUS
<1>5. /\ HasRoom(kept) /\ zset' = rest \cup {new} /\ expireAt' = time + Window
      /\ allowed' = allowed \cup {q} /\ promise' = {} /\ sent' \subseteq sent
      /\ opened' \subseteq Requests /\ faults' \in Nat /\ UNCHANGED <<time, stamp>>
  BY <1>3, <1>4 DEF RunScript, ZAdd, Aside
<1> HIDE DEF kept
<1>6. rest \in SUBSET kept /\ new[1] = IdOf[q] /\ new[2] = stamp[q]
  BY <1>3, <1>4
<1>7. TypeOK'
  <2>1. new \in {IdOf[p] : p \in Requests} \X Nat
    BY <1>1, <1>3
  <2>2. rest \subseteq {IdOf[p] : p \in Requests} \X Nat
    BY <1>1, <1>2, <1>6
  <2> QED
    BY <1>1, <1>5, <2>1, <2>2, WindowIs DEF Inv, TypeOK
<1>8. Bounded'
  <2>1. IsFiniteSet(rest) /\ HasRoom(rest)
    BY <1>2, <1>5, <1>6, RoomGrows
  <2>2. /\ IsFiniteSet(rest \cup {new})
        /\ Cardinality(rest \cup {new}) \in {Cardinality(rest), Cardinality(rest) + 1}
    BY <2>1, FS_AddElement
  <2>3. Cardinality(rest) \in Nat
    BY <2>1, FS_CardinalityType
  <2> QED
    BY <1>5, <2>1, <2>2, <2>3, WindowIs DEF Bounded, HasRoom
<1>9. Stamped'
  BY <1>1, <1>5 DEF Inv, Stamped
<1>10. Scored'
  <2>1. new[2] + Window <= expireAt' /\ \E p \in allowed' : new[1] = IdOf[p] /\ new[2] = stamp'[p]
    BY <1>1, <1>5, <1>6, WindowIs
  <2>2. ASSUME NEW x \in rest
        PROVE  x[2] + Window <= expireAt' /\ \E p \in allowed' : x[1] = IdOf[p] /\ x[2] = stamp'[p]
    <3>1. x \in zset
      BY <1>2, <1>6, <2>2
    <3>2. PICK p \in allowed : x[1] = IdOf[p] /\ x[2] = stamp[p]
      BY <3>1 DEF Inv, Scored
    <3>3. p \in Requests /\ stamp[p] <= time /\ stamp[p] \in Nat
      BY <3>2 DEF Inv, TypeOK, Stamped
    <3> QED
      BY <1>1, <1>5, <3>2, <3>3, WindowIs
  <2> QED
    BY <1>5, <2>1, <2>2 DEF Scored
<1>11. Present'
  <2> SUFFICES ASSUME NEW p \in allowed', Recent(IdOf[p])'
               PROVE  \E x \in zset' : x[1] = IdOf[p]
    BY DEF Present
  <2>1. CASE IdOf[p] = IdOf[q]
    BY <1>5, <1>6, <2>1
  <2>2. CASE IdOf[p] # IdOf[q]
    <3>1. p \in allowed /\ Recent(IdOf[p])
      BY <1>5, <2>2 DEF Recent
    <3>2. PICK x \in zset : x[1] = IdOf[p]
      BY <3>1 DEF Inv, Present
    <3>3. PICK s \in allowed : x[1] = IdOf[s] /\ x[2] = stamp[s]
      BY DEF Inv, Scored
    <3>4. x[2] > time - Window
      BY <3>1, <3>2, <3>3 DEF Recent
    <3>5. x \in rest
      BY <1>2, <1>4, <2>2, <3>2, <3>4
    <3> QED
      BY <1>5, <3>2, <3>5
  <2> QED
    BY <2>1, <2>2
<1>12. Promised'
  BY <1>5 DEF Promised
<1> QED
  BY <1>7, <1>8, <1>9, <1>10, <1>11, <1>12 DEF Inv

(* A run of the script that only trims the set. *)
LEMMA TrimInv ==
  ASSUME Inv, NEW q \in sent, zset' = Kept(stamp[q]), Aside,
         UNCHANGED <<expireAt, allowed>>, promise' \subseteq Nat
  PROVE  /\ (TypeOK /\ Bounded /\ Stamped /\ Scored /\ Present)'
         /\ \A t \in promise : HasRoom({x \in zset' : x[2] + Window > t})
<1> DEFINE kept == Kept(stamp[q])
<1>1. stamp[q] \in Nat /\ stamp[q] <= time /\ time \in Nat
  BY DEF Inv, TypeOK, Stamped
<1>2. /\ kept \in SUBSET zset /\ IsFiniteSet(kept) /\ Cardinality(kept) <= Limit
      /\ \A x \in zset : x[2] > time - Window => x \in kept
  BY <1>1, KeptIs
<1>3. zset' = kept
  OBVIOUS
<1> HIDE DEF kept
<1>4. TypeOK'
  BY <1>1, <1>2, <1>3 DEF Inv, TypeOK, Aside
<1>5. Bounded'
  BY <1>2, <1>3 DEF Bounded
<1>6. Stamped' /\ Scored'
  BY <1>2, <1>3 DEF Inv, TypeOK, Stamped, Scored, Aside
<1>7. Present'
  <2> SUFFICES ASSUME NEW p \in allowed, Recent(IdOf[p])
               PROVE  \E x \in kept : x[1] = IdOf[p]
    BY <1>3 DEF Present, Recent, Aside
  <2>1. PICK x \in zset : x[1] = IdOf[p]
    BY DEF Inv, Present
  <2>2. PICK s \in allowed : x[1] = IdOf[s] /\ x[2] = stamp[s]
    BY DEF Inv, Scored
  <2>3. x[2] > time - Window
    BY <2>1, <2>2 DEF Recent
  <2> QED
    BY <1>2, <2>1, <2>3
<1>8. ASSUME NEW t \in promise PROVE HasRoom({x \in kept : x[2] + Window > t})
  <2>1. {x \in kept : x[2] + Window > t} \in SUBSET {x \in zset : x[2] + Window > t}
    BY <1>2
  <2>2. HasRoom({x \in zset : x[2] + Window > t}) /\ IsFiniteSet({x \in zset : x[2] + Window > t})
    BY RoomGrows DEF Inv, Promised, Bounded
  <2> QED
    BY <2>1, <2>2, RoomGrows
<1> QED
  BY <1>3, <1>4, <1>5, <1>6, <1>7, <1>8

(* A run of the script whose answer promises nothing. *)
LEMMA RunScriptInv ==
  ASSUME Inv, NEW q \in sent, RunScript(q), Aside
  PROVE  Inv'
<1>1. CASE HasRoom(Kept(stamp[q]))
  BY <1>1, CountInv
<1>2. CASE ~HasRoom(Kept(stamp[q]))
  <2>1. zset' = Kept(stamp[q]) /\ UNCHANGED <<expireAt, allowed, promise>>
    BY <1>2 DEF RunScript
  <2>2. promise' \subseteq Nat
    BY <2>1 DEF Inv, TypeOK
  <2>3. /\ (TypeOK /\ Bounded /\ Stamped /\ Scored /\ Present)'
        /\ \A t \in promise : HasRoom({x \in zset' : x[2] + Window > t})
    BY <2>1, <2>2, TrimInv
  <2> QED
    BY <2>1, <2>3 DEF Inv, Promised
<1> QED
  BY <1>1, <1>2

(* The script refuses a request and promises a time. *)
LEMMA RejectInv ==
  ASSUME Inv, NEW q \in Requests, Reject(q)
  PROVE  Inv'
<1> DEFINE kept == Kept(stamp[q])
<1>1. /\ stamp[q] \in Nat /\ stamp[q] <= time /\ time \in Nat /\ q \in sent
      /\ zset \subseteq {IdOf[p] : p \in Requests} \X Nat
  BY DEF Inv, TypeOK, Stamped, Reject
<1>2. /\ kept \in SUBSET zset /\ IsFiniteSet(kept) /\ Cardinality(kept) <= Limit
      /\ \A x \in zset : x[2] > time - Window => x \in kept
  BY <1>1, KeptIs
<1>3. PICK named : named = time + RetryAfter(ResetTime(kept, stamp[q])) * TicksPerSecond
  OBVIOUS
<1>4. /\ ~HasRoom(kept) /\ zset' = kept /\ promise' = promise \cup {named} /\ sent' = sent \ {q}
      /\ UNCHANGED <<time, stamp, expireAt, allowed, opened, faults>>
  BY <1>3 DEF Reject
(* The oldest element is gone at the time that is named. *)
<1>5. named \in Nat /\ \E x \in kept : x[2] + Window <= named
  <2> DEFINE scores == {x[2] : x \in kept}
  <2>1. kept # {}
    <3>1. Cardinality({}) = 0
      BY FS_EmptySet
    <3> QED
      BY <1>4, <3>1, WindowIs DEF HasRoom
  <2>2. scores \in SUBSET Nat /\ scores # {}
    BY <1>1, <1>2, <2>1
  <2>3. PICK oldest \in scores : oldest = Min(scores)
    BY <2>2, MinOfNats
  <2>4. ResetTime(kept, stamp[q]) = oldest + Window
    BY <2>1, <2>3 DEF ResetTime
  <2>5. oldest \in Nat /\ oldest + Window \in Nat
    BY <2>2, <2>3, WindowIs
  <2>6. RetryAfter(oldest + Window) \in Nat
        /\ time + RetryAfter(oldest + Window) * TicksPerSecond >= oldest + Window
    BY <2>5, RetryAfterIsLate DEF Inv
  <2>7. named \in Nat /\ oldest + Window <= named
    BY <1>1, <1>3, <2>4, <2>5, <2>6, LimitsAssumption
  <2> QED
    BY <2>3, <2>7
<1> HIDE DEF kept
<1>6. /\ (TypeOK /\ Bounded /\ Stamped /\ Scored /\ Present)'
      /\ \A t \in promise : HasRoom({x \in zset' : x[2] + Window > t})
  <2>1. promise' \subseteq Nat /\ Aside
    BY <1>4, <1>5 DEF Inv, TypeOK, Aside
  <2> QED
    BY <1>1, <1>4, <2>1, TrimInv DEF kept
<1>7. Promised'
  <2>1. HasRoom({x \in kept : x[2] + Window > named})
    <3>1. {x \in kept : x[2] + Window > named} # kept
      <4>1. PICK x \in kept : x[2] + Window <= named
        BY <1>5
      <4>2. x[2] \in Nat
        BY <1>1, <1>2
      <4>3. ~(x[2] + Window > named)
        BY <1>5, <4>1, <4>2, WindowIs
      <4> QED
        BY <4>3
    <3> QED
      BY <1>2, <3>1, RoomGrows
  <2> QED
    BY <1>4, <1>6, <2>1 DEF Promised
<1> QED
  BY <1>6, <1>7 DEF Inv

(* Every step keeps it. *)
LEMMA NextInv == Inv /\ [Next]_vars => Inv'
<1> SUFFICES ASSUME Inv, [Next]_vars PROVE Inv'
  OBVIOUS
<1>1. time \in Nat /\ (\A q \in Requests : stamp[q] \in Int) /\ allowed \subseteq Requests
  BY DEF Inv, TypeOK, Never
<1>2. CASE Tick
  <2>1. time' = time + 1 /\ UNCHANGED <<sent, stamp, zset, expireAt, allowed, opened, promise, faults>>
    BY <1>2 DEF Tick
  <2>2. TypeOK'
    BY <1>2, <2>1, LimitsAssumption DEF Inv, TypeOK, Tick
  <2>3. Bounded' /\ Scored' /\ Promised'
    BY <2>1 DEF Inv, Bounded, Scored, Promised
  <2>4. Stamped'
    BY <1>1, <2>1 DEF Inv, Stamped
  <2>5. Present'
    <3>1. \A q \in allowed : Recent(IdOf[q])' => Recent(IdOf[q])
      BY <1>1, <2>1, WindowIs DEF Recent
    <3> QED
      BY <2>1, <3>1 DEF Inv, Present
  <2> QED
    BY <2>2, <2>3, <2>4, <2>5 DEF Inv
<1>3. ASSUME NEW q \in Requests, Arrive(q) PROVE Inv'
  <2>1. /\ stamp[q] = Never /\ stamp' = [stamp EXCEPT ![q] = time] /\ sent' = sent \cup {q}
        /\ UNCHANGED <<time, zset, expireAt, allowed, opened, promise, faults>>
    BY <1>3 DEF Arrive
  <2>2. q \notin allowed
    BY <2>1 DEF Inv, Stamped, Never
  <2>3. stamp'[q] = time /\ \A p \in Requests \ {q} : stamp'[p] = stamp[p]
    BY <2>1 DEF Inv, TypeOK
  <2>4. \A p \in allowed : stamp'[p] = stamp[p]
    BY <1>1, <2>2, <2>3
  <2>5. TypeOK'
    BY <1>1, <2>1 DEF Inv, TypeOK
  <2>6. Bounded' /\ Promised'
    BY <2>1 DEF Inv, Bounded, Promised
  <2>7. Stamped'
    BY <1>1, <2>1, <2>3 DEF Inv, Stamped
  <2>8. Scored'
    BY <2>1, <2>4 DEF Inv, Scored
  <2>9. Present'
    BY <2>1, <2>4 DEF Inv, Present, Recent
  <2> QED
    BY <2>5, <2>6, <2>7, <2>8, <2>9 DEF Inv
<1>4. ASSUME NEW q \in Requests, Admit(q) \/ Resend(q) PROVE Inv'
  <2>1. q \in sent /\ RunScript(q) /\ Aside
    BY <1>4 DEF Admit, Resend, Fault, Aside, Inv, TypeOK
  <2> QED
    BY <2>1, RunScriptInv
<1>5. ASSUME NEW q \in Requests, FailOpen(q) PROVE Inv'
  <2>1. q \in sent /\ Aside
    BY <1>5 DEF FailOpen, Fault, Aside, Inv, TypeOK
  <2>2. CASE RunScript(q)
    BY <2>1, <2>2, RunScriptInv
  <2>3. CASE UNCHANGED <<zset, expireAt, allowed, promise>>
    <3>1. TypeOK'
      BY <2>1, <2>3 DEF Inv, TypeOK, Aside
    <3> QED
      BY <2>1, <2>3, <3>1
      DEF Inv, Aside, Bounded, Stamped, Scored, Present, Recent, Promised
  <2> QED
    BY <1>5, <2>2, <2>3 DEF FailOpen
<1>6. CASE UNCHANGED vars
  BY <1>6 DEF vars, Inv, TypeOK, Bounded, Stamped, Scored, Present, Recent, Promised
<1> QED
  BY <1>2, <1>3, <1>4, <1>5, <1>6, RejectInv DEF Next

-----------------------------------------------------------------------------

(* The inductive invariant: the set holds at most Limit elements, each of  *)
(* them of a request the script counted, and every recent id is in it.     *)
THEOREM LimiterInvariant == Spec => []Inv
  BY InitInv, NextInv, PTL DEF Spec

(* At most Limit requests of new ids in any window, however late the       *)
(* scripts run.                                                            *)
THEOREM WindowRespectedHolds == Spec => []WindowRespected
<1>1. Inv => WindowRespected
  <2> SUFFICES ASSUME Inv PROVE WindowRespected
    OBVIOUS
  <2> DEFINE counted == {i \in {IdOf[q] : q \in allowed} :
                           \A q \in allowed : IdOf[q] = i => stamp[q] > time - Window}
             ids == {x[1] : x \in zset}
  <2>1. counted \in SUBSET ids
    BY DEF Inv, Present, Recent
  <2>2. [x \in zset |-> x[1]] \in Surjection(zset, ids)
    BY DEF Surjection
  <2>3. IsFiniteSet(ids) /\ Cardinality(ids) <= Cardinality(zset)
    BY <2>2, FS_Surjection DEF Inv, Bounded
  <2>4. IsFiniteSet(counted) /\ Cardinality(counted) <= Cardinality(ids)
    BY <2>1, <2>3, FS_Subset
  <2>5. Cardinality(ids) \in Nat /\ Cardinality(counted) \in Nat /\ Cardinality(zset) \in Nat
    BY <2>3, <2>4, FS_CardinalityType DEF Inv, Bounded
  <2>6. Cardinality(counted) <= Limit
    BY <2>3, <2>4, <2>5, WindowIs DEF Inv, Bounded
  <2> QED
    BY <2>6 DEF WindowRespected
<1> QED
  BY <1>1, LimiterInvariant, PTL

(* A client that comes back when Retry-After said is let through unless    *)
(* another was in between.                                                 *)
THEOREM RetryAfterIsEnoughHolds == Spec => []RetryAfterIsEnough
<1>1. Inv => RetryAfterIsEnough
  <2> SUFFICES ASSUME Inv, NEW q \in sent, NEW t \in promise, stamp[q] >= t
               PROVE  HasRoom(Kept(stamp[q]))
    BY DEF RetryAfterIsEnough
  <2>1. stamp[q] \in Nat /\ t \in Nat /\ \A x \in zset : x[2] \in Nat
    BY DEF Inv, TypeOK, Stamped
  <2>2. Kept(stamp[q]) \in SUBSET {x \in zset : x[2] + Window > t}
    BY <2>1, WindowIs DEF Kept
  <2>3. HasRoom({x \in zset : x[2] + Window > t}) /\ IsFiniteSet({x \in zset : x[2] + Window > t})
    BY RoomGrows DEF Inv, Promised, Bounded
  <2> QED
    BY <2>2, <2>3, RoomGrows
<1> QED
  BY <1>1, LimiterInvariant, PTL

-----------------------------------------------------------------------------
(* The other direction: nobody is refused without reason.                  *)

(* An id has one score, as ZADD replaces it. *)
OneScore == IsFiniteSet(allowed) /\ \A x, y \in zset : x[1] = y[1] => x = y

(* While no answer was lost, a request that waits was not counted. *)
Uncounted == faults = 0 => sent \cap allowed = {}

(* Requests counted in the window of a request that asks. *)
InWindowOf(q) == {p \in allowed : stamp[p] > stamp[q] - Window}

(* A 429 of the script has Limit different ids behind it, all of them      *)
(* counted less than a window before the refused request.  They are of     *)
(* other requests unless an answer was lost: a script sent again may be    *)
(* refused for the element its own first run left.                         *)
RefusedForCause ==
  [][\A q \in Requests :
       Reject(q) => /\ Cardinality({IdOf[p] : p \in InWindowOf(q)}) >= Limit
                    /\ faults = 0 => q \notin InWindowOf(q)]_vars

(* No step gives an id a second score. *)
LEMMA OneScoreNext == OneScore /\ [Next]_vars => OneScore'
<1> SUFFICES ASSUME OneScore, [Next]_vars PROVE OneScore'
  OBVIOUS
<1>1. ASSUME NEW q \in Requests, RunScript(q), HasRoom(Kept(stamp[q])) PROVE OneScore'
  <2>1. PICK rest : rest = {x \in Kept(stamp[q]) : x[1] # IdOf[q]}
    OBVIOUS
  <2>2. PICK new : new = <<IdOf[q], stamp[q]>>
    OBVIOUS
  <2>3. allowed' = allowed \cup {q} /\ zset' = rest \cup {new}
    BY <1>1, <2>1, <2>2 DEF RunScript, ZAdd
  <2>4. new[1] = IdOf[q] /\ \A x \in rest : x \in zset /\ x[1] # IdOf[q]
    BY <2>1, <2>2 DEF Kept
  <2>5. IsFiniteSet(allowed')
    BY <2>3, FS_AddElement DEF OneScore
  <2>6. \A x, y \in zset' : x[1] = y[1] => x = y
    BY <2>3, <2>4 DEF OneScore
  <2> QED
    BY <2>5, <2>6 DEF OneScore
<1>2. ASSUME NEW q \in Requests, zset' = Kept(stamp[q]), UNCHANGED allowed PROVE OneScore'
  BY <1>2 DEF Kept, OneScore
<1>3. CASE UNCHANGED <<zset, allowed>>
  BY <1>3 DEF OneScore
<1>4. ASSUME NEW q \in Requests, RunScript(q) PROVE OneScore'
  BY <1>1, <1>2, <1>4 DEF RunScript
<1>5. ASSUME NEW q \in Requests, Admit(q) \/ Reject(q) \/ Resend(q) \/ FailOpen(q) PROVE OneScore'
  BY <1>2, <1>3, <1>4, <1>5 DEF Admit, Reject, Resend, FailOpen
<1> QED
  BY <1>3, <1>5 DEF Next, Tick, Arrive, vars

(* Only a lost answer counts a request that goes on waiting. *)
LEMMA UncountedNext == Inv /\ Uncounted /\ [Next]_vars => Uncounted'
<1> SUFFICES ASSUME Inv, Uncounted, [Next]_vars, faults' = 0 PROVE sent' \cap allowed' = {}
  BY DEF Uncounted
<1>1. faults \in Nat /\ faults + 1 # 0
  BY DEF Inv, TypeOK
<1>2. ASSUME NEW q \in Requests, Arrive(q) PROVE sent' \cap allowed' = {}
  <2>1. q \notin allowed
    BY <1>2 DEF Arrive, Inv, Stamped, Never
  <2> QED
    BY <1>2, <2>1 DEF Arrive, Uncounted
<1>3. ASSUME NEW q \in Requests, Admit(q) PROVE sent' \cap allowed' = {}
  BY <1>3 DEF Admit, RunScript, Uncounted
<1>4. ASSUME NEW q \in Requests, Reject(q) PROVE sent' \cap allowed' = {}
  BY <1>4 DEF Reject, Uncounted
<1>5. ASSUME NEW q \in Requests, Resend(q) \/ FailOpen(q) PROVE FALSE
  BY <1>1, <1>5 DEF Resend, FailOpen, Fault
<1>6. CASE Tick \/ UNCHANGED vars
  BY <1>6 DEF Tick, vars, Uncounted
<1> QED
  BY <1>2, <1>3, <1>4, <1>5, <1>6 DEF Next

(* The limiter refuses a request only when Limit ids were counted in its   *)
(* window: with WindowRespected, the limit is met from both sides.  Its    *)
(* own element is among them only after a lost answer.                     *)
THEOREM RefusedForCauseHolds == Spec => RefusedForCause
<1>1. Init => OneScore /\ Uncounted
  BY FS_EmptySet DEF Init, OneScore, Uncounted
<1>2. Inv /\ OneScore /\ Uncounted /\ [Next]_vars =>
        [\A q \in Requests :
           Reject(q) => /\ Cardinality({IdOf[p] : p \in InWindowOf(q)}) >= Limit
                        /\ faults = 0 => q \notin InWindowOf(q)]_vars
  <2> SUFFICES ASSUME Inv, OneScore, Uncounted, NEW q \in Requests, Reject(q)
               PROVE  /\ Cardinality({IdOf[p] : p \in InWindowOf(q)}) >= Limit
                      /\ faults = 0 => q \notin InWindowOf(q)
    OBVIOUS
  <2>10. faults = 0 => q \notin InWindowOf(q)
    BY DEF Uncounted, InWindowOf, Reject
  <2> DEFINE kept == Kept(stamp[q])
             ids == {x[1] : x \in kept}
             window == InWindowOf(q)
             counted == {IdOf[p] : p \in window}
  <2>1. stamp[q] \in Nat /\ stamp[q] <= time /\ ~HasRoom(kept)
    BY DEF Inv, Stamped, Reject
  <2>2. kept \in SUBSET zset /\ IsFiniteSet(kept)
    BY <2>1, KeptIs
  <2>3. \A x \in kept : x[2] > stamp[q] - Window
    BY DEF Kept
  <2>4. ids \in SUBSET counted
    <3> SUFFICES ASSUME NEW x \in kept PROVE x[1] \in counted
      OBVIOUS
    <3>1. PICK p \in allowed : x[1] = IdOf[p] /\ x[2] = stamp[p]
      BY <2>2 DEF Inv, Scored
    <3> QED
      BY <2>3, <3>1 DEF InWindowOf
  <2>5. IsFiniteSet(counted)
    <3>1. IsFiniteSet(window)
      BY FS_Subset DEF InWindowOf, OneScore
    <3>2. [p \in window |-> IdOf[p]] \in Surjection(window, counted)
      BY DEF Surjection
    <3> HIDE DEF window, counted
    <3> QED
      BY <3>1, <3>2, FS_Surjection
  <2>6. Cardinality(ids) = Cardinality(kept)
    <3>1. [x \in kept |-> x[1]] \in Bijection(kept, ids)
      BY <2>2 DEF OneScore, Bijection, Injection, Surjection, IsInjective
    <3>2. ExistsBijection(kept, ids)
      BY <3>1 DEF ExistsBijection
    <3> HIDE DEF kept, ids
    <3> QED
      BY <2>2, <3>2, FS_Bijection
  <2> HIDE DEF kept, ids, counted
  <2>7. Cardinality(ids) <= Cardinality(counted)
    BY <2>4, <2>5, FS_Subset
  <2>8. Cardinality(kept) \in Nat /\ Cardinality(counted) \in Nat
    BY <2>2, <2>5, FS_CardinalityType
  <2>9. Cardinality(counted) >= Limit
    BY <2>1, <2>6, <2>7, <2>8, WindowIs DEF HasRoom
  <2> QED
    BY <2>9, <2>10 DEF counted, window
<1> QED
  BY <1>1, <1>2, OneScoreNext, UncountedNext, LimiterInvariant, PTL DEF Spec, RefusedForCause

=============================================================================
