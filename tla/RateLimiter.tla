----------------------------- MODULE RateLimiter -----------------------------
(***************************************************************************)
(* apps/gateway/src/rate-limit: the sliding window of one merchant, a      *)
(* Redis sorted set from request ids to the time the gateway read before   *)
(* it sent the script.  The script is atomic; the time is read earlier, so *)
(* scripts may reach Redis out of the order of their times.                *)
(***************************************************************************)
EXTENDS Integers, FiniteSets, FiniteSetsExt

CONSTANTS
  Requests,        \* requests of the merchant
  IdOf,            \* the x-request-id of each
  Limit,           \* RATE_LIMIT_DEFAULT_LIMIT
  WindowSeconds,   \* RATE_LIMIT_WINDOW_SECONDS
  TicksPerSecond,  \* resolution of Date.now(), 1000 in the code
  MaxTime,         \* bound: the time goes no further
  MaxFaults        \* bound: connections that break with a script under way

ASSUME LimitsAssumption ==
  /\ Limit \in Nat \ {0}
  /\ WindowSeconds \in Nat \ {0}
  /\ TicksPerSecond \in Nat \ {0}
  /\ MaxTime \in Nat
  /\ MaxFaults \in Nat

VARIABLES
  time,      \* Date.now(), the same everywhere
  sent,      \* requests whose time was read, not yet decided
  stamp,     \* that time
  zset,      \* pairs <<request id, score>>
  expireAt,  \* when PEXPIRE drops the key
  allowed,   \* requests the script counted, whether or not its answer arrived
  opened,    \* requests let through because Redis failed
  promise,   \* the times Retry-After names that no admission has overtaken
  faults     \* failures so far

vars == <<time, sent, stamp, zset, expireAt, allowed, opened, promise, faults>>

Window == WindowSeconds * TicksPerSecond
Never == -1

TypeOK ==
  /\ time \in 0 .. MaxTime
  /\ sent \subseteq Requests
  /\ stamp \in [Requests -> Nat \cup {Never}]
  /\ zset \subseteq {IdOf[q] : q \in Requests} \X Nat
  /\ expireAt \in Nat
  /\ allowed \subseteq Requests
  /\ opened \subseteq Requests
  /\ promise \subseteq Nat
  /\ faults \in Nat

Init ==
  /\ time = 0
  /\ sent = {}
  /\ stamp = [q \in Requests |-> Never]
  /\ zset = {}
  /\ expireAt = 0
  /\ allowed = {}
  /\ opened = {}
  /\ promise = {}
  /\ faults = 0

Tick ==
  /\ time < MaxTime
  /\ time' = time + 1
  /\ UNCHANGED <<sent, stamp, zset, expireAt, allowed, opened, promise, faults>>

(* checkRateLimit reads the time and sends the script. *)
Arrive(q) ==
  /\ stamp[q] = Never
  /\ stamp' = [stamp EXCEPT ![q] = time]
  /\ sent' = sent \cup {q}
  /\ UNCHANGED <<time, zset, expireAt, allowed, opened, promise, faults>>

-----------------------------------------------------------------------------
(* The Lua script.                                                         *)

(* Mutant: the element that is exactly one window old stays. *)
KeptLonger(now) == {x \in zset : time < expireAt /\ x[2] >= now - Window}

(* What ZREMRANGEBYSCORE -inf now - window leaves of a key that lives. *)
Kept(now) == {x \in zset : time < expireAt /\ x[2] > now - Window}

(* ZADD replaces the score of an id the set has. *)
ZAdd(set, id, score) == {x \in set : x[1] # id} \cup {<<id, score>>}

ResetTime(set, now) ==
  IF set = {} THEN now + Window ELSE Min({x[2] : x \in set}) + Window

CeilSeconds(t) == (t + TicksPerSecond - 1) \div TicksPerSecond
FloorSeconds(t) == t \div TicksPerSecond

(* The header of a 429, in seconds. *)
RetryAfter(reset) == Max({1, CeilSeconds(reset) - FloorSeconds(time)})

(* Mutant: a request more than the limit. *)
HasRoomForOneMore(kept) == Cardinality(kept) <= Limit

HasRoom(kept) == Cardinality(kept) < Limit

(* What the script does to the key: it trims the set and, where there is   *)
(* room, counts the request.                                               *)
RunScript(q) ==
  LET kept == Kept(stamp[q]) IN
  \/ /\ HasRoom(kept)
     /\ zset' = ZAdd(kept, IdOf[q], stamp[q])
     /\ expireAt' = time + Window
     /\ allowed' = allowed \cup {q}
     /\ promise' = {}
  \/ /\ ~HasRoom(kept)
     /\ zset' = kept
     /\ UNCHANGED <<expireAt, allowed, promise>>

Admit(q) ==
  /\ q \in sent
  /\ HasRoom(Kept(stamp[q]))
  /\ RunScript(q)
  /\ sent' = sent \ {q}
  /\ UNCHANGED <<time, stamp, opened, faults>>

(* 429: the client is told to come back after Retry-After seconds. *)
Reject(q) ==
  LET kept == Kept(stamp[q]) IN
  /\ q \in sent
  /\ ~HasRoom(kept)
  /\ zset' = kept
  /\ sent' = sent \ {q}
  /\ promise' = promise \cup
       {time + RetryAfter(ResetTime(kept, stamp[q])) * TicksPerSecond}
  /\ UNCHANGED <<time, stamp, expireAt, allowed, opened, faults>>

Fault ==
  /\ faults < MaxFaults
  /\ faults' = faults + 1

(* The connection breaks with the answer of a script under way, and the    *)
(* client sends the command again (maxRetriesPerRequest: null): the run    *)
(* that follows finds what this one left.                                  *)
Resend(q) ==
  /\ q \in sent
  /\ Fault
  /\ RunScript(q)
  /\ UNCHANGED <<time, sent, stamp, opened>>

(* The call fails, before or after the script ran: the request is let      *)
(* through.                                                                *)
FailOpen(q) ==
  /\ q \in sent
  /\ Fault
  /\ RunScript(q) \/ UNCHANGED <<zset, expireAt, allowed, promise>>
  /\ opened' = opened \cup {q}
  /\ sent' = sent \ {q}
  /\ UNCHANGED <<time, stamp>>

Next ==
  \/ Tick
  \/ \E q \in Requests : Arrive(q) \/ Admit(q) \/ Reject(q) \/ Resend(q) \/ FailOpen(q)

Spec == Init /\ [][Next]_vars

-----------------------------------------------------------------------------

(* README.md:419, sliding window limits per merchant: in any window at     *)
(* most Limit requests are let through by the script, however late it runs *)
(* and even if it runs twice.  A repeated x-request-id replaces its        *)
(* element, and a slow repeat even dates it back                           *)
(* (redis-rate-limit.repository.ts:25), so requests count once for each id *)
(* that is new: let through within the window and not before it.           *)
WindowRespected ==
  Cardinality({i \in {IdOf[q] : q \in allowed} :
                 \A q \in allowed : IdOf[q] = i => stamp[q] > time - Window}) <= Limit

(* Retry-After keeps its word: a request made at the time it named, or     *)
(* later, finds room unless a request was counted in between: another, or  *)
(* the same one by a run of its script whose answer was lost.              *)
RetryAfterIsEnough ==
  \A q \in sent, t \in promise : stamp[q] >= t => HasRoom(Kept(stamp[q]))

=============================================================================
