------------------------- MODULE IdempotencyService -------------------------
(***************************************************************************)
(* apps/idempotency-service: one Redis record for each idempotency key,    *)
(* written by SET NX and by Lua scripts that compare the owner.  check is  *)
(* a call of several Redis commands; complete and cleanup are one each.    *)
(*                                                                         *)
(* A key stands for the pair of merchant and Idempotency-Key.  A request   *)
(* is one attempt of a client; it also stands for the ownerId that check   *)
(* makes up for it, and for the payment it creates, if any.                *)
(***************************************************************************)
EXTENDS Naturals, ClientRequests

CONSTANTS
  Keys,        \* idempotency keys
  Hashes,      \* checksums of request bodies
  KeyOf,       \* the key each request carries
  HashOf,      \* RequestHashService.generate of each request's body
  MaxFaults,   \* bound: failed calls and killed processes together
  MaxExpiries  \* bound: records that outlive ttlHours

ASSUME KeysAssumption ==
  /\ KeyOf \in [Requests -> Keys]
  /\ HashOf \in [Requests -> Hashes]
ASSUME BoundsAssumption == MaxFaults \in Nat /\ MaxExpiries \in Nat

VARIABLES
  store,    \* the record of each key, NoRecord when Redis has none
  check,    \* the check call of each request: where it is and what it answered
  expired,  \* keys whose record expired at least once
  expiries, \* expiries so far
  faults    \* faults so far

idempotencyVars == <<store, check, expired, expiries>>

NoRecord == [status |-> "ABSENT", owner |-> None, hash |-> None, body |-> None]

Record ==
  [status : {"IN_PROGRESS"}, owner : Requests, hash : Hashes, body : {None}]
  \cup [status : {"COMPLETED"}, owner : Requests, hash : Hashes, body : Requests]

(***************************************************************************)
(* acquire, find          createInProgress, then findRequest               *)
(* reacquire, refind      the second attempt, when the record vanished     *)
(* answered               the answer is on its way to the gateway          *)
(***************************************************************************)
CheckReply == {"NONE", "MISS", "COMPLETED", "IN_PROGRESS", "MISMATCH", "ERROR"}
CheckCall ==
  [at : {"off", "acquire", "find", "reacquire", "refind", "answered"},
   reply : CheckReply, body : Requests \cup {None}]

NoCheck == [at |-> "off", reply |-> "NONE", body |-> None]

IdempotencyTypeOK ==
  /\ store \in [Keys -> Record \cup {NoRecord}]
  /\ check \in [Requests -> CheckCall]
  /\ expired \subseteq Keys
  /\ expiries \in Nat
  /\ faults \in Nat

IdempotencyInit ==
  /\ store = [k \in Keys |-> NoRecord]
  /\ check = [r \in Requests |-> NoCheck]
  /\ expired = {}
  /\ expiries = 0
  /\ faults = 0

Fault == faults < MaxFaults /\ faults' = faults + 1

-----------------------------------------------------------------------------
(* Redis commands.                                                         *)

Free(r) == store[KeyOf[r]] = NoRecord

(* SET key record EX ttl NX *)
CreateInProgress(r) ==
  store' = [store EXCEPT ![KeyOf[r]] =
    IF Free(r)
    THEN [status |-> "IN_PROGRESS", owner |-> r, hash |-> HashOf[r], body |-> None]
    ELSE @]

(* The script of markCompleted: nothing unless the owner still has the key. *)
MarkCompleted(r, body) ==
  store' = [store EXCEPT ![KeyOf[r]] =
    IF @.owner = r
    THEN [status |-> "COMPLETED", owner |-> r, hash |-> HashOf[r], body |-> body]
    ELSE @]

(* Mutant: the lock is deleted whoever owns it. *)
DeleteAnyOwner(r) == store' = [store EXCEPT ![KeyOf[r]] = NoRecord]

(* The script of delete. *)
Delete(r) ==
  store' = [store EXCEPT ![KeyOf[r]] = IF @.owner = r THEN NoRecord ELSE @]

(* The TTL of a record runs out. *)
Expire(k) ==
  /\ store[k] # NoRecord
  /\ expiries < MaxExpiries
  /\ expiries' = expiries + 1
  /\ expired' = expired \cup {k}
  /\ store' = [store EXCEPT ![k] = NoRecord]
  /\ UNCHANGED <<check, faults>>

-----------------------------------------------------------------------------
(* check, command by command.                                              *)

Reply(r, reply, body) ==
  check' = [check EXCEPT ![r] = [at |-> "answered", reply |-> reply, body |-> body]]

ContinueCheck(r, at) == check' = [check EXCEPT ![r].at = at]

(* SET NX, at first and again after the record was found to be gone. *)
Acquire(r) ==
  /\ check[r].at \in {"acquire", "reacquire"}
  /\ CreateInProgress(r)
  /\ \/ Free(r) /\ Reply(r, "MISS", None)
     \/ ~Free(r) /\ check[r].at = "acquire" /\ ContinueCheck(r, "find")
     \/ ~Free(r) /\ check[r].at = "reacquire" /\ ContinueCheck(r, "refind")
  /\ UNCHANGED <<expired, expiries, faults>>

(* Mutant: the checksum of the body is not compared. *)
JudgeAnyBody(r, record) ==
  \/ record.status = "IN_PROGRESS" /\ Reply(r, "IN_PROGRESS", None)
  \/ record.status = "COMPLETED" /\ Reply(r, "COMPLETED", record.body)

(* Steps 3 to 5 of check: another body is refused before the status counts. *)
Judge(r, record) ==
  \/ record.hash # HashOf[r] /\ Reply(r, "MISMATCH", None)
  \/ /\ record.hash = HashOf[r]
     /\ \/ record.status = "IN_PROGRESS" /\ Reply(r, "IN_PROGRESS", None)
        \/ record.status = "COMPLETED" /\ Reply(r, "COMPLETED", record.body)

(* Mutant: a record that vanished is taken for a lock acquired. *)
FindRequestAssumesMiss(r) ==
  /\ check[r].at \in {"find", "refind"}
  /\ \/ ~Free(r) /\ Judge(r, store[KeyOf[r]])
     \/ Free(r) /\ Reply(r, "MISS", None)
  /\ UNCHANGED <<store, expired, expiries, faults>>

(* GET: a record that vanished between the two commands leads to a second  *)
(* attempt, and to an error when it vanishes again.                        *)
FindRequest(r) ==
  /\ check[r].at \in {"find", "refind"}
  /\ \/ ~Free(r) /\ Judge(r, store[KeyOf[r]])
     \/ Free(r) /\ check[r].at = "find" /\ ContinueCheck(r, "reacquire")
     \/ Free(r) /\ check[r].at = "refind" /\ Reply(r, "ERROR", None)
  /\ UNCHANGED <<store, expired, expiries, faults>>

(* Redis fails the command, its effect done or not: the call is a 500. *)
CheckFails(r) ==
  /\ check[r].at \in {"acquire", "find", "reacquire", "refind"}
  /\ Fault
  /\ \/ UNCHANGED store
     \/ check[r].at \in {"acquire", "reacquire"} /\ CreateInProgress(r)
  /\ Reply(r, "ERROR", None)
  /\ UNCHANGED <<expired, expiries>>

(* The connection breaks once SET NX is carried out: ioredis sends the     *)
(* command again (maxRetriesPerRequest null), and check will meet the      *)
(* record of its own first attempt.  GET and the two scripts do nothing    *)
(* more when they are sent twice.                                          *)
CheckResent(r) ==
  /\ check[r].at \in {"acquire", "reacquire"}
  /\ Free(r)
  /\ Fault
  /\ CreateInProgress(r)
  /\ UNCHANGED <<check, expired, expiries>>

CheckFault(r) == CheckFails(r) \/ CheckResent(r)

CheckStep(r) == Acquire(r) \/ FindRequest(r)

=============================================================================
