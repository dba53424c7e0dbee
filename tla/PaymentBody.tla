----------------------------- MODULE PaymentBody -----------------------------
(***************************************************************************)
(* What becomes of the body of a payment request: the idempotency service  *)
(* hashes the JSON as it was sent (request-hash.service.ts), then the      *)
(* gateway's validation pipe accepts or refuses it, the proxy rewrites it, *)
(* and payment-service accepts or refuses the rest.  All requests here     *)
(* carry one idempotency key; how their steps may fail is the subject of   *)
(* PaymentGateway.                                                         *)
(*                                                                         *)
(* A body is a sequence of fields in the order they were sent.  A value    *)
(* has its JSON kind and the text the hash makes of it.  A text is free,   *)
(* and it, or that of a nested object, may contain what the hash puts      *)
(* between two fields, a comma, a field name in quotes and a colon: "text" *)
(* is what comes before the first such delimiter and "more" the names and  *)
(* texts that follow.                                                      *)
(***************************************************************************)
EXTENDS Naturals, Sequences, FiniteSets, Functions

CONSTANTS
  Attempts,    \* requests of clients with the key
  Keys,        \* field names, in alphabetical order
  Required,    \* those CreatePaymentRequestDto requires
  Optional,    \* those it has with @IsOptional()
  Valid,       \* values of each field that satisfy its decorators
  Currencies,  \* SUPPORTED_CURRENCIES of payment-service
  Bodies       \* bodies clients send, no field twice

CONSTANT None

Value ==
       [kind : {"null", "number"}, text : STRING, more : {<<>>}]
  \cup [kind : {"string", "object"}, text : STRING, more : Seq([name : STRING, text : STRING])]

(* What the proxy hands on to payment-service.                             *)
PaidFields == {"amount", "currency", "orderId"}

ASSUME FieldsAssumption ==
  /\ Keys \in Seq(STRING)
  /\ Required \cup Optional \subseteq Range(Keys)
  /\ PaidFields \subseteq Required \ Optional
  /\ DOMAIN Valid = Range(Keys)
  /\ \A b \in Bodies :
       /\ b \in Seq([key : Range(Keys), value : Value])
       /\ \A i, j \in DOMAIN b : b[i].key = b[j].key => i = j

(* @IsPositive() admits numbers, the other two texts without a delimiter:  *)
(* @IsISO4217CurrencyCode() and @IsUUID().                                 *)
ASSUME KindsAssumption ==
  \A key \in PaidFields :
    \E kind \in {"number", "string"} :
      Valid[key] \subseteq [kind : {kind}, text : STRING, more : {<<>>}]

VARIABLES
  body,     \* the body of each request
  stage,    \* where it is: "new", "locked", "validated", "done"
  answer,   \* HTTP status it was answered with, 0 before
  paid,     \* the payment in its response, None if there is none
  record    \* the Redis record of the key

bodyVars == <<body, stage, answer, paid, record>>

-----------------------------------------------------------------------------
(* JSON.                                                                   *)

Position(key) == CHOOSE i \in DOMAIN Keys : Keys[i] = key

(* The object a body denotes.                                              *)
Parsed(b) == Range(b)

Has(b, key) == \E f \in Range(b) : f.key = key
ValueOf(b, key) == (CHOOSE f \in Range(b) : f.key = key).value

(* deterministicStringify of a scalar: null is nothing, String() has no    *)
(* quotes.                                                                 *)
Stringify(v) == IF v.kind = "null" THEN "" ELSE v.text

(* The pieces of the text a field becomes: its own name and value, then    *)
(* whatever the value says after a delimiter.                              *)
PiecesOf(f) ==
       {[field |-> f.key, n |-> 0, name |-> f.key, text |-> Stringify(f.value)]}
  \cup {[field |-> f.key, n |-> i, name |-> f.value.more[i].name, text |-> f.value.more[i].text] :
          i \in DOMAIN f.value.more}

Pieces(b) == UNION {PiecesOf(f) : f \in Range(b)}

(* Object.keys(...).sort(): fields in the order of their names.            *)
Before(p, q) ==
  \/ Position(p.field) < Position(q.field)
  \/ p.field = q.field /\ p.n < q.n
Place(p, S) == Cardinality({q \in S : Before(q, p)})

(* Mutant: the fields in the order they were sent.                         *)
GenerateUnsorted(b) == {<<i, b[i].key, Stringify(b[i].value)>> : i \in DOMAIN b}

(* Mutant: the value is looked up under the wrong name and missing.        *)
GenerateNames(b) == {<<Place(p, Pieces(b)), p.name, "">> : p \in Pieces(b)}

(* RequestHashService.generate: what SHA-256, taken to have no collisions, *)
(* is given, as the pieces at their places.  Nothing is escaped, so it     *)
(* does not show which delimiters were the object's and which a text's.    *)
Generate(b) == {<<Place(p, Pieces(b)), p.name, p.text>> : p \in Pieces(b)}

-----------------------------------------------------------------------------
(* The two validation pipes.                                               *)

(* exceptionFactory: a ValidationError, answered 400.                      *)
Refusal == 400

(* AppValidationPipe with the gateway's DTO: every required field, no      *)
(* other than its own; @IsOptional() lets null pass.                       *)
GatewayAccepts(b) ==
  /\ \A k \in Required : Has(b, k)
  /\ \A f \in Range(b) :
       \/ f.key \in Required /\ f.value \in Valid[f.key]
       \/ f.key \in Optional /\ (f.value \in Valid[f.key] \/ f.value.kind = "null")

(* forwardPaymentRequest: the gateway's DTO has no reference, so it is the *)
(* order's id.                                                             *)
Forwarded(b) ==
  [amount |-> ValueOf(b, "amount"), currency |-> ValueOf(b, "currency"),
   reference |-> ValueOf(b, "orderId")]

(* payment-service's DTO: a number, one of its currencies (the gateway     *)
(* knows all of ISO 4217), a text that is not empty.                       *)
PaymentAccepts(p) ==
  /\ p.amount.kind = "number"
  /\ p.currency.text \in Currencies
  /\ p.reference.text # ""

-----------------------------------------------------------------------------
NoRecord == [status |-> "ABSENT", hash |-> None, by |-> None, payment |-> None]

(* Payments the requests may make.                                         *)
Payments == {Forwarded(body[q]) : q \in {r \in Attempts : GatewayAccepts(body[r])}}

BodyTypeOK ==
  /\ body \in [Attempts -> Seq([key : Range(Keys), value : Value])]
  /\ stage \in [Attempts -> {"new", "locked", "validated", "done"}]
  /\ answer \in [Attempts -> {0, 202, 400, 409, 422}]
  /\ paid \in [Attempts -> Payments \cup {None}]
  /\ record \in [status  : {"ABSENT", "IN_PROGRESS", "COMPLETED"},
                 hash    : {Generate(body[q]) : q \in Attempts} \cup {None},
                 by      : Attempts \cup {None},
                 payment : Payments \cup {None}]

BodyInit ==
  /\ body \in [Attempts -> Bodies]
  /\ stage = [r \in Attempts |-> "new"]
  /\ answer = [r \in Attempts |-> 0]
  /\ paid = [r \in Attempts |-> None]
  /\ record = NoRecord

Finish(r, status, what) ==
  /\ stage' = [stage EXCEPT ![r] = "done"]
  /\ answer' = [answer EXCEPT ![r] = status]
  /\ paid' = [paid EXCEPT ![r] = what]

(* check: the interceptor runs before the pipe, so this is the raw body.   *)
CheckMiss(r) ==
  /\ stage[r] = "new"
  /\ record = NoRecord
  /\ record' = [status |-> "IN_PROGRESS", hash |-> Generate(body[r]), by |-> r,
                payment |-> None]
  /\ stage' = [stage EXCEPT ![r] = "locked"]
  /\ UNCHANGED <<body, answer, paid>>

(* The hash is compared first, then the status.                            *)
CheckHit(r) ==
  /\ stage[r] = "new"
  /\ record # NoRecord
  /\ \/ record.hash # Generate(body[r]) /\ Finish(r, 422, None)
     \/ record.hash = Generate(body[r]) /\ record.status = "IN_PROGRESS"
          /\ Finish(r, 409, None)
     \/ record.hash = Generate(body[r]) /\ record.status = "COMPLETED"
          /\ Finish(r, 202, record.payment)
  /\ UNCHANGED <<body, record>>

(* The pipe refuses: catchError deletes the record.                        *)
Validate(r) ==
  /\ stage[r] = "locked"
  /\ \/ /\ GatewayAccepts(body[r])
        /\ stage' = [stage EXCEPT ![r] = "validated"]
        /\ UNCHANGED <<answer, paid, record>>
     \/ /\ ~GatewayAccepts(body[r])
        /\ record' = NoRecord
        /\ Finish(r, Refusal, None)
  /\ UNCHANGED body

(* payment-service answers; tap completes the record, catchError deletes.  *)
ForwardBody(r) ==
  /\ stage[r] = "validated"
  /\ LET p == Forwarded(body[r]) IN
     \/ /\ PaymentAccepts(p)
        /\ record' = [record EXCEPT !.status = "COMPLETED", !.payment = p]
        /\ Finish(r, 202, p)
     \/ /\ ~PaymentAccepts(p)
        /\ record' = NoRecord
        /\ Finish(r, Refusal, None)
  /\ UNCHANGED body

BodyNext == \E r \in Attempts : CheckMiss(r) \/ CheckHit(r) \/ Validate(r) \/ ForwardBody(r)

BodySpec == BodyInit /\ [][BodyNext]_bodyVars

(***************************************************************************)
(* Properties.                                                             *)
(***************************************************************************)

(* request-hash.service.ts, "consistent hashing regardless of key          *)
(* ordering": a retry whose fields come in another order is recognised;    *)
(* it is never told that its body differs.                                 *)
RetryIsRecognised ==
  \A r \in Attempts : answer[r] = 422 =>
    \E q \in Attempts \ {r} : stage[q] \in {"locked", "validated", "done"}
                                /\ Parsed(body[q]) # Parsed(body[r])

(* No text of the body contains a delimiter of the hash.                   *)
Plain(b) == \A f \in Range(b) : f.value.more = <<>>

(* Although the hash forgets null, quotes and kinds, a valid request whose *)
(* own texts contain no delimiter is never answered with a payment of      *)
(* another amount, currency or order, whatever texts the other requests    *)
(* with its key have.  For a request with such texts that is false: its    *)
(* delimiters and another's fields may hash alike.                         *)
ReplayIsOwnPayment ==
  \A r \in Attempts :
    answer[r] = 202 /\ GatewayAccepts(body[r]) /\ Plain(body[r]) => paid[r] = Forwarded(body[r])

=============================================================================
