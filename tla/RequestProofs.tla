---------------------------- MODULE RequestProofs ----------------------------
(***************************************************************************)
(* Theorems about what becomes of a request on its way: about              *)
(* RequestContext, for every set of requests, ids and merchants, whatever  *)
(* headers the clients send, and about PaymentBody, for all fields and     *)
(* bodies.                                                                 *)
(***************************************************************************)
EXTENDS RequestContext, PaymentBody, FiniteSetTheorems, TLAPS

-----------------------------------------------------------------------------
(* The operators the identifiers pass through.                             *)

(* A store has every id its middleware found or made. *)
LEMMA ContextIs ==
  ASSUME NEW h \in Headers, NEW hop \in {"gateway", "payment", "order"}, NEW r \in Requests
  PROVE  /\ ContextOf(h, hop, r) \in Headers
         /\ ContextOf(h, hop, r).merchantId = h.merchantId
         /\ ContextOf(h, hop, r).correlationId # Absent
         /\ h.correlationId # Absent => ContextOf(h, hop, r).correlationId = h.correlationId
         /\ h.correlationId = Absent => ContextOf(h, hop, r).correlationId = Fresh("corr", hop, r)
<1>1. Fresh("req", hop, r) \in Made /\ Fresh("corr", hop, r) \in Made
  BY DEF Fresh, Made
<1>2. Absent \notin Made
  BY IdsAssumption DEF Made
<1> HIDE DEF Fresh, Made
<1> QED
  BY <1>1, <1>2 DEF ContextOf, Headers

(* A call carries what is truthy in the store. *)
LEMMA PropagateIs ==
  ASSUME NEW s \in Headers
  PROVE  /\ PropagateHeaders(s) \in Headers
         /\ PropagateHeaders(s).correlationId = IF Truthy(s.correlationId) THEN s.correlationId ELSE Absent
         /\ PropagateHeaders(s).merchantId = IF Truthy(s.merchantId) THEN s.merchantId ELSE Absent
<1> HIDE DEF Made
<1> QED
  BY DEF PropagateHeaders, Headers

(* A correlation id that is there is carried on unchanged. *)
LEMMA TrailIs ==
  ASSUME NEW s \in Headers
  PROVE  /\ TrailOf(s) \in Trails /\ EnvelopeOf(TrailOf(s)) \in Trails
         /\ Truthy(s.correlationId) =>
              /\ TrailOf(s).correlationId = s.correlationId
              /\ EnvelopeOf(TrailOf(s)).correlationId = s.correlationId
              /\ EnvelopeOf(TrailOf(s)).sagaId = s.correlationId
<1> HIDE DEF Made
<1>1. TrailOf(s) \in Trails /\ (Truthy(s.correlationId) => TrailOf(s).correlationId = s.correlationId)
  BY DEF TrailOf, Trails, Headers, IdValues
<1>2. \A t \in Trails : /\ EnvelopeOf(t) \in Trails
                        /\ EnvelopeOf(t).correlationId = t.correlationId
                        /\ EnvelopeOf(t).sagaId = t.correlationId
  BY DEF EnvelopeOf, Trails
<1> QED
  BY <1>1, <1>2

-----------------------------------------------------------------------------
(* The inductive invariant: each hop has what the hop before handed on.    *)

Answered(r) == pc[r] \notin {"sent"}
Known(r) == pc[r] \notin {"sent", "context", "refused"}
Called(r) == Known(r) /\ pc[r] # "authenticated"
Received(r) == Called(r) /\ pc[r] # "forwarded"
Validated(r) == Received(r) /\ pc[r] # "received"
Sent(r) == pc[r] \in {"published", "consumed", "dead"}

(* The correlation of a request from payment-service on. *)
Correlation(r) ==
  IF Truthy(replied[r].correlationId) THEN replied[r].correlationId ELSE Fresh("corr", "payment", r)

Chain(r) ==
  /\ Answered(r) =>
       /\ store[r].correlationId # Absent
       /\ replied[r].correlationId =
            IF Truthy(store[r].correlationId) THEN store[r].correlationId ELSE Absent
  /\ Known(r) => store[r].merchantId = MerchantOf[r]
  /\ Called(r) =>
       /\ call[r].merchantId = MerchantOf[r]
       /\ call[r].correlationId = replied[r].correlationId
  /\ Received(r) => payStore[r].correlationId = Correlation(r)
  /\ Validated(r) => order[r].correlationId = Correlation(r)
  /\ Created(r) =>
       /\ payment[r].merchantId = MerchantOf[r]
       /\ payment[r].trail.correlationId = Correlation(r)
       /\ event[r].correlationId = Correlation(r) /\ event[r].sagaId = Correlation(r)
  /\ Sent(r) => message[r].correlationId = Correlation(r) /\ message[r].sagaId = Correlation(r)
  /\ pc[r] = "dead" => letter[r].correlationId = Correlation(r) /\ letter[r].sagaId = Correlation(r)

Inv == TypeOK /\ \A r \in Requests : Chain(r)

(* The part of the state that belongs to one request. *)
Mine(q) == <<pc[q], header[q], store[q], replied[q], call[q], payStore[q], order[q],
             payment[q], event[q], message[q], letter[q]>>

(* A correlation is never empty, so no hop after payment-service replaces  *)
(* it.                                                                     *)
LEMMA CorrelationIsTruthy ==
  ASSUME NEW r \in Requests
  PROVE  Truthy(Correlation(r)) /\ Truthy(MerchantOf[r])
<1>1. Fresh("corr", "payment", r) \in Made
  BY DEF Fresh, Made
<1>2. MerchantOf[r] \in Merchants
  BY MerchantAssumption
<1> HIDE DEF Fresh, Made
<1> QED
  BY <1>1, <1>2, IdsAssumption DEF Correlation, Truthy

(* The invariant holds initially. *)
LEMMA InitInv == Init => Inv
<1> SUFFICES ASSUME Init PROVE Inv
  OBVIOUS
<1>1. Nothing \in Headers /\ NoEvent \in Trails
  BY DEF Nothing, Headers, NoEvent, Trails, IdValues
<1>2. header \in [Requests -> Headers]
  BY DEF Init, Headers
<1>3. [merchantId |-> Absent, trail |-> NoEvent] \in [merchantId : Merchants \cup {Absent}, trail : Trails]
  BY <1>1
<1> HIDE DEF Nothing, NoEvent, Headers, Trails
<1>4. TypeOK
  BY <1>1, <1>2, <1>3 DEF Init, TypeOK
<1>5. ASSUME NEW r \in Requests PROVE Chain(r)
  <2>1. pc[r] = "sent"
    BY DEF Init
  <2> QED
    BY <2>1 DEF Chain, Answered, Known, Called, Received, Validated, Created, Sent
<1> QED
  BY <1>4, <1>5 DEF Inv

(* A step of a request, in the part of the state that is its own: every    *)
(* store, header and row belongs to one request.                           *)
StepOf(r) ==
  \/ GatewayContext(r) \/ Authenticate(r) \/ Reject(r) \/ Forward(r) \/ PaymentContext(r)
  \/ CallOrderService(r) \/ CreatePayment(r) \/ Publish(r) \/ Consume(r) \/ DeadLetter(r)

(* No step touches what belongs to another request. *)
LEMMA OthersKeep ==
  ASSUME TypeOK, NEW r \in Requests, StepOf(r), NEW q \in Requests \ {r}
  PROVE  Mine(q)' = Mine(q)
<1> HIDE DEF Headers, Trails
<1> QED
  BY DEF TypeOK, StepOf, GatewayContext, Authenticate, Reject, Forward, PaymentContext,
     CallOrderService, CreatePayment, Publish, Consume, DeadLetter, Step, Run, Mine

(* Every step keeps the types. *)
LEMMA NextType ==
  ASSUME TypeOK, NEW r \in Requests, StepOf(r)
  PROVE  TypeOK'
<1> HIDE DEF Headers, Trails
<1>1. /\ header[r] \in Headers /\ store[r] \in Headers /\ replied[r] \in Headers /\ call[r] \in Headers
      /\ payStore[r] \in Headers /\ MerchantOf[r] \in Merchants /\ message[r] \in Trails
  BY MerchantAssumption DEF TypeOK
<1>2. CASE GatewayContext(r)
  <2>1. PICK c \in Headers : c = ContextOf(header[r], "gateway", r)
    BY <1>1, ContextIs
  <2>2. [header[r] EXCEPT !.requestId = c.requestId, !.correlationId = c.correlationId] \in Headers
    BY <1>1, <2>1 DEF Headers
  <2>3. [replied[r] EXCEPT !.requestId = c.requestId,
                           !.correlationId = IF Truthy(c.correlationId) THEN c.correlationId ELSE Absent] \in Headers
    BY <1>1, <2>1 DEF Headers
  <2> QED
    BY <1>2, <2>1, <2>2, <2>3 DEF TypeOK, GatewayContext, Step, Run
<1>3. CASE Authenticate(r)
  <2>1. \A h \in Headers : [h EXCEPT !.merchantId = MerchantOf[r]] \in Headers
    BY <1>1 DEF Headers
  <2> QED
    BY <1>1, <1>3, <2>1 DEF TypeOK, Authenticate, Step
<1>4. CASE Reject(r)
  BY <1>4 DEF TypeOK, Reject, Step
<1>5. CASE Forward(r)
  BY <1>1, <1>5, PropagateIs DEF TypeOK, Forward, Step
<1>6. CASE PaymentContext(r)
  BY <1>1, <1>6, ContextIs DEF TypeOK, PaymentContext, Step, Run
<1>7. CASE CallOrderService(r)
  BY <1>1, <1>7, ContextIs, PropagateIs DEF TypeOK, CallOrderService, Step, Run
<1>8. CASE CreatePayment(r)
  <2>1. call[r].merchantId \in Merchants
    BY <1>1, <1>8 DEF CreatePayment, Truthy, Headers
  <2>2. PaymentOf(call[r].merchantId, TrailOf(payStore[r])) \in [merchantId : Merchants \cup {Absent}, trail : Trails]
    BY <1>1, <2>1, TrailIs DEF PaymentOf
  <2> HIDE DEF PaymentOf
  <2> QED
    BY <1>1, <1>8, <2>2, TrailIs DEF TypeOK, CreatePayment, Step
<1>9. CASE Publish(r)
  BY <1>9 DEF TypeOK, Publish, Step
<1>10. CASE Consume(r)
  BY <1>10 DEF TypeOK, Consume, Step
<1>11. CASE DeadLetter(r)
  <2>1. LetterOf(r) \in Trails
    BY <1>1 DEF LetterOf, Trails, IdValues
  <2> HIDE DEF LetterOf
  <2> QED
    BY <1>11, <2>1 DEF TypeOK, DeadLetter, Step
<1> QED
  BY <1>2, <1>3, <1>4, <1>5, <1>6, <1>7, <1>8, <1>9, <1>10, <1>11 DEF StepOf

(* Every step hands the ids on. *)
LEMMA NextChain ==
  ASSUME Inv, NEW r \in Requests, StepOf(r)
  PROVE  Chain(r)'
<1> HIDE DEF Headers, Trails
<1> USE DEF Chain, Answered, Known, Called, Received, Validated, Created, Sent
<1>1. /\ header[r] \in Headers /\ store[r] \in Headers /\ replied[r] \in Headers /\ call[r] \in Headers
      /\ payStore[r] \in Headers /\ MerchantOf[r] \in Merchants /\ message[r] \in Trails
  BY MerchantAssumption DEF Inv, TypeOK
<1>2. Chain(r) /\ Truthy(Correlation(r)) /\ Truthy(MerchantOf[r])
  BY CorrelationIsTruthy DEF Inv
<1>3. UNCHANGED replied => Correlation(r)' = Correlation(r)
  BY DEF Correlation
<1> HIDE DEF Correlation
<1>4. CASE GatewayContext(r)
  <2>1. PICK c \in Headers : c = ContextOf(header[r], "gateway", r)
    BY <1>1, ContextIs
  <2>2. c.correlationId # Absent
    BY <1>1, <2>1, ContextIs
  <2>3. /\ pc'[r] = "context" /\ store'[r] = c
        /\ replied'[r].correlationId = IF Truthy(c.correlationId) THEN c.correlationId ELSE Absent
    BY <1>1, <1>4, <2>1 DEF GatewayContext, Step, Run, Inv, TypeOK, Headers
  <2> QED
    BY <2>2, <2>3
<1>5. CASE Authenticate(r)
  <2>1. /\ pc'[r] = "authenticated" /\ pc[r] = "context" /\ UNCHANGED replied
        /\ store'[r].merchantId = MerchantOf[r] /\ store'[r].correlationId = store[r].correlationId
    BY <1>1, <1>5 DEF Authenticate, Step, Inv, TypeOK, Headers
  <2> QED
    BY <1>2, <2>1
<1>6. CASE Reject(r)
  <2>1. pc'[r] = "refused" /\ pc[r] = "context" /\ UNCHANGED <<store, replied>>
    BY <1>6 DEF Reject, Step, Inv, TypeOK
  <2> QED
    BY <1>2, <2>1
<1>7. CASE Forward(r)
  <2>1. /\ pc'[r] = "forwarded" /\ pc[r] = "authenticated" /\ UNCHANGED <<store, replied>>
        /\ call'[r] = PropagateHeaders(store[r])
    BY <1>7 DEF Forward, Step, Inv, TypeOK
  <2> QED
    BY <1>1, <1>2, <2>1, PropagateIs
<1>8. CASE PaymentContext(r)
  <2>1. /\ pc'[r] = "received" /\ pc[r] = "forwarded" /\ UNCHANGED <<store, replied, call>>
        /\ payStore'[r] = ContextOf(call[r], "payment", r)
    BY <1>8 DEF PaymentContext, Step, Run, Inv, TypeOK
  <2>2. payStore'[r].correlationId = Correlation(r)
    <3>1. /\ call[r].correlationId = replied[r].correlationId
          /\ replied[r].correlationId # Absent => Truthy(replied[r].correlationId)
      BY <1>2, <2>1
    <3>2. payStore'[r].correlationId =
            IF call[r].correlationId = Absent THEN Fresh("corr", "payment", r) ELSE call[r].correlationId
      <4>1. call[r] \in Headers /\ "payment" \in {"gateway", "payment", "order"}
        BY <1>1
      <4>2. /\ call[r].correlationId # Absent =>
                 ContextOf(call[r], "payment", r).correlationId = call[r].correlationId
            /\ call[r].correlationId = Absent =>
                 ContextOf(call[r], "payment", r).correlationId = Fresh("corr", "payment", r)
        BY <4>1, ContextIs, Zenon
      <4> QED
        BY <2>1, <4>2
    <3>3. ~Truthy(Absent)
      BY DEF Truthy
    <3> QED
      BY <3>1, <3>2, <3>3 DEF Correlation
  <2> QED
    BY <1>2, <1>3, <2>1, <2>2
<1>9. CASE CallOrderService(r)
  <2>1. /\ pc'[r] = "validated" /\ pc[r] = "received" /\ UNCHANGED <<store, replied, call, payStore>>
        /\ order'[r] = ContextOf(PropagateHeaders(payStore[r]), "order", r)
    BY <1>9 DEF CallOrderService, Step, Run, Inv, TypeOK
  <2>2. order'[r].correlationId = Correlation(r)
    <3>1. PICK h \in Headers : h = PropagateHeaders(payStore[r])
      BY <1>1, PropagateIs
    <3>2. h.correlationId = Correlation(r)
      BY <1>1, <1>2, <2>1, <3>1, PropagateIs
    <3> QED
      BY <1>2, <2>1, <3>1, <3>2, ContextIs DEF Truthy
  <2> QED
    BY <1>2, <1>3, <2>1, <2>2
<1>10. CASE CreatePayment(r)
  <2>1. /\ pc'[r] = "created" /\ pc[r] = "validated"
        /\ UNCHANGED <<store, replied, call, payStore, order>>
        /\ payment'[r] = PaymentOf(call[r].merchantId, TrailOf(payStore[r]))
        /\ event'[r] = EnvelopeOf(TrailOf(payStore[r]))
    BY <1>10 DEF CreatePayment, Step, Inv, TypeOK
  <2> QED
    BY <1>1, <1>2, <1>3, <2>1, TrailIs DEF PaymentOf
<1>11. CASE Publish(r)
  <2>1. /\ pc'[r] = "published" /\ pc[r] = "created"
        /\ UNCHANGED <<store, replied, call, payStore, order, payment, event>>
        /\ message'[r] = event[r]
    BY <1>11 DEF Publish, Step, Inv, TypeOK
  <2> QED
    BY <1>2, <1>3, <2>1
<1>12. CASE Consume(r)
  <2>1. /\ pc'[r] = "consumed" /\ pc[r] = "published"
        /\ UNCHANGED <<store, replied, call, payStore, order, payment, event, message>>
    BY <1>12 DEF Consume, Step, Inv, TypeOK
  <2> QED
    BY <1>2, <1>3, <2>1
<1>13. CASE DeadLetter(r)
  <2>1. /\ pc'[r] = "dead" /\ pc[r] = "published"
        /\ UNCHANGED <<store, replied, call, payStore, order, payment, event, message>>
        /\ letter'[r].correlationId = message[r].correlationId /\ letter'[r].sagaId = message[r].sagaId
    BY <1>13 DEF DeadLetter, LetterOf, Step, Inv, TypeOK
  <2> QED
    BY <1>2, <1>3, <2>1
<1> QED
  BY <1>4, <1>5, <1>6, <1>7, <1>8, <1>9, <1>10, <1>11, <1>12, <1>13 DEF StepOf

(* Every step keeps it. *)
LEMMA NextInv == Inv /\ [Next]_vars => Inv'
<1> SUFFICES ASSUME Inv, [Next]_vars PROVE Inv'
  OBVIOUS
<1>1. ASSUME NEW r \in Requests, StepOf(r) PROVE Inv'
  <2>1. TypeOK' /\ Chain(r)'
    BY <1>1, NextType, NextChain DEF Inv
  <2>2. ASSUME NEW q \in Requests \ {r} PROVE Chain(q)'
    <3>1. Mine(q)' = Mine(q)
      BY <1>1, OthersKeep DEF Inv
    <3>2. Correlation(q)' = Correlation(q)
      BY <3>1 DEF Mine, Correlation
    <3> QED
      BY <3>1, <3>2 DEF Inv, Mine, Chain, Answered, Known, Called, Received, Validated, Created, Sent
  <2> QED
    BY <2>1, <2>2 DEF Inv
<1>2. CASE UNCHANGED vars
  <2>1. TypeOK'
    BY <1>2 DEF Inv, TypeOK, vars
  <2>2. ASSUME NEW q \in Requests PROVE Chain(q)'
    BY <1>2 DEF Inv, Chain, Answered, Known, Called, Received, Validated, Created, Sent, Correlation, vars
  <2> QED
    BY <2>1, <2>2 DEF Inv
<1> QED
  BY <1>1, <1>2 DEF Next, StepOf

-----------------------------------------------------------------------------

(* The inductive invariant: types, and the chain of every request. *)
THEOREM ContextInvariant == Spec => []Inv
  BY InitInv, NextInv, PTL DEF Spec

(* A payment is booked for the merchant its API key belongs to. *)
THEOREM PaidByKeyOwnerHolds == Spec => []PaidByKeyOwner
<1>1. Inv => PaidByKeyOwner
  BY DEF Inv, Chain, PaidByKeyOwner
<1> QED
  BY <1>1, ContextInvariant, PTL

(* One correlation id from the gateway's answer to the dead letter. *)
THEOREM OneCorrelationHolds == Spec => []OneCorrelation
<1>1. Inv => OneCorrelation
  BY DEF Inv, Chain, OneCorrelation, Known, Called, Received, Validated, Created, Sent, Correlation, TypeOK
<1> QED
  BY <1>1, ContextInvariant, PTL

-----------------------------------------------------------------------------
(***************************************************************************)
(* The body.                                                               *)
(***************************************************************************)

-----------------------------------------------------------------------------
(* The hash.                                                               *)

(* The checksum is of the object, not of the order its fields come in.     *)
LEMMA HashOfParsed ==
  ASSUME NEW b, NEW c, Parsed(b) = Parsed(c)
  PROVE  Generate(b) = Generate(c)
BY DEF Parsed, Generate, Pieces

(* What a body without delimiters in its texts says is what the hash gets: *)
(* its fields agree with those of any body that has the same checksum.     *)
LEMMA SameHashSameText ==
  ASSUME NEW b \in Bodies, NEW c \in Bodies, Plain(b), Generate(b) = Generate(c), NEW f \in Range(c)
  PROVE  \E g \in Range(b) : g.key = f.key /\ Stringify(g.value) = Stringify(f.value)
<1> DEFINE own == [field |-> f.key, n |-> 0, name |-> f.key, text |-> Stringify(f.value)]
<1>1. own \in Pieces(c)
  BY DEF Pieces, PiecesOf
<1>2. own.name = f.key /\ own.text = Stringify(f.value)
  OBVIOUS
<1> HIDE DEF own
<1>3. <<Place(own, Pieces(c)), own.name, own.text>> \in Generate(b)
  BY <1>1 DEF Generate
<1>4. PICK p \in Pieces(b) : p.name = own.name /\ p.text = own.text
  <2>1. PICK p \in Pieces(b) :
          <<Place(own, Pieces(c)), own.name, own.text>> = <<Place(p, Pieces(b)), p.name, p.text>>
    BY <1>3 DEF Generate
  <2> QED
    BY <2>1
<1>5. PICK g \in Range(b) : p \in PiecesOf(g)
  BY DEF Pieces
<1>6. DOMAIN g.value.more = {}
  BY DEF Plain
<1>7. p = [field |-> g.key, n |-> 0, name |-> g.key, text |-> Stringify(g.value)]
  BY <1>5, <1>6 DEF PiecesOf
<1> QED
  BY <1>2, <1>4, <1>7

(* The DTO's values: a field the proxy hands on has a value of its kind.   *)
LEMMA PaidValue ==
  ASSUME NEW b \in Bodies, GatewayAccepts(b), NEW k \in PaidFields
  PROVE  \E f \in Range(b) : f.key = k /\ f.value = ValueOf(b, k) /\ f.value \in Valid[k]
<1>1. k \in Required /\ k \notin Optional
  BY FieldsAssumption
<1>2. Has(b, k)
  BY <1>1 DEF GatewayAccepts
<1>3. PICK f \in Range(b) : f.key = k /\ ValueOf(b, k) = f.value
  BY <1>2 DEF Has, ValueOf
<1> QED
  BY <1>1, <1>2, <1>3 DEF GatewayAccepts

(* A field comes once. *)
LEMMA FieldOnce ==
  ASSUME NEW b \in Bodies, NEW f \in Range(b), NEW g \in Range(b), f.key = g.key
  PROVE  f = g
BY FieldsAssumption DEF Range

(* The checksum forgets whether a value was a number or a text. In a valid *)
(* body every paid field has one kind, so nothing that is paid is lost: a  *)
(* valid body without delimiters pays what any valid body with its         *)
(* checksum pays.                                                          *)
LEMMA SameHashSamePayment ==
  ASSUME NEW b \in Bodies, NEW c \in Bodies, Plain(b),
         GatewayAccepts(b), GatewayAccepts(c), Generate(b) = Generate(c)
  PROVE  Forwarded(b) = Forwarded(c)
<1>1. ASSUME NEW k \in PaidFields
      PROVE  ValueOf(b, k) = ValueOf(c, k)
  <2>1. PICK f \in Range(c) : f.key = k /\ f.value = ValueOf(c, k) /\ f.value \in Valid[k]
    BY PaidValue
  <2>2. PICK g \in Range(b) : g.key = k /\ g.value = ValueOf(b, k) /\ g.value \in Valid[k]
    BY PaidValue
  <2>3. Stringify(g.value) = Stringify(f.value)
    <3>1. PICK h \in Range(b) : h.key = f.key /\ Stringify(h.value) = Stringify(f.value)
      BY SameHashSameText
    <3>2. h = g
      BY <2>1, <2>2, <3>1, FieldOnce
    <3> QED
      BY <3>1, <3>2
  <2>4. PICK kind \in {"number", "string"} : Valid[k] \subseteq [kind : {kind}, text : STRING, more : {<<>>}]
    BY KindsAssumption
  <2>5. PICK v \in [kind : {kind}, text : STRING, more : {<<>>}] : v = g.value
    BY <2>2, <2>4
  <2>6. PICK w \in [kind : {kind}, text : STRING, more : {<<>>}] : w = f.value
    BY <2>1, <2>4
  <2>7. v.text = w.text
    BY <2>3, <2>5, <2>6 DEF Stringify
  <2>8. v = w
    BY <2>5, <2>6, <2>7
  <2> QED
    BY <2>1, <2>2, <2>5, <2>6, <2>8
<1> QED
  BY <1>1 DEF Forwarded, PaidFields

-----------------------------------------------------------------------------
(* The record of the key.                                                  *)

(* Who works on the payment owns the record, which stays that of a body    *)
(* the gateway accepted once it is completed.                              *)
Held ==
  /\ \A r \in Attempts :
       /\ stage[r] \in {"locked", "validated"} => record.by = r /\ record.status = "IN_PROGRESS"
       /\ stage[r] = "validated" => GatewayAccepts(body[r])
  /\ record # NoRecord =>
       /\ record.status # "ABSENT"
       /\ record.by \in Attempts /\ stage[record.by] # "new"
       /\ record.hash = Generate(body[record.by])
       /\ record.status = "COMPLETED" =>
            GatewayAccepts(body[record.by]) /\ record.payment = Forwarded(body[record.by])

BodyInv ==
  /\ BodyTypeOK /\ body \in [Attempts -> Bodies]
  /\ Held /\ RetryIsRecognised /\ ReplayIsOwnPayment

-----------------------------------------------------------------------------
(* Steps.                                                                  *)

(* No record yet. *)
LEMMA BodyInitInv == BodyInit => BodyInv
<1> SUFFICES ASSUME BodyInit PROVE BodyInv
  OBVIOUS
<1>1. body \in [Attempts -> Bodies]
  BY DEF BodyInit
<1>2. body \in [Attempts -> Seq([key : Range(Keys), value : Value])]
  BY <1>1, FieldsAssumption
<1>3. BodyTypeOK
  BY <1>2 DEF BodyInit, BodyTypeOK, NoRecord
<1>4. Held /\ RetryIsRecognised /\ ReplayIsOwnPayment
  BY DEF BodyInit, Held, RetryIsRecognised, ReplayIsOwnPayment, NoRecord
<1> QED
  BY <1>1, <1>3, <1>4 DEF BodyInv

(* Types, without what the record and the payments may hold. *)
LEMMA BodyShape ==
  ASSUME BodyInv
  PROVE  /\ body \in [Attempts -> Bodies]
         /\ stage \in [Attempts -> {"new", "locked", "validated", "done"}]
         /\ answer \in [Attempts -> {0, 202, 400, 409, 422}]
         /\ paid \in [Attempts -> Payments \cup {None}]
BY DEF BodyInv, BodyTypeOK

(* A request is answered. *)
LEMMA FinishIs ==
  ASSUME BodyInv, NEW r \in Attempts, NEW status \in {202, 400, 409, 422},
         NEW what \in Payments \cup {None}, Finish(r, status, what), body' = body
  PROVE  /\ stage' \in [Attempts -> {"new", "locked", "validated", "done"}]
         /\ answer' \in [Attempts -> {0, 202, 400, 409, 422}]
         /\ paid' \in [Attempts -> Payments \cup {None}]
         /\ stage'[r] = "done" /\ answer'[r] = status /\ paid'[r] = what
         /\ \A q \in Attempts \ {r} :
              stage'[q] = stage[q] /\ answer'[q] = answer[q] /\ paid'[q] = paid[q]
BY BodyShape DEF Finish

(* What a step must do to keep the two properties: nobody's stage is undone, *)
(* and an answer that is new is as they say.                               *)
LEMMA AnswersKeep ==
  ASSUME BodyInv, body' = body, NEW r \in Attempts,
         stage[r] # "done", stage'[r] # "new",
         \A q \in Attempts \ {r} :
           stage'[q] = stage[q] /\ answer'[q] = answer[q] /\ paid'[q] = paid[q],
         stage'[r] \in {"locked", "validated", "done"},
         \/ answer'[r] = answer[r] /\ paid'[r] = paid[r]
         \/ answer'[r] \in {400, 409}
         \/ /\ answer'[r] = 422
            /\ \E q \in Attempts \ {r} : stage[q] \in {"locked", "validated", "done"}
                                           /\ Parsed(body[q]) # Parsed(body[r])
         \/ /\ answer'[r] = 202
            /\ GatewayAccepts(body[r]) /\ Plain(body[r]) => paid'[r] = Forwarded(body[r])
  PROVE  RetryIsRecognised' /\ ReplayIsOwnPayment'
<1>1. RetryIsRecognised'
  <2> SUFFICES ASSUME NEW p \in Attempts, answer'[p] = 422
               PROVE  \E q \in Attempts \ {p} : stage'[q] \in {"locked", "validated", "done"}
                                                  /\ Parsed(body[q]) # Parsed(body[p])
    BY DEF RetryIsRecognised
  <2>1. \E q \in Attempts \ {p} : stage[q] \in {"locked", "validated", "done"}
                                    /\ Parsed(body[q]) # Parsed(body[p])
    BY DEF BodyInv, RetryIsRecognised
  <2> QED
    BY <2>1
<1>2. ReplayIsOwnPayment'
  <2> SUFFICES ASSUME NEW p \in Attempts, answer'[p] = 202, GatewayAccepts(body[p]), Plain(body[p])
               PROVE  paid'[p] = Forwarded(body[p])
    BY DEF ReplayIsOwnPayment
  <2> QED
    BY DEF BodyInv, ReplayIsOwnPayment
<1> QED
  BY <1>1, <1>2

(* Everything a body determines stays with it. *)
LEMMA BodyStays ==
  ASSUME body' = body
  PROVE  Payments' = Payments
BY DEF Payments

(* A valid body pays what it says. *)
LEMMA OwnPayment ==
  ASSUME NEW r \in Attempts, GatewayAccepts(body[r])
  PROVE  Forwarded(body[r]) \in Payments
BY DEF Payments

(* The state the types of a step are about. *)
LEMMA BodyType ==
  ASSUME BodyInv, body' = body,
         stage' \in [Attempts -> {"new", "locked", "validated", "done"}],
         answer' \in [Attempts -> {0, 202, 400, 409, 422}],
         paid' \in [Attempts -> Payments \cup {None}],
         record' \in [status  : {"ABSENT", "IN_PROGRESS", "COMPLETED"},
                      hash    : {Generate(body[q]) : q \in Attempts} \cup {None},
                      by      : Attempts \cup {None},
                      payment : Payments \cup {None}]
  PROVE  BodyTypeOK' /\ body' \in [Attempts -> Bodies]
<1>1. /\ Payments' = Payments
      /\ {Generate(body[q]) : q \in Attempts}' = {Generate(body[q]) : q \in Attempts}
  BY BodyStays
<1>2. body' \in [Attempts -> Bodies] /\ body' \in [Attempts -> Seq([key : Range(Keys), value : Value])]
  BY DEF BodyInv, BodyTypeOK
<1> QED
  BY <1>1, <1>2 DEF BodyTypeOK

(* check finds no record. *)
LEMMA CheckMissInv ==
  ASSUME BodyInv, NEW r \in Attempts, CheckMiss(r)
  PROVE  BodyInv'
<1>1. /\ stage[r] = "new" /\ record = NoRecord /\ UNCHANGED <<body, answer, paid>>
      /\ stage' = [stage EXCEPT ![r] = "locked"]
      /\ record' = [status |-> "IN_PROGRESS", hash |-> Generate(body[r]), by |-> r, payment |-> None]
  BY DEF CheckMiss
<1>2. /\ stage' \in [Attempts -> {"new", "locked", "validated", "done"}] /\ stage'[r] = "locked"
      /\ \A q \in Attempts \ {r} : stage'[q] = stage[q]
  BY <1>1, BodyShape
<1>3. BodyTypeOK' /\ body' \in [Attempts -> Bodies]
  BY <1>1, <1>2, BodyShape, BodyType
<1>4. \A q \in Attempts \ {r} : stage[q] \notin {"locked", "validated"}
  BY <1>1 DEF BodyInv, Held, NoRecord
<1>5. Held'
  BY <1>1, <1>2, <1>4 DEF Held
<1>6. RetryIsRecognised' /\ ReplayIsOwnPayment'
  BY <1>1, <1>2, AnswersKeep
<1> QED
  BY <1>3, <1>5, <1>6 DEF BodyInv

(* check finds a record, its own body's or another's. *)
LEMMA CheckHitInv ==
  ASSUME BodyInv, NEW r \in Attempts, CheckHit(r)
  PROVE  BodyInv'
<1>1. stage[r] = "new" /\ record # NoRecord /\ body' = body /\ record' = record
  BY DEF CheckHit
<1>2. PICK owner \in Attempts :
        /\ owner = record.by /\ owner # r /\ stage[owner] \in {"locked", "validated", "done"}
        /\ record.hash = Generate(body[owner])
        /\ record.status = "COMPLETED" =>
             GatewayAccepts(body[owner]) /\ record.payment = Forwarded(body[owner])
  BY <1>1, BodyShape DEF BodyInv, Held
<1>3. record.payment \in Payments \cup {None}
  BY DEF BodyInv, BodyTypeOK
<1>4. PICK status \in {202, 409, 422}, what \in Payments \cup {None} :
        /\ Finish(r, status, what)
        /\ status = 422 => record.hash # Generate(body[r])
        /\ status = 202 => /\ record.hash = Generate(body[r]) /\ record.status = "COMPLETED"
                           /\ what = record.payment
  BY <1>3 DEF CheckHit
<1>5. /\ stage' \in [Attempts -> {"new", "locked", "validated", "done"}]
      /\ answer' \in [Attempts -> {0, 202, 400, 409, 422}]
      /\ paid' \in [Attempts -> Payments \cup {None}]
      /\ stage'[r] = "done" /\ answer'[r] = status /\ paid'[r] = what
      /\ \A q \in Attempts \ {r} :
           stage'[q] = stage[q] /\ answer'[q] = answer[q] /\ paid'[q] = paid[q]
  BY <1>1, <1>4, FinishIs
<1>6. BodyTypeOK' /\ body' \in [Attempts -> Bodies]
  <2>1. record' \in [status  : {"ABSENT", "IN_PROGRESS", "COMPLETED"},
                     hash    : {Generate(body[q]) : q \in Attempts} \cup {None},
                     by      : Attempts \cup {None},
                     payment : Payments \cup {None}]
    BY <1>1 DEF BodyInv, BodyTypeOK
  <2> QED
    BY <1>1, <1>5, <2>1, BodyType
<1>7. Held'
  <2>1. /\ stage'[owner] # "new" /\ record'.by = owner
        /\ \A q \in Attempts : stage'[q] \in {"locked", "validated"} => stage'[q] = stage[q]
    BY <1>1, <1>2, <1>5
  <2> QED
    BY <1>1, <1>2, <2>1 DEF BodyInv, Held
<1>8. status = 422 => Parsed(body[owner]) # Parsed(body[r])
  BY <1>2, <1>4, HashOfParsed
<1>9. status = 202 /\ GatewayAccepts(body[r]) /\ Plain(body[r]) => what = Forwarded(body[r])
  <2>1. body[r] \in Bodies /\ body[owner] \in Bodies
    BY BodyShape
  <2> SUFFICES ASSUME status = 202, GatewayAccepts(body[r]), Plain(body[r])
               PROVE  what = Forwarded(body[r])
    OBVIOUS
  <2>2. /\ GatewayAccepts(body[owner]) /\ what = Forwarded(body[owner])
        /\ Generate(body[owner]) = Generate(body[r])
    BY <1>2, <1>4
  <2>3. Forwarded(body[owner]) = Forwarded(body[r])
    <3>1. PICK b \in Bodies, c \in Bodies : b = body[owner] /\ c = body[r]
      BY <2>1
    <3>2. GatewayAccepts(b) /\ GatewayAccepts(c) /\ Plain(c) /\ Generate(b) = Generate(c)
      BY <2>2, <3>1
    <3>3. Forwarded(b) = Forwarded(c)
      <4>1. GatewayAccepts(b) /\ GatewayAccepts(c) /\ Plain(c)
        BY <3>2
      <4>2. Generate(c) = Generate(b)
        BY <3>2
      <4> QED
        BY ONLY <4>1, <4>2, SameHashSamePayment
    <3> QED
      BY <3>1, <3>3
  <2> QED
    BY <2>2, <2>3
<1>10. RetryIsRecognised' /\ ReplayIsOwnPayment'
  <2>1. \/ answer'[r] \in {400, 409}
        \/ /\ answer'[r] = 422
           /\ \E q \in Attempts \ {r} : stage[q] \in {"locked", "validated", "done"}
                                          /\ Parsed(body[q]) # Parsed(body[r])
        \/ /\ answer'[r] = 202
           /\ GatewayAccepts(body[r]) /\ Plain(body[r]) => paid'[r] = Forwarded(body[r])
    BY <1>2, <1>5, <1>8, <1>9
  <2> QED
    BY <1>1, <1>5, <2>1, AnswersKeep
<1> QED
  BY <1>6, <1>7, <1>10 DEF BodyInv

(* A request that was refused takes its record away. *)
LEMMA RefusedInv ==
  ASSUME BodyInv, NEW r \in Attempts, stage[r] \in {"locked", "validated"},
         Finish(r, Refusal, None), record' = NoRecord, body' = body
  PROVE  BodyInv'
<1>1. /\ stage' \in [Attempts -> {"new", "locked", "validated", "done"}]
      /\ answer' \in [Attempts -> {0, 202, 400, 409, 422}]
      /\ paid' \in [Attempts -> Payments \cup {None}]
      /\ stage'[r] = "done" /\ answer'[r] = 400 /\ paid'[r] = None
      /\ \A q \in Attempts \ {r} :
           stage'[q] = stage[q] /\ answer'[q] = answer[q] /\ paid'[q] = paid[q]
  BY FinishIs DEF Refusal
<1>2. \A q \in Attempts \ {r} : stage[q] \notin {"locked", "validated"}
  BY DEF BodyInv, Held
<1>3. BodyTypeOK' /\ body' \in [Attempts -> Bodies]
  BY <1>1, BodyType DEF NoRecord
<1>4. Held'
  BY <1>1, <1>2 DEF Held
<1>5. RetryIsRecognised' /\ ReplayIsOwnPayment'
  BY <1>1, AnswersKeep
<1> QED
  BY <1>3, <1>4, <1>5 DEF BodyInv

(* The gateway's pipe. *)
LEMMA ValidateInv ==
  ASSUME BodyInv, NEW r \in Attempts, Validate(r)
  PROVE  BodyInv'
<1>1. CASE ~GatewayAccepts(body[r])
  BY <1>1, RefusedInv DEF Validate
<1>2. CASE GatewayAccepts(body[r])
  <2>1. /\ stage[r] = "locked" /\ UNCHANGED <<body, answer, paid, record>>
        /\ stage' = [stage EXCEPT ![r] = "validated"]
    BY <1>2 DEF Validate
  <2>2. /\ stage' \in [Attempts -> {"new", "locked", "validated", "done"}] /\ stage'[r] = "validated"
        /\ \A q \in Attempts \ {r} : stage'[q] = stage[q]
    BY <2>1, BodyShape
  <2>3. BodyTypeOK' /\ body' \in [Attempts -> Bodies]
    <3>1. record' \in [status  : {"ABSENT", "IN_PROGRESS", "COMPLETED"},
                       hash    : {Generate(body[q]) : q \in Attempts} \cup {None},
                       by      : Attempts \cup {None},
                       payment : Payments \cup {None}]
      BY <2>1 DEF BodyInv, BodyTypeOK
    <3> QED
      BY <2>1, <2>2, <3>1, BodyShape, BodyType
  <2>4. Held'
    BY <1>2, <2>1, <2>2 DEF BodyInv, Held
  <2>5. RetryIsRecognised' /\ ReplayIsOwnPayment'
    BY <2>1, <2>2, AnswersKeep
  <2> QED
    BY <2>3, <2>4, <2>5 DEF BodyInv
<1> QED
  BY <1>1, <1>2

(* payment-service, and what becomes of the record. *)
LEMMA ForwardInv ==
  ASSUME BodyInv, NEW r \in Attempts, ForwardBody(r)
  PROVE  BodyInv'
<1>1. CASE ~PaymentAccepts(Forwarded(body[r]))
  BY <1>1, RefusedInv DEF ForwardBody
<1>2. CASE PaymentAccepts(Forwarded(body[r]))
  <2>1. /\ stage[r] = "validated" /\ body' = body
        /\ record' = [record EXCEPT !.status = "COMPLETED", !.payment = Forwarded(body[r])]
        /\ Finish(r, 202, Forwarded(body[r]))
    BY <1>2 DEF ForwardBody
  <2>2. /\ GatewayAccepts(body[r]) /\ record.by = r /\ record.status = "IN_PROGRESS"
        /\ record # NoRecord /\ record.hash = Generate(body[r])
    BY <2>1 DEF BodyInv, Held, NoRecord
  <2>3. Forwarded(body[r]) \in Payments
    BY <2>2, OwnPayment
  <2>4. /\ stage' \in [Attempts -> {"new", "locked", "validated", "done"}]
        /\ answer' \in [Attempts -> {0, 202, 400, 409, 422}]
        /\ paid' \in [Attempts -> Payments \cup {None}]
        /\ stage'[r] = "done" /\ answer'[r] = 202 /\ paid'[r] = Forwarded(body[r])
        /\ \A q \in Attempts \ {r} :
             stage'[q] = stage[q] /\ answer'[q] = answer[q] /\ paid'[q] = paid[q]
    BY <2>1, <2>3, FinishIs
  <2>5. /\ record' \in [status  : {"ABSENT", "IN_PROGRESS", "COMPLETED"},
                        hash    : {Generate(body[q]) : q \in Attempts} \cup {None},
                        by      : Attempts \cup {None},
                        payment : Payments \cup {None}]
        /\ record'.status = "COMPLETED" /\ record'.by = r /\ record'.hash = record.hash
        /\ record'.payment = Forwarded(body[r])
    BY <2>1, <2>2, <2>3 DEF BodyInv, BodyTypeOK
  <2>6. BodyTypeOK' /\ body' \in [Attempts -> Bodies]
    BY <2>1, <2>4, <2>5, BodyType
  <2>7. \A q \in Attempts \ {r} : stage[q] \notin {"locked", "validated"}
    BY <2>2 DEF BodyInv, Held
  <2>8. Held'
    BY <2>1, <2>2, <2>4, <2>5, <2>7 DEF Held
  <2>9. RetryIsRecognised' /\ ReplayIsOwnPayment'
    BY <2>1, <2>4, AnswersKeep
  <2> QED
    BY <2>6, <2>8, <2>9 DEF BodyInv
<1> QED
  BY <1>1, <1>2

(* Every step keeps it. *)
LEMMA BodyNextInv == BodyInv /\ [BodyNext]_bodyVars => BodyInv'
<1> SUFFICES ASSUME BodyInv, [BodyNext]_bodyVars PROVE BodyInv'
  OBVIOUS
<1>1. CASE BodyNext
  BY <1>1, CheckMissInv, CheckHitInv, ValidateInv, ForwardInv DEF BodyNext
<1>2. CASE UNCHANGED bodyVars
  <2>1. UNCHANGED <<body, stage, answer, paid, record>>
    BY <1>2 DEF bodyVars
  <2>2. BodyTypeOK' /\ body' \in [Attempts -> Bodies]
    <3>1. record' \in [status  : {"ABSENT", "IN_PROGRESS", "COMPLETED"},
                       hash    : {Generate(body[q]) : q \in Attempts} \cup {None},
                       by      : Attempts \cup {None},
                       payment : Payments \cup {None}]
      BY <2>1 DEF BodyInv, BodyTypeOK
    <3> QED
      BY <2>1, <3>1, BodyShape, BodyType
  <2>3. Held' /\ RetryIsRecognised' /\ ReplayIsOwnPayment'
    BY <2>1 DEF BodyInv, Held, RetryIsRecognised, ReplayIsOwnPayment
  <2> QED
    BY <2>2, <2>3 DEF BodyInv
<1> QED
  BY <1>1, <1>2

-----------------------------------------------------------------------------

(* The inductive invariant of PaymentBody: the record is that of the       *)
(* request that works on the payment or has made it, with its checksum.    *)
THEOREM BodyInvariant == BodySpec => []BodyInv
  BY BodyInitInv, BodyNextInv, PTL DEF BodySpec

(* request-hash.service.ts: a retry whose fields come in another order is  *)
(* never told that its body differs, for all fields and flat bodies.       *)
THEOREM RetryIsRecognisedHolds == BodySpec => []RetryIsRecognised
<1>1. BodyInv => RetryIsRecognised
  BY DEF BodyInv
<1> QED
  BY <1>1, BodyInvariant, PTL

(* Although the hash forgets null, quotes and kinds and escapes nothing, a *)
(* valid request whose own texts contain no delimiter is not answered with *)
(* a payment of another amount, currency or order, whatever texts the      *)
(* other requests with its key have.                                       *)
THEOREM ReplayIsOwnPaymentHolds == BodySpec => []ReplayIsOwnPayment
<1>1. BodyInv => ReplayIsOwnPayment
  BY DEF BodyInv
<1> QED
  BY <1>1, BodyInvariant, PTL

=============================================================================
