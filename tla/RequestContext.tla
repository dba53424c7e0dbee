---------------------------- MODULE RequestContext ----------------------------
(***************************************************************************)
(* The identifiers that follow a payment through the services: headers of  *)
(* the HTTP requests, the AsyncLocalStorage store each service keeps per   *)
(* request (packages/common/src/logger), the headers HttpClient derives    *)
(* from that store, the payment and outbox rows, the Kafka message, and    *)
(* the dead letter a consumer makes of it.  Requests interleave; the       *)
(* merchant of a request is who its API key belongs to, whatever its       *)
(* x-merchant-id says.                                                     *)
(***************************************************************************)
EXTENDS Naturals, FiniteSets

CONSTANTS
  Requests,     \* requests clients send
  Ids,          \* x-request-id and x-correlation-id values clients send
  Merchants,    \* merchants, and x-merchant-id values clients send
  MerchantOf    \* the merchant each request's API key belongs to

CONSTANTS
  Absent,       \* undefined: no such header, no such row
  Empty,        \* '': a header that is present, and false in a condition
  NotAvailable  \* 'N/A'

ASSUME MerchantAssumption == MerchantOf \in [Requests -> Merchants]

VARIABLES
  pc,        \* how far each request is
  header,    \* headers of the gateway's request object
  store,     \* the gateway's RequestContextStore of each request
  replied,   \* x-request-id and x-correlation-id on the gateway's response
  call,      \* headers of the gateway's call to payment-service
  payStore,  \* payment-service's store of each request
  order,     \* order-service's store for payment-service's call
  payment,   \* the payment row
  event,     \* the outbox row's envelope
  message,   \* Kafka headers and value of the published event
  letter     \* the dead letter made of it

vars == <<pc, header, store, replied, call, payStore, order, payment, event, message, letter>>

Truthy(v) == v \notin {Absent, Empty}

(* req_<uuid> and corr_<uuid>, fresh at each hop.                          *)
Fresh(kind, hop, r) == <<kind, hop, r>>

Made == {"req", "corr"} \X {"gateway", "payment", "order"} \X Requests

(* No id is missing, empty or 'N/A', and no merchant's id is.              *)
ASSUME IdsAssumption ==
  /\ Absent # Empty
  /\ {Absent, Empty, NotAvailable} \cap (Ids \cup Made \cup Merchants) = {}

IdValues == Ids \cup Made \cup {Absent, Empty, NotAvailable}
Headers == [requestId : Ids \cup Made \cup {Absent, Empty},
            correlationId : Ids \cup Made \cup {Absent, Empty},
            merchantId : Merchants \cup {Absent, Empty}]

Nothing == [requestId |-> Absent, correlationId |-> Absent, merchantId |-> Absent]
NoEvent == [requestId |-> Absent, correlationId |-> Absent,
            causationId |-> Absent, sagaId |-> Absent]

Trails == [requestId : IdValues, correlationId : IdValues,
           causationId : IdValues \cup Requests, sagaId : IdValues]

TypeOK ==
  /\ pc \in [Requests -> {"sent", "context", "authenticated", "forwarded", "received",
                          "validated", "created", "published", "consumed", "dead", "refused"}]
  /\ header \in [Requests -> Headers]
  /\ store \in [Requests -> Headers]
  /\ replied \in [Requests -> Headers]
  /\ call \in [Requests -> Headers]
  /\ payStore \in [Requests -> Headers]
  /\ order \in [Requests -> Headers]
  /\ payment \in [Requests -> [merchantId : Merchants \cup {Absent}, trail : Trails]]
  /\ event \in [Requests -> Trails]
  /\ message \in [Requests -> Trails]
  /\ letter \in [Requests -> Trails]

Init ==
  /\ pc = [r \in Requests |-> "sent"]
  /\ header \in [Requests -> [requestId : Ids \cup {Absent, Empty},
                              correlationId : Ids \cup {Absent, Empty},
                              merchantId : Merchants \cup {Absent}]]
  /\ store = [r \in Requests |-> Nothing]
  /\ replied = [r \in Requests |-> Nothing]
  /\ call = [r \in Requests |-> Nothing]
  /\ payStore = [r \in Requests |-> Nothing]
  /\ order = [r \in Requests |-> Nothing]
  /\ payment = [r \in Requests |-> [merchantId |-> Absent, trail |-> NoEvent]]
  /\ event = [r \in Requests |-> NoEvent]
  /\ message = [r \in Requests |-> NoEvent]
  /\ letter = [r \in Requests |-> NoEvent]

(***************************************************************************)
(* logging.middleware.ts: a header that is a string is kept, an empty one  *)
(* too; only a missing one is replaced.  The middleware is registered      *)
(* twice in the gateway; its second call finds the store and changes       *)
(* nothing.                                                                *)
(***************************************************************************)
ContextOf(h, hop, r) ==
  [requestId     |-> IF h.requestId = Absent THEN Fresh("req", hop, r) ELSE h.requestId,
   correlationId |-> IF h.correlationId = Absent THEN Fresh("corr", hop, r)
                     ELSE h.correlationId,
   merchantId    |-> h.merchantId]

(* Mutant: one store for all requests of the process.                      *)
RunShared(stores, r, context) == [q \in Requests |-> context]

(* RequestContext.run: AsyncLocalStorage keeps a store per request.        *)
Run(stores, r, context) == [stores EXCEPT ![r] = context]

(* Mutant: the correlation id is not passed on.                            *)
PropagateRequestOnly(s) ==
  [requestId     |-> IF Truthy(s.requestId) THEN s.requestId ELSE Absent,
   correlationId |-> Absent,
   merchantId    |-> IF Truthy(s.merchantId) THEN s.merchantId ELSE Absent]

(* request.interceptor.ts: what is truthy in the store becomes a header;   *)
(* no caller sets these headers itself.                                    *)
PropagateHeaders(s) ==
  [requestId     |-> IF Truthy(s.requestId) THEN s.requestId ELSE Absent,
   correlationId |-> IF Truthy(s.correlationId) THEN s.correlationId ELSE Absent,
   merchantId    |-> IF Truthy(s.merchantId) THEN s.merchantId ELSE Absent]

Step(r, from, to) ==
  /\ pc[r] = from
  /\ pc' = [pc EXCEPT ![r] = to]

(***************************************************************************)
(* The gateway.                                                            *)
(***************************************************************************)
GatewayContext(r) ==
  /\ Step(r, "sent", "context")
  /\ LET context == ContextOf(header[r], "gateway", r)
     IN /\ store' = Run(store, r, context)
        /\ header' = [header EXCEPT ![r].requestId = context.requestId,
                                    ![r].correlationId = context.correlationId]
        /\ replied' = [replied EXCEPT
             ![r].requestId = context.requestId,
             ![r].correlationId = IF Truthy(context.correlationId)
                                  THEN context.correlationId ELSE Absent]
  /\ UNCHANGED <<call, payStore, order, payment, event, message, letter>>

(* auth.middleware.ts after its await: header and store get the merchant   *)
(* the key belongs to.                                                     *)
Authenticate(r) ==
  /\ Step(r, "context", "authenticated")
  /\ header' = [header EXCEPT ![r].merchantId = MerchantOf[r]]
  /\ store' = [store EXCEPT ![r].merchantId = MerchantOf[r]]
  /\ UNCHANGED <<replied, call, payStore, order, payment, event, message, letter>>

(* No key, or one the merchant service does not vouch for.                 *)
Reject(r) ==
  /\ Step(r, "context", "refused")
  /\ UNCHANGED <<header, store, replied, call, payStore, order, payment, event, message, letter>>

(* gateway-payment-proxy.service.ts through HttpClient.                    *)
Forward(r) ==
  /\ Step(r, "authenticated", "forwarded")
  /\ call' = [call EXCEPT ![r] = PropagateHeaders(store[r])]
  /\ UNCHANGED <<header, store, replied, payStore, order, payment, event, message, letter>>

(***************************************************************************)
(* payment-service.                                                        *)
(***************************************************************************)
PaymentContext(r) ==
  /\ Step(r, "forwarded", "received")
  /\ payStore' = Run(payStore, r, ContextOf(call[r], "payment", r))
  /\ UNCHANGED <<header, store, replied, call, order, payment, event, message, letter>>

(* The fraud check is called in the same way.                              *)
CallOrderService(r) ==
  /\ Step(r, "received", "validated")
  /\ order' = Run(order, r, ContextOf(PropagateHeaders(payStore[r]), "order", r))
  /\ UNCHANGED <<header, store, replied, call, payStore, payment, event, message, letter>>

(* payment.service.ts: the ids createPayment takes from its store. *)
TrailOf(s) ==
  LET correlationId == IF Truthy(s.correlationId) THEN s.correlationId ELSE NotAvailable
  IN [requestId     |-> IF Truthy(s.requestId) THEN s.requestId ELSE NotAvailable,
      correlationId |-> correlationId,
      causationId   |-> IF Truthy(s.requestId) THEN s.requestId ELSE correlationId,
      sagaId        |-> Absent]

(* PaymentEntity.create *)
PaymentOf(merchantId, trail) == [merchantId |-> merchantId, trail |-> trail]

(* OutboxEventEntity.create: the envelope's saga is the correlation. *)
EnvelopeOf(trail) == [trail EXCEPT !.sagaId = trail.correlationId]

(* The controller takes the merchant from the header, the service the ids  *)
(* from its store.  Both rows are written in one transaction.  Without the *)
(* header the controller answers 400; every call that arrives has it.      *)
CreatePayment(r) ==
  /\ Step(r, "validated", "created")
  /\ Truthy(call[r].merchantId)
  /\ LET trail == TrailOf(payStore[r])
     IN /\ payment' = [payment EXCEPT ![r] = PaymentOf(call[r].merchantId, trail)]
        /\ event' = [event EXCEPT ![r] = EnvelopeOf(trail)]
  /\ UNCHANGED <<header, store, replied, call, payStore, order, message, letter>>

(***************************************************************************)
(* Kafka.                                                                  *)
(***************************************************************************)

(* producer.ts: ids go into the Kafka headers, and all but the request id  *)
(* into the canonical envelope.                                            *)
Publish(r) ==
  /\ Step(r, "created", "published")
  /\ message' = [message EXCEPT ![r] = event[r]]
  /\ UNCHANGED <<header, store, replied, call, payStore, order, payment, event, letter>>

(* The consumer's handler finishes.                                        *)
Consume(r) ==
  /\ Step(r, "published", "consumed")
  /\ UNCHANGED <<header, store, replied, call, payStore, order, payment, event, message, letter>>

(* consumer.ts: the dead letter is caused by the event (r stands for its   *)
(* id) and keeps its correlation and its saga.                             *)
LetterOf(r) ==
  [requestId |-> Empty, correlationId |-> message[r].correlationId, causationId |-> r,
   sagaId |-> message[r].sagaId]

DeadLetter(r) ==
  /\ Step(r, "published", "dead")
  /\ letter' = [letter EXCEPT ![r] = LetterOf(r)]
  /\ UNCHANGED <<header, store, replied, call, payStore, order, payment, event, message>>

Next ==
  \E r \in Requests :
    \/ GatewayContext(r)
    \/ Authenticate(r)
    \/ Reject(r)
    \/ Forward(r)
    \/ PaymentContext(r)
    \/ CallOrderService(r)
    \/ CreatePayment(r)
    \/ Publish(r)
    \/ Consume(r)
    \/ DeadLetter(r)

Spec == Init /\ [][Next]_vars

(***************************************************************************)
(* Properties.                                                             *)
(***************************************************************************)
Created(r) == pc[r] \in {"created", "published", "consumed", "dead"}

(* Whoever a client claims to be, the payment is booked for the merchant   *)
(* its API key belongs to: auth.middleware.ts corrects the header and the  *)
(* store, and the call downstream is built from the store alone.           *)
PaidByKeyOwner == \A r \in Requests : Created(r) => payment[r].merchantId = MerchantOf[r]

(* The correlation id the gateway answered with (x-correlation-id) is the  *)
(* one of payment-service, of order-service, of both rows, of the Kafka    *)
(* message and of the dead letter made of it, of this request and no       *)
(* other; a response without one (the client sent it empty) shares only    *)
(* what payment-service made up.                                           *)
OneCorrelation ==
  \A r \in Requests : Created(r) =>
    LET correlation == IF Truthy(replied[r].correlationId) THEN replied[r].correlationId
                       ELSE Fresh("corr", "payment", r)
    IN /\ payStore[r].correlationId = correlation
       /\ order[r].correlationId = correlation
       /\ payment[r].trail.correlationId = correlation
       /\ event[r].sagaId = correlation
       /\ pc[r] # "created" => message[r].correlationId = correlation
       /\ pc[r] = "dead" => {letter[r].correlationId, letter[r].sagaId} = {correlation}

=============================================================================
