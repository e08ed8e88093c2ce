---------------------------- MODULE ProductServer ----------------------------
(***************************************************************************)
(* The product runtime's HTTP server (internal/product/server.go): API     *)
(* clients create orders with an Idempotency-Key of their own, Stripe and  *)
(* Shopify deliver events that become orders under a key made from the     *)
(* payload (integrations.go, signatures.go): the event's id for Stripe,    *)
(* the order's id for Shopify, so that all webhooks about one Shopify      *)
(* order share a key.  All senders share the key space of the integration  *)
(* tenant.  CreateOrder itself is what OnceOnlyOrders promises, which      *)
(* ProductOrders implements.                                               *)
(*                                                                         *)
(* External: a provider delivers an event until it reads a 2xx, signs      *)
(* every delivery anew and gives a delivery up when no reply comes in      *)
(* time; the abandoned request may still be on its way or at work.  A slot *)
(* is one HTTP request of an event and is used again for a later one.      *)
(***************************************************************************)
EXTENDS Naturals, FiniteSets

CONSTANTS
    Events,         \* what the providers report
    Clients,        \* requests of API clients
    Slots,          \* the requests each event may have open at once
    Inputs,         \* what API clients order: EventID and Quantity
    Inboxes,        \* what the events may be: a payload for each of them
    MaxFaults       \* bound: failures, delays and timeouts

VARIABLES
    secrets,    \* the providers whose webhook secret is configured
    payload,    \* of every event
    request,    \* the key and fingerprint of every request
    pc,
    waiting,    \* requests whose sender still waits for the reply
    late,       \* deliveries that travelled for more than the tolerance
    bound, answer,      \* the order service: see OnceOnlyOrders
    accepted,   \* the 2xx replies that were read, and by whom
    faults

inputVars == <<secrets, payload, request>>
vars == <<inputVars, pc, waiting, late, bound, answer, accepted, faults>>

Providers == {"stripe", "shopify"}
Deliveries == UNION {{e} \X Slots[e] : e \in Events}
Requests == Deliveries \cup Clients

ASSUME BoundsAssumption == MaxFaults \in Nat /\ IsFiniteSet(Events)

(* A request, an event and a client are different things. *)
ASSUME NamesAssumption == Clients \cap Events = {} /\ Clients \cap Deliveries = {}

(* A payload: who sends it, what parsing it yields, the checkout session   *)
(* or order it is about (object), and the order it asks for (input).  Only *)
(* a Stripe event may be of a type that makes no order: the topic of a     *)
(* Shopify webhook is not looked at.                                       *)
ASSUME InboxAssumption ==
    \A inbox \in Inboxes, e \in Events :
        /\ inbox[e].provider \in Providers
        /\ inbox[e].kind \in {"order", "invalid", "ignored"}
        /\ inbox[e].kind = "ignored" => inbox[e].provider = "stripe"

Event(d) == d[1]
Sender(r) == IF r \in Clients THEN r ELSE Event(r)

Orders == INSTANCE OnceOnlyOrders

(* Mutant: the key is made from the delivery, not from the event. *)
KeyOfDelivery(d) == d

(* "stripe:" + event.ID, "shopify:" + order.ID. *)
IntegrationKey(d) ==
    LET p == payload[Event(d)]
    IN  IF p.provider = "stripe" THEN <<"stripe", Event(d)>> ELSE <<"shopify", p.object>>

RequestFingerprint(input, source, externalID) ==
    [EventID |-> input.EventID, Quantity |-> input.Quantity,
     source |-> source, externalID |-> externalID]

(* What a delivery and an API client ask the order service for.  The       *)
(* external id of an API client's order is the event it orders.            *)
Delivered(d) ==
    LET p == payload[Event(d)]
    IN  [key |-> IntegrationKey(d),
         fingerprint |-> RequestFingerprint(p.input, p.provider, p.object)]

Posted(key, input) ==
    [key |-> key, fingerprint |-> RequestFingerprint(input, "api", input.EventID)]

(* An API client uses a key of its own, or one that spells an event's. *)
Init ==
    /\ secrets \in SUBSET Providers
    /\ payload \in Inboxes
    /\ \E key \in [Clients -> Clients \cup {IntegrationKey(d) : d \in Deliveries}],
          input \in [Clients -> Inputs] :
         request = [r \in Requests |->
                      IF r \in Clients THEN Posted(key[r], input[r]) ELSE Delivered(r)]
    /\ pc = [r \in Requests |-> "idle"]
    /\ waiting = {} /\ late = {} /\ accepted = {}
    /\ faults = MaxFaults
    /\ Orders!Init

Accepted(e) == \E a \in accepted : a.from = e

Fault == faults > 0 /\ faults' = faults - 1

Goto(r, label) == pc' = [pc EXCEPT ![r] = label]

(* The reply is written; it is read if its sender still waits.  The slot   *)
(* of a delivery is free again.                                            *)
Reply(r, status) ==
    /\ Goto(r, IF r \in Clients THEN "done" ELSE "idle")
    /\ accepted' = IF r \in waiting /\ status \in 200 .. 299
                   THEN accepted \cup {[from |-> Sender(r), status |-> status]}
                   ELSE accepted
    /\ waiting' = waiting \ {r} /\ late' = late \ {r}
    /\ answer' = [answer EXCEPT ![r] = IF r \in Clients THEN @ ELSE Orders!Pending]

-----------------------------------------------------------------------------
(* The senders and the network. *)

(* The provider delivers, or delivers again. *)
Deliver(d) ==
    /\ pc[d] = "idle" /\ ~Accepted(Event(d))
    /\ \A s \in Slots[Event(d)] : <<Event(d), s>> \notin waiting
    /\ Goto(d, "sent")
    /\ waiting' = waiting \cup {d}
    /\ UNCHANGED <<inputVars, late, bound, answer, accepted, faults>>

Delay(d) ==
    /\ pc[d] = "sent" /\ d \notin late
    /\ late' = late \cup {d}
    /\ Fault
    /\ UNCHANGED <<inputVars, pc, waiting, bound, answer, accepted>>

(* No reply in time; the provider will deliver again. *)
Timeout(d) ==
    /\ d \in waiting
    /\ waiting' = waiting \ {d}
    /\ Fault
    /\ UNCHANGED <<inputVars, pc, late, bound, answer, accepted>>

(* A request nobody waits for was lost, or its replica crashed. *)
Vanish(d) ==
    /\ pc[d] \in {"sent", "creating"} /\ d \notin waiting
    /\ Reply(d, 0)
    /\ UNCHANGED <<inputVars, bound, faults>>

-----------------------------------------------------------------------------
(* The handlers. *)

(* A payload that makes no order is answered at once. *)
handleIntegration(d) ==
    /\ \/ payload[Event(d)].kind = "ignored" /\ Reply(d, 202)
       \/ payload[Event(d)].kind = "invalid" /\ Reply(d, 400)
       \/ /\ payload[Event(d)].kind = "order" /\ Goto(d, "creating")
          /\ UNCHANGED <<waiting, late, answer, accepted>>
    /\ UNCHANGED faults

(* The webhook is not configured, or its body cannot be read. *)
RefuseWebhook(d) ==
    \/ payload[Event(d)].provider \notin secrets /\ Reply(d, 503) /\ UNCHANGED faults
    \/ payload[Event(d)].provider \in secrets /\ Reply(d, 400) /\ Fault

(* verifyTimestampedSignature: signed at most five minutes ago. *)
Fresh(d) == d \notin late

stripeWebhook(d) ==
    /\ pc[d] = "sent" /\ payload[Event(d)].provider = "stripe"
    /\ \/ RefuseWebhook(d)
       \/ "stripe" \in secrets /\ ~Fresh(d) /\ Reply(d, 401) /\ UNCHANGED faults
       \/ "stripe" \in secrets /\ Fresh(d) /\ handleIntegration(d)
    /\ UNCHANGED <<inputVars, bound>>

(* The signature covers the payload only: it never grows old. *)
shopifyWebhook(d) ==
    /\ pc[d] = "sent" /\ payload[Event(d)].provider = "shopify"
    /\ \/ RefuseWebhook(d)
       \/ "shopify" \in secrets /\ handleIntegration(d)
    /\ UNCHANGED <<inputVars, bound>>

(* authenticate and readJSON, then the order service. *)
createOrder(c) ==
    /\ pc[c] = "idle"
    /\ \/ \E status \in {400, 401} : Reply(c, status)
       \/ Goto(c, "creating") /\ waiting' = waiting \cup {c}
          /\ UNCHANGED <<late, answer, accepted>>
    /\ UNCHANGED <<inputVars, bound, faults>>

(* Service.CreateOrder at work; a failure of it is a fault. *)
CreateOrder(r) ==
    /\ pc[r] = "creating"
    /\ Orders!Create(r, Cardinality(bound) + 1) \/ Orders!Answer(r)
    /\ IF answer'[r] = Orders!Failed THEN Fault ELSE UNCHANGED faults
    /\ UNCHANGED <<secrets, payload, pc, waiting, late, accepted>>

(* Mutant: a replayed order is refused as a duplicate. *)
StatusRefusingReplays(r) ==
    CASE answer[r].kind = "created" -> 200
      [] answer[r].kind = "failed" -> 500
      [] OTHER -> 409

(* The status of the service's answer: writeServiceError for its errors.   *)
Status(r) ==
    CASE answer[r].kind = "created" -> IF r \in Clients THEN 201 ELSE 200
      [] answer[r].kind = "replayed" -> 200
      [] answer[r].kind = "conflict" -> 409
      [] OTHER -> 500

Respond(r) ==
    /\ pc[r] = "creating" /\ answer[r] # Orders!Pending
    /\ Reply(r, Status(r))
    /\ UNCHANGED <<inputVars, bound, faults>>

Handle(r) == CreateOrder(r) \/ Respond(r)

Next ==
    \/ \E d \in Deliveries : Deliver(d) \/ Delay(d) \/ Timeout(d) \/ Vanish(d)
                             \/ stripeWebhook(d) \/ shopifyWebhook(d)
    \/ \E c \in Clients : createOrder(c)
    \/ \E r \in Requests : Handle(r)

(* A provider keeps delivering and requests are served; no API client has  *)
(* to send anything and nothing has to go wrong.                           *)
Fairness ==
    /\ \A e \in Events : WF_vars(\E s \in Slots[e] : Deliver(<<e, s>>))
    /\ \A d \in Deliveries : WF_vars(stripeWebhook(d) \/ shopifyWebhook(d))
    /\ \A r \in Requests : WF_vars(Handle(r))

Spec == Init /\ [][Next]_vars /\ Fairness
-----------------------------------------------------------------------------
(* The events that are orders about what event e is about. *)
Reports(e) ==
    {f \in Events : /\ payload[f].kind = "order"
                    /\ payload[f].provider = payload[e].provider
                    /\ payload[f].object = payload[e].object}

RowsAbout(e) ==
    {row \in bound : /\ row.fingerprint.source = payload[e].provider
                     /\ row.fingerprint.externalID = payload[e].object}

(* However often webhooks are delivered, late, twice at once or after a    *)
(* crash, a Shopify order becomes one order at most, a Stripe session one  *)
(* for each event id that reports it, and neither becomes one unless some  *)
(* event makes it an order.  Whoever read a 200 or 201 has an order bound  *)
(* to its key that was made from the very contents it sent, and a provider *)
(* that read 202 reported something that makes no order: no reply lets a   *)
(* provider stop before its order is stored.                               *)
AcceptedMeansStored ==
    /\ \A e \in Events :
          Cardinality(RowsAbout(e)) <=
              IF payload[e].provider = "shopify" /\ Reports(e) # {} THEN 1
              ELSE Cardinality(Reports(e))
    /\ \A a \in accepted :
          IF a.status = 202 THEN payload[a.from].kind = "ignored"
          ELSE \A r \in Requests : Sender(r) = a.from =>
                  \E row \in bound : /\ row.key = request[r].key
                                     /\ row.fingerprint = request[r].fingerprint

(* The key of an event is bound to a request of an API client, or to       *)
(* another webhook about the same Shopify order that had other contents.   *)
KeyTaken(e) ==
    \E s \in Slots[e], row \in bound :
        /\ row.key = request[<<e, s>>].key
        /\ row.fingerprint # request[<<e, s>>].fingerprint
        /\ \/ row.fingerprint.source = "api"
           \/ row.fingerprint.source = "shopify" /\ payload[e].provider = "shopify"

(* A provider whose secret is configured gets its 2xx for every valid      *)
(* event in the end, through lost replies, delays past the signature's     *)
(* tolerance and failures, unless somebody had taken the event's key       *)
(* before: an API client, or another webhook about the same Shopify order  *)
(* if the order was edited in between (its quantity or its event_id).      *)
EventsAccepted ==
    \A e \in Events :
        <>(\/ payload[e].provider \notin secrets
           \/ payload[e].kind = "invalid"
           \/ Accepted(e)
           \/ KeyTaken(e))
=============================================================================
