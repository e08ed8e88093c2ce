------------------------ MODULE ProductServer_proofs ------------------------
(***************************************************************************)
(* Proofs about ProductServer for any finite number of events, whatever    *)
(* their payloads, and for any API clients, requests an event may have     *)
(* open at once and number of faults.                                      *)
(***************************************************************************)
EXTENDS ProductServer, FiniteSetTheorems, FunctionTheorems, TLAPS

Labels == {"idle", "sent", "creating", "done"}

Typed ==
    /\ payload \in Inboxes
    /\ pc \in [Requests -> Labels]
    /\ answer = [r \in Requests |-> answer[r]]

(* Every delivery asks for what its event's payload says; an API client's  *)
(* order names "api" as its source.                                        *)
RequestsNameSenders ==
    /\ \A d \in Deliveries : request[d] = Delivered(d)
    /\ \A c \in Clients : request[c].fingerprint.source = "api"

(* Only an event that is an order gets as far as the order service. *)
OnlyOrdersCreate ==
    \A d \in Deliveries : pc[d] = "creating" => payload[Event(d)].kind = "order"

(* Row x was made from an event that is an order, under the event's key. *)
MadeFrom(x, e) ==
    /\ payload[e].kind = "order"
    /\ x.fingerprint.source = payload[e].provider
    /\ x.fingerprint.externalID = payload[e].object
    /\ x.key = IF payload[e].provider = "stripe" THEN <<"stripe", e>>
               ELSE <<"shopify", payload[e].object>>

(* A key is bound once, and an order of a provider was made from an event. *)
KeysBoundOnce ==
    /\ \A x, y \in bound : x.key = y.key => x = y
    /\ \A x \in bound : x.fingerprint.source \in Providers => \E e \in Events : MadeFrom(x, e)

Stored(r) ==
    \E x \in bound : x.key = request[r].key /\ x.fingerprint = request[r].fingerprint

(* The order service names no order that is not stored for the request. *)
AnswersNameStored ==
    \A r \in Requests : answer[r].kind \in {"created", "replayed"} => Stored(r)

(* A 2xx that was read stands for an ignored event or a stored order. *)
TrueOf(sender, status) ==
    IF status = 202 THEN payload[sender].kind = "ignored"
    ELSE \A r \in Requests : Sender(r) = sender => Stored(r)

AcceptedIsTrue == \A a \in accepted : TrueOf(a.from, a.status)

(* The inductive invariant. *)
IndInv ==
    /\ Typed
    /\ RequestsNameSenders
    /\ OnlyOrdersCreate
    /\ KeysBoundOnce
    /\ AnswersNameStored
    /\ AcceptedIsTrue

(* A delivery's sender is its event, a client is its own. *)
LEMMA Senders ==
  /\ \A d \in Deliveries : /\ d \in Requests /\ d \notin Clients
                           /\ Sender(d) = Event(d) /\ Event(d) \in Events
  /\ \A c \in Clients : c \in Requests /\ Sender(c) = c /\ c \notin Events
  /\ \A r \in Requests : r \in Clients \/ r \in Deliveries
BY NamesAssumption DEF Requests, Deliveries, Sender, Event

(* What a delivery asks for. *)
LEMMA DeliveredFields ==
  ASSUME NEW d
  PROVE  /\ Delivered(d).key = IntegrationKey(d)
         /\ Delivered(d).fingerprint.source = payload[Event(d)].provider
         /\ Delivered(d).fingerprint.externalID = payload[Event(d)].object
BY DEF Delivered, RequestFingerprint

(* Nothing has been sent. *)
LEMMA InitEstablishes == Init => IndInv
<1> SUFFICES ASSUME Init PROVE IndInv
  OBVIOUS
<1>1. Typed
  BY DEF Init, Typed, Labels, Orders!Init
<1>2. RequestsNameSenders
  <2>1. PICK key, input :
            request = [r \in Requests |-> IF r \in Clients THEN Posted(key[r], input[r]) ELSE Delivered(r)]
    BY DEF Init
  <2>2. \A c \in Clients : Posted(key[c], input[c]).fingerprint.source = "api"
    BY DEF Posted, RequestFingerprint
  <2> QED BY <2>1, <2>2, Senders DEF RequestsNameSenders
<1>3. OnlyOrdersCreate /\ KeysBoundOnce /\ AcceptedIsTrue
  BY Senders DEF Init, OnlyOrdersCreate, KeysBoundOnce, AcceptedIsTrue, Orders!Init
<1>4. AnswersNameStored
  BY DEF Init, AnswersNameStored, Orders!Init, Orders!Pending
<1> QED BY <1>1, <1>2, <1>3, <1>4 DEF IndInv

(* A request is answered: what is read as a 2xx has to be true of its      *)
(* sender.                                                                 *)
LEMMA ReplyPreserves ==
  ASSUME IndInv, NEW r \in Requests, NEW status \in Nat, Reply(r, status),
         UNCHANGED <<inputVars, bound>>,
         status \in 200 .. 299 => TrueOf(Sender(r), status)
  PROVE  IndInv'
<1> USE DEF IndInv
<1>0. UNCHANGED <<secrets, payload, request, bound>>
  BY DEF inputVars
<1>1. /\ pc' \in [Requests -> Labels]
      /\ \A q \in Requests : pc'[q] = "creating" => pc[q] = "creating"
      /\ answer' = [q \in Requests |-> answer'[q]]
      /\ \A q \in Requests : answer'[q] = answer[q] \/ answer'[q].kind = "pending"
  <2>1. /\ pc' = [pc EXCEPT ![r] = IF r \in Clients THEN "done" ELSE "idle"]
        /\ answer' = [answer EXCEPT ![r] = IF r \in Clients THEN @ ELSE Orders!Pending]
    BY DEF Reply, Goto
  <2>2. Orders!Pending.kind = "pending"
    BY DEF Orders!Pending
  <2> QED BY <2>1, <2>2 DEF Typed, Labels
<1>2. Typed' /\ RequestsNameSenders' /\ OnlyOrdersCreate' /\ KeysBoundOnce'
  BY <1>0, <1>1, Senders DEF Typed, RequestsNameSenders, OnlyOrdersCreate, KeysBoundOnce, MadeFrom,
     Delivered, IntegrationKey
<1>3. AnswersNameStored'
  BY <1>0, <1>1 DEF AnswersNameStored, Stored
<1>4. AcceptedIsTrue'
  <2>1. \/ accepted' = accepted
        \/ status \in 200 .. 299
           /\ accepted' = accepted \cup {[from |-> Sender(r), status |-> status]}
    BY DEF Reply
  <2>2. \A s, n : TrueOf(s, n)' <=> TrueOf(s, n)
    BY <1>0 DEF TrueOf, Stored
  <2> QED BY <2>1, <2>2 DEF AcceptedIsTrue
<1> QED BY <1>2, <1>3, <1>4

(* A request moves without an answer, to the order service only if it may. *)
LEMMA MovePreserves ==
  ASSUME IndInv, UNCHANGED <<inputVars, bound, answer, accepted>>,
         pc' \in [Requests -> Labels],
         \A d \in Deliveries :
            pc'[d] = "creating" => pc[d] = "creating" \/ payload[Event(d)].kind = "order"
  PROVE  IndInv'
BY DEF IndInv, inputVars, Typed, RequestsNameSenders, OnlyOrdersCreate, KeysBoundOnce,
       AnswersNameStored, AcceptedIsTrue, Stored, TrueOf, MadeFrom, Delivered, IntegrationKey

(* The senders and the network. *)
LEMMA NetworkPreserves ==
  ASSUME IndInv, NEW d \in Deliveries, Deliver(d) \/ Delay(d) \/ Timeout(d) \/ Vanish(d)
  PROVE  IndInv'
<1>1. CASE Deliver(d)
  BY <1>1, Senders, MovePreserves DEF Deliver, Goto, IndInv, Typed, Labels
<1>2. CASE Delay(d) \/ Timeout(d)
  BY <1>2, MovePreserves DEF Delay, Timeout, IndInv, Typed
<1>3. CASE Vanish(d)
  BY <1>3, Senders, ReplyPreserves DEF Vanish
<1> QED BY <1>1, <1>2, <1>3

(* A webhook's handler refuses it, answers an event that makes no order at *)
(* once and passes an order on.                                            *)
LEMMA WebhookPreserves ==
  ASSUME IndInv, NEW d \in Deliveries, stripeWebhook(d) \/ shopifyWebhook(d) PROVE IndInv'
<1>0. UNCHANGED <<inputVars, bound>>
  BY DEF stripeWebhook, shopifyWebhook
<1>1. ASSUME NEW status \in {400, 401, 503}, Reply(d, status) PROVE IndInv'
  BY <1>0, <1>1, Senders, ReplyPreserves
<1>2. CASE RefuseWebhook(d)
  BY <1>1, <1>2 DEF RefuseWebhook
<1>3. CASE handleIntegration(d)
  <2>1. CASE payload[Event(d)].kind = "ignored" /\ Reply(d, 202)
    BY <1>0, <2>1, Senders, ReplyPreserves DEF TrueOf
  <2>2. CASE payload[Event(d)].kind = "order" /\ Goto(d, "creating") /\ UNCHANGED <<answer, accepted>>
    BY <1>0, <2>2, Senders, MovePreserves DEF Goto, IndInv, Typed, Labels
  <2> QED BY <1>1, <1>3, <2>1, <2>2 DEF handleIntegration
<1> QED BY <1>1, <1>2, <1>3 DEF stripeWebhook, shopifyWebhook

(* The handler of an API client's POST, up to the call of the service,     *)
(* neither creates an order nor writes a 2xx.                              *)
LEMMA ClientPreserves ==
  ASSUME IndInv, NEW c \in Clients, createOrder(c) PROVE IndInv'
<1>1. ASSUME NEW status \in {400, 401}, Reply(c, status) PROVE IndInv'
  BY <1>1, Senders, ReplyPreserves DEF createOrder
<1>2. CASE Goto(c, "creating") /\ UNCHANGED <<answer, accepted>>
  BY <1>2, Senders, MovePreserves DEF createOrder, Goto, IndInv, Typed, Labels
<1> QED BY <1>1, <1>2 DEF createOrder

(* What the order service may tell a request is true of the orders it      *)
(* looked at.                                                              *)
LEMMA ToldTruth ==
  ASSUME NEW r \in Requests, NEW rows, NEW a \in Orders!MayBeTold(r, rows),
         a.kind \in {"created", "replayed"}
  PROVE  \E x \in rows : x.key = request[r].key /\ x.fingerprint = request[r].fingerprint
<1>1. Orders!Failed.kind = "failed" /\ Orders!Conflict.kind = "conflict"
  BY DEF Orders!Failed, Orders!Conflict
<1>2. a # Orders!Failed /\ a # Orders!Conflict
  BY <1>1
<1>3. Orders!Mine(r, rows) # {}
  BY <1>2 DEF Orders!MayBeTold
<1> QED BY <1>3 DEF Orders!Mine, Orders!Bindings

(* The order service binds a free key and answers from what is stored. *)
LEMMA CreatePreserves ==
  ASSUME IndInv, NEW r \in Requests, CreateOrder(r) PROVE IndInv'
<1> USE DEF IndInv
<1> DEFINE o == Cardinality(bound) + 1
           new == Orders!Row(r, o)
<1>0. /\ pc[r] = "creating"
      /\ UNCHANGED <<payload, pc, accepted, request>>
  BY DEF CreateOrder, Orders!Create, Orders!Answer
<1>1. /\ \/ bound' = bound
         \/ bound' = bound \cup {new} /\ \A x \in bound : x.key # request[r].key
      /\ \/ answer' = answer
         \/ \E a \in Orders!MayBeTold(r, bound') : answer' = [answer EXCEPT ![r] = a]
  BY DEF CreateOrder, Orders!Create, Orders!Answer, Orders!Tell, Orders!Bindings
<1>2. new.key = request[r].key /\ new.fingerprint = request[r].fingerprint
  BY DEF Orders!Row
<1> HIDE DEF new
<1>3. bound \subseteq bound'
  BY <1>1
<1>4. Typed' /\ RequestsNameSenders' /\ OnlyOrdersCreate'
  BY <1>0, <1>1 DEF Typed, RequestsNameSenders, OnlyOrdersCreate, Delivered, IntegrationKey
<1>5. KeysBoundOnce'
  <2>1. \A x, e : MadeFrom(x, e)' <=> MadeFrom(x, e)
    BY <1>0 DEF MadeFrom
  <2>2. new.fingerprint.source \in Providers => \E e \in Events : MadeFrom(new, e)
    <3>1. CASE r \in Clients
      BY <1>2, <3>1 DEF RequestsNameSenders, Providers
    <3>2. CASE r \in Deliveries
      <4>1. Event(r) \in Events /\ payload[Event(r)].kind = "order"
        BY <1>0, <3>2, Senders DEF OnlyOrdersCreate
      <4>2. request[r] = Delivered(r)
        BY <3>2 DEF RequestsNameSenders
      <4> QED BY <1>2, <4>1, <4>2, DeliveredFields DEF MadeFrom, IntegrationKey
    <3> QED BY <3>1, <3>2, Senders
  <2> HIDE DEF MadeFrom
  <2>3. \A x \in bound' : x.fingerprint.source \in Providers => \E e \in Events : MadeFrom(x, e)
    BY <1>1, <2>2 DEF KeysBoundOnce
  <2>4. \A x, y \in bound' : x.key = y.key => x = y
    BY <1>1, <1>2 DEF KeysBoundOnce
  <2> QED BY <2>1, <2>3, <2>4 DEF KeysBoundOnce
<1>6. AnswersNameStored'
  <2> SUFFICES ASSUME NEW q \in Requests, answer'[q].kind \in {"created", "replayed"}
               PROVE  \E x \in bound' : /\ x.key = request[q].key
                                        /\ x.fingerprint = request[q].fingerprint
    BY <1>0 DEF AnswersNameStored, Stored
  <2>1. CASE answer'[q] = answer[q]
    BY <1>3, <2>1 DEF AnswersNameStored, Stored
  <2>2. CASE answer'[q] # answer[q]
    <3>1. PICK a \in Orders!MayBeTold(r, bound') : answer' = [answer EXCEPT ![r] = a]
      BY <1>1, <2>2
    <3>2. q = r /\ answer'[r] = a
      BY <2>2, <3>1 DEF Typed
    <3> QED BY <3>2, ToldTruth
  <2> QED BY <2>1, <2>2
<1>7. AcceptedIsTrue'
  BY <1>0, <1>3 DEF AcceptedIsTrue, TrueOf, Stored
<1> QED BY <1>4, <1>5, <1>6, <1>7

(* The handler writes the status of the order service's answer: a 2xx only *)
(* for an order that was created or replayed.                              *)
LEMMA RespondPreserves ==
  ASSUME IndInv, NEW r \in Requests, Respond(r) PROVE IndInv'
<1>1. /\ Status(r) \in {200, 201, 409, 500}
      /\ Status(r) \in {200, 201} => answer[r].kind \in {"created", "replayed"}
  BY DEF Status
<1>2. Status(r) \in {200, 201} => \A q \in Requests : Sender(q) = Sender(r) => Stored(q)
  <2> SUFFICES ASSUME Status(r) \in {200, 201}, NEW q \in Requests, Sender(q) = Sender(r)
               PROVE  Stored(q)
    OBVIOUS
  <2>1. Stored(r)
    BY <1>1 DEF IndInv, AnswersNameStored
  <2>2. request[q] = request[r]
    <3>1. CASE r \in Clients
      BY <3>1, Senders
    <3>2. CASE r \in Deliveries
      <4>1. q \in Deliveries /\ Event(q) = Event(r)
        BY <3>2, Senders
      <4>2. Delivered(q) = Delivered(r)
        BY <4>1 DEF Delivered, IntegrationKey
      <4> QED BY <3>2, <4>1, <4>2 DEF IndInv, RequestsNameSenders
    <3> QED BY <3>1, <3>2, Senders
  <2> QED BY <2>1, <2>2 DEF Stored
<1>3. Reply(r, Status(r)) /\ UNCHANGED <<inputVars, bound>>
  BY DEF Respond
<1> HIDE DEF Status
<1>4. Status(r) \in Nat /\ (Status(r) \in 200 .. 299 => TrueOf(Sender(r), Status(r)))
  BY <1>1, <1>2 DEF TrueOf
<1> QED BY <1>3, <1>4, ReplyPreserves

(* The induction step. *)
LEMMA StepPreserves == IndInv /\ [Next]_vars => IndInv'
<1> SUFFICES ASSUME IndInv, [Next]_vars PROVE IndInv'
  OBVIOUS
<1>1. ASSUME NEW d \in Deliveries, Deliver(d) \/ Delay(d) \/ Timeout(d) \/ Vanish(d)
      PROVE  IndInv'
  BY <1>1, NetworkPreserves
<1>2. ASSUME NEW d \in Deliveries, stripeWebhook(d) \/ shopifyWebhook(d) PROVE IndInv'
  BY <1>2, WebhookPreserves
<1>3. ASSUME NEW c \in Clients, createOrder(c) PROVE IndInv'
  BY <1>3, ClientPreserves
<1>4. ASSUME NEW r \in Requests, CreateOrder(r) PROVE IndInv'
  BY <1>4, CreatePreserves
<1>5. ASSUME NEW r \in Requests, Respond(r) PROVE IndInv'
  BY <1>5, RespondPreserves
<1>6. CASE UNCHANGED vars
  BY <1>6, MovePreserves DEF vars, IndInv, Typed
<1> QED BY <1>1, <1>2, <1>3, <1>4, <1>5, <1>6 DEF Next, Handle

(* The inductive invariant holds of every reachable state. *)
THEOREM Invariance == Spec => []IndInv
<1>1. Init => IndInv
  BY InitEstablishes
<1>2. IndInv /\ [Next]_vars => IndInv'
  BY StepPreserves
<1> QED BY <1>1, <1>2, PTL DEF Spec

(* The orders made from the webhooks about one Shopify order share a key,  *)
(* those made from events about one Stripe session have a key each.        *)
LEMMA OrdersOfObject ==
  ASSUME IndInv, NEW e \in Events
  PROVE  Cardinality(RowsAbout(e)) <= IF payload[e].provider = "shopify" /\ Reports(e) # {} THEN 1
                                      ELSE Cardinality(Reports(e))
<1> DEFINE rows == RowsAbout(e)
           reports == Reports(e)
<1>1. payload[e].provider \in Providers
  BY InboxAssumption DEF IndInv, Typed
<1>2. \A x \in rows : \E f \in reports : MadeFrom(x, f)
  BY <1>1 DEF RowsAbout, Reports, IndInv, KeysBoundOnce, MadeFrom
<1>3. \A x, y \in rows : x.key = y.key => x = y
  BY DEF RowsAbout, IndInv, KeysBoundOnce
<1>4. IsFiniteSet(reports) /\ (reports = {} => Cardinality(reports) = 0)
  BY BoundsAssumption, FS_Subset, FS_EmptySet DEF Reports
<1>5. CASE rows = {}
  BY <1>4, <1>5, FS_EmptySet, FS_CardinalityType
<1>6. CASE rows # {} /\ payload[e].provider = "shopify"
  <2>1. reports # {}
    BY <1>2, <1>6
  <2>2. \A x \in rows : x.key = <<"shopify", payload[e].object>>
    BY <1>2, <1>6 DEF MadeFrom, Reports
  <2>3. PICK x : rows = {x}
    BY <1>3, <1>6, <2>2
  <2>4. Cardinality(rows) = 1
    BY <2>3, FS_Singleton
  <2> HIDE DEF rows, reports
  <2> QED BY <1>6, <2>1, <2>4 DEF rows, reports
<1>7. CASE payload[e].provider = "stripe"
  <2> DEFINE event == [x \in rows |-> CHOOSE f \in reports : MadeFrom(x, f)]
  <2>1. \A x \in rows : event[x] \in reports /\ MadeFrom(x, event[x])
    BY <1>2
  <2>2. \A x \in rows : x.key = <<"stripe", event[x]>>
    BY <1>7, <2>1 DEF MadeFrom, Reports
  <2>3. event \in [rows -> reports]
    BY <2>1
  <2>4. \A x, y \in rows : event[x] = event[y] => x = y
    BY <1>3, <2>2
  <2> HIDE DEF event, rows, reports
  <2>5. event \in Injection(rows, reports)
    BY <2>3, <2>4, Fun_IsInj
  <2>6. Cardinality(rows) <= Cardinality(reports)
    BY <1>4, <2>5, FS_Injection
  <2> QED BY <1>7, <2>6 DEF rows, reports
<1> QED BY <1>1, <1>5, <1>6, <1>7 DEF Providers

(* However often webhooks are delivered, a Shopify order becomes one order *)
(* at most and a Stripe event one at most, and no 2xx lets a provider stop *)
(* before its order is stored.                                             *)
THEOREM NoEventLost == Spec => []AcceptedMeansStored
<1>1. IndInv => AcceptedMeansStored
  BY OrdersOfObject DEF AcceptedMeansStored, IndInv, AcceptedIsTrue, TrueOf, Stored
<1> QED BY <1>1, Invariance, PTL
=============================================================================
