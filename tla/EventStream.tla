----------------------------- MODULE EventStream -----------------------------
(***************************************************************************)
(* The lab's event store (internal/store/memory.go) and the WebSocket      *)
(* stream handler that serves it (internal/httpapi/server.go, stream).     *)
(*                                                                         *)
(* The store numbers events, keeps the last Retention of them, remembers   *)
(* per tenant how far it has evicted, and pushes each event into the       *)
(* buffered channel of every subscriber of the tenant.  A consumer         *)
(* connects with since = the last sequence it processed, is sent the       *)
(* retained events after it and then the channel.  When it is told that    *)
(* its cursor expired it reads GET /v1/orders and goes on from there, as   *)
(* docs/RUNBOOK.md prescribes.                                             *)
(*                                                                         *)
(* Every store method runs under the store's mutex and is one step; the    *)
(* handler's calls of SubscribeSince and cancel, its WebSocket accept and  *)
(* each event it writes are steps of their own.  An order is saved once,   *)
(* so its event stands for it.                                             *)
(***************************************************************************)
EXTENDS Integers, Sequences, FiniteSets

CONSTANTS
    Consumers, Tenants,
    Retention,      \* NewMemory's retention
    Buffer,         \* the subscriber channel's capacity
    MaxSequence,    \* bound: saves between resets
    MaxDisconnects, \* bound: connections lost
    MaxResets       \* bound: operator resets

ASSUME ConfigAssumption ==
    /\ Retention \in Nat \ {0} /\ Buffer \in Nat \ {0}
    /\ MaxSequence \in Nat /\ MaxDisconnects \in Nat /\ MaxResets \in Nat

VARIABLES
    \* Memory
    events, nextSequence, evictedThrough,
    subscribers,    \* consumers whose subscription is in the map
    \* per subscription
    channel,
    closes,         \* how often the channel was closed
    \* the stream handler
    tenantOf, phase, replay, expired,
    \* the client
    cursor,
    disconnects, resets,
    \* history
    saved,          \* saved[i] is the tenant of sequence i since the last reset
    received,       \* every event a consumer was sent
    cursorEpoch,    \* the epoch the consumer's cursor belongs to
    base,           \* sequences up to here it read over REST, or never asked for
    excused         \* sequences up to here it missed because of an old cursor

storeVars == <<events, nextSequence, evictedThrough, saved>>
connVars == <<phase, replay, expired>>
clientVars == <<cursor, received, cursorEpoch, base, excused>>
budget == <<disconnects, resets>>
vars == <<storeVars, subscribers, channel, closes, tenantOf, connVars, clientVars, budget>>

(* The number of resets so far: it tells events of equal sequence apart. *)
Epoch == MaxResets - resets

(* The positions of a slice in ascending order, as a loop over it meets    *)
(* them.                                                                   *)
Ascending(P) ==
    CHOOSE q \in [1 .. Cardinality(P) -> P] : \A i, j \in DOMAIN q : i < j => q[i] < q[j]

(* The retained events at the positions P, in the order of the slice. *)
Retained(P) == [k \in 1 .. Cardinality(P) |-> events[Ascending(P)[k]]]

(* Mutant: events from the cursor on, the cursor's own included. *)
EventsFrom(t, since) ==
    Retained({i \in 1 .. Len(events) : events[i].tenant = t /\ events[i].sequence >= since})

(* The loop of SubscribeSince that collects the replay. *)
EventsOf(t, since) ==
    Retained({i \in 1 .. Len(events) : events[i].tenant = t /\ events[i].sequence > since})

Phases == {"offline", "subscribed", "replaying", "live", "expired"}

-----------------------------------------------------------------------------
Init ==
    /\ events = <<>> /\ nextSequence = 0
    /\ evictedThrough = [t \in Tenants |-> 0]
    /\ subscribers = {}
    /\ channel = [c \in Consumers |-> <<>>]
    /\ closes = [c \in Consumers |-> 1]
    /\ tenantOf \in [Consumers -> Tenants]
    /\ phase = [c \in Consumers |-> "offline"]
    /\ replay = [c \in Consumers |-> <<>>]
    /\ expired = [c \in Consumers |-> FALSE]
    /\ cursor = [c \in Consumers |-> 0]
    /\ disconnects = MaxDisconnects
    /\ resets = MaxResets
    /\ saved = <<>>
    /\ received = [c \in Consumers |-> <<>>]
    /\ cursorEpoch = [c \in Consumers |-> 0]
    /\ base = [c \in Consumers |-> 0]
    /\ excused = [c \in Consumers |-> 0]

Full(c) == Len(channel[c]) >= Buffer

(* Mutant: subscriptions are dropped and their channels left open. *)
LeaveOpen(gone) == UNCHANGED closes

(* close(subscriber.events) for every subscription that leaves the map. *)
Close(gone) ==
    closes' = [c \in Consumers |-> IF c \in gone THEN closes[c] + 1 ELSE closes[c]]

(* Mutant: one event more than the retention is kept. *)
ExcessLate(appended) == Len(appended) - Retention - 1

(* How many of the oldest events exceed the retention: never more than one. *)
Excess(appended) == Len(appended) - Retention

(* Save: number, append, evict, and push without blocking; a subscriber    *)
(* whose buffer is full is removed and its channel closed.                 *)
Save(t) ==
    LET e == [sequence |-> nextSequence + 1, tenant |-> t, epoch |-> Epoch]
        appended == Append(events, e)
        excess == Excess(appended)
        targets == {c \in subscribers : tenantOf[c] = t}
        slow == {c \in targets : Full(c)}
    IN  /\ nextSequence < MaxSequence
        /\ nextSequence' = nextSequence + 1
        /\ IF excess > 0
           THEN /\ events' = SubSeq(appended, excess + 1, Len(appended))
                /\ evictedThrough' = [evictedThrough EXCEPT
                                         ![appended[1].tenant] = appended[1].sequence]
           ELSE events' = appended /\ UNCHANGED evictedThrough
        /\ channel' = [c \in Consumers |->
                          IF c \in targets \ slow THEN Append(channel[c], e) ELSE channel[c]]
        /\ subscribers' = subscribers \ slow
        /\ Close(slow)
        /\ saved' = Append(saved, t)
        /\ UNCHANGED <<tenantOf, connVars, clientVars, budget>>

(* Mutant: the cursor is not compared with what was evicted. *)
NeverExpired(t, s) == FALSE

(* SubscribeSince's test of a cursor against the tenant's evictions. *)
ExpiredCursor(t, s) == s > 0 /\ s <= evictedThrough[t]

(* The cursor was handed out before the last reset. *)
Outdated(c) == cursor[c] > 0 /\ cursorEpoch[c] # Epoch

(* Replay and registration in one critical section.  A consumer that       *)
(* starts from zero is owed what the store still retains.                  *)
SubscribeSince(c) ==
    LET t == tenantOf[c]
        missed == IF cursor[c] < nextSequence THEN cursor[c] ELSE nextSequence
    IN  /\ phase[c] = "offline"
        /\ replay' = [replay EXCEPT ![c] = EventsOf(t, cursor[c])]
        /\ expired' = [expired EXCEPT ![c] = ExpiredCursor(t, cursor[c])]
        /\ subscribers' = subscribers \cup {c}
        /\ channel' = [channel EXCEPT ![c] = <<>>]
        /\ closes' = [closes EXCEPT ![c] = 0]
        /\ phase' = [phase EXCEPT ![c] = "subscribed"]
        /\ base' = [base EXCEPT ![c] = IF cursor[c] = 0 THEN evictedThrough[t] ELSE @]
        /\ excused' = [excused EXCEPT ![c] = IF Outdated(c) THEN missed ELSE @]
        /\ UNCHANGED <<storeVars, tenantOf, cursor, cursorEpoch, received, budget>>

(* Mutant: the channel is closed without looking the subscription up. *)
cancelAlways(c) ==
    /\ subscribers' = subscribers \ {c}
    /\ Close({c})

(* The cancel function: close the channel if the subscription is still in  *)
(* the map.  Overflow and Reset may have removed and closed it before.     *)
cancel(c) ==
    /\ subscribers' = subscribers \ {c}
    /\ Close(subscribers \cap {c})

(* The handler returns on this path; cancel runs, directly or deferred. *)
Leave(c, next) ==
    /\ cancel(c)
    /\ phase' = [phase EXCEPT ![c] = next]
    /\ replay' = [replay EXCEPT ![c] = <<>>]
    /\ channel' = [channel EXCEPT ![c] = <<>>]
    /\ expired' = [expired EXCEPT ![c] = FALSE]

(* Mutant: the 409 is answered without cancel(). *)
RejectExpiredWithoutCancel(c) ==
    /\ phase[c] = "subscribed" /\ expired[c]
    /\ phase' = [phase EXCEPT ![c] = "expired"]
    /\ UNCHANGED <<storeVars, subscribers, channel, closes, tenantOf, replay, expired,
                   clientVars, budget>>

(* 409 replay_window_expired. *)
RejectExpired(c) ==
    /\ phase[c] = "subscribed" /\ expired[c]
    /\ Leave(c, "expired")
    /\ UNCHANGED <<storeVars, tenantOf, clientVars, budget>>

Accept(c) ==
    /\ phase[c] = "subscribed" /\ ~expired[c]
    /\ phase' = [phase EXCEPT ![c] = "replaying"]
    /\ UNCHANGED <<storeVars, subscribers, channel, closes, tenantOf, replay, expired,
                   clientVars, budget>>

(* One event reaches the client, which advances its cursor to it. *)
Send(c, e) ==
    /\ received' = [received EXCEPT ![c] = Append(@, e)]
    /\ cursor' = [cursor EXCEPT ![c] = e.sequence]
    /\ cursorEpoch' = [cursorEpoch EXCEPT ![c] = e.epoch]
    /\ UNCHANGED <<base, excused>>

WriteReplay(c) ==
    /\ phase[c] = "replaying"
    /\ IF replay[c] = <<>>
       THEN phase' = [phase EXCEPT ![c] = "live"] /\ UNCHANGED <<replay, clientVars>>
       ELSE /\ Send(c, Head(replay[c]))
            /\ replay' = [replay EXCEPT ![c] = Tail(@)]
            /\ UNCHANGED phase
    /\ UNCHANGED <<storeVars, subscribers, channel, closes, tenantOf, expired, budget>>

(* A closed channel still yields what was buffered in it. *)
WriteLive(c) ==
    /\ phase[c] = "live" /\ channel[c] # <<>>
    /\ Send(c, Head(channel[c]))
    /\ channel' = [channel EXCEPT ![c] = Tail(@)]
    /\ UNCHANGED <<storeVars, subscribers, closes, tenantOf, connVars, budget>>

ChannelClosed(c) ==
    /\ phase[c] = "live" /\ channel[c] = <<>> /\ closes[c] > 0
    /\ Leave(c, "offline")
    /\ UNCHANGED <<storeVars, tenantOf, clientVars, budget>>

(* The accept, a write or a ping fails, or the request context ends.       *)
(* Nothing reads from the connection while it is pinged, so a long-lived   *)
(* stream may be left at its first ping every time.                        *)
Disconnect(c) ==
    /\ disconnects > 0 /\ disconnects' = disconnects - 1
    /\ phase[c] \in {"subscribed", "replaying", "live"}
    /\ phase[c] = "subscribed" => ~expired[c]
    /\ Leave(c, "offline")
    /\ UNCHANGED <<storeVars, tenantOf, clientVars, resets>>

(* The client's answer to 409: GET /v1/orders, then continue from the      *)
(* newest order it lists.                                                  *)
Reconcile(c) ==
    LET listed == {i \in 1 .. nextSequence : saved[i] = tenantOf[c]}
        last == IF listed = {} THEN 0 ELSE CHOOSE i \in listed : \A j \in listed : j <= i
    IN  /\ phase[c] = "expired"
        /\ phase' = [phase EXCEPT ![c] = "offline"]
        /\ cursor' = [cursor EXCEPT ![c] = last]
        /\ cursorEpoch' = [cursorEpoch EXCEPT ![c] = Epoch]
        /\ base' = [base EXCEPT ![c] = last]
        /\ UNCHANGED <<storeVars, subscribers, channel, closes, tenantOf, replay, expired,
                       received, excused, budget>>

Reset ==
    /\ resets > 0 /\ resets' = resets - 1
    /\ Close(subscribers)
    /\ subscribers' = {}
    /\ events' = <<>> /\ nextSequence' = 0 /\ saved' = <<>>
    /\ evictedThrough' = [t \in Tenants |-> 0]
    /\ base' = [c \in Consumers |-> 0]
    /\ excused' = [c \in Consumers |-> 0]
    /\ UNCHANGED <<channel, tenantOf, connVars, cursor, cursorEpoch, received, disconnects>>

Handler(c) ==
    \/ RejectExpired(c) \/ Accept(c) \/ WriteReplay(c) \/ WriteLive(c) \/ ChannelClosed(c)

Next ==
    \/ \E t \in Tenants : Save(t)
    \/ \E c \in Consumers :
          SubscribeSince(c) \/ Handler(c) \/ Disconnect(c) \/ Reconcile(c)
    \/ Reset

(* Handlers run, and the consumers considered always reconnect. *)
Fairness ==
    \A c \in Consumers :
        /\ WF_vars(Handler(c))
        /\ WF_vars(SubscribeSince(c))
        /\ WF_vars(Reconcile(c))

Spec == Init /\ [][Next]_vars /\ Fairness

-----------------------------------------------------------------------------
Events == [sequence : 1 .. MaxSequence, tenant : Tenants, epoch : 0 .. MaxResets]

(* Type correctness: the store retains at most Retention events and a      *)
(* channel holds at most Buffer of them, also after an eviction.           *)
TypeOK ==
    /\ nextSequence \in 0 .. MaxSequence
    /\ events \in Seq(Events) /\ Len(events) <= Retention
    /\ evictedThrough \in [Tenants -> 0 .. nextSequence]
    /\ subscribers \subseteq Consumers
    /\ channel \in [Consumers -> Seq(Events)]
    /\ closes \in [Consumers -> Nat]
    /\ tenantOf \in [Consumers -> Tenants]
    /\ phase \in [Consumers -> Phases]
    /\ replay \in [Consumers -> Seq(Events)]
    /\ expired \in [Consumers -> BOOLEAN]
    /\ cursor \in [Consumers -> 0 .. MaxSequence]
    /\ saved \in Seq(Tenants) /\ Len(saved) = nextSequence
    /\ \A c \in Consumers : Len(channel[c]) <= Buffer

(* A subscription's channel is closed exactly when it has left the map:    *)
(* Save never sends on a closed channel, and of cancel, overflow and Reset *)
(* only the first closes it.  Either mistake panics in Go.                 *)
ChannelClosedOnce ==
    \A c \in Consumers : closes[c] = IF c \in subscribers THEN 0 ELSE 1

(* No handler returns with its subscription left behind: every path out of *)
(* stream cancels it.                                                      *)
NoLeakedSubscription ==
    \A c \in subscribers : phase[c] \notin {"offline", "expired"}

(* What a consumer is sent is its own tenant's and strictly increasing     *)
(* between resets: replay and live events neither overlap nor swap, and no *)
(* event is sent twice over any number of reconnects.                      *)
SentInOrder ==
    \A c \in Consumers : \A i, j \in 1 .. Len(received[c]) :
        /\ received[c][i].tenant = tenantOf[c]
        /\ i < j /\ received[c][i].epoch = received[c][j].epoch
              => received[c][i].sequence < received[c][j].sequence

Drained(c) == phase[c] = "live" /\ c \in subscribers /\ channel[c] = <<>>

(* Every event of the consumer's tenant after sequence n has been sent. *)
SentAfter(c, n) ==
    \A i \in (n + 1) .. nextSequence :
        saved[i] = tenantOf[c] =>
            \E k \in 1 .. Len(received[c]) :
                received[c][k].sequence = i /\ received[c][k].epoch = Epoch

(* A consumer that is connected and has nothing left to be sent has been   *)
(* sent every event of its tenant that it was owed: nothing falls between  *)
(* replay and subscription, nothing is lost when its buffer overflows, and *)
(* an evicted event it missed was announced by a 409.  Two things are      *)
(* excused.  What a cursor from before a Reset hides; and what was evicted *)
(* before a subscription from zero, also that of a consumer that was       *)
(* connected before and had been sent nothing: memory.go refuses no cursor *)
(* of zero, so nobody tells it of the events it missed in between.         *)
NoSilentGap ==
    \A c \in Consumers : Drained(c) =>
        SentAfter(c, IF base[c] < excused[c] THEN excused[c] ELSE base[c])

(* The tenant's newest event is still in the store, or it lost none. *)
NewestRetained(t) ==
    evictedThrough[t] = 0 \/ \E i \in 1 .. Len(events) : events[i].tenant = t

(* When saves, resets and disconnects stop, every reconnecting consumer    *)
(* whose tenant's newest event is retained ends up connected with nothing  *)
(* left to be sent: no closed channel strands its handler, and 409 with    *)
(* reconciliation does not go round for ever.                              *)
ConsumersCatchUp == \A c \in Consumers : <>[](NewestRetained(tenantOf[c]) => Drained(c))

(* "perform a REST snapshot/full reconciliation, then resume streaming     *)
(* from the current sequence": every reconnecting consumer ends up         *)
(* connected, whatever other tenants do.                                   *)
ReconciledConsumersResume == \A c \in Consumers : <>[]Drained(c)
=============================================================================
