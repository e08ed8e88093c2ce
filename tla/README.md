# TLA+ verification of the API reliability lab

The repository contains two runtimes. The *lab* (`cmd/server`) keeps everything
in memory: a circuit breaker, an idempotency registry, token buckets, a retry
policy and an event store that WebSocket clients follow. The *product runtime*
(`cmd/product-server`) creates orders through Redis and PostgreSQL on any
number of replicas and notifies receivers through a transactional outbox. This
directory models the parts that coordinate: who may proceed, what may be
repeated, what is lost on a failure, and what eventually happens.

Paths below are relative to the repository. `PROJECT.json` maps every
definition to its lines, lists runs, mutants, hazards, findings and theorems.

## Inventory

| Component | State | Operations | Interacts with | What is hard |
| --- | --- | --- | --- | --- |
| Circuit breaker `internal/reliability/breaker.go` | state, consecutiveFailures, openedAt, generation, halfOpenProbe under a mutex | Execute (beforeRequest, operation, afterRequest), State, Reset | order service calls it around Retry; readiness and snapshot call State | outcomes reported after a transition, a single probe, reopening |
| Idempotency registry `internal/reliability/idempotency.go` | map of entries, expiry, nextPurge under a mutex | DoWithFingerprint, PurgeExpired | order service runs the breaker inside it | time read before the lock, entries held after they left the map, failures |
| Event store `internal/store/memory.go` and stream handler `internal/httpapi/server.go` | events, sequence, eviction marks, subscribers, channels | Save, SubscribeSince, cancel, Reset; accept, replay, live, ping | order service saves; WebSocket clients read | replay against live, overflow, double close, replay window |
| Product order creation `internal/product/{service,coordinator,postgres}.go` | Redis result and lock keys; orders, events, deliveries tables | CreateOrder = Do + transaction, with a fallback to the database alone | HTTP server and provider webhooks call it; fills the outbox | every round trip may fail after it took effect, locks expire, replicas crash |
| Webhook outbox `internal/product/{webhook,postgres}.go` | delivery rows: status, attempts, next_attempt_at, updated_at | ClaimDeliveries, post, MarkDeliverySucceeded, MarkDeliveryFailed, ReplayDelivery | workers of all replicas, receivers, operators | leases, late marks, crashes between post and mark |
| Rate limiter `internal/reliability/limiter.go`, admission chain in `internal/httpapi/server.go` | token buckets | Allow, Refund, Forget, Reset | three buckets in a row before createOrder | stale now, refunds, Reset in between |
| Retry policy `internal/reliability/retry.go` | none | Retry, retryDelay | around the dependency call | bounds of attempts and delays |
| Lab order service `internal/app/service.go` | registry, breaker, store, counters, lifecycle lock | CreateOrder, Snapshot, Ready, Reset | composes all of the above | Reset against requests in flight, whose cancellation counts |
| Product HTTP server `internal/product/{server,integrations,signatures}.go` | none of its own | createOrder, stripeWebhook, shopifyWebhook | API clients and providers call it; it calls order creation | redelivery while the first delivery is at work, lost replies, late deliveries, one key space for clients and providers |
| Circuit gauge `internal/app/service.go`, `internal/telemetry/metrics.go` | a gauge of the breaker's state | syncCircuitMetric, syncCircuitMetricState | CreateOrder, Snapshot, Ready and Reset publish | a copy of state, set after the state was read |
| Replay command `cmd/replay/main.go` | where it is, what it has seen | reset, three scenarios | a client of the lab | depends on concurrency, a fixed sleep and what an earlier user left |
| Everything else | none, or read-only | HTTP encoding, authentication by a static map, counters, demo sink, web page | | |

What makes each component correct is stated as properties in its module (below).

## Modules

`CircuitBreaker`, `IdempotencyRegistry`, `EventStream`, `RateLimiter`,
`ProductOrders` and `WebhookOutbox` are one component each. `OrderService`
composes the lab's registry, breaker, retry policy, dependency and store, and
takes the breaker's transitions from `CircuitBreaker` with `INSTANCE`.
`CircuitGauge` extends `CircuitBreaker` with everybody who publishes its state,
and `Replay` extends `OrderService` with its client, the replay command.
`OnceOnlyOrders` is the abstract promise of order creation: `ProductOrders`
implements it and `ProductServer` is built on it, so the handlers are checked
against what is proved of the detailed component and not against a copy of it.
`ClaimedOrders` is the abstract promise of the lab's order service, and
`OrderService` implements it.
Each of the six components, `OrderService` and `ProductServer` has a module
`..._proofs` with the theorems about it. `MC_RateLimiter`, `MC_OrderService` and
`MC_ProductServer` give values to constants a `.cfg` cannot write; the other runs check the component's module directly. Definitions
whose comment starts with "Mutant:" are deliberately wrong variants of the
definition that follows them; nothing uses them except the mutants of
`PROJECT.json`.

**CircuitBreaker.** `breaker` is the record of the fields the mutex protects.
`beforeRequest`, `Rejected` and `afterRequest` are the critical sections of
Execute; everything else may happen between a caller's admission and its
outcome. The code compares only `now - openedAt` with the timeout, so the model
keeps that age, saturated. History variables record which running calls were
admitted before the last transition (`stale`), the failures that should count
(`streak`) and the ticks until a call may be admitted (`cooldown`).

**CircuitGauge.** Every publisher reads `State()` and sets the gauge in two
steps. A caller publishes after its Execute and before its next one, the
operator after a Reset, the poller (readiness, snapshots) whenever it likes, so
an older state may be set last.

**IdempotencyRegistry.** One caller is one call. `Arrive` reads the clock,
`Enter` is the first critical section, `Finish` the second; between them the
operation runs and the clock, purges and other callers go on. An entry is named
after the caller that created it, because waiters keep it after it has left the
map.

**EventStream.** The store's methods are one step each, as they hold its mutex.
The handler subscribes, accepts, writes each retained event, then each live one;
a channel that overflowed or was reset still yields what it buffered. The client
remembers the last sequence it was sent and, on 409, reads `GET /v1/orders` and
continues from the newest order, as `docs/RUNBOOK.md` says. `closes` counts how
often a subscription's channel was closed. The replay a subscription starts with
(`EventsOf`) is the enumeration, in their order, of the positions whose events
the loop of SubscribeSince appends.

**ProductOrders.** One request is one call of `Service.CreateOrder`; each action
is one round trip. Each round trip may fail, each write may take effect and
still fail for its caller, a replica may crash between any two, and Redis may
lose the lock or the result at any time (TTL, restart). PostgreSQL is modelled
from how the code uses it: READ COMMITTED, an insert that waits for an
uncommitted row with the same unique key, a commit that is atomic, a sequence
that is not rolled back. Input validation is the action `Refuse`. The contents
of an order are left out, its times included: the creator is given `time.Now()` in nanoseconds and a
replay from the table the same time in microseconds.

**OnceOnlyOrders.** A set of bindings (key, fingerprint, sequence) and the answer
of every request. A step binds a free key, or tells one request what the
binding of its key allows, or both. `ProductOrders` maps its orders table to
`bound` and a request's label and result to `answer` (`AnswerOf`); everything
about Redis, transactions and retries is a stuttering step.

**ProductServer.** A slot is one HTTP request of a provider's event; two slots
let a retry overlap a delivery that was given up. `stripeWebhook`,
`shopifyWebhook` and `createOrder` are the handlers up to the call of the
service, `CreateOrder` is a step of `OnceOnlyOrders`, `Respond` writes the
status. A payload is who sends it, what parsing it yields (an order, something
invalid, or an event that makes no order), the Stripe session or Shopify order it
is about, and the event and quantity it orders; the constant `Inboxes` says which
payloads the events may have. The key is made from the event's id for Stripe and
from the order's id for Shopify (`IntegrationKey`), and the fingerprint covers
source, external id, event and quantity (`RequestFingerprint`), so webhooks about
one Shopify order share a key and agree on the fingerprint only while the order is
not edited. An API client chooses a key of its own or one that spells an event's.
Signatures are valid; their age matters, for Stripe only. `accepted` records which
2xx was read by whom.

**WebhookOutbox.** Claims, marks and replays are SQL statements, one action
each; a worker does not claim again before all goroutines of its batch have
returned. A post ends within `RequestTimeout` (`http.Client.Timeout`), which the
configuration makes shorter than `Lease`; nothing in the code bounds how long
the mark afterwards takes, so `MarkDelay` is a parameter, longer than the lease
in both runs. What `LoadConfig` accepts is the assumption `ValidConfig`. The
history variables `reclaims` and `outlived` record the claims of an expired
lease and the rows one of whose attempts stayed in flight that long.

**RateLimiter.** `ReadClock` is the `time.Now()` of Allow before its mutex;
`Allow`, `Refuse` and the two refunds are critical sections of one bucket each,
and `Reset` clears one limiter at a time, as `Server.reset` does. Tokens are
integers, `Token` units to the token, and a layer refills `Rate` units per tick;
the rounding of the code's float64 is not modelled. The history variables
`grants`, `created` and `strays` say who holds a token of a bucket, since when
it exists, and how many tokens taken before a Reset were refunded after it.

**OrderService.** One request is one call of `Service.CreateOrder`, from the
read lock to its release. The leader of a key passes `beforeRequest`, the
attempts of Retry, `afterRequest`, `syncCircuitMetric`, `Save` and `Finish`;
waiters receive its value or error, or leave when their own client does. The
dependency reads its mode when it is called and answers later, so mode changes,
disconnects and other requests fall in between. A Reset that waits for the write
lock keeps new requests out and runs when the last one has left. The registry is
modelled without expiry, since its TTL of 30 minutes is far longer than a
request.

**ClaimedOrders.** What the lab's clients may rely on. The first request of a key
claims it; it stores one order and is told 201, or fails with nothing stored and
gives the key back in the same step. Others fail, are given the stored order of
the same request, or are refused because the key is claimed for another payload.
It is not `OnceOnlyOrders`: the in-memory registry refuses another payload as soon
as an operation with the key is running, and that operation may still fail, so a
request can be told of a conflict with an order that never comes to exist; and a
Reset forgets everything, though only between operations. `OrderService` maps the
registry's map to `owner`, the store to `stored` and a request's label and HTTP
status to `answer` (`AnswerOf`); breaker, retries, counters, disconnects and the
lifecycle lock are stuttering steps.

**Replay.** The command's control flow over the actions of `OrderService`: an
earlier user leaves requests in flight, a fault mode or an open circuit, then
the command resets the demo and runs its scenarios; snapshots are polled all the
time. `log` is the store's event log, of which the command reads the event after
a known one; how the stream delivers it is the business of `EventStream`. The
command's waits are far shorter than the cool-down except for its sleep, which is
where the breaker ages.

## Runs

| Run | Instance | What it shows |
| --- | --- | --- |
| `breaker` | 2 callers, operator and poller, threshold 2, timeout 2, 4 failures, 1 Reset; 139,000 states | a ticket is honoured exactly when nothing moved since; the half-open flag has exactly one live owner; the circuit opens only on the threshold-th current failure in a row; nothing is admitted during the cool-down; when the dependency has healed the circuit closes for good and the gauge comes to say so |
| `orders` | 2 requests, one key, 2 fingerprints, webhook on; 53,000 states | order creation implements `OnceOnlyOrders`, the cache follows the table, order, event and delivery commit together, a release frees only its own lock, every request that is not killed is answered |
| `orders_creator` | 2 requests, violated | nobody may be told 201 (finding) |
| `outbox` | 2 workers, 1 row, 3 attempts, lease 3, marks up to 4 ticks late, 2 faults, 1 replay; 64,000 states | two attempts at once only after one outlived its lease; attempts exceed the budget only by expired leases, and fall short of it only by late marks; delivered means accepted; terminal states hold; the row settles |
| `outbox_fence` | same kind of instance, violated | a late mark dead-letters a replayed row (finding) |
| `registry` | 3 callers, one scope, 2 fingerprints, TTL 2 | one running operation per scope, successes at least a TTL apart, every call returns |
| `stream` | 1 consumer, 2 tenants, retention 2, buffer 1, 4 events, 1 disconnect, 1 Reset | channels are closed once and not leaked, a consumer is sent its tenant's events in order, no silent gap, and the consumer catches up while its tenant's newest event is retained |
| `stream_reconcile` | 2 tenants, 5 events, violated | a reconciled consumer may be refused for ever (finding) |
| `limiter` | 3 requests, 2 tenants, one address, bursts 2/1/1, one refill token in two ticks, 1 Reset | a bucket lets through no more than its burst, its refill and the stray refunds of a Reset; a refused request costs no layer a token |
| `service` | 2 requests, 2 keys, 2 attempts, threshold 1, timeout 1, 1 mode change, 1 Reset | the service implements `ClaimedOrders`, a key's result is cached exactly when its order is stored, a success names a stored order of its own input and only the request that saved it is told 201, the counters add up, a half-open circuit always has its one reporting probe, Reset gets its lock because every request returns |
| `product_server` | 2 events (one of each provider, two webhooks about a Shopify order with the same and with other contents, two events about a Stripe session, payloads that make no order), 2 slots for the first and 1 for the second, 1 API client, 2 faults; 682,000 states | a Shopify order and a Stripe event become one order at most, nobody reads a 2xx before the order is stored with the contents it sent, and every valid event is accepted in the end unless an API client, or a webhook about the same Shopify order with other contents, had taken its key |
| `replay` | 2 earlier requests, 3 concurrent, 3 during the outage, threshold 2, cool-down 2, sleep 3; 25,000 states | the command ends with PASS whatever state the server was in |

*Bounds.* The safety properties of all runs are also proved, for every value of
the constants (below), so the bounds matter for liveness and for the findings. In `breaker`, two callers let a stale call and a probe coexist, and
either of them overtake the other, the poller or the operator at the gauge;
threshold 2 distinguishes "consecutive" from "any"; four failures open the
circuit and fail two probes, or open it once before and once after a Reset. In `orders`, two requests let
one hold an expired lock and the other its successor, or one fall back to the
database while the other commits. One
key suffices because no action relates two keys. In `limiter` each layer can
refuse (the tenant's burst is below its key's, two tenants share an address), so
all refund paths occur. In `outbox` one row suffices for the properties, which
concern one row each; a worker's batch ties rows together only in that the worker
is busy longer, which late marks do as well. Two workers, two faults and a mark
later than the lease let a row be reclaimed twice and marked by its earlier
holder after an operator's replay. In `product_server` two slots and two
faults let a delivery be delayed or fail, be given up and be overtaken by its
retry, while the second event, with a slot of its own, races for the same key or
the same object. In
`replay` the command has the 12, 4 and 1 requests of the code cut to 3, 3 and 1,
which still leaves a leader, a waiter and a late replay, and an outage request
after the one that opens the circuit. In `service` every property concerns a leader and one
other request, as a waiter, the owner of the probe or the reader a Reset waits
for; threshold and timeout 1 let one of them open the circuit and the other be
its probe, and the breaker's own counting is the business of `breaker`. A consumer is affected by
others only through the store, where events of the second tenant stand for
them; retention 2 and buffer 1 make eviction and overflow happen within four
events. TTL 2 with a clock of 4 makes expiry observable from an old reading
of the clock. The runs without deadlock checking are those where the system may
really stop: all requests answered, or all saves used up.

*Fairness.* Goroutines that can run do, admitted operations return (three
attempts of 250 ms each in the lab; the HTTP client's timeout in the worker),
clocks advance and TTLs run out. Nobody is obliged to cancel, reset, replay or
crash. The assumptions about the environment are explicit: in `GaugeFairness`
calls and polls keep arriving, which recovery of the breaker and of the gauge
needs because nothing but traffic moves either; consumers reconnect in
`EventStream`; a provider delivers again until it reads a 2xx in
`ProductServer`, where failures are bounded; the command and the server it talks
to run in `Replay`. All of it is weak fairness. In
`ProductOrders`, the fairness of a request's steps says that each of them ends,
not how.

## Findings

Each is a violation run, with the quotation in `PROJECT.json`.

- `orders_creator`: a failed write of the result to Redis after the commit makes
  CreateOrder ask the repository again, and the creator is answered as a replay.
- `outbox_fence`: a mark is matched by id and status only; delayed past its lease
  it may decide about somebody else's claim.
- `stream_reconcile`: `sequence <= evictedThrough` refuses a cursor equal to the
  last evicted sequence, which is the one a reconciled client of a quiet tenant
  has.

Known limits that no document contradicts. Reclaiming an expired lease does not
look at `max_attempts`, so a row whose worker died on the last attempt is posted
once more for each expired lease; `RetryBudget` states exactly that bound.

The key of an event may be taken, and then every delivery of it is a conflict. An
API client of the integration tenant may use it (`stripe:<event id>`). And a
Shopify key is made from the order's id while the webhook's topic is not looked
at, so a later webhook about an order whose quantity or `event_id` note was edited
meets the row of the earlier one with another fingerprint and gets 409 for ever,
with no API client involved; one with the same contents is accepted as a replay.
`EventsAccepted` excuses these two cases (`KeyTaken`) and no other; the run
reaches both. A Stripe key is made from the event's id, so two event ids about one
checkout session make two orders; `AcceptedMeansStored` counts them.

Reset restarts the event sequence without invalidating cursors, so a client that
keeps its old cursor across a Reset is not sent the events numbered up to it. And
a cursor of zero is never refused, so a client that was connected, was sent
nothing and reconnects with `since=0` is not told of events that were evicted in
between. `NoSilentGap` excuses these two and nothing else. The stream handler
pings every 20 seconds but nothing reads from the connection, and the websocket
library sees a pong only while somebody reads; a long-lived stream is therefore
probably closed at its first ping. In the model that is a `Disconnect`, of which
there are boundedly many: `ConsumersCatchUp` speaks of the time after the last.

Likewise a client's disconnect counts as a failure of the dependency in
the breaker (`Execute` does not look at the error), and the circuit may open on
it; `OrderService` models that and `ProbeReports` shows that at least the report
is never skipped.

## Proofs

`CircuitBreaker_proofs` assumes a positive threshold and timeout
(`ConfigAssumption`) and that the bounds are naturals (`BoundAssumption`), for
any set of callers. None of the properties is inductive alone; `IndInv` adds to
`TypeOK`:

- `TicketInv`: generations only grow, a running call is stale exactly when its
  generation is old, and within a generation the state does not change. This ties
  the code's test (generation and state) to the history of transitions and gives
  `TicketsExpire`.
- `ProbeInv` and `OpenInv`: in the half-open state the flag is set exactly when
  one current call runs, and no current call runs in the open state; otherwise a
  call left over from the open state could count as a probe. They give `OneProbe`.
- `CountInv`: in the closed state the code's counter is the streak of current
  failures, which gives `OpensOnThreshold`.
- `CoolDownInv`: what is left of the cool-down and the age of the opening add up
  to at most the timeout, which gives `CoolsDown`.

`ProductOrders_proofs` assumes only that `WebhookURL` is a Boolean, for any sets
of requests, keys and fingerprints. Its `IndInv` is `TypeOK`, `OneOrderPerKey`,
`CacheFollowsTable`, `NoPartialOrder` and:

- `DraftsDiffer`: no sequence is drawn twice, and a row with a request's sequence
  is a row of its key, so that two creators, who both name the key's only row,
  are one request (`Creator`).
- `Outcome`: a success is backed by a row of the request's key and fingerprint, a
  creator's by its own draft, a conflict by a row with another fingerprint. Rows
  are never removed, so this survives everybody else's steps (`Answers`).
- `Position`: a transaction past its insert is alone with its key and finds no
  row of it, which is why a commit keeps `OneOrderPerKey`.

Most steps touch only one request and Redis. `LocalStep` says once that such a
step keeps `IndInv` when the new label and result are justified by the table;
`CoordinatorStep`, `ReturnStep` and `RepositoryStep` discharge that for each
action, and `InsertEventStep`, `CommitStep` and `RedisLoss` handle the rest. No
step of the argument uses that a lock excludes anybody: the order is unique
because of the unique key, and the Redis lock only saves work.

`Refinement` shows that `ProductOrders` implements `OnceOnlyOrders`. `RequestStep`
goes through the actions of one request: a commit is the only step that changes
the table and is a `Create` with the answer still pending, because `Position`
says that the key is free and `DraftsDiffer` that the sequence is new; a step
that answers is a `Tell`, because `Outcome` holds of the new result (`TellStep`);
all others leave the mapped state alone. That the creator is the only one uses
`Creator`'s argument in the step itself.

`WebhookOutbox_proofs` assumes what LoadConfig accepts (`ConfigAssumption`: the
lease is longer than the timeout) and that the bounds are naturals
(`BoundAssumption`), for any deliveries, workers and batch size. Its `IndInv`
adds to `TypeOK`, `DeliveredWasAccepted` and `OneLiveAttempt`:

- `SucceededWasAccepted`: an attempt about to be marked as succeeded was
  accepted, because the mark comes later than the answer (`NoInventedDelivery`).
- `ClaimIsCurrent`: as long as no attempt of a row outlived its lease, the
  attempt in flight is the one the row's claim stands for, with the same age. So
  nobody else can claim the row, which is `LeaseExcludes`.
- `OpenWithinReclaims` and `SpentWithinReclaims`: every attempt in flight beyond
  the row's claim was paid for by an expired lease, and a row that has used up
  its attempts is claimed again only through such a lease or through an earlier
  attempt that fails late and puts the row back to pending. `RetryBudget` counts
  only claims; without counting those late failures the bound is not inductive.
- `GivenUpIsExhausted`: the other half of `BudgetKept`.

`TerminalStates` is an action property of one step: claims take due rows and
marks take processing rows.

`IdempotencyRegistry_proofs` assumes a positive TTL, a purge interval within it
(both from the constructor) and that `NoEntry` is no caller. Callers decide with
a `now` read before the lock, which may be old but never lies in the future.
`RetainedForTTL` says what follows: a result leaves the map only when its TTL is
over by the real clock. With `EntriesAreLive` (failures leave no entry) and
`ResultsExpireAfterTTL` (the lifetime starts when the operation ends) that gives
`SuccessesApart`; `Leader` needs that the entry of a running operation has no
expiry and is therefore kept by every purge (`PurgeKeepsLive`).

`EventStream_proofs` assumes a positive retention and buffer and that the bounds
are naturals, for any consumers and tenants. Its `IndInv` adds to `TypeOK`,
`ChannelClosedOnce` and `NoLeakedSubscription`:

- `StoreMatchesLog`: the store holds the newest events of the epoch without a
  hole, and `evictedThrough` bounds all others of a tenant. This is why a cursor
  that is not refused misses nothing.
- `QueuesInOrder`: what a consumer was sent, its cursor, what is left of its
  replay, its channel and the store's newest event follow each other in the order
  of epoch and sequence. `SentInOrder` alone says nothing of what is queued.
- `OwedIsQueued`: what a connected consumer is owed was sent or is queued, all of
  it while it is subscribed, and up to the last queued event once overflow or
  Reset removed it. `CursorIsEarned`: what it is owed up to its cursor was sent.
  The two carry `NoSilentGap` from one connection over the cursor to the next.
- `QueuedIsLogged` and `PhasesMatchQueues` say where queued events come from and
  in which phase a handler has a queue.

That the replay is the ascending enumeration of a set of positions needs
induction: `LeastNumber` is the least-number principle, from the library's
well-foundedness of `<` and stated with a set, and `AscendingExists` builds
the enumeration with it.

`RateLimiter_proofs` assumes positive bursts, rates and unit and that `NoBucket`
is no bucket. `AdmissionsWithinRate` counts refill up to the clock, which no
action preserves by itself: a request with an old reading of the clock refills
less. `Accounts` is what every action preserves: what a bucket holds and has
handed out lies between its burst and its burst plus the refill up to its own
`last` plus the stray refunds. The upper bound gives `RateKept` and the lower one
`RefusalsAreFree`; `HoldersInChain` and `AbsentIsEmpty` say who may hold a token
of a bucket and that a bucket cleared by Reset has no holders. Multiplication is
kept out of the provers' way by lemmas that treat a product as one number.

`OrderService_proofs` assumes that keys and inputs are named consistently,
positive attempts, threshold and timeout (`ServiceAssumption`), for any requests.
Its `IndInv` has these parts besides `TypeOK` and `AttemptsLeft`:

- `RegistryInv`: a leader owns its key's entry, every other entry has its order
  stored, every stored order is an entry's, an error ends an operation, and a
  waiter waits for a leader with its own input. Together they give
  `RegistryAndStore` and, because an answer stays true of the store until a
  Reset, `Successes`.
- `BreakerInv`: the tickets of the requests inside Execute match the breaker as in
  `CircuitBreaker_proofs`, stated of a breaker, a set of requests and their
  tickets, so that each critical section is one lemma. It gives `Probe`.
- `CountInv`: `CountersAddUp` and that the counted sets are finite.
- `OperationErrors`: no operation ends with a conflict, so a waiter, which is given
  its leader's error, is never told of one that is not its own.

`Refinement` shows that `OrderService` implements `ClaimedOrders`, action by
action. `Enter` on a free key is a `Claim`, because a request that has not led
owns nothing (`StrangersOwnNothing`); `Save` is a `Store`, because a leader owns
its key; `Finish` is a `Succeed` or a `GiveBack`, because an operation ends
without an error exactly when its order is stored; a waiter's `Receive` tells it
of an order that is still stored, because no Reset runs while it waits; and
`Reset` is a `Forget`, because with nobody in flight every owner has been
answered. `ToldFacts` relates the HTTP status to the answer, `QuietStep` and
`ToldStep` say once what a step of one request does to all answers.

`ProductServer_proofs` assumes that clients are neither events nor deliveries
(`NamesAssumption`), that payloads are well-formed (`InboxAssumption`), a natural
number of faults and finitely many events (`BoundsAssumption`). A 2xx is written
from the answer of the order service, so `AcceptedIsTrue` needs
`AnswersNameStored`, and that all deliveries of an event ask for the same
(`RequestsNameSenders`). `KeysBoundOnce` says that an order with a provider's
source was made from some event, under that event's key. In `OrdersOfObject` all
orders of one Shopify order therefore have the same key and are one; those of one
Stripe session have keys with different event ids, which maps them injectively to
the events about it. The order service is `OnceOnlyOrders`, which `ProductOrders`
is proved to implement.

In every module `StepPreserves` (in two of them the steps of `Invariance`) is the
induction step and `Invariance` its temporal form; each theorem follows from
`Invariance`. `OpensOnThreshold`, `CoolsDown`, `Releases` and `TerminalStates` are
action properties, proved of one step from a state satisfying `IndInv`. TLC
finds every `IndInv` true on the instance of its component's run. So every invariant, action
property and refinement that a passing run checks is a theorem as well.

Only model-checked: the liveness properties (`GaugeSettles`,
`EveryRequestAnswered`, `EveryDeliverySettles`, `EveryCallReturns`,
`ConsumersCatchUp`, `ResetCompletes`, `EventsAccepted`, `EveryScenarioPasses`),
which need fairness and are beyond the prover, and the three findings, which are
counterexamples.

## Plan

1. *Done.* The modules and runs above for every component except those under
   "Not modelled".
2. *Done.* Theorems for every safety property of the passing runs, the refinements
   of `OnceOnlyOrders` by `ProductOrders` and of `ClaimedOrders` by `OrderService`
   included.

A possible extension is to let `OrderService` forget single keys as well, when
the registry's TTL is over, which `IdempotencyRegistry` covers by itself.

## Not modelled

Some timing is cut short. A COMMIT that PostgreSQL applies after its caller was
told of a failure: in `ProductOrders` a lost reply means that it was applied
before. The time between a claim and the start of its post: `WebhookOutbox`
counts `http.Client.Timeout` from the claim. An attempt at a healthy dependency
that is starved past its 250 ms, in `OrderService`. A request of the earlier user
that waits at the lifecycle lock behind the command's Reset, in `Replay`. The
loads of `Snapshot`, which reads the counters one by one, so that a snapshot taken
under load need not add up the way `CountersAddUp` says the counters do. And in
`EventStream` every exit of the handler but the 409 cancels through one operator,
`Leave`, so `NoLeakedSubscription` tells only those two apart.

The bytes of requests, replies, payloads and HMAC signatures, and authentication
by a static key map: stateless. Reading the environment and wiring the servers.
Metrics other than the circuit gauge, the samples of the snapshot and the logs:
incremented and never read back. The lengths of retry delays: nothing depends on
them. The demo webhook sink answers like any receiver of `WebhookOutbox`; the web
page renders snapshots, and its polls are those of `CircuitGauge` and `Replay`;
the load tests are clients.
