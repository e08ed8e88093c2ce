---------------------------- MODULE OrderService ----------------------------
(***************************************************************************)
(* The lab's order service, internal/app/service.go: CreateOrder runs the  *)
(* dependency call (internal/upstream/simulator.go) inside Retry           *)
(* (internal/reliability/retry.go), inside the circuit breaker, inside the *)
(* idempotency registry, all under the read side of lifecycleMu; Reset     *)
(* takes its write side.                                                   *)
(*                                                                         *)
(* The breaker's critical sections are the operators of CircuitBreaker.    *)
(* The registry's are modelled without expiry: its 30 minutes are far      *)
(* longer than a request (IdempotencyRegistry models them).  A request is  *)
(* one call of CreateOrder; an order is named after the request that saved *)
(* it, an entry of the registry after the request that leads it.           *)
(***************************************************************************)
EXTENDS Integers, FiniteSets

CONSTANTS
    Requests,
    Keys,               \* (tenant, Idempotency-Key) pairs
    Inputs,             \* requests that clients send: a key and the input's fingerprint
    None,               \* no entry, no order
    Attempts,           \* RetryPolicy.Attempts
    FailureThreshold, OpenTimeout,      \* BreakerConfig
    MaxModeChanges,     \* bound: calls of SetFaultMode
    MaxResets           \* bound: calls of Reset

(* An input is its key and its fingerprint.  Retry makes an attempt at     *)
(* least, and NewCircuitBreaker panics on any other configuration.         *)
ASSUME ServiceAssumption ==
    /\ \A i \in Inputs : i.key \in Keys
    /\ \A i, j \in Inputs : i.key = j.key /\ i.fingerprint = j.fingerprint => i = j
    /\ Attempts \in Nat \ {0}
    /\ FailureThreshold \in Nat \ {0} /\ OpenTimeout \in Nat \ {0}
    /\ MaxModeChanges \in Nat /\ MaxResets \in Nat
    /\ None \notin Requests

VARIABLES
    request, pc,
    gone,       \* requests in flight whose client disconnected: their context is cancelled
    attempt,    \* attempts of Retry made
    call,       \* what Reserve read when it was called
    ticket,     \* the breaker's ticket
    err,        \* the error of the operation or of the request
    joined,     \* the entry the request leads or waits for
    mode, calls,        \* Simulator; calls counts modulo 3
    breaker,
    entries, outcome,   \* registry: the map, and the state of each entry
    orders,             \* store
    counters,           \* ordersTotal, ordersSucceeded, ...
    resetting,          \* a Reset waits for lifecycleMu
    modeChanges, resets,
    past        \* history: requests answered before the last Reset

reqVars == <<pc, attempt, call, ticket, err, joined>>
registryVars == <<entries, outcome>>
depVars == <<mode, calls, modeChanges>>
resetVars == <<resetting, resets, past>>
vars == <<request, gone, reqVars, depVars, breaker, registryVars, orders, counters, resetVars>>

CB == INSTANCE CircuitBreaker WITH
        Callers <- Requests, MaxFaults <- 0, running <- {}, faults <- 0,
        stale <- {}, streak <- 0, cooldown <- 0

Modes == {"healthy", "slow", "flaky", "unavailable"}
Errs == {"none", "invalid", "conflict", "circuit open", "unavailable", "deadline", "canceled", "left"}
PCs == {"idle", "enter", "wait", "before", "attempt", "call", "after", "sync", "save",
        "finish", "complete", "done"}

Key(r) == request[r].key
Fingerprint(r) == request[r].fingerprint

(* Requests inside CreateOrder hold the read side of lifecycleMu. *)
InFlight == {r \in Requests : pc[r] \notin {"idle", "done"}}

Goto(r, label) == pc' = [pc EXCEPT ![r] = label]
Fail(r, e) == err' = [err EXCEPT ![r] = e]

NoCall == [mode |-> "healthy", number |-> 0]

ZeroCounters == [total |-> 0, succeeded |-> 0, failed |-> 0, duplicates |-> 0]

-----------------------------------------------------------------------------
Init ==
    /\ request \in [Requests -> Inputs]
    /\ pc = [r \in Requests |-> "idle"]
    /\ gone = {}
    /\ attempt = [r \in Requests |-> 0]
    /\ call = [r \in Requests |-> NoCall]
    /\ ticket = [r \in Requests |-> CB!ZeroTicket]
    /\ err = [r \in Requests |-> "none"]
    /\ joined = [r \in Requests |-> None]
    /\ mode = "healthy" /\ calls = 0
    /\ breaker = [state |-> "closed", consecutiveFailures |-> 0, openAge |-> 0,
                  generation |-> 0, halfOpenProbe |-> FALSE]
    /\ entries = [k \in Keys |-> None]
    /\ outcome = [r \in Requests |-> "open"]
    /\ orders = {}
    /\ counters = ZeroCounters
    /\ resetting = FALSE
    /\ modeChanges = MaxModeChanges /\ resets = MaxResets
    /\ past = {}

(* RLock: a waiting writer keeps new readers out.  Then the request is     *)
(* counted and its input accepted or refused.                              *)
Begin(r) ==
    /\ pc[r] = "idle" /\ ~resetting
    /\ counters' = [counters EXCEPT !.total = @ + 1]
    /\ \/ Goto(r, "enter") /\ UNCHANGED err
       \/ Fail(r, "invalid") /\ Goto(r, "complete")
    /\ UNCHANGED <<request, gone, attempt, call, ticket, joined, depVars, breaker,
                   registryVars, orders, resetVars>>

(* Mutant: the registry is told the same fingerprint for every input. *)
AnySameInput(e, r) == TRUE

SameInput(e, r) == Fingerprint(e) = Fingerprint(r)

(* DoWithFingerprint, first critical section. *)
Enter(r) ==
    LET e == entries[Key(r)]
    IN  /\ pc[r] = "enter"
        /\ \/ /\ e = None
              /\ entries' = [entries EXCEPT ![Key(r)] = r]
              /\ joined' = [joined EXCEPT ![r] = r]
              /\ Goto(r, "before") /\ UNCHANGED err
           \/ /\ e # None /\ SameInput(e, r)
              /\ joined' = [joined EXCEPT ![r] = e]
              /\ Goto(r, "wait") /\ UNCHANGED <<entries, err>>
           \/ /\ e # None /\ ~SameInput(e, r)
              /\ Fail(r, "conflict") /\ Goto(r, "complete") /\ UNCHANGED <<entries, joined>>
        /\ UNCHANGED <<request, gone, attempt, call, ticket, depVars, breaker, outcome,
                       orders, counters, resetVars>>

(* waitForIdempotencyResult: a waiter is given the leader's value or error. *)
Receive(r) ==
    /\ pc[r] = "wait" /\ outcome[joined[r]] # "open"
    /\ Fail(r, err[joined[r]]) /\ Goto(r, "complete")
    /\ UNCHANGED <<request, gone, attempt, call, ticket, joined, depVars, breaker,
                   registryVars, orders, counters, resetVars>>

(* The waiter's own context ends.  A select that prefers it to a ready     *)
(* that was closed in the meantime is the same as leaving just before.     *)
Leave(r) ==
    /\ pc[r] = "wait" /\ outcome[joined[r]] = "open" /\ r \in gone
    /\ Fail(r, "left") /\ Goto(r, "complete")
    /\ UNCHANGED <<request, gone, attempt, call, ticket, joined, depVars, breaker,
                   registryVars, orders, counters, resetVars>>

-----------------------------------------------------------------------------
(* The leader's operation. *)

beforeRequest(r) ==
    LET b == CB!advanceState(breaker)
    IN  /\ pc[r] = "before"
        /\ IF CB!Rejects(b)
           THEN /\ breaker' = b
                /\ Fail(r, "circuit open") /\ Goto(r, "sync") /\ UNCHANGED ticket
           ELSE /\ breaker' = [b EXCEPT !.halfOpenProbe = @ \/ b.state = "half-open"]
                /\ ticket' = [ticket EXCEPT ![r] = CB!TicketOf(b)]
                /\ Goto(r, "attempt") /\ UNCHANGED err
        /\ UNCHANGED <<request, gone, attempt, call, joined, depVars, registryVars,
                       orders, counters, resetVars>>

(* The top of Retry's loop, and the backoff before it: ctx.Err() ends it. *)
GiveUp(r) ==
    /\ pc[r] = "attempt" /\ r \in gone
    /\ Fail(r, "canceled") /\ Goto(r, "after")
    /\ UNCHANGED <<request, gone, attempt, call, ticket, joined, depVars, breaker,
                   registryVars, orders, counters, resetVars>>

(* The dependency is called and reads its mode. *)
Reserve(r) ==
    /\ pc[r] = "attempt" /\ r \notin gone
    /\ calls' = (calls + 1) % 3
    /\ call' = [call EXCEPT ![r] = [mode |-> mode, number |-> calls']]
    /\ Goto(r, "call")
    /\ UNCHANGED <<request, gone, attempt, ticket, err, joined, mode, modeChanges, breaker,
                   registryVars, orders, counters, resetVars>>

(* What Reserve returns: slow exceeds the attempt's 250 ms, and no other   *)
(* mode takes that long.                                                   *)
Reply(c) ==
    CASE c.mode = "slow" -> "deadline"
      [] c.mode = "unavailable" -> "unavailable"
      [] c.mode = "flaky" -> IF c.number = 0 THEN "none" ELSE "unavailable"
      [] c.mode = "healthy" -> "none"

(* Mutant: the attempt just made is not counted. *)
RetriesOnceMore(r, e) == e \notin {"none", "canceled"} /\ attempt[r] < Attempts

Retries(r, e) == e \notin {"none", "canceled"} /\ attempt[r] + 1 < Attempts

(* The call returns; the context's end races the timer. *)
Return(r) ==
    /\ pc[r] = "call"
    /\ \E e \in {Reply(call[r])} \cup (IF r \in gone THEN {"canceled"} ELSE {}) :
          IF Retries(r, e)
          THEN Goto(r, "attempt") /\ UNCHANGED err
          ELSE Goto(r, "after") /\ Fail(r, e)
    /\ attempt' = [attempt EXCEPT ![r] = @ + 1]
    /\ call' = [call EXCEPT ![r] = NoCall]
    /\ UNCHANGED <<request, gone, ticket, joined, depVars, breaker, registryVars,
                   orders, counters, resetVars>>

(* Mutant: a client's cancellation is not reported to the breaker. *)
afterRequestUnlessCanceled(r) ==
    /\ pc[r] = "after"
    /\ breaker' = IF err[r] = "canceled" THEN breaker
                  ELSE CB!AfterRequest(breaker, ticket[r], err[r] = "none")
    /\ Goto(r, "sync")
    /\ ticket' = [ticket EXCEPT ![r] = CB!ZeroTicket]
    /\ attempt' = [attempt EXCEPT ![r] = 0]
    /\ UNCHANGED <<request, gone, call, err, joined, depVars, registryVars,
                   orders, counters, resetVars>>

(* Execute reports any error as a failure, a cancellation too. *)
afterRequest(r) ==
    /\ pc[r] = "after"
    /\ breaker' = CB!AfterRequest(breaker, ticket[r], err[r] = "none")
    /\ Goto(r, "sync")
    /\ ticket' = [ticket EXCEPT ![r] = CB!ZeroTicket]
    /\ attempt' = [attempt EXCEPT ![r] = 0]
    /\ UNCHANGED <<request, gone, call, err, joined, depVars, registryVars,
                   orders, counters, resetVars>>

(* Mutant: the order is saved whatever the dependency said. *)
SavesAlways(r) == TRUE

Saves(r) == err[r] = "none"

(* syncCircuitMetric asks the breaker's State. *)
syncCircuitMetric(r) ==
    /\ pc[r] = "sync"
    /\ breaker' = CB!advanceState(breaker)
    /\ Goto(r, IF Saves(r) THEN "save" ELSE "finish")
    /\ UNCHANGED <<request, gone, attempt, call, ticket, err, joined, depVars, registryVars,
                   orders, counters, resetVars>>

Save(r) ==
    /\ pc[r] = "save"
    /\ orders' = orders \cup {r}
    /\ Goto(r, "finish")
    /\ UNCHANGED <<request, gone, attempt, call, ticket, err, joined, depVars, breaker,
                   registryVars, counters, resetVars>>

(* Mutant: ready is closed only when the operation succeeded. *)
ClosedOnSuccess(r) == IF err[r] = "none" THEN "ok" ELSE "open"

Closed(r) == IF err[r] = "none" THEN "ok" ELSE "error"

(* Mutant: a failed operation keeps its entry. *)
KeepEntry(r) == entries

DeleteFailed(r) == IF err[r] = "none" THEN entries ELSE [entries EXCEPT ![Key(r)] = None]

(* DoWithFingerprint, second critical section. *)
Finish(r) ==
    /\ pc[r] = "finish"
    /\ outcome' = [outcome EXCEPT ![r] = Closed(r)]
    /\ entries' = DeleteFailed(r)
    /\ Goto(r, "complete")
    /\ UNCHANGED <<request, gone, attempt, call, ticket, err, joined, depVars, breaker,
                   orders, counters, resetVars>>

Replayed(r) == joined[r] # r

Counted(r) ==
    IF err[r] # "none" THEN [counters EXCEPT !.failed = @ + 1]
    ELSE IF Replayed(r) THEN [counters EXCEPT !.duplicates = @ + 1]
         ELSE [counters EXCEPT !.succeeded = @ + 1]

(* The HTTP status of an answer.  The leader's errors are wrapped in       *)
(* ErrDependency, its waiters are given them, but a waiter's own           *)
(* cancellation is not and becomes an internal error.                      *)
Status(r) ==
    CASE err[r] = "none" -> IF Replayed(r) THEN 200 ELSE 201
      [] err[r] = "invalid" -> 400
      [] err[r] = "conflict" -> 409
      [] err[r] = "left" -> 500
      [] OTHER -> 503

(* CreateOrder counts its result and returns; RUnlock. *)
Complete(r) ==
    /\ pc[r] = "complete"
    /\ counters' = Counted(r)
    /\ Goto(r, "done")
    /\ gone' = gone \ {r}
    /\ UNCHANGED <<request, attempt, call, ticket, err, joined, depVars, breaker,
                   registryVars, orders, resetVars>>

-----------------------------------------------------------------------------
(* The client disconnects: net/http cancels the request's context, which   *)
(* nothing consults after the dependency's last reply.                     *)
Disconnect(r) ==
    /\ r \notin gone /\ pc[r] \in {"enter", "wait", "before", "attempt", "call"}
    /\ gone' = gone \cup {r}
    /\ UNCHANGED <<request, reqVars, depVars, breaker, registryVars, orders, counters, resetVars>>

SetFaultMode(m) ==
    /\ modeChanges > 0 /\ m # mode
    /\ mode' = m
    /\ modeChanges' = modeChanges - 1
    /\ UNCHANGED <<request, gone, reqVars, calls, breaker, registryVars, orders, counters, resetVars>>

(* Ready and Snapshot ask the breaker's State. *)
State ==
    /\ breaker' = CB!advanceState(breaker)
    /\ UNCHANGED <<request, gone, reqVars, depVars, registryVars, orders, counters, resetVars>>

(* Lock: the writer queues. *)
RequestReset ==
    /\ resets > 0 /\ ~resetting
    /\ resetting' = TRUE
    /\ resets' = resets - 1
    /\ UNCHANGED <<request, gone, reqVars, depVars, breaker, registryVars, orders, counters, past>>

(* Mutant: Reset does not take the lifecycle lock. *)
LockedAlways == TRUE

(* The write side is held when no reader is left. *)
Locked == InFlight = {}

Reset ==
    /\ resetting /\ Locked
    /\ resetting' = FALSE
    /\ orders' = {}
    /\ mode' = "healthy" /\ calls' = 0
    /\ breaker' = CB!ResetBreaker(breaker)
    /\ entries' = [k \in Keys |-> None]
    /\ counters' = ZeroCounters
    /\ past' = {r \in Requests : pc[r] = "done"}
    /\ UNCHANGED <<request, gone, reqVars, outcome, modeChanges, resets>>

(* Only the age of an open circuit is observable. *)
Ageing == breaker.openAge < OpenTimeout /\ breaker.state = "open"

Tick ==
    /\ Ageing
    /\ breaker' = [breaker EXCEPT !.openAge = @ + 1]
    /\ UNCHANGED <<request, gone, reqVars, depVars, registryVars, orders, counters, resetVars>>

Step(r) ==
    \/ Enter(r) \/ Receive(r) \/ Leave(r)
    \/ beforeRequest(r) \/ GiveUp(r) \/ Reserve(r) \/ Return(r) \/ afterRequest(r)
    \/ syncCircuitMetric(r) \/ Save(r) \/ Finish(r) \/ Complete(r)

Next ==
    \/ \E r \in Requests : Begin(r) \/ Step(r) \/ Disconnect(r)
    \/ \E m \in Modes : SetFaultMode(m)
    \/ State \/ RequestReset \/ Reset \/ Tick

(* Goroutines run, the dependency call ends within 250 ms and the lock is  *)
(* granted to a waiting writer when the readers have left.                 *)
Fairness == (\A r \in Requests : WF_vars(Step(r))) /\ WF_vars(Reset)

Spec == Init /\ [][Next]_vars /\ Fairness

-----------------------------------------------------------------------------
(* Type correctness of all parts the service composes: Retry makes at most *)
(* Attempts calls, and every request joins an entry of some request.       *)
TypeOK ==
    /\ request \in [Requests -> Inputs]
    /\ pc \in [Requests -> PCs]
    /\ gone \in SUBSET Requests
    /\ attempt \in [Requests -> 0 .. Attempts]
    /\ call \in [Requests -> [mode : Modes, number : 0 .. 2]]
    /\ ticket \in [Requests -> CB!Tickets]
    /\ err \in [Requests -> Errs]
    /\ joined \in [Requests -> Requests \cup {None}]
    /\ mode \in Modes /\ calls \in 0 .. 2
    /\ breaker \in CB!Breakers
    /\ entries \in [Keys -> Requests \cup {None}]
    /\ outcome \in [Requests -> {"open", "ok", "error"}]
    /\ orders \in SUBSET Requests
    /\ counters \in [DOMAIN ZeroCounters -> Nat]
    /\ resetting \in BOOLEAN
    /\ modeChanges \in 0 .. MaxModeChanges /\ resets \in 0 .. MaxResets
    /\ past \in SUBSET Requests

(* The registry and the store agree, over failures, disconnects and        *)
(* Resets: a key's result is cached exactly when its order is stored, so   *)
(* no key ever has two orders and none is lost to a Reset half-way.        *)
RegistryMatchesStore ==
    /\ \A o \in orders : entries[Key(o)] = o /\ (outcome[o] = "ok" \/ pc[o] = "finish")
    /\ \A k \in Keys : entries[k] # None /\ outcome[entries[k]] = "ok" => entries[k] \in orders

(* A request answered 200 or 201 since the last Reset was given a stored   *)
(* order made for its own key and input, and every stored order is         *)
(* answered 201 exactly once: to the request that saved it.                *)
SuccessNamesStoredOrder ==
    \A r \in Requests \ past : pc[r] = "done" =>
        /\ Status(r) \in {200, 201} =>
              joined[r] \in orders /\ request[joined[r]] = request[r]
        /\ Status(r) = 201 <=> r \in orders

(* What a request was told, in the words of ClaimedOrders. *)
AnswerOf(r) ==
    [kind |-> IF pc[r] \notin {"complete", "done"} THEN "pending"
              ELSE IF Status(r) = 201 THEN "created"
              ELSE IF Status(r) = 200 THEN "replayed"
              ELSE IF Status(r) = 409 THEN "conflict" ELSE "failed",
     order |-> IF pc[r] \in {"complete", "done"} /\ Status(r) \in {200, 201}
               THEN joined[r] ELSE None]

Claimed == INSTANCE ClaimedOrders WITH
             owner <- entries, stored <- orders, answer <- [r \in Requests |-> AnswerOf(r)]

(* CreateOrder as its clients see it, over retries, waiters, disconnects,  *)
(* the circuit and Resets: whoever claims a key ends with its order stored *)
(* and 201, or with an error, nothing stored and the key free again; all   *)
(* others get that order, a conflict with the owner, or an error; an       *)
(* answer never changes, and Reset forgets only what is settled.           *)
ImplementsClaimed == Claimed!Spec

(* The counters of the snapshot add up to the requests they count, over    *)
(* replays, failures and Resets: every request is counted once, and every  *)
(* stored order is one success.  That is said of the counters themselves:  *)
(* Snapshot loads them one by one, while requests go on.                   *)
CountersAddUp ==
    /\ counters.total = counters.succeeded + counters.failed + counters.duplicates
                           + Cardinality(InFlight)
    /\ Cardinality(orders) = counters.succeeded + Cardinality(orders \cap InFlight)

(* A circuit that waits for its probe is waited for by exactly one request *)
(* that is on its way to report: no path through Retry, cancellation       *)
(* included, leaves the probe flag behind.                                 *)
ProbeReports ==
    breaker.halfOpenProbe =>
        Cardinality({r \in Requests : /\ pc[r] \in {"attempt", "call", "after"}
                                      /\ ~CB!Ignores(breaker, ticket[r])}) = 1

(* Reset gets the lock, whenever it asks for it: every request that holds  *)
(* the read side returns, its waiters are released by every exit of their  *)
(* leader, and none waits for a request that a waiting Reset keeps out.    *)
ResetCompletes == resetting ~> ~resetting
=============================================================================
