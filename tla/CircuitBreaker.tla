--------------------------- MODULE CircuitBreaker ---------------------------
(***************************************************************************)
(* The circuit breaker of internal/reliability/breaker.go.                 *)
(*                                                                         *)
(* A caller's Execute is three steps: beforeRequest takes a ticket (or is  *)
(* rejected), the protected operation runs outside the mutex, and          *)
(* afterRequest reports its outcome with the ticket.  beforeRequest,       *)
(* afterRequest, State and Reset each hold the mutex from start to end and *)
(* are one action each; everything else may happen between a caller's      *)
(* beforeRequest and afterRequest.                                         *)
(*                                                                         *)
(* Time: the code only compares now - openedAt with OpenTimeout, so the    *)
(* model keeps that difference, saturated at OpenTimeout, as openAge.      *)
(* The clock is the monotonic one of time.Now.                             *)
(***************************************************************************)
EXTENDS Integers, FiniteSets

CONSTANTS
    Callers,            \* goroutines that call Execute
    FailureThreshold,   \* BreakerConfig.FailureThreshold
    OpenTimeout,        \* BreakerConfig.OpenTimeout, in clock ticks
    MaxFaults,          \* bound: operations that fail in one behaviour
    MaxResets           \* bound: calls of Reset in one behaviour

(* NewCircuitBreaker panics on any other configuration. *)
ASSUME ConfigAssumption ==
    /\ FailureThreshold \in Nat \ {0}
    /\ OpenTimeout \in Nat \ {0}

ASSUME BoundAssumption == MaxFaults \in Nat /\ MaxResets \in Nat

VARIABLES
    breaker,    \* the fields of CircuitBreaker that the mutex protects
    ticket,     \* ticket[c]: the breakerTicket caller c holds while it runs
    running,    \* callers between beforeRequest and afterRequest
    faults,     \* failures the environment may still produce
    resets,     \* Resets the operator may still perform
    \* History, read by the properties only.
    stale,      \* running callers admitted before the last transition or Reset
    streak,     \* failures of non-stale calls since the last success of one
    cooldown    \* ticks until an opened circuit may admit a call again

vars == <<breaker, ticket, running, faults, resets, stale, streak, cooldown>>

CircuitStates == {"closed", "open", "half-open"}

Tickets == [state : CircuitStates, generation : Nat]

Breakers == [state : CircuitStates,
             consecutiveFailures : 0 .. FailureThreshold - 1,
             openAge : 0 .. OpenTimeout, generation : Nat,
             halfOpenProbe : BOOLEAN]

(* The zero breakerTicket: what a caller holds outside Execute. *)
ZeroTicket == [state |-> "closed", generation |-> 0]

-----------------------------------------------------------------------------
(* The unexported helpers, as functions of the breaker's fields. *)

(* Mutant: reopening keeps the old openedAt. *)
openKeepingOpenedAt(b) ==
    [state |-> "open", consecutiveFailures |-> 0, openAge |-> b.openAge,
     generation |-> b.generation + 1, halfOpenProbe |-> FALSE]

open(b) ==
    [state |-> "open", consecutiveFailures |-> 0, openAge |-> 0,
     generation |-> b.generation + 1, halfOpenProbe |-> FALSE]

Due(b) == b.state = "open" /\ b.openAge >= OpenTimeout

advanceState(b) ==
    IF Due(b)
    THEN [state |-> "half-open", consecutiveFailures |-> b.consecutiveFailures,
          openAge |-> b.openAge, generation |-> b.generation + 1,
          halfOpenProbe |-> FALSE]
    ELSE b

(* Mutant: half-open admits without looking at the probe flag. *)
RejectsOpenOnly(b) == b.state = "open"

(* The test of beforeRequest, after advanceState. *)
Rejects(b) == b.state = "open" \/ (b.state = "half-open" /\ b.halfOpenProbe)

TicketOf(b) == [state |-> b.state, generation |-> b.generation]

(* Mutant: tickets are matched by state alone. *)
IgnoresByState(b, t) == t.state # b.state

(* The early return of afterRequest. *)
Ignores(b, t) == t.generation # b.generation \/ t.state # b.state

Succeed(b) ==
    IF b.state = "half-open"
    THEN [state |-> "closed", consecutiveFailures |-> 0, openAge |-> b.openAge,
          generation |-> b.generation + 1, halfOpenProbe |-> FALSE]
    ELSE [b EXCEPT !.consecutiveFailures = 0]

(* Mutant: > instead of >= in the threshold test. *)
FailPastThreshold(b) ==
    IF \/ b.state = "half-open"
       \/ b.consecutiveFailures + 1 > FailureThreshold
    THEN open(b)
    ELSE [b EXCEPT !.consecutiveFailures = @ + 1]

Fail(b) ==
    IF \/ b.state = "half-open"
       \/ b.consecutiveFailures + 1 >= FailureThreshold
    THEN open(b)
    ELSE [b EXCEPT !.consecutiveFailures = @ + 1]

AfterRequest(b, t, success) ==
    IF Ignores(b, t) THEN b ELSE IF success THEN Succeed(b) ELSE Fail(b)

(* Mutant: Reset forgets the generation. *)
ResetBreakerKeepingGeneration(b) ==
    [state |-> "closed", consecutiveFailures |-> 0, openAge |-> 0,
     generation |-> b.generation, halfOpenProbe |-> FALSE]

ResetBreaker(b) ==
    [state |-> "closed", consecutiveFailures |-> 0, openAge |-> 0,
     generation |-> b.generation + 1, halfOpenProbe |-> FALSE]

-----------------------------------------------------------------------------
Init ==
    /\ breaker = [state |-> "closed", consecutiveFailures |-> 0,
                  openAge |-> 0, generation |-> 0, halfOpenProbe |-> FALSE]
    /\ ticket = [c \in Callers |-> ZeroTicket]
    /\ running = {}
    /\ faults = MaxFaults
    /\ resets = MaxResets
    /\ stale = {}
    /\ streak = 0
    /\ cooldown = 0

(* History of a step that changes the circuit's state: every caller still  *)
(* running was admitted before it, and an opening starts the cool-down.    *)
Observe ==
    LET moved == breaker'.state # breaker.state
        opened == moved /\ breaker'.state = "open"
    IN  /\ stale' = IF moved THEN running \cap running' ELSE stale \cap running'
        /\ cooldown' = IF opened THEN OpenTimeout ELSE cooldown

(* Execute's first half: the call is admitted with a ticket. *)
beforeRequest(c) ==
    LET b == advanceState(breaker)
    IN  /\ c \notin running
        /\ ~Rejects(b)
        /\ breaker' = [b EXCEPT !.halfOpenProbe = @ \/ b.state = "half-open"]
        /\ ticket' = [ticket EXCEPT ![c] = TicketOf(b)]
        /\ running' = running \cup {c}
        /\ streak' = IF Due(breaker) THEN 0 ELSE streak
        /\ UNCHANGED <<faults, resets>>
        /\ Observe

(* Execute returns ErrCircuitOpen.  advanceState ran, but had it moved the *)
(* circuit to half-open the call would have been admitted as the probe.    *)
Rejected(c) ==
    /\ c \notin running
    /\ Rejects(advanceState(breaker))
    /\ breaker' = advanceState(breaker)
    /\ UNCHANGED <<ticket, running, faults, resets, stale, streak, cooldown>>

(* Execute's second half: the operation returned and reports its outcome.  *)
afterRequest(c, success) ==
    /\ c \in running
    /\ success \/ faults > 0
    /\ breaker' = AfterRequest(breaker, ticket[c], success)
    /\ ticket' = [ticket EXCEPT ![c] = ZeroTicket]
    /\ running' = running \ {c}
    /\ faults' = IF success THEN faults ELSE faults - 1
    /\ streak' = IF c \in stale THEN streak
                 ELSE IF success THEN 0 ELSE streak + 1
    /\ UNCHANGED resets
    /\ Observe

(* State(), read by readiness, the snapshot and the circuit gauge. *)
State ==
    /\ breaker' = advanceState(breaker)
    /\ streak' = IF Due(breaker) THEN 0 ELSE streak
    /\ UNCHANGED <<ticket, running, faults, resets>>
    /\ Observe

Reset ==
    /\ resets > 0
    /\ resets' = resets - 1
    /\ breaker' = ResetBreaker(breaker)
    /\ stale' = running
    /\ streak' = 0
    /\ cooldown' = 0
    /\ UNCHANGED <<ticket, running, faults>>

(* One clock tick; only the age of an open circuit is observable. *)
Tick ==
    /\ breaker.openAge < OpenTimeout /\ breaker.state = "open"
    /\ breaker' = [breaker EXCEPT !.openAge = @ + 1]
    /\ cooldown' = IF cooldown > 0 THEN cooldown - 1 ELSE 0
    /\ UNCHANGED <<ticket, running, faults, resets, stale, streak>>

Next ==
    \/ \E c \in Callers :
          \/ beforeRequest(c)
          \/ Rejected(c)
          \/ \E success \in BOOLEAN : afterRequest(c, success)
    \/ State
    \/ Reset
    \/ Tick

(* An admitted operation always returns: the service bounds it by three    *)
(* attempts of 250 ms each.  The clock always advances.                    *)
Fairness ==
    /\ WF_vars(Tick)
    /\ \A c \in Callers : WF_vars(\E success \in BOOLEAN : afterRequest(c, success))

Spec == Init /\ [][Next]_vars /\ Fairness

-----------------------------------------------------------------------------
(* Type correctness.  A closed circuit counts fewer failures than          *)
(* FailureThreshold, and the cool-down never exceeds OpenTimeout.          *)
TypeOK ==
    /\ breaker \in Breakers
    /\ ticket \in [Callers -> Tickets]
    /\ running \in SUBSET Callers
    /\ faults \in 0 .. MaxFaults
    /\ resets \in 0 .. MaxResets
    /\ stale \in SUBSET running
    /\ streak \in Nat
    /\ cooldown \in 0 .. OpenTimeout

Fresh(c) == ~Ignores(breaker, ticket[c])

(* A ticket is honoured exactly when the circuit made no transition and no *)
(* Reset happened since the call was admitted: the generation test of      *)
(* afterRequest neither accepts a stale outcome nor drops a current one.   *)
TicketsExpireWithTransitions ==
    \A c \in running : Fresh(c) <=> c \notin stale

(* In the half-open state the probe flag stands for exactly one running    *)
(* call whose outcome will be honoured: two probes never run at once, and  *)
(* the flag is never left behind by a call that can no longer clear it,    *)
(* which would reject every request until an operator's Reset.             *)
ProbeFlagHasOneOwner ==
    /\ breaker.halfOpenProbe => breaker.state = "half-open"
    /\ breaker.state = "half-open" =>
          Cardinality({c \in running : Fresh(c)})
             = IF breaker.halfOpenProbe THEN 1 ELSE 0

(* A closed circuit opens only in the step in which the FailureThreshold-th *)
(* current call in a row fails: outcomes of calls admitted before a Reset   *)
(* or an earlier opening never count, and one success restarts the count.   *)
OpensOnlyOnThreshold ==
    [][breaker.state = "closed" /\ breaker'.state = "open"
         => streak' = FailureThreshold]_vars

(* From an opening until OpenTimeout has passed no call is admitted; a      *)
(* failed probe starts the wait again from the beginning.                   *)
CoolsDownBeforeAdmitting ==
    [][running' \subseteq running \/ cooldown = 0]_vars
=============================================================================
