------------------------------- MODULE Replay -------------------------------
(***************************************************************************)
(* The replay command, cmd/replay/main.go, run against the lab's order     *)
(* service: it resets the demo, sends concurrent requests with one key,    *)
(* drives the circuit open and waits for its recovery, and reads the event *)
(* that follows a known one from the stream.                               *)
(*                                                                         *)
(* The server is OrderService, in whatever state an earlier user left it:  *)
(* a fault mode, an open circuit, a request in flight.  The command has    *)
(* the server to itself afterwards, except for polls of the snapshot; its  *)
(* requests are well-formed and fewer than the rate limiter's burst.  Time *)
(* matters where the command sleeps: everything else takes far less than   *)
(* OpenTimeout.                                                            *)
(***************************************************************************)
EXTENDS OrderService, Sequences

CONSTANTS
    Earlier,            \* requests of an earlier user
    Concurrent,         \* the requests with one key (12 in the code)
    Outages,            \* the requests sent during the outage (4 in the code)
    Recovery, First, Second,
    SleepTicks          \* the 4.2 s the command sleeps

ASSUME ReplayAssumption ==
    /\ Requests = Earlier \cup Concurrent \cup Outages \cup {Recovery, First, Second}
    /\ Concurrent # {} /\ Cardinality(Outages) >= FailureThreshold
    /\ SleepTicks \in Nat /\ SleepTicks >= OpenTimeout

VARIABLES
    at,         \* where the command is
    before,     \* circuit_state of the snapshot taken during the outage
    slept,
    failed,     \* scenarios reported as FAIL
    log         \* the store's events, named after their orders

clientVars == <<at, before, slept, failed>>
allVars == <<vars, clientVars, log>>

Scenarios == {"concurrent-idempotency", "dependency-recovery", "websocket-gap-replay"}

(* Every createOrder of the command uses a key of its own, but for the     *)
(* concurrent ones.                                                        *)
ReplayKey(r) == IF r \in Concurrent THEN CHOOSE c \in Concurrent : TRUE ELSE r

ReplayInput(r) == [key |-> ReplayKey(r), fingerprint |-> "event-replay-suite"]
ReplayInputs == {ReplayInput(r) : r \in Requests}

ReplayInit ==
    /\ request = [r \in Requests |-> ReplayInput(r)]
    /\ Init
    /\ at = "start" /\ before = "closed" /\ slept = 0 /\ failed = {}
    /\ log = <<>>

Command(next) == at' = next /\ UNCHANGED log

(* The scenario's verdict; the next scenario runs whatever it is. *)
Report(scenario, passed, next) ==
    /\ failed' = IF passed THEN failed ELSE failed \cup {scenario}
    /\ Command(next)
    /\ UNCHANGED <<before, slept>>

createOrder(r) == Begin(r) /\ pc'[r] = "enter" /\ UNCHANGED <<clientVars, log>>

setMode(m, next) ==
    /\ SetFaultMode(m) \/ (mode = m /\ UNCHANGED vars)
    /\ Command(next)
    /\ UNCHANGED <<before, slept, failed>>

Done(R) == \A r \in R : pc[r] = "done"
Succeeded(R) == \A r \in R : err[r] = "none"

-----------------------------------------------------------------------------
(* What happened before, and what may happen meanwhile. *)
EarlierUse ==
    /\ at = "start"
    /\ \/ \E r \in Earlier : createOrder(r)
       \/ /\ modeChanges > 2
          /\ \E m \in Modes : SetFaultMode(m)
          /\ UNCHANGED <<clientVars, log>>

Poll == State /\ UNCHANGED <<clientVars, log>>

(* main: the reset is answered when the service has been reset. *)
ResetDemo ==
    \/ at = "start" /\ RequestReset /\ Command("resetting") /\ UNCHANGED <<before, slept, failed>>
    \/ /\ at = "resetting" /\ ~resetting /\ Command("idempotency")
       /\ UNCHANGED <<vars, before, slept, failed>>

(* One order id, and every response but one is a replay. *)
idempotencyScenario ==
    \/ at = "idempotency" /\ setMode("healthy", "concurrent")
    \/ at = "concurrent" /\ \E r \in Concurrent : createOrder(r)
    \/ /\ at = "concurrent" /\ Done(Concurrent)
       /\ Report("concurrent-idempotency",
                 /\ Succeeded(Concurrent)
                 /\ Cardinality({joined[r] : r \in Concurrent}) = 1
                 /\ Cardinality({r \in Concurrent : Replayed(r)}) = Cardinality(Concurrent) - 1,
                 "fault")
       /\ UNCHANGED vars

(* Mutant: the command does not wait for the cool-down. *)
AwakeAtOnce == TRUE

Awake == slept = SleepTicks

Sleep ==
    /\ at = "sleep" /\ slept < SleepTicks
    /\ slept' = slept + 1
    /\ Tick \/ (~Ageing /\ UNCHANGED vars)
    /\ UNCHANGED <<at, before, failed, log>>

recoveryScenario ==
    \/ at = "fault" /\ setMode("unavailable", "outage")
    \/ /\ at = "outage" /\ Outages \cap InFlight = {}
       /\ \E r \in Outages : createOrder(r)
    \/ /\ at = "outage" /\ Done(Outages)             \* the snapshot
       /\ State /\ before' = breaker'.state
       /\ Command("heal") /\ UNCHANGED <<slept, failed>>
    \/ at = "heal" /\ setMode("healthy", "sleep")
    \/ Sleep
    \/ /\ at = "sleep" /\ Awake
       /\ Command("recovery") /\ UNCHANGED <<vars, before, slept, failed>>
    \/ at = "recovery" /\ createOrder(Recovery)
    \/ /\ at = "recovery" /\ Done({Recovery})
       /\ Report("dependency-recovery", Succeeded({Recovery}) /\ before = "open", "websocket")
       /\ UNCHANGED vars

(* The first event the stream sends after the given order's. *)
EventAfter(o) == log[1 + CHOOSE i \in DOMAIN log : log[i] = o]

websocketScenario ==
    \/ at = "websocket" /\ createOrder(First)
    \/ /\ at = "websocket" /\ Done({First}) /\ Succeeded({First})
       /\ createOrder(Second)
    \/ /\ at = "websocket" /\ Done({First})
       /\ Succeeded({First}) => Done({Second})
       /\ Report("websocket-gap-replay",
                 Succeeded({First, Second}) /\ EventAfter(First) = Second, "finished")
       /\ UNCHANGED vars

(* store.Save appends the event with the order. *)
Serve ==
    /\ Reset \/ \E r \in Requests : Step(r)
    /\ log' = IF orders' \subseteq orders THEN log
              ELSE Append(log, CHOOSE o \in orders' \ orders : TRUE)
    /\ UNCHANGED clientVars

Replay == ResetDemo \/ idempotencyScenario \/ recoveryScenario \/ websocketScenario

ReplayNext == EarlierUse \/ Poll \/ Replay \/ Serve

(* The command runs, and the server serves. *)
ReplaySpec ==
    /\ ReplayInit /\ [][ReplayNext]_allVars
    /\ WF_allVars(Replay) /\ WF_allVars(Serve)
-----------------------------------------------------------------------------
(* The command ends and reports PASS for every scenario, whatever state    *)
(* the server was in before and however the concurrent requests are        *)
(* interleaved: they converge on one order, the outage opens the circuit,  *)
(* the sleep outlasts the cool-down, and the stream resumes at the next    *)
(* event.                                                                  *)
EveryScenarioPasses == <>(at = "finished" /\ failed = {})
=============================================================================
