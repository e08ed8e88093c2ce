---------------------------- MODULE CircuitGauge ----------------------------
(***************************************************************************)
(* The circuit breaker with the gauge northstar_circuit_state that         *)
(* internal/app/service.go keeps of it.  CreateOrder publishes after every *)
(* Execute, Ready and Snapshot whenever they are polled, Reset after the   *)
(* breaker was reset: each reads State() and sets the gauge in a separate  *)
(* step, so a slow publisher may overwrite a newer state with an older     *)
(* one.  The lifecycle lock, which keeps Reset away from calls in flight,  *)
(* is left to OrderService: here Reset comes at any time.                  *)
(***************************************************************************)
EXTENDS CircuitBreaker

VARIABLES
    gauge,      \* metrics.CircuitState
    seen        \* what each publisher is about to set; "due": it has yet to read

gaugeVars == <<gauge, seen>>
allVars == <<vars, gaugeVars>>

Publishers == Callers \cup {"poller", "operator"}

(* Mutant: a closed circuit leaves the gauge alone. *)
ValueUnlessClosed(state) ==
    CASE state = "half-open" -> 1 [] state = "open" -> 2 [] OTHER -> gauge

Value(state) == CASE state = "half-open" -> 1 [] state = "open" -> 2 [] OTHER -> 0

GaugeInit == Init /\ gauge = 0 /\ seen = [p \in Publishers |-> "none"]

Owes(p) == seen' = [seen EXCEPT ![p] = "due"]

(* A caller's Execute; the next one begins when this one's state is set. *)
Admit(c) ==
    /\ seen[c] = "none"
    /\ beforeRequest(c)
    /\ UNCHANGED gaugeVars

Finish(c) ==
    /\ seen[c] = "none"
    /\ Rejected(c) \/ \E success \in BOOLEAN : afterRequest(c, success)
    /\ Owes(c)
    /\ UNCHANGED gauge

OperatorReset ==
    /\ seen["operator"] = "none"
    /\ Reset
    /\ Owes("operator")
    /\ UNCHANGED gauge

ClockTick == Tick /\ UNCHANGED gaugeVars

(* s.breaker.State(): the poller asks whenever it likes. *)
ReadState(p) ==
    /\ seen[p] = IF p = "poller" THEN "none" ELSE "due"
    /\ State
    /\ seen' = [seen EXCEPT ![p] = breaker'.state]
    /\ UNCHANGED gauge

syncCircuitMetricState(p) ==
    /\ seen[p] \in CircuitStates
    /\ gauge' = Value(seen[p])
    /\ seen' = [seen EXCEPT ![p] = "none"]
    /\ UNCHANGED vars

GaugeNext ==
    \/ \E c \in Callers : Admit(c) \/ Finish(c)
    \/ OperatorReset \/ ClockTick
    \/ \E p \in Publishers : ReadState(p) \/ syncCircuitMetricState(p)

(* Calls keep arriving and end, the clock runs, and the probes of the      *)
(* readiness endpoint or the control center's snapshots keep coming.       *)
GaugeFairness ==
    /\ WF_allVars(ClockTick)
    /\ \A c \in Callers : WF_allVars(Admit(c)) /\ WF_allVars(Finish(c))
    /\ \A p \in Publishers : WF_allVars(ReadState(p)) /\ WF_allVars(syncCircuitMetricState(p))

GaugeSpec == GaugeInit /\ [][GaugeNext]_allVars /\ GaugeFairness
-----------------------------------------------------------------------------
(* Once the dependency has healed and while calls keep arriving, the       *)
(* circuit closes for good and the gauge comes to say so and stays there:  *)
(* a publisher that overtakes another with an older state misleads the     *)
(* dashboard only until the next one.                                      *)
GaugeSettles == <>[](breaker.state = "closed" /\ gauge = 0)
=============================================================================
