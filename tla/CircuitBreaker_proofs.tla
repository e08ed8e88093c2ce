----------------------- MODULE CircuitBreaker_proofs -----------------------
(***************************************************************************)
(* Proofs about CircuitBreaker for every set of callers, threshold,        *)
(* timeout and bound.                                                      *)
(***************************************************************************)
EXTENDS CircuitBreaker, FiniteSetTheorems, TLAPS

(* The part of the inductive invariant about tickets: generations only     *)
(* grow, and a running call is stale exactly when its generation is old;   *)
(* within one generation the state does not change.                        *)
TicketInv ==
    \A c \in running :
        /\ ticket[c].generation <= breaker.generation
        /\ c \notin stale <=> ticket[c].generation = breaker.generation
        /\ c \notin stale => ticket[c].state = breaker.state

(* The part about the probe: who may be running with a current ticket in   *)
(* the half-open state.                                                    *)
ProbeInv ==
    /\ breaker.halfOpenProbe => breaker.state = "half-open"
    /\ breaker.state = "half-open" =>
          /\ breaker.halfOpenProbe => \E c \in running : c \notin stale
          /\ ~breaker.halfOpenProbe => running \subseteq stale
          /\ \A c, d \in running \ stale : c = d

(* No running call holds a current ticket of an open circuit. *)
OpenInv == breaker.state = "open" => running \subseteq stale

(* The part about counting: the code's counter is the streak of current    *)
(* failures.                                                               *)
CountInv == breaker.state = "closed" => breaker.consecutiveFailures = streak

(* The part about time: the cool-down is what is left of OpenTimeout. *)
CoolDownInv ==
    cooldown > 0 =>
        /\ breaker.state = "open"
        /\ cooldown + breaker.openAge <= OpenTimeout

(* The inductive invariant: TypeOK and the five parts above. *)
IndInv ==
    TypeOK /\ TicketInv /\ ProbeInv /\ OpenInv /\ CountInv /\ CoolDownInv

(* A new breaker satisfies the inductive invariant. *)
LEMMA InitEstablishes == Init => IndInv
<1> SUFFICES ASSUME Init PROVE IndInv
  OBVIOUS
<1>1. breaker \in Breakers
  BY ConfigAssumption DEF Init, Breakers, CircuitStates
<1>2. TypeOK
  BY <1>1, ConfigAssumption, BoundAssumption
  DEF Init, TypeOK, CircuitStates, Tickets, ZeroTicket
<1>3. TicketInv /\ ProbeInv /\ OpenInv /\ CountInv /\ CoolDownInv
  BY ConfigAssumption DEF Init, TicketInv, ProbeInv, OpenInv, CountInv, CoolDownInv
<1> QED BY <1>2, <1>3 DEF IndInv

(* What the helpers of the source do to each field. *)
LEMMA AdvanceFacts ==
  ASSUME NEW b \in Breakers
  PROVE  /\ advanceState(b) \in Breakers
         /\ advanceState(b).openAge = b.openAge
         /\ advanceState(b).consecutiveFailures = b.consecutiveFailures
         /\ ~Due(b) => advanceState(b) = b
         /\ Due(b) => /\ advanceState(b).state = "half-open"
                      /\ advanceState(b).halfOpenProbe = FALSE
                      /\ advanceState(b).generation = b.generation + 1
  BY DEF advanceState, Due, Breakers, CircuitStates

(* open starts the cool-down and a new generation. *)
LEMMA OpenFacts ==
  ASSUME NEW b \in Breakers
  PROVE  /\ open(b) \in Breakers
         /\ open(b).state = "open"
         /\ open(b).openAge = 0
         /\ open(b).halfOpenProbe = FALSE
         /\ open(b).generation = b.generation + 1
  BY ConfigAssumption DEF open, Breakers, CircuitStates

(* A success clears the count; from half-open it also closes the circuit. *)
LEMMA SucceedFacts ==
  ASSUME NEW b \in Breakers
  PROVE  /\ Succeed(b) \in Breakers
         /\ Succeed(b).consecutiveFailures = 0
         /\ Succeed(b).openAge = b.openAge
         /\ b.state # "half-open" =>
               /\ Succeed(b).state = b.state
               /\ Succeed(b).halfOpenProbe = b.halfOpenProbe
               /\ Succeed(b).generation = b.generation
         /\ b.state = "half-open" =>
               /\ Succeed(b).state = "closed"
               /\ Succeed(b).halfOpenProbe = FALSE
               /\ Succeed(b).generation = b.generation + 1
<1>1. CASE b.state = "half-open"
  BY <1>1, ConfigAssumption DEF Succeed, Breakers, CircuitStates
<1>2. CASE b.state # "half-open"
  BY <1>2, ConfigAssumption DEF Succeed, Breakers, CircuitStates
<1> QED BY <1>1, <1>2

(* A failure opens the circuit from half-open or at the threshold, and is
   counted otherwise. *)
LEMMA FailFacts ==
  ASSUME NEW b \in Breakers
  PROVE  /\ Fail(b) \in Breakers
         /\ (b.state = "half-open" \/ b.consecutiveFailures + 1 >= FailureThreshold)
               => Fail(b) = open(b)
         /\ b.state # "half-open" /\ b.consecutiveFailures + 1 < FailureThreshold =>
               /\ Fail(b).state = b.state
               /\ Fail(b).consecutiveFailures = b.consecutiveFailures + 1
               /\ Fail(b).openAge = b.openAge
               /\ Fail(b).halfOpenProbe = b.halfOpenProbe
               /\ Fail(b).generation = b.generation
<1>1. CASE b.state = "half-open" \/ b.consecutiveFailures + 1 >= FailureThreshold
  <2>1. Fail(b) = open(b)
    BY <1>1 DEF Fail
  <2>2. b.consecutiveFailures \in Nat
    BY ConfigAssumption DEF Breakers
  <2>3. Fail(b) \in Breakers
    BY <2>1, OpenFacts
  <2>4. ~(b.state # "half-open" /\ b.consecutiveFailures + 1 < FailureThreshold)
    BY <1>1, <2>2, ConfigAssumption
  <2> QED BY <2>1, <2>3, <2>4
<1>2. CASE ~(b.state = "half-open" \/ b.consecutiveFailures + 1 >= FailureThreshold)
  BY <1>2, ConfigAssumption DEF Fail, Breakers
<1> QED BY <1>1, <1>2

(* Reset closes the circuit in a new generation. *)
LEMMA ResetFacts ==
  ASSUME NEW b \in Breakers
  PROVE  /\ ResetBreaker(b) \in Breakers
         /\ ResetBreaker(b).state = "closed"
         /\ ResetBreaker(b).consecutiveFailures = 0
         /\ ResetBreaker(b).halfOpenProbe = FALSE
         /\ ResetBreaker(b).generation = b.generation + 1
  BY ConfigAssumption DEF ResetBreaker, Breakers, CircuitStates

(* Every step of every caller, of the operator and of the clock keeps the
   inductive invariant. *)
LEMMA StepPreserves == IndInv /\ [Next]_vars => IndInv'
<1> SUFFICES ASSUME IndInv, [Next]_vars PROVE IndInv'
  OBVIOUS
<1> USE ConfigAssumption, BoundAssumption
<1> /\ breaker \in Breakers
    /\ breaker.generation \in Nat
    /\ breaker.consecutiveFailures \in Nat
    /\ breaker.openAge \in 0 .. OpenTimeout
    /\ breaker.state \in CircuitStates
    /\ \A c \in running : ticket[c].generation \in Nat
  BY DEF IndInv, TypeOK, Breakers, Tickets
<1>1. ASSUME NEW c \in Callers, beforeRequest(c) PROVE IndInv'
  <2> DEFINE b == advanceState(breaker)
  <2>1. /\ b \in Breakers
        /\ breaker' = [b EXCEPT !.halfOpenProbe = @ \/ b.state = "half-open"]
        /\ b.state # "open"
        /\ b.state = "half-open" => ~b.halfOpenProbe
    BY <1>1, AdvanceFacts DEF beforeRequest, Rejects
  <2>2. /\ breaker' \in Breakers
        /\ breaker'.state = b.state
        /\ breaker'.openAge = breaker.openAge
        /\ breaker'.consecutiveFailures = breaker.consecutiveFailures
        /\ breaker'.generation = b.generation
        /\ breaker'.halfOpenProbe = (b.halfOpenProbe \/ b.state = "half-open")
    BY <2>1, AdvanceFacts DEF Breakers
  <2>3. TicketOf(b) \in Tickets
    BY <2>1 DEF TicketOf, Tickets, Breakers
  <2>4. /\ ticket'[c].generation = b.generation
        /\ ticket'[c].state = b.state
        /\ \A d \in running : d # c /\ ticket'[d] = ticket[d]
        /\ running' = running \cup {c}
        /\ c \notin running
    BY <1>1 DEF beforeRequest, TicketOf, IndInv, TypeOK
  <2>7. /\ ticket' \in [Callers -> Tickets]
        /\ running' \in SUBSET Callers /\ running \subseteq running'
        /\ streak' \in Nat
        /\ UNCHANGED <<faults, resets>>
    BY <1>1, <2>3 DEF beforeRequest, IndInv, TypeOK
  <2> HIDE DEF b
  <2>5. CASE Due(breaker)
    <3>1. /\ b.state = "half-open"
          /\ b.generation = breaker.generation + 1
          /\ breaker.state = "open"
          /\ breaker.openAge >= OpenTimeout
      BY <2>5, AdvanceFacts DEF b, Due
    <3>2. stale' = running /\ cooldown' = cooldown
      BY <3>1, <2>2, <2>4, <1>1 DEF beforeRequest, Observe, IndInv, TypeOK
    <3>3. TypeOK'
      BY <2>2, <2>7, <3>2 DEF IndInv, TypeOK
    <3>4. TicketInv'
      BY <2>2, <2>4, <3>1, <3>2 DEF IndInv, TicketInv
    <3>5. ProbeInv' /\ OpenInv'
      BY <2>2, <2>4, <3>1, <3>2 DEF IndInv, ProbeInv, OpenInv
    <3>6. CountInv' /\ CoolDownInv'
      BY <2>2, <3>1, <3>2 DEF IndInv, TypeOK, CountInv, CoolDownInv, Breakers
    <3> QED BY <3>3, <3>4, <3>5, <3>6 DEF IndInv
  <2>6. CASE ~Due(breaker)
    <3>1. b = breaker
      BY <2>6, AdvanceFacts DEF b
    <3>2. stale' = stale /\ cooldown' = cooldown /\ streak' = streak
      BY <3>1, <2>2, <2>4, <2>6, <1>1 DEF beforeRequest, Observe, IndInv, TypeOK
    <3>3. TypeOK'
      BY <2>2, <2>7, <3>2 DEF IndInv, TypeOK
    <3>4. TicketInv'
      BY <2>2, <2>4, <3>1, <3>2 DEF IndInv, TypeOK, TicketInv
    <3>5. ProbeInv' /\ OpenInv'
      BY <2>1, <2>2, <2>4, <3>1, <3>2 DEF IndInv, TypeOK, ProbeInv, OpenInv
    <3>6. CountInv' /\ CoolDownInv'
      BY <2>2, <3>1, <3>2 DEF IndInv, CountInv, CoolDownInv
    <3> QED BY <3>3, <3>4, <3>5, <3>6 DEF IndInv
  <2> QED BY <2>5, <2>6
<1>2. ASSUME NEW c \in Callers, Rejected(c) PROVE IndInv'
  <2>1. ~Due(breaker)
    BY <1>2, AdvanceFacts DEF Rejected, Rejects
  <2>2. UNCHANGED vars
    BY <1>2, <2>1, AdvanceFacts DEF Rejected, vars
  <2> QED
    BY <2>2 DEF vars, IndInv, TypeOK, TicketInv, ProbeInv, OpenInv, CountInv, CoolDownInv
<1>3. ASSUME NEW c \in Callers, NEW success \in BOOLEAN, afterRequest(c, success)
      PROVE IndInv'
  <2>1. /\ c \in running
        /\ running' = running \ {c}
        /\ \A d \in running' : d # c /\ ticket'[d] = ticket[d]
        /\ ZeroTicket \in Tickets
        /\ ticket' \in [Callers -> Tickets]
        /\ faults' \in 0 .. MaxFaults
        /\ resets' \in 0 .. MaxResets
        /\ streak' \in Nat
    BY <1>3 DEF afterRequest, ZeroTicket, Tickets, CircuitStates, IndInv, TypeOK
  <2>2. CASE Ignores(breaker, ticket[c])
    <3>1. breaker' = breaker /\ stale' = stale \ {c} /\ cooldown' = cooldown
      BY <1>3, <2>2, <2>1 DEF afterRequest, AfterRequest, Observe, IndInv, TypeOK
    <3>2. c \in stale /\ streak' = streak
      BY <1>3, <2>1, <2>2 DEF afterRequest, Ignores, IndInv, TicketInv
    <3>3. TypeOK'
      BY <2>1, <3>1, <3>2 DEF IndInv, TypeOK
    <3>4. TicketInv' /\ ProbeInv' /\ OpenInv'
      BY <2>1, <3>1, <3>2 DEF IndInv, TicketInv, ProbeInv, OpenInv
    <3>5. CountInv' /\ CoolDownInv'
      BY <3>1, <3>2 DEF IndInv, CountInv, CoolDownInv
    <3> QED BY <3>3, <3>4, <3>5 DEF IndInv
  <2>3. CASE ~Ignores(breaker, ticket[c])
    <3>1. c \notin stale
      BY <2>1, <2>3 DEF Ignores, IndInv, TicketInv
    <3>2. CASE success /\ breaker.state = "half-open"
      <4>1. /\ breaker' \in Breakers
            /\ breaker'.state = "closed"
            /\ breaker'.consecutiveFailures = 0
            /\ breaker'.halfOpenProbe = FALSE
            /\ breaker'.generation = breaker.generation + 1
        BY <1>3, <2>3, <3>2, SucceedFacts DEF afterRequest, AfterRequest
      <4>2. stale' = running' /\ cooldown' = cooldown /\ streak' = 0
        BY <1>3, <2>1, <3>1, <3>2, <4>1 DEF afterRequest, Observe
      <4>3. TypeOK'
        BY <2>1, <4>1, <4>2 DEF IndInv, TypeOK
      <4>4. TicketInv' /\ ProbeInv' /\ OpenInv'
        BY <2>1, <4>1, <4>2 DEF IndInv, TicketInv, ProbeInv, OpenInv
      <4>5. CountInv' /\ CoolDownInv'
        BY <3>2, <4>1, <4>2 DEF IndInv, CountInv, CoolDownInv
      <4> QED BY <4>3, <4>4, <4>5 DEF IndInv
    <3>3. CASE success /\ breaker.state # "half-open"
      <4>1. /\ breaker' \in Breakers
            /\ breaker'.state = breaker.state
            /\ breaker'.consecutiveFailures = 0
            /\ breaker'.openAge = breaker.openAge
            /\ breaker'.halfOpenProbe = breaker.halfOpenProbe
            /\ breaker'.generation = breaker.generation
        BY <1>3, <2>3, <3>3, SucceedFacts DEF afterRequest, AfterRequest
      <4>2. stale' = stale /\ cooldown' = cooldown /\ streak' = 0
        BY <1>3, <2>1, <3>1, <3>3, <4>1 DEF afterRequest, Observe, IndInv, TypeOK
      <4>3. TypeOK'
        BY <2>1, <3>1, <4>1, <4>2 DEF IndInv, TypeOK
      <4>4. TicketInv' /\ ProbeInv' /\ OpenInv'
        BY <2>1, <3>3, <4>1, <4>2 DEF IndInv, TicketInv, ProbeInv, OpenInv
      <4>5. CountInv' /\ CoolDownInv'
        BY <4>1, <4>2 DEF IndInv, CountInv, CoolDownInv
      <4> QED BY <4>3, <4>4, <4>5 DEF IndInv
    <3>4. CASE ~success /\ (\/ breaker.state = "half-open"
                            \/ breaker.consecutiveFailures + 1 >= FailureThreshold)
      <4>1. /\ breaker' \in Breakers
            /\ breaker'.state = "open"
            /\ breaker'.openAge = 0
            /\ breaker'.halfOpenProbe = FALSE
            /\ breaker'.generation = breaker.generation + 1
        <5>1. breaker' = open(breaker)
          BY <1>3, <2>3, <3>4, FailFacts DEF afterRequest, AfterRequest
        <5> QED BY <5>1, OpenFacts
      <4>2. breaker.state # "open"
        BY <2>1, <3>1 DEF IndInv, OpenInv
      <4>3. stale' = running' /\ cooldown' = OpenTimeout
        BY <1>3, <2>1, <3>4, <4>1, <4>2 DEF afterRequest, Observe
      <4>4. TypeOK'
        BY <2>1, <4>1, <4>3 DEF IndInv, TypeOK
      <4>5. TicketInv' /\ ProbeInv' /\ OpenInv'
        BY <2>1, <4>1, <4>3 DEF IndInv, TicketInv, ProbeInv, OpenInv
      <4>6. CountInv' /\ CoolDownInv'
        BY <4>1, <4>3 DEF CountInv, CoolDownInv
      <4> QED BY <4>4, <4>5, <4>6 DEF IndInv
    <3>5. CASE ~success /\ ~(\/ breaker.state = "half-open"
                             \/ breaker.consecutiveFailures + 1 >= FailureThreshold)
      <4>1. /\ breaker' \in Breakers
            /\ breaker'.state = breaker.state
            /\ breaker'.consecutiveFailures = breaker.consecutiveFailures + 1
            /\ breaker'.openAge = breaker.openAge
            /\ breaker'.halfOpenProbe = breaker.halfOpenProbe
            /\ breaker'.generation = breaker.generation
        BY <1>3, <2>3, <3>5, FailFacts DEF afterRequest, AfterRequest
      <4>2. stale' = stale /\ cooldown' = cooldown /\ streak' = streak + 1
        BY <1>3, <2>1, <3>1, <3>5, <4>1 DEF afterRequest, Observe, IndInv, TypeOK
      <4>3. TypeOK'
        BY <2>1, <3>1, <4>1, <4>2 DEF IndInv, TypeOK
      <4>4. TicketInv' /\ ProbeInv' /\ OpenInv'
        BY <2>1, <3>5, <4>1, <4>2 DEF IndInv, TicketInv, ProbeInv, OpenInv
      <4>5. CountInv' /\ CoolDownInv'
        BY <3>5, <4>1, <4>2 DEF IndInv, CountInv, CoolDownInv
      <4> QED BY <4>3, <4>4, <4>5 DEF IndInv
    <3> QED BY <3>2, <3>3, <3>4, <3>5
  <2> QED BY <2>2, <2>3
<1>4. ASSUME State PROVE IndInv'
  <2>1. CASE Due(breaker)
    <3>1. /\ breaker' \in Breakers
          /\ breaker'.state = "half-open"
          /\ breaker'.halfOpenProbe = FALSE
          /\ breaker'.openAge = breaker.openAge
          /\ breaker'.generation = breaker.generation + 1
          /\ breaker.state = "open" /\ breaker.openAge >= OpenTimeout
      BY <1>4, <2>1, AdvanceFacts DEF State, Due
    <3>2. stale' = running /\ cooldown' = cooldown
      BY <1>4, <3>1 DEF State, Observe
    <3>3. TypeOK'
      BY <1>4, <2>1, <3>1, <3>2 DEF State, IndInv, TypeOK
    <3>4. TicketInv' /\ ProbeInv' /\ OpenInv'
      BY <1>4, <3>1, <3>2 DEF State, IndInv, TicketInv, ProbeInv, OpenInv
    <3>5. CountInv' /\ CoolDownInv'
      BY <3>1, <3>2 DEF IndInv, TypeOK, CountInv, CoolDownInv, Breakers
    <3> QED BY <3>3, <3>4, <3>5 DEF IndInv
  <2>2. CASE ~Due(breaker)
    <3>1. UNCHANGED vars
      BY <1>4, <2>2, AdvanceFacts DEF State, Observe, vars, IndInv, TypeOK
    <3> QED
      BY <3>1 DEF vars, IndInv, TypeOK, TicketInv, ProbeInv, OpenInv, CountInv, CoolDownInv
  <2> QED BY <2>1, <2>2
<1>5. ASSUME Reset PROVE IndInv'
  <2>1. /\ breaker' \in Breakers
        /\ breaker'.state = "closed"
        /\ breaker'.consecutiveFailures = 0
        /\ breaker'.halfOpenProbe = FALSE
        /\ breaker'.generation = breaker.generation + 1
    BY <1>5, ResetFacts DEF Reset
  <2>2. TypeOK'
    BY <1>5, <2>1 DEF Reset, IndInv, TypeOK
  <2>3. TicketInv' /\ ProbeInv' /\ OpenInv'
    BY <1>5, <2>1 DEF Reset, IndInv, TicketInv, ProbeInv, OpenInv
  <2>4. CountInv' /\ CoolDownInv'
    BY <1>5, <2>1 DEF Reset, IndInv, CountInv, CoolDownInv
  <2> QED BY <2>2, <2>3, <2>4 DEF IndInv
<1>6. ASSUME Tick PROVE IndInv'
  <2>1. /\ breaker' \in Breakers
        /\ breaker'.state = breaker.state
        /\ breaker'.consecutiveFailures = breaker.consecutiveFailures
        /\ breaker'.openAge = breaker.openAge + 1
        /\ breaker'.halfOpenProbe = breaker.halfOpenProbe
        /\ breaker'.generation = breaker.generation
    BY <1>6 DEF Tick, Breakers
  <2>2. TypeOK'
    BY <1>6, <2>1 DEF Tick, IndInv, TypeOK
  <2>3. TicketInv' /\ ProbeInv' /\ OpenInv'
    BY <1>6, <2>1 DEF Tick, IndInv, TicketInv, ProbeInv, OpenInv
  <2>4. CountInv' /\ CoolDownInv'
    BY <1>6, <2>1 DEF Tick, IndInv, TypeOK, CountInv, CoolDownInv, Breakers
  <2> QED BY <2>2, <2>3, <2>4 DEF IndInv
<1>7. ASSUME UNCHANGED vars PROVE IndInv'
  BY <1>7 DEF vars, IndInv, TypeOK, TicketInv, ProbeInv, OpenInv, CountInv, CoolDownInv
<1> QED BY <1>1, <1>2, <1>3, <1>4, <1>5, <1>6, <1>7 DEF Next

(* The inductive invariant holds throughout. *)
LEMMA Invariance == Spec => []IndInv
  BY InitEstablishes, StepPreserves, PTL DEF Spec

(* Every reachable state is well typed: in particular the age of an open   *)
(* circuit and the budgets stay in range and tickets stay tickets.         *)
THEOREM TypeCorrect == Spec => []TypeOK
<1>1. IndInv => TypeOK
  BY DEF IndInv
<1> QED BY <1>1, Invariance, PTL

(* afterRequest honours an outcome exactly when the circuit made no        *)
(* transition and saw no Reset since that call's beforeRequest.            *)
THEOREM TicketsExpire == Spec => []TicketsExpireWithTransitions
<1>1. IndInv => TicketsExpireWithTransitions
  BY DEF IndInv, TicketInv, TicketsExpireWithTransitions, Fresh, Ignores
<1> QED BY <1>1, Invariance, PTL

(* The half-open probe flag of beforeRequest always has exactly one owner, *)
(* a running call that will still be able to clear it.                     *)
THEOREM OneProbe == Spec => []ProbeFlagHasOneOwner
<1>1. IndInv => ProbeFlagHasOneOwner
  <2> SUFFICES ASSUME IndInv PROVE ProbeFlagHasOneOwner
    OBVIOUS
  <2> DEFINE Current == {c \in running : Fresh(c)}
  <2>1. Current = running \ stale
    BY DEF IndInv, TicketInv, Fresh, Ignores
  <2>2. CASE breaker.state = "half-open" /\ breaker.halfOpenProbe
    <3>1. PICK c \in running \ stale : TRUE
      BY <2>2 DEF IndInv, ProbeInv
    <3>2. Current = {c}
      BY <2>1, <2>2, <3>1 DEF IndInv, ProbeInv
    <3>3. Cardinality(Current) = 1
      BY <3>2, FS_Singleton
    <3> QED BY <2>2, <3>3 DEF ProbeFlagHasOneOwner
  <2>3. CASE breaker.state = "half-open" /\ ~breaker.halfOpenProbe
    <3>1. Current = {}
      BY <2>1, <2>3 DEF IndInv, ProbeInv
    <3>2. Cardinality(Current) = 0
      BY <3>1, FS_EmptySet
    <3> QED BY <2>3, <3>2 DEF ProbeFlagHasOneOwner
  <2>4. CASE breaker.state # "half-open"
    BY <2>4 DEF IndInv, ProbeInv, ProbeFlagHasOneOwner
  <2> QED BY <2>2, <2>3, <2>4
<1> QED BY <1>1, Invariance, PTL

(* A closed circuit opens only on FailureThreshold current failures in a   *)
(* row; the counter afterRequest keeps is never fed by a stale outcome.    *)
THEOREM OpensOnThreshold == Spec => OpensOnlyOnThreshold
<1> DEFINE Opens ==
      breaker.state = "closed" /\ breaker'.state = "open" => streak' = FailureThreshold
<1>1. IndInv /\ [Next]_vars => [Opens]_vars
  <2> SUFFICES ASSUME IndInv, Next, breaker.state = "closed", breaker'.state = "open"
               PROVE  streak' = FailureThreshold
    OBVIOUS
  <2>0. breaker \in Breakers /\ breaker.consecutiveFailures \in Nat /\ ~Due(breaker)
    BY ConfigAssumption DEF IndInv, TypeOK, Breakers, Due
  <2>1. ASSUME NEW c \in Callers, beforeRequest(c) PROVE FALSE
    <3>1. breaker' = [breaker EXCEPT !.halfOpenProbe = @ \/ breaker.state = "half-open"]
      BY <2>0, <2>1, AdvanceFacts DEF beforeRequest
    <3> QED BY <2>0, <3>1 DEF Breakers
  <2>2. ASSUME NEW c \in Callers, Rejected(c) PROVE FALSE
    BY <2>0, <2>2, AdvanceFacts DEF Rejected
  <2>3. ASSUME NEW c \in Callers, NEW success \in BOOLEAN, afterRequest(c, success)
        PROVE  streak' = FailureThreshold
    <3>1. ~Ignores(breaker, ticket[c])
      BY <2>3 DEF afterRequest, AfterRequest
    <3>2. ~success
      BY <2>0, <2>3, <3>1, SucceedFacts DEF afterRequest, AfterRequest
    <3>3. breaker.consecutiveFailures + 1 >= FailureThreshold
      BY <2>0, <2>3, <3>1, <3>2, FailFacts, ConfigAssumption DEF afterRequest, AfterRequest
    <3>4. c \notin stale
      BY <2>3, <3>1 DEF afterRequest, Ignores, IndInv, TicketInv
    <3>5. streak' = breaker.consecutiveFailures + 1
      BY <2>3, <3>2, <3>4 DEF afterRequest, IndInv, CountInv
    <3> QED BY <2>0, <3>3, <3>5, ConfigAssumption DEF IndInv, CountInv, TypeOK, Breakers
  <2>4. ASSUME State PROVE FALSE
    BY <2>0, <2>4, AdvanceFacts DEF State
  <2>5. ASSUME Reset PROVE FALSE
    BY <2>0, <2>5, ResetFacts DEF Reset
  <2>6. ASSUME Tick PROVE FALSE
    BY <2>6 DEF Tick
  <2> QED BY <2>1, <2>2, <2>3, <2>4, <2>5, <2>6 DEF Next
<1> QED BY <1>1, Invariance, PTL DEF Spec, OpensOnlyOnThreshold

(* beforeRequest admits nobody between an opening and the end of           *)
(* OpenTimeout, and a failed probe starts that wait afresh.                *)
THEOREM CoolsDown == Spec => CoolsDownBeforeAdmitting
<1> DEFINE Waits == running' \subseteq running \/ cooldown = 0
<1>1. IndInv /\ [Next]_vars => [Waits]_vars
  <2> SUFFICES ASSUME IndInv, Next PROVE Waits
    OBVIOUS
  <2>0. breaker \in Breakers /\ breaker.openAge \in 0 .. OpenTimeout
    BY DEF IndInv, TypeOK, Breakers
  <2>1. ASSUME NEW c \in Callers, beforeRequest(c) PROVE cooldown = 0
    <3>1. CASE Due(breaker)
      BY <2>0, <3>1, ConfigAssumption DEF Due, IndInv, TypeOK, CoolDownInv
    <3>2. CASE ~Due(breaker)
      <4>1. breaker.state # "open"
        BY <2>0, <2>1, <3>2, AdvanceFacts DEF beforeRequest, Rejects
      <4> QED BY <4>1, ConfigAssumption DEF IndInv, TypeOK, CoolDownInv
    <3> QED BY <3>1, <3>2
  <2>2. ASSUME NEW c \in Callers, Rejected(c) PROVE Waits
    BY <2>2 DEF Rejected
  <2>3. ASSUME NEW c \in Callers, NEW success \in BOOLEAN, afterRequest(c, success)
        PROVE  Waits
    BY <2>3 DEF afterRequest
  <2>4. ASSUME State \/ Reset \/ Tick PROVE Waits
    BY <2>4 DEF State, Reset, Tick
  <2> QED BY <2>1, <2>2, <2>3, <2>4 DEF Next
<1> QED BY <1>1, Invariance, PTL DEF Spec, CoolsDownBeforeAdmitting
=============================================================================
