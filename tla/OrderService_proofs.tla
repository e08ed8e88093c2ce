------------------------- MODULE OrderService_proofs -------------------------
(***************************************************************************)
(* Proofs about OrderService for any requests, keys, inputs, attempts,     *)
(* threshold, timeout and number of mode changes and Resets.               *)
(***************************************************************************)
EXTENDS OrderService, FiniteSetTheorems, TLAPS

(* Retry starts at zero and is called again only below Attempts. *)
AttemptsLeft ==
    \A r \in Requests :
        /\ pc[r] \in {"idle", "enter", "before"} => attempt[r] = 0
        /\ pc[r] \in {"attempt", "call"} => attempt[r] < Attempts

-----------------------------------------------------------------------------
(* The registry and the store. *)

(* The labels of a request that leads its key. *)
Leading == {"before", "attempt", "call", "after", "sync", "save", "finish"}

LeadersOwnKeys ==
    \A r \in Requests : pc[r] \in Leading =>
        entries[Key(r)] = r /\ joined[r] = r /\ outcome[r] = "open"

(* An entry in the map is a leader's or has its order stored. *)
EntriesBacked ==
    \A k \in Keys : entries[k] # None =>
        /\ Key(entries[k]) = k
        /\ entries[k] \notin past
        /\ pc[entries[k]] \in Leading \/ entries[k] \in orders

(* An outcome is published once its order is stored, and stays true of it  *)
(* until a Reset.                                                          *)
OutcomesFinal ==
    \A r \in Requests : outcome[r] # "open" =>
        /\ pc[r] \in {"complete", "done"}
        /\ outcome[r] = "ok" <=> err[r] = "none"
        /\ outcome[r] = "ok" => r \in orders \cup past

OrdersOwned ==
    \A o \in orders :
        /\ entries[Key(o)] = o
        /\ outcome[o] = "ok" \/ pc[o] = "finish"
        /\ err[o] = "none" /\ joined[o] = o

(* An error is set only on the way out, and nobody finishes without one    *)
(* before its order is saved.                                              *)
ErrorsEndOperations ==
    \A r \in Requests :
        /\ pc[r] \in {"idle", "enter", "before", "attempt", "call", "save"} => err[r] = "none"
        /\ pc[r] = "finish" /\ err[r] = "none" => r \in orders

WaitersMatch ==
    \A r \in Requests : pc[r] = "wait" =>
        joined[r] \in Requests \ past /\ request[joined[r]] = request[r]

AnswersStored ==
    \A r \in Requests \ past : pc[r] \in {"complete", "done"} /\ err[r] = "none" =>
        joined[r] \in orders /\ request[joined[r]] = request[r]

PastIsDone == \A r \in past : pc[r] = "done"

(* No operation ends with a conflict: a waiter, which is given its         *)
(* leader's error, is not told of one.                                     *)
OperationErrors ==
    \A r \in Requests : pc[r] \in Leading \/ outcome[r] # "open" => err[r] # "conflict"

RegistryInv ==
    /\ LeadersOwnKeys
    /\ EntriesBacked
    /\ OutcomesFinal
    /\ OrdersOwned
    /\ ErrorsEndOperations
    /\ WaitersMatch
    /\ AnswersStored
    /\ PastIsDone

-----------------------------------------------------------------------------
(* The breaker. *)

(* Requests between the breaker's two critical sections. *)
Running == {r \in Requests : pc[r] \in {"attempt", "call", "after"}}

(* Those of the requests R with tickets t whose reports b will honour. *)
Fresh(b, R, t) == {r \in R : ~CB!Ignores(b, t[r])}

(* No ticket is of a later generation than the breaker, and the probe flag *)
(* stands for the one fresh ticket of a half-open circuit.                 *)
TicketsMatch(b, R, t) ==
    /\ \A r \in R : t[r].generation <= b.generation
    /\ b.halfOpenProbe => b.state = "half-open" /\ Fresh(b, R, t) # {}
    /\ b.state = "half-open" /\ ~b.halfOpenProbe => Fresh(b, R, t) = {}
    /\ b.state = "half-open" => \A r, s \in Fresh(b, R, t) : r = s

BreakerInv == TicketsMatch(breaker, Running, ticket)

-----------------------------------------------------------------------------
(* The counters; the sets they count are finite. *)
CountInv ==
    /\ IsFiniteSet(InFlight) /\ IsFiniteSet(orders)
    /\ CountersAddUp

(* The inductive invariant. *)
IndInv ==
    /\ TypeOK
    /\ AttemptsLeft
    /\ RegistryInv
    /\ OperationErrors
    /\ BreakerInv
    /\ CountInv

-----------------------------------------------------------------------------
(* The breaker's helpers, as CircuitBreaker defines them. *)

(* The circuit stays as it is or becomes half-open in a new generation. *)
LEMMA AdvanceFacts ==
  ASSUME NEW b \in CB!Breakers
  PROVE  LET c == CB!advanceState(b)
         IN  /\ c \in CB!Breakers
             /\ \/ c = b
                \/ /\ c.state = "half-open" /\ c.halfOpenProbe = FALSE
                   /\ c.generation = b.generation + 1
BY DEF CB!advanceState, CB!Due, CB!Breakers, CB!CircuitStates

(* An admitted request sets the probe flag of a half-open circuit. *)
LEMMA AdmitFacts ==
  ASSUME NEW b \in CB!Breakers
  PROVE  LET c == [b EXCEPT !.halfOpenProbe = @ \/ b.state = "half-open"]
         IN  /\ c \in CB!Breakers
             /\ c.state = b.state /\ c.generation = b.generation
             /\ c.halfOpenProbe <=> b.halfOpenProbe \/ b.state = "half-open"
BY DEF CB!Breakers

(* A request's ticket is the circuit it was admitted to. *)
LEMMA TicketFacts ==
  ASSUME NEW b \in CB!Breakers
  PROVE  /\ CB!TicketOf(b) \in CB!Tickets
         /\ CB!TicketOf(b).state = b.state /\ CB!TicketOf(b).generation = b.generation
BY DEF CB!TicketOf, CB!Tickets, CB!Breakers

(* open() starts a new generation without a probe.                         *)
LEMMA OpenFacts ==
  ASSUME NEW b \in CB!Breakers
  PROVE  /\ CB!open(b) \in CB!Breakers
         /\ CB!open(b).state = "open" /\ CB!open(b).halfOpenProbe = FALSE
         /\ CB!open(b).generation = b.generation + 1
BY ServiceAssumption DEF CB!open, CB!Breakers, CB!CircuitStates

(* A report that counts ends the half-open state and its probe in a new    *)
(* generation; elsewhere it may leave state, generation and flag alone.    *)
LEMMA ReportFacts ==
  ASSUME NEW b \in CB!Breakers, NEW t \in CB!Tickets, NEW success \in BOOLEAN,
         ~CB!Ignores(b, t)
  PROVE  LET c == CB!AfterRequest(b, t, success)
         IN  /\ c \in CB!Breakers
             /\ \/ /\ b.state # "half-open" /\ c.state = b.state
                   /\ c.generation = b.generation /\ c.halfOpenProbe = b.halfOpenProbe
                \/ /\ c.state # "half-open" /\ c.halfOpenProbe = FALSE
                   /\ c.generation = b.generation + 1
<1>1. CB!AfterRequest(b, t, success) = IF success THEN CB!Succeed(b) ELSE CB!Fail(b)
  BY DEF CB!AfterRequest
<1>2. b.consecutiveFailures \in 0 .. FailureThreshold - 1
  BY DEF CB!Breakers
<1>3. CASE success /\ b.state = "half-open"
  BY <1>1, <1>3, ServiceAssumption DEF CB!Succeed, CB!Breakers, CB!CircuitStates
<1>4. CASE success /\ b.state # "half-open"
  BY <1>1, <1>4, ServiceAssumption DEF CB!Succeed, CB!Breakers
<1>5. CASE ~success /\ (b.state = "half-open" \/ b.consecutiveFailures + 1 >= FailureThreshold)
  <2>1. CB!AfterRequest(b, t, success) = CB!open(b)
    BY <1>1, <1>5 DEF CB!Fail
  <2> QED BY <2>1, OpenFacts
<1>6. CASE ~success /\ ~(b.state = "half-open" \/ b.consecutiveFailures + 1 >= FailureThreshold)
  <2>1. CB!AfterRequest(b, t, success) = [b EXCEPT !.consecutiveFailures = @ + 1]
    BY <1>1, <1>6 DEF CB!Fail
  <2>2. b.consecutiveFailures + 1 \in 0 .. FailureThreshold - 1
    BY <1>2, <1>6, ServiceAssumption
  <2> QED BY <1>6, <2>1, <2>2 DEF CB!Breakers
<1> QED BY <1>3, <1>4, <1>5, <1>6

(* afterRequest, ignored or not, leaves a well-typed breaker.              *)
LEMMA AfterType ==
  ASSUME NEW b \in CB!Breakers, NEW t \in CB!Tickets, NEW success \in BOOLEAN
  PROVE  CB!AfterRequest(b, t, success) \in CB!Breakers
<1>1. CASE CB!Ignores(b, t)
  BY <1>1 DEF CB!AfterRequest
<1>2. CASE ~CB!Ignores(b, t)
  BY <1>2, ReportFacts
<1> QED BY <1>1, <1>2

(* Reset closes the circuit in a new generation without a probe.           *)
LEMMA ResetFacts ==
  ASSUME NEW b \in CB!Breakers
  PROVE  /\ CB!ResetBreaker(b) \in CB!Breakers
         /\ CB!ResetBreaker(b).state = "closed" /\ CB!ResetBreaker(b).halfOpenProbe = FALSE
         /\ CB!ResetBreaker(b).generation = b.generation + 1
BY ServiceAssumption DEF CB!ResetBreaker, CB!Breakers, CB!CircuitStates

(* Ageing changes neither state, generation nor probe flag.                *)
LEMMA TickFacts ==
  ASSUME NEW b \in CB!Breakers, b.openAge < OpenTimeout
  PROVE  LET c == [b EXCEPT !.openAge = @ + 1]
         IN  /\ c \in CB!Breakers
             /\ c.state = b.state /\ c.generation = b.generation
             /\ c.halfOpenProbe = b.halfOpenProbe
<1>1. b.openAge + 1 \in 0 .. OpenTimeout
  BY ServiceAssumption DEF CB!Breakers
<1> QED BY <1>1 DEF CB!Breakers

-----------------------------------------------------------------------------
(* Type correctness. *)

(* The service starts well-typed, with all attempts of Retry left.         *)
LEMMA InitTypes == Init => TypeOK /\ AttemptsLeft
<1> SUFFICES ASSUME Init PROVE TypeOK /\ AttemptsLeft
  OBVIOUS
<1>1. breaker \in CB!Breakers
  BY ServiceAssumption DEF Init, CB!Breakers, CB!CircuitStates
<1>2. ticket \in [Requests -> CB!Tickets] /\ call \in [Requests -> [mode : Modes, number : 0 .. 2]]
  BY DEF Init, CB!ZeroTicket, CB!Tickets, CB!CircuitStates, NoCall, Modes
<1>3. counters \in [DOMAIN ZeroCounters -> Nat]
  BY DEF Init, ZeroCounters
<1>4. TypeOK
  <2>1. /\ request \in [Requests -> Inputs] /\ pc \in [Requests -> PCs]
        /\ gone \in SUBSET Requests /\ attempt \in [Requests -> 0 .. Attempts]
        /\ err \in [Requests -> Errs] /\ joined \in [Requests -> Requests \cup {None}]
    BY ServiceAssumption DEF Init, PCs, Errs
  <2>2. /\ mode \in Modes /\ calls \in 0 .. 2
        /\ entries \in [Keys -> Requests \cup {None}]
        /\ outcome \in [Requests -> {"open", "ok", "error"}]
        /\ orders \in SUBSET Requests /\ past \in SUBSET Requests
        /\ modeChanges \in 0 .. MaxModeChanges /\ resets \in 0 .. MaxResets
    BY ServiceAssumption DEF Init, Modes
  <2>3. resetting \in BOOLEAN
    BY Zenon DEF Init
  <2> QED BY <1>1, <1>2, <1>3, <2>1, <2>2, <2>3 DEF TypeOK
<1>5. AttemptsLeft
  BY DEF Init, AttemptsLeft
<1> QED BY <1>4, <1>5

(* Every step keeps the types and leaves Retry's loop in time. *)
LEMMA StepTypes == ASSUME TypeOK, AttemptsLeft, WaitersMatch, Next PROVE TypeOK' /\ AttemptsLeft'
<1> USE ServiceAssumption DEF reqVars, registryVars, depVars, resetVars, Goto, Fail
<1>0. /\ \A r \in Requests : Key(r) \in Keys
      /\ counters.total \in Nat /\ counters.succeeded \in Nat
      /\ counters.failed \in Nat /\ counters.duplicates \in Nat
  BY DEF TypeOK, Key, ZeroCounters
<1>1. ASSUME NEW r \in Requests, Begin(r) PROVE TypeOK' /\ AttemptsLeft'
  <2>1. counters' \in [DOMAIN ZeroCounters -> Nat]
    <3>1. counters' = [counters EXCEPT !.total = @ + 1]
      BY <1>1 DEF Begin
    <3>2. counters.total + 1 \in Nat
      BY <1>0
    <3>3. counters \in [DOMAIN ZeroCounters -> Nat]
      BY DEF TypeOK
    <3> QED BY <3>1, <3>2, <3>3
  <2> QED BY <1>1, <2>1 DEF Begin, TypeOK, AttemptsLeft, PCs, Errs
<1>2. ASSUME NEW r \in Requests, Enter(r) PROVE TypeOK' /\ AttemptsLeft'
  <2>1. /\ pc[r] = "enter"
        /\ \/ /\ entries' = [entries EXCEPT ![Key(r)] = r] /\ joined' = [joined EXCEPT ![r] = r]
              /\ pc' = [pc EXCEPT ![r] = "before"] /\ err' = err
           \/ /\ entries[Key(r)] # None /\ joined' = [joined EXCEPT ![r] = entries[Key(r)]]
              /\ pc' = [pc EXCEPT ![r] = "wait"] /\ entries' = entries /\ err' = err
           \/ /\ err' = [err EXCEPT ![r] = "conflict"] /\ pc' = [pc EXCEPT ![r] = "complete"]
              /\ entries' = entries /\ joined' = joined
        /\ attempt' = attempt
    BY <1>2 DEF Enter
  <2>2. entries' \in [Keys -> Requests \cup {None}] /\ joined' \in [Requests -> Requests \cup {None}]
    <3>1. entries[Key(r)] \in Requests \cup {None}
      BY <1>0 DEF TypeOK
    <3>2. entries' \in [Keys -> Requests \cup {None}]
      BY <1>0, <2>1 DEF TypeOK
    <3>3. joined' \in [Requests -> Requests \cup {None}]
      BY <2>1, <3>1 DEF TypeOK
    <3> QED BY <3>2, <3>3
  <2>3. pc' \in [Requests -> PCs] /\ err' \in [Requests -> Errs]
    <3>1. pc' \in [Requests -> PCs]
      BY <2>1 DEF TypeOK, PCs
    <3>2. err' \in [Requests -> Errs]
      BY <2>1 DEF TypeOK, Errs
    <3> QED BY <3>1, <3>2
  <2>4. AttemptsLeft'
    BY <2>1 DEF TypeOK, AttemptsLeft
  <2> QED BY <1>2, <2>2, <2>3, <2>4 DEF Enter, TypeOK
<1>3. ASSUME NEW r \in Requests, Receive(r) \/ Leave(r) PROVE TypeOK' /\ AttemptsLeft'
  <2>1. joined[r] \in Requests
    BY <1>3 DEF Receive, Leave, WaitersMatch
  <2>2. err' = [err EXCEPT ![r] = err[joined[r]]] \/ err' = [err EXCEPT ![r] = "left"]
    BY <1>3 DEF Receive, Leave
  <2>3. err[joined[r]] \in Errs /\ "left" \in Errs
    BY <2>1 DEF TypeOK, Errs
  <2>4. err' \in [Requests -> Errs]
    <3>1. err \in [Requests -> Errs]
      BY DEF TypeOK
    <3> QED BY <2>2, <2>3, <3>1
  <2>5. pc' = [pc EXCEPT ![r] = "complete"] /\ attempt' = attempt
    BY <1>3 DEF Receive, Leave
  <2>6. pc' \in [Requests -> PCs]
    <3>1. pc \in [Requests -> PCs] /\ "complete" \in PCs
      BY DEF TypeOK, PCs
    <3> QED BY <2>5, <3>1
  <2>7. AttemptsLeft'
    BY <2>5 DEF AttemptsLeft, TypeOK
  <2> QED BY <1>3, <2>4, <2>6, <2>7 DEF Receive, Leave, TypeOK
<1>4. ASSUME NEW r \in Requests, beforeRequest(r) PROVE TypeOK' /\ AttemptsLeft'
  <2>1. breaker' \in CB!Breakers /\ ticket' \in [Requests -> CB!Tickets]
    <3> DEFINE b == CB!advanceState(breaker)
    <3>1. b \in CB!Breakers
      BY AdvanceFacts DEF TypeOK
    <3>2. CB!TicketOf(b) \in CB!Tickets
      BY <3>1, TicketFacts
    <3>3. \/ breaker' = b /\ ticket' = ticket
          \/ /\ breaker' = [b EXCEPT !.halfOpenProbe = @ \/ b.state = "half-open"]
             /\ ticket' = [ticket EXCEPT ![r] = CB!TicketOf(b)]
      BY <1>4 DEF beforeRequest
    <3> HIDE DEF b
    <3>4. [b EXCEPT !.halfOpenProbe = @ \/ b.state = "half-open"] \in CB!Breakers
      BY <3>1, AdmitFacts
    <3>5. ticket \in [Requests -> CB!Tickets]
      BY DEF TypeOK
    <3>6. breaker' \in CB!Breakers
      BY <3>1, <3>3, <3>4
    <3>7. ticket' \in [Requests -> CB!Tickets]
      BY <3>2, <3>3, <3>5
    <3> QED BY <3>6, <3>7
  <2>2. pc' \in [Requests -> PCs] /\ err' \in [Requests -> Errs] /\ AttemptsLeft'
    <3>1. /\ pc[r] = "before" /\ attempt' = attempt
          /\ \/ pc' = [pc EXCEPT ![r] = "sync"] /\ err' = [err EXCEPT ![r] = "circuit open"]
             \/ pc' = [pc EXCEPT ![r] = "attempt"] /\ err' = err
      BY <1>4 DEF beforeRequest
    <3>2. pc' \in [Requests -> PCs]
      <4>1. pc \in [Requests -> PCs] /\ "sync" \in PCs /\ "attempt" \in PCs
        BY DEF TypeOK, PCs
      <4>2. pc' = [pc EXCEPT ![r] = "sync"] \/ pc' = [pc EXCEPT ![r] = "attempt"]
        BY <3>1
      <4> QED BY <4>1, <4>2
    <3>3. err' \in [Requests -> Errs]
      <4>1. err \in [Requests -> Errs] /\ "circuit open" \in Errs
        BY DEF TypeOK, Errs
      <4>2. err' = [err EXCEPT ![r] = "circuit open"] \/ err' = err
        BY <3>1
      <4> QED BY <4>1, <4>2
    <3>4. AttemptsLeft'
      <4>1. attempt[r] = 0
        BY <3>1 DEF AttemptsLeft
      <4>2. attempt[r] < Attempts
        BY <4>1
      <4> QED BY <3>1, <4>1, <4>2 DEF TypeOK, AttemptsLeft
    <3> QED BY <3>2, <3>3, <3>4
  <2> QED BY <1>4, <2>1, <2>2 DEF beforeRequest, TypeOK
<1>5. ASSUME NEW r \in Requests, GiveUp(r) PROVE TypeOK' /\ AttemptsLeft'
  BY <1>5 DEF GiveUp, TypeOK, AttemptsLeft, PCs, Errs
<1>6. ASSUME NEW r \in Requests, Reserve(r) PROVE TypeOK' /\ AttemptsLeft'
  <2>1. calls' \in 0 .. 2 /\ call' \in [Requests -> [mode : Modes, number : 0 .. 2]]
    BY <1>6 DEF Reserve, TypeOK
  <2> QED BY <1>6, <2>1 DEF Reserve, TypeOK, AttemptsLeft, PCs
<1>7. ASSUME NEW r \in Requests, Return(r) PROVE TypeOK' /\ AttemptsLeft'
  <2>1. call' \in [Requests -> [mode : Modes, number : 0 .. 2]]
    BY <1>7 DEF Return, TypeOK, NoCall, Modes
  <2>2. Reply(call[r]) \in Errs
    BY DEF TypeOK, Reply, Errs, Modes
  <2>3. PICK e \in Errs : IF Retries(r, e) THEN Goto(r, "attempt") /\ UNCHANGED err
                          ELSE Goto(r, "after") /\ Fail(r, e)
    BY <1>7, <2>2 DEF Return, Errs
  <2>4. /\ attempt' = [attempt EXCEPT ![r] = attempt[r] + 1]
        /\ attempt[r] \in Nat /\ attempt[r] < Attempts
    BY <1>7 DEF Return, TypeOK, AttemptsLeft
  <2>5. attempt' \in [Requests -> 0 .. Attempts]
    BY <2>4 DEF TypeOK
  <2>6. AttemptsLeft'
    BY <2>3, <2>4 DEF TypeOK, AttemptsLeft, Retries
  <2>7. pc' \in [Requests -> PCs] /\ err' \in [Requests -> Errs]
    <3>1. CASE Retries(r, e)
      BY <2>3, <3>1 DEF TypeOK, PCs
    <3>2. CASE ~Retries(r, e)
      <4>1. pc' = [pc EXCEPT ![r] = "after"] /\ err' = [err EXCEPT ![r] = e]
        BY <2>3, <3>2
      <4> QED BY <4>1 DEF TypeOK, PCs
    <3> QED BY <3>1, <3>2
  <2> QED BY <1>7, <2>1, <2>5, <2>6, <2>7 DEF Return, TypeOK
<1>8. ASSUME NEW r \in Requests, afterRequest(r) PROVE TypeOK' /\ AttemptsLeft'
  <2>1. breaker' \in CB!Breakers /\ ticket' \in [Requests -> CB!Tickets]
    BY <1>8, AfterType DEF afterRequest, TypeOK, CB!ZeroTicket, CB!Tickets, CB!CircuitStates
  <2> QED BY <1>8, <2>1 DEF afterRequest, TypeOK, AttemptsLeft, PCs
<1>9. ASSUME NEW r \in Requests, syncCircuitMetric(r) PROVE TypeOK' /\ AttemptsLeft'
  <2>1. breaker' \in CB!Breakers
    BY <1>9, AdvanceFacts DEF syncCircuitMetric, TypeOK
  <2> QED BY <1>9, <2>1 DEF syncCircuitMetric, TypeOK, AttemptsLeft, PCs
<1>10. ASSUME NEW r \in Requests, Save(r) \/ Finish(r) PROVE TypeOK' /\ AttemptsLeft'
  <2>1. CASE Save(r)
    BY <2>1 DEF Save, TypeOK, AttemptsLeft, PCs
  <2>2. CASE Finish(r)
    <3>1. outcome' \in [Requests -> {"open", "ok", "error"}]
          /\ entries' \in [Keys -> Requests \cup {None}]
      BY <1>0, <2>2 DEF Finish, Closed, DeleteFailed, TypeOK
    <3> QED BY <2>2, <3>1 DEF Finish, TypeOK, AttemptsLeft, PCs
  <2> QED BY <1>10, <2>1, <2>2
<1>11. ASSUME NEW r \in Requests, Complete(r) PROVE TypeOK' /\ AttemptsLeft'
  <2>1. counters' \in [DOMAIN ZeroCounters -> Nat]
    <3>1. \/ counters' = [counters EXCEPT !.failed = @ + 1]
          \/ counters' = [counters EXCEPT !.duplicates = @ + 1]
          \/ counters' = [counters EXCEPT !.succeeded = @ + 1]
      BY <1>11 DEF Complete, Counted
    <3>2. /\ counters.failed + 1 \in Nat /\ counters.duplicates + 1 \in Nat
          /\ counters.succeeded + 1 \in Nat
      BY <1>0
    <3>3. counters \in [DOMAIN ZeroCounters -> Nat]
      BY DEF TypeOK
    <3> QED BY <3>1, <3>2, <3>3
  <2> QED BY <1>11, <2>1 DEF Complete, TypeOK, AttemptsLeft, PCs
<1>12. ASSUME NEW r \in Requests, Disconnect(r) PROVE TypeOK' /\ AttemptsLeft'
  BY <1>12 DEF Disconnect, TypeOK, AttemptsLeft
<1>13. ASSUME NEW m \in Modes, SetFaultMode(m) PROVE TypeOK' /\ AttemptsLeft'
  BY <1>13 DEF SetFaultMode, TypeOK, AttemptsLeft
<1>14. CASE State
  <2>1. breaker' \in CB!Breakers
    BY <1>14, AdvanceFacts DEF State, TypeOK
  <2> QED BY <1>14, <2>1 DEF State, TypeOK, AttemptsLeft
<1>15. CASE RequestReset
  BY <1>15 DEF RequestReset, TypeOK, AttemptsLeft
<1>16. CASE Reset
  <2>1. breaker' \in CB!Breakers
    BY <1>16, ResetFacts DEF Reset, TypeOK
  <2>2. counters' \in [DOMAIN ZeroCounters -> Nat]
    BY <1>16 DEF Reset, ZeroCounters
  <2>3. /\ mode' \in Modes /\ calls' \in 0 .. 2 /\ orders' \in SUBSET Requests
        /\ entries' \in [Keys -> Requests \cup {None}] /\ past' \in SUBSET Requests
    BY <1>16 DEF Reset, Modes
  <2>4. resetting' \in BOOLEAN
    BY <1>16, Zenon DEF Reset
  <2> QED BY <1>16, <2>1, <2>2, <2>3, <2>4 DEF Reset, TypeOK, AttemptsLeft
<1>17. CASE Tick
  <2>1. breaker' \in CB!Breakers
    BY <1>17, TickFacts DEF Tick, Ageing, TypeOK
  <2> QED BY <1>17, <2>1 DEF Tick, TypeOK, AttemptsLeft
<1> QED BY <1>1, <1>2, <1>3, <1>4, <1>5, <1>6, <1>7, <1>8, <1>9, <1>10, <1>11, <1>12,
           <1>13, <1>14, <1>15, <1>16, <1>17 DEF Next, Step

-----------------------------------------------------------------------------
(* The breaker's invariant. *)

(* Tickets of an older generation are stale, so nobody owns a flag that is *)
(* down.                                                                   *)
LEMMA NewGeneration ==
  ASSUME NEW b \in CB!Breakers, NEW c \in CB!Breakers, NEW R, NEW S \in SUBSET R,
         NEW t, NEW u, \A r \in R : t[r] \in CB!Tickets, \A r \in S : u[r] = t[r],
         TicketsMatch(b, R, t), c.generation = b.generation + 1, c.halfOpenProbe = FALSE
  PROVE  TicketsMatch(c, S, u)
<1>1. b.generation \in Nat /\ \A r \in R : t[r].generation \in Nat
  BY DEF CB!Breakers, CB!Tickets
<1>2. \A r \in S : u[r].generation <= c.generation /\ u[r].generation # c.generation
  BY <1>1 DEF TicketsMatch
<1>3. Fresh(c, S, u) = {}
  BY <1>2 DEF Fresh, CB!Ignores
<1> QED BY <1>2, <1>3 DEF TicketsMatch

(* advanceState, which every look at the breaker begins with, keeps the    *)
(* tickets of the running calls matched.                                   *)
LEMMA AdvanceKeeps ==
  ASSUME NEW b \in CB!Breakers, NEW R, NEW t, \A r \in R : t[r] \in CB!Tickets,
         TicketsMatch(b, R, t)
  PROVE  TicketsMatch(CB!advanceState(b), R, t)
<1> DEFINE c == CB!advanceState(b)
<1>1. /\ c \in CB!Breakers
      /\ c = b \/ (c.generation = b.generation + 1 /\ c.halfOpenProbe = FALSE)
  BY AdvanceFacts
<1> HIDE DEF c
<1>2. TicketsMatch(c, R, t)
  BY <1>1, NewGeneration
<1> QED BY <1>2 DEF c

(* A probe is admitted only where nobody holds a fresh ticket. *)
LEMMA AdmitKeeps ==
  ASSUME NEW b \in CB!Breakers, NEW R, NEW t, NEW u, NEW r, r \notin R,
         TicketsMatch(b, R, t), ~CB!Rejects(b),
         \A q \in R : u[q] = t[q], u[r] = CB!TicketOf(b)
  PROVE  TicketsMatch([b EXCEPT !.halfOpenProbe = @ \/ b.state = "half-open"], R \cup {r}, u)
<1> DEFINE c == [b EXCEPT !.halfOpenProbe = @ \/ b.state = "half-open"]
<1>1. /\ c.state = b.state /\ c.generation = b.generation
      /\ c.halfOpenProbe <=> b.halfOpenProbe \/ b.state = "half-open"
  BY AdmitFacts
<1>2. /\ u[r].state = b.state /\ u[r].generation = b.generation /\ b.generation \in Nat
  BY TicketFacts DEF CB!Breakers
<1> HIDE DEF c
<1>3. Fresh(c, R \cup {r}, u) = Fresh(b, R, t) \cup {r}
  BY <1>1, <1>2 DEF Fresh, CB!Ignores
<1>4. \A q \in R \cup {r} : u[q].generation <= c.generation
  BY <1>1, <1>2 DEF TicketsMatch
<1>5. b.state = "half-open" => Fresh(b, R, t) = {}
  BY DEF TicketsMatch, CB!Rejects
<1>6. c.halfOpenProbe <=> c.state = "half-open"
  BY <1>1 DEF TicketsMatch
<1>7. TicketsMatch(c, R \cup {r}, u)
  BY <1>1, <1>3, <1>4, <1>5, <1>6 DEF TicketsMatch
<1> QED BY <1>7 DEF c

(* A stale report changes nothing; a fresh one ends the half-open state.   *)
LEMMA ReportKeeps ==
  ASSUME NEW b \in CB!Breakers, NEW R, NEW t, NEW u, NEW r \in R, NEW success \in BOOLEAN,
         \A q \in R : t[q] \in CB!Tickets, TicketsMatch(b, R, t),
         \A q \in R \ {r} : u[q] = t[q]
  PROVE  TicketsMatch(CB!AfterRequest(b, t[r], success), R \ {r}, u)
<1> DEFINE c == CB!AfterRequest(b, t[r], success)
<1>1. CASE CB!Ignores(b, t[r])
  <2>1. c = b
    BY <1>1 DEF CB!AfterRequest
  <2>2. Fresh(b, R \ {r}, u) = Fresh(b, R, t)
    BY <1>1 DEF Fresh
  <2>3. TicketsMatch(b, R \ {r}, u)
    BY <2>2 DEF TicketsMatch
  <2> QED BY <2>1, <2>3
<1>2. CASE ~CB!Ignores(b, t[r])
  <2>1. /\ c \in CB!Breakers
        /\ \/ /\ b.state # "half-open" /\ c.state = b.state
              /\ c.generation = b.generation /\ c.halfOpenProbe = b.halfOpenProbe
           \/ c.halfOpenProbe = FALSE /\ c.generation = b.generation + 1
    BY <1>2, ReportFacts
  <2> HIDE DEF c
  <2>2. CASE c.halfOpenProbe = FALSE /\ c.generation = b.generation + 1
    <3>1. R \ {r} \in SUBSET R
      OBVIOUS
    <3>2. TicketsMatch(c, R \ {r}, u)
      BY <2>1, <2>2, <3>1, NewGeneration
    <3> QED BY <3>2 DEF c
  <2>3. CASE /\ b.state # "half-open" /\ c.state = b.state
             /\ c.generation = b.generation /\ c.halfOpenProbe = b.halfOpenProbe
    <3>1. TicketsMatch(c, R \ {r}, u)
      BY <2>3 DEF TicketsMatch
    <3> QED BY <3>1 DEF c
  <2> QED BY <2>1, <2>2, <2>3
<1> QED BY <1>1, <1>2

(* The steps of a request that do not ask the breaker. *)
AwayFromBreaker(r) ==
    \/ Begin(r) \/ Enter(r) \/ Receive(r) \/ Leave(r) \/ GiveUp(r) \/ Reserve(r) \/ Return(r)
    \/ Save(r) \/ Finish(r) \/ Complete(r) \/ Disconnect(r)

(* Every step keeps the breaker's invariant. *)
LEMMA StepBreaker == ASSUME TypeOK, BreakerInv, Next PROVE BreakerInv'
<1> USE DEF reqVars, registryVars, depVars, resetVars, Goto
<1>0. breaker \in CB!Breakers /\ \A r \in Requests : ticket[r] \in CB!Tickets
  BY DEF TypeOK
<1>1. ASSUME UNCHANGED <<breaker, ticket>>, Running' = Running PROVE BreakerInv'
  BY <1>1 DEF BreakerInv
<1>2. ASSUME breaker' = CB!advanceState(breaker), UNCHANGED ticket, Running' = Running
      PROVE  BreakerInv'
  <2>1. TicketsMatch(CB!advanceState(breaker), Running, ticket)
    BY <1>0, AdvanceKeeps DEF BreakerInv, Running
  <2> QED BY <1>2, <2>1 DEF BreakerInv
<1>3. ASSUME NEW r \in Requests, AwayFromBreaker(r) PROVE BreakerInv'
  <2>1. UNCHANGED <<breaker, ticket>>
    BY <1>3 DEF AwayFromBreaker, Begin, Enter, Receive, Leave, GiveUp, Reserve, Return, Save,
                Finish, Complete, Disconnect
  <2>2. \/ pc' = pc
        \/ /\ pc' = [pc EXCEPT ![r] = pc'[r]]
           /\ pc[r] \in {"attempt", "call", "after"} <=> pc'[r] \in {"attempt", "call", "after"}
    BY <1>3 DEF AwayFromBreaker, Begin, Enter, Receive, Leave, GiveUp, Reserve, Return, Save,
                Finish, Complete, Disconnect, TypeOK
  <2>3. Running' = Running
    BY <2>2 DEF Running, TypeOK
  <2> QED BY <1>1, <2>1, <2>3
<1>4. ASSUME NEW r \in Requests, beforeRequest(r) PROVE BreakerInv'
  <2> DEFINE b == CB!advanceState(breaker)
  <2>1. TicketsMatch(b, Running, ticket) /\ b \in CB!Breakers
    BY <1>0, AdvanceKeeps, AdvanceFacts DEF BreakerInv, Running
  <2>2. CASE CB!Rejects(b)
    <3>1. Running' = Running /\ breaker' = b /\ ticket' = ticket
      BY <1>4, <2>2 DEF beforeRequest, Running, TypeOK
    <3> QED BY <2>1, <3>1 DEF BreakerInv
  <2>3. CASE ~CB!Rejects(b)
    <3>1. /\ Running' = Running \cup {r} /\ r \notin Running
          /\ breaker' = [b EXCEPT !.halfOpenProbe = @ \/ b.state = "half-open"]
          /\ ticket' = [ticket EXCEPT ![r] = CB!TicketOf(b)]
      BY <1>4, <2>3 DEF beforeRequest, Running, TypeOK
    <3>2. ticket'[r] = CB!TicketOf(b) /\ \A q \in Running : ticket'[q] = ticket[q]
      BY <3>1 DEF TypeOK, Running
    <3> HIDE DEF b
    <3>3. TicketsMatch([b EXCEPT !.halfOpenProbe = @ \/ b.state = "half-open"], Running \cup {r}, ticket')
      BY <2>1, <2>3, <3>1, <3>2, AdmitKeeps
    <3> QED BY <3>1, <3>3 DEF BreakerInv
  <2> QED BY <2>2, <2>3
<1>5. ASSUME NEW r \in Requests, afterRequest(r) PROVE BreakerInv'
  <2> DEFINE success == err[r] = "none"
  <2>1. /\ Running' = Running \ {r} /\ r \in Running
        /\ breaker' = CB!AfterRequest(breaker, ticket[r], success)
        /\ \A q \in Running \ {r} : ticket'[q] = ticket[q]
    BY <1>5 DEF afterRequest, Running, TypeOK
  <2>2. \A q \in Running : ticket[q] \in CB!Tickets
    BY <1>0 DEF Running
  <2>3. TicketsMatch(breaker, Running, ticket)
    BY DEF BreakerInv
  <2>4. success \in BOOLEAN
    OBVIOUS
  <2> HIDE DEF success
  <2>5. TicketsMatch(CB!AfterRequest(breaker, ticket[r], success), Running \ {r}, ticket')
    BY <1>0, <2>1, <2>2, <2>3, <2>4, ReportKeeps
  <2> QED BY <2>1, <2>5 DEF BreakerInv
<1>6. ASSUME NEW r \in Requests, syncCircuitMetric(r) PROVE BreakerInv'
  <2>1. Running' = Running
    BY <1>6 DEF syncCircuitMetric, Running, TypeOK
  <2> QED BY <1>2, <1>6, <2>1 DEF syncCircuitMetric
<1>7. CASE State
  BY <1>2, <1>7 DEF State, Running
<1>8. CASE Reset
  <2>1. breaker' = CB!ResetBreaker(breaker) /\ ticket' = ticket /\ Running' = Running
    BY <1>8 DEF Reset, Running
  <2>2. TicketsMatch(CB!ResetBreaker(breaker), Running, ticket)
    BY <1>0, ResetFacts, NewGeneration DEF BreakerInv, Running
  <2> QED BY <2>1, <2>2 DEF BreakerInv
<1>9. CASE Tick
  <2>1. /\ ticket' = ticket /\ Running' = Running
        /\ breaker'.state = breaker.state /\ breaker'.generation = breaker.generation
        /\ breaker'.halfOpenProbe = breaker.halfOpenProbe
    BY <1>0, <1>9, TickFacts DEF Tick, Ageing, Running
  <2> QED BY <2>1 DEF BreakerInv, TicketsMatch, Fresh, CB!Ignores
<1>10. CASE RequestReset \/ \E m \in Modes : SetFaultMode(m)
  BY <1>1, <1>10 DEF RequestReset, SetFaultMode, Running
<1> QED BY <1>3, <1>4, <1>5, <1>6, <1>7, <1>8, <1>9, <1>10 DEF Next, Step, AwayFromBreaker

-----------------------------------------------------------------------------
(* The registry's and the store's invariant. *)

(* What is stored was saved by a leader that has come to its end. *)
LEMMA StoredHaveFinished ==
  ASSUME RegistryInv, NEW o \in orders, o \in Requests
  PROVE  pc[o] \in {"finish", "complete", "done"}
BY DEF RegistryInv, OrdersOwned, OutcomesFinal

(* A request leaves without having led. *)
LEMMA ExitKeeps ==
  ASSUME TypeOK, RegistryInv,
         NEW r \in Requests, pc[r] \in {"idle", "enter", "wait"},
         err'[r] = "none" => joined[r] \in orders /\ request[joined[r]] = request[r],
         pc' = [pc EXCEPT ![r] = "complete"], err' = [err EXCEPT ![r] = err'[r]],
         UNCHANGED <<request, joined, entries, outcome, orders, past>>
  PROVE  RegistryInv'
<1> USE DEF RegistryInv
<1>0. /\ Key(r) \in Keys /\ None \notin Requests
      /\ r \in orders => pc[r] \in {"finish", "complete", "done"}
  BY StoredHaveFinished, ServiceAssumption DEF TypeOK, Key
<1>1. LeadersOwnKeys'
  BY <1>0 DEF TypeOK, Key, Leading, LeadersOwnKeys
<1>2. EntriesBacked'
  BY <1>0 DEF TypeOK, Key, Leading, EntriesBacked, OrdersOwned, OutcomesFinal
<1>3. OutcomesFinal'
  BY <1>0 DEF TypeOK, Key, Leading, OutcomesFinal
<1>4. OrdersOwned'
  BY <1>0 DEF TypeOK, Key, Leading, OrdersOwned, OutcomesFinal
<1>5. ErrorsEndOperations'
  BY <1>0 DEF TypeOK, Key, Leading, ErrorsEndOperations
<1>6. WaitersMatch'
  BY <1>0 DEF TypeOK, Key, Leading, WaitersMatch
<1>7. AnswersStored'
  BY <1>0 DEF TypeOK, Key, Leading, AnswersStored
<1>8. PastIsDone'
  BY <1>0 DEF TypeOK, Key, Leading, PastIsDone
<1> QED BY <1>1, <1>2, <1>3, <1>4, <1>5, <1>6, <1>7, <1>8

(* A request is counted and goes to the registry. *)
LEMMA StartKeeps ==
  ASSUME TypeOK, RegistryInv,
         NEW r \in Requests, pc[r] = "idle", pc' = [pc EXCEPT ![r] = "enter"],
         UNCHANGED <<request, err, joined, entries, outcome, orders, past>>
  PROVE  RegistryInv'
<1> USE DEF RegistryInv
<1>0. /\ Key(r) \in Keys /\ None \notin Requests
      /\ r \in orders => pc[r] \in {"finish", "complete", "done"}
  BY StoredHaveFinished, ServiceAssumption DEF TypeOK, Key
<1>1. LeadersOwnKeys'
  BY <1>0 DEF TypeOK, Key, Leading, LeadersOwnKeys
<1>2. EntriesBacked'
  BY <1>0 DEF TypeOK, Key, Leading, EntriesBacked
<1>3. OutcomesFinal'
  BY <1>0 DEF TypeOK, Key, Leading, OutcomesFinal
<1>4. OrdersOwned'
  BY <1>0 DEF TypeOK, Key, Leading, OrdersOwned
<1>5. ErrorsEndOperations'
  BY <1>0 DEF TypeOK, Key, Leading, ErrorsEndOperations
<1>6. WaitersMatch'
  BY <1>0 DEF TypeOK, Key, Leading, WaitersMatch
<1>7. AnswersStored'
  BY <1>0 DEF TypeOK, Key, Leading, AnswersStored
<1>8. PastIsDone'
  BY <1>0 DEF TypeOK, Key, Leading, PastIsDone
<1> QED BY <1>1, <1>2, <1>3, <1>4, <1>5, <1>6, <1>7, <1>8

(* A request finds no entry and leads. *)
LEMMA LeadKeeps ==
  ASSUME TypeOK, RegistryInv,
         NEW r \in Requests, pc[r] = "enter", entries[Key(r)] = None,
         pc' = [pc EXCEPT ![r] = "before"], joined' = [joined EXCEPT ![r] = r],
         entries' = [entries EXCEPT ![Key(r)] = r],
         UNCHANGED <<request, err, outcome, orders, past>>
  PROVE  RegistryInv'
<1> USE DEF RegistryInv
<1>0. /\ Key(r) \in Keys /\ None \notin Requests
      /\ r \in orders => pc[r] \in {"finish", "complete", "done"}
  BY StoredHaveFinished, ServiceAssumption DEF TypeOK, Key
<1>1. LeadersOwnKeys'
  BY <1>0 DEF TypeOK, Key, Leading, LeadersOwnKeys, OutcomesFinal
<1>2. EntriesBacked'
  BY <1>0 DEF TypeOK, Key, Leading, EntriesBacked, PastIsDone
<1>3. OutcomesFinal'
  BY <1>0 DEF TypeOK, Key, Leading, OutcomesFinal
<1>4. OrdersOwned'
  BY <1>0 DEF TypeOK, Key, Leading, OrdersOwned, OutcomesFinal
<1>5. ErrorsEndOperations'
  BY <1>0 DEF TypeOK, Key, Leading, ErrorsEndOperations
<1>6. WaitersMatch'
  BY <1>0 DEF TypeOK, Key, Leading, WaitersMatch
<1>7. AnswersStored'
  BY <1>0 DEF TypeOK, Key, Leading, AnswersStored
<1>8. PastIsDone'
  BY <1>0 DEF TypeOK, Key, Leading, PastIsDone
<1> QED BY <1>1, <1>2, <1>3, <1>4, <1>5, <1>6, <1>7, <1>8

(* A request finds an entry with its own input and waits. *)
LEMMA WaitKeeps ==
  ASSUME TypeOK, RegistryInv,
         NEW r \in Requests, pc[r] = "enter", entries[Key(r)] \in Requests,
         request[entries[Key(r)]] = request[r],
         pc' = [pc EXCEPT ![r] = "wait"], joined' = [joined EXCEPT ![r] = entries[Key(r)]],
         UNCHANGED <<request, err, entries, outcome, orders, past>>
  PROVE  RegistryInv'
<1> USE DEF RegistryInv
<1>0. /\ Key(r) \in Keys /\ None \notin Requests
      /\ r \in orders => pc[r] \in {"finish", "complete", "done"}
  BY StoredHaveFinished, ServiceAssumption DEF TypeOK, Key
<1>1. LeadersOwnKeys'
  BY <1>0 DEF TypeOK, Key, Leading, LeadersOwnKeys
<1>2. EntriesBacked'
  BY <1>0 DEF TypeOK, Key, Leading, EntriesBacked
<1>3. OutcomesFinal'
  BY <1>0 DEF TypeOK, Key, Leading, OutcomesFinal
<1>4. OrdersOwned'
  BY <1>0 DEF TypeOK, Key, Leading, OrdersOwned
<1>5. ErrorsEndOperations'
  BY <1>0 DEF TypeOK, Key, Leading, ErrorsEndOperations
<1>6. WaitersMatch'
  BY <1>0 DEF TypeOK, Key, Leading, WaitersMatch, EntriesBacked
<1>7. AnswersStored'
  BY <1>0 DEF TypeOK, Key, Leading, AnswersStored
<1>8. PastIsDone'
  BY <1>0 DEF TypeOK, Key, Leading, PastIsDone
<1> QED BY <1>1, <1>2, <1>3, <1>4, <1>5, <1>6, <1>7, <1>8

(* The leader's operation goes on, or has failed, before anything is saved. *)
LEMMA OperateKeeps ==
  ASSUME TypeOK, RegistryInv,
         NEW r \in Requests,
         pc[r] \in {"before", "attempt", "call", "after", "sync"},
         pc'[r] \in {"attempt", "call", "after", "sync", "save", "finish"},
         pc'[r] \in {"attempt", "call", "save"} => err'[r] = "none",
         pc'[r] = "finish" => err'[r] # "none",
         pc' = [pc EXCEPT ![r] = pc'[r]], err' = [err EXCEPT ![r] = err'[r]],
         UNCHANGED <<request, joined, entries, outcome, orders, past>>
  PROVE  RegistryInv'
<1> USE DEF RegistryInv
<1>0. /\ Key(r) \in Keys /\ None \notin Requests
      /\ r \in orders => pc[r] \in {"finish", "complete", "done"}
  BY StoredHaveFinished, ServiceAssumption DEF TypeOK, Key
<1>1. LeadersOwnKeys'
  BY <1>0 DEF TypeOK, Key, Leading, LeadersOwnKeys
<1>2. EntriesBacked'
  BY <1>0 DEF TypeOK, Key, Leading, EntriesBacked
<1>3. OutcomesFinal'
  BY <1>0 DEF TypeOK, Key, Leading, OutcomesFinal
<1>4. OrdersOwned'
  BY <1>0 DEF TypeOK, Key, Leading, OrdersOwned
<1>5. ErrorsEndOperations'
  BY <1>0 DEF TypeOK, Key, Leading, ErrorsEndOperations
<1>6. WaitersMatch'
  BY <1>0 DEF TypeOK, Key, Leading, WaitersMatch
<1>7. AnswersStored'
  BY <1>0 DEF TypeOK, Key, Leading, AnswersStored
<1>8. PastIsDone'
  BY <1>0 DEF TypeOK, Key, Leading, PastIsDone
<1> QED BY <1>1, <1>2, <1>3, <1>4, <1>5, <1>6, <1>7, <1>8

(* The leader's order is stored. *)
LEMMA SaveKeeps ==
  ASSUME TypeOK, RegistryInv,
         NEW r \in Requests, pc[r] = "save",
         pc' = [pc EXCEPT ![r] = "finish"], orders' = orders \cup {r},
         UNCHANGED <<request, err, joined, entries, outcome, past>>
  PROVE  RegistryInv'
<1> USE DEF RegistryInv
<1>0. /\ Key(r) \in Keys /\ None \notin Requests
      /\ r \in orders => pc[r] \in {"finish", "complete", "done"}
  BY StoredHaveFinished, ServiceAssumption DEF TypeOK, Key
<1>1. LeadersOwnKeys'
  BY <1>0 DEF TypeOK, Key, Leading, LeadersOwnKeys
<1>2. EntriesBacked'
  BY <1>0 DEF TypeOK, Key, Leading, EntriesBacked
<1>3. OutcomesFinal'
  BY <1>0 DEF TypeOK, Key, Leading, OutcomesFinal
<1>4. OrdersOwned'
  BY <1>0 DEF TypeOK, Key, Leading, OrdersOwned, LeadersOwnKeys, ErrorsEndOperations
<1>5. ErrorsEndOperations'
  BY <1>0 DEF TypeOK, Key, Leading, ErrorsEndOperations
<1>6. WaitersMatch'
  BY <1>0 DEF TypeOK, Key, Leading, WaitersMatch
<1>7. AnswersStored'
  BY <1>0 DEF TypeOK, Key, Leading, AnswersStored
<1>8. PastIsDone'
  BY <1>0 DEF TypeOK, Key, Leading, PastIsDone
<1> QED BY <1>1, <1>2, <1>3, <1>4, <1>5, <1>6, <1>7, <1>8

(* The leader publishes its outcome and deletes its entry if it failed. *)
LEMMA FinishKeeps ==
  ASSUME TypeOK, RegistryInv,
         NEW r \in Requests, pc[r] = "finish",
         pc' = [pc EXCEPT ![r] = "complete"],
         outcome' = [outcome EXCEPT ![r] = IF err[r] = "none" THEN "ok" ELSE "error"],
         entries' = IF err[r] = "none" THEN entries ELSE [entries EXCEPT ![Key(r)] = None],
         UNCHANGED <<request, err, joined, orders, past>>
  PROVE  RegistryInv'
<1> USE DEF RegistryInv
<1>0. /\ Key(r) \in Keys /\ None \notin Requests
      /\ r \in orders => pc[r] \in {"finish", "complete", "done"}
  BY StoredHaveFinished, ServiceAssumption DEF TypeOK, Key
<1>1. LeadersOwnKeys'
  BY <1>0 DEF TypeOK, Key, Leading, LeadersOwnKeys
<1>2. EntriesBacked'
  BY <1>0 DEF TypeOK, Key, Leading, EntriesBacked, LeadersOwnKeys, ErrorsEndOperations
<1>3. OutcomesFinal'
  BY <1>0 DEF TypeOK, Key, Leading, OutcomesFinal, ErrorsEndOperations
<1>4. OrdersOwned'
  BY <1>0 DEF TypeOK, Key, Leading, OrdersOwned, LeadersOwnKeys
<1>5. ErrorsEndOperations'
  BY <1>0 DEF TypeOK, Key, Leading, ErrorsEndOperations
<1>6. WaitersMatch'
  BY <1>0 DEF TypeOK, Key, Leading, WaitersMatch
<1>7. AnswersStored'
  BY <1>0 DEF TypeOK, Key, Leading, AnswersStored, LeadersOwnKeys, ErrorsEndOperations
<1>8. PastIsDone'
  BY <1>0 DEF TypeOK, Key, Leading, PastIsDone
<1> QED BY <1>1, <1>2, <1>3, <1>4, <1>5, <1>6, <1>7, <1>8

(* A request returns. *)
LEMMA CompleteKeeps ==
  ASSUME TypeOK, RegistryInv,
         NEW r \in Requests, pc[r] = "complete", pc' = [pc EXCEPT ![r] = "done"],
         UNCHANGED <<request, err, joined, entries, outcome, orders, past>>
  PROVE  RegistryInv'
<1> USE DEF RegistryInv
<1>0. /\ Key(r) \in Keys /\ None \notin Requests
      /\ r \in orders => pc[r] \in {"finish", "complete", "done"}
  BY StoredHaveFinished, ServiceAssumption DEF TypeOK, Key
<1>1. LeadersOwnKeys'
  BY <1>0 DEF TypeOK, Key, Leading, LeadersOwnKeys
<1>2. EntriesBacked'
  BY <1>0 DEF TypeOK, Key, Leading, EntriesBacked
<1>3. OutcomesFinal'
  BY <1>0 DEF TypeOK, Key, Leading, OutcomesFinal
<1>4. OrdersOwned'
  BY <1>0 DEF TypeOK, Key, Leading, OrdersOwned
<1>5. ErrorsEndOperations'
  BY <1>0 DEF TypeOK, Key, Leading, ErrorsEndOperations
<1>6. WaitersMatch'
  BY <1>0 DEF TypeOK, Key, Leading, WaitersMatch
<1>7. AnswersStored'
  BY <1>0 DEF TypeOK, Key, Leading, AnswersStored
<1>8. PastIsDone'
  BY <1>0 DEF TypeOK, Key, Leading, PastIsDone
<1> QED BY <1>1, <1>2, <1>3, <1>4, <1>5, <1>6, <1>7, <1>8

(* Reset forgets entries and orders while nobody is in flight. *)
LEMMA ResetKeeps ==
  ASSUME TypeOK, RegistryInv,
         InFlight = {}, orders' = {}, entries' = [k \in Keys |-> None],
         past' = {r \in Requests : pc[r] = "done"},
         UNCHANGED <<request, pc, err, joined, outcome>>
  PROVE  RegistryInv'
<1> USE DEF RegistryInv
<1>0. \A r \in Requests : pc[r] \in {"idle", "done"}
  BY DEF InFlight
<1>1. LeadersOwnKeys'
  BY <1>0 DEF TypeOK, Key, Leading, LeadersOwnKeys
<1>2. EntriesBacked'
  BY <1>0 DEF TypeOK, Key, Leading, EntriesBacked
<1>3. OutcomesFinal'
  BY <1>0 DEF TypeOK, Key, Leading, OutcomesFinal
<1>4. OrdersOwned'
  BY <1>0 DEF TypeOK, Key, Leading, OrdersOwned
<1>5. ErrorsEndOperations'
  BY <1>0 DEF TypeOK, Key, Leading, ErrorsEndOperations
<1>6. WaitersMatch'
  BY <1>0 DEF TypeOK, Key, Leading, WaitersMatch
<1>7. AnswersStored'
  BY <1>0 DEF TypeOK, Key, Leading, AnswersStored
<1>8. PastIsDone'
  BY <1>0 DEF TypeOK, Key, Leading, PastIsDone
<1> QED BY <1>1, <1>2, <1>3, <1>4, <1>5, <1>6, <1>7, <1>8

(* Registry and store start empty, hence together.                         *)
LEMMA InitRegistry == Init => RegistryInv
BY DEF Init, RegistryInv, LeadersOwnKeys, EntriesBacked, OutcomesFinal, OrdersOwned,
       ErrorsEndOperations, WaitersMatch, AnswersStored, PastIsDone, Leading

(* Every step keeps the registry and the store together. *)
LEMMA StepRegistry == ASSUME TypeOK, RegistryInv, Next PROVE RegistryInv'
<1> USE DEF reqVars, registryVars, depVars, resetVars, Goto, Fail
<1>0. /\ pc \in [Requests -> PCs] /\ err \in [Requests -> Errs]
      /\ \A r \in Requests : Key(r) \in Keys /\ entries[Key(r)] \in Requests \cup {None}
  BY ServiceAssumption DEF TypeOK, Key
<1>1. ASSUME NEW r \in Requests, Begin(r) PROVE RegistryInv'
  <2>1. CASE Goto(r, "enter") /\ UNCHANGED err
    BY <1>1, <2>1, StartKeeps DEF Begin
  <2>2. CASE Fail(r, "invalid") /\ Goto(r, "complete")
    <3>1. err' = [err EXCEPT ![r] = err'[r]] /\ err'[r] = "invalid"
      BY <1>0, <2>2
    <3> QED BY <1>1, <2>2, <3>1, ExitKeeps DEF Begin
  <2> QED BY <1>1, <2>1, <2>2 DEF Begin
<1>2. ASSUME NEW r \in Requests, Enter(r) PROVE RegistryInv'
  <2>1. CASE entries[Key(r)] = None
    BY <1>2, <2>1, LeadKeeps DEF Enter
  <2>2. CASE entries[Key(r)] # None /\ SameInput(entries[Key(r)], r)
    <3>1. entries[Key(r)] \in Requests /\ Key(entries[Key(r)]) = Key(r)
      BY <1>0, <2>2 DEF RegistryInv, EntriesBacked
    <3>2. request[entries[Key(r)]] = request[r]
      BY <2>2, <3>1, ServiceAssumption DEF SameInput, Fingerprint, Key, TypeOK
    <3> QED BY <1>2, <2>2, <3>1, <3>2, WaitKeeps DEF Enter
  <2>3. CASE entries[Key(r)] # None /\ ~SameInput(entries[Key(r)], r)
    <3>1. err' = [err EXCEPT ![r] = err'[r]] /\ err'[r] = "conflict"
      BY <1>0, <1>2, <2>3 DEF Enter
    <3> QED BY <1>2, <2>3, <3>1, ExitKeeps DEF Enter
  <2> QED BY <2>1, <2>2, <2>3
<1>3. ASSUME NEW r \in Requests, Receive(r) PROVE RegistryInv'
  <2>1. /\ joined[r] \in Requests \ past /\ request[joined[r]] = request[r]
        /\ err[joined[r]] = "none" => joined[r] \in orders
    BY <1>3 DEF Receive, RegistryInv, WaitersMatch, OutcomesFinal
  <2>2. err' = [err EXCEPT ![r] = err'[r]] /\ err'[r] = err[joined[r]]
    BY <1>0, <1>3 DEF Receive
  <2> QED BY <1>3, <2>1, <2>2, ExitKeeps DEF Receive
<1>4. ASSUME NEW r \in Requests, Leave(r) PROVE RegistryInv'
  <2>1. err' = [err EXCEPT ![r] = err'[r]] /\ err'[r] = "left"
    BY <1>0, <1>4 DEF Leave
  <2> QED BY <1>4, <2>1, ExitKeeps DEF Leave
<1>5. ASSUME NEW r \in Requests, beforeRequest(r) PROVE RegistryInv'
  <2>1. /\ pc' = [pc EXCEPT ![r] = pc'[r]] /\ err' = [err EXCEPT ![r] = err'[r]]
        /\ pc'[r] = "sync" \/ (pc'[r] = "attempt" /\ err'[r] = err[r])
    BY <1>0, <1>5 DEF beforeRequest
  <2>2. pc[r] = "before" /\ err[r] = "none"
        /\ UNCHANGED <<request, joined, entries, outcome, orders, past>>
    BY <1>5 DEF beforeRequest, RegistryInv, ErrorsEndOperations
  <2> QED BY <2>1, <2>2, OperateKeeps
<1>6. ASSUME NEW r \in Requests, GiveUp(r) PROVE RegistryInv'
  <2>1. /\ pc' = [pc EXCEPT ![r] = pc'[r]] /\ err' = [err EXCEPT ![r] = err'[r]]
        /\ pc[r] = "attempt" /\ pc'[r] = "after"
        /\ UNCHANGED <<request, joined, entries, outcome, orders, past>>
    BY <1>0, <1>6 DEF GiveUp
  <2> QED BY <2>1, OperateKeeps
<1>7. ASSUME NEW r \in Requests, Reserve(r) PROVE RegistryInv'
  <2>1. /\ pc' = [pc EXCEPT ![r] = pc'[r]] /\ err' = [err EXCEPT ![r] = err'[r]]
        /\ pc[r] = "attempt" /\ pc'[r] = "call" /\ err'[r] = "none"
        /\ UNCHANGED <<request, joined, entries, outcome, orders, past>>
    BY <1>0, <1>7 DEF Reserve, RegistryInv, ErrorsEndOperations
  <2> QED BY <2>1, OperateKeeps
<1>8. ASSUME NEW r \in Requests, Return(r) PROVE RegistryInv'
  <2>1. /\ pc[r] = "call" /\ err[r] = "none"
        /\ UNCHANGED <<request, joined, entries, outcome, orders, past>>
    BY <1>8 DEF Return, RegistryInv, ErrorsEndOperations
  <2>2. PICK e : IF Retries(r, e) THEN pc' = [pc EXCEPT ![r] = "attempt"] /\ err' = err
                 ELSE pc' = [pc EXCEPT ![r] = "after"] /\ err' = [err EXCEPT ![r] = e]
    BY <1>8 DEF Return
  <2>3. /\ pc' = [pc EXCEPT ![r] = pc'[r]] /\ err' = [err EXCEPT ![r] = err'[r]]
        /\ (pc'[r] = "attempt" /\ err'[r] = err[r]) \/ pc'[r] = "after"
    BY <1>0, <2>2
  <2> QED BY <2>1, <2>3, OperateKeeps
<1>9. ASSUME NEW r \in Requests, afterRequest(r) \/ syncCircuitMetric(r) PROVE RegistryInv'
  <2>1. /\ err' = [err EXCEPT ![r] = err'[r]] /\ err'[r] = err[r]
        /\ pc' = [pc EXCEPT ![r] = pc'[r]]
        /\ UNCHANGED <<request, joined, entries, outcome, orders, past>>
    BY <1>0, <1>9 DEF afterRequest, syncCircuitMetric
  <2>2. \/ pc[r] = "after" /\ pc'[r] = "sync"
        \/ pc[r] = "sync" /\ pc'[r] = "save" /\ err[r] = "none"
        \/ pc[r] = "sync" /\ pc'[r] = "finish" /\ err[r] # "none"
    BY <1>0, <1>9 DEF afterRequest, syncCircuitMetric, Saves
  <2> QED BY <2>1, <2>2, OperateKeeps
<1>10. ASSUME NEW r \in Requests, Save(r) PROVE RegistryInv'
  BY <1>10, SaveKeeps DEF Save
<1>11. ASSUME NEW r \in Requests, Finish(r) PROVE RegistryInv'
  BY <1>11, FinishKeeps DEF Finish, Closed, DeleteFailed
<1>12. ASSUME NEW r \in Requests, Complete(r) PROVE RegistryInv'
  BY <1>12, CompleteKeeps DEF Complete
<1>13. CASE Reset
  BY <1>13, ResetKeeps DEF Reset, Locked
<1>14. CASE \/ \E r \in Requests : Disconnect(r)
            \/ \E m \in Modes : SetFaultMode(m)
            \/ State \/ RequestReset \/ Tick
  <2>1. UNCHANGED <<request, pc, err, joined, entries, outcome, orders, past>>
    BY <1>14 DEF Disconnect, SetFaultMode, State, RequestReset, Tick
  <2> QED BY <2>1 DEF RegistryInv, LeadersOwnKeys, EntriesBacked, OutcomesFinal, OrdersOwned,
                      ErrorsEndOperations, WaitersMatch, AnswersStored, PastIsDone, Key
<1> QED BY <1>1, <1>2, <1>3, <1>4, <1>5, <1>6, <1>7, <1>8, <1>9, <1>10, <1>11, <1>12,
           <1>13, <1>14 DEF Next, Step

-----------------------------------------------------------------------------
(* Every step keeps conflicts out of the operations.                       *)
LEMMA StepErrors == ASSUME TypeOK, RegistryInv, OperationErrors, Next PROVE OperationErrors'
<1> USE DEF reqVars, registryVars, depVars, resetVars, Goto, Fail
<1>0. /\ pc \in [Requests -> PCs] /\ err \in [Requests -> Errs]
      /\ outcome \in [Requests -> {"open", "ok", "error"}]
      /\ \A r \in Requests : outcome[r] # "open" => pc[r] \in {"complete", "done"}
      /\ \A r \in Requests : pc[r] \in {"enter", "before", "attempt", "call"} => err[r] = "none"
  BY DEF TypeOK, RegistryInv, OutcomesFinal, ErrorsEndOperations
<1>1. ASSUME NEW r \in Requests, \A s \in Requests \ {r} :
                pc'[s] = pc[s] /\ err'[s] = err[s] /\ outcome'[s] = outcome[s],
             pc'[r] \in Leading \/ outcome'[r] # "open" => err'[r] # "conflict"
      PROVE  OperationErrors'
  BY <1>1 DEF OperationErrors
<1>2. ASSUME NEW r \in Requests, Begin(r) \/ Enter(r) \/ Receive(r) \/ Leave(r)
      PROVE  OperationErrors'
  <2>1. \A s \in Requests \ {r} : pc'[s] = pc[s] /\ err'[s] = err[s] /\ outcome'[s] = outcome[s]
    BY <1>0, <1>2 DEF Begin, Enter, Receive, Leave
  <2>2. /\ outcome'[r] = "open"
        /\ pc'[r] \in {"enter", "wait", "complete"} \/ (pc'[r] = "before" /\ err'[r] = "none")
    BY <1>0, <1>2 DEF Begin, Enter, Receive, Leave
  <2> QED BY <1>1, <2>1, <2>2 DEF Leading
<1>3. ASSUME NEW r \in Requests, beforeRequest(r) \/ GiveUp(r) \/ Reserve(r) PROVE OperationErrors'
  <2>1. \A s \in Requests \ {r} : pc'[s] = pc[s] /\ err'[s] = err[s] /\ outcome'[s] = outcome[s]
    BY <1>0, <1>3 DEF beforeRequest, GiveUp, Reserve
  <2>2. err'[r] \in {"none", "circuit open", "canceled"}
    BY <1>0, <1>3 DEF beforeRequest, GiveUp, Reserve
  <2> QED BY <1>1, <2>1, <2>2
<1>4. ASSUME NEW r \in Requests, Return(r) PROVE OperationErrors'
  <2>1. call[r].mode \in Modes
    BY DEF TypeOK
  <2>2. Reply(call[r]) \in {"none", "deadline", "unavailable"}
    BY <2>1 DEF Reply, Modes
  <2>3. PICK e \in {Reply(call[r])} \cup (IF r \in gone THEN {"canceled"} ELSE {}) :
             \/ pc' = [pc EXCEPT ![r] = "attempt"] /\ err' = err
             \/ pc' = [pc EXCEPT ![r] = "after"] /\ err' = [err EXCEPT ![r] = e]
    BY <1>4 DEF Return
  <2>4. e # "conflict" /\ err[r] = "none" /\ outcome' = outcome
    BY <1>0, <1>4, <2>2 DEF Return
  <2>5. /\ \A s \in Requests \ {r} : pc'[s] = pc[s] /\ err'[s] = err[s] /\ outcome'[s] = outcome[s]
        /\ err'[r] # "conflict"
    BY <1>0, <2>3, <2>4
  <2> QED BY <1>1, <2>5
<1>5. ASSUME NEW r \in Requests,
             afterRequest(r) \/ syncCircuitMetric(r) \/ Save(r) \/ Finish(r) \/ Complete(r)
      PROVE  OperationErrors'
  <2>1. /\ err' = err
        /\ \A s \in Requests \ {r} : pc'[s] = pc[s] /\ outcome'[s] = outcome[s]
    BY <1>0, <1>5 DEF afterRequest, syncCircuitMetric, Save, Finish, Complete
  <2>2. \/ pc[r] \in Leading
        \/ pc'[r] = "done" /\ outcome' = outcome
    BY <1>0, <1>5 DEF afterRequest, syncCircuitMetric, Save, Finish, Complete, Leading
  <2> QED BY <1>1, <2>1, <2>2 DEF OperationErrors, Leading
<1>6. CASE \/ \E r \in Requests : Disconnect(r)
           \/ \E m \in Modes : SetFaultMode(m)
           \/ State \/ RequestReset \/ Reset \/ Tick
  <2>1. UNCHANGED <<pc, err, outcome>>
    BY <1>6 DEF Disconnect, SetFaultMode, State, RequestReset, Reset, Tick
  <2> QED BY <2>1 DEF OperationErrors
<1> QED BY <1>2, <1>3, <1>4, <1>5, <1>6 DEF Next, Step

-----------------------------------------------------------------------------
(* The counters. *)

(* The two equations between numbers that are known to be numbers. *)
LEMMA CountFacts ==
  ASSUME TypeOK, CountInv
  PROVE  /\ counters.total \in Nat /\ counters.succeeded \in Nat
         /\ counters.failed \in Nat /\ counters.duplicates \in Nat
         /\ IsFiniteSet(orders \cap InFlight)
         /\ Cardinality(InFlight) \in Nat /\ Cardinality(orders) \in Nat
         /\ Cardinality(orders \cap InFlight) \in Nat
         /\ counters.total = counters.succeeded + counters.failed + counters.duplicates
                                + Cardinality(InFlight)
         /\ Cardinality(orders) = counters.succeeded + Cardinality(orders \cap InFlight)
<1>1. counters.total \in Nat /\ counters.succeeded \in Nat
      /\ counters.failed \in Nat /\ counters.duplicates \in Nat
  BY DEF TypeOK, ZeroCounters
<1>2. IsFiniteSet(orders \cap InFlight)
  BY FS_Intersection DEF CountInv
<1> QED BY <1>1, <1>2, FS_CardinalityType DEF CountInv, CountersAddUp

(* The counters start at zero with nothing in flight and nothing stored.   *)
LEMMA InitCounts == Init => CountInv
<1> SUFFICES ASSUME Init PROVE CountInv
  OBVIOUS
<1>1. InFlight = {} /\ orders = {} /\ orders \cap InFlight = {}
  BY DEF Init, InFlight
<1>2. /\ counters.total = 0 /\ counters.succeeded = 0
      /\ counters.failed = 0 /\ counters.duplicates = 0
  BY DEF Init, ZeroCounters
<1> QED BY <1>1, <1>2, FS_EmptySet DEF CountInv, CountersAddUp

(* The steps of a request between its first and its last that store nothing. *)
BetweenCounts(r) ==
    \/ Enter(r) \/ Receive(r) \/ Leave(r)
    \/ beforeRequest(r) \/ GiveUp(r) \/ Reserve(r) \/ Return(r) \/ afterRequest(r)
    \/ syncCircuitMetric(r) \/ Finish(r) \/ Disconnect(r)

(* Every step keeps the counters' equations. *)
LEMMA StepCounts == ASSUME TypeOK, RegistryInv, CountInv, Next PROVE CountInv'
<1> USE DEF reqVars, registryVars, depVars, resetVars, Goto, Fail
<1>0. /\ pc \in [Requests -> PCs] /\ orders \subseteq Requests
      /\ \A r \in orders : pc[r] \in {"finish", "complete", "done"}
  BY StoredHaveFinished DEF TypeOK
<1>1. ASSUME UNCHANGED <<counters, orders>>, InFlight' = InFlight PROVE CountInv'
  BY <1>1 DEF CountInv, CountersAddUp
<1>2. ASSUME NEW r \in Requests, BetweenCounts(r) PROVE CountInv'
  <2>1. UNCHANGED <<counters, orders>>
    BY <1>2 DEF BetweenCounts, Enter, Receive, Leave, beforeRequest, GiveUp, Reserve, Return,
                afterRequest, syncCircuitMetric, Finish, Disconnect
  <2>2. \/ pc' = pc
        \/ /\ pc' = [pc EXCEPT ![r] = pc'[r]]
           /\ pc[r] \notin {"idle", "done"} /\ pc'[r] \notin {"idle", "done"}
    BY <1>0, <1>2 DEF BetweenCounts, Enter, Receive, Leave, beforeRequest, GiveUp, Reserve,
                      Return, afterRequest, syncCircuitMetric, Finish, Disconnect
  <2>3. InFlight' = InFlight
    BY <1>0, <2>2 DEF InFlight
  <2> QED BY <1>1, <2>1, <2>3
<1>3. ASSUME NEW r \in Requests, Begin(r) PROVE CountInv'
  <2>1. /\ InFlight' = InFlight \cup {r} /\ r \notin InFlight
        /\ orders' = orders /\ r \notin orders
    BY <1>0, <1>3 DEF Begin, InFlight
  <2>2. /\ counters'.total = counters.total + 1 /\ counters'.succeeded = counters.succeeded
        /\ counters'.failed = counters.failed /\ counters'.duplicates = counters.duplicates
    BY <1>3 DEF Begin, TypeOK, ZeroCounters
  <2>3. IsFiniteSet(InFlight') /\ Cardinality(InFlight') = Cardinality(InFlight) + 1
    BY <2>1, FS_AddElement DEF CountInv
  <2>4. orders' \cap InFlight' = orders \cap InFlight
    BY <2>1
  <2> QED BY <2>1, <2>2, <2>3, <2>4, CountFacts DEF CountInv, CountersAddUp
<1>4. ASSUME NEW r \in Requests, Save(r) PROVE CountInv'
  <2>1. /\ InFlight' = InFlight /\ r \in InFlight
        /\ orders' = orders \cup {r} /\ r \notin orders /\ counters' = counters
    BY <1>0, <1>4 DEF Save, InFlight
  <2>2. orders' \cap InFlight' = (orders \cap InFlight) \cup {r} /\ r \notin orders \cap InFlight
    BY <2>1
  <2>3. /\ IsFiniteSet(orders') /\ Cardinality(orders') = Cardinality(orders) + 1
        /\ Cardinality(orders' \cap InFlight') = Cardinality(orders \cap InFlight) + 1
    BY <2>1, <2>2, CountFacts, FS_AddElement DEF CountInv
  <2>4. Cardinality(orders') = counters'.succeeded + Cardinality(orders' \cap InFlight')
    BY <2>1, <2>3, CountFacts
  <2> QED BY <2>1, <2>3, <2>4 DEF CountInv, CountersAddUp
<1>5. ASSUME NEW r \in Requests, Complete(r) PROVE CountInv'
  <2>1. /\ InFlight' = InFlight \ {r} /\ r \in InFlight /\ orders' = orders /\ counters' = Counted(r)
    BY <1>0, <1>5 DEF Complete, InFlight
  <2>2. IsFiniteSet(InFlight') /\ Cardinality(InFlight') = Cardinality(InFlight) - 1
    BY <2>1, FS_RemoveElement DEF CountInv
  <2>3. orders' \cap InFlight' = (orders \cap InFlight) \ {r}
    BY <2>1
  <2>4. Cardinality(orders' \cap InFlight') =
          IF r \in orders THEN Cardinality(orders \cap InFlight) - 1
          ELSE Cardinality(orders \cap InFlight)
    BY <2>1, <2>3, CountFacts, FS_RemoveElement
  <2>5. r \in orders <=> err[r] = "none" /\ ~Replayed(r)
    BY <1>5 DEF Complete, RegistryInv, OrdersOwned, AnswersStored, PastIsDone, Replayed
  <2>6. /\ counters'.total = counters.total
        /\ counters'.succeeded = IF r \in orders THEN counters.succeeded + 1 ELSE counters.succeeded
        /\ counters'.succeeded + counters'.failed + counters'.duplicates
             = counters.succeeded + counters.failed + counters.duplicates + 1
    <3> USE <2>1 DEF Counted, TypeOK, ZeroCounters
    <3>1. CASE err[r] # "none"
      BY <2>5, <3>1, CountFacts
    <3>2. CASE err[r] = "none" /\ Replayed(r)
      BY <2>5, <3>2, CountFacts
    <3>3. CASE err[r] = "none" /\ ~Replayed(r)
      BY <2>5, <3>3, CountFacts
    <3> QED BY <3>1, <3>2, <3>3
  <2> QED BY <2>1, <2>2, <2>4, <2>6, CountFacts DEF CountInv, CountersAddUp
<1>6. CASE Reset
  <2>1. InFlight' = {} /\ orders' = {} /\ orders' \cap InFlight' = {}
    BY <1>6 DEF Reset, Locked, InFlight
  <2>2. /\ counters'.total = 0 /\ counters'.succeeded = 0
        /\ counters'.failed = 0 /\ counters'.duplicates = 0
    BY <1>6 DEF Reset, ZeroCounters
  <2> QED BY <2>1, <2>2, FS_EmptySet DEF CountInv, CountersAddUp
<1>7. CASE (\E m \in Modes : SetFaultMode(m)) \/ State \/ RequestReset \/ Tick
  <2>1. UNCHANGED <<counters, orders, pc>>
    BY <1>7 DEF SetFaultMode, State, RequestReset, Tick
  <2> QED BY <1>1, <2>1 DEF InFlight
<1> QED BY <1>2, <1>3, <1>4, <1>5, <1>6, <1>7 DEF Next, Step, BetweenCounts

-----------------------------------------------------------------------------
(* A new service satisfies the inductive invariant. *)
LEMMA InitEstablishes == Init => IndInv
<1> SUFFICES ASSUME Init PROVE IndInv
  OBVIOUS
<1>1. BreakerInv
  BY DEF Init, BreakerInv, TicketsMatch, Running, Fresh
<1>2. OperationErrors
  BY DEF Init, OperationErrors
<1> QED BY <1>1, <1>2, InitTypes, InitRegistry, InitCounts DEF IndInv

(* The induction step. *)
LEMMA StepPreserves == IndInv /\ [Next]_vars => IndInv'
<1> SUFFICES ASSUME IndInv, [Next]_vars PROVE IndInv'
  OBVIOUS
<1>1. CASE Next
  BY <1>1, StepTypes, StepRegistry, StepErrors, StepBreaker, StepCounts DEF IndInv, RegistryInv
<1>2. CASE UNCHANGED vars
  <2> USE <1>2 DEF vars, reqVars, registryVars, depVars, resetVars, IndInv
  <2>1. TypeOK' /\ AttemptsLeft'
    BY DEF TypeOK, AttemptsLeft
  <2>2. RegistryInv'
    BY DEF RegistryInv, LeadersOwnKeys, EntriesBacked, OutcomesFinal, OrdersOwned,
           ErrorsEndOperations, WaitersMatch, AnswersStored, PastIsDone, Key
  <2>3. BreakerInv' /\ CountInv'
    BY DEF BreakerInv, Running, CountInv, CountersAddUp, InFlight
  <2>4. OperationErrors'
    BY DEF OperationErrors
  <2> QED BY <2>1, <2>2, <2>3, <2>4
<1> QED BY <1>1, <1>2

(* The inductive invariant holds of every reachable state. *)
THEOREM Invariance == Spec => []IndInv
<1>1. Init => IndInv
  BY InitEstablishes
<1>2. IndInv /\ [Next]_vars => IndInv'
  BY StepPreserves
<1> QED BY <1>1, <1>2, PTL DEF Spec

(* The parts the service composes stay well-typed; Retry calls the         *)
(* dependency at most Attempts times.                                      *)
THEOREM TypeCorrect == Spec => []TypeOK
<1>1. IndInv => TypeOK
  BY DEF IndInv
<1> QED BY <1>1, Invariance, PTL

(* A key's result is cached exactly when its order is stored, over         *)
(* failures, disconnects and Resets.                                       *)
THEOREM RegistryAndStore == Spec => []RegistryMatchesStore
<1>1. IndInv => RegistryMatchesStore
  <2> SUFFICES ASSUME IndInv PROVE RegistryMatchesStore
    OBVIOUS
  <2>1. \A o \in orders : entries[Key(o)] = o /\ (outcome[o] = "ok" \/ pc[o] = "finish")
    BY DEF IndInv, RegistryInv, OrdersOwned
  <2>2. ASSUME NEW k \in Keys, entries[k] # None, outcome[entries[k]] = "ok"
        PROVE  entries[k] \in orders
    BY <2>2 DEF IndInv, TypeOK, RegistryInv, EntriesBacked, LeadersOwnKeys
  <2> QED BY <2>1, <2>2 DEF RegistryMatchesStore
<1> QED BY <1>1, Invariance, PTL

(* Every success since the last Reset names a stored order made for its    *)
(* key and input, and a stored order is answered 201 exactly once.         *)
THEOREM Successes == Spec => []SuccessNamesStoredOrder
<1>1. IndInv => SuccessNamesStoredOrder
  <2> SUFFICES ASSUME IndInv, NEW r \in Requests \ past, pc[r] = "done"
               PROVE  /\ Status(r) \in {200, 201} =>
                            joined[r] \in orders /\ request[joined[r]] = request[r]
                      /\ Status(r) = 201 <=> r \in orders
    BY DEF SuccessNamesStoredOrder
  <2>1. /\ Status(r) \in {200, 201} <=> err[r] = "none"
        /\ Status(r) = 201 <=> err[r] = "none" /\ joined[r] = r
    BY DEF Status, Replayed
  <2>2. err[r] = "none" => joined[r] \in orders /\ request[joined[r]] = request[r]
    BY DEF IndInv, RegistryInv, AnswersStored
  <2>3. r \in orders => err[r] = "none" /\ joined[r] = r
    BY DEF IndInv, RegistryInv, OrdersOwned
  <2> QED BY <2>1, <2>2, <2>3
<1> QED BY <1>1, Invariance, PTL

(* The counters add up to the requests they count. *)
THEOREM Counters == Spec => []CountersAddUp
<1>1. IndInv => CountersAddUp
  BY DEF IndInv, CountInv
<1> QED BY <1>1, Invariance, PTL

(* A circuit that waits for its probe is waited for by exactly one request *)
(* that will report.                                                       *)
THEOREM Probe == Spec => []ProbeReports
<1>1. IndInv => ProbeReports
  <2> SUFFICES ASSUME IndInv, breaker.halfOpenProbe
               PROVE  Cardinality({r \in Requests : /\ pc[r] \in {"attempt", "call", "after"}
                                                    /\ ~CB!Ignores(breaker, ticket[r])}) = 1
    BY DEF ProbeReports
  <2> DEFINE F == {r \in Requests : /\ pc[r] \in {"attempt", "call", "after"}
                                    /\ ~CB!Ignores(breaker, ticket[r])}
  <2>1. F = Fresh(breaker, Running, ticket)
    BY DEF Fresh, Running
  <2>2. PICK r : F = {r}
    <3>1. F # {} /\ \A q, s \in F : q = s
      BY <2>1 DEF IndInv, BreakerInv, TicketsMatch
    <3> QED BY <3>1
  <2> QED BY <2>2, FS_Singleton
<1> QED BY <1>1, Invariance, PTL

-----------------------------------------------------------------------------
(* The refinement.  What a request was told is read off its label, its     *)
(* error and the entry it joined.                                          *)
LEMMA AnswerFacts ==
  ASSUME NEW r \in Requests
  PROVE  /\ pc[r] \notin {"complete", "done"} => AnswerOf(r) = Claimed!Pending
         /\ pc[r] \in {"complete", "done"} => AnswerOf(r) # Claimed!Pending
<1>1. Status(r) \in {200, 201, 400, 409, 500, 503}
  BY DEF Status
<1> QED BY <1>1 DEF AnswerOf, Claimed!Pending

(* The answer a step gives, by the error it ends with.                     *)
LEMMA ToldFacts ==
  ASSUME NEW r \in Requests, pc'[r] \in {"complete", "done"}
  PROVE  /\ err'[r] = "none" /\ joined'[r] = r => AnswerOf(r)' = Claimed!Created(r)
         /\ err'[r] = "none" /\ joined'[r] # r => AnswerOf(r)' = Claimed!Replayed(joined'[r])
         /\ err'[r] = "conflict" => AnswerOf(r)' = Claimed!Conflict
         /\ err'[r] \notin {"none", "conflict"} => AnswerOf(r)' = Claimed!Failed
<1>1. /\ err'[r] = "none" => Status(r)' = IF joined'[r] # r THEN 200 ELSE 201
      /\ err'[r] = "conflict" => Status(r)' = 409
      /\ err'[r] \notin {"none", "conflict"} => Status(r)' \in {400, 500, 503}
  BY DEF Status, Replayed
<1>2. CASE err'[r] = "none" /\ joined'[r] = r
  BY <1>1, <1>2 DEF AnswerOf, Claimed!Created
<1>3. CASE err'[r] = "none" /\ joined'[r] # r
  BY <1>1, <1>3 DEF AnswerOf, Claimed!Replayed
<1>4. CASE err'[r] = "conflict"
  BY <1>1, <1>4 DEF AnswerOf, Claimed!Conflict
<1>5. CASE err'[r] \notin {"none", "conflict"}
  BY <1>1, <1>5 DEF AnswerOf, Claimed!Failed
<1> QED BY <1>2, <1>3, <1>4, <1>5

(* A step of one request leaves the other answers alone, and its own while *)
(* the request is on its way.                                              *)
LEMMA OthersKept ==
  ASSUME NEW r \in Requests,
         \A s \in Requests \ {r} : pc'[s] = pc[s] /\ err'[s] = err[s] /\ joined'[s] = joined[s]
  PROVE  [s \in Requests |-> AnswerOf(s)]' =
            [[s \in Requests |-> AnswerOf(s)] EXCEPT ![r] = AnswerOf(r)']
<1>1. \A s \in Requests \ {r} : AnswerOf(s)' = AnswerOf(s)
  BY DEF AnswerOf, Status, Replayed
<1> QED BY <1>1

LEMMA QuietStep ==
  ASSUME NEW r \in Requests,
         \A s \in Requests \ {r} : pc'[s] = pc[s] /\ err'[s] = err[s] /\ joined'[s] = joined[s],
         \/ pc[r] \notin {"complete", "done"} /\ pc'[r] \notin {"complete", "done"}
         \/ /\ pc[r] \in {"complete", "done"} /\ pc'[r] \in {"complete", "done"}
            /\ err'[r] = err[r] /\ joined'[r] = joined[r]
  PROVE  UNCHANGED [s \in Requests |-> AnswerOf(s)]
<1>1. AnswerOf(r)' = AnswerOf(r)
  BY DEF AnswerOf, Status, Replayed
<1>2. \A s \in Requests \ {r} : AnswerOf(s)' = AnswerOf(s)
  BY DEF AnswerOf, Status, Replayed
<1> QED BY <1>1, <1>2

(* A step that ends a request tells it its answer.                         *)
LEMMA ToldStep ==
  ASSUME NEW r \in Requests, pc[r] \notin {"complete", "done"},
         \A s \in Requests \ {r} : pc'[s] = pc[s] /\ err'[s] = err[s] /\ joined'[s] = joined[s]
  PROVE  Claimed!Tell(r, AnswerOf(r)')
<1> DEFINE answer == [s \in Requests |-> AnswerOf(s)]
<1>1. answer[r] = Claimed!Pending
  BY AnswerFacts
<1>2. answer' = [answer EXCEPT ![r] = AnswerOf(r)']
  BY OthersKept
<1> QED BY <1>1, <1>2 DEF Claimed!Tell

(* A request that has not led owns no key.                                 *)
LEMMA StrangersOwnNothing ==
  ASSUME TypeOK, RegistryInv, NEW r \in Requests, pc[r] \in {"idle", "enter", "wait"}
  PROVE  ~Claimed!Owns(r)
<1>1. Key(r) \in Keys
  BY ServiceAssumption DEF TypeOK, Key
<1>2. entries[Key(r)] # r
  BY <1>1, StoredHaveFinished, ServiceAssumption
     DEF RegistryInv, EntriesBacked, Leading
<1> QED BY <1>2 DEF Claimed!Owns, Claimed!Owner, Key

(* Service.CreateOrder keeps the promise of ClaimedOrders for any number   *)
(* of requests, keys, attempts and Resets: a leader's entry is its claim,  *)
(* the end of its operation keeps or returns it together with the answer,  *)
(* and everybody else is told what the claim allows.                       *)
THEOREM Refinement == Spec => ImplementsClaimed
<1> DEFINE answer == [r \in Requests |-> AnswerOf(r)]
           Stutter == UNCHANGED <<request, entries, orders, answer>>
<1>1. Init => Claimed!Init
  BY AnswerFacts DEF Init, Claimed!Init
<1>2. IndInv /\ [Next]_vars => [Claimed!Next]_(Claimed!vars)
  <2> SUFFICES ASSUME IndInv, [Next]_vars PROVE Claimed!Next \/ Stutter
    BY DEF Claimed!vars
  <2> USE DEF reqVars, registryVars, depVars, resetVars, Goto, Fail
  <2> HIDE DEF Stutter
  <2>0. /\ pc \in [Requests -> PCs] /\ err \in [Requests -> Errs]
        /\ joined \in [Requests -> Requests \cup {None}]
        /\ TypeOK /\ RegistryInv /\ OperationErrors
    BY DEF IndInv, TypeOK
  <2>1. ASSUME NEW r \in Requests, ~Claimed!Owns(r), UNCHANGED <<request, entries, orders>>,
               pc[r] \notin {"complete", "done"},
               \A s \in Requests \ {r} : pc'[s] = pc[s] /\ err'[s] = err[s] /\ joined'[s] = joined[s],
               AnswerOf(r)' \in Claimed!MayBeTold(r)
        PROVE  Claimed!Next
    <3>1. Claimed!Tell(r, AnswerOf(r)')
      BY <2>1, ToldStep
    <3>2. Claimed!Answer(r)
      BY <2>1, <3>1 DEF Claimed!Answer
    <3> QED BY <3>2 DEF Claimed!Next
  <2>2. ASSUME NEW r \in Requests, Begin(r) PROVE Claimed!Next \/ Stutter
    <3>1. /\ UNCHANGED <<request, entries, orders, joined>> /\ pc[r] = "idle"
          /\ \A s \in Requests \ {r} : pc'[s] = pc[s] /\ err'[s] = err[s] /\ joined'[s] = joined[s]
          /\ pc'[r] = "enter" \/ (pc'[r] = "complete" /\ err'[r] = "invalid")
      BY <2>0, <2>2 DEF Begin
    <3>2. CASE pc'[r] = "enter"
      BY <3>1, <3>2, QuietStep DEF Stutter
    <3>3. CASE pc'[r] = "complete" /\ err'[r] = "invalid"
      <4>1. AnswerOf(r)' = Claimed!Failed
        BY <3>3, ToldFacts
      <4>2. AnswerOf(r)' \in Claimed!MayBeTold(r)
        BY <4>1 DEF Claimed!MayBeTold
      <4> QED BY <2>0, <2>1, <3>1, <4>2, StrangersOwnNothing
    <3> QED BY <3>1, <3>2, <3>3
  <2>3. ASSUME NEW r \in Requests, Enter(r) PROVE Claimed!Next \/ Stutter
    <3>1. /\ pc[r] = "enter" /\ UNCHANGED <<request, orders>>
          /\ \A s \in Requests \ {r} : pc'[s] = pc[s] /\ err'[s] = err[s] /\ joined'[s] = joined[s]
      BY <2>0, <2>3 DEF Enter
    <3>2. CASE entries[Key(r)] = None
      <4>1. pc'[r] = "before" /\ entries' = [entries EXCEPT ![Key(r)] = r]
        BY <2>0, <2>3, <3>2 DEF Enter
      <4>2. UNCHANGED answer
        BY <3>1, <4>1, QuietStep
      <4>3. answer[r] = Claimed!Pending
        BY <3>1, AnswerFacts
      <4>4. Claimed!Claim(r)
        BY <3>1, <3>2, <4>1, <4>2, <4>3 DEF Claimed!Claim, Claimed!Owner, Key
      <4> QED BY <4>4 DEF Claimed!Next
    <3>3. CASE entries[Key(r)] # None /\ SameInput(entries[Key(r)], r)
      <4>1. pc'[r] = "wait" /\ entries' = entries
        BY <2>0, <2>3, <3>3 DEF Enter
      <4> QED BY <3>1, <4>1, QuietStep DEF Stutter
    <3>4. CASE entries[Key(r)] # None /\ ~SameInput(entries[Key(r)], r)
      <4>1. pc'[r] = "complete" /\ err'[r] = "conflict" /\ entries' = entries
        BY <2>0, <2>3, <3>4 DEF Enter
      <4>2. AnswerOf(r)' = Claimed!Conflict
        BY <4>1, ToldFacts
      <4>3. AnswerOf(r)' \in Claimed!MayBeTold(r)
        BY <3>4, <4>2 DEF Claimed!MayBeTold, Claimed!Owner, SameInput, Fingerprint, Key
      <4> QED BY <2>0, <2>1, <3>1, <4>1, <4>3, StrangersOwnNothing
    <3> QED BY <3>2, <3>3, <3>4
  <2>4. ASSUME NEW r \in Requests, Receive(r) PROVE Claimed!Next
    <3>1. /\ pc[r] = "wait" /\ pc'[r] = "complete" /\ err'[r] = err[joined[r]]
          /\ outcome[joined[r]] # "open" /\ joined'[r] = joined[r]
          /\ UNCHANGED <<request, entries, orders>>
          /\ \A s \in Requests \ {r} : pc'[s] = pc[s] /\ err'[s] = err[s] /\ joined'[s] = joined[s]
      BY <2>0, <2>4 DEF Receive
    <3>2. /\ joined[r] \in Requests \ past /\ request[joined[r]] = request[r]
          /\ pc[joined[r]] \in {"complete", "done"} /\ joined[r] # r
          /\ err[joined[r]] # "conflict"
          /\ err[joined[r]] = "none" => joined[r] \in orders
      BY <2>0, <3>1 DEF RegistryInv, WaitersMatch, OutcomesFinal, OperationErrors
    <3>3. AnswerOf(r)' \in Claimed!MayBeTold(r)
      <4>1. CASE err'[r] = "none"
        <5>1. AnswerOf(r)' = Claimed!Replayed(joined[r])
          BY <3>1, <3>2, <4>1, ToldFacts
        <5> QED BY <3>1, <3>2, <4>1, <5>1 DEF Claimed!MayBeTold
      <4>2. CASE err'[r] # "none"
        <5>1. AnswerOf(r)' = Claimed!Failed
          BY <3>1, <3>2, <4>2, ToldFacts
        <5> QED BY <5>1 DEF Claimed!MayBeTold
      <4> QED BY <4>1, <4>2
    <3> QED BY <2>0, <2>1, <3>1, <3>3, StrangersOwnNothing
  <2>5. ASSUME NEW r \in Requests, Leave(r) PROVE Claimed!Next
    <3>1. /\ pc[r] = "wait" /\ pc'[r] = "complete" /\ err'[r] = "left"
          /\ UNCHANGED <<request, entries, orders>>
          /\ \A s \in Requests \ {r} : pc'[s] = pc[s] /\ err'[s] = err[s] /\ joined'[s] = joined[s]
      BY <2>0, <2>5 DEF Leave
    <3>2. AnswerOf(r)' = Claimed!Failed
      BY <3>1, ToldFacts
    <3>3. AnswerOf(r)' \in Claimed!MayBeTold(r)
      BY <3>2 DEF Claimed!MayBeTold
    <3> QED BY <2>0, <2>1, <3>1, <3>3, StrangersOwnNothing
  <2>6. ASSUME NEW r \in Requests,
               \/ beforeRequest(r) \/ GiveUp(r) \/ Reserve(r) \/ Return(r)
               \/ afterRequest(r) \/ syncCircuitMetric(r) \/ Complete(r)
        PROVE  Stutter
    <3>1. /\ UNCHANGED <<request, entries, orders, joined>>
          /\ \A s \in Requests \ {r} : pc'[s] = pc[s] /\ err'[s] = err[s]
      BY <2>0, <2>6 DEF beforeRequest, GiveUp, Reserve, Return, afterRequest,
                        syncCircuitMetric, Complete
    <3>2. \/ pc[r] \notin {"complete", "done"} /\ pc'[r] \notin {"complete", "done"}
          \/ pc[r] = "complete" /\ pc'[r] = "done" /\ err' = err
      BY <2>0, <2>6 DEF beforeRequest, GiveUp, Reserve, Return, afterRequest,
                        syncCircuitMetric, Complete
    <3> QED BY <3>1, <3>2, QuietStep DEF Stutter
  <2>7. ASSUME NEW r \in Requests, Save(r) PROVE Claimed!Next
    <3>1. /\ pc[r] = "save" /\ pc'[r] = "finish" /\ orders' = orders \cup {r}
          /\ UNCHANGED <<request, entries, err, joined>>
          /\ \A s \in Requests \ {r} : pc'[s] = pc[s]
      BY <2>0, <2>7 DEF Save
    <3>2. UNCHANGED answer
      BY <3>1, QuietStep
    <3>3. answer[r] = Claimed!Pending /\ Claimed!Owns(r)
      BY <2>0, <3>1, AnswerFacts
         DEF RegistryInv, LeadersOwnKeys, Leading, Claimed!Owns, Claimed!Owner, Key
    <3>4. Claimed!Store(r)
      BY <3>1, <3>2, <3>3 DEF Claimed!Store
    <3> QED BY <3>4 DEF Claimed!Next
  <2>8. ASSUME NEW r \in Requests, Finish(r) PROVE Claimed!Next
    <3>1. /\ pc[r] = "finish" /\ pc'[r] = "complete"
          /\ UNCHANGED <<request, orders, err, joined>>
          /\ \A s \in Requests \ {r} : pc'[s] = pc[s]
          /\ entries' = DeleteFailed(r)
      BY <2>0, <2>8 DEF Finish
    <3>2. /\ joined[r] = r /\ entries[Key(r)] = r /\ err[r] # "conflict"
          /\ err[r] = "none" <=> r \in orders
      BY <2>0, <3>1 DEF RegistryInv, LeadersOwnKeys, Leading, OrdersOwned,
                        ErrorsEndOperations, OperationErrors
    <3>3. Claimed!Owns(r) /\ Claimed!Tell(r, AnswerOf(r)')
      BY <3>1, <3>2, ToldStep DEF Claimed!Owns, Claimed!Owner, Key
    <3>4. CASE err[r] = "none"
      <4>1. AnswerOf(r)' = Claimed!Created(r) /\ entries' = entries
        BY <3>1, <3>2, <3>4, ToldFacts DEF DeleteFailed
      <4>2. Claimed!Succeed(r)
        BY <3>1, <3>2, <3>3, <3>4, <4>1 DEF Claimed!Succeed
      <4> QED BY <4>2 DEF Claimed!Next
    <3>5. CASE err[r] # "none"
      <4>1. /\ AnswerOf(r)' = Claimed!Failed
            /\ entries' = [entries EXCEPT ![request[r].key] = None]
        BY <3>1, <3>2, <3>5, ToldFacts DEF DeleteFailed, Key
      <4>2. Claimed!GiveBack(r)
        BY <3>1, <3>2, <3>3, <3>5, <4>1 DEF Claimed!GiveBack
      <4> QED BY <4>2 DEF Claimed!Next
    <3> QED BY <3>4, <3>5
  <2>9. ASSUME Reset PROVE Claimed!Next
    <3>1. /\ UNCHANGED <<request, pc, err, joined>> /\ orders' = {}
          /\ entries' = [k \in Keys |-> None]
          /\ \A r \in Requests : pc[r] \in {"idle", "done"}
      BY <2>9 DEF Reset, Locked, InFlight
    <3>2. \A r \in Requests : Claimed!Owns(r) => answer[r] # Claimed!Pending
      BY <2>0, <3>1, StrangersOwnNothing, AnswerFacts
    <3>3. UNCHANGED answer
      BY <3>1 DEF AnswerOf, Status, Replayed
    <3>4. Claimed!Forget
      BY <3>1, <3>2, <3>3 DEF Claimed!Forget
    <3> QED BY <3>4 DEF Claimed!Next
  <2>10. CASE \/ \E r \in Requests : Disconnect(r)
              \/ \E m \in Modes : SetFaultMode(m)
              \/ State \/ RequestReset \/ Tick \/ UNCHANGED vars
    <3>1. UNCHANGED <<request, pc, err, joined, entries, orders>>
      BY <2>10 DEF Disconnect, SetFaultMode, State, RequestReset, Tick, vars
    <3>2. UNCHANGED answer
      BY <3>1 DEF AnswerOf, Status, Replayed
    <3> QED BY <3>1, <3>2 DEF Stutter
  <2> QED BY <2>2, <2>3, <2>4, <2>5, <2>6, <2>7, <2>8, <2>9, <2>10 DEF Next, Step
<1> QED BY <1>1, <1>2, Invariance, PTL DEF Spec, ImplementsClaimed, Claimed!Spec
=============================================================================
