------------------------ MODULE WebhookOutbox_proofs ------------------------
(***************************************************************************)
(* Proofs about WebhookOutbox for any deliveries, workers, batch size,     *)
(* durations and number of faults, and any MaxAttempts, Lease and          *)
(* RequestTimeout that LoadConfig accepts.                                 *)
(***************************************************************************)
EXTENDS WebhookOutbox, FiniteSetTheorems, TLAPS

(* The attempts of a delivery that are in flight, and those of them whose  *)
(* failure would put the row back to pending.                              *)
Open(d) == {a \in inFlight : a.id = d}
Low(d) == {a \in Open(d) : a.attempts < MaxAttempts}

HistoryTypeOK ==
    /\ reclaims \in [Deliveries -> Nat]
    /\ \A d \in Deliveries : IsFiniteSet(Open(d))

(* An attempt counts as succeeded only after the receiver has accepted.    *)
SucceededWasAccepted ==
    \A a \in inFlight : a.phase = "succeeded" => a.id \in accepted

(* The only attempt of a delivery none of whose attempts outlived its      *)
(* lease is the one that the row's claim stands for.                       *)
ClaimIsCurrent ==
    \A a \in inFlight : a.id \notin outlived =>
        /\ row[a.id].status = "processing"
        /\ row[a.id].attempts = a.attempts
        /\ row[a.id].age = a.elapsed
        /\ a.elapsed < Lease

(* Only the claim of an expired lease adds an attempt to those in flight. *)
OpenWithinReclaims ==
    \A d \in Deliveries :
        Cardinality(Open(d)) <=
            reclaims[d] + IF row[d].status = "processing" THEN 1 ELSE 0

(* A row that has used up MaxAttempts is claimed again only after one of   *)
(* the attempts that may put it back to pending, or by an expired lease.   *)
SpentWithinReclaims ==
    \A d \in Deliveries : row[d].attempts >= MaxAttempts =>
        row[d].attempts + Cardinality(Low(d)) + (IF row[d].status = "pending" THEN 1 ELSE 0)
            <= MaxAttempts + reclaims[d]

(* A delivery none of whose attempts outlived its lease is given up only   *)
(* after MaxAttempts.                                                      *)
GivenUpIsExhausted ==
    \A d \in Deliveries : row[d].status = "dead_letter" /\ d \notin outlived =>
        row[d].attempts >= MaxAttempts

(* The inductive invariant. *)
IndInv ==
    /\ TypeOK
    /\ HistoryTypeOK
    /\ SucceededWasAccepted
    /\ DeliveredWasAccepted
    /\ ClaimIsCurrent
    /\ OneLiveAttempt
    /\ OpenWithinReclaims
    /\ SpentWithinReclaims
    /\ GivenUpIsExhausted

-----------------------------------------------------------------------------
(* A retry waits for a minute at most, after any number of attempts. *)
LEMMA BackoffType == ASSUME NEW n \in Nat PROVE webhookBackoff(n) \in 0 .. BackoffCap
<1> DEFINE shift == IF n < 1 THEN 0 ELSE IF n - 1 < 6 THEN n - 1 ELSE 6
<1>1. shift \in 0 .. 6
  OBVIOUS
<1> HIDE DEF shift
<1>2. 2 ^ shift \in Nat
  <2>1. shift = 0 \/ shift = 1 \/ shift = 2 \/ shift = 3 \/ shift = 4 \/ shift = 5 \/ shift = 6
    BY <1>1
  <2>2. /\ 2^0 \in Nat /\ 2^1 \in Nat /\ 2^2 \in Nat /\ 2^3 \in Nat
        /\ 2^4 \in Nat /\ 2^5 \in Nat /\ 2^6 \in Nat
    OBVIOUS
  <2> QED BY <2>1, <2>2, Zenon
<1>3. webhookBackoff(n) = IF 2 ^ shift < BackoffCap THEN 2 ^ shift ELSE BackoffCap
  BY DEF webhookBackoff, shift
<1> HIDE DEF webhookBackoff
<1> QED BY <1>2, <1>3, BoundAssumption

(* The image of a finite set is finite and has no more elements. *)
LEMMA ImageBound ==
  ASSUME NEW S, IsFiniteSet(S), NEW g, NEW T, T \subseteq {g[x] : x \in S}
  PROVE  IsFiniteSet(T) /\ Cardinality(T) <= Cardinality(S)
<1> DEFINE U == {g[x] : x \in S}
           h == [x \in S |-> g[x]]
<1>1. h \in Surjection(S, U)
  BY DEF Surjection
<1>2. IsFiniteSet(U) /\ Cardinality(U) <= Cardinality(S)
  BY <1>1, FS_Surjection
<1>3. IsFiniteSet(T) /\ Cardinality(T) <= Cardinality(U)
  BY <1>2, FS_Subset
<1> HIDE DEF U
<1> QED BY <1>2, <1>3, FS_CardinalityType

(* The numbers of attempts in flight do not grow when attempts only move   *)
(* on or end.                                                              *)
LEMMA CountsDoNotGrow ==
  ASSUME HistoryTypeOK, NEW d \in Deliveries, NEW g,
         \A a \in inFlight : g[a].id = a.id /\ g[a].attempts = a.attempts,
         inFlight' \subseteq {g[a] : a \in inFlight}
  PROVE  /\ IsFiniteSet(Open(d)')
         /\ Cardinality(Open(d)') <= Cardinality(Open(d))
         /\ Cardinality(Low(d)') <= Cardinality(Low(d))
<1>1. IsFiniteSet(Open(d)) /\ IsFiniteSet(Low(d))
  BY FS_Subset DEF HistoryTypeOK, Low
<1>2. Open(d)' \subseteq {g[a] : a \in Open(d)}
  BY DEF Open
<1>3. Low(d)' \subseteq {g[a] : a \in Low(d)}
  BY DEF Open, Low
<1> QED BY <1>1, <1>2, <1>3, ImageBound

(* The counts are numbers. *)
LEMMA CountsType ==
  ASSUME HistoryTypeOK, NEW d \in Deliveries
  PROVE  /\ IsFiniteSet(Low(d))
         /\ Cardinality(Open(d)) \in Nat
         /\ Cardinality(Low(d)) \in Nat
         /\ Cardinality(Low(d)) <= Cardinality(Open(d))
<1>1. IsFiniteSet(Open(d)) /\ IsFiniteSet(Low(d)) /\ Cardinality(Low(d)) <= Cardinality(Open(d))
  BY FS_Subset DEF HistoryTypeOK, Low
<1> QED BY <1>1, FS_CardinalityType

(* The fields of a row and of an attempt. *)
LEMMA Fields ==
  ASSUME TypeOK
  PROVE  /\ \A d \in Deliveries :
               /\ row[d].status \in Statuses /\ row[d].attempts \in Nat
               /\ row[d].age \in 0 .. Lease /\ row[d].wait \in 0 .. BackoffCap
               /\ DOMAIN row[d] = {"status", "attempts", "age", "wait"}
         /\ \A a \in inFlight :
               /\ a.worker \in Workers /\ a.id \in Deliveries /\ a.attempts \in Nat \ {0}
               /\ a.phase \in Phases /\ a.elapsed \in 0 .. RequestTimeout + MarkDelay
BY DEF TypeOK, Rows, Attempts

(* What a claim and the passing of time do to a row. *)
LEMMA ClaimRowType ==
  ASSUME NEW r \in Rows
  PROVE  /\ ClaimRow(r) \in Rows
         /\ ClaimRow(r).status = "processing"
         /\ ClaimRow(r).attempts = r.attempts + 1
         /\ ClaimRow(r).age = 0
<1> DEFINE fields == {"status", "attempts", "age", "wait"}
<1>1. /\ ClaimRow(r).status = "processing" /\ ClaimRow(r).attempts = r.attempts + 1
      /\ ClaimRow(r).age = 0 /\ ClaimRow(r).wait = r.wait
      /\ ClaimRow(r) = [x \in fields |-> ClaimRow(r)[x]]
  BY DEF ClaimRow, Rows
<1>2. r.attempts \in Nat /\ r.wait \in 0 .. BackoffCap /\ Lease \in Nat
  BY ConfigAssumption DEF Rows, ValidConfig
<1> QED BY <1>1, <1>2 DEF Rows, Statuses

(* Time passing ages a claim up to its lease and brings a retry nearer; it *)
(* changes neither status nor attempts.                                    *)
LEMMA TickRowType ==
  ASSUME NEW r \in Rows
  PROVE  /\ TickRow(r) \in Rows
         /\ TickRow(r).status = r.status
         /\ TickRow(r).attempts = r.attempts
         /\ r.status = "processing" /\ r.age < Lease => TickRow(r).age = r.age + 1
<1> DEFINE older == IF r.status = "processing" /\ r.age < Lease THEN r.age + 1 ELSE r.age
           nearer == IF r.status = "pending" /\ r.wait > 0 THEN r.wait - 1 ELSE r.wait
           fields == {"status", "attempts", "age", "wait"}
<1>1. /\ TickRow(r).status = r.status /\ TickRow(r).attempts = r.attempts
      /\ TickRow(r).age = older /\ TickRow(r).wait = nearer
      /\ TickRow(r) = [x \in fields |-> TickRow(r)[x]]
  BY DEF TickRow, Rows
<1>2. /\ r.status \in Statuses /\ r.attempts \in Nat /\ r.age \in 0 .. Lease
      /\ r.wait \in 0 .. BackoffCap /\ Lease \in Nat /\ BackoffCap \in Nat
  BY ConfigAssumption, BoundAssumption DEF Rows, ValidConfig
<1>3. older \in 0 .. Lease /\ nearer \in 0 .. BackoffCap
  BY <1>2
<1> QED BY <1>1, <1>2, <1>3 DEF Rows

(* Nothing has been claimed. *)
LEMMA InitEstablishes == Init => IndInv
<1> SUFFICES ASSUME Init PROVE IndInv
  OBVIOUS
<1>0. \A d \in Deliveries : row[d] = [status |-> "pending", attempts |-> 0, age |-> 0, wait |-> 0]
                            /\ reclaims[d] = 0 /\ Open(d) = {} /\ Low(d) = {}
  BY DEF Init, Open, Low
<1>1. TypeOK
  BY ConfigAssumption, BoundAssumption DEF Init, TypeOK, Rows, Statuses, ValidConfig
<1>2. HistoryTypeOK
  BY <1>0, FS_EmptySet DEF Init, HistoryTypeOK
<1>3. SucceededWasAccepted /\ DeliveredWasAccepted /\ ClaimIsCurrent /\ OneLiveAttempt
      /\ GivenUpIsExhausted
  BY <1>0 DEF Init, SucceededWasAccepted, DeliveredWasAccepted, ClaimIsCurrent,
              OneLiveAttempt, GivenUpIsExhausted
<1>4. OpenWithinReclaims /\ SpentWithinReclaims
  BY <1>0, FS_EmptySet, ConfigAssumption DEF OpenWithinReclaims, SpentWithinReclaims, ValidConfig
<1> QED BY <1>1, <1>2, <1>3, <1>4 DEF IndInv

-----------------------------------------------------------------------------
(* A claim of a row whose attempts kept their leases finds none of them in *)
(* flight; any claim adds one attempt, and an expired lease pays for it.   *)
LEMMA ClaimPreserves ==
  ASSUME IndInv, NEW w \in Workers, NEW claimed \in SUBSET Deliveries,
         ClaimDeliveries(w, claimed)
  PROVE  IndInv'
<1> DEFINE new(d) == [worker |-> w, id |-> d, attempts |-> row[d].attempts + 1,
                      phase |-> "posting", elapsed |-> 0]
<1> USE DEF IndInv
<1>0. /\ \A d \in claimed : Due(d)
      /\ inFlight' = inFlight \cup {new(d) : d \in claimed}
      /\ row' = [d \in Deliveries |-> IF d \in claimed THEN ClaimRow(row[d]) ELSE row[d]]
      /\ reclaims' = [d \in Deliveries |->
                         IF d \in claimed /\ row[d].status = "processing"
                         THEN reclaims[d] + 1 ELSE reclaims[d]]
      /\ UNCHANGED <<accepted, faults, replays, outlived>>
  BY DEF ClaimDeliveries
<1>1. \A d \in claimed : /\ row'[d] \in Rows /\ row'[d].status = "processing"
                         /\ row'[d].attempts = row[d].attempts + 1 /\ row'[d].age = 0
                         /\ reclaims'[d] = IF row[d].status = "processing"
                                           THEN reclaims[d] + 1 ELSE reclaims[d]
  BY <1>0, ClaimRowType DEF TypeOK
<1>2. ASSUME NEW d \in claimed
      PROVE  new(d) \in Attempts /\ new(d).id = d /\ new(d).attempts = row[d].attempts + 1
             /\ new(d).phase = "posting" /\ new(d).elapsed = 0
  <2>1. row[d].attempts \in Nat
    BY Fields
  <2> QED BY <2>1, ConfigAssumption, BoundAssumption DEF Attempts, Phases, ValidConfig
<1> HIDE DEF new
<1>a. \A d \in Deliveries : d \notin claimed => row'[d] = row[d] /\ reclaims'[d] = reclaims[d]
  BY <1>0
<1>3. ASSUME NEW d \in claimed, d \notin outlived, NEW a \in inFlight PROVE a.id # d
  <2>1. Due(d) /\ row[d].age \in Nat /\ Lease \in Nat
    BY <1>0, Fields, ConfigAssumption DEF ValidConfig
  <2> QED BY <1>3, <2>1 DEF ClaimIsCurrent, Due
<1>4. TypeOK'
  <2>1. row' \in [Deliveries -> Rows]
    BY <1>0, ClaimRowType DEF TypeOK
  <2>2. inFlight' \subseteq Attempts
    BY <1>0, <1>2 DEF TypeOK
  <2> QED BY <1>0, <2>1, <2>2 DEF TypeOK
<1>5. ASSUME NEW d \in Deliveries
      PROVE  Open(d)' = IF d \in claimed THEN Open(d) \cup {new(d)} ELSE Open(d)
  BY <1>0, <1>2 DEF Open
<1>6. HistoryTypeOK'
  <2>1. reclaims' \in [Deliveries -> Nat]
    BY <1>0 DEF HistoryTypeOK
  <2>2. \A d \in Deliveries : IsFiniteSet(Open(d)')
    BY <1>5, FS_AddElement DEF HistoryTypeOK
  <2> QED BY <2>1, <2>2 DEF HistoryTypeOK
<1>7. SucceededWasAccepted' /\ DeliveredWasAccepted' /\ GivenUpIsExhausted'
  <2>1. SucceededWasAccepted'
    BY <1>0, <1>2 DEF SucceededWasAccepted
  <2>2. DeliveredWasAccepted' /\ GivenUpIsExhausted'
    BY <1>0, <1>1, <1>a DEF DeliveredWasAccepted, GivenUpIsExhausted
  <2> QED BY <2>1, <2>2
<1>8. ClaimIsCurrent'
  <2> SUFFICES ASSUME NEW a \in inFlight', a.id \notin outlived
               PROVE  /\ row'[a.id].status = "processing" /\ row'[a.id].attempts = a.attempts
                      /\ row'[a.id].age = a.elapsed /\ a.elapsed < Lease
    BY <1>0 DEF ClaimIsCurrent
  <2>1. CASE a \in inFlight
    <3>1. a.id \in Deliveries \ claimed
      BY <1>3, <2>1, Fields
    <3> QED BY <1>0, <2>1, <3>1 DEF ClaimIsCurrent
  <2>2. ASSUME NEW d \in claimed, a = new(d)
        PROVE  /\ row'[a.id].status = "processing" /\ row'[a.id].attempts = a.attempts
               /\ row'[a.id].age = a.elapsed /\ a.elapsed < Lease
    BY <1>1, <1>2, <2>2, ConfigAssumption DEF ValidConfig
  <2> QED BY <1>0, <2>1, <2>2
<1>9. OneLiveAttempt'
  <2> SUFFICES ASSUME NEW a \in inFlight', NEW b \in inFlight', a.id = b.id, a # b,
                      a.id \notin outlived
               PROVE  FALSE
    BY <1>0 DEF OneLiveAttempt
  <2>1. CASE a \in inFlight /\ b \in inFlight
    BY <2>1 DEF OneLiveAttempt
  <2>2. CASE a \notin inFlight \/ b \notin inFlight
    BY <1>0, <1>2, <1>3, <2>2
  <2> QED BY <2>1, <2>2
<1>10. \A d \in Deliveries :
         /\ Cardinality(Open(d)') \in Nat /\ Cardinality(Low(d)') \in Nat
         /\ d \notin claimed => Cardinality(Open(d)') = Cardinality(Open(d))
                                /\ Cardinality(Low(d)') = Cardinality(Low(d))
         /\ d \in claimed => /\ Cardinality(Open(d)') <= Cardinality(Open(d)) + 1
                             /\ row'[d].attempts >= MaxAttempts => Low(d)' = Low(d)
  <2> TAKE d \in Deliveries
  <2>1. Cardinality(Open(d)') \in Nat /\ Cardinality(Low(d)') \in Nat
    <3>1. Low(d)' \subseteq Open(d)' /\ IsFiniteSet(Open(d)')
      BY <1>6 DEF HistoryTypeOK, Low
    <3> QED BY <3>1, FS_Subset, FS_CardinalityType
  <2>2. ASSUME d \notin claimed
        PROVE  Cardinality(Open(d)') = Cardinality(Open(d)) /\ Cardinality(Low(d)') = Cardinality(Low(d))
    BY <1>5, <2>2 DEF Low
  <2>3. ASSUME d \in claimed PROVE Cardinality(Open(d)') <= Cardinality(Open(d)) + 1
    <3>1. /\ IsFiniteSet(Open(d)) /\ Cardinality(Open(d)) \in Nat
          /\ Open(d)' = Open(d) \cup {new(d)}
      BY <1>5, <2>3, CountsType DEF HistoryTypeOK
    <3>2. Cardinality(Open(d) \cup {new(d)}) \in {Cardinality(Open(d)), Cardinality(Open(d)) + 1}
      <4>1. Cardinality(Open(d) \cup {new(d)})
              = IF new(d) \in Open(d) THEN Cardinality(Open(d)) ELSE Cardinality(Open(d)) + 1
        BY <3>1, FS_AddElement
      <4> QED BY <4>1
    <3> QED BY <3>1, <3>2
  <2>4. ASSUME d \in claimed, row'[d].attempts >= MaxAttempts PROVE Low(d)' = Low(d)
    <3>1. /\ row[d].attempts \in Nat /\ MaxAttempts \in Nat
          /\ Open(d)' = Open(d) \cup {new(d)} /\ ~(new(d).attempts < MaxAttempts)
      BY <1>1, <1>2, <1>5, <2>4, Fields, ConfigAssumption DEF ValidConfig
    <3> QED BY <3>1 DEF Low
  <2> QED BY <2>1, <2>2, <2>3, <2>4
<1>11. OpenWithinReclaims'
  <2> SUFFICES ASSUME NEW d \in Deliveries
               PROVE  Cardinality(Open(d)') <= reclaims'[d] + IF row'[d].status = "processing" THEN 1 ELSE 0
    BY DEF OpenWithinReclaims
  <2>1. CASE d \in claimed
    <3>1. row[d].status \in {"pending", "processing"}
      BY <1>0, <2>1 DEF Due
    <3>2. /\ Cardinality(Open(d)) \in Nat /\ Cardinality(Open(d)') \in Nat /\ reclaims[d] \in Nat
          /\ Cardinality(Open(d)') <= Cardinality(Open(d)) + 1
          /\ Cardinality(Open(d)) <= reclaims[d] + IF row[d].status = "processing" THEN 1 ELSE 0
      BY <1>10, <2>1, CountsType DEF OpenWithinReclaims, HistoryTypeOK
    <3> QED BY <1>1, <2>1, <3>1, <3>2
  <2>2. CASE d \notin claimed
    BY <1>0, <1>10, <2>2 DEF OpenWithinReclaims
  <2> QED BY <2>1, <2>2
<1>12. SpentWithinReclaims'
  <2> SUFFICES ASSUME NEW d \in Deliveries, row'[d].attempts >= MaxAttempts
               PROVE  row'[d].attempts + Cardinality(Low(d)')
                        + (IF row'[d].status = "pending" THEN 1 ELSE 0) <= MaxAttempts + reclaims'[d]
    BY DEF SpentWithinReclaims
  <2>1. CASE d \in claimed
    <3>1. row[d].status \in {"pending", "processing"}
      BY <1>0, <2>1 DEF Due
    <3>2. /\ row[d].attempts \in Nat /\ reclaims[d] \in Nat /\ MaxAttempts \in Nat
          /\ Cardinality(Low(d)) \in Nat /\ Cardinality(Open(d)) \in Nat
          /\ Cardinality(Low(d)) <= Cardinality(Open(d))
          /\ Cardinality(Low(d)') = Cardinality(Low(d))
      BY <1>10, <2>1, Fields, CountsType, ConfigAssumption DEF HistoryTypeOK, ValidConfig
    <3>3. CASE row[d].attempts >= MaxAttempts
      <4>1. row[d].attempts + Cardinality(Low(d)) + (IF row[d].status = "pending" THEN 1 ELSE 0)
              <= MaxAttempts + reclaims[d]
        BY <3>3 DEF SpentWithinReclaims
      <4> QED BY <1>1, <2>1, <3>1, <3>2, <4>1
    <3>4. CASE row[d].attempts + 1 = MaxAttempts
      <4>1. Cardinality(Open(d)) <= reclaims[d] + IF row[d].status = "processing" THEN 1 ELSE 0
        BY DEF OpenWithinReclaims
      <4> QED BY <1>1, <2>1, <3>1, <3>2, <3>4, <4>1
    <3> QED BY <1>1, <2>1, <3>2, <3>3, <3>4
  <2>2. CASE d \notin claimed
    BY <1>0, <1>10, <2>2 DEF SpentWithinReclaims
  <2> QED BY <2>1, <2>2
<1> QED BY <1>4, <1>6, <1>7, <1>8, <1>9, <1>11, <1>12

-----------------------------------------------------------------------------
(* What is left to show of a step that neither claims nor marks a row and  *)
(* whose attempts only move on or end.                                     *)
LEMMA CountsPreserved ==
  ASSUME IndInv, TypeOK', NEW g,
         \A a \in inFlight : g[a].id = a.id /\ g[a].attempts = a.attempts,
         inFlight' \subseteq {g[a] : a \in inFlight},
         \A d \in Deliveries : /\ row'[d].status = row[d].status
                               /\ row'[d].attempts = row[d].attempts,
         UNCHANGED reclaims
  PROVE  HistoryTypeOK' /\ OpenWithinReclaims' /\ SpentWithinReclaims'
<1> USE DEF IndInv
<1>1. ASSUME NEW d \in Deliveries
      PROVE  /\ IsFiniteSet(Open(d)')
             /\ Cardinality(Open(d)') <= Cardinality(Open(d))
             /\ Cardinality(Low(d)') <= Cardinality(Low(d))
  BY CountsDoNotGrow
<1>2. HistoryTypeOK'
  BY <1>1 DEF HistoryTypeOK
<1>3. ASSUME NEW d \in Deliveries
      PROVE  /\ Cardinality(Open(d)') \in Nat /\ Cardinality(Low(d)') \in Nat
             /\ Cardinality(Open(d)) \in Nat /\ Cardinality(Low(d)) \in Nat
             /\ row[d].attempts \in Nat /\ reclaims[d] \in Nat /\ MaxAttempts \in Nat
  <2>1. Low(d)' \subseteq Open(d)' /\ IsFiniteSet(Open(d)')
    BY <1>1 DEF Low
  <2>2. Cardinality(Open(d)') \in Nat /\ Cardinality(Low(d)') \in Nat
    BY <2>1, FS_Subset, FS_CardinalityType
  <2> QED BY <2>2, CountsType, Fields, ConfigAssumption DEF HistoryTypeOK, ValidConfig
<1>4. OpenWithinReclaims'
  <2> SUFFICES ASSUME NEW d \in Deliveries
               PROVE  Cardinality(Open(d)') <= reclaims[d] + IF row[d].status = "processing" THEN 1 ELSE 0
    BY DEF OpenWithinReclaims
  <2>1. Cardinality(Open(d)) <= reclaims[d] + IF row[d].status = "processing" THEN 1 ELSE 0
    BY DEF OpenWithinReclaims
  <2> QED BY <1>1, <1>3, <2>1
<1>5. SpentWithinReclaims'
  <2> SUFFICES ASSUME NEW d \in Deliveries, row[d].attempts >= MaxAttempts
               PROVE  row[d].attempts + Cardinality(Low(d)')
                        + (IF row[d].status = "pending" THEN 1 ELSE 0) <= MaxAttempts + reclaims[d]
    BY DEF SpentWithinReclaims
  <2>1. row[d].attempts + Cardinality(Low(d)) + (IF row[d].status = "pending" THEN 1 ELSE 0)
          <= MaxAttempts + reclaims[d]
    BY DEF SpentWithinReclaims
  <2> QED BY <1>1, <1>3, <2>1
<1> QED BY <1>2, <1>4, <1>5

(* The post returns: a success it reports was accepted by the receiver. *)
LEMMA PostPreserves ==
  ASSUME IndInv, NEW a \in inFlight, NEW ok \in BOOLEAN, NEW received \in BOOLEAN,
         Post(a, ok, received)
  PROVE  IndInv'
<1> USE DEF IndInv
<1> DEFINE next == [a EXCEPT !.phase = Outcome(received, ok)]
           g == [b \in inFlight |-> IF b = a THEN next ELSE b]
<1>0. /\ inFlight' = (inFlight \ {a}) \cup {next}
      /\ accepted' = IF ok THEN accepted \cup {a.id} ELSE accepted
      /\ UNCHANGED <<row, faults, replays, reclaims, outlived>>
  BY DEF Post, history
<1>1. /\ next \in Attempts /\ next.id = a.id /\ next.attempts = a.attempts
      /\ next.elapsed = a.elapsed /\ (next.phase = "succeeded" => ok)
  <2>1. a \in Attempts /\ Outcome(received, ok) \in Phases
        /\ (Outcome(received, ok) = "succeeded" => ok)
    BY DEF TypeOK, Outcome, Phases
  <2> HIDE DEF Outcome
  <2> QED BY <2>1 DEF Attempts
<1> HIDE DEF next
<1>2. TypeOK'
  BY <1>0, <1>1, Fields DEF TypeOK
<1>3. SucceededWasAccepted' /\ DeliveredWasAccepted'
  BY <1>0, <1>1 DEF SucceededWasAccepted, DeliveredWasAccepted
<1>4. ClaimIsCurrent' /\ GivenUpIsExhausted'
  BY <1>0, <1>1 DEF ClaimIsCurrent, GivenUpIsExhausted
<1>5. OneLiveAttempt'
  BY <1>0, <1>1 DEF OneLiveAttempt
<1>6. HistoryTypeOK' /\ OpenWithinReclaims' /\ SpentWithinReclaims'
  <2>1. \A b \in inFlight : g[b].id = b.id /\ g[b].attempts = b.attempts
    BY <1>1
  <2>2. inFlight' \subseteq {g[b] : b \in inFlight}
    BY <1>0
  <2> HIDE DEF g
  <2> QED BY <1>0, <1>2, <2>1, <2>2, CountsPreserved
<1> QED BY <1>2, <1>3, <1>4, <1>5, <1>6

(* Attempts end and nothing is written. *)
LEMMA DropPreserves ==
  ASSUME IndInv, inFlight' \subseteq inFlight,
         faults' \in 0 .. MaxFaults,
         UNCHANGED <<row, accepted, replays, reclaims, outlived>>
  PROVE  IndInv'
<1> USE DEF IndInv
<1> DEFINE g == [b \in inFlight |-> b]
<1>1. TypeOK'
  BY DEF TypeOK
<1>2. SucceededWasAccepted' /\ DeliveredWasAccepted' /\ ClaimIsCurrent' /\ OneLiveAttempt'
      /\ GivenUpIsExhausted'
  BY DEF SucceededWasAccepted, DeliveredWasAccepted, ClaimIsCurrent, OneLiveAttempt,
         GivenUpIsExhausted
<1>3. HistoryTypeOK' /\ OpenWithinReclaims' /\ SpentWithinReclaims'
  <2>1. /\ \A b \in inFlight : g[b].id = b.id /\ g[b].attempts = b.attempts
        /\ inFlight' \subseteq {g[b] : b \in inFlight}
    OBVIOUS
  <2> HIDE DEF g
  <2> QED BY <1>1, <2>1, CountsPreserved
<1> QED BY <1>1, <1>2, <1>3

(* A mark of a processing row.  A delivery none of whose attempts outlived *)
(* its lease has no other attempt in flight; a mark back to pending uses   *)
(* up one of the attempts that may do so.                                  *)
LEMMA MarkPreserves ==
  ASSUME IndInv, NEW a \in inFlight, NEW r \in Rows,
         row[a.id].status = "processing",
         r.attempts = row[a.id].attempts,
         \/ r.status = "delivered" /\ a.phase = "succeeded"
         \/ r.status = "pending" /\ a.attempts < MaxAttempts
         \/ r.status = "dead_letter" /\ a.attempts >= MaxAttempts,
         row' = [row EXCEPT ![a.id] = r],
         inFlight' = inFlight \ {a},
         UNCHANGED <<accepted, faults, replays, reclaims, outlived>>
  PROVE  IndInv'
<1> USE DEF IndInv
<1>0. /\ a.id \in Deliveries /\ row \in [Deliveries -> Rows]
      /\ row'[a.id] = r /\ \A d \in Deliveries : d # a.id => row'[d] = row[d]
  BY Fields DEF TypeOK
<1>1. TypeOK'
  BY <1>0 DEF TypeOK
<1>2. SucceededWasAccepted' /\ DeliveredWasAccepted'
  BY <1>0 DEF SucceededWasAccepted, DeliveredWasAccepted
<1>3. ClaimIsCurrent'
  <2> SUFFICES ASSUME NEW b \in inFlight', b.id \notin outlived
               PROVE  b.id # a.id /\ b.id \in Deliveries
    BY <1>0 DEF ClaimIsCurrent
  <2> QED BY Fields DEF OneLiveAttempt
<1>4. OneLiveAttempt'
  BY DEF OneLiveAttempt
<1>5. GivenUpIsExhausted'
  <2>1. a.id \notin outlived => row[a.id].attempts = a.attempts
    BY DEF ClaimIsCurrent
  <2> QED BY <1>0, <2>1 DEF GivenUpIsExhausted
<1>6. ASSUME NEW d \in Deliveries
      PROVE  /\ IsFiniteSet(Open(d)) /\ IsFiniteSet(Low(d))
             /\ Open(d)' = Open(d) \ {a} /\ Low(d)' = Low(d) \ {a}
             /\ Cardinality(Open(d)) \in Nat /\ Cardinality(Low(d)) \in Nat
             /\ row[d].attempts \in Nat /\ reclaims[d] \in Nat /\ MaxAttempts \in Nat
  <2>1. Open(d)' = Open(d) \ {a}
    BY DEF Open
  <2>2. Low(d)' = Low(d) \ {a}
    BY <2>1 DEF Low
  <2> QED BY <2>1, <2>2, CountsType, Fields, ConfigAssumption DEF HistoryTypeOK, ValidConfig
<1>7. ASSUME NEW d \in Deliveries
      PROVE  /\ IsFiniteSet(Open(d)')
             /\ Cardinality(Open(d)') = IF a \in Open(d) THEN Cardinality(Open(d)) - 1
                                        ELSE Cardinality(Open(d))
             /\ Cardinality(Low(d)') = IF a \in Low(d) THEN Cardinality(Low(d)) - 1
                                       ELSE Cardinality(Low(d))
  BY <1>6, FS_RemoveElement
<1>8. HistoryTypeOK'
  BY <1>7 DEF HistoryTypeOK
<1>9. OpenWithinReclaims'
  <2> SUFFICES ASSUME NEW d \in Deliveries
               PROVE  Cardinality(Open(d)') <= reclaims[d] + IF row'[d].status = "processing" THEN 1 ELSE 0
    BY DEF OpenWithinReclaims
  <2>1. Cardinality(Open(d)) <= reclaims[d] + IF row[d].status = "processing" THEN 1 ELSE 0
    BY DEF OpenWithinReclaims
  <2>2. CASE d = a.id
    <3>1. a \in Open(d) /\ row'[d].status # "processing"
      BY <1>0, <2>2 DEF Open
    <3> QED BY <1>6, <1>7, <2>1, <2>2, <3>1
  <2>3. CASE d # a.id
    BY <1>0, <1>6, <1>7, <2>1, <2>3
  <2> QED BY <2>2, <2>3
<1>10. SpentWithinReclaims'
  <2> SUFFICES ASSUME NEW d \in Deliveries, row'[d].attempts >= MaxAttempts
               PROVE  row'[d].attempts + Cardinality(Low(d)')
                        + (IF row'[d].status = "pending" THEN 1 ELSE 0) <= MaxAttempts + reclaims[d]
    BY DEF SpentWithinReclaims
  <2>0. row'[d].attempts = row[d].attempts
    BY <1>0
  <2>1. row[d].attempts + Cardinality(Low(d)) + (IF row[d].status = "pending" THEN 1 ELSE 0)
          <= MaxAttempts + reclaims[d]
    BY <2>0 DEF SpentWithinReclaims
  <2>2. CASE d = a.id /\ r.status = "pending"
    <3>1. a \in Low(d) /\ row'[d].status = "pending" /\ row[d].status = "processing"
      BY <1>0, <2>2 DEF Open, Low
    <3> QED BY <1>6, <1>7, <2>0, <2>1, <3>1
  <2>3. CASE d = a.id /\ r.status # "pending"
    <3>1. row'[d].status # "pending" /\ row[d].status = "processing"
      BY <1>0, <2>3
    <3> QED BY <1>6, <1>7, <2>0, <2>1, <3>1
  <2>4. CASE d # a.id
    BY <1>0, <1>6, <1>7, <2>0, <2>1, <2>4
  <2> QED BY <2>2, <2>3, <2>4
<1> QED BY <1>1, <1>2, <1>3, <1>4, <1>5, <1>8, <1>9, <1>10

(* A late mark finds the row delivered, given up or pending and changes    *)
(* nothing.                                                                *)
LEMMA SucceededPreserves ==
  ASSUME IndInv, NEW a \in inFlight, MarkDeliverySucceeded(a) PROVE IndInv'
<1>1. CASE ~Markable(a)
  BY <1>1, DropPreserves DEF MarkDeliverySucceeded, history, IndInv, TypeOK
<1>2. CASE Markable(a)
  <2> DEFINE r == [row[a.id] EXCEPT !.status = "delivered"]
  <2>1. a.id \in Deliveries /\ row[a.id] \in Rows
    BY Fields DEF IndInv, TypeOK
  <2>2. r \in Rows /\ r.status = "delivered" /\ r.attempts = row[a.id].attempts
    BY <2>1 DEF Rows, Statuses
  <2>3. row' = [row EXCEPT ![a.id] = r] /\ inFlight' = inFlight \ {a} /\ a.phase = "succeeded"
        /\ UNCHANGED <<accepted, faults, replays, reclaims, outlived>>
    BY <1>2 DEF MarkDeliverySucceeded, history
  <2> HIDE DEF r
  <2> QED BY <1>2, <2>2, <2>3, MarkPreserves DEF Markable
<1> QED BY <1>1, <1>2

(* Marking an attempt as failed reschedules or dead-letters a row that is  *)
(* still processing, and leaves any other row alone.                       *)
LEMMA FailedPreserves ==
  ASSUME IndInv, NEW a \in inFlight, MarkDeliveryFailed(a) PROVE IndInv'
<1>1. CASE ~Markable(a)
  BY <1>1, DropPreserves DEF MarkDeliveryFailed, history, IndInv, TypeOK
<1>2. CASE Markable(a)
  <2> DEFINE r1 == [row[a.id] EXCEPT !.status = FailedStatus(a)]
             r == [r1 EXCEPT !.wait = webhookBackoff(a.attempts)]
  <2>1. a.id \in Deliveries /\ row[a.id] \in Rows /\ a.attempts \in Nat /\ MaxAttempts \in Nat
    BY Fields, ConfigAssumption DEF IndInv, TypeOK, ValidConfig
  <2>2. /\ FailedStatus(a) \in Statuses
        /\ webhookBackoff(a.attempts) \in 0 .. BackoffCap
        /\ \/ FailedStatus(a) = "pending" /\ a.attempts < MaxAttempts
           \/ FailedStatus(a) = "dead_letter" /\ a.attempts >= MaxAttempts
    BY <2>1, BackoffType DEF FailedStatus, Statuses
  <2>3. row' = [row EXCEPT ![a.id] = r] /\ inFlight' = inFlight \ {a}
        /\ UNCHANGED <<accepted, faults, replays, reclaims, outlived>>
    BY <1>2 DEF MarkDeliveryFailed, history
  <2> HIDE DEF FailedStatus, webhookBackoff
  <2>4. r1 \in Rows /\ r1.status = FailedStatus(a) /\ r1.attempts = row[a.id].attempts
    BY <2>1, <2>2 DEF Rows
  <2> HIDE DEF r1
  <2>5. r \in Rows /\ r.status = r1.status /\ r.attempts = r1.attempts
    BY <2>2, <2>4 DEF Rows
  <2> HIDE DEF r
  <2> QED BY <1>2, <2>2, <2>3, <2>4, <2>5, MarkPreserves DEF Markable
<1> QED BY <1>1, <1>2

(* The mark is lost, or the replica stops with all its attempts. *)
LEMMA FaultPreserves ==
  ASSUME IndInv, (\E a \in inFlight : MarkLost(a)) \/ (\E w \in Workers : Stop(w))
  PROVE  IndInv'
<1>1. /\ inFlight' \subseteq inFlight /\ faults > 0 /\ faults' = faults - 1
      /\ UNCHANGED <<row, accepted, replays, reclaims, outlived>>
  BY DEF MarkLost, Stop, history
<1>2. faults' \in 0 .. MaxFaults
  BY <1>1, BoundAssumption DEF IndInv, TypeOK
<1> QED BY <1>1, <1>2, DropPreserves

(* A replayed row starts again; none of its attempts is in flight unless   *)
(* one outlived its lease.                                                 *)
LEMMA ReplayPreserves ==
  ASSUME IndInv, NEW d \in Deliveries, ReplayDelivery(d) PROVE IndInv'
<1> USE DEF IndInv
<1> DEFINE r1 == [row[d] EXCEPT !.status = "pending"]
           r2 == [r1 EXCEPT !.attempts = 0]
           r == [r2 EXCEPT !.wait = 0]
<1>0. /\ row' = [row EXCEPT ![d] = r] /\ row[d].status = "dead_letter"
      /\ replays > 0 /\ replays' = replays - 1
      /\ UNCHANGED <<inFlight, accepted, faults, reclaims, outlived>>
  BY DEF ReplayDelivery, history
<1>1. r1 \in Rows /\ r1.status = "pending"
  BY DEF TypeOK, Rows, Statuses
<1> HIDE DEF r1
<1>2. r2 \in Rows /\ r2.status = "pending" /\ r2.attempts = 0
  BY <1>1 DEF Rows
<1> HIDE DEF r2
<1>3. r \in Rows /\ r.status = "pending" /\ r.attempts = 0
  BY <1>2, BoundAssumption DEF Rows
<1> HIDE DEF r
<1>4. /\ row'[d] = r /\ \A e \in Deliveries : e # d => row'[e] = row[e]
  BY <1>0 DEF TypeOK
<1>5. TypeOK'
  BY <1>0, <1>3, BoundAssumption DEF TypeOK
<1>6. SucceededWasAccepted' /\ DeliveredWasAccepted' /\ OneLiveAttempt' /\ GivenUpIsExhausted'
  BY <1>0, <1>3, <1>4 DEF SucceededWasAccepted, DeliveredWasAccepted, OneLiveAttempt,
                          GivenUpIsExhausted
<1>7. ClaimIsCurrent'
  BY <1>0, <1>4, Fields DEF ClaimIsCurrent
<1>8. \A e \in Deliveries : Open(e)' = Open(e) /\ Low(e)' = Low(e)
  BY <1>0 DEF Open, Low
<1>9. HistoryTypeOK' /\ OpenWithinReclaims'
  BY <1>0, <1>3, <1>4, <1>8 DEF HistoryTypeOK, OpenWithinReclaims
<1>10. SpentWithinReclaims'
  BY <1>0, <1>3, <1>4, <1>8, ConfigAssumption DEF SpentWithinReclaims, ValidConfig
<1> QED BY <1>5, <1>6, <1>7, <1>9, <1>10

(* Rows and attempts grow old together. *)
LEMMA TickPreserves == ASSUME IndInv, Tick PROVE IndInv'
<1> USE DEF IndInv
<1> DEFINE g == [a \in inFlight |-> [a EXCEPT !.elapsed = @ + 1]]
<1>0. /\ row' = [d \in Deliveries |-> TickRow(row[d])]
      /\ inFlight' = {g[a] : a \in inFlight}
      /\ \A a \in inFlight : a.elapsed < Deadline(a)
      /\ outlived' = outlived \cup {a.id : a \in {b \in inFlight' : b.elapsed >= Lease}}
      /\ UNCHANGED <<accepted, faults, replays, reclaims>>
  BY DEF Tick
<1>1. ASSUME NEW a \in inFlight
      PROVE  /\ g[a] \in Attempts /\ g[a].id = a.id /\ g[a].attempts = a.attempts
             /\ g[a].phase = a.phase /\ g[a].elapsed = a.elapsed + 1
             /\ a.id \in Deliveries /\ a.elapsed \in Nat
  <2>1. a \in Attempts /\ a.elapsed \in Nat /\ a.elapsed + 1 \in 0 .. RequestTimeout + MarkDelay
    BY <1>0, Fields, ConfigAssumption, BoundAssumption DEF TypeOK, Deadline, ValidConfig
  <2> QED BY <2>1 DEF Attempts
<1> HIDE DEF g
<1>2. ASSUME NEW d \in Deliveries
      PROVE  /\ row'[d] \in Rows /\ row'[d].status = row[d].status
             /\ row'[d].attempts = row[d].attempts
             /\ row[d].status = "processing" /\ row[d].age < Lease => row'[d].age = row[d].age + 1
  BY <1>0, TickRowType DEF TypeOK
<1>3. TypeOK'
  BY <1>0, <1>1, <1>2 DEF TypeOK
<1>4. SucceededWasAccepted' /\ DeliveredWasAccepted' /\ GivenUpIsExhausted'
  BY <1>0, <1>1, <1>2 DEF SucceededWasAccepted, DeliveredWasAccepted, GivenUpIsExhausted
<1>5. ASSUME NEW a \in inFlight, a.id \notin outlived'
      PROVE  a.id \notin outlived /\ a.elapsed + 1 < Lease
  <2>1. ~(g[a].elapsed >= Lease)
    BY <1>0, <1>1, <1>5
  <2> QED BY <1>0, <1>1, <1>5, <2>1, ConfigAssumption DEF ValidConfig
<1>6. ClaimIsCurrent'
  <2> SUFFICES ASSUME NEW a \in inFlight, g[a].id \notin outlived'
               PROVE  /\ row'[g[a].id].status = "processing"
                      /\ row'[g[a].id].attempts = g[a].attempts
                      /\ row'[g[a].id].age = g[a].elapsed /\ g[a].elapsed < Lease
    BY <1>0 DEF ClaimIsCurrent
  <2>1. /\ row[a.id].status = "processing" /\ row[a.id].attempts = a.attempts
        /\ row[a.id].age = a.elapsed /\ a.elapsed < Lease /\ a.elapsed + 1 < Lease
    BY <1>1, <1>5 DEF ClaimIsCurrent
  <2> QED BY <1>1, <1>2, <2>1
<1>7. OneLiveAttempt'
  <2> SUFFICES ASSUME NEW a \in inFlight, NEW b \in inFlight, g[a].id = g[b].id, g[a] # g[b]
               PROVE  g[a].id \in outlived'
    BY <1>0 DEF OneLiveAttempt
  <2> QED BY <1>0, <1>1 DEF OneLiveAttempt
<1>8. HistoryTypeOK' /\ OpenWithinReclaims' /\ SpentWithinReclaims'
  BY <1>0, <1>1, <1>2, <1>3, CountsPreserved
<1> QED BY <1>3, <1>4, <1>6, <1>7, <1>8

-----------------------------------------------------------------------------
(* The induction step. *)
LEMMA StepPreserves == IndInv /\ [Next]_vars => IndInv'
<1> SUFFICES ASSUME IndInv, [Next]_vars PROVE IndInv'
  OBVIOUS
<1>1. ASSUME NEW w \in Workers, NEW claimed \in SUBSET Deliveries, ClaimDeliveries(w, claimed)
      PROVE  IndInv'
  BY <1>1, ClaimPreserves
<1>2. ASSUME NEW a \in inFlight, NEW ok \in BOOLEAN, NEW received \in BOOLEAN,
             Post(a, ok, received)
      PROVE  IndInv'
  BY <1>2, PostPreserves
<1>3. ASSUME NEW a \in inFlight, MarkDeliverySucceeded(a) PROVE IndInv'
  BY <1>3, SucceededPreserves
<1>4. ASSUME NEW a \in inFlight, MarkDeliveryFailed(a) PROVE IndInv'
  BY <1>4, FailedPreserves
<1>5. CASE (\E a \in inFlight : MarkLost(a)) \/ (\E w \in Workers : Stop(w))
  BY <1>5, FaultPreserves
<1>6. ASSUME NEW d \in Deliveries, ReplayDelivery(d) PROVE IndInv'
  BY <1>6, ReplayPreserves
<1>7. CASE Tick
  BY <1>7, TickPreserves
<1>8. CASE UNCHANGED vars
  BY <1>8 DEF vars, history, IndInv, TypeOK, HistoryTypeOK, SucceededWasAccepted,
              DeliveredWasAccepted, ClaimIsCurrent, OneLiveAttempt, OpenWithinReclaims,
              SpentWithinReclaims, GivenUpIsExhausted, Open, Low
<1> QED BY <1>1, <1>2, <1>3, <1>4, <1>5, <1>6, <1>7, <1>8 DEF Next

(* The inductive invariant holds of every reachable state. *)
THEOREM Invariance == Spec => []IndInv
<1>1. Init => IndInv
  BY InitEstablishes
<1>2. IndInv /\ [Next]_vars => IndInv'
  BY StepPreserves
<1> QED BY <1>1, <1>2, PTL DEF Spec

(* The table and the attempts stay well-typed: a retry waits for a minute  *)
(* at most and no attempt outlives its timeout and the delay of its mark.  *)
THEOREM TypeCorrect == Spec => []TypeOK
<1>1. IndInv => TypeOK
  BY DEF IndInv
<1> QED BY <1>1, Invariance, PTL

(* A row says delivered only when the receiver has accepted the webhook. *)
THEOREM NoInventedDelivery == Spec => []DeliveredWasAccepted
<1>1. IndInv => DeliveredWasAccepted
  BY DEF IndInv
<1> QED BY <1>1, Invariance, PTL

(* Two attempts of a delivery are in flight only after one outlived its    *)
(* lease.                                                                  *)
THEOREM LeaseExcludes == Spec => []OneLiveAttempt
<1>1. IndInv => OneLiveAttempt
  BY DEF IndInv
<1> QED BY <1>1, Invariance, PTL

(* A row is claimed beyond MaxAttempts only as often as a lease of it      *)
(* expired, and given up before only when an attempt outlived its lease.   *)
THEOREM BudgetKept == Spec => []RetryBudget
<1>1. IndInv => RetryBudget
  <2> SUFFICES ASSUME IndInv, NEW d \in Deliveries
               PROVE  /\ row[d].attempts <= MaxAttempts + reclaims[d]
                      /\ row[d].status = "dead_letter" /\ d \notin outlived =>
                            row[d].attempts >= MaxAttempts
    BY DEF RetryBudget
  <2>1. /\ row[d].attempts \in Nat /\ MaxAttempts \in Nat /\ reclaims[d] \in Nat
        /\ Cardinality(Low(d)) \in Nat
    BY Fields, CountsType, ConfigAssumption DEF IndInv, HistoryTypeOK, ValidConfig
  <2>2. row[d].attempts >= MaxAttempts =>
          row[d].attempts + Cardinality(Low(d)) + (IF row[d].status = "pending" THEN 1 ELSE 0)
            <= MaxAttempts + reclaims[d]
    BY DEF IndInv, SpentWithinReclaims
  <2>3. row[d].attempts <= MaxAttempts + reclaims[d]
    BY <2>1, <2>2
  <2> QED BY <2>3 DEF IndInv, GivenUpIsExhausted
<1> QED BY <1>1, Invariance, PTL

(* delivered is final and only an operator's replay leaves dead_letter:    *)
(* claims take due rows only and marks take processing rows only.          *)
THEOREM TerminalStates == Spec => TerminalStatesHold
<1> DEFINE Held == \A d \in Deliveries :
              /\ row[d].status = "delivered" => row'[d].status = "delivered"
              /\ row[d].status = "dead_letter" =>
                    row'[d].status = "dead_letter" \/ replays' < replays
<1>1. IndInv /\ [Next]_vars => [Held]_vars
  <2> SUFFICES ASSUME IndInv, Next, NEW d \in Deliveries,
                      row[d].status \in {"delivered", "dead_letter"}
               PROVE  row'[d].status = row[d].status
                      \/ (row[d].status = "dead_letter" /\ replays' < replays)
    BY DEF vars
  <2>0. row \in [Deliveries -> Rows] /\ replays \in Nat
    BY BoundAssumption DEF IndInv, TypeOK
  <2>1. ASSUME NEW w \in Workers, NEW claimed \in SUBSET Deliveries, ClaimDeliveries(w, claimed)
        PROVE  row'[d] = row[d]
    <3>1. d \notin claimed
      BY <2>1 DEF ClaimDeliveries, Due
    <3> QED BY <2>1, <3>1 DEF ClaimDeliveries
  <2>2. ASSUME NEW a \in inFlight, MarkDeliverySucceeded(a) \/ MarkDeliveryFailed(a)
        PROVE  row'[d] = row[d]
    <3>1. a.id \in Deliveries
      BY Fields DEF IndInv
    <3>2. CASE ~Markable(a)
      BY <2>2, <3>2 DEF MarkDeliverySucceeded, MarkDeliveryFailed
    <3>3. CASE Markable(a)
      <4>1. d # a.id
        BY <3>3 DEF Markable
      <4> QED BY <2>0, <2>2, <3>1, <4>1 DEF MarkDeliverySucceeded, MarkDeliveryFailed
    <3> QED BY <3>2, <3>3
  <2>3. ASSUME NEW e \in Deliveries, ReplayDelivery(e)
        PROVE  row'[d].status = row[d].status
               \/ (row[d].status = "dead_letter" /\ replays' < replays)
    BY <2>0, <2>3 DEF ReplayDelivery
  <2>4. CASE Tick
    <3>1. row'[d] = TickRow(row[d]) /\ row[d] \in Rows
      BY <2>0, <2>4 DEF Tick
    <3> QED BY <3>1, TickRowType
  <2>5. ASSUME (\E a \in inFlight : \E ok, received \in BOOLEAN : Post(a, ok, received))
               \/ (\E a \in inFlight : MarkLost(a)) \/ (\E w \in Workers : Stop(w))
        PROVE  row' = row
    BY <2>5 DEF Post, MarkLost, Stop
  <2> QED BY <2>1, <2>2, <2>3, <2>4, <2>5 DEF Next
<1> QED BY <1>1, Invariance, PTL DEF Spec, TerminalStatesHold
=============================================================================
