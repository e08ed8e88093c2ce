--------------------- MODULE IdempotencyRegistry_proofs ---------------------
(***************************************************************************)
(* Proofs about IdempotencyRegistry for any callers, scopes, fingerprints, *)
(* TTL, purge interval and length of the run.                              *)
(***************************************************************************)
EXTENDS IdempotencyRegistry, TLAPS

(* An entry that is in the map belongs to its scope and is a running       *)
(* operation's or a success's: failures were deleted.                      *)
EntriesAreLive ==
    \A s \in Scopes : entries[s] # NoEntry =>
        /\ Scope(entries[s]) = s
        /\ pc[entries[s]] = "leading" \/ finished[entries[s]] # 0

(* Only a call that has led has a result, and the result's lifetime starts *)
(* when the operation ends.                                                *)
ResultsExpireAfterTTL ==
    \A c \in Callers :
        /\ finished[c] # 0 => pc[c] = "led"
        /\ expiresAt[c] = IF finished[c] = 0 THEN 0 ELSE finished[c] + TTL

(* A result stays in the map for its whole lifetime: nobody can decide     *)
(* with a time that lies in the future.                                    *)
RetainedForTTL ==
    \A c \in Callers : finished[c] # 0 /\ clock < finished[c] + TTL => entries[Scope(c)] = c

(* The inductive invariant. *)
IndInv ==
    /\ TypeOK
    /\ LeaderOwnsScope
    /\ OneSuccessPerTTL
    /\ EntriesAreLive
    /\ ResultsExpireAfterTTL
    /\ RetainedForTTL

(* Nobody has called and the map is empty. *)
LEMMA InitEstablishes == Init => IndInv
<1> SUFFICES ASSUME Init PROVE IndInv
  OBVIOUS
<1>1. TypeOK
  BY ConfigAssumption DEF Init, TypeOK, PCs
<1>2. LeaderOwnsScope /\ OneSuccessPerTTL /\ EntriesAreLive /\ ResultsExpireAfterTTL
      /\ RetainedForTTL
  BY ConfigAssumption DEF Init, LeaderOwnsScope, OneSuccessPerTTL, EntriesAreLive,
                          ResultsExpireAfterTTL, RetainedForTTL
<1> QED BY <1>1, <1>2 DEF IndInv

(* What a purge leaves in the map when it runs with a time that is not in  *)
(* the future: nothing new, every running operation, and every result that *)
(* has not lived for TTL.                                                  *)
LEMMA PurgeKeepsLive ==
  ASSUME IndInv, NEW t \in 0 .. clock, NEW force \in BOOLEAN
  PROVE  LET m == AfterPurge(t, force)
         IN  /\ m \in [Scopes -> Callers \cup {NoEntry}]
             /\ \A s \in Scopes : m[s] \in {entries[s], NoEntry}
             /\ \A c \in Callers : pc[c] = "leading" => m[Scope(c)] = c
             /\ \A c \in Callers :
                   finished[c] # 0 /\ clock < finished[c] + TTL => m[Scope(c)] = c
<1> DEFINE m == AfterPurge(t, force)
<1>0. /\ entries \in [Scopes -> Callers \cup {NoEntry}]
      /\ \A c \in Callers : Scope(c) \in Scopes
      /\ clock \in Nat /\ finished \in [Callers -> Nat] /\ TTL \in Nat
  BY ConfigAssumption DEF IndInv, TypeOK, Scope
<1>1. m \in [Scopes -> Callers \cup {NoEntry}] /\ \A s \in Scopes : m[s] \in {entries[s], NoEntry}
  BY <1>0 DEF AfterPurge, Purged
<1>2. ASSUME NEW c \in Callers, pc[c] = "leading" PROVE m[Scope(c)] = c
  <2>1. entries[Scope(c)] = c /\ finished[c] = 0
    BY <1>2 DEF IndInv, LeaderOwnsScope, ResultsExpireAfterTTL
  <2>2. ~Expired(c, t)
    BY <2>1 DEF IndInv, ResultsExpireAfterTTL, Expired
  <2> QED BY <1>0, <2>1, <2>2 DEF AfterPurge, Purged
<1>3. ASSUME NEW c \in Callers, finished[c] # 0, clock < finished[c] + TTL
      PROVE  m[Scope(c)] = c
  <2>1. entries[Scope(c)] = c
    BY <1>3 DEF IndInv, RetainedForTTL
  <2>2. ~Expired(c, t)
    BY <1>0, <1>3 DEF IndInv, ResultsExpireAfterTTL, Expired
  <2> QED BY <1>0, <2>1, <2>2 DEF AfterPurge, Purged
<1> QED BY <1>1, <1>2, <1>3

(* The caller leads, waits or is refused.  It leads only when the scope    *)
(* has neither a running operation nor a result younger than TTL.          *)
LEMMA EnterPreserves ==
  ASSUME IndInv, NEW c \in Callers, Enter(c) PROVE IndInv'
<1> DEFINE m == AfterPurge(now[c], FALSE)
           s == Scope(c)
           lead == ~Live(m, s, now[c])
<1>0. /\ now[c] \in 0 .. clock /\ s \in Scopes /\ clock \in Nat
      /\ finished \in [Callers -> Nat] /\ TTL \in Nat \ {0}
      /\ NoEntry \notin Callers /\ PurgeInterval \in Nat \ {0}
  BY ConfigAssumption DEF IndInv, TypeOK, Scope
<1>1. /\ m \in [Scopes -> Callers \cup {NoEntry}]
      /\ \A x \in Scopes : m[x] \in {entries[x], NoEntry}
      /\ \A d \in Callers : pc[d] = "leading" => m[Scope(d)] = d
      /\ \A d \in Callers : finished[d] # 0 /\ clock < finished[d] + TTL => m[Scope(d)] = d
  BY <1>0, PurgeKeepsLive
<1>2. /\ entries' = IF lead THEN [m EXCEPT ![s] = c] ELSE m
      /\ pc[c] = "arrived"
      /\ pc' = [pc EXCEPT ![c] = pc'[c]]
      /\ pc'[c] \in {"leading", "waiting", "conflict"}
      /\ pc'[c] = "leading" <=> lead
      /\ UNCHANGED <<request, clock, now, expiresAt, outcome, finished>>
  BY DEF Enter, IndInv, TypeOK
<1>3. ASSUME lead, NEW d \in Callers, Scope(d) = s
      PROVE  pc[d] # "leading" /\ (finished[d] # 0 => clock >= finished[d] + TTL)
  <2>1. m[s] = d => Expired(d, now[c])
    BY <1>0, <1>1, <1>3 DEF Live
  <2> HIDE DEF m, lead
  <2>2. ASSUME Expired(d, now[c]) PROVE finished[d] # 0 /\ clock >= finished[d] + TTL
    BY <1>0, <2>2 DEF Expired, IndInv, ResultsExpireAfterTTL
  <2>3. CASE pc[d] = "leading"
    <3>1. finished[d] = 0
      BY <2>3 DEF IndInv, ResultsExpireAfterTTL
    <3> QED BY <1>1, <1>3, <2>1, <2>2, <2>3, <3>1
  <2>4. CASE pc[d] # "leading" /\ finished[d] # 0
    BY <1>0, <1>1, <1>3, <2>1, <2>2, <2>4
  <2> QED BY <2>3, <2>4
<1> HIDE DEF m, lead
<1>4. TypeOK'
  <2>1. joined' \in [Callers -> Callers \cup {NoEntry}]
    BY <1>0, <1>1 DEF Enter, IndInv, TypeOK, m
  <2>2. nextPurge' \in 1 .. clock + PurgeInterval
    <3>1. nextPurge' \in {now[c] + PurgeInterval, nextPurge}
      BY DEF Enter, NextPurge
    <3>2. nextPurge \in 1 .. clock + PurgeInterval
      BY DEF IndInv, TypeOK
    <3> QED BY <1>0, <3>1, <3>2
  <2>3. entries' \in [Scopes -> Callers \cup {NoEntry}] /\ pc' \in [Callers -> PCs]
    BY <1>0, <1>1, <1>2 DEF IndInv, TypeOK, PCs
  <2> QED BY <1>2, <2>1, <2>2, <2>3 DEF IndInv, TypeOK
<1>5. LeaderOwnsScope'
  BY <1>0, <1>1, <1>2, <1>3 DEF IndInv, TypeOK, LeaderOwnsScope, Scope
<1>6. EntriesAreLive'
  BY <1>0, <1>1, <1>2 DEF IndInv, TypeOK, EntriesAreLive, Scope
<1>7. ResultsExpireAfterTTL'
  BY <1>2 DEF IndInv, TypeOK, ResultsExpireAfterTTL
<1>8. RetainedForTTL'
  BY <1>0, <1>1, <1>2, <1>3 DEF IndInv, TypeOK, RetainedForTTL, Scope
<1>9. OneSuccessPerTTL'
  BY <1>2 DEF IndInv, OneSuccessPerTTL, Scope
<1> QED BY <1>4, <1>5, <1>6, <1>7, <1>8, <1>9 DEF IndInv

(* The leader's operation ends: its scope is its own, so whoever succeeded *)
(* before did so at least TTL ago.                                         *)
LEMMA FinishPreserves ==
  ASSUME IndInv, NEW c \in Callers, NEW ok \in BOOLEAN, Finish(c, ok) PROVE IndInv'
<1>0. /\ Scope(c) \in Scopes /\ clock \in Nat \ {0} /\ TTL \in Nat \ {0}
      /\ finished \in [Callers -> Nat] /\ expiresAt \in [Callers -> Nat]
      /\ NoEntry \notin Callers
  BY ConfigAssumption DEF IndInv, TypeOK, Scope
<1>1. entries[Scope(c)] = c /\ finished[c] = 0 /\ pc[c] = "leading"
  BY DEF IndInv, LeaderOwnsScope, ResultsExpireAfterTTL, Finish
<1>2. \A d \in Callers : d # c /\ Scope(d) = Scope(c) =>
          pc[d] # "leading" /\ (finished[d] # 0 => clock >= finished[d] + TTL)
  BY <1>0, <1>1 DEF IndInv, LeaderOwnsScope, RetainedForTTL
<1>3. /\ UNCHANGED <<request, clock, now, joined, nextPurge>>
      /\ pc' = [pc EXCEPT ![c] = "led"]
      /\ finished' = IF ok THEN [finished EXCEPT ![c] = clock] ELSE finished
      /\ expiresAt' = IF ok THEN [expiresAt EXCEPT ![c] = clock + TTL] ELSE expiresAt
      /\ entries' = IF ok THEN entries ELSE [entries EXCEPT ![Scope(c)] = NoEntry]
  BY DEF Finish, Expiry, DeleteFailed
<1>4. TypeOK'
  BY <1>0, <1>3 DEF IndInv, TypeOK, Finish, PCs, Close
<1>5. LeaderOwnsScope'
  BY <1>0, <1>1, <1>2, <1>3 DEF IndInv, TypeOK, LeaderOwnsScope, Scope
<1>6. EntriesAreLive'
  BY <1>0, <1>1, <1>3 DEF IndInv, TypeOK, EntriesAreLive, Scope
<1>7. ResultsExpireAfterTTL'
  BY <1>0, <1>1, <1>3 DEF IndInv, TypeOK, ResultsExpireAfterTTL
<1>8. RetainedForTTL'
  BY <1>0, <1>1, <1>2, <1>3 DEF IndInv, TypeOK, RetainedForTTL, Scope
<1>9. OneSuccessPerTTL'
  <2>1. CASE ok
    BY <1>0, <1>1, <1>2, <1>3, <2>1 DEF IndInv, OneSuccessPerTTL, Scope
  <2>2. CASE ~ok
    BY <1>3, <2>2 DEF IndInv, OneSuccessPerTTL, Scope
  <2> QED BY <2>1, <2>2
<1> QED BY <1>4, <1>5, <1>6, <1>7, <1>8, <1>9 DEF IndInv

(* The steps of a call that touch nothing but its own position. *)
LEMMA LocalPreserves ==
  ASSUME IndInv, NEW c \in Callers, Arrive(c) \/ Receive(c) \/ Cancel(c) PROVE IndInv'
<1>1. /\ UNCHANGED <<request, clock, entries, expiresAt, outcome, joined, nextPurge, finished>>
      /\ pc[c] \in {"idle", "waiting"}
      /\ pc' = [pc EXCEPT ![c] = pc'[c]]
      /\ pc'[c] \in {"arrived", "replayed", "cancelled"}
      /\ now' \in [Callers -> 0 .. clock]
  BY DEF Arrive, Receive, Cancel, IndInv, TypeOK
<1>2. TypeOK'
  BY <1>1 DEF IndInv, TypeOK, PCs
<1>3. LeaderOwnsScope' /\ EntriesAreLive' /\ ResultsExpireAfterTTL'
  BY <1>1 DEF IndInv, TypeOK, LeaderOwnsScope, EntriesAreLive, ResultsExpireAfterTTL, Scope
<1>4. RetainedForTTL' /\ OneSuccessPerTTL'
  BY <1>1 DEF IndInv, RetainedForTTL, OneSuccessPerTTL, Scope
<1> QED BY <1>2, <1>3, <1>4 DEF IndInv

(* PurgeExpired deletes only results whose TTL is over, so the entries of  *)
(* running leaders and of retained successes stay.                         *)
LEMMA PurgePreserves ==
  ASSUME IndInv, NEW t \in 1 .. clock, PurgeExpired(t) PROVE IndInv'
<1> DEFINE m == AfterPurge(t, TRUE)
<1>0. clock \in Nat /\ t \in Nat \ {0} /\ t \in 0 .. clock /\ NoEntry \notin Callers
      /\ PurgeInterval \in Nat \ {0}
  BY ConfigAssumption DEF IndInv, TypeOK
<1>1. /\ m \in [Scopes -> Callers \cup {NoEntry}]
      /\ \A x \in Scopes : m[x] \in {entries[x], NoEntry}
      /\ \A d \in Callers : pc[d] = "leading" => m[Scope(d)] = d
      /\ \A d \in Callers : finished[d] # 0 /\ clock < finished[d] + TTL => m[Scope(d)] = d
  BY <1>0, PurgeKeepsLive
<1>2. /\ entries' = m /\ nextPurge' = t + PurgeInterval
      /\ UNCHANGED <<request, clock, pc, now, expiresAt, outcome, joined, finished>>
  BY DEF PurgeExpired, NextPurge
<1> HIDE DEF m
<1>3. TypeOK'
  BY <1>0, <1>1, <1>2 DEF IndInv, TypeOK
<1>4. LeaderOwnsScope' /\ EntriesAreLive' /\ RetainedForTTL'
  BY <1>0, <1>1, <1>2 DEF IndInv, LeaderOwnsScope, EntriesAreLive, RetainedForTTL, Scope
<1>5. ResultsExpireAfterTTL' /\ OneSuccessPerTTL'
  BY <1>2 DEF IndInv, ResultsExpireAfterTTL, OneSuccessPerTTL, Scope
<1> QED BY <1>3, <1>4, <1>5 DEF IndInv

(* Time passing ends retention at the earliest when a TTL is over, which is *)
(* what RetainedForTTL counts.                                             *)
LEMMA TickPreserves == ASSUME IndInv, Tick PROVE IndInv'
<1>0. clock \in Nat /\ TTL \in Nat /\ PurgeInterval \in Nat /\ MaxTime \in Nat
      /\ finished \in [Callers -> Nat]
  BY ConfigAssumption DEF IndInv, TypeOK
<1>1. TypeOK'
  BY <1>0 DEF IndInv, TypeOK, Tick
<1>2. LeaderOwnsScope' /\ EntriesAreLive' /\ ResultsExpireAfterTTL' /\ OneSuccessPerTTL'
  BY DEF IndInv, Tick, LeaderOwnsScope, EntriesAreLive, ResultsExpireAfterTTL,
         OneSuccessPerTTL, Scope
<1>3. RetainedForTTL'
  BY <1>0 DEF IndInv, Tick, RetainedForTTL, Scope
<1> QED BY <1>1, <1>2, <1>3 DEF IndInv

(* The induction step. *)
LEMMA StepPreserves == IndInv /\ [Next]_vars => IndInv'
<1> SUFFICES ASSUME IndInv, [Next]_vars PROVE IndInv'
  OBVIOUS
<1>1. ASSUME NEW c \in Callers, Arrive(c) \/ Receive(c) \/ Cancel(c) PROVE IndInv'
  BY <1>1, LocalPreserves
<1>2. ASSUME NEW c \in Callers, Enter(c) PROVE IndInv'
  BY <1>2, EnterPreserves
<1>3. ASSUME NEW c \in Callers, NEW ok \in BOOLEAN, Finish(c, ok) PROVE IndInv'
  BY <1>3, FinishPreserves
<1>4. ASSUME NEW t \in 1 .. clock, PurgeExpired(t) PROVE IndInv'
  BY <1>4, PurgePreserves
<1>5. CASE Tick
  BY <1>5, TickPreserves
<1>6. CASE UNCHANGED vars
  BY <1>6 DEF vars, IndInv, TypeOK, LeaderOwnsScope, OneSuccessPerTTL, EntriesAreLive,
              ResultsExpireAfterTTL, RetainedForTTL, Scope
<1> QED BY <1>1, <1>2, <1>3, <1>4, <1>5, <1>6 DEF Next

(* The inductive invariant holds of every reachable state. *)
THEOREM Invariance == Spec => []IndInv
<1>1. Init => IndInv
  BY InitEstablishes
<1>2. IndInv /\ [Next]_vars => IndInv'
  BY StepPreserves
<1> QED BY <1>1, <1>2, PTL DEF Spec

(* The registry's fields stay well-typed: no reading of the clock lies in  *)
(* its future and no result lives longer than TTL.                         *)
THEOREM TypeCorrect == Spec => []TypeOK
<1>1. IndInv => TypeOK
  BY DEF IndInv
<1> QED BY <1>1, Invariance, PTL

(* While an operation runs, its entry is the one in the map, so a scope    *)
(* has one running operation at most.                                      *)
THEOREM Leader == Spec => []LeaderOwnsScope
<1>1. IndInv => LeaderOwnsScope
  BY DEF IndInv
<1> QED BY <1>1, Invariance, PTL

(* Two successes of one scope are at least TTL apart. *)
THEOREM SuccessesApart == Spec => []OneSuccessPerTTL
<1>1. IndInv => OneSuccessPerTTL
  BY DEF IndInv
<1> QED BY <1>1, Invariance, PTL
=============================================================================
