------------------------- MODULE IdempotencyRegistry -------------------------
(***************************************************************************)
(* The in-process idempotency registry of internal/reliability/            *)
(* idempotency.go.  The first caller of a (tenant, key) scope leads: it    *)
(* installs an entry and runs the operation outside the mutex.  Callers    *)
(* that find the entry wait for it or are answered from it.                *)
(*                                                                         *)
(* A caller is one call of DoWithFingerprint.  It reads the clock before   *)
(* it takes the mutex, so the time it decides with may be old.  An entry   *)
(* is a heap object: waiters keep it after it left the map.  It is named   *)
(* after the caller that created it.                                       *)
(***************************************************************************)
EXTENDS Integers, FiniteSets

CONSTANTS
    Callers,        \* calls of DoWithFingerprint
    Scopes,         \* (tenant, key) pairs
    Fingerprints,
    NoEntry,        \* absent from the map
    TTL,            \* lifetime of a successful result
    PurgeInterval,  \* min(ttl, time.Minute)
    MaxTime         \* bound: the clock stops there

ASSUME ConfigAssumption ==
    /\ TTL \in Nat \ {0}
    /\ PurgeInterval \in 1 .. TTL
    /\ MaxTime \in Nat \ {0}
    /\ NoEntry \notin Callers

VARIABLES
    request,    \* scope and fingerprint of every call
    clock,
    pc,
    now,        \* the caller's local variable now
    entries,    \* the map: the entry of each scope
    expiresAt,  \* entry field; 0 is the zero time
    outcome,    \* entry field: "open" until ready is closed, then "ok" or "error"
    joined,     \* the entry a caller waits for or was answered from
    nextPurge,
    finished    \* history: when a caller's operation succeeded (0: not yet)

vars == <<request, clock, pc, now, entries, expiresAt, outcome, joined, nextPurge, finished>>

Scope(c) == request[c].scope
Fingerprint(c) == request[c].fingerprint

PCs == {"idle", "arrived", "leading", "waiting", "led", "replayed", "conflict", "cancelled"}

-----------------------------------------------------------------------------
Init ==
    /\ request \in [Callers -> [scope : Scopes, fingerprint : Fingerprints]]
    /\ clock = 1
    /\ pc = [c \in Callers |-> "idle"]
    /\ now = [c \in Callers |-> 0]
    /\ entries = [s \in Scopes |-> NoEntry]
    /\ expiresAt = [c \in Callers |-> 0]
    /\ outcome = [c \in Callers |-> "open"]
    /\ joined = [c \in Callers |-> NoEntry]
    /\ nextPurge = 1 + PurgeInterval
    /\ finished = [c \in Callers |-> 0]

(* now := r.clock.Now(), before the mutex is taken. *)
Arrive(c) ==
    /\ pc[c] = "idle"
    /\ pc' = [pc EXCEPT ![c] = "arrived"]
    /\ now' = [now EXCEPT ![c] = clock]
    /\ UNCHANGED <<request, clock, entries, expiresAt, outcome, joined, nextPurge, finished>>

(* Mutant: the zero expiry of a running operation is taken for the past. *)
ExpiredOrRunning(e, t) == t >= expiresAt[e]

(* An entry whose result has expired; a running operation's entry has the  *)
(* zero time and never does.                                               *)
Expired(e, t) == expiresAt[e] # 0 /\ t >= expiresAt[e]

(* The map after purgeExpiredLocked, and the next purge it schedules. *)
Purged(t) ==
    [s \in Scopes |->
        IF entries[s] # NoEntry /\ Expired(entries[s], t) THEN NoEntry ELSE entries[s]]

PurgeDue(t, force) == force \/ t >= nextPurge

AfterPurge(t, force) == IF PurgeDue(t, force) THEN Purged(t) ELSE entries

NextPurge(t) == t + PurgeInterval

Live(m, s, t) == m[s] # NoEntry /\ ~Expired(m[s], t)

SameFingerprint(e, c) == Fingerprint(e) = Fingerprint(c)

(* The first critical section of DoWithFingerprint. *)
Enter(c) ==
    LET m == AfterPurge(now[c], FALSE)
        s == Scope(c)
        lead == ~Live(m, s, now[c])
        same == ~lead /\ SameFingerprint(m[s], c)
    IN  /\ pc[c] = "arrived"
        /\ entries' = IF lead THEN [m EXCEPT ![s] = c] ELSE m
        /\ joined' = IF same THEN [joined EXCEPT ![c] = m[s]] ELSE joined
        /\ pc' = [pc EXCEPT ![c] = IF lead THEN "leading"
                                   ELSE IF same THEN "waiting" ELSE "conflict"]
        /\ nextPurge' = IF PurgeDue(now[c], FALSE) THEN NextPurge(now[c]) ELSE nextPurge
        /\ UNCHANGED <<request, clock, now, expiresAt, outcome, finished>>

(* Mutant: the lifetime is counted from the caller's arrival. *)
ExpiryFromArrival(c) == now[c] + TTL

Expiry(c) == clock + TTL

DeleteFailed(c, ok) == IF ok THEN entries ELSE [entries EXCEPT ![Scope(c)] = NoEntry]

(* Mutant: ready is not closed on an error. *)
CloseOnSuccess(ok) == IF ok THEN "ok" ELSE "open"

Close(ok) == IF ok THEN "ok" ELSE "error"

(* The operation returned: the second critical section. *)
Finish(c, ok) ==
    /\ pc[c] = "leading"
    /\ outcome' = [outcome EXCEPT ![c] = Close(ok)]
    /\ expiresAt' = IF ok THEN [expiresAt EXCEPT ![c] = Expiry(c)] ELSE expiresAt
    /\ entries' = DeleteFailed(c, ok)
    /\ finished' = IF ok THEN [finished EXCEPT ![c] = clock] ELSE finished
    /\ pc' = [pc EXCEPT ![c] = "led"]
    /\ UNCHANGED <<request, clock, now, joined, nextPurge>>

(* waitForIdempotencyResult: the entry is ready, or the context is done.   *)
(* An entry found ready is preferred over a cancelled context; when the    *)
(* second select chooses the context although ready was closed meanwhile,  *)
(* that is the same as leaving just before.                                *)
Receive(c) ==
    /\ pc[c] = "waiting" /\ outcome[joined[c]] # "open"
    /\ pc' = [pc EXCEPT ![c] = "replayed"]
    /\ UNCHANGED <<request, clock, now, entries, expiresAt, outcome, joined, nextPurge, finished>>

Cancel(c) ==
    /\ pc[c] = "waiting" /\ outcome[joined[c]] = "open"
    /\ pc' = [pc EXCEPT ![c] = "cancelled"]
    /\ UNCHANGED <<request, clock, now, entries, expiresAt, outcome, joined, nextPurge, finished>>

(* It too reads the clock before the mutex: t is the time it read. *)
PurgeExpired(t) ==
    /\ entries' = AfterPurge(t, TRUE)
    /\ nextPurge' = NextPurge(t)
    /\ UNCHANGED <<request, clock, pc, now, expiresAt, outcome, joined, finished>>

Tick ==
    /\ clock < MaxTime
    /\ clock' = clock + 1
    /\ UNCHANGED <<request, pc, now, entries, expiresAt, outcome, joined, nextPurge, finished>>

Next ==
    \/ \E c \in Callers :
          \/ Arrive(c) \/ Enter(c) \/ Receive(c) \/ Cancel(c)
          \/ \E ok \in BOOLEAN : Finish(c, ok)
    \/ \E t \in 1 .. clock : PurgeExpired(t)
    \/ Tick

(* Goroutines run and operations return (the service bounds them); nobody  *)
(* is obliged to call, to cancel or to purge.                              *)
Fairness ==
    \A c \in Callers :
        /\ WF_vars(Enter(c))
        /\ WF_vars(Receive(c))
        /\ WF_vars(\E ok \in BOOLEAN : Finish(c, ok))

Spec == Init /\ [][Next]_vars /\ Fairness

-----------------------------------------------------------------------------
(* Type correctness: readings of the clock are not in its future, and no   *)
(* result or purge is due later than its period allows.                    *)
TypeOK ==
    /\ request \in [Callers -> [scope : Scopes, fingerprint : Fingerprints]]
    /\ clock \in 1 .. MaxTime
    /\ pc \in [Callers -> PCs]
    /\ now \in [Callers -> 0 .. clock]
    /\ entries \in [Scopes -> Callers \cup {NoEntry}]
    /\ expiresAt \in [Callers -> 0 .. clock + TTL]
    /\ outcome \in [Callers -> {"open", "ok", "error"}]
    /\ joined \in [Callers -> Callers \cup {NoEntry}]
    /\ nextPurge \in 1 .. clock + PurgeInterval
    /\ finished \in [Callers -> 0 .. clock]

(* While an operation runs, its entry is the one in the map: neither a     *)
(* purge nor a caller with an old clock evicts it, so no second operation  *)
(* of the scope starts and the leader's own delete removes its own entry.  *)
LeaderOwnsScope ==
    \A c \in Callers : pc[c] = "leading" => entries[Scope(c)] = c

(* Two operations of one scope that both succeed are at least TTL apart:   *)
(* the second finishes no earlier than TTL after the first has finished,   *)
(* whatever old times the callers in between decided with.                 *)
OneSuccessPerTTL ==
    \A c, d \in Callers :
        /\ c # d /\ Scope(c) = Scope(d)
        /\ finished[c] # 0 /\ finished[d] # 0
        /\ finished[c] <= finished[d]
        => finished[d] >= finished[c] + TTL

(* A caller that arrived gets an answer: no waiter is left behind by the   *)
(* leader's success, failure, purge or expiry.                             *)
EveryCallReturns ==
    \A c \in Callers :
        pc[c] = "arrived" ~> pc[c] \in {"led", "replayed", "conflict", "cancelled"}
=============================================================================
