---------------------------- MODULE ProductOrders ----------------------------
(***************************************************************************)
(* Order creation in the product runtime: Service.CreateOrder              *)
(* (internal/product/service.go) coordinates a request through Redis       *)
(* (coordinator.go) and stores it in one PostgreSQL transaction            *)
(* (postgres.go).  Any number of API replicas serve requests; a request is *)
(* one call of CreateOrder.                                                *)
(*                                                                         *)
(* One action is one round trip to Redis or PostgreSQL, or one step that   *)
(* waits.  A round trip may fail, and a failed write may have been applied *)
(* all the same.  A cancelled request is one whose remaining round trips   *)
(* fail.  A replica may crash between any two steps.  Redis may lose what  *)
(* it holds at any time: the lock's 15 s and the result's 24 h expire, and *)
(* a restart loses both.                                                   *)
(*                                                                         *)
(* External: PostgreSQL runs at READ COMMITTED, its unique index makes an  *)
(* insert wait for an uncommitted row with the same key, and a BIGSERIAL   *)
(* value is not given back by a rollback.                                  *)
(***************************************************************************)
EXTENDS Integers, FiniteSets

CONSTANTS
    Requests,       \* calls of Service.CreateOrder
    Keys,           \* (tenant, Idempotency-Key) pairs
    Fingerprints,   \* requestFingerprint of the payload
    WebhookURL      \* whether Service.webhookURL is configured

ASSUME WebhookAssumption == WebhookURL \in BOOLEAN

VARIABLES
    request,    \* the key and fingerprint of every request
    pc,         \* where the request is
    fallback,   \* the repository is being called directly, after a Redis error
    draft,      \* the sequence of the order the open transaction inserts
    result,     \* what CreateOrder or Do returns: order, replayed, err
    orders, events, deliveries,     \* committed rows
    nextSequence,                   \* last value of the BIGSERIAL
    cache,      \* Redis: coordination results
    locks       \* Redis: lock keys and the token that holds them

reqVars == <<pc, fallback, draft, result>>
dbVars == <<orders, events, deliveries, nextSequence>>
redisVars == <<cache, locks>>
vars == <<request, reqVars, dbVars, redisVars>>

-----------------------------------------------------------------------------
(* A domain.Order is identified by its sequence; 0 is the zero Order. *)
NoOrder == 0

Key(r) == request[r].key
Fingerprint(r) == request[r].fingerprint

OrderRows == [key : Keys, fingerprint : Fingerprints, sequence : Nat]
CachedResults == [key : Keys, fingerprint : Fingerprints, order : Nat]
Locks == [key : Keys, owner : Requests]

Errors == {"none", "invalid", "conflict", "failed", "unavailable"}
Results == [order : Nat, replayed : BOOLEAN, err : Errors]

Success(o, replayed) == [order |-> o, replayed |-> replayed, err |-> "none"]
Failure(e) == [order |-> NoOrder, replayed |-> FALSE, err |-> e]

(* The fingerprint test made on every order or cached result found. *)
Found(r, fingerprint, o) ==
    IF fingerprint = Fingerprint(r) THEN Success(o, TRUE) ELSE Failure("conflict")

findOrder(r) == {row \in orders : row.key = Key(r)}
loadResult(r) == {c \in cache : c.key = Key(r)}

RepositoryPCs == {"find", "event", "order", "delivery", "commit", "resolve"}
PCs == RepositoryPCs \cup
       {"idle", "load", "lock", "poll", "recheck", "store", "release", "done", "dead"}

(* A transaction that has inserted its order row and holds the unique key. *)
Inserting(k) == {r \in Requests : Key(r) = k /\ pc[r] \in {"delivery", "commit"}}

-----------------------------------------------------------------------------
Init ==
    /\ request \in [Requests -> [key : Keys, fingerprint : Fingerprints]]
    /\ pc = [r \in Requests |-> "idle"]
    /\ fallback = [r \in Requests |-> FALSE]
    /\ draft = [r \in Requests |-> 0]
    /\ result = [r \in Requests |-> Failure("none")]
    /\ orders = {} /\ events = {} /\ deliveries = {}
    /\ nextSequence = 0
    /\ cache = {} /\ locks = {}

Goto(r, label) == pc' = [pc EXCEPT ![r] = label]
Set(r, res) == result' = [result EXCEPT ![r] = res]

(* Do returned ErrCoordinationUnavailable: CreateOrder is called directly. *)
FallBack(r) ==
    /\ Goto(r, "find")
    /\ fallback' = [fallback EXCEPT ![r] = TRUE]

Receive(r) ==
    /\ pc[r] = "idle"
    /\ Goto(r, "load")
    /\ UNCHANGED <<request, fallback, draft, result, dbVars, redisVars>>

(* The input is refused before anything is asked. *)
Refuse(r) ==
    /\ pc[r] = "idle"
    /\ Set(r, Failure("invalid")) /\ Goto(r, "done")
    /\ UNCHANGED <<request, fallback, draft, dbVars, redisVars>>

(* The loop of Do: a cached result answers, otherwise try the lock. *)
Load(r) ==
    /\ pc[r] = "load"
    /\ \/ \E c \in loadResult(r) :
             Set(r, Found(r, c.fingerprint, c.order)) /\ Goto(r, "done")
       \/ loadResult(r) = {} /\ Goto(r, "lock") /\ UNCHANGED result
    /\ UNCHANGED <<request, fallback, draft, dbVars, redisVars>>

(* A read that fails, or returns something that does not decode. *)
LoadFails(r) ==
    /\ pc[r] = "load"
    /\ FallBack(r)
    /\ UNCHANGED <<request, draft, result, dbVars, redisVars>>

LockFree(k) == \A l \in locks : l.key # k
TakeLock(r) == locks' = locks \cup {[key |-> Key(r), owner |-> r]}

SetNX(r) ==
    /\ pc[r] = "lock"
    /\ IF LockFree(Key(r))
       THEN TakeLock(r) /\ Goto(r, "recheck")
       ELSE Goto(r, "poll") /\ UNCHANGED locks
    /\ UNCHANGED <<request, fallback, draft, result, dbVars, cache>>

(* The command or its reply is lost; the lock may have been taken. *)
SetNXFails(r) ==
    /\ pc[r] = "lock"
    /\ (LockFree(Key(r)) /\ TakeLock(r)) \/ UNCHANGED locks
    /\ FallBack(r)
    /\ UNCHANGED <<request, draft, result, dbVars, cache>>

Poll(r) ==
    /\ pc[r] = "poll"
    /\ Goto(r, "load")
    /\ UNCHANGED <<request, fallback, draft, result, dbVars, redisVars>>

PollCancelled(r) ==
    /\ pc[r] = "poll"
    /\ Set(r, Failure("failed")) /\ Goto(r, "done")
    /\ UNCHANGED <<request, fallback, draft, dbVars, redisVars>>

(* execute, under the lock: the result is read again before fn runs. *)
Recheck(r) ==
    /\ pc[r] = "recheck"
    /\ \/ \E c \in loadResult(r) :
             Set(r, Found(r, c.fingerprint, c.order)) /\ Goto(r, "release")
       \/ loadResult(r) = {} /\ Goto(r, "find") /\ UNCHANGED result
    /\ UNCHANGED <<request, fallback, draft, dbVars, redisVars>>

RecheckFails(r) ==
    /\ pc[r] = "recheck"
    /\ Set(r, Failure("unavailable")) /\ Goto(r, "release")
    /\ UNCHANGED <<request, fallback, draft, dbVars, redisVars>>

-----------------------------------------------------------------------------
(* PostgresRepository.CreateOrder.  Return hands its outcome to execute,   *)
(* which stores a success, or to CreateOrder's caller after a fallback.    *)

(* Mutant: failures are stored like successes. *)
ReturnStoringFailures(r, res) ==
    /\ Set(r, res)
    /\ Goto(r, IF fallback[r] THEN "done" ELSE "store")

Return(r, res) ==
    /\ Set(r, res)
    /\ Goto(r, IF fallback[r] THEN "done"
               ELSE IF res.err = "none" THEN "store" ELSE "release")

Find(r) ==
    /\ pc[r] = "find"
    /\ \/ \E row \in findOrder(r) : Return(r, Found(r, row.fingerprint, row.sequence))
       \/ findOrder(r) = {} /\ Goto(r, "event") /\ UNCHANGED result
    /\ UNCHANGED <<request, fallback, draft, dbVars, redisVars>>

InsertEvent(r) ==
    /\ pc[r] = "event"
    /\ nextSequence' = nextSequence + 1
    /\ draft' = [draft EXCEPT ![r] = nextSequence + 1]
    /\ Goto(r, "order")
    /\ UNCHANGED <<request, fallback, result, orders, events, deliveries, redisVars>>

(* Mutant: no unique constraint on (tenant_id, idempotency_key). *)
InsertOrderWithoutUnique(r) ==
    /\ pc[r] = "order"
    /\ Goto(r, IF WebhookURL THEN "delivery" ELSE "commit")
    /\ UNCHANGED <<request, fallback, draft, result, dbVars, redisVars>>

(* Waits for a concurrent uncommitted insert of the key, then inserts, or  *)
(* meets a committed row, rolls back and reads it in resolveConcurrentCreate. *)
InsertOrder(r) ==
    /\ pc[r] = "order"
    /\ Inserting(Key(r)) = {}
    /\ Goto(r, IF findOrder(r) = {}
               THEN IF WebhookURL THEN "delivery" ELSE "commit"
               ELSE "resolve")
    /\ UNCHANGED <<request, fallback, draft, result, dbVars, redisVars>>

(* Mutant: the delivery is inserted through the pool, not the transaction. *)
InsertDeliveryOutside(r) ==
    /\ pc[r] = "delivery"
    /\ deliveries' = deliveries \cup {draft[r]}
    /\ Goto(r, "commit")
    /\ UNCHANGED <<request, fallback, draft, result, orders, events, nextSequence, redisVars>>

InsertDelivery(r) ==
    /\ pc[r] = "delivery"
    /\ Goto(r, "commit")
    /\ UNCHANGED <<request, fallback, draft, result, dbVars, redisVars>>

(* The transaction's event, order and delivery become visible together. *)
CommitRows(r) ==
    /\ events' = events \cup {draft[r]}
    /\ orders' = orders \cup {[key |-> Key(r), fingerprint |-> Fingerprint(r),
                               sequence |-> draft[r]]}
    /\ deliveries' = IF WebhookURL THEN deliveries \cup {draft[r]} ELSE deliveries

Commit(r) ==
    /\ pc[r] = "commit"
    /\ CommitRows(r)
    /\ Return(r, Success(draft[r], FALSE))
    /\ UNCHANGED <<request, fallback, draft, nextSequence, redisVars>>

(* The reply to COMMIT is lost: the rows are there, the request failed.  A *)
(* COMMIT that is applied only after its caller gave up is not modelled.   *)
CommitReplyLost(r) ==
    /\ pc[r] = "commit"
    /\ CommitRows(r)
    /\ Return(r, Failure("failed"))
    /\ UNCHANGED <<request, fallback, draft, nextSequence, redisVars>>

(* !found: "idempotency conflict committed without an order". *)
resolveConcurrentCreate(r) ==
    /\ pc[r] = "resolve"
    /\ \/ \E row \in findOrder(r) : Return(r, Found(r, row.fingerprint, row.sequence))
       \/ findOrder(r) = {} /\ Return(r, Failure("failed"))
    /\ UNCHANGED <<request, fallback, draft, dbVars, redisVars>>

(* Any statement may fail; the transaction is rolled back. *)
RepositoryFails(r) ==
    /\ pc[r] \in RepositoryPCs
    /\ Return(r, Failure("failed"))
    /\ UNCHANGED <<request, fallback, draft, dbVars, redisVars>>

-----------------------------------------------------------------------------
StoreInCache(r) ==
    cache' = {c \in cache : c.key # Key(r)} \cup
             {[key |-> Key(r), fingerprint |-> Fingerprint(r), order |-> result[r].order]}

Store(r) ==
    /\ pc[r] = "store"
    /\ StoreInCache(r)
    /\ Goto(r, "release")
    /\ UNCHANGED <<request, fallback, draft, result, dbVars, locks>>

(* The write, or only its reply, is lost; execute reports the Redis error. *)
StoreFails(r) ==
    /\ pc[r] = "store"
    /\ StoreInCache(r) \/ UNCHANGED cache
    /\ Set(r, Failure("unavailable"))
    /\ Goto(r, "release")
    /\ UNCHANGED <<request, fallback, draft, dbVars, locks>>

(* Mutant: a plain DEL of the lock key. *)
AnyLock(r) == {l \in locks : l.key = Key(r)}

(* The deferred compare-and-delete; then Do returns to CreateOrder. *)
OwnLock(r) == {l \in locks : l.key = Key(r) /\ l.owner = r}

AfterRelease(r) ==
    IF result[r].err = "unavailable"
    THEN FallBack(r)
    ELSE Goto(r, "done") /\ UNCHANGED fallback

Release(r) ==
    /\ pc[r] = "release"
    /\ locks' = locks \ OwnLock(r)
    /\ AfterRelease(r)
    /\ UNCHANGED <<request, draft, result, dbVars, cache>>

(* The script is not run; its error is ignored and the lock stays. *)
ReleaseFails(r) ==
    /\ pc[r] = "release"
    /\ AfterRelease(r)
    /\ UNCHANGED <<request, draft, result, dbVars, redisVars>>

-----------------------------------------------------------------------------
(* The environment. *)
Crash(r) ==
    /\ pc[r] \notin {"idle", "done", "dead"}
    /\ Goto(r, "dead")
    /\ UNCHANGED <<request, fallback, draft, result, dbVars, redisVars>>

(* Mutant: SETNX without a TTL. *)
NeverExpire(l) ==
    /\ l \notin locks
    /\ UNCHANGED vars

ExpireLock(l) ==
    /\ locks' = locks \ {l}
    /\ UNCHANGED <<request, reqVars, dbVars, cache>>

LoseResult(c) ==
    /\ cache' = cache \ {c}
    /\ UNCHANGED <<request, reqVars, dbVars, locks>>

Step(r) ==
    \/ Load(r) \/ LoadFails(r)
    \/ SetNX(r) \/ SetNXFails(r)
    \/ Poll(r) \/ PollCancelled(r)
    \/ Recheck(r) \/ RecheckFails(r)
    \/ Find(r) \/ InsertEvent(r) \/ InsertOrder(r) \/ InsertDelivery(r)
    \/ Commit(r) \/ CommitReplyLost(r)
    \/ resolveConcurrentCreate(r) \/ RepositoryFails(r)
    \/ Store(r) \/ StoreFails(r)
    \/ Release(r) \/ ReleaseFails(r)

Next ==
    \/ \E r \in Requests : Receive(r) \/ Refuse(r) \/ Step(r) \/ Crash(r)
    \/ \E l \in locks : ExpireLock(l)
    \/ \E c \in cache : LoseResult(c)

(* Replicas keep running the requests they received and the lock's TTL     *)
(* always runs out; nobody is obliged to send a request.                   *)
Fairness ==
    /\ \A r \in Requests : WF_vars(Step(r))
    /\ WF_vars(\E l \in locks : ExpireLock(l))

Spec == Init /\ [][Next]_vars /\ Fairness
-----------------------------------------------------------------------------
(* Type correctness: no row, event or delivery carries a sequence that was *)
(* not drawn, and what Redis holds are results and locks of requests.      *)
TypeOK ==
    /\ request \in [Requests -> [key : Keys, fingerprint : Fingerprints]]
    /\ pc \in [Requests -> PCs]
    /\ fallback \in [Requests -> BOOLEAN]
    /\ draft \in [Requests -> 0 .. nextSequence]
    /\ result \in [Requests -> Results]
    /\ nextSequence \in Nat
    /\ orders \subseteq OrderRows
    /\ events \subseteq 1 .. nextSequence
    /\ deliveries \subseteq 1 .. nextSequence
    /\ cache \subseteq CachedResults
    /\ locks \subseteq Locks

Answered(r) == pc[r] = "done"
Succeeded(r) == Answered(r) /\ result[r].err = "none"

(* Answered 201 Created; a replay is answered 200. *)
Created(r) == Succeeded(r) /\ ~result[r].replayed

(* What a request was told, in the words of OnceOnlyOrders. *)
AnswerOf(r) ==
    [kind |-> IF ~Answered(r) THEN "pending"
              ELSE IF Created(r) THEN "created"
              ELSE IF Succeeded(r) THEN "replayed"
              ELSE IF result[r].err = "conflict" THEN "conflict" ELSE "failed",
     order |-> IF Succeeded(r) THEN result[r].order ELSE NoOrder]

OnceOnly == INSTANCE OnceOnlyOrders WITH
              bound <- orders, answer <- [r \in Requests |-> AnswerOf(r)]

(* CreateOrder is exactly-once: however many replicas work on a key, with  *)
(* the lock lost or Redis gone, the table binds the key once, no row ever  *)
(* changes or goes, and every answer follows the row.  A success names it, *)
(* one request at most is told that it created it, and a conflict is       *)
(* answered only when another payload owns the key.                        *)
ImplementsOnceOnly == OnceOnly!Spec

(* A result in Redis is always backed by the committed order it names,     *)
(* with the fingerprint that order was created with: a stale or early      *)
(* write would let Redis answer for an order that does not exist.          *)
CacheFollowsTable ==
    \A c \in cache :
        [key |-> c.key, fingerprint |-> c.fingerprint,
         sequence |-> c.order] \in orders

(* Order, event and (with a webhook URL) delivery are committed together;  *)
(* a rollback, a crash or a lost race leaves none of them behind.          *)
NoPartialOrder ==
    /\ events = {row.sequence : row \in orders}
    /\ deliveries = IF WebhookURL THEN events ELSE {}

(* release removes only the caller's own lock: a holder whose lock expired *)
(* while it was working never frees the lock of its successor.             *)
ReleasesOnlyOwnLock ==
    [][\A l \in locks \ locks' : pc' = pc \/ pc[l.owner] = "release"]_vars

(* Every request is answered unless its replica crashed: pollers get past  *)
(* a lock whose holder died or could not release it.                       *)
EveryRequestAnswered ==
    \A r \in Requests : pc[r] = "load" ~> pc[r] \in {"done", "dead"}

(* "expected one fallback creator": when every request for a key has been  *)
(* answered and none of them failed or was refused, one was answered 201.  *)
SomeoneCreated ==
    \A k \in Keys :
        LET asked == {r \in Requests : Key(r) = k}
        IN  asked # {} /\ (\A r \in asked : Answered(r) /\ result[r].err \notin {"failed", "invalid"})
                => \E r \in asked : Created(r)
=============================================================================
