------------------------ MODULE ProductOrders_proofs ------------------------
(***************************************************************************)
(* Proofs about ProductOrders for every set of requests, keys and          *)
(* fingerprints: any number of replicas, failures, crashes and losses.     *)
(***************************************************************************)
EXTENDS ProductOrders, TLAPS

(* However many replicas work on a key at once, with the lock lost or     *)
(* Redis gone, the table never holds two orders for it.                    *)
OneOrderPerKey ==
    \A o1, o2 \in orders : o1.key = o2.key => o1 = o2

(* Every answer follows the committed row: a success names that row's      *)
(* order and was asked with its fingerprint, a conflict was asked with     *)
(* another one.                                                            *)
AnswersFollowTheRow ==
    /\ \A r \in Requests : Succeeded(r) =>
          [key |-> Key(r), fingerprint |-> Fingerprint(r),
           sequence |-> result[r].order] \in orders
    /\ \A r \in Requests : Answered(r) /\ result[r].err = "conflict" =>
          \E row \in findOrder(r) : row.fingerprint # Fingerprint(r)

(* At most one request of a key is answered as the order's creator. *)
OneCreator ==
    \A r, s \in Requests : Created(r) /\ Created(s) /\ Key(r) = Key(s) => r = s

(* What is known of a request at label l with result x: a success names a  *)
(* committed row of the request's key and fingerprint, and a creator's     *)
(* order is the one it drafted itself; a conflict has its witness in the   *)
(* table.                                                                  *)
Outcome(r, l, x) ==
    /\ l \in {"store", "release", "done"} /\ x.err = "none" =>
          /\ [key |-> Key(r), fingerprint |-> Fingerprint(r), sequence |-> x.order] \in orders
          /\ ~x.replayed => x.order = draft[r] /\ draft[r] # 0
    /\ l \in {"release", "done"} /\ x.err = "conflict" =>
          \E row \in orders : row.key = Key(r) /\ row.fingerprint # Fingerprint(r)
    /\ l = "store" => x.err = "none"

(* What is known of a request inside the transaction: whoever holds the    *)
(* unique key is alone and the key has no row.                             *)
Position(r, l) ==
    /\ l \in {"order", "delivery", "commit"} => draft[r] # 0
    /\ l \in {"delivery", "commit"} => findOrder(r) = {} /\ Inserting(Key(r)) \subseteq {r}

(* Values of the BIGSERIAL are never drawn twice, and a row that has a     *)
(* request's value is a row of its key.                                    *)
DraftsDiffer ==
    /\ \A r, s \in Requests : draft[r] = draft[s] /\ draft[r] # 0 => r = s
    /\ \A row \in orders, r \in Requests : row.sequence = draft[r] => row.key = Key(r)

(* The inductive invariant. *)
IndInv ==
    /\ TypeOK
    /\ OneOrderPerKey
    /\ CacheFollowsTable
    /\ NoPartialOrder
    /\ DraftsDiffer
    /\ \A r \in Requests : Outcome(r, pc[r], result[r]) /\ Position(r, pc[r])

(* No request has been received: everything is empty. *)
LEMMA InitEstablishes == Init => IndInv
<1> SUFFICES ASSUME Init PROVE IndInv
  OBVIOUS
<1>1. TypeOK
  BY WebhookAssumption DEF Init, TypeOK, PCs, RepositoryPCs, Results, Errors, Failure, NoOrder
<1>2. OneOrderPerKey /\ CacheFollowsTable /\ NoPartialOrder /\ DraftsDiffer
  BY DEF Init, OneOrderPerKey, CacheFollowsTable, NoPartialOrder, DraftsDiffer
<1>3. \A r \in Requests : Outcome(r, pc[r], result[r]) /\ Position(r, pc[r])
  BY DEF Init, Outcome, Position
<1> QED BY <1>1, <1>2, <1>3 DEF IndInv

(* A step of one request that leaves the tables and the drafts alone keeps *)
(* the invariant when the request's new label and result are justified by  *)
(* the table.                                                              *)
LEMMA LocalStep ==
  ASSUME IndInv, NEW r \in Requests, NEW l \in PCs, NEW x \in Results,
         UNCHANGED <<request, draft, dbVars>>,
         pc' = [pc EXCEPT ![r] = l], result' = [result EXCEPT ![r] = x],
         fallback' \in [Requests -> BOOLEAN],
         locks' \subseteq Locks, cache' \subseteq CachedResults,
         \A c \in cache' : [key |-> c.key, fingerprint |-> c.fingerprint,
                            sequence |-> c.order] \in orders,
         Outcome(r, l, x),
         l \in {"order", "delivery", "commit"} => draft[r] # 0,
         l = "resolve" => findOrder(r) # {},
         l \in {"delivery", "commit"} =>
             findOrder(r) = {} /\ Inserting(Key(r)) \subseteq {r}
  PROVE  IndInv'
<1>1. TypeOK'
  BY DEF IndInv, TypeOK, dbVars
<1>2. OneOrderPerKey' /\ CacheFollowsTable' /\ NoPartialOrder' /\ DraftsDiffer'
  BY DEF IndInv, OneOrderPerKey, CacheFollowsTable, NoPartialOrder, DraftsDiffer, Key, dbVars
<1>3. ASSUME NEW s \in Requests PROVE Outcome(s, pc[s], result[s])'
  <2>1. CASE s = r
    BY <2>1 DEF IndInv, TypeOK, Outcome, Key, Fingerprint, dbVars
  <2>2. CASE s # r
    BY <2>2 DEF IndInv, TypeOK, Outcome, Key, Fingerprint, dbVars
  <2> QED BY <2>1, <2>2
<1>4. ASSUME NEW s \in Requests PROVE Position(s, pc[s])'
  <2>1. CASE s = r
    BY <2>1 DEF IndInv, TypeOK, Position, Key, findOrder, Inserting, dbVars
  <2>2. CASE s # r
    <3>1. Position(s, pc[s]) /\ pc'[s] = pc[s] /\ pc'[r] = l
      BY <2>2 DEF IndInv, TypeOK
    <3>2. pc[s] \in {"delivery", "commit"} /\ l \in {"delivery", "commit"} => Key(s) # Key(r)
      BY <2>2, <3>1 DEF Position, Inserting
    <3> QED BY <2>2, <3>1, <3>2 DEF IndInv, TypeOK, Position, Key, findOrder, Inserting, dbVars
  <2> QED BY <2>1, <2>2
<1> QED BY <1>1, <1>2, <1>3, <1>4 DEF IndInv

(* What the fingerprint test makes of a row of the request's key. *)
LEMMA FoundFacts ==
  ASSUME NEW r \in Requests, NEW f, NEW o \in Nat,
         [key |-> Key(r), fingerprint |-> f, sequence |-> o] \in orders
  PROVE  /\ Found(r, f, o) \in Results
         /\ \A l \in {"release", "done"} : Outcome(r, l, Found(r, f, o))
         /\ Found(r, f, o).err = "none" => Outcome(r, "store", Found(r, f, o))
<1>1. CASE f = Fingerprint(r)
  BY <1>1 DEF Found, Success, Results, Errors, Outcome
<1>2. CASE f # Fingerprint(r)
  BY <1>2 DEF Found, Failure, NoOrder, Results, Errors, Outcome
<1> QED BY <1>1, <1>2

(* The repository returns: with a result justified by the table. *)
LEMMA ReturnStep ==
  ASSUME IndInv, NEW r \in Requests, NEW x \in Results, Return(r, x),
         UNCHANGED <<request, fallback, draft, dbVars, redisVars>>,
         \A l \in {"release", "done"} : Outcome(r, l, x),
         x.err = "none" => Outcome(r, "store", x)
  PROVE  IndInv'
<1> DEFINE l == IF fallback[r] THEN "done" ELSE IF x.err = "none" THEN "store" ELSE "release"
<1>1. pc' = [pc EXCEPT ![r] = l] /\ result' = [result EXCEPT ![r] = x]
  BY DEF Return, Goto, Set
<1>2. l \in {"store", "release", "done"} /\ Outcome(r, l, x)
  OBVIOUS
<1>3. /\ fallback' \in [Requests -> BOOLEAN]
      /\ locks' \subseteq Locks /\ cache' \subseteq CachedResults
      /\ \A c \in cache' : [key |-> c.key, fingerprint |-> c.fingerprint,
                            sequence |-> c.order] \in orders
      /\ UNCHANGED dbVars
  BY DEF IndInv, TypeOK, CacheFollowsTable, redisVars
<1>4. l \in PCs
  BY <1>2 DEF PCs
<1> HIDE DEF l
<1> QED BY <1>1, <1>2, <1>3, <1>4, LocalStep DEF dbVars

(* A failure says nothing of the table. *)
LEMMA FailureFacts ==
  ASSUME NEW r \in Requests, NEW e \in {"invalid", "failed", "unavailable"}
  PROVE  /\ Failure(e) \in Results
         /\ Failure(e).err = e
         /\ \A l \in {"release", "done"} : Outcome(r, l, Failure(e))
BY DEF Failure, NoOrder, Results, Errors, Outcome

(* The coordinator's steps: reading Redis, the lock, polling, the result   *)
(* write and the release.                                                  *)
LEMMA CoordinatorStep ==
  ASSUME IndInv, NEW r \in Requests,
         \/ Receive(r) \/ Refuse(r) \/ Load(r) \/ LoadFails(r) \/ SetNX(r) \/ SetNXFails(r)
         \/ Poll(r) \/ PollCancelled(r) \/ Recheck(r) \/ RecheckFails(r)
         \/ Store(r) \/ StoreFails(r) \/ Release(r) \/ ReleaseFails(r) \/ Crash(r)
  PROVE  IndInv'
<1>0. /\ pc \in [Requests -> PCs] /\ result \in [Requests -> Results]
      /\ fallback \in [Requests -> BOOLEAN]
      /\ locks \subseteq Locks /\ cache \subseteq CachedResults
      /\ result[r] \in Results
      /\ Outcome(r, pc[r], result[r])
      /\ \A c \in cache : [key |-> c.key, fingerprint |-> c.fingerprint,
                           sequence |-> c.order] \in orders
      /\ Key(r) \in Keys /\ Fingerprint(r) \in Fingerprints
  BY DEF IndInv, TypeOK, CacheFollowsTable, Key, Fingerprint
(* A step to a label about which nothing is claimed. *)
<1>1. ASSUME NEW l \in {"load", "lock", "poll", "recheck", "find", "dead"},
             UNCHANGED <<request, draft, result, dbVars, cache>>,
             pc' = [pc EXCEPT ![r] = l],
             fallback' \in [Requests -> BOOLEAN], locks' \subseteq Locks
      PROVE  IndInv'
  <2>1. result' = [result EXCEPT ![r] = result[r]]
    BY <1>0, <1>1
  <2>2. l \in PCs /\ Outcome(r, l, result[r])
    BY DEF PCs, RepositoryPCs, Outcome
  <2>3. UNCHANGED <<request, draft, dbVars>> /\ cache' = cache
    BY <1>1
  <2> QED BY <1>0, <1>1, <2>1, <2>2, <2>3, LocalStep
(* A step that ends Do with a result. *)
<1>2. ASSUME NEW l \in {"release", "done"}, NEW x \in Results,
             UNCHANGED <<request, fallback, draft, dbVars, locks>>,
             pc' = [pc EXCEPT ![r] = l], result' = [result EXCEPT ![r] = x],
             Outcome(r, l, x),
             cache' \subseteq CachedResults,
             \A c \in cache' : [key |-> c.key, fingerprint |-> c.fingerprint,
                                sequence |-> c.order] \in orders
      PROVE  IndInv'
  <2>1. l \in PCs
    BY DEF PCs
  <2> QED BY <1>0, <1>2, <2>1, LocalStep
<1>3. ASSUME NEW c \in loadResult(r)
      PROVE  /\ Found(r, c.fingerprint, c.order) \in Results
             /\ \A l \in {"release", "done"} : Outcome(r, l, Found(r, c.fingerprint, c.order))
  <2>1. [key |-> Key(r), fingerprint |-> c.fingerprint, sequence |-> c.order] \in orders
    BY <1>0 DEF loadResult
  <2>2. c.order \in Nat
    BY <1>0 DEF loadResult, CachedResults
  <2> QED BY <2>1, <2>2, FoundFacts
<1>4. CASE Receive(r)
  BY <1>0, <1>1, <1>4 DEF Receive, Goto, redisVars
<1>5. CASE Load(r)
  <2>1. CASE loadResult(r) = {} /\ Goto(r, "lock") /\ UNCHANGED result
    BY <1>0, <1>1, <1>5, <2>1 DEF Load, Goto, redisVars
  <2>2. ASSUME NEW c \in loadResult(r), Set(r, Found(r, c.fingerprint, c.order)),
               Goto(r, "done")
        PROVE  IndInv'
    BY <1>0, <1>2, <1>3, <1>5, <2>2 DEF Load, Goto, Set, redisVars
  <2> QED BY <1>5, <2>1, <2>2 DEF Load
<1>6. CASE LoadFails(r)
  BY <1>0, <1>1, <1>6 DEF LoadFails, FallBack, Goto, redisVars
<1>7. locks \cup {[key |-> Key(r), owner |-> r]} \subseteq Locks
  BY <1>0 DEF Locks
<1>8. CASE SetNX(r)
  <2>1. pc' = [pc EXCEPT ![r] = "recheck"] \/ pc' = [pc EXCEPT ![r] = "poll"]
    BY <1>8 DEF SetNX, Goto
  <2>2. locks' \subseteq Locks
    BY <1>0, <1>7, <1>8 DEF SetNX, TakeLock
  <2> QED BY <1>0, <1>1, <1>8, <2>1, <2>2 DEF SetNX
<1>9. CASE SetNXFails(r)
  <2>1. locks' \subseteq Locks
    BY <1>0, <1>7, <1>9 DEF SetNXFails, TakeLock
  <2> QED BY <1>0, <1>1, <1>9, <2>1 DEF SetNXFails, FallBack, Goto
<1>10. CASE Poll(r)
  BY <1>0, <1>1, <1>10 DEF Poll, Goto, redisVars
<1>11. CASE PollCancelled(r)
  BY <1>0, <1>2, <1>11, FailureFacts DEF PollCancelled, Set, Goto, redisVars
<1>12. CASE Recheck(r)
  <2>1. CASE loadResult(r) = {} /\ Goto(r, "find") /\ UNCHANGED result
    BY <1>0, <1>1, <1>12, <2>1 DEF Recheck, Goto, redisVars
  <2>2. ASSUME NEW c \in loadResult(r), Set(r, Found(r, c.fingerprint, c.order)),
               Goto(r, "release")
        PROVE  IndInv'
    BY <1>0, <1>2, <1>3, <1>12, <2>2 DEF Recheck, Goto, Set, redisVars
  <2> QED BY <1>12, <2>1, <2>2 DEF Recheck
<1>13. CASE RecheckFails(r)
  BY <1>0, <1>2, <1>13, FailureFacts DEF RecheckFails, Set, Goto, redisVars
(* What is written to Redis is the committed order of this request. *)
<1>14. ASSUME pc[r] = "store"
       PROVE  LET new == [key |-> Key(r), fingerprint |-> Fingerprint(r), order |-> result[r].order]
              IN  /\ new \in CachedResults
                  /\ [key |-> new.key, fingerprint |-> new.fingerprint,
                      sequence |-> new.order] \in orders
                  /\ Outcome(r, "release", result[r])
  <2>1. result[r].err = "none" /\ result[r].order \in Nat
    BY <1>0, <1>14 DEF Outcome, Results
  <2> QED BY <1>0, <1>14, <2>1 DEF Outcome, CachedResults
<1>15. ASSUME pc[r] = "store", StoreInCache(r) \/ UNCHANGED cache
       PROVE  /\ cache' \subseteq CachedResults
              /\ \A c \in cache' : [key |-> c.key, fingerprint |-> c.fingerprint,
                                    sequence |-> c.order] \in orders
  BY <1>0, <1>14, <1>15 DEF StoreInCache
<1>16. CASE Store(r)
  <2>1. result' = [result EXCEPT ![r] = result[r]]
    BY <1>0, <1>16 DEF Store
  <2> QED BY <1>0, <1>2, <1>14, <1>15, <1>16, <2>1 DEF Store, Goto
<1>17. CASE StoreFails(r)
  BY <1>0, <1>2, <1>15, <1>17, FailureFacts DEF StoreFails, Set, Goto
(* After the release Do returns, or CreateOrder falls back. *)
<1>18. CASE Release(r) \/ ReleaseFails(r)
  <2>1. /\ pc[r] = "release" /\ AfterRelease(r)
        /\ UNCHANGED <<request, draft, result, dbVars, cache>>
        /\ locks' \subseteq Locks
    BY <1>0, <1>18 DEF Release, ReleaseFails, redisVars
  <2>2. CASE result[r].err = "unavailable"
    BY <1>0, <1>1, <2>1, <2>2 DEF AfterRelease, FallBack, Goto
  <2>3. CASE result[r].err # "unavailable"
    <3>1. pc' = [pc EXCEPT ![r] = "done"] /\ fallback' = fallback
      BY <2>1, <2>3 DEF AfterRelease, Goto
    <3>2. result' = [result EXCEPT ![r] = result[r]]
      BY <1>0, <2>1
    <3>3. Outcome(r, "done", result[r])
      BY <1>0, <2>1 DEF Outcome
    <3>4. "done" \in PCs
      BY DEF PCs
    <3>5. UNCHANGED <<request, draft, dbVars>> /\ cache' = cache
      BY <2>1
    <3> QED BY <1>0, <2>1, <3>1, <3>2, <3>3, <3>4, <3>5, LocalStep
  <2> QED BY <2>2, <2>3
<1>19. CASE Crash(r)
  BY <1>0, <1>1, <1>19 DEF Crash, Goto, redisVars
<1>20. CASE Refuse(r)
  BY <1>0, <1>2, <1>20, FailureFacts DEF Refuse, Set, Goto, redisVars
<1> QED BY <1>4, <1>5, <1>6, <1>8, <1>9, <1>10, <1>11, <1>12, <1>13, <1>16, <1>17, <1>18, <1>19, <1>20

(* A row of the request's key answers it like FoundFacts says. *)
LEMMA RowFacts ==
  ASSUME IndInv, NEW r \in Requests, NEW row \in findOrder(r)
  PROVE  /\ Found(r, row.fingerprint, row.sequence) \in Results
         /\ \A l \in {"release", "done"} : Outcome(r, l, Found(r, row.fingerprint, row.sequence))
         /\ Found(r, row.fingerprint, row.sequence).err = "none" =>
                Outcome(r, "store", Found(r, row.fingerprint, row.sequence))
<1>1. row \in OrderRows /\ row \in orders /\ row.key = Key(r)
  BY DEF IndInv, TypeOK, findOrder
<1>2. row = [key |-> Key(r), fingerprint |-> row.fingerprint, sequence |-> row.sequence]
      /\ row.sequence \in Nat
  BY <1>1 DEF OrderRows
<1> QED BY <1>1, <1>2, FoundFacts

(* The statements of the transaction that only read, wait or fail. *)
LEMMA RepositoryStep ==
  ASSUME IndInv, NEW r \in Requests,
         \/ Find(r) \/ InsertOrder(r) \/ InsertDelivery(r)
         \/ resolveConcurrentCreate(r) \/ RepositoryFails(r)
  PROVE  IndInv'
<1>0. /\ pc \in [Requests -> PCs] /\ result \in [Requests -> Results]
      /\ fallback \in [Requests -> BOOLEAN]
      /\ locks \subseteq Locks /\ cache \subseteq CachedResults
      /\ result[r] \in Results
      /\ Position(r, pc[r])
      /\ \A c \in cache : [key |-> c.key, fingerprint |-> c.fingerprint,
                           sequence |-> c.order] \in orders
  BY DEF IndInv, TypeOK, CacheFollowsTable
(* A step to another label of the transaction. *)
<1>1. ASSUME NEW l \in {"event", "delivery", "commit", "resolve"},
             UNCHANGED <<request, fallback, draft, result, dbVars, redisVars>>,
             pc' = [pc EXCEPT ![r] = l],
             l \in {"delivery", "commit"} => draft[r] # 0,
             l = "resolve" => findOrder(r) # {},
             l \in {"delivery", "commit"} =>
                 findOrder(r) = {} /\ Inserting(Key(r)) \subseteq {r}
      PROVE  IndInv'
  <2>1. result' = [result EXCEPT ![r] = result[r]]
    BY <1>0, <1>1
  <2>2. l \in PCs /\ Outcome(r, l, result[r])
    BY DEF PCs, RepositoryPCs, Outcome
  <2>3. UNCHANGED <<request, draft, dbVars>> /\ cache' = cache /\ locks' = locks /\ fallback' = fallback
    BY <1>1 DEF redisVars
  <2>4. l \in {"order", "delivery", "commit"} => draft[r] # 0
    BY <1>1
  <2> QED BY <1>0, <1>1, <2>1, <2>2, <2>3, <2>4, LocalStep
<1>2. ASSUME NEW row \in findOrder(r), Return(r, Found(r, row.fingerprint, row.sequence)),
             UNCHANGED <<request, fallback, draft, dbVars, redisVars>>
      PROVE  IndInv'
  BY <1>2, RowFacts, ReturnStep
<1>3. ASSUME Return(r, Failure("failed")),
             UNCHANGED <<request, fallback, draft, dbVars, redisVars>>
      PROVE  IndInv'
  BY <1>3, FailureFacts, ReturnStep
<1>4. CASE Find(r)
  <2>1. CASE findOrder(r) = {} /\ Goto(r, "event") /\ UNCHANGED result
    BY <1>1, <1>4, <2>1 DEF Find, Goto
  <2> QED BY <1>2, <1>4, <2>1 DEF Find
<1>5. CASE InsertOrder(r)
  <2>1. /\ pc[r] = "order" /\ draft[r] # 0 /\ Inserting(Key(r)) = {}
        /\ UNCHANGED <<request, fallback, draft, result, dbVars, redisVars>>
    BY <1>0, <1>5 DEF InsertOrder, Position
  <2>2. CASE findOrder(r) = {}
    <3>1. pc' = [pc EXCEPT ![r] = "delivery"] \/ pc' = [pc EXCEPT ![r] = "commit"]
      BY <1>5, <2>2 DEF InsertOrder, Goto
    <3> QED BY <1>1, <2>1, <2>2, <3>1
  <2>3. CASE findOrder(r) # {}
    <3>1. pc' = [pc EXCEPT ![r] = "resolve"]
      BY <1>5, <2>3 DEF InsertOrder, Goto
    <3> QED BY <1>1, <2>1, <2>3, <3>1
  <2> QED BY <2>2, <2>3
<1>6. CASE InsertDelivery(r)
  <2>1. /\ pc[r] = "delivery" /\ pc' = [pc EXCEPT ![r] = "commit"]
        /\ UNCHANGED <<request, fallback, draft, result, dbVars, redisVars>>
    BY <1>6 DEF InsertDelivery, Goto
  <2>2. draft[r] # 0 /\ findOrder(r) = {} /\ Inserting(Key(r)) \subseteq {r}
    BY <1>0, <2>1 DEF Position
  <2> QED BY <1>1, <2>1, <2>2
<1>7. CASE resolveConcurrentCreate(r)
  BY <1>2, <1>3, <1>7 DEF resolveConcurrentCreate
<1>8. CASE RepositoryFails(r)
  BY <1>3, <1>8 DEF RepositoryFails
<1> QED BY <1>4, <1>5, <1>6, <1>7, <1>8

(* A value is drawn from the BIGSERIAL: it is new to every request. *)
LEMMA InsertEventStep ==
  ASSUME IndInv, NEW r \in Requests, InsertEvent(r)
  PROVE  IndInv'
<1>1. /\ pc[r] = "event" /\ pc' = [pc EXCEPT ![r] = "order"]
      /\ nextSequence' = nextSequence + 1
      /\ draft' = [draft EXCEPT ![r] = nextSequence + 1]
      /\ UNCHANGED <<request, fallback, result, orders, events, deliveries, cache, locks>>
  BY DEF InsertEvent, Goto, redisVars
<1>2. TypeOK
  BY DEF IndInv
<1>3. TypeOK'
  <2>1. nextSequence \in Nat /\ nextSequence' \in Nat
    BY <1>1, <1>2 DEF TypeOK
  <2>2. 1 .. nextSequence \subseteq 1 .. nextSequence' /\ 0 .. nextSequence \subseteq 0 .. nextSequence'
    BY <1>1, <2>1
  <2>3. draft' \in [Requests -> 0 .. nextSequence']
    BY <1>1, <1>2, <2>1 DEF TypeOK
  <2>4. pc' \in [Requests -> PCs]
    BY <1>1, <1>2 DEF TypeOK, PCs, RepositoryPCs
  <2>5. events' \subseteq 1 .. nextSequence' /\ deliveries' \subseteq 1 .. nextSequence'
    BY <1>1, <1>2, <2>2 DEF TypeOK
  <2> QED BY <1>1, <1>2, <2>1, <2>3, <2>4, <2>5 DEF TypeOK
<1>4. OneOrderPerKey' /\ CacheFollowsTable' /\ NoPartialOrder'
  BY <1>1 DEF IndInv, OneOrderPerKey, CacheFollowsTable, NoPartialOrder
<1>5. DraftsDiffer'
  <2>1. \A s \in Requests : draft[s] # nextSequence + 1
    BY <1>2 DEF TypeOK
  <2>2. \A row \in orders : row.sequence # nextSequence + 1
    <3>1. \A row \in orders : row.sequence \in events
      BY DEF IndInv, NoPartialOrder
    <3>2. nextSequence \in Nat /\ events \subseteq 1 .. nextSequence
      BY <1>2 DEF TypeOK
    <3>3. \A i \in events : i # nextSequence + 1
      BY <3>2
    <3> QED BY <3>1, <3>3
  <2> QED BY <1>1, <1>2, <2>1, <2>2 DEF IndInv, DraftsDiffer, TypeOK, Key
<1>6. ASSUME NEW s \in Requests PROVE Outcome(s, pc[s], result[s])'
  BY <1>1, <1>2 DEF IndInv, TypeOK, Outcome, Key, Fingerprint
<1>7. ASSUME NEW s \in Requests PROVE Position(s, pc[s])'
  BY <1>1, <1>2 DEF IndInv, TypeOK, Position, Key, findOrder, Inserting
<1> QED BY <1>3, <1>4, <1>5, <1>6, <1>7 DEF IndInv

(* The commit: the transaction was alone with its key and no row had it,   *)
(* so the row it adds is the key's only one; what other requests know of   *)
(* the table still holds of a larger one.                                  *)
LEMMA CommitStep ==
  ASSUME IndInv, NEW r \in Requests, Commit(r) \/ CommitReplyLost(r)
  PROVE  IndInv'
<1> DEFINE new == [key |-> Key(r), fingerprint |-> Fingerprint(r), sequence |-> draft[r]]
<1>0. TypeOK
  BY DEF IndInv
<1>1. /\ pc[r] = "commit" /\ CommitRows(r)
      /\ UNCHANGED <<request, fallback, draft, nextSequence, cache, locks>>
      /\ orders' = orders \cup {new}
  BY DEF Commit, CommitReplyLost, CommitRows, redisVars
<1>2. /\ draft[r] # 0 /\ draft[r] \in 1 .. nextSequence
      /\ findOrder(r) = {} /\ Inserting(Key(r)) \subseteq {r}
  <2>1. Position(r, "commit")
    BY <1>1 DEF IndInv
  <2>2. draft[r] \in 0 .. nextSequence /\ nextSequence \in Nat
    BY <1>0 DEF TypeOK
  <2> QED BY <2>1, <2>2 DEF Position
<1>3. new \in OrderRows
  BY <1>0, <1>2 DEF TypeOK, OrderRows, Key, Fingerprint
<1>4. PICK x \in Results, l \in {"store", "release", "done"} :
        /\ pc' = [pc EXCEPT ![r] = l] /\ result' = [result EXCEPT ![r] = x]
        /\ x.err = "none" => x.order = draft[r]
        /\ x.err # "conflict"
        /\ l = "store" => x.err = "none"
  <2>1. CASE Commit(r)
    <3>1. Success(draft[r], FALSE) \in Results /\ Success(draft[r], FALSE).err = "none"
          /\ Success(draft[r], FALSE).order = draft[r]
      BY <1>2, <1>0 DEF Success, Results, Errors, TypeOK
    <3> QED BY <2>1, <3>1 DEF Commit, Return, Set, Goto
  <2>2. CASE CommitReplyLost(r)
    <3>1. Failure("failed") \in Results /\ Failure("failed").err = "failed"
      BY FailureFacts
    <3> QED BY <2>2, <3>1 DEF CommitReplyLost, Return, Set, Goto
  <2> QED BY <2>1, <2>2
<1>5. TypeOK'
  <2>1. pc' \in [Requests -> PCs] /\ result' \in [Requests -> Results]
    BY <1>0, <1>4 DEF TypeOK, PCs
  <2>2. events' \subseteq 1 .. nextSequence /\ deliveries' \subseteq 1 .. nextSequence
    BY <1>0, <1>1, <1>2 DEF TypeOK, CommitRows
  <2> QED BY <1>0, <1>1, <1>3, <2>1, <2>2 DEF TypeOK
<1>6. OneOrderPerKey'
  <2>1. \A o \in orders : o.key # Key(r)
    BY <1>2 DEF findOrder
  <2> QED BY <1>1, <2>1 DEF IndInv, OneOrderPerKey
<1>7. CacheFollowsTable'
  BY <1>1 DEF IndInv, CacheFollowsTable
<1>8. NoPartialOrder'
  <2>1. events = {row.sequence : row \in orders}
    BY DEF IndInv, NoPartialOrder
  <2>2. {row.sequence : row \in orders'} = {row.sequence : row \in orders} \cup {draft[r]}
    <3>1. new.sequence = draft[r]
      OBVIOUS
    <3> HIDE DEF new
    <3> QED BY <1>1, <3>1
  <2>3. events' = {row.sequence : row \in orders'}
    BY <1>1, <2>1, <2>2 DEF CommitRows
  <2>4. deliveries' = IF WebhookURL THEN events' ELSE {}
    BY <1>1 DEF IndInv, NoPartialOrder, CommitRows
  <2> QED BY <2>3, <2>4 DEF NoPartialOrder
<1>9. DraftsDiffer'
  BY <1>1, <1>2 DEF IndInv, DraftsDiffer, Key
<1>10. ASSUME NEW s \in Requests PROVE Outcome(s, pc[s], result[s])'
  <2>1. CASE s = r
    <3>1. pc'[s] = l /\ result'[s] = x
      BY <1>0, <1>4, <2>1 DEF TypeOK
    <3>2. [key |-> Key(r), fingerprint |-> Fingerprint(r), sequence |-> draft[r]] \in orders'
      BY <1>1
    <3> QED BY <1>1, <1>2, <1>4, <2>1, <3>1, <3>2 DEF Outcome, Key, Fingerprint
  <2>2. CASE s # r
    <3>1. Outcome(s, pc[s], result[s]) /\ pc'[s] = pc[s] /\ result'[s] = result[s]
      BY <1>0, <1>4, <2>2 DEF IndInv, TypeOK
    <3>2. orders \subseteq orders'
      BY <1>1
    <3> QED BY <1>1, <3>1, <3>2 DEF Outcome, Key, Fingerprint
  <2> QED BY <2>1, <2>2
<1>11. ASSUME NEW s \in Requests PROVE Position(s, pc[s])'
  <2>1. CASE s = r
    <3>1. pc'[s] = l
      BY <1>0, <1>4, <2>1 DEF TypeOK
    <3> QED BY <1>4, <3>1 DEF Position
  <2>2. CASE s # r
    <3>1. Position(s, pc[s]) /\ pc'[s] = pc[s] /\ request' = request /\ draft' = draft
      BY <1>0, <1>1, <1>4, <2>2 DEF IndInv, TypeOK
    <3>2. findOrder(s) \subseteq findOrder(s)'
      BY <1>1 DEF findOrder, Key
    <3>3. ASSUME pc[s] \in {"delivery", "commit"}
          PROVE  findOrder(s)' = {} /\ Inserting(Key(s))' \subseteq {s}
      <4>1. Key(s) # Key(r)
        BY <1>2, <2>2, <3>3 DEF Inserting
      <4>2. findOrder(s)' = findOrder(s)
        BY <1>1, <4>1 DEF findOrder, Key
      <4>3. Inserting(Key(s))' \subseteq Inserting(Key(s))
        BY <1>0, <1>1, <1>4 DEF Inserting, Key, TypeOK
      <4>4. findOrder(s) = {} /\ Inserting(Key(s)) \subseteq {s}
        BY <3>1, <3>3 DEF Position
      <4> QED BY <4>2, <4>3, <4>4
    <3> QED BY <3>1, <3>2, <3>3 DEF Position
  <2> QED BY <2>1, <2>2
<1> QED BY <1>5, <1>6, <1>7, <1>8, <1>9, <1>10, <1>11 DEF IndInv

(* Redis loses a lock or a result: nothing else changes. *)
LEMMA RedisLoss ==
  ASSUME IndInv, locks' \subseteq locks, cache' \subseteq cache,
         UNCHANGED <<request, reqVars, dbVars>>
  PROVE  IndInv'
<1>1. TypeOK'
  BY DEF IndInv, TypeOK, reqVars, dbVars
<1>2. OneOrderPerKey' /\ CacheFollowsTable' /\ NoPartialOrder' /\ DraftsDiffer'
  BY DEF IndInv, OneOrderPerKey, CacheFollowsTable, NoPartialOrder, DraftsDiffer, Key, reqVars, dbVars
<1>3. \A s \in Requests : Outcome(s, pc[s], result[s])'
  BY DEF IndInv, Outcome, Key, Fingerprint, reqVars, dbVars
<1>4. \A s \in Requests : Position(s, pc[s])'
  BY DEF IndInv, Position, Key, findOrder, Inserting, reqVars, dbVars
<1> QED BY <1>1, <1>2, <1>3, <1>4 DEF IndInv

(* Every step of every request and of Redis keeps the inductive invariant. *)
LEMMA StepPreserves == IndInv /\ [Next]_vars => IndInv'
<1> SUFFICES ASSUME IndInv, [Next]_vars PROVE IndInv'
  OBVIOUS
<1>1. ASSUME NEW r \in Requests, Receive(r) \/ Refuse(r) \/ Step(r) \/ Crash(r) PROVE IndInv'
  BY <1>1, CoordinatorStep, RepositoryStep, InsertEventStep, CommitStep DEF Step
<1>2. ASSUME NEW l \in locks, ExpireLock(l) PROVE IndInv'
  BY <1>2, RedisLoss DEF ExpireLock
<1>3. ASSUME NEW c \in cache, LoseResult(c) PROVE IndInv'
  BY <1>3, RedisLoss DEF LoseResult
<1>4. CASE UNCHANGED vars
  BY <1>4, RedisLoss DEF vars, redisVars
<1> QED BY <1>1, <1>2, <1>3, <1>4 DEF Next

(* The inductive invariant holds throughout. *)
LEMMA Invariance == Spec => []IndInv
BY InitEstablishes, StepPreserves, PTL DEF Spec
-----------------------------------------------------------------------------
(* Every variable keeps its type; in particular no statement hands out a   *)
(* sequence the BIGSERIAL has not drawn.                                   *)
THEOREM TypeCorrect == Spec => []TypeOK
<1>1. IndInv => TypeOK
  BY DEF IndInv
<1> QED BY <1>1, Invariance, PTL

(* However many replicas work on a key and whatever Redis forgets, the     *)
(* orders table never holds two orders of a key.                           *)
THEOREM OneOrder == Spec => []OneOrderPerKey
<1>1. IndInv => OneOrderPerKey
  BY DEF IndInv
<1> QED BY <1>1, Invariance, PTL

(* Every answer of CreateOrder follows the committed row of its key: a     *)
(* success names it, a conflict has a row with another fingerprint.        *)
THEOREM Answers == Spec => []AnswersFollowTheRow
<1>1. IndInv => AnswersFollowTheRow
  BY DEF IndInv, AnswersFollowTheRow, Answered, Succeeded, Outcome, findOrder
<1> QED BY <1>1, Invariance, PTL

(* At most one request of a key is told that it created the order: two     *)
(* creators would name the same row, which only one of them drafted.       *)
THEOREM Creator == Spec => []OneCreator
<1>1. ASSUME IndInv, NEW r \in Requests, NEW s \in Requests,
             Created(r), Created(s), Key(r) = Key(s)
      PROVE  r = s
  <2>1. /\ [key |-> Key(r), fingerprint |-> Fingerprint(r), sequence |-> draft[r]] \in orders
        /\ [key |-> Key(s), fingerprint |-> Fingerprint(s), sequence |-> draft[s]] \in orders
        /\ draft[r] # 0
    BY <1>1 DEF IndInv, Outcome, Created, Succeeded, Answered
  <2>2. draft[r] = draft[s]
    BY <1>1, <2>1 DEF IndInv, OneOrderPerKey
  <2> QED BY <1>1, <2>1, <2>2 DEF IndInv, DraftsDiffer
<1>2. IndInv => OneCreator
  BY <1>1 DEF OneCreator
<1> QED BY <1>2, Invariance, PTL

(* A result cached in Redis is backed by the committed order it names. *)
THEOREM CacheBacked == Spec => []CacheFollowsTable
<1>1. IndInv => CacheFollowsTable
  BY DEF IndInv
<1> QED BY <1>1, Invariance, PTL

(* The event, the order and the delivery of a transaction are committed    *)
(* together or not at all.                                                 *)
THEOREM Atomic == Spec => []NoPartialOrder
<1>1. IndInv => NoPartialOrder
  BY DEF IndInv
<1> QED BY <1>1, Invariance, PTL

(* The compare-and-delete frees only the caller's own lock: a lock that    *)
(* disappears has expired or its owner is in its deferred release.         *)
THEOREM Releases == Spec => ReleasesOnlyOwnLock
<1> DEFINE A == \A l \in locks \ locks' : pc' = pc \/ pc[l.owner] = "release"
<1>1. ASSUME NEW r \in Requests, Receive(r) \/ Refuse(r) \/ Step(r) \/ Crash(r), ~ Release(r)
      PROVE  locks \subseteq locks'
  BY <1>1 DEF Receive, Refuse, Step, Crash, Load, LoadFails, SetNX, SetNXFails, TakeLock, Poll,
     PollCancelled, Recheck, RecheckFails, Find, InsertEvent, InsertOrder, InsertDelivery,
     Commit, CommitReplyLost, resolveConcurrentCreate, RepositoryFails, Store, StoreFails,
     ReleaseFails, redisVars
<1>2. ASSUME NEW r \in Requests, Release(r) PROVE A
  BY <1>2 DEF Release, OwnLock
<1>3. ASSUME NEW l \in locks, ExpireLock(l) PROVE A
  BY <1>3 DEF ExpireLock, reqVars
<1>4. ASSUME NEW c \in cache, LoseResult(c) PROVE A
  BY <1>4 DEF LoseResult
<1>5. Next => A
  BY <1>1, <1>2, <1>3, <1>4 DEF Next
<1> QED BY <1>5, PTL DEF Spec, ReleasesOnlyOwnLock

-----------------------------------------------------------------------------
(* The refinement.  A step of one request leaves the other answers alone,  *)
(* and what it tells its own client is what OnceOnlyOrders allows.         *)
LEMMA TellStep ==
  ASSUME IndInv, IndInv', NEW r \in Requests, request' = request, pc[r] # "done",
         \A s \in Requests \ {r} : pc'[s] = pc[s] /\ result'[s] = result[s]
  PROVE  OnceOnly!Tell(r, orders') \/ UNCHANGED [s \in Requests |-> AnswerOf(s)]
<1> DEFINE answer == [s \in Requests |-> AnswerOf(s)]
<1>1. \A s \in Requests \ {r} : AnswerOf(s)' = AnswerOf(s)
  BY DEF AnswerOf, Answered, Created, Succeeded
<1>2. AnswerOf(r) = OnceOnly!Pending
  BY DEF AnswerOf, Answered, Succeeded, NoOrder, OnceOnly!Pending
<1>3. CASE pc'[r] # "done"
  <2>1. AnswerOf(r)' = AnswerOf(r)
    BY <1>3 DEF AnswerOf, Answered, Succeeded, NoOrder
  <2> QED BY <1>1, <2>1
<1>4. CASE pc'[r] = "done"
  <2> DEFINE x == result'[r]
  <2>1. x \in Results /\ Outcome(r, pc[r], result[r])'
    BY <1>4 DEF IndInv, TypeOK
  <2>2. AnswerOf(r)' \in OnceOnly!MayBeTold(r, orders')
    <3>1. CASE x.err = "none" /\ x.replayed
      <4>1. OnceOnly!Row(r, x.order) \in orders'
        BY <1>4, <2>1, <3>1 DEF Outcome, Key, Fingerprint, OnceOnly!Row
      <4>2. OnceOnly!Row(r, x.order) \in OnceOnly!Mine(r, orders')
        BY <4>1 DEF OnceOnly!Mine, OnceOnly!Bindings, OnceOnly!Row
      <4>3. AnswerOf(r)' = OnceOnly!Replayed(OnceOnly!Row(r, x.order).sequence)
        BY <1>4, <3>1 DEF AnswerOf, Answered, Created, Succeeded, OnceOnly!Replayed, OnceOnly!Row
      <4> QED BY <4>2, <4>3 DEF OnceOnly!MayBeTold
    <3>2. CASE x.err = "none" /\ ~x.replayed
      <4>1. /\ OnceOnly!Row(r, x.order) \in orders'
            /\ x.order = draft'[r] /\ draft'[r] # 0
        BY <1>4, <2>1, <3>2 DEF Outcome, Key, Fingerprint, OnceOnly!Row
      <4>2. OnceOnly!Row(r, x.order) \in OnceOnly!Mine(r, orders')
        BY <4>1 DEF OnceOnly!Mine, OnceOnly!Bindings, OnceOnly!Row
      <4>3. AnswerOf(r)' = OnceOnly!Created(OnceOnly!Row(r, x.order).sequence)
        BY <1>4, <3>2 DEF AnswerOf, Answered, Created, Succeeded, OnceOnly!Created, OnceOnly!Row
      <4>4. ASSUME NEW s \in Requests, AnswerOf(s) = OnceOnly!Created(x.order) PROVE FALSE
        <5>1. s # r
          BY <1>2, <4>4 DEF OnceOnly!Pending, OnceOnly!Created
        <5>2. /\ pc'[s] = "done" /\ result'[s].err = "none" /\ ~result'[s].replayed
              /\ result'[s].order = x.order
          BY <4>4, <5>1 DEF AnswerOf, Answered, Created, Succeeded, OnceOnly!Created
        <5>3. draft'[s] = x.order
          BY <5>2 DEF IndInv, Outcome
        <5> QED BY <4>1, <5>1, <5>3 DEF IndInv, DraftsDiffer
      <4>5. OnceOnly!Row(r, x.order).sequence = x.order
        BY DEF OnceOnly!Row
      <4>6. \A s \in Requests : answer[s] # OnceOnly!Created(x.order)
        BY <4>4
      <4> QED BY <4>2, <4>3, <4>5, <4>6 DEF OnceOnly!MayBeTold
    <3>3. CASE x.err = "conflict"
      <4>1. PICK row \in orders' : row.key = Key(r) /\ row.fingerprint # Fingerprint(r)
        BY <1>4, <2>1, <3>3 DEF Outcome, Key, Fingerprint
      <4>2. row \in OnceOnly!Bindings(r, orders') \ OnceOnly!Mine(r, orders')
        BY <4>1 DEF OnceOnly!Bindings, OnceOnly!Mine, Key, Fingerprint
      <4>3. AnswerOf(r)' = OnceOnly!Conflict
        BY <1>4, <3>3 DEF AnswerOf, Answered, Created, Succeeded, NoOrder, OnceOnly!Conflict
      <4> QED BY <4>2, <4>3 DEF OnceOnly!MayBeTold
    <3>4. CASE x.err \notin {"none", "conflict"}
      <4>1. AnswerOf(r)' = OnceOnly!Failed
        BY <1>4, <3>4 DEF AnswerOf, Answered, Created, Succeeded, NoOrder, OnceOnly!Failed
      <4> QED BY <4>1 DEF OnceOnly!MayBeTold
    <3> QED BY <2>1, <3>1, <3>2, <3>3, <3>4 DEF Results
  <2>3. answer' = [answer EXCEPT ![r] = AnswerOf(r)']
    BY <1>1
  <2> QED BY <1>2, <2>2, <2>3 DEF OnceOnly!Tell
<1> QED BY <1>3, <1>4

(* Every step of a request but the two commits leaves the table alone. *)
LEMMA RequestStep ==
  ASSUME TypeOK, NEW r \in Requests, Receive(r) \/ Refuse(r) \/ Step(r) \/ Crash(r)
  PROVE  /\ request' = request /\ pc[r] # "done"
         /\ \A s \in Requests \ {r} : pc'[s] = pc[s] /\ result'[s] = result[s]
         /\ orders' = orders \/ (pc[r] = "commit" /\ CommitRows(r))
<1> USE DEF TypeOK, Goto, Set, dbVars
<1>1. CASE Receive(r) \/ Refuse(r) \/ Crash(r) \/ Load(r) \/ Poll(r) \/ PollCancelled(r)
          \/ SetNX(r) \/ Recheck(r) \/ RecheckFails(r) \/ Store(r) \/ StoreFails(r)
  BY <1>1 DEF Receive, Refuse, Crash, Load, Poll, PollCancelled, SetNX, Recheck, RecheckFails,
              Store, StoreFails
<1>2. CASE LoadFails(r) \/ SetNXFails(r) \/ Release(r) \/ ReleaseFails(r)
  BY <1>2 DEF LoadFails, SetNXFails, Release, ReleaseFails, AfterRelease, FallBack
<1>3. CASE Find(r) \/ InsertEvent(r) \/ InsertOrder(r) \/ InsertDelivery(r)
          \/ resolveConcurrentCreate(r) \/ RepositoryFails(r)
  BY <1>3 DEF Find, InsertEvent, InsertOrder, InsertDelivery, resolveConcurrentCreate,
              RepositoryFails, RepositoryPCs, Return
<1>4. CASE Commit(r) \/ CommitReplyLost(r)
  BY <1>4 DEF Commit, CommitReplyLost, Return
<1> QED BY <1>1, <1>2, <1>3, <1>4 DEF Step

(* Service.CreateOrder keeps the promise of OnceOnlyOrders for any number  *)
(* of replicas, requests and keys: every step binds a free key, tells one  *)
(* client what the table allows, or changes nothing the promise speaks of. *)
THEOREM Refinement == Spec => ImplementsOnceOnly
<1> DEFINE answer == [r \in Requests |-> AnswerOf(r)]
<1>1. Init => OnceOnly!Init
  BY DEF Init, OnceOnly!Init, AnswerOf, Answered, Succeeded, NoOrder, OnceOnly!Pending
<1>2. IndInv /\ IndInv' /\ [Next]_vars => [OnceOnly!Next]_(OnceOnly!vars)
  <2> SUFFICES ASSUME IndInv, IndInv', [Next]_vars
               PROVE  OnceOnly!Next \/ UNCHANGED <<request, orders, answer>>
    BY DEF OnceOnly!vars
  <2>1. ASSUME NEW r \in Requests, Receive(r) \/ Refuse(r) \/ Step(r) \/ Crash(r)
        PROVE  OnceOnly!Next \/ UNCHANGED <<request, orders, answer>>
    <3>1. /\ request' = request /\ pc[r] # "done"
          /\ \A s \in Requests \ {r} : pc'[s] = pc[s] /\ result'[s] = result[s]
          /\ orders' = orders \/ (pc[r] = "commit" /\ CommitRows(r))
      BY <2>1, RequestStep DEF IndInv
    <3>2. OnceOnly!Tell(r, orders') \/ UNCHANGED answer
      BY <3>1, TellStep
    <3>3. CASE orders' = orders
      BY <3>1, <3>2, <3>3 DEF OnceOnly!Next, OnceOnly!Answer
    <3>4. CASE pc[r] = "commit" /\ CommitRows(r)
      <4> DEFINE row == OnceOnly!Row(r, draft[r])
      <4>1. orders' = orders \cup {row} /\ row.sequence = draft[r]
        BY <3>4 DEF CommitRows, OnceOnly!Row, Key, Fingerprint
      <4>2. OnceOnly!Bindings(r, orders) = {}
        BY <3>4 DEF IndInv, Position, findOrder, Key, OnceOnly!Bindings
      <4>3. answer[r] = OnceOnly!Pending
        BY <3>4 DEF AnswerOf, Answered, Succeeded, NoOrder, OnceOnly!Pending
      <4>4. \A o \in orders : o.sequence # draft[r]
        BY <4>2 DEF IndInv, DraftsDiffer, Key, OnceOnly!Bindings
      <4>5. OnceOnly!Create(r, row.sequence)
        BY <3>1, <3>2, <4>1, <4>2, <4>3, <4>4 DEF OnceOnly!Create
      <4>6. row \in orders' \ orders
        BY <4>1, <4>4
      <4> QED BY <4>5, <4>6 DEF OnceOnly!Next
    <3> QED BY <3>1, <3>3, <3>4
  <2>2. ASSUME (\E l \in locks : ExpireLock(l)) \/ (\E c \in cache : LoseResult(c)) \/ UNCHANGED vars
        PROVE  UNCHANGED <<request, orders, answer>>
    BY <2>2 DEF ExpireLock, LoseResult, vars, reqVars, dbVars, AnswerOf, Answered, Created, Succeeded
  <2> QED BY <2>1, <2>2 DEF Next
<1> QED BY <1>1, <1>2, Invariance, PTL DEF Spec, ImplementsOnceOnly, OnceOnly!Spec
=============================================================================
