-------------------------- MODULE RateLimiter_proofs --------------------------
(***************************************************************************)
(* Proofs about the admission chain, for any number of requests, tenants   *)
(* and addresses and any burst and rate of each layer.                     *)
(***************************************************************************)
EXTENDS RateLimiter, FiniteSetTheorems, TLAPS

(* The labels at which a request may hold a token of the layer. *)
Holding ==
    [api_key |-> {"tenant", "ip", "refund tenant", "refund api_key", "admitted"},
     tenant |-> {"ip", "refund tenant", "admitted"},
     ip |-> {"admitted"}]

(* A token is held in the request's own bucket, and only between the       *)
(* layer's Allow and its refund.                                           *)
HoldersInChain ==
    \A b \in BucketIds : \A r \in grants[b] :
        b = Bucket(r, b.layer) /\ pc[r] \in Holding[b.layer]

(* A bucket that is not in the map owes and is owed nothing. *)
AbsentIsEmpty ==
    \A b \in BucketIds : buckets[b] = NoBucket => grants[b] = {} /\ strays[b] = 0

(* The account of a bucket k of layer l with n tokens handed out, created  *)
(* at time c, with s stray refunds: what it holds and has handed out lies  *)
(* between its burst and its burst plus what was refilled up to its last.  *)
Balanced(k, l, n, c, s) ==
    /\ c <= k.last
    /\ k.tokens + Token * n <= Cap(l) + Rate[l] * (k.last - c) + Token * s
    /\ k.tokens + Token * n >= Cap(l)

Accounts ==
    \A b \in BucketIds : buckets[b] # NoBucket =>
        Balanced(buckets[b], b.layer, Cardinality(grants[b]), created[b], strays[b])

FiniteGrants == \A b \in BucketIds : IsFiniteSet(grants[b])

(* The inductive invariant.  AdmissionsWithinRate counts refill up to the  *)
(* clock; what an action preserves is the account up to the bucket's last. *)
IndInv == TypeOK /\ FiniteGrants /\ HoldersInChain /\ AbsentIsEmpty /\ Accounts

-----------------------------------------------------------------------------
(* Arithmetic of the account: the products stay products of the same two   *)
(* factors, so that the rest is linear.                                    *)
LEMMA Products ==
    ASSUME NEW n \in Nat, NEW s \in Nat, NEW c \in Int, NEW x \in Int, NEW y \in Int,
           NEW R \in Nat
    PROVE  /\ Token * n \in Nat /\ Token * s \in Nat
           /\ Token * (n + 1) = Token * n + Token
           /\ Token * (s + 1) = Token * s + Token
           /\ R * (y - c) = R * (x - c) + (y - x) * R
           /\ R * (x - c) \in Int /\ (y - x) * R \in Int
           /\ x <= y => (y - x) * R >= 0
  BY ConfigAssumption, SMT

(* A bucket has room for at least one token. *)
LEMMA CapFacts ==
    ASSUME NEW l \in Layers
    PROVE  Cap(l) \in Nat /\ Cap(l) >= Token /\ Rate[l] \in Nat /\ Rate[l] > 0
  BY ConfigAssumption, SMT DEF Cap

(* The record type of a bucket of layer l at time t. *)
BucketsAt(l, t) == [tokens : 0 .. Cap(l), last : 0 .. t]

(* A bucket, whatever it holds, is not the absent one. *)
LEMMA BucketIsPresent ==
    ASSUME NEW l \in Layers, NEW t \in Nat, NEW k \in BucketsAt(l, t)
    PROVE  k # NoBucket
  BY ConfigAssumption, CapFacts DEF BucketsAt

(* Refill moves last forward, never takes tokens away, and adds at most    *)
(* the rate times the time between the old and the new last.               *)
LEMMA RefillFacts ==
    ASSUME NEW l \in Layers, NEW t \in Nat, NEW k \in BucketsAt(l, t), NEW u \in 0 .. t
    PROVE  /\ Refill(k, l, u) \in BucketsAt(l, t)
           /\ Refill(k, l, u).last >= k.last
           /\ Refill(k, l, u).tokens >= k.tokens
           /\ Refill(k, l, u).tokens <= k.tokens + (Refill(k, l, u).last - k.last) * Rate[l]
<1> DEFINE gain == (u - k.last) * Rate[l]
<1>1. Cap(l) \in Nat /\ Rate[l] \in Nat
  BY CapFacts
<1>2. k.tokens \in 0 .. Cap(l) /\ k.last \in 0 .. t
  BY DEF BucketsAt
<1>3. CASE u > k.last
  <2>1. gain \in Nat
    BY <1>1, <1>2, <1>3, SMT
  <2>2. Refill(k, l, u) = [tokens |-> MinOf(Cap(l), k.tokens + gain), last |-> u]
    BY <1>3 DEF Refill
  <2>3. /\ MinOf(Cap(l), k.tokens + gain) \in 0 .. Cap(l)
        /\ MinOf(Cap(l), k.tokens + gain) >= k.tokens
        /\ MinOf(Cap(l), k.tokens + gain) <= k.tokens + gain
    <3> HIDE DEF gain
    <3> QED  BY <2>1, <1>1, <1>2 DEF MinOf
  <2> QED  BY <2>2, <2>3, <1>2, <1>3 DEF BucketsAt
<1>4. CASE ~(u > k.last)
  <2>1. Refill(k, l, u) = k
    BY <1>4 DEF Refill
  <2>2. (k.last - k.last) * Rate[l] = 0
    BY <1>1, <1>2
  <2> QED  BY <2>1, <2>2, <1>2
<1> QED  BY <1>3, <1>4

HoldingTable ==
    /\ Holding["api_key"] = {"tenant", "ip", "refund tenant", "refund api_key", "admitted"}
    /\ Holding["tenant"] = {"ip", "refund tenant", "admitted"}
    /\ Holding["ip"] = {"admitted"}

(* Holding, applied to each layer. *)
LEMMA HoldingFacts == HoldingTable
  BY DEF Holding, HoldingTable

(* Where a request goes from a layer: a token it takes there is held from  *)
(* then on, and those of the earlier layers until they are refunded.       *)
LEMMA LabelFacts ==
    ASSUME NEW l \in Layers
    PROVE  /\ l \notin Holding[l]
           /\ NextLabel[l] \in PCs /\ NextLabel[l] \in Holding[l]
           /\ RefundLabel[l] \in PCs
           /\ \A m \in Layers : l \in Holding[m] =>
                 NextLabel[l] \in Holding[m] /\ RefundLabel[l] \in Holding[m]
<1>1. HoldingTable
  BY HoldingFacts
<1>2. /\ NextLabel["api_key"] = "tenant"
      /\ NextLabel["tenant"] = "ip"
      /\ NextLabel["ip"] = "admitted"
  BY DEF NextLabel
<1>3. /\ RefundLabel["api_key"] = "limited"
      /\ RefundLabel["tenant"] = "refund api_key"
      /\ RefundLabel["ip"] = "refund tenant"
  BY DEF RefundLabel
<1>4. CASE l = "api_key"
  BY <1>1, <1>2, <1>3, <1>4 DEF PCs, Layers, HoldingTable
<1>5. CASE l = "tenant"
  BY <1>1, <1>2, <1>3, <1>5 DEF PCs, Layers, HoldingTable
<1>6. CASE l = "ip"
  BY <1>1, <1>2, <1>3, <1>6 DEF PCs, Layers, HoldingTable
<1> QED  BY <1>4, <1>5, <1>6 DEF Layers

(* The identifiers of the buckets a request uses. *)
LEMMA BucketFacts ==
    ASSUME TypeOK, NEW r \in Requests, NEW l \in Layers
    PROVE  Bucket(r, l) \in BucketIds /\ Bucket(r, l).layer = l
  BY DEF TypeOK, Bucket, BucketIds

(* What Allow tests: a full bucket for a new key, a refilled one else. *)
LEMMA TestedFacts ==
    ASSUME TypeOK, NEW r \in Requests, NEW l \in Layers, now[r] # NotRead
    PROVE  LET k == Tested(r, l)
               o == buckets[Bucket(r, l)]
           IN  /\ k \in BucketsAt(l, clock)
               /\ o = NoBucket => k.tokens = Cap(l) /\ k.last = now[r]
               /\ o # NoBucket => /\ o \in BucketsAt(l, clock)
                                  /\ k.last >= o.last
                                  /\ k.tokens >= o.tokens
                                  /\ k.tokens <= o.tokens + (k.last - o.last) * Rate[l]
<1> DEFINE o == buckets[Bucket(r, l)]
<1>1. Bucket(r, l) \in BucketIds /\ Bucket(r, l).layer = l
  BY BucketFacts
<1>2. now[r] \in 0 .. clock /\ clock \in Nat
  BY ConfigAssumption DEF TypeOK
<1>3. Cap(l) \in Nat
  BY CapFacts
<1>4. CASE o = NoBucket
  BY <1>2, <1>3, <1>4 DEF Tested, BucketsAt
<1>5. CASE o # NoBucket
  <2>1. o \in BucketsAt(l, clock)
    BY <1>1, <1>5 DEF TypeOK, BucketsAt
  <2>2. Tested(r, l) = Refill(o, l, now[r])
    BY <1>5 DEF Tested
  <2> HIDE DEF o
  <2>3. QED  BY <2>1, <2>2, <1>2, <1>5, RefillFacts DEF o
<1> QED  BY <1>4, <1>5

-----------------------------------------------------------------------------
(* The account of a bucket that Allow takes a token from. *)
LEMMA TakeBalanced ==
    ASSUME IndInv, NEW r \in Requests, NEW l \in Layers, now[r] # NotRead,
           NEW c \in Nat,
           buckets[Bucket(r, l)] = NoBucket => c = now[r],
           buckets[Bucket(r, l)] # NoBucket => c = created[Bucket(r, l)]
    PROVE  LET id == Bucket(r, l)
           IN  Balanced(Tested(r, l), l, Cardinality(grants[id]), c, strays[id])
<1> DEFINE id == Bucket(r, l)
           o == buckets[id]
           k == Tested(r, l)
           n == Cardinality(grants[id])
           s == strays[id]
<1>1. id \in BucketIds /\ id.layer = l
  BY BucketFacts DEF IndInv
<1>2. n \in Nat /\ s \in Nat
  BY <1>1, FS_CardinalityType DEF IndInv, FiniteGrants, TypeOK
<1>3. Cap(l) \in Nat /\ Rate[l] \in Nat /\ Token \in Nat
  BY CapFacts, ConfigAssumption
<1>4. /\ k \in BucketsAt(l, clock)
      /\ o = NoBucket => k.tokens = Cap(l) /\ k.last = now[r]
      /\ o # NoBucket => /\ o \in BucketsAt(l, clock)
                         /\ k.last >= o.last
                         /\ k.tokens >= o.tokens
                         /\ k.tokens <= o.tokens + (k.last - o.last) * Rate[l]
  BY TestedFacts DEF IndInv
<1>5. k.tokens \in Int /\ k.last \in Int
  BY <1>4, <1>3 DEF BucketsAt
<1>6. CASE o = NoBucket
  <2>1. n = 0 /\ s = 0
    BY <1>1, <1>6, FS_EmptySet DEF IndInv, AbsentIsEmpty
  <2>2. Rate[l] * (k.last - c) = 0 /\ Token * n = 0 /\ Token * s = 0
    <3>1. k.last - c = 0
      BY <1>4, <1>5, <1>6
    <3> HIDE DEF n, s, k
    <3> QED  BY <2>1, <3>1, <1>3
  <2> HIDE DEF n, s, k, o
  <2>3. k.tokens = Cap(l) /\ c <= k.last
    BY <1>4, <1>5, <1>6 DEF o
  <2>4. Balanced(k, l, n, c, s)
    BY <2>2, <2>3, <1>3 DEF Balanced
  <2> QED  BY <2>4 DEF n, s, k
<1>7. CASE o # NoBucket
  <2>1. Balanced(o, l, n, c, s)
    BY <1>1, <1>7 DEF IndInv, Accounts
  <2>2. o.tokens \in Int /\ o.last \in Int
    BY <1>4, <1>7, <1>3 DEF BucketsAt
  <2> HIDE DEF n, s, k, o
  <2>3. /\ Token * n \in Nat /\ Token * s \in Nat
        /\ Rate[l] * (k.last - c) = Rate[l] * (o.last - c) + (k.last - o.last) * Rate[l]
        /\ Rate[l] * (o.last - c) \in Int /\ (k.last - o.last) * Rate[l] \in Int
    BY <1>2, <1>3, <1>5, <2>2, Products
  <2>4. /\ k.last >= o.last /\ k.tokens >= o.tokens
        /\ k.tokens <= o.tokens + (k.last - o.last) * Rate[l]
    BY <1>4, <1>7 DEF o, k
  <2> DEFINE tn == Token * n
             ts == Token * s
             old == Rate[l] * (o.last - c)
             gain == (k.last - o.last) * Rate[l]
             new == Rate[l] * (k.last - c)
  <2>5. Balanced(k, l, n, c, s)
    <3>1. /\ c <= o.last
          /\ o.tokens + tn <= Cap(l) + old + ts
          /\ o.tokens + tn >= Cap(l)
      BY <2>1 DEF Balanced
    <3>2. tn \in Nat /\ ts \in Nat /\ new = old + gain /\ old \in Int /\ gain \in Int
      BY <2>3
    <3>3. k.tokens <= o.tokens + gain
      BY <2>4
    <3>4. k.tokens + tn <= Cap(l) + new + ts /\ k.tokens + tn >= Cap(l) /\ c <= k.last
      <4> HIDE DEF tn, ts, old, gain, new
      <4> QED  BY <3>1, <3>2, <3>3, <2>4, <1>3, <1>5, <2>2
    <3> QED  BY <3>4 DEF Balanced
  <2> QED  BY <2>5 DEF n, s, k
<1> QED  BY <1>6, <1>7

(* Allow takes a token: one more is handed out, one less is in the bucket. *)
LEMMA AllowPreserves ==
    ASSUME IndInv, NEW r \in Requests, NEW l \in Layers, Allow(r, l)
    PROVE  IndInv'
<1> DEFINE id == Bucket(r, l)
           k == Tested(r, l)
           taken == [k EXCEPT !.tokens = @ - Token]
           c == created'[id]
           n == Cardinality(grants[id])
           s == strays[id]
<1>0. TypeOK /\ now[r] # NotRead /\ now[r] \in 0 .. clock /\ clock \in Nat /\ pc[r] = l
  BY ConfigAssumption DEF IndInv, TypeOK, Allow
<1>1. id \in BucketIds /\ id.layer = l
  BY <1>0, BucketFacts
<1>2. Cap(l) \in Nat /\ Token \in Nat \ {0} /\ Rate[l] \in Nat
  BY CapFacts, ConfigAssumption
<1>3. k \in BucketsAt(l, clock) /\ k.tokens >= Token
  BY <1>0, TestedFacts DEF Allow, HasToken
<1>4. /\ taken \in BucketsAt(l, clock)
      /\ taken.tokens = k.tokens - Token /\ taken.last = k.last
      /\ k.tokens \in Nat /\ k.last \in Nat
  <2>1. k.tokens - Token \in 0 .. Cap(l)
    BY <1>2, <1>3 DEF BucketsAt
  <2> HIDE DEF k
  <2> QED  BY <1>2, <1>3, <2>1 DEF BucketsAt
<1>5. taken # NoBucket
  BY <1>0, <1>4, BucketIsPresent
<1>6. /\ buckets' = [buckets EXCEPT ![id] = taken]
      /\ grants' = [grants EXCEPT ![id] = @ \cup {r}]
      /\ pc' = [pc EXCEPT ![r] = NextLabel[l]]
      /\ now' = [now EXCEPT ![r] = NotRead]
      /\ created' = IF buckets[id] = NoBucket THEN [created EXCEPT ![id] = now[r]] ELSE created
      /\ UNCHANGED <<request, clock, resetStep, strays>>
  BY DEF Allow
<1>7. /\ c \in Nat
      /\ buckets[id] = NoBucket => c = now[r]
      /\ buckets[id] # NoBucket => c = created[id]
      /\ created' \in [BucketIds -> 0 .. clock]
      /\ \A b \in BucketIds : b # id => created'[b] = created[b]
  BY <1>0, <1>1, <1>6 DEF TypeOK
<1>8. Balanced(k, l, n, c, s)
  BY <1>0, <1>7, TakeBalanced
<1>9. IsFiniteSet(grants[id]) /\ n \in Nat /\ s \in Nat
  BY <1>0, <1>1, FS_CardinalityType DEF IndInv, FiniteGrants, TypeOK
<1>10. r \notin grants[id]
  BY <1>0, <1>1, LabelFacts DEF IndInv, HoldersInChain
<1>11. grants'[id] = grants[id] \cup {r}
  BY <1>0, <1>1, <1>6 DEF TypeOK
<1>12. IsFiniteSet(grants'[id]) /\ Cardinality(grants'[id]) = n + 1
  BY <1>9, <1>10, <1>11, FS_AddElement
<1>13. NextLabel[l] \in PCs /\ NextLabel[l] \in Holding[l]
  BY LabelFacts
<1>14. TypeOK'
  <2>1. \A b \in BucketIds : buckets'[b] # NoBucket =>
          buckets'[b] \in [tokens : 0 .. Cap(b.layer), last : 0 .. clock]
    <3> SUFFICES ASSUME NEW b \in BucketIds, buckets'[b] # NoBucket
                 PROVE  buckets'[b] \in [tokens : 0 .. Cap(b.layer), last : 0 .. clock]
      OBVIOUS
    <3> HIDE DEF taken, id
    <3>1. CASE b = id
      BY <3>1, <1>0, <1>1, <1>4, <1>6 DEF TypeOK, BucketsAt
    <3>2. CASE b # id
      BY <3>2, <1>0, <1>1, <1>6 DEF TypeOK
    <3> QED  BY <3>1, <3>2
  <2> HIDE DEF taken, id
  <2>2. DOMAIN buckets' = BucketIds
    BY <1>0, <1>6 DEF TypeOK
  <2>3. pc' \in [Requests -> PCs]
    BY <1>0, <1>6, <1>13 DEF TypeOK
  <2>4. now' \in [Requests -> {NotRead} \cup 0 .. clock]
    BY <1>0, <1>6 DEF TypeOK
  <2>5. grants' \in [BucketIds -> SUBSET Requests]
    BY <1>0, <1>6 DEF TypeOK
  <2>6. created' \in [BucketIds -> 0 .. clock]
    BY <1>7
  <2>7. clock' = clock /\ request' = request /\ resetStep' = resetStep /\ strays' = strays
    BY <1>6
  <2> QED  BY <2>1, <2>2, <2>3, <2>4, <2>5, <2>6, <2>7, <1>0 DEF TypeOK
<1>15. FiniteGrants'
  <2> SUFFICES ASSUME NEW b \in BucketIds PROVE IsFiniteSet(grants'[b])
    BY DEF FiniteGrants
  <2>1. CASE b # id
    BY <2>1, <1>0, <1>6 DEF IndInv, FiniteGrants, TypeOK
  <2> QED  BY <2>1, <1>12
<1>16. HoldersInChain'
  <2> SUFFICES ASSUME NEW b \in BucketIds, NEW q \in grants'[b]
               PROVE  b = Bucket(q, b.layer)' /\ pc'[q] \in Holding[b.layer]
    BY DEF HoldersInChain
  <2>1. Bucket(q, b.layer)' = Bucket(q, b.layer)
    BY <1>6 DEF Bucket
  <2>2. CASE q = r /\ b = id
    BY <2>1, <2>2, <1>0, <1>1, <1>6, <1>13 DEF TypeOK
  <2>3. CASE ~(q = r /\ b = id)
    <3>1. q \in grants[b] /\ q \in Requests
      BY <2>3, <1>0, <1>6 DEF TypeOK
    <3>2. b = Bucket(q, b.layer) /\ pc[q] \in Holding[b.layer]
      BY <3>1 DEF IndInv, HoldersInChain
    <3>3. CASE q # r
      BY <2>1, <3>1, <3>2, <3>3, <1>0, <1>6 DEF TypeOK
    <3>4. CASE q = r
      <4>1. l \in Holding[b.layer] /\ b.layer \in Layers
        BY <3>2, <3>4, <1>0 DEF BucketIds
      <4>2. NextLabel[l] \in Holding[b.layer]
        BY <4>1, LabelFacts
      <4> QED  BY <2>1, <3>1, <3>2, <3>4, <4>2, <1>0, <1>6 DEF TypeOK
    <3> QED  BY <3>3, <3>4
  <2> QED  BY <2>2, <2>3
<1>17. AbsentIsEmpty'
  <2> SUFFICES ASSUME NEW b \in BucketIds, buckets'[b] = NoBucket
               PROVE  grants'[b] = {} /\ strays'[b] = 0
    BY DEF AbsentIsEmpty
  <2> HIDE DEF taken
  <2>1. b # id
    BY <1>0, <1>1, <1>5, <1>6 DEF TypeOK
  <2> HIDE DEF id
  <2> QED  BY <2>1, <1>0, <1>6 DEF IndInv, AbsentIsEmpty, TypeOK
<1>18. Accounts'
  <2> SUFFICES ASSUME NEW b \in BucketIds, buckets'[b] # NoBucket
               PROVE  Balanced(buckets'[b], b.layer, Cardinality(grants'[b]),
                               created'[b], strays'[b])
    BY DEF Accounts, Balanced, Cap
  <2>1. CASE b # id
    <3> HIDE DEF taken, id
    <3>1. buckets'[b] = buckets[b] /\ grants'[b] = grants[b] /\ strays'[b] = strays[b]
          /\ created'[b] = created[b]
      BY <2>1, <1>0, <1>6, <1>7 DEF TypeOK
    <3> QED  BY <3>1 DEF IndInv, Accounts
  <2>2. CASE b = id
    <3>1. buckets'[id] = taken /\ strays'[id] = s
      BY <1>0, <1>1, <1>6 DEF TypeOK
    <3>2. /\ Token * n \in Nat /\ Token * s \in Nat
          /\ Token * (n + 1) = Token * n + Token
          /\ Rate[l] * (k.last - c) \in Int
      <4>1. n \in Nat /\ s \in Nat /\ c \in Int /\ k.last \in Int /\ Rate[l] \in Nat
        BY <1>2, <1>4, <1>7, <1>9
      <4> DEFINE R == Rate[l]
                 x == k.last
      <4> HIDE DEF n, s, k, c, R, x
      <4>2. R \in Nat /\ x \in Int
        BY <4>1 DEF R, x
      <4>3. /\ Token * n \in Nat /\ Token * s \in Nat
            /\ Token * (n + 1) = Token * n + Token
            /\ R * (x - c) \in Int
        BY <4>1, <4>2, Products
      <4> QED  BY <4>3 DEF R, x
    <3>3. Balanced(taken, l, n + 1, c, s)
      <4> DEFINE p == Rate[l] * (k.last - c)
                 tn == Token * n
                 ts == Token * s
      <4>1. c <= k.last /\ k.tokens + tn <= Cap(l) + p + ts /\ k.tokens + tn >= Cap(l)
        BY <1>8 DEF Balanced
      <4>2. tn \in Nat /\ ts \in Nat /\ p \in Int
        BY <3>2
      <4>3. /\ (k.tokens - Token) + (tn + Token) <= Cap(l) + p + ts
            /\ (k.tokens - Token) + (tn + Token) >= Cap(l)
        <5> HIDE DEF tn, ts, p, k
        <5> QED  BY <4>1, <4>2, <1>2, <1>4
      <4>4. /\ c <= taken.last
            /\ taken.tokens + Token * (n + 1) <= Cap(l) + Rate[l] * (taken.last - c) + Token * s
            /\ taken.tokens + Token * (n + 1) >= Cap(l)
        <5> HIDE DEF taken, k, n, s, c
        <5> QED  BY <4>1, <4>3, <3>2, <1>4
      <4> QED  BY <4>4 DEF Balanced
    <3> QED  BY <2>2, <3>1, <3>3, <1>1, <1>12
  <2> QED  BY <2>1, <2>2
<1> QED  BY <1>14, <1>15, <1>16, <1>17, <1>18 DEF IndInv

(* Refuse keeps the refill; a new bucket is full, so it is never refused. *)
LEMMA RefusePreserves ==
    ASSUME IndInv, NEW r \in Requests, NEW l \in Layers, Refuse(r, l)
    PROVE  IndInv'
<1> DEFINE id == Bucket(r, l)
           k == Tested(r, l)
<1>0. TypeOK /\ now[r] # NotRead /\ clock \in Nat /\ pc[r] = l
  BY ConfigAssumption DEF IndInv, TypeOK, Refuse
<1>1. id \in BucketIds /\ id.layer = l
  BY <1>0, BucketFacts
<1>2. Cap(l) \in Nat /\ Cap(l) >= Token /\ Token \in Nat
  BY CapFacts, ConfigAssumption
<1>3. k \in BucketsAt(l, clock) /\ ~(k.tokens >= Token)
  BY <1>0, TestedFacts DEF Refuse, HasToken
<1>4. buckets[id] # NoBucket
  BY <1>0, <1>2, <1>3, TestedFacts
<1>5. /\ buckets' = [buckets EXCEPT ![id] = k]
      /\ pc' = [pc EXCEPT ![r] = RefundLabel[l]]
      /\ now' = [now EXCEPT ![r] = NotRead]
      /\ UNCHANGED <<request, clock, resetStep, grants, created, strays>>
  BY DEF Refuse
<1>6. created[id] \in Nat
  BY <1>0, <1>1 DEF TypeOK
<1>7. Balanced(k, l, Cardinality(grants[id]), created[id], strays[id])
  BY <1>0, <1>4, <1>6, TakeBalanced
<1> HIDE DEF k, id
<1>8. TypeOK'
  <2>1. \A b \in BucketIds : buckets'[b] # NoBucket =>
          buckets'[b] \in [tokens : 0 .. Cap(b.layer), last : 0 .. clock]
    BY <1>0, <1>1, <1>3, <1>5 DEF TypeOK, BucketsAt
  <2>2. pc' \in [Requests -> PCs]
    BY <1>0, <1>5, LabelFacts DEF TypeOK
  <2> QED  BY <2>1, <2>2, <1>0, <1>5 DEF TypeOK
<1>9. FiniteGrants'
  BY <1>5 DEF IndInv, FiniteGrants
<1>10. HoldersInChain'
  <2> SUFFICES ASSUME NEW b \in BucketIds, NEW q \in grants[b]
               PROVE  b = Bucket(q, b.layer)' /\ pc'[q] \in Holding[b.layer]
    BY <1>5 DEF HoldersInChain
  <2>1. Bucket(q, b.layer)' = Bucket(q, b.layer)
    BY <1>5 DEF Bucket
  <2>2. b = Bucket(q, b.layer) /\ pc[q] \in Holding[b.layer] /\ q \in Requests
    BY <1>0 DEF IndInv, HoldersInChain, TypeOK
  <2>3. q = r => RefundLabel[l] \in Holding[b.layer]
    BY <2>2, <1>0, LabelFacts DEF BucketIds
  <2> QED  BY <2>1, <2>2, <2>3, <1>0, <1>5 DEF TypeOK
<1>11. AbsentIsEmpty'
  <2> SUFFICES ASSUME NEW b \in BucketIds, buckets'[b] = NoBucket
               PROVE  grants[b] = {} /\ strays[b] = 0
    BY <1>5 DEF AbsentIsEmpty
  <2>1. k # NoBucket
    BY <1>0, <1>3, BucketIsPresent
  <2>2. buckets[b] = NoBucket
    BY <2>1, <1>0, <1>5 DEF TypeOK
  <2> QED  BY <2>2 DEF IndInv, AbsentIsEmpty
<1>12. Accounts'
  <2> SUFFICES ASSUME NEW b \in BucketIds, buckets'[b] # NoBucket
               PROVE  Balanced(buckets'[b], b.layer, Cardinality(grants[b]),
                               created[b], strays[b])
    BY <1>5 DEF Accounts, Balanced, Cap
  <2>1. CASE b # id
    <3>1. buckets'[b] = buckets[b]
      BY <2>1, <1>0, <1>5 DEF TypeOK
    <3> QED  BY <3>1 DEF IndInv, Accounts
  <2>2. CASE b = id
    <3>1. buckets'[id] = k
      BY <1>0, <1>1, <1>5 DEF TypeOK
    <3> QED  BY <2>2, <3>1, <1>1, <1>7
  <2> QED  BY <2>1, <2>2
<1> QED  BY <1>8, <1>9, <1>10, <1>11, <1>12 DEF IndInv

(* A refund of a layer whose token the request no longer holds afterwards: *)
(* next is a label at which only earlier layers' tokens are held.          *)
LEMMA RefundPreserves ==
    ASSUME IndInv, NEW r \in Requests, NEW l \in Layers, NEW next \in PCs,
           Refund(r, l, next),
           \A m \in Layers : m # l /\ pc[r] \in Holding[m] => next \in Holding[m]
    PROVE  IndInv'
<1> DEFINE id == Bucket(r, l)
           o == buckets[id]
           k == Refunded(o, l)
           n == Cardinality(grants[id])
           s == strays[id]
<1>0. TypeOK /\ clock \in Nat
  BY ConfigAssumption DEF IndInv, TypeOK
<1>1. id \in BucketIds /\ id.layer = l
  BY <1>0, BucketFacts
<1>2. Cap(l) \in Nat /\ Token \in Nat /\ Rate[l] \in Nat
  BY CapFacts, ConfigAssumption
<1>3. /\ buckets' = IF o = NoBucket THEN buckets ELSE [buckets EXCEPT ![id] = k]
      /\ grants' = [grants EXCEPT ![id] = @ \ {r}]
      /\ strays' = IF o # NoBucket /\ r \notin grants[id]
                   THEN [strays EXCEPT ![id] = @ + 1] ELSE strays
      /\ pc' = [pc EXCEPT ![r] = next]
      /\ UNCHANGED <<request, clock, now, resetStep, created>>
  BY DEF Refund
<1>4. o # NoBucket =>
        /\ o \in BucketsAt(l, clock) /\ o.tokens \in Nat /\ o.last \in Nat
        /\ k \in BucketsAt(l, clock)
        /\ k.tokens = MinOf(Cap(l), o.tokens + Token) /\ k.last = o.last
  <2> SUFFICES ASSUME o # NoBucket
               PROVE  /\ o \in BucketsAt(l, clock) /\ o.tokens \in Nat /\ o.last \in Nat
                      /\ k \in BucketsAt(l, clock)
                      /\ k.tokens = MinOf(Cap(l), o.tokens + Token) /\ k.last = o.last
    OBVIOUS
  <2>1. o \in BucketsAt(l, clock)
    BY <1>0, <1>1 DEF TypeOK, BucketsAt
  <2>2. o.tokens \in 0 .. Cap(l) /\ o.last \in 0 .. clock
    BY <2>1 DEF BucketsAt
  <2>3. MinOf(Cap(l), o.tokens + Token) \in 0 .. Cap(l)
    BY <2>2, <1>2 DEF MinOf
  <2> HIDE DEF o
  <2> QED  BY <2>1, <2>2, <2>3, <1>0, <1>2 DEF BucketsAt, Refunded
<1>5. o # NoBucket => k # NoBucket
  BY <1>0, <1>4, BucketIsPresent
<1>6. IsFiniteSet(grants[id]) /\ n \in Nat /\ s \in Nat
  BY <1>0, <1>1, FS_CardinalityType DEF IndInv, FiniteGrants, TypeOK
<1>7. grants'[id] = grants[id] \ {r}
  BY <1>0, <1>1, <1>3 DEF TypeOK
<1>8. /\ IsFiniteSet(grants'[id])
      /\ Cardinality(grants'[id]) = IF r \in grants[id] THEN n - 1 ELSE n
  <2> DEFINE g == grants[id]
  <2>1. IsFiniteSet(g) /\ n = Cardinality(g) /\ grants'[id] = g \ {r}
    BY <1>6, <1>7
  <2> HIDE DEF g, n
  <2>2. IsFiniteSet(g \ {r}) /\ Cardinality(g \ {r}) = IF r \in g THEN Cardinality(g) - 1 ELSE Cardinality(g)
    BY <2>1, FS_RemoveElement
  <2>3. r \in g <=> r \in grants[id]
    BY DEF g
  <2> QED  BY <2>1, <2>2, <2>3
<1>9. \A b \in BucketIds : b # id =>
         buckets'[b] = buckets[b] /\ grants'[b] = grants[b] /\ strays'[b] = strays[b]
  <2> HIDE DEF id, k
  <2> QED  BY <1>0, <1>3 DEF TypeOK
<1>10. /\ buckets'[id] = IF o = NoBucket THEN NoBucket ELSE k
       /\ strays'[id] = IF o # NoBucket /\ r \notin grants[id] THEN s + 1 ELSE s
  <2> HIDE DEF id, k
  <2> QED  BY <1>0, <1>1, <1>3 DEF TypeOK
<1> HIDE DEF id, k
<1>11. TypeOK'
  <2>1. \A b \in BucketIds : buckets'[b] # NoBucket =>
          buckets'[b] \in [tokens : 0 .. Cap(b.layer), last : 0 .. clock]
    BY <1>0, <1>1, <1>4, <1>9, <1>10 DEF TypeOK, BucketsAt
  <2>2. DOMAIN buckets' = BucketIds
    BY <1>0, <1>3 DEF TypeOK
  <2>3. pc' \in [Requests -> PCs]
    BY <1>0, <1>3 DEF TypeOK
  <2>4. grants' \in [BucketIds -> SUBSET Requests]
    BY <1>0, <1>3 DEF TypeOK
  <2>5. strays' \in [BucketIds -> Nat]
    BY <1>0, <1>1, <1>3 DEF TypeOK
  <2> QED  BY <2>1, <2>2, <2>3, <2>4, <2>5, <1>0, <1>3 DEF TypeOK
<1>12. FiniteGrants'
  BY <1>8, <1>9 DEF IndInv, FiniteGrants
<1>13. HoldersInChain'
  <2> SUFFICES ASSUME NEW b \in BucketIds, NEW q \in grants'[b]
               PROVE  b = Bucket(q, b.layer)' /\ pc'[q] \in Holding[b.layer]
    BY DEF HoldersInChain
  <2>1. Bucket(q, b.layer)' = Bucket(q, b.layer)
    BY <1>3 DEF Bucket
  <2>2. q \in grants[b] /\ q \in Requests /\ ~(q = r /\ b = id)
    BY <1>0, <1>3, <1>7, <1>9 DEF TypeOK
  <2>3. b = Bucket(q, b.layer) /\ pc[q] \in Holding[b.layer]
    BY <2>2 DEF IndInv, HoldersInChain
  <2>4. q = r => b.layer # l /\ b.layer \in Layers
    BY <2>2, <2>3 DEF id, BucketIds
  <2> QED  BY <2>1, <2>2, <2>3, <2>4, <1>0, <1>3 DEF TypeOK
<1>14. AbsentIsEmpty'
  <2> SUFFICES ASSUME NEW b \in BucketIds, buckets'[b] = NoBucket
               PROVE  grants'[b] = {} /\ strays'[b] = 0
    BY DEF AbsentIsEmpty
  <2>1. buckets[b] = NoBucket
    BY <1>5, <1>9, <1>10
  <2>2. grants[b] = {} /\ strays[b] = 0
    BY <2>1 DEF IndInv, AbsentIsEmpty
  <2> QED  BY <2>1, <2>2, <1>7, <1>9, <1>10
<1>15. ASSUME o # NoBucket
       PROVE  Balanced(k, l, Cardinality(grants'[id]), created[id], strays'[id])
  <2> DEFINE m == Cardinality(grants'[id])
             t == strays'[id]
             c == created[id]
  <2>1. c \in Nat
    BY <1>0, <1>1 DEF TypeOK
  <2>2. Balanced(o, l, n, c, s)
    BY <1>1, <1>15 DEF IndInv, Accounts
  <2>3. CASE r \in grants[id]
    <3>1. m = n - 1 /\ t = s
      BY <2>3, <1>8, <1>10
    <3>2. m \in Nat
      BY <1>8, FS_CardinalityType
    <3> HIDE DEF m, t, c, n, s, o
    <3>3. n = m + 1
      BY <3>1, <3>2, <1>6
    <3>4. Token * m \in Nat /\ Token * s \in Nat /\ Token * n = Token * m + Token
          /\ Rate[l] * (o.last - c) \in Int /\ Rate[l] * (o.last - c) >= 0
      <4>1. o.last - c \in Nat
        BY <2>1, <2>2, <1>4, <1>15 DEF Balanced
      <4>2. Rate[l] * (o.last - c) \in Nat
        BY <4>1, <1>2, SMT
      <4> QED  BY <3>2, <3>3, <1>2, <1>6, <4>2, SMT
    <3> DEFINE tm == Token * m
               ts == Token * s
               p == Rate[l] * (o.last - c)
    <3>5. /\ c <= o.last
          /\ o.tokens + (tm + Token) <= Cap(l) + p + ts
          /\ o.tokens + (tm + Token) >= Cap(l)
      BY <2>2, <3>4 DEF Balanced
    <3>6. tm \in Nat /\ ts \in Nat /\ p \in Int
      BY <3>4
    <3>7. /\ c <= o.last
          /\ k.tokens + tm <= Cap(l) + p + ts
          /\ k.tokens + tm >= Cap(l)
      <4> HIDE DEF tm, ts, p
      <4> QED  BY <3>5, <3>6, <1>2, <1>4, <1>15 DEF MinOf
    <3>8. Balanced(k, l, m, c, s)
      BY <3>7, <1>4, <1>15 DEF Balanced
    <3> QED  BY <3>1, <3>8 DEF m, t, c
  <2>4. CASE r \notin grants[id]
    <3>1. m = n /\ t = s + 1
      BY <2>4, <1>8, <1>10, <1>15
    <3> HIDE DEF m, t, c, n, s, o
    <3>4. Token * n \in Nat /\ Token * s \in Nat /\ Token * t = Token * s + Token
          /\ Rate[l] * (o.last - c) \in Int
      BY <3>1, <2>1, <1>2, <1>4, <1>6, <1>15, Products
    <3> DEFINE tn == Token * n
               ts == Token * s
               p == Rate[l] * (o.last - c)
    <3>5. /\ c <= o.last
          /\ o.tokens + tn <= Cap(l) + p + ts
          /\ o.tokens + tn >= Cap(l)
      BY <2>2 DEF Balanced
    <3>6. tn \in Nat /\ ts \in Nat /\ p \in Int
      BY <3>4
    <3>7. /\ c <= o.last
          /\ k.tokens + tn <= Cap(l) + p + (ts + Token)
          /\ k.tokens + tn >= Cap(l)
      <4> HIDE DEF tn, ts, p
      <4> QED  BY <3>5, <3>6, <1>2, <1>4, <1>15 DEF MinOf
    <3>8. Balanced(k, l, n, c, t)
      BY <3>7, <3>4, <1>4, <1>15 DEF Balanced
    <3> QED  BY <3>1, <3>8 DEF m, t, c
  <2> QED  BY <2>3, <2>4
<1>16. Accounts'
  <2> SUFFICES ASSUME NEW b \in BucketIds, buckets'[b] # NoBucket
               PROVE  Balanced(buckets'[b], b.layer, Cardinality(grants'[b]),
                               created[b], strays'[b])
    BY <1>3 DEF Accounts, Balanced, Cap
  <2>1. CASE b # id
    BY <2>1, <1>9 DEF IndInv, Accounts
  <2>2. CASE b = id
    BY <2>2, <1>1, <1>10, <1>15
  <2> QED  BY <2>1, <2>2
<1> QED  BY <1>11, <1>12, <1>13, <1>14, <1>16 DEF IndInv

(* Server.reset's step empties every bucket of one layer, with its account. *)
LEMMA ResetPreserves ==
    ASSUME IndInv, Reset
    PROVE  IndInv'
<1> DEFINE mine == {b \in BucketIds : b.layer = ResetOrder[resetStep + 1]}
<1>1. /\ buckets' = [b \in BucketIds |-> IF b \in mine THEN NoBucket ELSE buckets[b]]
      /\ grants' = [b \in BucketIds |-> IF b \in mine THEN {} ELSE grants[b]]
      /\ strays' = [b \in BucketIds |-> IF b \in mine THEN 0 ELSE strays[b]]
      /\ created' = [b \in BucketIds |-> IF b \in mine THEN 0 ELSE created[b]]
      /\ resetStep' = resetStep + 1 /\ resetStep < 3
      /\ UNCHANGED <<request, clock, pc, now>>
  BY DEF Reset
<1> HIDE DEF mine
<1>2. TypeOK /\ clock \in Nat
  BY ConfigAssumption DEF IndInv, TypeOK
<1>3. TypeOK'
  <2>1. resetStep' \in 0 .. 3
    BY <1>1, <1>2 DEF TypeOK
  <2>2. created' \in [BucketIds -> 0 .. clock]
    BY <1>1, <1>2 DEF TypeOK
  <2>3. grants' \in [BucketIds -> SUBSET Requests] /\ strays' \in [BucketIds -> Nat]
    BY <1>1, <1>2 DEF TypeOK
  <2>4. \A b \in BucketIds : buckets'[b] # NoBucket =>
          buckets'[b] \in [tokens : 0 .. Cap(b.layer), last : 0 .. clock]
    BY <1>1, <1>2 DEF TypeOK
  <2> QED  BY <2>1, <2>2, <2>3, <2>4, <1>1, <1>2 DEF TypeOK
<1>4. FiniteGrants'
  BY <1>1, FS_EmptySet DEF IndInv, FiniteGrants
<1>5. HoldersInChain'
  <2> SUFFICES ASSUME NEW b \in BucketIds, NEW q \in grants'[b]
               PROVE  b = Bucket(q, b.layer)' /\ pc'[q] \in Holding[b.layer]
    BY DEF HoldersInChain
  <2>1. Bucket(q, b.layer)' = Bucket(q, b.layer)
    BY <1>1 DEF Bucket
  <2> QED  BY <2>1, <1>1 DEF IndInv, HoldersInChain
<1>6. AbsentIsEmpty'
  BY <1>1 DEF IndInv, AbsentIsEmpty
<1>7. Accounts'
  <2> SUFFICES ASSUME NEW b \in BucketIds, buckets'[b] # NoBucket
               PROVE  Balanced(buckets'[b], b.layer, Cardinality(grants'[b]),
                               created'[b], strays'[b])
    BY DEF Accounts, Balanced, Cap
  <2> QED  BY <1>1 DEF IndInv, Accounts
<1> QED  BY <1>3, <1>4, <1>5, <1>6, <1>7 DEF IndInv

(* Reading the clock and time passing touch no bucket. *)
LEMMA TimePreserves ==
    ASSUME IndInv,
           UNCHANGED <<request, buckets, pc, resetStep, grants, created, strays>>,
           \/ Tick
           \/ \E r \in Requests : ReadClock(r)
           \/ UNCHANGED vars
    PROVE  IndInv'
<1>1. TypeOK'
  <2>1. /\ clock' \in 0 .. MaxTime /\ 0 .. clock \subseteq 0 .. clock'
        /\ now' \in [Requests -> {NotRead} \cup 0 .. clock']
    <3>1. CASE Tick
      BY <3>1, ConfigAssumption DEF Tick, IndInv, TypeOK
    <3>2. CASE \E r \in Requests : ReadClock(r)
      BY <3>2, ConfigAssumption DEF ReadClock, IndInv, TypeOK
    <3>3. CASE UNCHANGED vars
      BY <3>3 DEF vars, IndInv, TypeOK
    <3> QED  BY <3>1, <3>2, <3>3
  <2>2. \A b \in BucketIds : buckets[b] # NoBucket =>
          buckets[b] \in [tokens : 0 .. Cap(b.layer), last : 0 .. clock']
    BY <2>1 DEF IndInv, TypeOK
  <2>3. created \in [BucketIds -> 0 .. clock']
    BY <2>1 DEF IndInv, TypeOK
  <2> QED  BY <2>1, <2>2, <2>3 DEF IndInv, TypeOK
<1>2. FiniteGrants' /\ AbsentIsEmpty'
  BY DEF IndInv, FiniteGrants, AbsentIsEmpty
<1>3. HoldersInChain'
  BY DEF IndInv, HoldersInChain, Bucket
<1>4. Accounts'
  BY DEF IndInv, Accounts, Balanced, Cap
<1> QED  BY <1>1, <1>2, <1>3, <1>4 DEF IndInv

(* No bucket exists at the start and nobody holds a token.                 *)
LEMMA InitIndInv == Init => IndInv
<1> SUFFICES ASSUME Init PROVE IndInv
  OBVIOUS
<1>1. TypeOK
  <2>1. "api_key" \in PCs /\ 0 \in 0 .. MaxTime
    BY ConfigAssumption DEF PCs, Layers
  <2> QED  BY <2>1 DEF Init, TypeOK
<1>2. FiniteGrants
  BY FS_EmptySet DEF Init, FiniteGrants
<1> QED  BY <1>1, <1>2 DEF Init, IndInv, HoldersInChain, AbsentIsEmpty, Accounts

-----------------------------------------------------------------------------
(* Every reachable state of the admission chain satisfies IndInv. *)
THEOREM Invariance == Spec => []IndInv
<1>1. IndInv /\ [Next]_vars => IndInv'
  <2> SUFFICES ASSUME IndInv, [Next]_vars PROVE IndInv'
    OBVIOUS
  <2>1. ASSUME NEW r \in Requests, ReadClock(r) PROVE IndInv'
    BY <2>1, TimePreserves DEF ReadClock
  <2>2. ASSUME NEW r \in Requests, RefundTenant(r) PROVE IndInv'
    <3>1. "tenant" \in Layers /\ "refund api_key" \in PCs
      BY DEF Layers, PCs
    <3>2. \A m \in Layers : m # "tenant" /\ pc[r] \in Holding[m] => "refund api_key" \in Holding[m]
      BY <2>2, HoldingFacts DEF Layers, HoldingTable, RefundTenant
    <3> QED  BY <2>2, <3>1, <3>2, RefundPreserves DEF RefundTenant
  <2>3. ASSUME NEW r \in Requests, RefundKey(r) PROVE IndInv'
    <3>1. "api_key" \in Layers /\ "limited" \in PCs
      BY DEF Layers, PCs
    <3>2. \A m \in Layers : m # "api_key" /\ pc[r] \in Holding[m] => "limited" \in Holding[m]
      BY <2>3, HoldingFacts DEF Layers, HoldingTable, RefundKey
    <3> QED  BY <2>3, <3>1, <3>2, RefundPreserves DEF RefundKey
  <2>4. ASSUME NEW r \in Requests, NEW l \in Layers, Allow(r, l) PROVE IndInv'
    BY <2>4, AllowPreserves
  <2>5. ASSUME NEW r \in Requests, NEW l \in Layers, Refuse(r, l) PROVE IndInv'
    BY <2>5, RefusePreserves
  <2>6. CASE Reset
    BY <2>6, ResetPreserves
  <2>7. CASE Tick
    BY <2>7, TimePreserves DEF Tick
  <2>8. CASE UNCHANGED vars
    BY <2>8, TimePreserves DEF vars
  <2> QED  BY <2>1, <2>2, <2>3, <2>4, <2>5, <2>6, <2>7, <2>8 DEF Next
<1> QED  BY <1>1, InitIndInv, PTL DEF Spec

(* A bucket never holds more than its burst, whatever is refunded when,    *)
(* and is never refilled up to a time in the future.                       *)
THEOREM TypeCorrect == Spec => []TypeOK
<1>1. IndInv => TypeOK
  BY DEF IndInv
<1> QED  BY <1>1, Invariance, PTL

(* However many requests race, with however old readings of the clock, a   *)
(* bucket admits no more than its burst and its refill, and one for every  *)
(* token refunded across a Reset.                                          *)
THEOREM RateKept == Spec => []AdmissionsWithinRate
<1>1. IndInv => AdmissionsWithinRate
  <2> SUFFICES ASSUME IndInv, NEW b \in BucketIds, buckets[b] # NoBucket
               PROVE  Token * Cardinality(grants[b]) <=
                        Cap(b.layer) + Rate[b.layer] * (clock - created[b]) + Token * strays[b]
    BY DEF AdmissionsWithinRate
  <2> DEFINE k == buckets[b]
             l == b.layer
             c == created[b]
             n == Cardinality(grants[b])
             s == strays[b]
  <2>1. Balanced(k, l, n, c, s)
    BY DEF IndInv, Accounts
  <2>2. l \in Layers
    BY DEF BucketIds
  <2>3. /\ k.tokens \in Nat /\ k.last \in Int /\ k.last <= clock /\ clock \in Int
        /\ c \in Int /\ s \in Nat
    BY <2>2, CapFacts, ConfigAssumption DEF IndInv, TypeOK
  <2>4. n \in Nat
    BY FS_CardinalityType DEF IndInv, FiniteGrants
  <2>5. Cap(l) \in Nat /\ Rate[l] \in Nat
    BY <2>2, CapFacts
  <2> HIDE DEF k, l, c, n, s
  <2>6. /\ Token * n \in Nat /\ Token * s \in Nat
        /\ Rate[l] * (clock - c) = Rate[l] * (k.last - c) + (clock - k.last) * Rate[l]
        /\ Rate[l] * (k.last - c) \in Int /\ (clock - k.last) * Rate[l] \in Int
        /\ (clock - k.last) * Rate[l] >= 0
    <3>1. Rate[l] \in Nat /\ k.last \in Int /\ clock \in Int /\ c \in Int
      BY <2>3, <2>5
    <3> DEFINE R == Rate[l]
               x == k.last
    <3>2. R \in Nat /\ x \in Int /\ x <= clock
      BY <2>3, <3>1
    <3> HIDE DEF R, x
    <3>3. /\ Token * n \in Nat /\ Token * s \in Nat
          /\ R * (clock - c) = R * (x - c) + (clock - x) * R
          /\ R * (x - c) \in Int /\ (clock - x) * R \in Int
          /\ (clock - x) * R >= 0
      BY <3>1, <3>2, <2>3, <2>4, Products
    <3> QED  BY <3>3 DEF R, x
  <2> DEFINE p == Rate[l] * (k.last - c)
             q == (clock - k.last) * Rate[l]
             tn == Token * n
             ts == Token * s
  <2>7. k.tokens + tn <= Cap(l) + p + ts
    BY <2>1 DEF Balanced
  <2>8. tn <= Cap(l) + (p + q) + ts
    <3>1. tn \in Nat /\ ts \in Nat /\ p \in Int /\ q \in Int /\ q >= 0
      BY <2>6
    <3> HIDE DEF tn, ts, p, q
    <3> QED  BY <2>3, <2>5, <2>7, <3>1
  <2>9. Token * n <= Cap(l) + Rate[l] * (clock - c) + Token * s
    BY <2>6, <2>8
  <2> QED  BY <2>9 DEF k, l, c, n, s
<1> QED  BY <1>1, Invariance, PTL

(* A request that a later layer refused has given back what it took: a     *)
(* token missing from a bucket is in the hands of a request still in the   *)
(* chain or admitted.                                                      *)
THEOREM RefusalsAreFree == Spec => []RefusedRequestsCostNothing
<1>1. IndInv => RefusedRequestsCostNothing
  <2> SUFFICES ASSUME IndInv, NEW b \in BucketIds, buckets[b] # NoBucket
               PROVE  buckets[b].tokens
                        + Token * Cardinality({r \in grants[b] : pc[r] # "limited"})
                          >= Cap(b.layer)
    BY DEF RefusedRequestsCostNothing
  <2>1. ASSUME NEW m \in Layers PROVE "limited" \notin Holding[m]
    <3>1. CASE m = "api_key"
      BY <3>1, HoldingFacts DEF HoldingTable
    <3>2. CASE m = "tenant"
      BY <3>2, HoldingFacts DEF HoldingTable
    <3>3. CASE m = "ip"
      BY <3>3, HoldingFacts DEF HoldingTable
    <3> QED  BY <3>1, <3>2, <3>3 DEF Layers
  <2>2. {r \in grants[b] : pc[r] # "limited"} = grants[b]
    BY <2>1 DEF IndInv, HoldersInChain, BucketIds
  <2> QED  BY <2>2 DEF IndInv, Accounts, Balanced
<1> QED  BY <1>1, Invariance, PTL
=============================================================================
