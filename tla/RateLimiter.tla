----------------------------- MODULE RateLimiter -----------------------------
(***************************************************************************)
(* The admission chain of the lab's HTTP server: rateLimit and reset of    *)
(* internal/httpapi/server.go over the token buckets of                    *)
(* internal/reliability/limiter.go.  A request takes a token from its API  *)
(* key's, its tenant's and its address's bucket, one after the other; when *)
(* a later layer refuses, the tokens of the earlier ones are refunded.     *)
(*                                                                         *)
(* Allow reads the clock before it takes the limiter's mutex and so may    *)
(* decide with an old time.  Every critical section is one action.         *)
(*                                                                         *)
(* Tokens are counted in integer units, Token units to the token; a layer  *)
(* refills Rate[l] units per tick.  The float64 rounding of the code is    *)
(* not modelled.                                                           *)
(***************************************************************************)
EXTENDS Integers, FiniteSets, Sequences

CONSTANTS
    Requests,
    Tenants,    \* each tenant has one API key (Server.apiKeys)
    Addresses,  \* client IPs
    Burst,      \* Burst[l]: capacity of a bucket of layer l, in tokens
    Rate,       \* Rate[l]: refill of layer l, in units per tick
    Token,      \* units per token
    NoBucket,   \* absent from the map
    MaxTime     \* bound: the clock stops there

Layers == {"api_key", "tenant", "ip"}

(* NewTokenBucketLimiter panics on any other configuration; the last       *)
(* conjunct keeps an absent map entry apart from every bucket.             *)
ASSUME ConfigAssumption ==
    /\ Burst \in [Layers -> Nat \ {0}]
    /\ Rate \in [Layers -> Nat \ {0}]
    /\ Token \in Nat \ {0}
    /\ MaxTime \in Nat
    /\ NoBucket \notin [tokens : Nat, last : Nat]

VARIABLES
    request,    \* tenant and address of every request
    clock,
    buckets,    \* the maps of the three limiters
    pc,         \* where the request is
    now,        \* the local variable now of Allow
    resetStep,  \* limiters that Server.reset has cleared; it runs once
    \* History, read by the properties only.
    grants,     \* requests holding a token of the bucket's current incarnation
    created,    \* when the bucket was created
    strays      \* refunds of tokens that were taken before a Reset

vars == <<request, clock, buckets, pc, now, resetStep, grants, created, strays>>

BucketIds == [layer : Layers, id : Tenants \cup Addresses]

Bucket(r, l) ==
    [layer |-> l, id |-> IF l = "ip" THEN request[r].address ELSE request[r].tenant]

(* The order in which rateLimit asks the layers, and what follows it.      *)
NextLabel == [api_key |-> "tenant", tenant |-> "ip", ip |-> "admitted"]

(* Mutant: the API key's token is kept when the tenant's layer refuses. *)
RefundLabelKeepingKey ==
    [api_key |-> "limited", tenant |-> "limited", ip |-> "refund tenant"]

(* Where a refusal of a layer leads. *)
RefundLabel ==
    [api_key |-> "limited", tenant |-> "refund api_key", ip |-> "refund tenant"]

PCs == Layers \cup {"refund api_key", "refund tenant", "admitted", "limited"}

NotRead == -1

Cap(l) == Burst[l] * Token
MinOf(a, b) == IF a < b THEN a ELSE b

-----------------------------------------------------------------------------
Init ==
    /\ request \in [Requests -> [tenant : Tenants, address : Addresses]]
    /\ clock = 0
    /\ buckets = [b \in BucketIds |-> NoBucket]
    /\ pc = [r \in Requests |-> "api_key"]
    /\ now = [r \in Requests |-> NotRead]
    /\ resetStep = 0
    /\ grants = [b \in BucketIds |-> {}]
    /\ created = [b \in BucketIds |-> 0]
    /\ strays = [b \in BucketIds |-> 0]

(* now := l.clock.Now(), before the mutex; in the first layer the request  *)
(* has just arrived.                                                       *)
ReadClock(r) ==
    /\ pc[r] \in Layers /\ now[r] = NotRead
    /\ now' = [now EXCEPT ![r] = clock]
    /\ UNCHANGED <<request, clock, buckets, pc, resetStep, grants, created, strays>>

(* Mutant: last follows every reading of the clock, old ones too. *)
RefillMovingBack(b, l, t) ==
    [tokens |-> IF t > b.last THEN MinOf(Cap(l), b.tokens + (t - b.last) * Rate[l])
                ELSE b.tokens,
     last |-> t]

(* The bucket after the refill of Allow; a time not after last is ignored. *)
Refill(b, l, t) ==
    IF t > b.last
    THEN [tokens |-> MinOf(Cap(l), b.tokens + (t - b.last) * Rate[l]), last |-> t]
    ELSE b

(* The bucket that Allow tests: a key that is not in the map starts full. *)
Tested(r, l) ==
    LET b == buckets[Bucket(r, l)]
    IN  IF b = NoBucket THEN [tokens |-> Cap(l), last |-> now[r]] ELSE Refill(b, l, now[r])

HasToken(b) == b.tokens >= Token

(* The critical section of Allow in layer l: a token is taken ... *)
Allow(r, l) ==
    LET id == Bucket(r, l)
        b == Tested(r, l)
    IN  /\ pc[r] = l /\ now[r] # NotRead
        /\ HasToken(b)
        /\ buckets' = [buckets EXCEPT ![id] = [b EXCEPT !.tokens = @ - Token]]
        /\ pc' = [pc EXCEPT ![r] = NextLabel[l]]
        /\ now' = [now EXCEPT ![r] = NotRead]
        /\ grants' = [grants EXCEPT ![id] = @ \cup {r}]
        /\ created' = IF buckets[id] = NoBucket THEN [created EXCEPT ![id] = now[r]] ELSE created
        /\ UNCHANGED <<request, clock, resetStep, strays>>

(* ... or refused; the refill is kept. *)
Refuse(r, l) ==
    LET b == Tested(r, l)
    IN  /\ pc[r] = l /\ now[r] # NotRead
        /\ ~HasToken(b)
        /\ buckets' = [buckets EXCEPT ![Bucket(r, l)] = b]
        /\ pc' = [pc EXCEPT ![r] = RefundLabel[l]]
        /\ now' = [now EXCEPT ![r] = NotRead]
        /\ UNCHANGED <<request, clock, resetStep, grants, created, strays>>

(* Mutant: a refund is not capped at the burst. *)
RefundedUncapped(b, l) == [b EXCEPT !.tokens = @ + Token]

Refunded(b, l) == [b EXCEPT !.tokens = MinOf(Cap(l), @ + Token)]

(* Refund of layer l; a bucket that a Reset removed stays away. *)
Refund(r, l, next) ==
    LET id == Bucket(r, l)
        b == buckets[id]
    IN  /\ buckets' = IF b = NoBucket THEN buckets ELSE [buckets EXCEPT ![id] = Refunded(b, l)]
        /\ grants' = [grants EXCEPT ![id] = @ \ {r}]
        /\ strays' = IF b # NoBucket /\ r \notin grants[id]
                     THEN [strays EXCEPT ![id] = @ + 1] ELSE strays
        /\ pc' = [pc EXCEPT ![r] = next]
        /\ UNCHANGED <<request, clock, now, resetStep, created>>

RefundTenant(r) ==
    /\ pc[r] = "refund tenant"
    /\ Refund(r, "tenant", "refund api_key")

(* The last refund before rejectRateLimit answers 429. *)
RefundKey(r) ==
    /\ pc[r] = "refund api_key"
    /\ Refund(r, "api_key", "limited")

ResetOrder == <<"tenant", "api_key", "ip">>

(* Server.reset clears one limiter after the other. *)
Reset ==
    /\ resetStep < 3
    /\ LET mine == {b \in BucketIds : b.layer = ResetOrder[resetStep + 1]}
       IN  /\ buckets' = [b \in BucketIds |-> IF b \in mine THEN NoBucket ELSE buckets[b]]
           /\ grants' = [b \in BucketIds |-> IF b \in mine THEN {} ELSE grants[b]]
           /\ strays' = [b \in BucketIds |-> IF b \in mine THEN 0 ELSE strays[b]]
           /\ created' = [b \in BucketIds |-> IF b \in mine THEN 0 ELSE created[b]]
    /\ resetStep' = resetStep + 1
    /\ UNCHANGED <<request, clock, pc, now>>

Tick ==
    /\ clock < MaxTime
    /\ clock' = clock + 1
    /\ UNCHANGED <<request, buckets, pc, now, resetStep, grants, created, strays>>

Next ==
    \/ \E r \in Requests :
          \/ ReadClock(r) \/ RefundTenant(r) \/ RefundKey(r)
          \/ \E l \in Layers : Allow(r, l) \/ Refuse(r, l)
    \/ Reset
    \/ Tick

Spec == Init /\ [][Next]_vars

-----------------------------------------------------------------------------
(* Type correctness: a bucket never holds more than its burst, refunds     *)
(* included, and was never refilled up to a time in the future.            *)
TypeOK ==
    /\ request \in [Requests -> [tenant : Tenants, address : Addresses]]
    /\ clock \in 0 .. MaxTime
    /\ DOMAIN buckets = BucketIds
    /\ \A b \in BucketIds : buckets[b] # NoBucket =>
          buckets[b] \in [tokens : 0 .. Cap(b.layer), last : 0 .. clock]
    /\ pc \in [Requests -> PCs]
    /\ now \in [Requests -> {NotRead} \cup 0 .. clock]
    /\ resetStep \in 0 .. 3
    /\ grants \in [BucketIds -> SUBSET Requests]
    /\ created \in [BucketIds -> 0 .. clock]
    /\ strays \in [BucketIds -> Nat]

(* A bucket never lets more requests through than its burst and what was   *)
(* refilled since it was created: not with old readings of the clock, not  *)
(* with refunds in any order.  A token taken before a Reset and refunded   *)
(* after it is the only exception, one token each.                         *)
AdmissionsWithinRate ==
    \A b \in BucketIds : buckets[b] # NoBucket =>
        Token * Cardinality(grants[b]) <=
            Cap(b.layer) + Rate[b.layer] * (clock - created[b]) + Token * strays[b]

(* A token that is missing from a bucket is held by a request that was     *)
(* admitted or is still in the chain: a refused request, whichever layer   *)
(* refused it, costs its key and its tenant nothing.                       *)
RefusedRequestsCostNothing ==
    \A b \in BucketIds : buckets[b] # NoBucket =>
        buckets[b].tokens
            + Token * Cardinality({r \in grants[b] : pc[r] # "limited"}) >= Cap(b.layer)
=============================================================================
