---------------------------- MODULE ClaimedOrders ----------------------------
(***************************************************************************)
(* What the lab's Service.CreateOrder (internal/app/service.go) promises,  *)
(* without registry entries, breaker, retries or locks: the first request  *)
(* of a key claims it, stores at most one order under it, and keeps it on  *)
(* success or gives it back on failure.  Unlike in OnceOnlyOrders, other   *)
(* payloads are refused as soon as the key is claimed, and a Reset may     *)
(* forget everything.  OrderService implements it.                         *)
(***************************************************************************)
CONSTANTS Requests, Keys, None

VARIABLES
    request,    \* the key and fingerprint of every request
    owner,      \* the request that claimed a key
    stored,     \* orders, named after the request that made them
    answer      \* what each request was told

vars == <<request, owner, stored, answer>>

Pending == [kind |-> "pending", order |-> None]
Failed == [kind |-> "failed", order |-> None]
Conflict == [kind |-> "conflict", order |-> None]
Created(o) == [kind |-> "created", order |-> o]
Replayed(o) == [kind |-> "replayed", order |-> o]

Owner(r) == owner[request[r].key]
Owns(r) == Owner(r) = r

Init ==
    /\ owner = [k \in Keys |-> None]
    /\ stored = {}
    /\ answer = [r \in Requests |-> Pending]

Tell(r, a) ==
    /\ answer[r] = Pending
    /\ answer' = [answer EXCEPT ![r] = a]

Claim(r) ==
    /\ answer[r] = Pending
    /\ Owner(r) = None
    /\ owner' = [owner EXCEPT ![request[r].key] = r]
    /\ UNCHANGED <<request, stored, answer>>

Store(r) ==
    /\ answer[r] = Pending
    /\ Owns(r)
    /\ stored' = stored \cup {r}
    /\ UNCHANGED <<request, owner, answer>>

(* The owner is told of the order it stored, and of nothing else; without  *)
(* an order it fails and the key is free again in the same step.           *)
Succeed(r) ==
    /\ Owns(r) /\ r \in stored
    /\ Tell(r, Created(r))
    /\ UNCHANGED <<request, owner, stored>>

GiveBack(r) ==
    /\ Owns(r) /\ r \notin stored
    /\ Tell(r, Failed)
    /\ owner' = [owner EXCEPT ![request[r].key] = None]
    /\ UNCHANGED <<request, stored>>

(* Anybody else may fail, be given the stored order of the same request,   *)
(* or be refused because the key is claimed for another payload.           *)
MayBeTold(r) ==
    {Failed}
    \cup {Replayed(o) : o \in {s \in stored : request[s] = request[r]}}
    \cup {Conflict : o \in {s \in {Owner(r)} \ {None} :
                              request[s].fingerprint # request[r].fingerprint}}

Answer(r) ==
    /\ ~Owns(r)
    /\ \E a \in MayBeTold(r) : Tell(r, a)
    /\ UNCHANGED <<request, owner, stored>>

(* Only between operations: no owner is still to be told of its order. *)
Forget ==
    /\ \A r \in Requests : Owns(r) => answer[r] # Pending
    /\ owner' = [k \in Keys |-> None]
    /\ stored' = {}
    /\ UNCHANGED <<request, answer>>

Next ==
    \/ \E r \in Requests : Claim(r) \/ Store(r) \/ Succeed(r) \/ GiveBack(r) \/ Answer(r)
    \/ Forget

Spec == Init /\ [][Next]_vars
=============================================================================
