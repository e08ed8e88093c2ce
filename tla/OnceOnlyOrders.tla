--------------------------- MODULE OnceOnlyOrders ---------------------------
(***************************************************************************)
(* What Service.CreateOrder (internal/product/service.go) promises to the  *)
(* handlers that call it, without Redis, transactions or retries: a key is *)
(* bound once, to one payload and one order, and every answer follows that *)
(* binding.  ProductOrders implements it; ProductServer is built on it.    *)
(***************************************************************************)
EXTENDS Naturals

CONSTANT Requests

VARIABLES
    request,    \* the key and fingerprint of every request
    bound,      \* the key, fingerprint and sequence of every order
    answer      \* what each request was told

vars == <<request, bound, answer>>

Pending == [kind |-> "pending", order |-> 0]
Failed == [kind |-> "failed", order |-> 0]
Conflict == [kind |-> "conflict", order |-> 0]
Created(o) == [kind |-> "created", order |-> o]
Replayed(o) == [kind |-> "replayed", order |-> o]

Row(r, o) ==
    [key |-> request[r].key, fingerprint |-> request[r].fingerprint, sequence |-> o]

Bindings(r, rows) == {row \in rows : row.key = request[r].key}
Mine(r, rows) == {row \in Bindings(r, rows) : row.fingerprint = request[r].fingerprint}

(* A request may always fail.  It may succeed only with the order its key  *)
(* and payload are bound to, as the creator if nobody else was told so,    *)
(* and it is refused as a conflict only when another payload owns the key. *)
MayBeTold(r, rows) ==
    {Failed}
    \cup {Replayed(row.sequence) : row \in Mine(r, rows)}
    \cup {Created(row.sequence) :
             row \in {m \in Mine(r, rows) :
                        \A s \in Requests : answer[s] # Created(m.sequence)}}
    \cup {Conflict : row \in Bindings(r, rows) \ Mine(r, rows)}

Init ==
    /\ bound = {}
    /\ answer = [r \in Requests |-> Pending]

Tell(r, rows) ==
    /\ answer[r] = Pending
    /\ \E a \in MayBeTold(r, rows) : answer' = [answer EXCEPT ![r] = a]

Answer(r) ==
    /\ Tell(r, bound)
    /\ UNCHANGED <<request, bound>>

(* A free key is bound to a new order; the answer may come with it, later  *)
(* or never.                                                               *)
Create(r, o) ==
    /\ answer[r] = Pending
    /\ Bindings(r, bound) = {}
    /\ \A row \in bound : row.sequence # o
    /\ bound' = bound \cup {Row(r, o)}
    /\ Tell(r, bound') \/ UNCHANGED answer
    /\ UNCHANGED request

Next ==
    \E r \in Requests :
        \/ Answer(r)
        \/ \E row \in bound' \ bound : Create(r, row.sequence)

Spec == Init /\ [][Next]_vars
=============================================================================
