-------------------------- MODULE EventStream_proofs --------------------------
(***************************************************************************)
(* Proofs about the event store and the stream handler, for any number of  *)
(* consumers and tenants, any retention and any channel capacity.          *)
(***************************************************************************)
EXTENDS EventStream, FiniteSetTheorems, WellFoundedInduction, SequenceTheorems, TLAPS

(* The elements of a sequence. *)
Elems(q) == {q[k] : k \in 1 .. Len(q)}

(* Events and cursors are ordered by reset, and then by sequence. *)
Before(e, f) ==
    e.epoch < f.epoch \/ (e.epoch = f.epoch /\ e.sequence < f.sequence)

Sorted(q) == \A i, j \in 1 .. Len(q) : i < j => Before(q[i], q[j])

Stamp(s, k) == [sequence |-> s, epoch |-> k]

(* past, waiting and live are what a consumer of tenant t was sent, what   *)
(* is left of its replay and what its channel holds: one after the other   *)
(* they are in order, with the cursor at between the first and the rest    *)
(* and nothing later than the store's newest event now.                    *)
InOrder(t, past, waiting, live, at, now) ==
    /\ Sorted(past) /\ Sorted(waiting) /\ Sorted(live)
    /\ \A e \in Elems(past) : e.tenant = t /\ ~Before(at, e)
    /\ \A e \in Elems(waiting) \cup Elems(live) :
          e.tenant = t /\ Before(at, e) /\ ~Before(now, e)
    /\ \A e \in Elems(waiting) : \A f \in Elems(live) : Before(e, f)
    /\ ~Before(now, at)

QueuesInOrder ==
    \A c \in Consumers :
        InOrder(tenantOf[c], received[c], replay[c], channel[c],
                Stamp(cursor[c], cursorEpoch[c]), Stamp(nextSequence, Epoch))

Has(S, i, k) == \E e \in S : e.sequence = i /\ e.epoch = k

(* Of the n events saved in epoch k, those of tenant t after owed are all  *)
(* in S; when the subscription is gone (~all), those up to the last one    *)
(* still queued in Q.                                                      *)
Covers(t, log, n, k, owed, all, S, Q) ==
    \A i \in 1 .. n :
        /\ log[i] = t /\ i > owed
        /\ all \/ \E f \in Q : f.epoch = k /\ i <= f.sequence
        => Has(S, i, k)

Owed(c) == IF base[c] < excused[c] THEN excused[c] ELSE base[c]

Queued(c) == Elems(replay[c]) \cup Elems(channel[c])

Connected(c) == phase[c] \in {"subscribed", "replaying", "live"}

(* Events of this epoch that were sent or are queued are in the log. *)
QueuedIsLogged ==
    \A c \in Consumers : \A e \in Elems(received[c]) \cup Queued(c) :
        e.epoch = Epoch => e.sequence <= nextSequence /\ saved[e.sequence] = e.tenant

(* What a connected consumer is owed was sent to it or is on its way. *)
OwedIsQueued ==
    \A c \in Consumers : Connected(c) /\ ~expired[c] =>
        Covers(tenantOf[c], saved, nextSequence, Epoch, Owed(c), c \in subscribers,
               Elems(received[c]) \cup Queued(c), Queued(c))

(* What a consumer is owed up to a cursor of this epoch was sent to it. *)
CursorIsEarned ==
    \A c \in Consumers : cursor[c] > 0 /\ cursorEpoch[c] = Epoch =>
        Covers(tenantOf[c], saved, cursor[c], Epoch, Owed(c), TRUE, Elems(received[c]), {})

(* The store holds the newest events, and evictedThrough bounds the rest. *)
StoreMatchesLog ==
    /\ Len(events) <= nextSequence
    /\ \A i \in 1 .. Len(events) :
          /\ events[i].sequence = nextSequence - Len(events) + i
          /\ events[i].epoch = Epoch
          /\ events[i].tenant = saved[events[i].sequence]
    /\ \A i \in 1 .. nextSequence - Len(events) : i <= evictedThrough[saved[i]]

(* A handler that is not connected has no queue; one that is live has sent *)
(* its replay; only a cursor that did not expire is accepted.              *)
PhasesMatchQueues ==
    \A c \in Consumers :
        /\ ~Connected(c) => replay[c] = <<>> /\ channel[c] = <<>>
        /\ phase[c] \in {"replaying", "live"} => ~expired[c]
        /\ phase[c] = "live" => replay[c] = <<>>

HistoryTypeOK ==
    /\ resets \in 0 .. MaxResets /\ disconnects \in 0 .. MaxDisconnects
    /\ received \in [Consumers -> Seq(Events)]
    /\ cursorEpoch \in [Consumers -> 0 .. MaxResets]
    /\ base \in [Consumers -> Nat] /\ excused \in [Consumers -> Nat]

(* The inductive invariant.  QueuesInOrder puts the cursor between what    *)
(* was sent and what is queued; OwedIsQueued and CursorIsEarned carry      *)
(* NoSilentGap from one connection over the cursor to the next.            *)
IndInv ==
    /\ TypeOK /\ HistoryTypeOK /\ ChannelClosedOnce /\ NoLeakedSubscription
    /\ StoreMatchesLog /\ PhasesMatchQueues /\ QueuesInOrder
    /\ QueuedIsLogged /\ OwedIsQueued /\ CursorIsEarned

-----------------------------------------------------------------------------
(* Less-than on the naturals, as a relation. *)
Below == OpToRel(<, Nat)

(* The least-number principle for a set. *)
LEMMA LeastNumber ==
    ASSUME NEW T, T \subseteq Nat, T # {}
    PROVE  \E x \in T : \A y \in T : x <= y
<1>1. Below = {p \in Nat \X Nat : p[1] < p[2]}
  BY Zenon DEF Below, OpToRel
<1>2. IsWellFoundedOn(Below, Nat)
  BY NatLessThanWellFounded DEF Below
<1>3. PICK x \in T : \A y \in T : ~(<<y, x>> \in Below)
  BY <1>2, WFMin
<1>4. ASSUME NEW y \in T PROVE x <= y
  <2>1. x \in Nat /\ y \in Nat
    OBVIOUS
  <2>2. <<y, x>> \in Nat \X Nat /\ <<y, x>>[1] = y /\ <<y, x>>[2] = x
    BY <2>1
  <2>3. <<y, x>> \notin {p \in Nat \X Nat : p[1] < p[2]}
    BY <1>1, <1>3
  <2>4. ~(y < x)
    BY <2>2, <2>3
  <2> QED  BY <2>1, <2>4
<1> QED  BY <1>4

(* A non-empty set of positions has a last one. *)
LEMMA GreatestNumber ==
    ASSUME NEW n \in Nat, NEW T \in SUBSET (1 .. n), T # {}
    PROVE  \E x \in T : \A y \in T : y <= x
<1> DEFINE Bounds == {m \in Nat : \A y \in T : y <= m}
<1>1. \A y \in T : y \in Nat /\ y <= n /\ y > 0
  OBVIOUS
<1>2. Bounds \subseteq Nat /\ n \in Bounds
  BY <1>1
<1>3. PICK u \in Bounds : \A m \in Bounds : u <= m
  <2> HIDE DEF Bounds
  <2> QED  BY <1>2, LeastNumber
<1>4. u \in Nat /\ \A y \in T : y <= u
  OBVIOUS
<1>5. u \in T
  <2> SUFFICES ASSUME u \notin T PROVE FALSE
    OBVIOUS
  <2>1. \A y \in T : y <= u - 1
    BY <1>1, <1>4
  <2>2. u - 1 \in Nat
    <3>1. PICK y \in T : TRUE
      OBVIOUS
    <3>2. y \in Nat /\ y > 0 /\ y <= u - 1
      BY <1>1, <2>1
    <3> QED  BY <1>4, <3>2
  <2>3. u - 1 \in Bounds
    BY <2>1, <2>2
  <2> QED  BY <1>3, <1>4, <2>3
<1> QED  BY <1>4, <1>5

IsAscending(q, P) ==
    /\ q \in [1 .. Cardinality(P) -> P]
    /\ \A i, j \in 1 .. Cardinality(P) : i < j => q[i] < q[j]

(* Positions up to n can be put in ascending order: by induction on n, as  *)
(* the least n for which they cannot would be one more than an n for which *)
(* they can.                                                               *)
LEMMA AscendingExists ==
    ASSUME NEW n \in Nat, NEW P \in SUBSET (1 .. n)
    PROVE  \E q : IsAscending(q, P)
<1> DEFINE Upto(m) == P \cap (1 .. m)
           Bad == {m \in Nat : ~ \E q : IsAscending(q, Upto(m))}
<1>1. ASSUME NEW m \in Nat PROVE IsFiniteSet(Upto(m)) /\ Cardinality(Upto(m)) \in Nat
  <2>1. IsFiniteSet(1 .. m)
    BY FS_Interval
  <2>2. Upto(m) \in SUBSET (1 .. m)
    OBVIOUS
  <2> HIDE DEF Upto
  <2> QED  BY <2>1, <2>2, FS_Subset, FS_CardinalityType
<1>2. ASSUME Bad # {} PROVE FALSE
  <2>1. PICK m \in Bad : \A y \in Bad : m <= y
    <3>1. Bad \subseteq Nat
      OBVIOUS
    <3> HIDE DEF Bad
    <3> QED  BY <3>1, <1>2, LeastNumber
  <2>2. m \in Nat /\ ~ \E q : IsAscending(q, Upto(m))
    BY <2>1
  <2>3. m # 0
    <3> SUFFICES ASSUME m = 0 PROVE FALSE
      OBVIOUS
    <3>1. Upto(m) = {}
      OBVIOUS
    <3>2. Cardinality(Upto(m)) = 0
      BY <3>1, FS_EmptySet
    <3>3. IsAscending(<<>>, Upto(m))
      <4> HIDE DEF Upto
      <4> QED  BY <3>2 DEF IsAscending
    <3> QED  BY <3>3, <2>2
  <2>4. m - 1 \in Nat /\ m - 1 \notin Bad
    BY <2>1, <2>2, <2>3
  <2>5. PICK q : IsAscending(q, Upto(m - 1))
    BY <2>4
  <2> DEFINE k == Cardinality(Upto(m - 1))
             new == [i \in 1 .. k + 1 |-> IF i = k + 1 THEN m ELSE q[i]]
  <2>6. k \in Nat /\ IsFiniteSet(Upto(m - 1))
    BY <1>1, <2>4
  <2>7. CASE m \notin P
    <3>1. Upto(m) = Upto(m - 1)
      BY <2>2, <2>7
    <3> QED  BY <3>1, <2>2, <2>5
  <2>8. CASE m \in P
    <3>1. Upto(m) = Upto(m - 1) \cup {m} /\ m \notin Upto(m - 1)
      BY <2>2, <2>8
    <3>2. Cardinality(Upto(m)) = k + 1
      <4> HIDE DEF Upto
      <4> QED  BY <3>1, <2>6, FS_AddElement
    <3>3. \A i \in 1 .. k : q[i] \in Upto(m - 1)
      BY <2>5 DEF IsAscending
    <3>4. \A i \in 1 .. k : q[i] \in Nat /\ q[i] < m
      BY <3>3, <2>2, <2>4
    <3>5. \A i, j \in 1 .. k : i < j => q[i] < q[j]
      BY <2>5 DEF IsAscending
    <3> HIDE DEF Upto, k
    <3>6. new \in [1 .. k + 1 -> Upto(m)]
      BY <3>1, <3>3, <2>6
    <3>7. \A i, j \in 1 .. k + 1 : i < j => new[i] < new[j]
      BY <3>4, <3>5, <2>2, <2>6
    <3>8. IsAscending(new, Upto(m))
      BY <3>2, <3>6, <3>7 DEF IsAscending
    <3> QED  BY <3>8, <2>2
  <2> QED  BY <2>7, <2>8
<1>3. n \notin Bad
  BY <1>2
<1>4. Upto(n) = P
  OBVIOUS
<1> QED  BY <1>3, <1>4

(* Ascending enumerates the positions: in order, and every one of them. *)
LEMMA AscendingFacts ==
    ASSUME NEW n \in Nat, NEW P \in SUBSET (1 .. n)
    PROVE  /\ Cardinality(P) \in Nat
           /\ IsAscending(Ascending(P), P)
           /\ \A x \in P : \E k \in 1 .. Cardinality(P) : Ascending(P)[k] = x
<1> DEFINE m == Cardinality(P)
           q == Ascending(P)
<1>1. IsFiniteSet(P) /\ m \in Nat
  <2>1. IsFiniteSet(1 .. n)
    BY FS_Interval
  <2>2. IsFiniteSet(P)
    BY <2>1, FS_Subset
  <2> QED  BY <2>2, FS_CardinalityType
<1>2. IsAscending(q, P)
  <2>1. PICK r : IsAscending(r, P)
    BY AscendingExists
  <2>2. r \in [1 .. m -> P] /\ \A i, j \in DOMAIN r : i < j => r[i] < r[j]
    BY <2>1 DEF IsAscending
  <2>3. q \in [1 .. m -> P] /\ \A i, j \in DOMAIN q : i < j => q[i] < q[j]
    BY <2>2 DEF Ascending
  <2> QED  BY <2>3 DEF IsAscending
<1>3. ASSUME NEW x \in P, \A k \in 1 .. m : q[k] # x PROVE FALSE
  <2>1. q \in [1 .. m -> P \ {x}]
    BY <1>2, <1>3 DEF IsAscending
  <2>2. IsFiniteSet(P \ {x}) /\ Cardinality(P \ {x}) = m - 1
    BY <1>1, FS_RemoveElement
  <2>3. IsFiniteSet(1 .. m) /\ Cardinality(1 .. m) = m
    BY <1>1, FS_Interval
  <2> HIDE DEF q, m
  <2>4. \E i, j \in 1 .. m : i # j /\ q[i] = q[j]
    <3>1. Cardinality(P \ {x}) < Cardinality(1 .. m)
      BY <1>1, <2>2, <2>3
    <3> DEFINE I == 1 .. m
               R == P \ {x}
    <3>2. q \in [I -> R] /\ IsFiniteSet(I) /\ IsFiniteSet(R) /\ Cardinality(R) < Cardinality(I)
      BY <2>1, <2>2, <2>3, <3>1
    <3> HIDE DEF I, R
    <3>3. \E i, j \in I : i # j /\ q[i] = q[j]
      BY <3>2, FS_PigeonHole
    <3> QED  BY <3>3 DEF I
  <2>5. PICK i \in 1 .. m, j \in 1 .. m : i # j /\ q[i] = q[j]
    BY <2>4
  <2>6. q[i] \in Nat /\ q[j] \in Nat /\ i \in Nat /\ j \in Nat
    <3>1. q[i] \in P /\ q[j] \in P
      BY <1>2 DEF IsAscending, m
    <3>2. \A y \in P : y \in Nat
      OBVIOUS
    <3>3. i \in Nat /\ j \in Nat
      BY <1>1
    <3> QED  BY <3>1, <3>2, <3>3, Zenon
  <2>7. (i < j => q[i] < q[j]) /\ (j < i => q[j] < q[i])
    BY <1>2 DEF IsAscending, m
  <2> QED  BY <2>5, <2>6, <2>7
<1> QED  BY <1>1, <1>2, <1>3

-----------------------------------------------------------------------------
(* The empty sequence. *)
LEMMA EmptyFacts == Elems(<<>>) = {} /\ Sorted(<<>>) /\ Len(<<>>) = 0
  BY DEF Elems, Sorted

(* Appending adds one element, and keeps the order if it comes last. *)
LEMMA AppendFacts ==
    ASSUME NEW S, NEW q \in Seq(S), NEW e \in S
    PROVE  /\ Append(q, e) \in Seq(S) /\ Len(Append(q, e)) = Len(q) + 1
           /\ Elems(Append(q, e)) = Elems(q) \cup {e}
           /\ Sorted(q) /\ (\A x \in Elems(q) : Before(x, e)) => Sorted(Append(q, e))
<1> DEFINE a == Append(q, e)
<1>1. /\ a \in Seq(S) /\ Len(a) = Len(q) + 1 /\ Len(q) \in Nat
      /\ \A i \in 1 .. Len(q) : a[i] = q[i]
      /\ a[Len(q) + 1] = e
  BY AppendProperties, LenProperties
<1> HIDE DEF a
<1>2. Elems(a) = Elems(q) \cup {e}
  <2>1. ASSUME NEW x \in Elems(a) PROVE x \in Elems(q) \cup {e}
    <3>1. PICK k \in 1 .. Len(a) : x = a[k]
      BY DEF Elems
    <3>2. k \in 1 .. Len(q) \/ k = Len(q) + 1
      BY <1>1
    <3> QED  BY <3>1, <3>2, <1>1 DEF Elems
  <2>2. ASSUME NEW x \in Elems(q) PROVE x \in Elems(a)
    <3>1. PICK k \in 1 .. Len(q) : x = q[k]
      BY DEF Elems
    <3>2. k \in 1 .. Len(a) /\ a[k] = x
      BY <3>1, <1>1
    <3> QED  BY <3>2 DEF Elems
  <2>3. e \in Elems(a)
    <3>1. Len(q) + 1 \in 1 .. Len(a)
      BY <1>1
    <3> QED  BY <3>1, <1>1 DEF Elems
  <2> QED  BY <2>1, <2>2, <2>3
<1>3. ASSUME Sorted(q), \A x \in Elems(q) : Before(x, e) PROVE Sorted(a)
  <2> SUFFICES ASSUME NEW i \in 1 .. Len(a), NEW j \in 1 .. Len(a), i < j
               PROVE  Before(a[i], a[j])
    BY DEF Sorted
  <2>1. i \in 1 .. Len(q) /\ a[i] = q[i]
    BY <1>1
  <2>2. CASE j \in 1 .. Len(q)
    BY <2>1, <2>2, <1>1, <1>3 DEF Sorted
  <2>3. CASE j = Len(q) + 1
    BY <2>1, <2>3, <1>1, <1>3 DEF Elems
  <2> QED  BY <2>2, <2>3, <1>1
<1> QED  BY <1>1, <1>2, <1>3 DEF a

(* Taking the head of a sorted sequence takes its first element. *)
LEMMA TakeFacts ==
    ASSUME NEW S, NEW q \in Seq(S), q # <<>>
    PROVE  /\ Head(q) \in S /\ Tail(q) \in Seq(S) /\ Len(Tail(q)) <= Len(q)
           /\ Elems(q) = Elems(Tail(q)) \cup {Head(q)}
           /\ Sorted(q) => Sorted(Tail(q)) /\ \A x \in Elems(Tail(q)) : Before(Head(q), x)
<1> DEFINE h == Head(q)
           t == Tail(q)
<1>1. /\ h \in S /\ t \in Seq(S) /\ Len(t) = Len(q) - 1
      /\ \A i \in 1 .. Len(t) : t[i] = q[i + 1]
  BY HeadTailProperties
<1>2. Len(q) \in Nat \ {0} /\ h = q[1]
  BY EmptySeq, LenProperties
<1> HIDE DEF h, t
<1>3. Elems(q) = Elems(t) \cup {h}
  <2>1. ASSUME NEW x \in Elems(q) PROVE x \in Elems(t) \cup {h}
    <3>1. PICK k \in 1 .. Len(q) : x = q[k]
      BY DEF Elems
    <3>2. k = 1 \/ (k - 1 \in 1 .. Len(t) /\ t[k - 1] = q[k])
      BY <1>1, <1>2
    <3> QED  BY <3>1, <3>2, <1>2 DEF Elems
  <2>2. ASSUME NEW x \in Elems(t) PROVE x \in Elems(q)
    <3>1. PICK k \in 1 .. Len(t) : x = t[k]
      BY DEF Elems
    <3>2. k + 1 \in 1 .. Len(q) /\ q[k + 1] = x
      BY <3>1, <1>1, <1>2
    <3> QED  BY <3>2 DEF Elems
  <2>3. h \in Elems(q)
    <3>1. 1 \in 1 .. Len(q)
      BY <1>2
    <3> QED  BY <3>1, <1>2 DEF Elems
  <2> QED  BY <2>1, <2>2, <2>3
<1>4. ASSUME Sorted(q) PROVE Sorted(t) /\ \A x \in Elems(t) : Before(h, x)
  <2>1. ASSUME NEW i \in 1 .. Len(t), NEW j \in 1 .. Len(t), i < j
        PROVE  Before(t[i], t[j])
    <3>1. i + 1 \in 1 .. Len(q) /\ j + 1 \in 1 .. Len(q) /\ i + 1 < j + 1
      BY <2>1, <1>1, <1>2
    <3>2. Before(q[i + 1], q[j + 1])
      BY <3>1, <1>4 DEF Sorted
    <3> QED  BY <3>2, <1>1
  <2>2. ASSUME NEW x \in Elems(t) PROVE Before(h, x)
    <3>1. PICK k \in 1 .. Len(t) : x = t[k]
      BY DEF Elems
    <3>2. 1 \in 1 .. Len(q) /\ k + 1 \in 1 .. Len(q) /\ 1 < k + 1 /\ q[k + 1] = x
      BY <3>1, <1>1, <1>2
    <3> QED  BY <3>2, <1>2, <1>4 DEF Sorted
  <2> QED  BY <2>1, <2>2 DEF Sorted
<1>5. Len(t) <= Len(q)
  BY <1>1, <1>2
<1> QED  BY <1>1, <1>3, <1>4, <1>5 DEF h, t

(* What a sequence over S contains is in S. *)
LEMMA ElemsType ==
    ASSUME NEW S, NEW q \in Seq(S)
    PROVE  Elems(q) \subseteq S
  BY ElementOfSeq DEF Elems

-----------------------------------------------------------------------------
(* What Before compares of an event are numbers.                           *)
Numbered(e) == e.sequence \in Int /\ e.epoch \in Int

(* Before is a strict order.                                               *)
LEMMA BeforeTransitive ==
    ASSUME NEW e, NEW f, NEW g, Numbered(e), Numbered(f), Numbered(g)
    PROVE  /\ Before(e, f) /\ Before(f, g) => Before(e, g)
           /\ Before(e, f) /\ ~Before(g, f) => Before(e, g)
           /\ ~Before(f, e) /\ Before(f, g) => Before(e, g)
           /\ ~Before(f, e) /\ ~Before(g, f) => ~Before(g, e)
           /\ Before(e, f) => ~Before(f, e)
           /\ ~Before(e, e)
  BY DEF Before, Numbered

(* Events and stamps carry numbers. *)
LEMMA NumberedFacts ==
    /\ \A e \in Events : Numbered(e) /\ e.tenant \in Tenants
    /\ \A s \in Nat, k \in Nat : Numbered(Stamp(s, k)) /\ Stamp(s, k).sequence = s
                                 /\ Stamp(s, k).epoch = k
  BY ConfigAssumption DEF Events, Stamp, Numbered

(* Nothing that is in order becomes unordered because time passes. *)
LEMMA InOrderLater ==
    ASSUME NEW t, NEW past \in Seq(Events), NEW waiting \in Seq(Events),
           NEW live \in Seq(Events), NEW at, NEW now, NEW later,
           Numbered(at), Numbered(now), Numbered(later), ~Before(later, now),
           InOrder(t, past, waiting, live, at, now)
    PROVE  InOrder(t, past, waiting, live, at, later)
<1>1. \A e \in Elems(waiting) \cup Elems(live) : Numbered(e)
  BY ElemsType, NumberedFacts
<1>2. \A e \in Elems(waiting) \cup Elems(live) : ~Before(later, e)
  BY <1>1, BeforeTransitive DEF InOrder
<1>3. ~Before(later, at)
  BY BeforeTransitive DEF InOrder
<1> QED  BY <1>2, <1>3 DEF InOrder

(* Save's push: the newest event goes to the end of the channel. *)
LEMMA InOrderPush ==
    ASSUME NEW t, NEW past \in Seq(Events), NEW waiting \in Seq(Events),
           NEW live \in Seq(Events), NEW at, NEW now, NEW later, NEW e \in Events,
           Numbered(at), Numbered(now), Numbered(later),
           e.tenant = t, later.sequence = e.sequence, later.epoch = e.epoch, Before(now, e),
           InOrder(t, past, waiting, live, at, now)
    PROVE  InOrder(t, past, waiting, Append(live, e), at, later)
<1>1. Numbered(e) /\ \A x \in Elems(waiting) \cup Elems(live) : Numbered(x)
  BY ElemsType, NumberedFacts
<1>2. ~Before(later, now) /\ ~Before(later, e)
  BY <1>1 DEF Before, Numbered
<1>3. InOrder(t, past, waiting, live, at, later)
  BY <1>2, InOrderLater
<1>4. \A x \in Elems(waiting) \cup Elems(live) : Before(x, e)
  BY <1>1, BeforeTransitive DEF InOrder
<1>5. Before(at, e)
  BY <1>1, BeforeTransitive DEF InOrder
<1>6. Elems(Append(live, e)) = Elems(live) \cup {e} /\ Sorted(Append(live, e))
  BY <1>4, AppendFacts DEF InOrder
<1> QED  BY <1>2, <1>3, <1>4, <1>5, <1>6 DEF InOrder

(* WriteReplay: the head of the replay is sent, the cursor follows it. *)
LEMMA InOrderReplay ==
    ASSUME NEW t, NEW past \in Seq(Events), NEW waiting \in Seq(Events),
           NEW live \in Seq(Events), NEW at, NEW now, NEW next,
           Numbered(at), Numbered(now), waiting # <<>>, Numbered(next),
           next.sequence = Head(waiting).sequence, next.epoch = Head(waiting).epoch,
           InOrder(t, past, waiting, live, at, now)
    PROVE  InOrder(t, Append(past, Head(waiting)), Tail(waiting), live, next, now)
<1> DEFINE h == Head(waiting)
<1>1. /\ h \in Events /\ Tail(waiting) \in Seq(Events)
      /\ Elems(waiting) = Elems(Tail(waiting)) \cup {h}
      /\ Sorted(Tail(waiting)) /\ \A x \in Elems(Tail(waiting)) : Before(h, x)
  BY TakeFacts DEF InOrder
<1>2. /\ Numbered(h) /\ h.tenant = t /\ Before(at, h) /\ ~Before(now, h)
      /\ \A x \in Elems(past) : Numbered(x)
  BY <1>1, ElemsType, NumberedFacts DEF InOrder
<1> HIDE DEF h
<1>3. \A x : Before(next, x) <=> Before(h, x)
  BY DEF Before, h
<1>4. \A x : Before(x, next) <=> Before(x, h)
  BY DEF Before, h
<1>5. \A x \in Elems(past) : Before(x, h)
  BY <1>2, BeforeTransitive DEF InOrder
<1>6. Elems(Append(past, h)) = Elems(past) \cup {h} /\ Sorted(Append(past, h))
  BY <1>1, <1>5, AppendFacts DEF InOrder
<1>7. ASSUME NEW e \in Elems(Append(past, h)) PROVE e.tenant = t /\ ~Before(next, e)
  <2>1. CASE e = h
    BY <2>1, <1>2, <1>3, BeforeTransitive
  <2>2. CASE e \in Elems(past)
    BY <2>2, <1>2, <1>3, <1>5, BeforeTransitive DEF InOrder
  <2> QED  BY <2>1, <2>2, <1>6
<1>8. ASSUME NEW e \in Elems(Tail(waiting)) \cup Elems(live)
      PROVE  e.tenant = t /\ Before(next, e) /\ ~Before(now, e)
  BY <1>1, <1>3 DEF InOrder
<1>9. \A e \in Elems(Tail(waiting)) : \A f \in Elems(live) : Before(e, f)
  BY <1>1 DEF InOrder
<1>10. ~Before(now, next)
  BY <1>2, <1>4
<1>11. InOrder(t, Append(past, h), Tail(waiting), live, next, now)
  BY <1>1, <1>6, <1>7, <1>8, <1>9, <1>10 DEF InOrder
<1> QED  BY <1>11 DEF h

(* WriteLive: with the replay sent, the head of the channel is next. *)
LEMMA InOrderLive ==
    ASSUME NEW t, NEW past \in Seq(Events), NEW live \in Seq(Events),
           NEW at, NEW now, NEW next,
           Numbered(at), Numbered(now), live # <<>>, Numbered(next),
           next.sequence = Head(live).sequence, next.epoch = Head(live).epoch,
           InOrder(t, past, <<>>, live, at, now)
    PROVE  InOrder(t, Append(past, Head(live)), <<>>, Tail(live), next, now)
<1>1. InOrder(t, past, live, <<>>, at, now)
  BY EmptyFacts DEF InOrder
<1>2. <<>> \in Seq(Events)
  OBVIOUS
<1>3. InOrder(t, Append(past, Head(live)), Tail(live), <<>>, next, now)
  BY <1>1, <1>2, InOrderReplay
<1> QED  BY <1>3, EmptyFacts DEF InOrder

(* The handler returns: what was not sent is dropped. *)
LEMMA InOrderLeave ==
    ASSUME NEW t, NEW past, NEW waiting, NEW live, NEW at, NEW now,
           InOrder(t, past, waiting, live, at, now)
    PROVE  InOrder(t, past, <<>>, <<>>, at, now)
  BY EmptyFacts DEF InOrder

-----------------------------------------------------------------------------
(* The epoch changes with a reset only. *)
LEMMA EpochFacts ==
    ASSUME HistoryTypeOK
    PROVE  Epoch \in 0 .. MaxResets
  BY ConfigAssumption DEF HistoryTypeOK, Epoch

(* The numbers a consumer and its tenant carry. *)
LEMMA NumberTypes ==
    ASSUME TypeOK, HistoryTypeOK, NEW c \in Consumers
    PROVE  /\ cursor[c] \in Nat /\ cursorEpoch[c] \in Nat
           /\ nextSequence \in Nat /\ Epoch \in Nat
           /\ base[c] \in Nat /\ excused[c] \in Nat
           /\ tenantOf[c] \in Tenants /\ evictedThrough[tenantOf[c]] \in Nat
<1>1. Epoch \in Nat
  BY EpochFacts
<1>2. nextSequence \in 0 .. MaxSequence
  BY DEF TypeOK
<1>3. cursor[c] \in 0 .. MaxSequence /\ tenantOf[c] \in Tenants
  BY DEF TypeOK
<1>4. evictedThrough[tenantOf[c]] \in 0 .. nextSequence
  BY <1>3 DEF TypeOK
<1>5. cursorEpoch[c] \in 0 .. MaxResets /\ base[c] \in Nat /\ excused[c] \in Nat
  BY DEF HistoryTypeOK
<1> QED  BY <1>1, <1>2, <1>3, <1>4, <1>5

(* The replay holds the tenant's retained events after the cursor, each    *)
(* once, in order, and no other.                                           *)
LEMMA EventsOfFacts ==
    ASSUME TypeOK, HistoryTypeOK, StoreMatchesLog, NEW t, NEW since \in Nat
    PROVE  /\ EventsOf(t, since) \in Seq(Events)
           /\ Sorted(EventsOf(t, since))
           /\ \A e \in Elems(EventsOf(t, since)) :
                 /\ e.tenant = t /\ e.sequence > since
                 /\ e.sequence <= nextSequence /\ e.epoch = Epoch
                 /\ saved[e.sequence] = t
           /\ \A i \in 1 .. Len(events) : events[i].tenant = t /\ events[i].sequence > since
                 => events[i] \in Elems(EventsOf(t, since))
<1> DEFINE P == {i \in 1 .. Len(events) : events[i].tenant = t /\ events[i].sequence > since}
           n == Cardinality(P)
           a == Ascending(P)
           q == EventsOf(t, since)
<1>1. Len(events) \in Nat /\ \A i \in 1 .. Len(events) : events[i] \in Events
  BY LenProperties, ElementOfSeq DEF TypeOK
<1>2. P \in SUBSET (1 .. Len(events))
  OBVIOUS
<1>3. n \in Nat /\ IsAscending(a, P) /\ \A x \in P : \E k \in 1 .. n : a[k] = x
  <2> HIDE DEF P
  <2> QED  BY <1>1, <1>2, AscendingFacts
<1>4. q = [k \in 1 .. n |-> events[a[k]]]
  BY DEF EventsOf, Retained
<1>5. \A k \in 1 .. n : a[k] \in P
  BY <1>3 DEF IsAscending
<1>6. \A i \in 1 .. Len(events) :
         /\ events[i].sequence = nextSequence - Len(events) + i
         /\ events[i].epoch = Epoch
         /\ events[i].tenant = saved[events[i].sequence]
  BY DEF StoreMatchesLog
<1>7. nextSequence \in Nat /\ Len(events) <= nextSequence
  BY ConfigAssumption DEF TypeOK, StoreMatchesLog
<1>8. q \in Seq(Events) /\ Len(q) = n /\ \A k \in 1 .. n : q[k] = events[a[k]]
  <2>1. q \in [1 .. n -> Events]
    BY <1>1, <1>4, <1>5
  <2> HIDE DEF q, n
  <2>2. q \in Seq(Events)
    BY <1>3, <2>1, SeqDef
  <2>3. DOMAIN q = 1 .. n
    BY <2>1
  <2>4. Len(q) = n
    BY <1>3, <2>2, <2>3, LenProperties
  <2> QED  BY <2>2, <2>4, <1>4
<1>9. Sorted(q)
  <2> SUFFICES ASSUME NEW i \in 1 .. n, NEW j \in 1 .. n, i < j
               PROVE  Before(q[i], q[j])
    BY <1>8 DEF Sorted
  <2>1. a[i] < a[j]
    BY <1>3 DEF IsAscending
  <2>2. a[i] \in 1 .. Len(events) /\ a[j] \in 1 .. Len(events)
    BY <1>5
  <2>3. q[i] = events[a[i]] /\ q[j] = events[a[j]]
    BY <1>8
  <2> HIDE DEF q, a, n, P
  <2>4. /\ events[a[i]].sequence = nextSequence - Len(events) + a[i]
        /\ events[a[j]].sequence = nextSequence - Len(events) + a[j]
        /\ events[a[i]].epoch = events[a[j]].epoch
    BY <1>6, <2>2
  <2>5. events[a[i]].sequence < events[a[j]].sequence
    BY <1>1, <1>7, <2>1, <2>2, <2>4
  <2> QED  BY <2>3, <2>4, <2>5 DEF Before
<1>10. ASSUME NEW e \in Elems(q)
       PROVE  /\ e.tenant = t /\ e.sequence > since
              /\ e.sequence <= nextSequence /\ e.epoch = Epoch
              /\ saved[e.sequence] = t
  <2>1. PICK k \in 1 .. n : e = events[a[k]]
    BY <1>8 DEF Elems
  <2>2. a[k] \in 1 .. Len(events) /\ events[a[k]].tenant = t /\ events[a[k]].sequence > since
    BY <1>5
  <2> HIDE DEF q, a, n, P
  <2>3. a[k] \in Nat /\ a[k] <= Len(events)
    BY <1>1, <2>2
  <2>4. /\ e.sequence = nextSequence - Len(events) + a[k] /\ e.epoch = Epoch
        /\ saved[e.sequence] = t
    BY <1>6, <2>1, <2>2
  <2> QED  BY <1>1, <1>7, <2>1, <2>2, <2>3, <2>4
<1>11. ASSUME NEW i \in 1 .. Len(events), events[i].tenant = t, events[i].sequence > since
       PROVE  events[i] \in Elems(q)
  <2>1. i \in P
    BY <1>11
  <2>2. PICK k \in 1 .. n : a[k] = i
    BY <1>3, <2>1
  <2> QED  BY <1>8, <2>2 DEF Elems
<1> QED  BY <1>8, <1>9, <1>10, <1>11

(* A step that leaves the store alone. *)
LEMMA StoreKept ==
    ASSUME StoreMatchesLog, UNCHANGED <<storeVars, resets>>
    PROVE  StoreMatchesLog' /\ Epoch' = Epoch
<1>1. Epoch' = Epoch
  BY DEF Epoch
<1> QED  BY <1>1 DEF StoreMatchesLog, storeVars

(* Leave: cancel closes the channel unless Save or Reset did. *)
LEMMA LeavePreserves ==
    ASSUME IndInv, NEW c \in Consumers, NEW next \in {"offline", "expired"}, Leave(c, next),
           UNCHANGED <<storeVars, tenantOf, clientVars, resets>>,
           disconnects' \in 0 .. MaxDisconnects
    PROVE  IndInv'
<1>1. /\ subscribers' = subscribers \ {c}
      /\ closes' = [d \in Consumers |-> IF d \in subscribers \cap {c} THEN closes[d] + 1 ELSE closes[d]]
      /\ phase' = [phase EXCEPT ![c] = next]
      /\ replay' = [replay EXCEPT ![c] = <<>>]
      /\ channel' = [channel EXCEPT ![c] = <<>>]
      /\ expired' = [expired EXCEPT ![c] = FALSE]
  BY DEF Leave, cancel, Close
<1>2. StoreMatchesLog' /\ Epoch' = Epoch
  BY StoreKept DEF IndInv
<1>3. TypeOK /\ HistoryTypeOK
  BY DEF IndInv
<1>4. UNCHANGED <<events, nextSequence, evictedThrough, saved, tenantOf, cursor, received,
                  cursorEpoch, base, excused, resets>>
  BY DEF storeVars, clientVars
<1>5. /\ phase'[c] = next /\ replay'[c] = <<>> /\ channel'[c] = <<>> /\ expired'[c] = FALSE
      /\ \A d \in Consumers : d # c =>
            /\ phase'[d] = phase[d] /\ replay'[d] = replay[d] /\ channel'[d] = channel[d]
            /\ expired'[d] = expired[d] /\ closes'[d] = closes[d]
            /\ (d \in subscribers' <=> d \in subscribers)
  BY <1>1, <1>3 DEF TypeOK
<1>6. TypeOK'
  <2>1. closes' \in [Consumers -> Nat] /\ subscribers' \subseteq Consumers
    <3>1. closes \in [Consumers -> Nat] /\ subscribers \subseteq Consumers
      BY <1>3 DEF TypeOK
    <3>2. \A d \in Consumers : closes[d] \in Nat /\ closes[d] + 1 \in Nat
      BY <3>1
    <3> QED  BY <1>1, <3>1, <3>2
  <2>2. phase' \in [Consumers -> Phases]
    BY <1>1, <1>3 DEF TypeOK, Phases
  <2>3. replay' \in [Consumers -> Seq(Events)] /\ channel' \in [Consumers -> Seq(Events)]
    BY <1>1, <1>3 DEF TypeOK
  <2>4. \A d \in Consumers : Len(channel'[d]) <= Buffer
    <3> SUFFICES ASSUME NEW d \in Consumers PROVE Len(channel'[d]) <= Buffer
      OBVIOUS
    <3>1. Len(channel[d]) <= Buffer
      BY <1>3 DEF TypeOK
    <3>2. Buffer \in Nat
      BY ConfigAssumption
    <3>3. Len(<<>>) <= Buffer
      BY <3>2, EmptyFacts
    <3>4. channel'[d] = <<>> \/ channel'[d] = channel[d]
      BY <1>5
    <3> QED  BY <3>1, <3>3, <3>4
  <2>5. expired' \in [Consumers -> BOOLEAN]
    BY <1>1, <1>3 DEF TypeOK
  <2> QED  BY <2>1, <2>2, <2>3, <2>4, <2>5, <1>3, <1>4 DEF TypeOK
<1>7. HistoryTypeOK'
  BY <1>3, <1>4 DEF HistoryTypeOK
<1>8. ChannelClosedOnce'
  BY <1>1, <1>3 DEF IndInv, ChannelClosedOnce, TypeOK
<1>9. NoLeakedSubscription'
  BY <1>1, <1>3, <1>5 DEF IndInv, NoLeakedSubscription, TypeOK
<1>10. PhasesMatchQueues'
  <2> SUFFICES ASSUME NEW d \in Consumers
               PROVE  /\ phase'[d] \notin {"subscribed", "replaying", "live"} =>
                            replay'[d] = <<>> /\ channel'[d] = <<>>
                      /\ phase'[d] \in {"replaying", "live"} => ~expired'[d]
                      /\ phase'[d] = "live" => replay'[d] = <<>>
    BY DEF PhasesMatchQueues, Connected
  <2>1. CASE d = c
    BY <2>1, <1>5
  <2>2. CASE d # c
    BY <2>2, <1>5 DEF IndInv, PhasesMatchQueues, Connected
  <2> QED  BY <2>1, <2>2
<1>11. QueuesInOrder'
  <2> SUFFICES ASSUME NEW d \in Consumers
               PROVE  InOrder(tenantOf[d], received[d], replay'[d], channel'[d],
                              Stamp(cursor[d], cursorEpoch[d]), Stamp(nextSequence, Epoch))
    BY <1>2, <1>4 DEF QueuesInOrder
  <2>1. InOrder(tenantOf[d], received[d], replay[d], channel[d],
                Stamp(cursor[d], cursorEpoch[d]), Stamp(nextSequence, Epoch))
    BY DEF IndInv, QueuesInOrder
  <2> QED  BY <2>1, <1>5, InOrderLeave
<1>12. OwedIsQueued'
  <2> SUFFICES ASSUME NEW d \in Consumers, Connected(d)', ~expired'[d]
               PROVE  Covers(tenantOf[d], saved, nextSequence, Epoch, Owed(d), d \in subscribers',
                             Elems(received[d]) \cup Queued(d)', Queued(d)')
    BY <1>2, <1>4 DEF OwedIsQueued, Owed
  <2>1. d # c
    BY <1>5 DEF Connected
  <2>2. Queued(d)' = Queued(d) /\ Connected(d)
    BY <2>1, <1>5 DEF Queued, Connected
  <2> QED  BY <2>1, <2>2, <1>5 DEF IndInv, OwedIsQueued, Covers
<1>13. CursorIsEarned'
  BY <1>2, <1>4 DEF IndInv, CursorIsEarned, Owed
<1>14. QueuedIsLogged'
  <2> SUFFICES ASSUME NEW d \in Consumers, NEW e \in Elems(received[d]) \cup Queued(d)',
                      e.epoch = Epoch
               PROVE  e.sequence <= nextSequence /\ saved[e.sequence] = e.tenant
    BY <1>2, <1>4 DEF QueuedIsLogged
  <2>1. Queued(d)' \subseteq Queued(d)
    BY <1>5, EmptyFacts DEF Queued
  <2> QED  BY <2>1 DEF IndInv, QueuedIsLogged
<1> QED  BY <1>2, <1>6, <1>7, <1>8, <1>9, <1>10, <1>11, <1>12, <1>13, <1>14 DEF IndInv

(* Accept, and the end of the replay: the handler moves on, no queue does. *)
LEMMA PhasePreserves ==
    ASSUME IndInv, NEW c \in Consumers, NEW next \in {"replaying", "live"},
           Connected(c), ~expired[c], next = "live" => replay[c] = <<>>,
           phase' = [phase EXCEPT ![c] = next],
           UNCHANGED <<storeVars, subscribers, channel, closes, tenantOf, replay, expired,
                       clientVars, budget>>
    PROVE  IndInv'
<1>1. StoreMatchesLog' /\ Epoch' = Epoch
  BY StoreKept DEF IndInv, budget
<1>2. TypeOK /\ HistoryTypeOK
  BY DEF IndInv
<1>3. UNCHANGED <<events, nextSequence, evictedThrough, saved, subscribers, channel, closes,
                  tenantOf, replay, expired, cursor, received, cursorEpoch, base, excused,
                  disconnects, resets>>
  BY DEF storeVars, clientVars, budget
<1>4. /\ phase'[c] = next
      /\ \A d \in Consumers : d # c => phase'[d] = phase[d]
  BY <1>2 DEF TypeOK
<1>5. TypeOK' /\ HistoryTypeOK'
  <2>1. phase' \in [Consumers -> Phases]
    BY <1>2 DEF TypeOK, Phases
  <2> QED  BY <2>1, <1>2, <1>3 DEF TypeOK, HistoryTypeOK
<1>6. ChannelClosedOnce'
  BY <1>3 DEF IndInv, ChannelClosedOnce
<1>7. NoLeakedSubscription'
  BY <1>2, <1>3, <1>4 DEF IndInv, NoLeakedSubscription, TypeOK
<1>8. \A d \in Consumers : Connected(d)' <=> Connected(d)
  BY <1>4 DEF Connected
<1>9. PhasesMatchQueues'
  BY <1>3, <1>4, <1>8 DEF IndInv, PhasesMatchQueues
<1>10. QueuesInOrder'
  BY <1>1, <1>3 DEF IndInv, QueuesInOrder
<1>11. QueuedIsLogged'
  BY <1>1, <1>3 DEF IndInv, QueuedIsLogged, Queued
<1>12. OwedIsQueued'
  BY <1>1, <1>3, <1>8 DEF IndInv, OwedIsQueued, Queued, Owed
<1>13. CursorIsEarned'
  BY <1>1, <1>3 DEF IndInv, CursorIsEarned, Owed
<1> QED  BY <1>1, <1>5, <1>6, <1>7, <1>9, <1>10, <1>11, <1>12, <1>13 DEF IndInv

(* Sending h, the first of what is queued, which leaves rp of the replay   *)
(* and ch of the channel.                                                  *)
LEMMA SendPreserves ==
    ASSUME IndInv, NEW c \in Consumers, NEW h \in Events, NEW rp \in Seq(Events),
           NEW ch \in Seq(Events), Len(ch) <= Buffer,
           phase[c] \in {"replaying", "live"}, phase[c] = "live" => rp = <<>>,
           Queued(c) = Elems(rp) \cup Elems(ch) \cup {h},
           \A x \in Elems(rp) \cup Elems(ch) : Before(h, x),
           InOrder(tenantOf[c], Append(received[c], h), rp, ch,
                   Stamp(h.sequence, h.epoch), Stamp(nextSequence, Epoch)),
           Send(c, h),
           replay' = [replay EXCEPT ![c] = rp], channel' = [channel EXCEPT ![c] = ch],
           UNCHANGED <<storeVars, subscribers, closes, tenantOf, phase, expired, budget>>
    PROVE  IndInv'
<1>1. StoreMatchesLog' /\ Epoch' = Epoch
  BY StoreKept DEF IndInv, budget
<1>2. TypeOK /\ HistoryTypeOK
  BY DEF IndInv
<1>3. UNCHANGED <<events, nextSequence, evictedThrough, saved, subscribers, closes,
                  tenantOf, phase, expired, base, excused, disconnects, resets>>
  BY DEF storeVars, budget, Send
<1>4. /\ received' = [received EXCEPT ![c] = Append(received[c], h)]
      /\ cursor' = [cursor EXCEPT ![c] = h.sequence]
      /\ cursorEpoch' = [cursorEpoch EXCEPT ![c] = h.epoch]
  BY DEF Send
<1>5. /\ replay'[c] = rp /\ channel'[c] = ch /\ received'[c] = Append(received[c], h)
      /\ cursor'[c] = h.sequence /\ cursorEpoch'[c] = h.epoch
      /\ \A d \in Consumers : d # c =>
            /\ replay'[d] = replay[d] /\ channel'[d] = channel[d] /\ received'[d] = received[d]
            /\ cursor'[d] = cursor[d] /\ cursorEpoch'[d] = cursorEpoch[d]
  BY <1>2, <1>4 DEF TypeOK, HistoryTypeOK
<1>6. /\ h.sequence \in 1 .. MaxSequence /\ h.epoch \in 0 .. MaxResets
      /\ nextSequence \in Nat /\ Epoch \in Nat /\ received[c] \in Seq(Events)
  <2>1. h.sequence \in 1 .. MaxSequence /\ h.epoch \in 0 .. MaxResets
    BY DEF Events
  <2>2. nextSequence \in Nat /\ Epoch \in Nat
    BY <1>2, EpochFacts, ConfigAssumption DEF TypeOK
  <2> QED  BY <2>1, <2>2, <1>2 DEF HistoryTypeOK
<1>7. Append(received[c], h) \in Seq(Events) /\ Elems(received'[c]) = Elems(received[c]) \cup {h}
  BY <1>5, <1>6, AppendFacts
<1>8. TypeOK'
  <2>1. replay' \in [Consumers -> Seq(Events)] /\ channel' \in [Consumers -> Seq(Events)]
    BY <1>2 DEF TypeOK
  <2>2. cursor' \in [Consumers -> 0 .. MaxSequence]
    <3>1. cursor \in [Consumers -> 0 .. MaxSequence]
      BY <1>2 DEF TypeOK
    <3>2. nextSequence \in 0 .. MaxSequence /\ MaxSequence \in Nat
      BY <1>2, ConfigAssumption DEF TypeOK
    <3>3. h.sequence \in 0 .. MaxSequence
      BY <3>2, <1>6
    <3> QED  BY <3>1, <3>3, <1>4
  <2>3. \A d \in Consumers : Len(channel'[d]) <= Buffer
    BY <1>2, <1>5 DEF TypeOK
  <2> QED  BY <2>1, <2>2, <2>3, <1>2, <1>3 DEF TypeOK
<1>9. HistoryTypeOK'
  <2>1. received' \in [Consumers -> Seq(Events)]
    BY <1>2, <1>4, <1>7 DEF HistoryTypeOK
  <2>2. cursorEpoch' \in [Consumers -> 0 .. MaxResets]
    BY <1>2, <1>4, <1>6 DEF HistoryTypeOK
  <2> QED  BY <2>1, <2>2, <1>2, <1>3 DEF HistoryTypeOK
<1>10. ChannelClosedOnce' /\ NoLeakedSubscription'
  BY <1>3 DEF IndInv, ChannelClosedOnce, NoLeakedSubscription
<1>11. PhasesMatchQueues'
  BY <1>3, <1>5 DEF IndInv, PhasesMatchQueues, Connected
<1>12. QueuesInOrder'
  <2> SUFFICES ASSUME NEW d \in Consumers
               PROVE  InOrder(tenantOf[d], received'[d], replay'[d], channel'[d],
                              Stamp(cursor'[d], cursorEpoch'[d]), Stamp(nextSequence, Epoch))
    BY <1>1, <1>3 DEF QueuesInOrder
  <2>1. CASE d # c
    BY <2>1, <1>5 DEF IndInv, QueuesInOrder
  <2> QED  BY <2>1, <1>5
<1>13. Queued(c)' = Elems(rp) \cup Elems(ch) /\ \A d \in Consumers : d # c => Queued(d)' = Queued(d)
  BY <1>5 DEF Queued
<1>14. Elems(received'[c]) \cup Queued(c)' = Elems(received[c]) \cup Queued(c)
  BY <1>7, <1>13
<1>15. QueuedIsLogged'
  <2> SUFFICES ASSUME NEW d \in Consumers, NEW e \in Elems(received'[d]) \cup Queued(d)',
                      e.epoch = Epoch
               PROVE  e.sequence <= nextSequence /\ saved[e.sequence] = e.tenant
    BY <1>1, <1>3 DEF QueuedIsLogged
  <2>1. e \in Elems(received[d]) \cup Queued(d)
    BY <1>5, <1>13, <1>14
  <2> QED  BY <2>1 DEF IndInv, QueuedIsLogged
<1>16. OwedIsQueued'
  <2> SUFFICES ASSUME NEW d \in Consumers, Connected(d), ~expired[d]
               PROVE  Covers(tenantOf[d], saved, nextSequence, Epoch, Owed(d), d \in subscribers,
                             Elems(received'[d]) \cup Queued(d)', Queued(d)')
    BY <1>1, <1>3 DEF OwedIsQueued, Owed, Connected
  <2>1. Covers(tenantOf[d], saved, nextSequence, Epoch, Owed(d), d \in subscribers,
               Elems(received[d]) \cup Queued(d), Queued(d))
    BY DEF IndInv, OwedIsQueued
  <2>2. CASE d # c
    BY <2>1, <2>2, <1>5, <1>13
  <2>3. CASE d = c
    <3>1. Queued(c)' \subseteq Queued(c)
      BY <1>13
    <3> QED  BY <2>1, <2>3, <3>1, <1>14 DEF Covers
  <2> QED  BY <2>2, <2>3
<1>17. CursorIsEarned'
  <2> SUFFICES ASSUME NEW d \in Consumers, cursor'[d] > 0, cursorEpoch'[d] = Epoch
               PROVE  Covers(tenantOf[d], saved, cursor'[d], Epoch, Owed(d), TRUE,
                             Elems(received'[d]), {})
    BY <1>1, <1>3 DEF CursorIsEarned, Owed
  <2>1. CASE d # c
    BY <2>1, <1>5 DEF IndInv, CursorIsEarned
  <2>2. CASE d = c
    <3> SUFFICES ASSUME NEW i \in 1 .. h.sequence, saved[i] = tenantOf[c], i > Owed(c)
                 PROVE  Has(Elems(received'[c]), i, Epoch)
      BY <2>2, <1>5 DEF Covers
    <3>1. h.epoch = Epoch /\ h \in Queued(c)
      BY <2>2, <1>5
    <3>2. h.sequence <= nextSequence
      BY <3>1 DEF IndInv, QueuedIsLogged
    <3>3. i \in 1 .. nextSequence /\ i <= h.sequence /\ i \in Int
      BY <3>2, <1>6
    <3>4. Connected(c) /\ ~expired[c]
      BY DEF IndInv, PhasesMatchQueues, Connected
    <3>5. Covers(tenantOf[c], saved, nextSequence, Epoch, Owed(c), c \in subscribers,
                 Elems(received[c]) \cup Queued(c), Queued(c))
      BY <3>4 DEF IndInv, OwedIsQueued
    <3>6. Has(Elems(received[c]) \cup Queued(c), i, Epoch)
      BY <3>1, <3>3, <3>5 DEF Covers
    <3>7. PICK e \in Elems(received[c]) \cup Queued(c) : e.sequence = i /\ e.epoch = Epoch
      BY <3>6 DEF Has
    <3>8. ~Before(h, e)
      BY <3>1, <3>3, <3>7, <1>6 DEF Before
    <3>9. e \in Elems(received'[c])
      BY <3>7, <3>8, <1>7
    <3> QED  BY <3>7, <3>9 DEF Has
  <2> QED  BY <2>1, <2>2
<1> QED  BY <1>1, <1>8, <1>9, <1>10, <1>11, <1>12, <1>15, <1>16, <1>17 DEF IndInv

(* The stream handler's own steps, and the loss of its connection. *)
LEMMA HandlerPreserves ==
    ASSUME IndInv, NEW c \in Consumers, Handler(c) \/ Disconnect(c)
    PROVE  IndInv'
<1>0. TypeOK /\ HistoryTypeOK /\ disconnects \in 0 .. MaxDisconnects
  BY DEF IndInv, HistoryTypeOK
<1>1. CASE RejectExpired(c)
  BY <1>0, <1>1, LeavePreserves DEF RejectExpired, budget
<1>2. CASE Accept(c)
  BY <1>2, PhasePreserves DEF Accept, Connected
<1>3. CASE WriteReplay(c)
  <2>1. CASE replay[c] = <<>>
    <3>1. ~expired[c] /\ Connected(c)
      BY <1>3 DEF WriteReplay, IndInv, PhasesMatchQueues, Connected
    <3> QED  BY <1>3, <2>1, <3>1, PhasePreserves DEF WriteReplay
  <2>2. CASE replay[c] # <<>>
    <3> DEFINE h == Head(replay[c])
               rp == Tail(replay[c])
               ch == channel[c]
    <3>1. /\ replay[c] \in Seq(Events) /\ ch \in Seq(Events) /\ Len(ch) <= Buffer
          /\ received[c] \in Seq(Events)
      BY <1>0 DEF TypeOK, HistoryTypeOK
    <3>2. InOrder(tenantOf[c], received[c], replay[c], ch,
                  Stamp(cursor[c], cursorEpoch[c]), Stamp(nextSequence, Epoch))
      BY DEF IndInv, QueuesInOrder
    <3>3. /\ h \in Events /\ rp \in Seq(Events)
          /\ Elems(replay[c]) = Elems(rp) \cup {h}
          /\ \A x \in Elems(rp) : Before(h, x)
      BY <3>1, <3>2, <2>2, TakeFacts DEF InOrder
    <3>4. \A x \in Elems(ch) : Before(h, x)
      BY <3>2, <3>3 DEF InOrder
    <3>5. Numbered(Stamp(cursor[c], cursorEpoch[c])) /\ Numbered(Stamp(nextSequence, Epoch))
      <4>1. cursor[c] \in Nat /\ cursorEpoch[c] \in Nat /\ nextSequence \in Nat /\ Epoch \in Nat
        BY <1>0, NumberTypes
      <4> QED  BY <4>1, NumberedFacts
    <3>6. Numbered(Stamp(h.sequence, h.epoch)) /\ Stamp(h.sequence, h.epoch).sequence = h.sequence
          /\ Stamp(h.sequence, h.epoch).epoch = h.epoch
      BY <3>3, NumberedFacts DEF Stamp, Numbered
    <3>7. InOrder(tenantOf[c], Append(received[c], h), rp, ch,
                  Stamp(h.sequence, h.epoch), Stamp(nextSequence, Epoch))
      BY <3>1, <3>2, <3>5, <3>6, <2>2, InOrderReplay
    <3>8. /\ phase[c] = "replaying" /\ Send(c, h)
          /\ replay' = [replay EXCEPT ![c] = rp]
          /\ UNCHANGED <<storeVars, subscribers, channel, closes, tenantOf, phase, expired, budget>>
      BY <1>3, <2>2 DEF WriteReplay
    <3>9. channel' = [channel EXCEPT ![c] = ch]
      BY <3>8, <1>0 DEF TypeOK
    <3>10. Queued(c) = Elems(rp) \cup Elems(ch) \cup {h}
      BY <3>3 DEF Queued
    <3> HIDE DEF h, rp, ch
    <3> QED  BY <3>1, <3>3, <3>4, <3>7, <3>8, <3>9, <3>10, SendPreserves
  <2> QED  BY <2>1, <2>2
<1>4. CASE WriteLive(c)
  <2> DEFINE h == Head(channel[c])
             ch == Tail(channel[c])
  <2>1. /\ phase[c] = "live" /\ channel[c] # <<>> /\ Send(c, h)
        /\ channel' = [channel EXCEPT ![c] = ch]
        /\ UNCHANGED <<storeVars, subscribers, closes, tenantOf, phase, replay, expired, budget>>
    BY <1>4 DEF WriteLive, connVars
  <2>2. replay[c] = <<>>
    BY <2>1 DEF IndInv, PhasesMatchQueues
  <2>3. replay' = [replay EXCEPT ![c] = <<>>]
    BY <2>1, <2>2, <1>0 DEF TypeOK
  <2>4. /\ channel[c] \in Seq(Events) /\ Len(channel[c]) <= Buffer /\ received[c] \in Seq(Events)
    BY <1>0 DEF TypeOK, HistoryTypeOK
  <2>5. InOrder(tenantOf[c], received[c], <<>>, channel[c],
                Stamp(cursor[c], cursorEpoch[c]), Stamp(nextSequence, Epoch))
    BY <2>2 DEF IndInv, QueuesInOrder
  <2>6. /\ h \in Events /\ ch \in Seq(Events) /\ Len(ch) <= Len(channel[c])
        /\ Elems(channel[c]) = Elems(ch) \cup {h}
        /\ \A x \in Elems(ch) : Before(h, x)
    BY <2>1, <2>4, <2>5, TakeFacts DEF InOrder
  <2>7. Numbered(Stamp(cursor[c], cursorEpoch[c])) /\ Numbered(Stamp(nextSequence, Epoch))
    <3>1. cursor[c] \in Nat /\ cursorEpoch[c] \in Nat /\ nextSequence \in Nat /\ Epoch \in Nat
      BY <1>0, NumberTypes
    <3> QED  BY <3>1, NumberedFacts
  <2>8. Numbered(Stamp(h.sequence, h.epoch)) /\ Stamp(h.sequence, h.epoch).sequence = h.sequence
        /\ Stamp(h.sequence, h.epoch).epoch = h.epoch
    BY <2>6, NumberedFacts DEF Stamp, Numbered
  <2>9. InOrder(tenantOf[c], Append(received[c], h), <<>>, ch,
                Stamp(h.sequence, h.epoch), Stamp(nextSequence, Epoch))
    BY <2>1, <2>4, <2>5, <2>7, <2>8, InOrderLive
  <2>10. Queued(c) = Elems(<<>>) \cup Elems(ch) \cup {h}
    BY <2>2, <2>6 DEF Queued
  <2>11. Len(ch) <= Buffer /\ <<>> \in Seq(Events) /\ \A x \in Elems(<<>>) \cup Elems(ch) : Before(h, x)
    <3>1. Len(ch) \in Nat /\ Len(channel[c]) \in Nat
      BY <2>4, <2>6, LenProperties
    <3>2. Len(ch) <= Buffer
      <4> HIDE DEF ch
      <4> QED  BY <3>1, <2>4, <2>6, ConfigAssumption
    <3> QED  BY <3>2, <2>6, EmptyFacts
  <2> HIDE DEF h, ch
  <2> QED  BY <2>1, <2>3, <2>6, <2>9, <2>10, <2>11, SendPreserves
<1>5. CASE ChannelClosed(c)
  BY <1>0, <1>5, LeavePreserves DEF ChannelClosed, budget
<1>6. CASE Disconnect(c)
  <2>1. disconnects' \in 0 .. MaxDisconnects
    BY <1>0, <1>6, ConfigAssumption DEF Disconnect
  <2> QED  BY <1>6, <2>1, LeavePreserves DEF Disconnect
<1> QED  BY <1>1, <1>2, <1>3, <1>4, <1>5, <1>6 DEF Handler

(* A subscription starts with everything it owes: what is retained after   *)
(* the cursor is in the replay, what was evicted before it is either not   *)
(* owed or was sent, and a cursor that hides more has expired.             *)
LEMMA SubscribeCovers ==
    ASSUME IndInv, NEW c \in Consumers, SubscribeSince(c), ~expired'[c]
    PROVE  Covers(tenantOf[c], saved, nextSequence, Epoch, Owed(c)', TRUE,
                  Elems(received[c]) \cup Elems(EventsOf(tenantOf[c], cursor[c])), {})
<1> DEFINE t == tenantOf[c]
           s == cursor[c]
           q == EventsOf(t, s)
<1>1. TypeOK /\ HistoryTypeOK /\ StoreMatchesLog
  BY DEF IndInv
<1>2. /\ s \in Nat /\ nextSequence \in Nat /\ Epoch \in Nat /\ Len(events) \in Nat
      /\ Len(events) <= nextSequence /\ t \in Tenants /\ base[c] \in Nat /\ excused[c] \in Nat
      /\ evictedThrough[t] \in Nat
  <2>1. Len(events) \in Nat
    BY <1>1, LenProperties DEF TypeOK
  <2>2. Len(events) <= nextSequence
    BY <1>1 DEF StoreMatchesLog
  <2> QED  BY <1>1, <2>1, <2>2, NumberTypes
<1>3. \A i \in 1 .. Len(events) : events[i].tenant = t /\ events[i].sequence > s
         => events[i] \in Elems(q)
  BY <1>1, <1>2, EventsOfFacts
<1>4. /\ expired'[c] = ExpiredCursor(t, s)
      /\ base'[c] = IF s = 0 THEN evictedThrough[t] ELSE base[c]
      /\ excused'[c] = IF Outdated(c) THEN (IF s < nextSequence THEN s ELSE nextSequence)
                       ELSE excused[c]
  BY <1>1 DEF SubscribeSince, TypeOK, HistoryTypeOK
<1>5. ~(s > 0 /\ s <= evictedThrough[t])
  BY <1>4 DEF ExpiredCursor
<1>6. Owed(c)' = IF base'[c] < excused'[c] THEN excused'[c] ELSE base'[c]
  BY DEF Owed
<1> SUFFICES ASSUME NEW i \in 1 .. nextSequence, saved[i] = t, i > Owed(c)'
             PROVE  Has(Elems(received[c]) \cup Elems(q), i, Epoch)
  BY DEF Covers
<1>7. i \in Nat /\ base'[c] \in Nat /\ excused'[c] \in Nat
  BY <1>2, <1>4
<1>8. i > base'[c] /\ i > excused'[c]
  BY <1>6, <1>7
<1> HIDE DEF q, t, s
<1>9. CASE i <= s
  <2>1. s > 0 /\ i > base[c]
    BY <1>2, <1>4, <1>7, <1>8, <1>9
  <2>2. ~Outdated(c)
    BY <1>2, <1>4, <1>7, <1>8, <1>9
  <2>3. cursorEpoch[c] = Epoch /\ excused'[c] = excused[c]
    BY <2>1, <2>2, <1>4 DEF Outdated, s
  <2>4. Covers(t, saved, s, Epoch, Owed(c), TRUE, Elems(received[c]), {})
    BY <2>1, <2>3 DEF IndInv, CursorIsEarned, s, t
  <2>5. i \in 1 .. s /\ i > Owed(c)
    BY <2>1, <2>3, <1>2, <1>7, <1>8, <1>9 DEF Owed
  <2>6. Has(Elems(received[c]), i, Epoch)
    BY <2>4, <2>5 DEF Covers
  <2> QED  BY <2>6 DEF Has
<1>10. CASE i > s
  <2>1. i > nextSequence - Len(events)
    <3> SUFFICES ASSUME ~(i > nextSequence - Len(events)) PROVE FALSE
      OBVIOUS
    <3>1. i \in 1 .. nextSequence - Len(events)
      BY <1>2, <1>7
    <3>2. i <= evictedThrough[t]
      BY <3>1, <1>1 DEF StoreMatchesLog
    <3> QED  BY <3>2, <1>2, <1>4, <1>5, <1>7, <1>8, <1>10
  <2> DEFINE k == i - (nextSequence - Len(events))
  <2>2. k \in 1 .. Len(events)
    BY <2>1, <1>2, <1>7
  <2>3. events[k].sequence = nextSequence - Len(events) + k /\ events[k].epoch = Epoch
        /\ events[k].tenant = saved[events[k].sequence]
    BY <2>2, <1>1 DEF StoreMatchesLog
  <2>4. nextSequence - Len(events) + k = i
    BY <1>2, <1>7
  <2> HIDE DEF k
  <2>5. events[k] \in Elems(q)
    BY <2>2, <2>3, <2>4, <1>3, <1>10
  <2> QED  BY <2>3, <2>4, <2>5 DEF Has
<1> QED  BY <1>2, <1>7, <1>9, <1>10

(* SubscribeSince: replay and registration in one critical section. *)
LEMMA SubscribePreserves ==
    ASSUME IndInv, NEW c \in Consumers, SubscribeSince(c)
    PROVE  IndInv'
<1> DEFINE t == tenantOf[c]
           s == cursor[c]
           q == EventsOf(t, s)
<1>1. StoreMatchesLog' /\ Epoch' = Epoch
  BY StoreKept DEF IndInv, SubscribeSince, budget
<1>2. TypeOK /\ HistoryTypeOK /\ StoreMatchesLog
  BY DEF IndInv
<1>3. UNCHANGED <<events, nextSequence, evictedThrough, saved, tenantOf, cursor, cursorEpoch,
                  received, disconnects, resets>>
  BY DEF SubscribeSince, storeVars, budget
<1>4. /\ s \in Nat /\ nextSequence \in Nat /\ Epoch \in Nat /\ cursorEpoch[c] \in Nat
      /\ t \in Tenants /\ evictedThrough[t] \in Nat
  BY <1>2, NumberTypes
<1>5. /\ q \in Seq(Events) /\ Sorted(q)
      /\ \A e \in Elems(q) : /\ e.tenant = t /\ e.sequence > s /\ e.sequence <= nextSequence
                             /\ e.epoch = Epoch /\ saved[e.sequence] = t
  BY <1>2, <1>4, EventsOfFacts
<1> DEFINE nb == IF s = 0 THEN evictedThrough[t] ELSE base[c]
           ne == IF Outdated(c) THEN (IF s < nextSequence THEN s ELSE nextSequence)
                 ELSE excused[c]
<1>6. /\ replay' = [replay EXCEPT ![c] = q]
      /\ expired' = [expired EXCEPT ![c] = ExpiredCursor(t, s)]
      /\ subscribers' = subscribers \cup {c}
      /\ channel' = [channel EXCEPT ![c] = <<>>]
      /\ closes' = [closes EXCEPT ![c] = 0]
      /\ phase' = [phase EXCEPT ![c] = "subscribed"]
      /\ base' = [base EXCEPT ![c] = nb]
      /\ excused' = [excused EXCEPT ![c] = ne]
  BY DEF SubscribeSince
<1>7. nb \in Nat /\ ne \in Nat
  BY <1>2, <1>4 DEF HistoryTypeOK
<1> HIDE DEF q, nb, ne
<1>8. /\ replay'[c] = q /\ channel'[c] = <<>> /\ phase'[c] = "subscribed" /\ closes'[c] = 0
      /\ base'[c] = nb /\ excused'[c] = ne
      /\ \A d \in Consumers : d # c =>
            /\ replay'[d] = replay[d] /\ channel'[d] = channel[d] /\ phase'[d] = phase[d]
            /\ expired'[d] = expired[d] /\ closes'[d] = closes[d]
            /\ base'[d] = base[d] /\ excused'[d] = excused[d]
            /\ (d \in subscribers' <=> d \in subscribers)
  BY <1>2, <1>6 DEF TypeOK, HistoryTypeOK
<1>9. TypeOK'
  <2>1. replay' \in [Consumers -> Seq(Events)] /\ channel' \in [Consumers -> Seq(Events)]
    BY <1>2, <1>5, <1>6 DEF TypeOK
  <2>2. ExpiredCursor(t, s) \in BOOLEAN
    BY DEF ExpiredCursor
  <2>3. expired' \in [Consumers -> BOOLEAN]
    BY <2>2, <1>2, <1>6 DEF TypeOK
  <2>4. subscribers' \subseteq Consumers /\ closes' \in [Consumers -> Nat]
        /\ phase' \in [Consumers -> Phases]
    BY <1>2, <1>6 DEF TypeOK, Phases
  <2>5. \A d \in Consumers : Len(channel'[d]) <= Buffer
    <3>1. Len(channel'[c]) <= Buffer
      BY <1>8, EmptyFacts, ConfigAssumption
    <3>2. \A d \in Consumers : d # c => Len(channel'[d]) <= Buffer
      BY <1>2, <1>8 DEF TypeOK
    <3> QED  BY <3>1, <3>2
  <2> QED  BY <2>1, <2>3, <2>4, <2>5, <1>2, <1>3 DEF TypeOK
<1>10. HistoryTypeOK'
  BY <1>2, <1>3, <1>6, <1>7 DEF HistoryTypeOK
<1>11. ChannelClosedOnce'
  BY <1>6, <1>8 DEF IndInv, ChannelClosedOnce
<1>12. NoLeakedSubscription'
  BY <1>2, <1>6, <1>8 DEF IndInv, NoLeakedSubscription, TypeOK
<1>13. PhasesMatchQueues'
  BY <1>8 DEF IndInv, PhasesMatchQueues, Connected
<1>14. QueuesInOrder'
  <2> SUFFICES ASSUME NEW d \in Consumers
               PROVE  InOrder(tenantOf[d], received[d], replay'[d], channel'[d],
                              Stamp(cursor[d], cursorEpoch[d]), Stamp(nextSequence, Epoch))
    BY <1>1, <1>3 DEF QueuesInOrder
  <2> DEFINE at == Stamp(s, cursorEpoch[c])
             now == Stamp(nextSequence, Epoch)
  <2>1. CASE d # c
    BY <2>1, <1>8 DEF IndInv, QueuesInOrder
  <2>2. CASE d = c
    <3>1. InOrder(t, received[c], replay[c], channel[c], at, now)
      BY DEF IndInv, QueuesInOrder
    <3>2. /\ at.sequence = s /\ at.epoch = cursorEpoch[c]
          /\ now.sequence = nextSequence /\ now.epoch = Epoch
      BY DEF Stamp
    <3> HIDE DEF at, now, s, t
    <3>3. cursorEpoch[c] <= Epoch
      BY <3>1, <3>2, <1>4 DEF InOrder, Before
    <3>4. \A e \in Elems(q) : Numbered(e)
      BY <1>5, ElemsType, NumberedFacts
    <3>5. \A e \in Elems(q) : Before(at, e) /\ ~Before(now, e)
      BY <3>2, <3>3, <3>4, <1>4, <1>5 DEF Before, Numbered
    <3>6. InOrder(t, received[c], q, <<>>, at, now)
      BY <3>1, <3>5, <1>5, EmptyFacts DEF InOrder
    <3> QED  BY <2>2, <3>6, <1>8 DEF at, now, s, t
  <2> QED  BY <2>1, <2>2
<1>15. Queued(c)' = Elems(q) /\ \A d \in Consumers : d # c => Queued(d)' = Queued(d)
  BY <1>8, EmptyFacts DEF Queued
<1>16. QueuedIsLogged'
  <2> SUFFICES ASSUME NEW d \in Consumers, NEW e \in Elems(received[d]) \cup Queued(d)',
                      e.epoch = Epoch
               PROVE  e.sequence <= nextSequence /\ saved[e.sequence] = e.tenant
    BY <1>1, <1>3 DEF QueuedIsLogged
  <2>1. CASE e \in Elems(received[d]) \cup Queued(d)
    BY <2>1 DEF IndInv, QueuedIsLogged
  <2>2. CASE d = c /\ e \in Elems(q)
    BY <2>2, <1>5
  <2> QED  BY <2>1, <2>2, <1>15
<1>17. OwedIsQueued'
  <2> SUFFICES ASSUME NEW d \in Consumers, Connected(d)', ~expired'[d]
               PROVE  Covers(tenantOf[d], saved, nextSequence, Epoch, Owed(d)', d \in subscribers',
                             Elems(received[d]) \cup Queued(d)', Queued(d)')
    BY <1>1, <1>3 DEF OwedIsQueued
  <2>1. CASE d # c
    <3>1. Connected(d) /\ ~expired[d] /\ Owed(d)' = Owed(d) /\ Queued(d)' = Queued(d)
      BY <2>1, <1>8, <1>15 DEF Connected, Owed
    <3> QED  BY <2>1, <3>1, <1>8 DEF IndInv, OwedIsQueued, Covers
  <2>2. CASE d = c
    <3>1. Covers(t, saved, nextSequence, Epoch, Owed(c)', TRUE, Elems(received[c]) \cup Elems(q), {})
      BY <2>2, SubscribeCovers DEF q
    <3> QED  BY <2>2, <3>1, <1>15 DEF Covers
  <2> QED  BY <2>1, <2>2
<1>18. CursorIsEarned'
  <2> SUFFICES ASSUME NEW d \in Consumers, cursor[d] > 0, cursorEpoch[d] = Epoch
               PROVE  Covers(tenantOf[d], saved, cursor[d], Epoch, Owed(d)', TRUE,
                             Elems(received[d]), {})
    BY <1>1, <1>3 DEF CursorIsEarned
  <2>1. base'[d] = base[d] /\ excused'[d] = excused[d]
    <3>1. d = c => nb = base[c] /\ ne = excused[c]
      BY <1>4 DEF nb, ne, Outdated
    <3> QED  BY <3>1, <1>8
  <2>2. Owed(d)' = Owed(d)
    BY <2>1 DEF Owed
  <2> QED  BY <2>2 DEF IndInv, CursorIsEarned
<1> QED  BY <1>1, <1>9, <1>10, <1>11, <1>12, <1>13, <1>14, <1>16, <1>17, <1>18 DEF IndInv

(* Save numbers, appends and evicts: the store still holds the newest      *)
(* events, at most Retention of them, and evictedThrough bounds the rest.  *)
LEMMA SaveStore ==
    ASSUME IndInv, NEW t \in Tenants, Save(t)
    PROVE  /\ StoreMatchesLog'
           /\ events' \in Seq(Events) /\ Len(events') <= Retention
           /\ evictedThrough' \in [Tenants -> 0 .. nextSequence']
<1> DEFINE e == [sequence |-> nextSequence + 1, tenant |-> t, epoch |-> Epoch]
           a == Append(events, e)
           n == Len(events)
<1>1. TypeOK /\ HistoryTypeOK /\ StoreMatchesLog
  BY DEF IndInv
<1>2. /\ nextSequence \in Nat /\ nextSequence < MaxSequence /\ nextSequence' = nextSequence + 1
      /\ saved' = Append(saved, t) /\ Epoch' = Epoch /\ Epoch \in 0 .. MaxResets
  BY <1>1, EpochFacts, ConfigAssumption DEF Save, TypeOK, Epoch, budget
<1>3. e \in Events /\ e.sequence = nextSequence + 1 /\ e.tenant = t /\ e.epoch = Epoch
  BY <1>2, ConfigAssumption DEF Events
<1>4. n \in Nat /\ n <= nextSequence /\ n <= Retention /\ Retention \in Nat \ {0}
  BY <1>1, LenProperties, ConfigAssumption DEF TypeOK, StoreMatchesLog
<1>5. /\ a \in Seq(Events) /\ Len(a) = n + 1
      /\ \A i \in 1 .. n : a[i] = events[i]
      /\ a[n + 1] = e
  <2>1. events \in Seq(Events)
    BY <1>1 DEF TypeOK
  <2> HIDE DEF e
  <2> QED  BY <2>1, <1>3, AppendProperties
<1>6. /\ Len(saved) = nextSequence
      /\ \A i \in 1 .. nextSequence : saved'[i] = saved[i]
      /\ saved'[nextSequence + 1] = t
  <2>1. saved \in Seq(Tenants) /\ Len(saved) = nextSequence
    BY <1>1 DEF TypeOK
  <2> QED  BY <2>1, <1>2, AppendProperties
<1>7. \A i \in 1 .. n + 1 :
         /\ a[i] \in Events
         /\ a[i].sequence = nextSequence - n + i /\ a[i].epoch = Epoch
         /\ a[i].tenant = saved'[a[i].sequence]
  <2> HIDE DEF e
  <2> SUFFICES ASSUME NEW i \in 1 .. n + 1
               PROVE  /\ a[i] \in Events
                      /\ a[i].sequence = nextSequence - n + i /\ a[i].epoch = Epoch
                      /\ a[i].tenant = saved'[a[i].sequence]
    OBVIOUS
  <2>0. a[i] \in Events
    BY <1>5, ElementOfSeq
  <2> HIDE DEF a
  <2>1. CASE i = n + 1
    <3>1. nextSequence - n + i = nextSequence + 1
      BY <2>1, <1>2, <1>4
    <3> QED  BY <2>0, <2>1, <3>1, <1>3, <1>5, <1>6
  <2>2. CASE i # n + 1
    <3>1. i \in 1 .. n /\ a[i] = events[i]
      BY <2>2, <1>4, <1>5
    <3>2. /\ events[i].sequence = nextSequence - n + i /\ events[i].epoch = Epoch
          /\ events[i].tenant = saved[events[i].sequence]
      BY <3>1, <1>1 DEF StoreMatchesLog
    <3>3. nextSequence - n + i \in 1 .. nextSequence
      BY <3>1, <1>2, <1>4
    <3> QED  BY <2>0, <3>1, <3>2, <3>3, <1>6
  <2> QED  BY <2>1, <2>2
<1>8. \A i \in 1 .. nextSequence - n : i <= evictedThrough[saved'[i]]
  <2>1. \A i \in 1 .. nextSequence - n : i \in 1 .. nextSequence
    BY <1>2, <1>4
  <2> QED  BY <2>1, <1>1, <1>6 DEF StoreMatchesLog
<1>9. evictedThrough \in [Tenants -> 0 .. nextSequence + 1]
  <2>1. 0 .. nextSequence \subseteq 0 .. nextSequence + 1
    BY <1>2
  <2> QED  BY <2>1, <1>1 DEF TypeOK
<1>10. IF n + 1 - Retention > 0
       THEN /\ events' = SubSeq(a, n + 1 - Retention + 1, Len(a))
            /\ evictedThrough' = [evictedThrough EXCEPT ![a[1].tenant] = a[1].sequence]
       ELSE events' = a /\ evictedThrough' = evictedThrough
  <2>1. Excess(a) = n + 1 - Retention
    <3> HIDE DEF a, e
    <3>1. Len(a) = n + 1
      BY <1>5
    <3> HIDE DEF n
    <3> QED  BY <1>4, <3>1 DEF Excess
  <2> QED  BY <2>1 DEF Save
<1> HIDE DEF a, e
<1>11. CASE n + 1 - Retention > 0
  <2>1. n = Retention
    BY <1>4, <1>11
  <2>2. events' = SubSeq(a, 2, n + 1)
    <3>1. n + 1 - Retention + 1 = 2
      BY <2>1, <1>4
    <3> QED  BY <3>1, <1>5, <1>10, <1>11
  <2>3. /\ events' \in Seq(Events) /\ Len(events') = n
        /\ \A i \in 1 .. n : events'[i] = a[i + 1]
    <3>1. \A i \in 2 .. n + 1 : a[i] \in Events
      BY <1>4, <1>7
    <3>2. /\ SubSeq(a, 2, n + 1) \in Seq(Events)
          /\ Len(SubSeq(a, 2, n + 1)) = IF 2 <= n + 1 THEN n + 1 - 2 + 1 ELSE 0
          /\ \A i \in 1 .. n + 1 - 2 + 1 : SubSeq(a, 2, n + 1)[i] = a[2 + i - 1]
      <4>1. 2 \in Int /\ n + 1 \in Int
        BY <1>4
      <4> QED  BY <3>1, <4>1, SubSeqProperties
    <3>3. n + 1 - 2 + 1 = n /\ 2 <= n + 1 /\ \A i \in 1 .. n : 2 + i - 1 = i + 1
      BY <2>1, <1>4
    <3> QED  BY <2>2, <3>2, <3>3
  <2>4. /\ a[1].sequence = nextSequence - n + 1 /\ a[1].tenant = saved'[a[1].sequence]
        /\ a[1].tenant \in Tenants
    <3>1. 1 \in 1 .. n + 1
      BY <1>4
    <3> QED  BY <3>1, <1>7, NumberedFacts
  <2>5. evictedThrough' = [evictedThrough EXCEPT ![a[1].tenant] = nextSequence - n + 1]
    BY <2>4, <1>10, <1>11
  <2>6. evictedThrough' \in [Tenants -> 0 .. nextSequence']
    <3>1. nextSequence - n + 1 \in 0 .. nextSequence + 1
      BY <1>2, <1>4
    <3> QED  BY <2>5, <3>1, <1>2, <1>9
  <2>7. \A i \in 1 .. n :
           /\ events'[i].sequence = nextSequence' - n + i
           /\ events'[i].epoch = Epoch
           /\ events'[i].tenant = saved'[events'[i].sequence]
    <3> SUFFICES ASSUME NEW i \in 1 .. n
                 PROVE  /\ events'[i].sequence = nextSequence' - n + i
                        /\ events'[i].epoch = Epoch
                        /\ events'[i].tenant = saved'[events'[i].sequence]
      OBVIOUS
    <3>1. i + 1 \in 1 .. n + 1 /\ nextSequence - n + (i + 1) = nextSequence' - n + i
      BY <1>2, <1>4
    <3> QED  BY <3>1, <2>3, <1>7
  <2>8. ASSUME NEW i \in 1 .. nextSequence' - n PROVE i <= evictedThrough'[saved'[i]]
    <3>1. i \in Nat /\ i <= nextSequence - n + 1
      BY <1>2, <1>4
    <3>2. CASE saved'[i] = a[1].tenant
      BY <3>1, <3>2, <2>4, <2>5, <1>9
    <3>3. CASE saved'[i] # a[1].tenant
      <4>1. i # nextSequence - n + 1
        BY <3>3, <2>4
      <4>2. i \in 1 .. nextSequence - n
        BY <4>1, <3>1, <1>2, <1>4
      <4>3. saved'[i] \in Tenants
        <5>1. i \in 1 .. nextSequence
          BY <4>2, <1>2, <1>4
        <5> QED  BY <5>1, <1>1, <1>6, ElementOfSeq DEF TypeOK
      <4> QED  BY <4>2, <4>3, <3>3, <2>5, <1>8, <1>9
    <3> QED  BY <3>2, <3>3
  <2>9. n <= nextSequence'
    BY <1>2, <1>4
  <2> QED  BY <2>3, <2>6, <2>7, <2>8, <2>9, <1>2, <1>4 DEF StoreMatchesLog
<1>12. CASE ~(n + 1 - Retention > 0)
  <2>1. events' = a /\ evictedThrough' = evictedThrough
    BY <1>10, <1>12
  <2>2. Len(events') = n + 1 /\ n + 1 <= Retention /\ n + 1 <= nextSequence'
    BY <2>1, <1>2, <1>4, <1>5, <1>12
  <2>3. nextSequence' - (n + 1) = nextSequence - n
    BY <1>2, <1>4
  <2> QED  BY <2>1, <2>2, <2>3, <1>2, <1>5, <1>7, <1>8, <1>9 DEF StoreMatchesLog
<1> QED  BY <1>11, <1>12

(* Save pushes to every subscriber of the tenant or, when its buffer is    *)
(* full, removes it and closes its channel.                                *)
LEMMA SavePreserves ==
    ASSUME IndInv, NEW t \in Tenants, Save(t)
    PROVE  IndInv'
<1> DEFINE e == [sequence |-> nextSequence + 1, tenant |-> t, epoch |-> Epoch]
           targets == {c \in subscribers : tenantOf[c] = t}
           slow == {c \in targets : Full(c)}
           pushed == targets \ slow
<1>1. TypeOK /\ HistoryTypeOK
  BY DEF IndInv
<1>2. /\ nextSequence \in Nat /\ nextSequence < MaxSequence /\ nextSequence' = nextSequence + 1
      /\ saved' = Append(saved, t) /\ Epoch' = Epoch /\ Epoch \in 0 .. MaxResets
      /\ channel' = [c \in Consumers |->
                        IF c \in pushed THEN Append(channel[c], e) ELSE channel[c]]
      /\ subscribers' = subscribers \ slow
      /\ closes' = [c \in Consumers |-> IF c \in slow THEN closes[c] + 1 ELSE closes[c]]
      /\ UNCHANGED <<tenantOf, phase, replay, expired, cursor, received, cursorEpoch, base,
                     excused, disconnects, resets>>
  BY <1>1, EpochFacts, ConfigAssumption
     DEF Save, Close, TypeOK, Epoch, budget, connVars, clientVars
<1>3. e \in Events /\ e.sequence = nextSequence + 1 /\ e.tenant = t /\ e.epoch = Epoch
  BY <1>2, ConfigAssumption DEF Events
<1>4. /\ slow \subseteq subscribers /\ pushed \subseteq subscribers /\ pushed \cap slow = {}
      /\ \A c \in pushed : tenantOf[c] = t /\ ~(Len(channel[c]) >= Buffer)
      /\ \A c \in subscribers : tenantOf[c] = t => c \in pushed \/ c \in slow
  BY DEF Full
<1> HIDE DEF e, targets, slow, pushed
<1>5. /\ Len(saved) = nextSequence /\ saved' \in Seq(Tenants) /\ Len(saved') = nextSequence + 1
      /\ \A i \in 1 .. nextSequence : saved'[i] = saved[i]
      /\ saved'[nextSequence + 1] = t
  <2>1. saved \in Seq(Tenants) /\ Len(saved) = nextSequence
    BY <1>1 DEF TypeOK
  <2> QED  BY <2>1, <1>2, AppendProperties
<1>6. \A c \in Consumers :
         /\ channel'[c] = IF c \in pushed THEN Append(channel[c], e) ELSE channel[c]
         /\ channel[c] \in Seq(Events)
         /\ channel'[c] \in Seq(Events)
         /\ Elems(channel'[c]) = IF c \in pushed THEN Elems(channel[c]) \cup {e} ELSE Elems(channel[c])
  BY <1>1, <1>2, <1>3, AppendFacts DEF TypeOK
<1>7. \A c \in Consumers : Queued(c)' = IF c \in pushed THEN Queued(c) \cup {e} ELSE Queued(c)
  BY <1>2, <1>6 DEF Queued
<1>8. TypeOK'
  <2>1. ASSUME NEW c \in Consumers PROVE Len(channel'[c]) <= Buffer
    <3>1. Len(channel[c]) \in Nat /\ Len(channel[c]) <= Buffer /\ Buffer \in Nat
      BY <1>1, <1>6, LenProperties, ConfigAssumption DEF TypeOK
    <3>2. CASE c \in pushed
      <4>1. channel'[c] = Append(channel[c], e) /\ channel[c] \in Seq(Events)
        BY <3>2, <1>6
      <4>2. Len(channel'[c]) = Len(channel[c]) + 1
        BY <4>1, <1>3, AppendFacts
      <4>3. ~(Len(channel[c]) >= Buffer)
        BY <3>2, <1>4
      <4> QED  BY <3>1, <4>2, <4>3
    <3>3. CASE c \notin pushed
      <4>1. channel'[c] = channel[c]
        BY <3>3, <1>6
      <4> QED  BY <3>1, <4>1
    <3> QED  BY <3>2, <3>3
  <2>2. channel' \in [Consumers -> Seq(Events)]
    BY <1>2, <1>6
  <2>3. subscribers' \subseteq Consumers /\ closes' \in [Consumers -> Nat]
    BY <1>1, <1>2 DEF TypeOK
  <2>4. nextSequence' \in 0 .. MaxSequence
    BY <1>2, ConfigAssumption
  <2>5. /\ events' \in Seq(Events) /\ Len(events') <= Retention
        /\ evictedThrough' \in [Tenants -> 0 .. nextSequence']
    BY SaveStore
  <2> QED  BY <2>1, <2>2, <2>3, <2>4, <2>5, <1>1, <1>2, <1>5 DEF TypeOK
<1>9. HistoryTypeOK'
  BY <1>1, <1>2 DEF HistoryTypeOK
<1>10. ChannelClosedOnce'
  BY <1>1, <1>2, <1>4 DEF IndInv, ChannelClosedOnce, TypeOK
<1>11. NoLeakedSubscription'
  BY <1>2 DEF IndInv, NoLeakedSubscription
<1>12. PhasesMatchQueues'
  <2>1. \A c \in Consumers : ~Connected(c) => c \notin pushed
    BY <1>1, <1>4 DEF IndInv, NoLeakedSubscription, Connected, TypeOK, Phases
  <2> QED  BY <2>1, <1>2, <1>6 DEF IndInv, PhasesMatchQueues, Connected
<1>13. QueuesInOrder'
  <2> SUFFICES ASSUME NEW c \in Consumers
               PROVE  InOrder(tenantOf[c], received[c], replay[c], channel'[c],
                              Stamp(cursor[c], cursorEpoch[c]), Stamp(nextSequence + 1, Epoch))
    BY <1>2 DEF QueuesInOrder
  <2> DEFINE at == Stamp(cursor[c], cursorEpoch[c])
             now == Stamp(nextSequence, Epoch)
             later == Stamp(nextSequence + 1, Epoch)
  <2>1. InOrder(tenantOf[c], received[c], replay[c], channel[c], at, now)
    BY DEF IndInv, QueuesInOrder
  <2>2. /\ Numbered(at) /\ Numbered(now) /\ Numbered(later)
        /\ now.sequence = nextSequence /\ now.epoch = Epoch
        /\ later.sequence = nextSequence + 1 /\ later.epoch = Epoch
    <3>1. cursor[c] \in Nat /\ cursorEpoch[c] \in Nat /\ nextSequence + 1 \in Nat /\ Epoch \in Nat
      BY <1>1, <1>2, ConfigAssumption DEF TypeOK, HistoryTypeOK
    <3> QED  BY <3>1, <1>2, NumberedFacts
  <2>3. received[c] \in Seq(Events) /\ replay[c] \in Seq(Events)
    BY <1>1 DEF TypeOK, HistoryTypeOK
  <2> HIDE DEF at, now, later
  <2>4. ~Before(later, now) /\ Before(now, e)
    BY <2>2, <1>2, <1>3 DEF Before
  <2>5. CASE c \in pushed
    <3>1. e.tenant = tenantOf[c] /\ later.sequence = e.sequence /\ later.epoch = e.epoch
      BY <2>2, <2>5, <1>3, <1>4
    <3>2. InOrder(tenantOf[c], received[c], replay[c], Append(channel[c], e), at, later)
      BY <2>1, <2>2, <2>3, <2>4, <3>1, <1>3, <1>6, InOrderPush
    <3> QED  BY <2>5, <3>2, <1>6 DEF at, later
  <2>6. CASE c \notin pushed
    <3>1. InOrder(tenantOf[c], received[c], replay[c], channel[c], at, later)
      BY <2>1, <2>2, <2>3, <2>4, <1>6, InOrderLater
    <3> QED  BY <2>6, <3>1, <1>6 DEF at, later
  <2> QED  BY <2>5, <2>6
<1>14. ASSUME NEW c \in Consumers, NEW f \in Elems(received[c]) \cup Queued(c), f.epoch = Epoch
       PROVE  f.sequence \in 1 .. nextSequence /\ saved[f.sequence] = f.tenant
  <2>1. f \in Events
    BY <1>1, ElemsType DEF Queued, TypeOK, HistoryTypeOK
  <2>2. f.sequence \in 1 .. MaxSequence
    BY <2>1 DEF Events
  <2>3. f.sequence <= nextSequence /\ saved[f.sequence] = f.tenant
    BY <1>14 DEF IndInv, QueuedIsLogged
  <2> QED  BY <2>2, <2>3, <1>2, ConfigAssumption
<1>15. QueuedIsLogged'
  <2> SUFFICES ASSUME NEW c \in Consumers, NEW f \in Elems(received[c]) \cup Queued(c)',
                      f.epoch = Epoch
               PROVE  f.sequence <= nextSequence + 1 /\ saved'[f.sequence] = f.tenant
    BY <1>2 DEF QueuedIsLogged
  <2>1. CASE f \in Elems(received[c]) \cup Queued(c)
    BY <2>1, <1>2, <1>5, <1>14
  <2>2. CASE f = e
    BY <2>2, <1>2, <1>3, <1>5
  <2> QED  BY <2>1, <2>2, <1>7
<1>16. OwedIsQueued'
  <2> SUFFICES ASSUME NEW c \in Consumers, Connected(c), ~expired[c],
                      NEW i \in 1 .. nextSequence + 1, saved'[i] = tenantOf[c], i > Owed(c),
                      c \in subscribers' \/ \E f \in Queued(c)' : f.epoch = Epoch /\ i <= f.sequence
               PROVE  Has(Elems(received[c]) \cup Queued(c)', i, Epoch)
    BY <1>2 DEF OwedIsQueued, Connected, Owed, Covers
  <2>0. c \notin subscribers' => Queued(c)' = Queued(c)
    BY <1>2, <1>4, <1>7
  <2>1. CASE i # nextSequence + 1
    <3>1. i \in 1 .. nextSequence /\ saved[i] = tenantOf[c]
      BY <2>1, <1>2, <1>5
    <3>2. c \in subscribers \/ \E f \in Queued(c) : f.epoch = Epoch /\ i <= f.sequence
      BY <2>0, <1>2
    <3>3. Has(Elems(received[c]) \cup Queued(c), i, Epoch)
      BY <3>1, <3>2 DEF IndInv, OwedIsQueued, Covers
    <3> QED  BY <3>3, <1>7 DEF Has
  <2>2. CASE i = nextSequence + 1
    <3>1. c \in subscribers'
      <4> SUFFICES ASSUME c \notin subscribers' PROVE FALSE
        OBVIOUS
      <4>1. PICK f \in Queued(c) : f.epoch = Epoch /\ i <= f.sequence
        BY <2>0
      <4>2. f.sequence \in 1 .. nextSequence
        BY <4>1, <1>14
      <4> QED  BY <2>2, <4>1, <4>2, <1>2
    <3>2. c \in pushed
      BY <2>2, <3>1, <1>2, <1>4, <1>5
    <3> QED  BY <2>2, <3>2, <1>3, <1>7 DEF Has
  <2> QED  BY <2>1, <2>2
<1>17. CursorIsEarned'
  <2> SUFFICES ASSUME NEW c \in Consumers, cursor[c] > 0, cursorEpoch[c] = Epoch,
                      NEW i \in 1 .. cursor[c], saved'[i] = tenantOf[c], i > Owed(c)
               PROVE  Has(Elems(received[c]), i, Epoch)
    BY <1>2 DEF CursorIsEarned, Owed, Covers
  <2>1. cursor[c] \in Nat /\ cursor[c] <= nextSequence
    <3>1. cursor[c] \in Nat
      BY <1>1, ConfigAssumption DEF TypeOK
    <3>2. ~Before(Stamp(nextSequence, Epoch), Stamp(cursor[c], cursorEpoch[c]))
      BY DEF IndInv, QueuesInOrder, InOrder
    <3> QED  BY <3>1, <3>2, <1>2 DEF Before, Stamp
  <2>2. i \in 1 .. nextSequence
    BY <2>1, <1>2
  <2> QED  BY <2>2, <1>5 DEF IndInv, CursorIsEarned, Covers
<1> QED  BY <1>8, <1>9, <1>10, <1>11, <1>12, <1>13, <1>15, <1>16, <1>17, SaveStore DEF IndInv

(* Reconcile: the cursor moves to the newest order listed, past everything *)
(* of this epoch that was sent.                                            *)
LEMMA ReconcilePreserves ==
    ASSUME IndInv, NEW c \in Consumers, Reconcile(c)
    PROVE  IndInv'
<1> DEFINE listed == {i \in 1 .. nextSequence : saved[i] = tenantOf[c]}
           last == IF listed = {} THEN 0 ELSE CHOOSE i \in listed : \A j \in listed : j <= i
<1>1. StoreMatchesLog' /\ Epoch' = Epoch
  BY StoreKept DEF IndInv, Reconcile, budget
<1>2. TypeOK /\ HistoryTypeOK
  BY DEF IndInv
<1>3. UNCHANGED <<events, nextSequence, evictedThrough, saved, subscribers, channel, closes,
                  tenantOf, replay, expired, received, excused, disconnects, resets>>
  BY DEF Reconcile, storeVars, budget
<1>4. /\ phase[c] = "expired"
      /\ phase' = [phase EXCEPT ![c] = "offline"]
      /\ cursor' = [cursor EXCEPT ![c] = last]
      /\ cursorEpoch' = [cursorEpoch EXCEPT ![c] = Epoch]
      /\ base' = [base EXCEPT ![c] = last]
  BY DEF Reconcile
<1>5. nextSequence \in Nat /\ nextSequence <= MaxSequence /\ Epoch \in 0 .. MaxResets
  BY <1>2, EpochFacts, ConfigAssumption DEF TypeOK
<1>6. last \in 0 .. nextSequence /\ \A j \in listed : j <= last
  <2>1. CASE listed = {}
    BY <2>1, <1>5
  <2>2. CASE listed # {}
    <3>1. listed \in SUBSET (1 .. nextSequence)
      OBVIOUS
    <3>2. \E x \in listed : \A y \in listed : y <= x
      <4> HIDE DEF listed
      <4> QED  BY <2>2, <3>1, <1>5, GreatestNumber
    <3>3. last \in listed /\ \A j \in listed : j <= last
      <4> HIDE DEF listed
      <4> QED  BY <2>2, <3>2
    <3> QED  BY <3>3, <1>5
  <2> QED  BY <2>1, <2>2
<1> HIDE DEF last
<1>7. /\ phase'[c] = "offline" /\ cursor'[c] = last /\ cursorEpoch'[c] = Epoch /\ base'[c] = last
      /\ \A d \in Consumers : d # c =>
            /\ phase'[d] = phase[d] /\ cursor'[d] = cursor[d]
            /\ cursorEpoch'[d] = cursorEpoch[d] /\ base'[d] = base[d]
  BY <1>2, <1>4 DEF TypeOK, HistoryTypeOK
<1>8. TypeOK'
  <2>1. cursor' \in [Consumers -> 0 .. MaxSequence]
    <3>1. last \in 0 .. MaxSequence
      BY <1>5, <1>6, ConfigAssumption
    <3> QED  BY <3>1, <1>2, <1>4 DEF TypeOK
  <2>2. phase' \in [Consumers -> Phases]
    BY <1>2, <1>4 DEF TypeOK, Phases
  <2> QED  BY <2>1, <2>2, <1>2, <1>3 DEF TypeOK
<1>9. HistoryTypeOK'
  <2>1. last \in Nat
    BY <1>5, <1>6
  <2> QED  BY <2>1, <1>2, <1>3, <1>4, <1>5 DEF HistoryTypeOK
<1>10. ChannelClosedOnce'
  BY <1>3 DEF IndInv, ChannelClosedOnce
<1>11. NoLeakedSubscription'
  <2>1. c \notin subscribers
    BY <1>4 DEF IndInv, NoLeakedSubscription
  <2> QED  BY <2>1, <1>2, <1>3, <1>7 DEF IndInv, NoLeakedSubscription, TypeOK
<1>12. replay[c] = <<>> /\ channel[c] = <<>>
  BY <1>4 DEF IndInv, PhasesMatchQueues, Connected
<1>13. PhasesMatchQueues'
  BY <1>3, <1>7, <1>12 DEF IndInv, PhasesMatchQueues, Connected
<1>14. QueuesInOrder'
  <2> SUFFICES ASSUME NEW d \in Consumers
               PROVE  InOrder(tenantOf[d], received[d], replay[d], channel[d],
                              Stamp(cursor'[d], cursorEpoch'[d]), Stamp(nextSequence, Epoch))
    BY <1>1, <1>3 DEF QueuesInOrder
  <2>1. CASE d # c
    BY <2>1, <1>7 DEF IndInv, QueuesInOrder
  <2>2. CASE d = c
    <3> DEFINE at == Stamp(cursor[c], cursorEpoch[c])
               new == Stamp(last, Epoch)
               now == Stamp(nextSequence, Epoch)
    <3>1. InOrder(tenantOf[c], received[c], <<>>, <<>>, at, now)
      BY <1>12 DEF IndInv, QueuesInOrder
    <3>2. /\ at.epoch = cursorEpoch[c] /\ at.sequence = cursor[c]
          /\ new.epoch = Epoch /\ new.sequence = last
          /\ now.epoch = Epoch /\ now.sequence = nextSequence
      BY DEF Stamp
    <3> HIDE DEF at, new, now
    <3>3. ~Before(now, new)
      BY <3>2, <1>5, <1>6 DEF Before
    <3>4. cursorEpoch[c] \in Nat /\ cursorEpoch[c] <= Epoch
      <4>1. cursorEpoch[c] \in Nat
        BY <1>2 DEF HistoryTypeOK
      <4>2. ~Before(now, at)
        BY <3>1 DEF InOrder
      <4> QED  BY <4>1, <4>2, <3>2, <1>5 DEF Before
    <3>5. ASSUME NEW e \in Elems(received[c]) PROVE ~Before(new, e)
      <4>1. e \in Events /\ Numbered(e)
        BY <1>2, ElemsType, NumberedFacts DEF HistoryTypeOK
      <4>2. ~Before(at, e) /\ e.tenant = tenantOf[c]
        BY <3>1 DEF InOrder
      <4>3. e.epoch <= cursorEpoch[c]
        BY <4>1, <4>2, <3>2, <3>4 DEF Before, Numbered
      <4>4. CASE e.epoch = Epoch
        <5>1. e.sequence <= nextSequence /\ saved[e.sequence] = tenantOf[c]
          BY <4>2, <4>4 DEF IndInv, QueuedIsLogged
        <5>2. e.sequence \in 1 .. nextSequence
          BY <4>1, <5>1, <1>5, ConfigAssumption DEF Events
        <5>3. e.sequence <= last
          BY <5>1, <5>2, <1>6
        <5> QED  BY <4>1, <4>4, <5>3, <3>2, <1>6 DEF Before, Numbered
      <4>5. CASE e.epoch # Epoch
        BY <4>1, <4>3, <4>5, <3>2, <3>4, <1>5 DEF Before, Numbered
      <4> QED  BY <4>4, <4>5
    <3>6. InOrder(tenantOf[c], received[c], <<>>, <<>>, new, now)
      BY <3>1, <3>3, <3>5, EmptyFacts DEF InOrder
    <3> QED  BY <2>2, <3>6, <1>7, <1>12 DEF new, now
  <2> QED  BY <2>1, <2>2
<1>15. QueuedIsLogged'
  BY <1>1, <1>3 DEF IndInv, QueuedIsLogged, Queued
<1>16. OwedIsQueued'
  <2> SUFFICES ASSUME NEW d \in Consumers, Connected(d)', ~expired[d]
               PROVE  Covers(tenantOf[d], saved, nextSequence, Epoch, Owed(d)', d \in subscribers,
                             Elems(received[d]) \cup Queued(d), Queued(d))
    BY <1>1, <1>3 DEF OwedIsQueued, Queued
  <2>1. d # c
    BY <1>7 DEF Connected
  <2>2. Connected(d) /\ Owed(d)' = Owed(d)
    BY <2>1, <1>3, <1>7 DEF Connected, Owed
  <2> QED  BY <2>2 DEF IndInv, OwedIsQueued
<1>17. CursorIsEarned'
  <2> SUFFICES ASSUME NEW d \in Consumers, cursor'[d] > 0, cursorEpoch'[d] = Epoch
               PROVE  Covers(tenantOf[d], saved, cursor'[d], Epoch, Owed(d)', TRUE,
                             Elems(received[d]), {})
    BY <1>1, <1>3 DEF CursorIsEarned
  <2>1. CASE d # c
    <3>1. Owed(d)' = Owed(d)
      BY <2>1, <1>3, <1>7 DEF Owed
    <3> QED  BY <2>1, <3>1, <1>7 DEF IndInv, CursorIsEarned
  <2>2. CASE d = c
    <3>1. Owed(c)' >= last /\ Owed(c)' \in Nat /\ last \in Nat
      BY <1>2, <1>3, <1>5, <1>6, <1>7 DEF Owed, HistoryTypeOK
    <3>2. \A i \in 1 .. last : ~(i > Owed(c)')
      BY <3>1
    <3> QED  BY <2>2, <3>2, <1>7 DEF Covers
  <2> QED  BY <2>1, <2>2
<1> QED  BY <1>1, <1>8, <1>9, <1>10, <1>11, <1>13, <1>14, <1>15, <1>16, <1>17 DEF IndInv

(* Reset starts an epoch: what is still queued belongs to an older one. *)
LEMMA ResetPreserves ==
    ASSUME IndInv, Reset
    PROVE  IndInv'
<1>1. TypeOK /\ HistoryTypeOK
  BY DEF IndInv
<1>2. /\ resets > 0 /\ resets' = resets - 1
      /\ closes' = [c \in Consumers |-> IF c \in subscribers THEN closes[c] + 1 ELSE closes[c]]
      /\ subscribers' = {}
      /\ events' = <<>> /\ nextSequence' = 0 /\ saved' = <<>>
      /\ evictedThrough' = [t \in Tenants |-> 0]
      /\ base' = [c \in Consumers |-> 0]
      /\ excused' = [c \in Consumers |-> 0]
      /\ UNCHANGED <<channel, tenantOf, phase, replay, expired, cursor, cursorEpoch, received,
                     disconnects>>
  BY DEF Reset, Close, connVars
<1>3. Epoch \in Nat /\ Epoch' = Epoch + 1 /\ resets' \in 0 .. MaxResets
  BY <1>1, <1>2, EpochFacts, ConfigAssumption DEF HistoryTypeOK, Epoch
<1>4. TypeOK'
  <2>1. nextSequence' \in 0 .. MaxSequence /\ Len(events') <= Retention /\ Len(saved') = nextSequence'
    BY <1>2, EmptyFacts, ConfigAssumption
  <2>2. events' \in Seq(Events) /\ saved' \in Seq(Tenants)
    BY <1>2
  <2>3. evictedThrough' \in [Tenants -> 0 .. nextSequence'] /\ closes' \in [Consumers -> Nat]
    BY <1>1, <1>2 DEF TypeOK
  <2> QED  BY <2>1, <2>2, <2>3, <1>1, <1>2 DEF TypeOK
<1>5. HistoryTypeOK'
  BY <1>1, <1>2, <1>3 DEF HistoryTypeOK
<1>6. ChannelClosedOnce' /\ NoLeakedSubscription'
  BY <1>1, <1>2 DEF IndInv, ChannelClosedOnce, NoLeakedSubscription, TypeOK
<1>7. StoreMatchesLog'
  BY <1>2, EmptyFacts DEF StoreMatchesLog
<1>8. PhasesMatchQueues'
  BY <1>2 DEF IndInv, PhasesMatchQueues, Connected
<1>9. ASSUME NEW c \in Consumers
      PROVE  /\ InOrder(tenantOf[c], received[c], replay[c], channel[c],
                        Stamp(cursor[c], cursorEpoch[c]), Stamp(nextSequence, Epoch))
             /\ InOrder(tenantOf[c], received[c], replay[c], channel[c],
                        Stamp(cursor[c], cursorEpoch[c]), Stamp(0, Epoch + 1))
             /\ cursorEpoch[c] \in Nat /\ cursorEpoch[c] <= Epoch
             /\ \A e \in Elems(received[c]) \cup Queued(c) : e.epoch <= Epoch /\ e.epoch \in Int
  <2> DEFINE at == Stamp(cursor[c], cursorEpoch[c])
             now == Stamp(nextSequence, Epoch)
             later == Stamp(0, Epoch + 1)
  <2>1. InOrder(tenantOf[c], received[c], replay[c], channel[c], at, now)
    BY DEF IndInv, QueuesInOrder
  <2>2. /\ received[c] \in Seq(Events) /\ replay[c] \in Seq(Events) /\ channel[c] \in Seq(Events)
        /\ cursor[c] \in Nat /\ cursorEpoch[c] \in Nat /\ nextSequence \in Nat
    BY <1>1, ConfigAssumption DEF TypeOK, HistoryTypeOK
  <2>3. /\ Numbered(at) /\ Numbered(now) /\ Numbered(later)
        /\ at.epoch = cursorEpoch[c] /\ now.epoch = Epoch /\ later.epoch = Epoch + 1
    <3>1. 0 \in Nat /\ Epoch + 1 \in Nat
      BY <1>3
    <3> QED  BY <2>2, <3>1, <1>3, NumberedFacts
  <2>4. \A e \in Elems(received[c]) \cup Queued(c) : Numbered(e)
    BY <2>2, ElemsType, NumberedFacts DEF Queued
  <2> HIDE DEF at, now, later
  <2>5. ~Before(later, now)
    BY <2>3, <1>3 DEF Before, Numbered
  <2>6. InOrder(tenantOf[c], received[c], replay[c], channel[c], at, later)
    BY <2>1, <2>2, <2>3, <2>5, InOrderLater
  <2>7. ~Before(now, at)
    BY <2>1 DEF InOrder
  <2>8. cursorEpoch[c] <= Epoch
    BY <2>2, <2>3, <2>7, <1>3 DEF Before, Numbered
  <2>9. ASSUME NEW e \in Elems(received[c]) \cup Queued(c) PROVE ~Before(now, e)
    <3>1. CASE e \in Elems(received[c])
      BY <3>1, <2>1, <2>3, <2>4, <2>7, BeforeTransitive DEF InOrder
    <3>2. CASE e \in Queued(c)
      BY <3>2, <2>1 DEF InOrder, Queued
    <3> QED  BY <3>1, <3>2
  <2>10. \A e \in Elems(received[c]) \cup Queued(c) : e.epoch <= Epoch /\ e.epoch \in Int
    BY <2>3, <2>4, <2>9, <1>3 DEF Before, Numbered
  <2> QED  BY <2>1, <2>2, <2>6, <2>8, <2>10 DEF at, now, later
<1>10. QueuesInOrder'
  <2> SUFFICES ASSUME NEW c \in Consumers
               PROVE  InOrder(tenantOf[c], received[c], replay[c], channel[c],
                              Stamp(cursor[c], cursorEpoch[c]), Stamp(0, Epoch + 1))
    BY <1>2, <1>3 DEF QueuesInOrder
  <2> QED  BY <1>9
<1>11. QueuedIsLogged'
  <2> SUFFICES ASSUME NEW c \in Consumers, NEW e \in Elems(received[c]) \cup Queued(c),
                      e.epoch = Epoch + 1
               PROVE  FALSE
    BY <1>2, <1>3 DEF QueuedIsLogged, Queued
  <2> QED  BY <1>3, <1>9
<1>12. OwedIsQueued'
  <2>1. \A i \in 1 .. nextSequence' : FALSE
    BY <1>2
  <2> QED  BY <2>1 DEF OwedIsQueued, Covers
<1>13. CursorIsEarned'
  <2>1. \A c \in Consumers : cursorEpoch'[c] # Epoch'
    BY <1>2, <1>3, <1>9
  <2> QED  BY <2>1 DEF CursorIsEarned
<1> QED  BY <1>4, <1>5, <1>6, <1>7, <1>8, <1>10, <1>11, <1>12, <1>13 DEF IndInv

(* NewMemory, before anyone connects. *)
LEMMA InitIndInv == Init => IndInv
<1> SUFFICES ASSUME Init PROVE IndInv
  OBVIOUS
<1>1. TypeOK
  BY EmptyFacts, ConfigAssumption DEF Init, TypeOK, Phases
<1>2. HistoryTypeOK
  BY ConfigAssumption DEF Init, HistoryTypeOK
<1>3. ChannelClosedOnce /\ NoLeakedSubscription /\ PhasesMatchQueues
  BY DEF Init, ChannelClosedOnce, NoLeakedSubscription, PhasesMatchQueues, Connected
<1>4. StoreMatchesLog
  BY EmptyFacts DEF Init, StoreMatchesLog
<1>5. QueuesInOrder
  <2>1. Epoch = 0 /\ nextSequence = 0
    BY ConfigAssumption DEF Init, Epoch
  <2>2. ~Before(Stamp(0, 0), Stamp(0, 0))
    BY DEF Before, Stamp
  <2>3. \A t : InOrder(t, <<>>, <<>>, <<>>, Stamp(0, 0), Stamp(0, 0))
    BY <2>2, EmptyFacts DEF InOrder
  <2> QED  BY <2>1, <2>3 DEF Init, QueuesInOrder
<1>6. QueuedIsLogged
  BY EmptyFacts DEF Init, QueuedIsLogged, Queued
<1>7. OwedIsQueued
  BY DEF Init, OwedIsQueued, Connected
<1>8. CursorIsEarned
  BY DEF Init, CursorIsEarned
<1> QED  BY <1>1, <1>2, <1>3, <1>4, <1>5, <1>6, <1>7, <1>8 DEF IndInv

-----------------------------------------------------------------------------
(* Every reachable state of the store and its streams satisfies IndInv. *)
THEOREM Invariance == Spec => []IndInv
<1>1. IndInv /\ UNCHANGED vars => IndInv'
  <2> SUFFICES ASSUME IndInv, UNCHANGED vars PROVE IndInv'
    OBVIOUS
  <2>1. UNCHANGED <<events, nextSequence, evictedThrough, saved, subscribers, channel, closes,
                    tenantOf, phase, replay, expired, cursor, received, cursorEpoch, base, excused,
                    disconnects, resets>>
    BY DEF vars, storeVars, connVars, clientVars, budget
  <2> QED  BY <2>1 DEF IndInv, TypeOK, HistoryTypeOK, ChannelClosedOnce, NoLeakedSubscription,
                  StoreMatchesLog, PhasesMatchQueues, QueuesInOrder, QueuedIsLogged, OwedIsQueued,
                  CursorIsEarned, Epoch, Connected, Queued, Owed
<1>2. IndInv /\ [Next]_vars => IndInv'
  <2> SUFFICES ASSUME IndInv, Next PROVE IndInv'
    BY <1>1
  <2>1. ASSUME NEW t \in Tenants, Save(t) PROVE IndInv'
    BY <2>1, SavePreserves
  <2>2. ASSUME NEW c \in Consumers, SubscribeSince(c) PROVE IndInv'
    BY <2>2, SubscribePreserves
  <2>3. ASSUME NEW c \in Consumers, Handler(c) \/ Disconnect(c) PROVE IndInv'
    BY <2>3, HandlerPreserves
  <2>4. ASSUME NEW c \in Consumers, Reconcile(c) PROVE IndInv'
    BY <2>4, ReconcilePreserves
  <2>5. CASE Reset
    BY <2>5, ResetPreserves
  <2> QED  BY <2>1, <2>2, <2>3, <2>4, <2>5 DEF Next
<1> QED  BY <1>2, InitIndInv, PTL DEF Spec

(* The retention and the channel capacity bound what the store keeps and   *)
(* what waits for a consumer.                                              *)
THEOREM TypeCorrect == Spec => []TypeOK
<1>1. IndInv => TypeOK
  BY DEF IndInv
<1> QED  BY <1>1, Invariance, PTL

(* Whoever removes a subscription closes its channel, and nobody closes it *)
(* again or sends on it afterwards: Save, cancel and Reset never panic.    *)
THEOREM ClosedOnce == Spec => []ChannelClosedOnce
<1>1. IndInv => ChannelClosedOnce
  BY DEF IndInv
<1> QED  BY <1>1, Invariance, PTL

(* No handler that has returned is still in the subscriber map. *)
THEOREM NoLeak == Spec => []NoLeakedSubscription
<1>1. IndInv => NoLeakedSubscription
  BY DEF IndInv
<1> QED  BY <1>1, Invariance, PTL

(* Over any number of reconnects a consumer is sent only its own tenant's  *)
(* events, in order and none twice between two resets.                     *)
THEOREM InOrderDelivery == Spec => []SentInOrder
<1>1. IndInv => SentInOrder
  <2> SUFFICES ASSUME IndInv, NEW c \in Consumers,
                      NEW i \in 1 .. Len(received[c]), NEW j \in 1 .. Len(received[c])
               PROVE  /\ received[c][i].tenant = tenantOf[c]
                      /\ i < j /\ received[c][i].epoch = received[c][j].epoch
                            => received[c][i].sequence < received[c][j].sequence
    BY DEF SentInOrder
  <2>1. /\ Sorted(received[c])
        /\ \A e \in Elems(received[c]) : e.tenant = tenantOf[c]
    BY DEF IndInv, QueuesInOrder, InOrder
  <2>2. received[c][i] \in Elems(received[c])
    BY DEF Elems
  <2>3. received[c][i] \in Events /\ received[c][j] \in Events
    BY ElementOfSeq DEF IndInv, HistoryTypeOK
  <2>4. Numbered(received[c][i]) /\ Numbered(received[c][j])
    BY <2>3, NumberedFacts
  <2>5. i < j => Before(received[c][i], received[c][j])
    BY <2>1 DEF Sorted
  <2> QED  BY <2>1, <2>2, <2>4, <2>5 DEF Before, Numbered
<1> QED  BY <1>1, Invariance, PTL

(* A connected consumer with nothing left to be sent has been sent all it  *)
(* was owed: no event falls between replay and subscription, into a full   *)
(* buffer or out of the retained window without a 409.                     *)
THEOREM NoGap == Spec => []NoSilentGap
<1>1. IndInv => NoSilentGap
  <2> SUFFICES ASSUME IndInv, NEW c \in Consumers, Drained(c)
               PROVE  SentAfter(c, Owed(c))
    BY DEF NoSilentGap, Owed
  <2>1. phase[c] = "live" /\ c \in subscribers /\ channel[c] = <<>>
    BY DEF Drained
  <2>2. replay[c] = <<>> /\ ~expired[c] /\ Connected(c)
    BY <2>1 DEF IndInv, PhasesMatchQueues, Connected
  <2>3. Queued(c) = {}
    BY <2>1, <2>2, EmptyFacts DEF Queued
  <2>4. Covers(tenantOf[c], saved, nextSequence, Epoch, Owed(c), c \in subscribers,
               Elems(received[c]) \cup Queued(c), Queued(c))
    BY <2>2 DEF IndInv, OwedIsQueued
  <2>5. Owed(c) \in Nat /\ nextSequence \in Nat
    BY ConfigAssumption DEF IndInv, HistoryTypeOK, TypeOK, Owed
  <2> SUFFICES ASSUME NEW i \in (Owed(c) + 1) .. nextSequence, saved[i] = tenantOf[c]
               PROVE  \E k \in 1 .. Len(received[c]) :
                         received[c][k].sequence = i /\ received[c][k].epoch = Epoch
    BY DEF SentAfter
  <2>6. i \in 1 .. nextSequence /\ i > Owed(c)
    BY <2>5
  <2>7. Has(Elems(received[c]), i, Epoch)
    BY <2>1, <2>3, <2>4, <2>6 DEF Covers
  <2> QED  BY <2>7 DEF Has, Elems
<1> QED  BY <1>1, Invariance, PTL
=============================================================================
