--------------------------- MODULE SchedulerProofs ---------------------------
(***************************************************************************)
(* Proofs about Scheduler: its types, the agreement of its indexes, its    *)
(* exclusive slots, and that it implements CaptureQueue.                   *)
(***************************************************************************)
EXTENDS Scheduler, SequenceTheorems, TLAPS

\* What a deque holds, and that it holds it once.
Elems(s) == {s[n] : n \in DOMAIN s}
Once(s)  == \A m, n \in DOMAIN s : s[m] = s[n] => m = n

-----------------------------------------------------------------------------
(* Deques *)

LEMMA Appended ==
  ASSUME NEW S, NEW s \in Seq(S), NEW e \in S
  PROVE  /\ Append(s, e) \in Seq(S) /\ Append(s, e) # <<>>
         /\ Elems(Append(s, e)) = Elems(s) \union {e}
         /\ Once(s) /\ e \notin Elems(s) => Once(Append(s, e))
<1> DEFINE t == Append(s, e)
<1>1. /\ t \in Seq(S) /\ t # <<>> /\ Len(t) = Len(s) + 1
      /\ \A i \in 1..Len(s) : t[i] = s[i]
      /\ t[Len(s) + 1] = e
  BY AppendProperties
<1>2. Len(s) \in Nat /\ DOMAIN s = 1..Len(s) /\ DOMAIN t = 1..(Len(s) + 1)
  BY <1>1, LenProperties
<1> HIDE DEF t
<1>3. Elems(t) = Elems(s) \union {e}
  <2>1. \A n \in DOMAIN t : t[n] \in Elems(s) \union {e}
    BY <1>1, <1>2 DEF Elems
  <2>2. \A n \in DOMAIN s : n \in DOMAIN t /\ t[n] = s[n]
    BY <1>1, <1>2
  <2>3. Len(s) + 1 \in DOMAIN t
    BY <1>2
  <2> QED
    BY <1>1, <2>1, <2>2, <2>3 DEF Elems
<1>4. Once(s) /\ e \notin Elems(s) => Once(t)
  BY <1>1, <1>2 DEF Elems, Once
<1> QED
  BY <1>1, <1>3, <1>4 DEF t

LEMMA Beheaded ==
  ASSUME NEW S, NEW s \in Seq(S), s # <<>>, Once(s)
  PROVE  /\ Tail(s) \in Seq(S) /\ Once(Tail(s))
         /\ Head(s) \in Elems(s) /\ Elems(Tail(s)) = Elems(s) \ {Head(s)}
         /\ Tail(s) = <<>> <=> Len(s) = 1
<1> DEFINE t == Tail(s)
<1>1. /\ t \in Seq(S) /\ Len(t) = Len(s) - 1 /\ \A i \in 1..Len(t) : t[i] = s[i + 1]
  BY HeadTailProperties
<1>2. Len(s) \in Nat \ {0} /\ DOMAIN s = 1..Len(s) /\ DOMAIN t = 1..(Len(s) - 1)
  BY <1>1, LenProperties, EmptySeq
<1>3. Head(s) = s[1]
  OBVIOUS
<1>4. t = <<>> <=> Len(s) = 1
  BY <1>1, <1>2, EmptySeq
<1> HIDE DEF t
<1>5. Once(t)
  BY <1>1, <1>2 DEF Once
<1>6. Elems(t) = Elems(s) \ {s[1]}
  <2>1. \A n \in DOMAIN t : t[n] \in Elems(s) \ {s[1]}
    <3> TAKE n \in DOMAIN t
    <3>1. n + 1 \in DOMAIN s /\ 1 \in DOMAIN s /\ n + 1 # 1 /\ t[n] = s[n + 1]
      BY <1>1, <1>2
    <3>2. s[n + 1] # s[1]
      BY <3>1 DEF Once
    <3> QED
      BY <3>1, <3>2 DEF Elems
  <2>2. \A n \in DOMAIN s : n # 1 => n - 1 \in DOMAIN t /\ t[n - 1] = s[n]
    BY <1>1, <1>2
  <2> QED
    BY <2>1, <2>2 DEF Elems
<1>7. s[1] \in Elems(s)
  BY <1>2 DEF Elems
<1> QED
  BY <1>1, <1>3, <1>4, <1>5, <1>6, <1>7 DEF t

\* Place k is taken out; the two sides may be put together in either order.
LEMMA Spliced ==
  ASSUME NEW S, NEW s \in Seq(S), NEW k \in DOMAIN s, Once(s),
         NEW t, \/ t = SubSeq(s, 1, k - 1) \o SubSeq(s, k + 1, Len(s))
                \/ t = SubSeq(s, k + 1, Len(s)) \o SubSeq(s, 1, k - 1)
  PROVE  /\ t \in Seq(S) /\ Once(t) /\ Elems(t) = Elems(s) \ {s[k]}
         /\ t = <<>> <=> Len(s) = 1
<1>1. Len(s) \in Nat /\ DOMAIN s = 1..Len(s) /\ \A i \in 1..Len(s) : s[i] \in S
  BY LenProperties, ElementOfSeq
<1>2. k \in 1..Len(s)
  BY <1>1
<1> DEFINE u == SubSeq(s, 1, k - 1)
           v == SubSeq(s, k + 1, Len(s))
<1>3. u \in Seq(S) /\ Len(u) = k - 1 /\ \A i \in 1..(k - 1) : u[i] = s[i]
  <2>1. \A i \in 1..(k - 1) : s[i] \in S
    BY <1>1, <1>2
  <2>2. 1 \in Int /\ k - 1 \in Int
    BY <1>1, <1>2
  <2>3. /\ u \in Seq(S) /\ Len(u) = (IF 1 <= k - 1 THEN k - 1 - 1 + 1 ELSE 0)
        /\ \A i \in 1..(k - 1 - 1 + 1) : u[i] = s[1 + i - 1]
    BY <2>1, <2>2, SubSeqProperties
  <2>4. \A i \in 1..(k - 1) : i \in 1..(k - 1 - 1 + 1) /\ 1 + i - 1 = i
    BY <1>1, <1>2
  <2>5. \A i \in 1..(k - 1) : u[i] = s[i]
    BY <2>3, <2>4
  <2>6. Len(u) = k - 1
    BY <1>1, <1>2, <2>3
  <2>7. u \in Seq(S)
    BY <2>3
  <2> HIDE DEF u
  <2> QED
    BY <2>5, <2>6, <2>7
<1>4. v \in Seq(S) /\ Len(v) = Len(s) - k /\ \A i \in 1..(Len(s) - k) : v[i] = s[k + i]
  <2>1. \A i \in (k + 1)..Len(s) : s[i] \in S
    BY <1>1, <1>2
  <2>2. k + 1 \in Int /\ Len(s) \in Int
    BY <1>1, <1>2
  <2>3. /\ v \in Seq(S) /\ Len(v) = (IF k + 1 <= Len(s) THEN Len(s) - (k + 1) + 1 ELSE 0)
        /\ \A i \in 1..(Len(s) - (k + 1) + 1) : v[i] = s[k + 1 + i - 1]
    BY <2>1, <2>2, SubSeqProperties
  <2>4. \A i \in 1..(Len(s) - k) : i \in 1..(Len(s) - (k + 1) + 1) /\ k + 1 + i - 1 = k + i
    BY <1>1, <1>2
  <2>5. \A i \in 1..(Len(s) - k) : v[i] = s[k + i]
    BY <2>3, <2>4
  <2>6. Len(v) = Len(s) - k
    <3>1. k \in Int /\ Len(s) \in Int /\ k <= Len(s)
      BY <1>1, <1>2
    <3>2. (IF k + 1 <= Len(s) THEN Len(s) - (k + 1) + 1 ELSE 0) = Len(s) - k
      BY <3>1
    <3> QED
      BY <2>3, <3>2
  <2>7. v \in Seq(S)
    BY <2>3
  <2> HIDE DEF v
  <2> QED
    BY <2>5, <2>6, <2>7
<1> HIDE DEF u, v
<1>5. t = u \o v \/ t = v \o u
  BY DEF u, v
\* Where the element at a place of t comes from.
<1>6. /\ t \in Seq(S) /\ Len(t) = Len(s) - 1 /\ DOMAIN t = 1..(Len(s) - 1)
      /\ \/ \A i \in 1..(Len(s) - 1) : t[i] = s[IF i < k THEN i ELSE i + 1]
         \/ \A i \in 1..(Len(s) - 1) :
              t[i] = s[IF i <= Len(s) - k THEN k + i ELSE i - (Len(s) - k)]
  <2>1. CASE t = u \o v
    <3>1. /\ t \in Seq(S) /\ Len(t) = Len(u) + Len(v)
          /\ \A i \in 1..(Len(u) + Len(v)) :
               t[i] = IF i <= Len(u) THEN u[i] ELSE v[i - Len(u)]
      BY <1>3, <1>4, <2>1, ConcatProperties
    <3>2. DOMAIN t = 1..Len(t)
      BY <3>1, LenProperties
    <3>3. Len(u) + Len(v) = Len(s) - 1
      BY <1>1, <1>2, <1>3, <1>4
    <3>4. ASSUME NEW i \in 1..(Len(s) - 1) PROVE t[i] = s[IF i < k THEN i ELSE i + 1]
      <4>1. t[i] = IF i <= Len(u) THEN u[i] ELSE v[i - Len(u)]
        BY <3>1, <3>3
      <4>2. CASE i < k
        BY <1>1, <1>2, <1>3, <4>1, <4>2
      <4>3. CASE ~(i < k)
        <5>1. i - Len(u) \in 1..(Len(s) - k) /\ k + (i - Len(u)) = i + 1 /\ ~(i <= Len(u))
          BY <1>1, <1>2, <1>3, <4>3
        <5> QED
          BY <1>4, <4>1, <4>3, <5>1
      <4> QED
        BY <4>2, <4>3
    <3> QED
      BY <3>1, <3>2, <3>3, <3>4
  <2>2. CASE t = v \o u
    <3>1. /\ t \in Seq(S) /\ Len(t) = Len(v) + Len(u)
          /\ \A i \in 1..(Len(v) + Len(u)) :
               t[i] = IF i <= Len(v) THEN v[i] ELSE u[i - Len(v)]
      BY <1>3, <1>4, <2>2, ConcatProperties
    <3>2. DOMAIN t = 1..Len(t)
      BY <3>1, LenProperties
    <3>3. Len(v) + Len(u) = Len(s) - 1
      BY <1>1, <1>2, <1>3, <1>4
    <3>4. ASSUME NEW i \in 1..(Len(s) - 1)
          PROVE  t[i] = s[IF i <= Len(s) - k THEN k + i ELSE i - (Len(s) - k)]
      <4>1. t[i] = IF i <= Len(v) THEN v[i] ELSE u[i - Len(v)]
        BY <3>1, <3>3
      <4>2. CASE i <= Len(s) - k
        BY <1>1, <1>2, <1>4, <4>1, <4>2
      <4>3. CASE ~(i <= Len(s) - k)
        <5>1. i - Len(v) \in 1..(k - 1) /\ i - Len(v) = i - (Len(s) - k) /\ ~(i <= Len(v))
          BY <1>1, <1>2, <1>4, <4>3
        <5> QED
          BY <1>3, <4>1, <4>3, <5>1
      <4> QED
        BY <4>2, <4>3
    <3> QED
      BY <3>1, <3>2, <3>3, <3>4
  <2> QED
    BY <1>5, <2>1, <2>2
<1>7. t = <<>> <=> Len(s) = 1
  BY <1>1, <1>6, EmptySeq
<1>8. PICK g \in [1..(Len(s) - 1) -> Int] :
        /\ \A i \in 1..(Len(s) - 1) : g[i] \in 1..Len(s) /\ g[i] # k /\ t[i] = s[g[i]]
        /\ \A i, j \in 1..(Len(s) - 1) : g[i] = g[j] => i = j
        /\ \A n \in 1..Len(s) : n # k => \E i \in 1..(Len(s) - 1) : g[i] = n
  <2>1. CASE \A i \in 1..(Len(s) - 1) : t[i] = s[IF i < k THEN i ELSE i + 1]
    <3> DEFINE f == [i \in 1..(Len(s) - 1) |-> IF i < k THEN i ELSE i + 1]
    <3>1. \A i \in 1..(Len(s) - 1) : f[i] \in 1..Len(s) /\ f[i] # k
      BY <1>1, <1>2
    <3>2. \A i, j \in 1..(Len(s) - 1) : f[i] = f[j] => i = j
      BY <1>1, <1>2
    <3>3. ASSUME NEW n \in 1..Len(s), n # k PROVE \E i \in 1..(Len(s) - 1) : f[i] = n
      <4> DEFINE i == IF n < k THEN n ELSE n - 1
      <4>1. i \in 1..(Len(s) - 1) /\ f[i] = n
        BY <1>1, <1>2, <3>3
      <4> QED
        BY <4>1
    <3>4. f \in [1..(Len(s) - 1) -> Int] /\ \A i \in 1..(Len(s) - 1) : t[i] = s[f[i]]
      BY <1>1, <1>2, <2>1
    <3> HIDE DEF f
    <3> QED
      BY <3>1, <3>2, <3>3, <3>4
  <2>2. CASE \A i \in 1..(Len(s) - 1) :
               t[i] = s[IF i <= Len(s) - k THEN k + i ELSE i - (Len(s) - k)]
    <3> DEFINE f == [i \in 1..(Len(s) - 1) |->
                       IF i <= Len(s) - k THEN k + i ELSE i - (Len(s) - k)]
    <3>1. \A i \in 1..(Len(s) - 1) : f[i] \in 1..Len(s) /\ f[i] # k
      BY <1>1, <1>2, SMTT(30)
    <3>2. \A i, j \in 1..(Len(s) - 1) : f[i] = f[j] => i = j
      BY <1>1, <1>2
    <3>3. ASSUME NEW n \in 1..Len(s), n # k PROVE \E i \in 1..(Len(s) - 1) : f[i] = n
      <4> DEFINE i == IF n > k THEN n - k ELSE n + (Len(s) - k)
      <4>1. i \in 1..(Len(s) - 1)
        BY <1>1, <1>2, <3>3, SMTT(30)
      <4>2. (IF i <= Len(s) - k THEN k + i ELSE i - (Len(s) - k)) = n
        BY <1>1, <1>2, <3>3
      <4> QED
        BY <4>1, <4>2
    <3>4. f \in [1..(Len(s) - 1) -> Int] /\ \A i \in 1..(Len(s) - 1) : t[i] = s[f[i]]
      BY <1>1, <1>2, <2>2
    <3> HIDE DEF f
    <3> QED
      BY <3>1, <3>2, <3>3, <3>4
  <2> QED
    BY <1>6, <2>1, <2>2
<1>9. Once(t)
  <2> SUFFICES ASSUME NEW i \in DOMAIN t, NEW j \in DOMAIN t, t[i] = t[j] PROVE i = j
    BY DEF Once
  <2>1. g[i] \in DOMAIN s /\ g[j] \in DOMAIN s /\ s[g[i]] = s[g[j]]
    BY <1>1, <1>6, <1>8
  <2>2. g[i] = g[j]
    BY <2>1 DEF Once
  <2> QED
    BY <1>6, <1>8, <2>2
<1>10. Elems(t) = Elems(s) \ {s[k]}
  <2>1. ASSUME NEW i \in DOMAIN t PROVE t[i] \in Elems(s) \ {s[k]}
    <3>1. g[i] \in DOMAIN s /\ g[i] # k /\ t[i] = s[g[i]]
      BY <1>1, <1>6, <1>8
    <3>2. s[g[i]] # s[k]
      BY <3>1 DEF Once
    <3> QED
      BY <3>1, <3>2 DEF Elems
  <2>2. ASSUME NEW n \in DOMAIN s, s[n] # s[k] PROVE \E i \in DOMAIN t : t[i] = s[n]
    <3>1. PICK i \in 1..(Len(s) - 1) : g[i] = n
      BY <1>1, <1>8, <2>2
    <3> QED
      BY <1>6, <1>8, <3>1
  <2> QED
    BY <2>1, <2>2, SMTT(30) DEF Elems
<1> QED
  BY <1>6, <1>7, <1>9, <1>10

\* RemoveAt, and the rotation of _next_job_locked, take a place out.
LEMMA TakenOut ==
  ASSUME NEW S, NEW s \in Seq(S), NEW k \in DOMAIN s, Once(s)
  PROVE  LET t == RemoveAt(s, k) IN
         /\ t \in Seq(S) /\ Once(t) /\ Elems(t) = Elems(s) \ {s[k]}
         /\ t = <<>> <=> Len(s) = 1
<1> DEFINE t == RemoveAt(s, k)
<1>1. t = SubSeq(s, 1, k - 1) \o SubSeq(s, k + 1, Len(s))
  BY DEF RemoveAt
<1> HIDE DEF t
<1>2. t \in Seq(S) /\ Once(t) /\ Elems(t) = Elems(s) \ {s[k]}
  BY <1>1, Spliced, ZenonT(60)
<1>3. t = <<>> <=> Len(s) = 1
  BY <1>1, Spliced
<1> QED
  BY <1>2, <1>3 DEF t

LEMMA TurnedAround ==
  ASSUME NEW S, NEW s \in Seq(S), NEW k \in DOMAIN s, Once(s)
  PROVE  LET t == SubSeq(s, k + 1, Len(s)) \o SubSeq(s, 1, k - 1) IN
         t \in Seq(S) /\ Once(t) /\ Elems(t) = Elems(s) \ {s[k]}
<1> DEFINE t == SubSeq(s, k + 1, Len(s)) \o SubSeq(s, 1, k - 1)
<1>1. t = SubSeq(s, k + 1, Len(s)) \o SubSeq(s, 1, k - 1)
  OBVIOUS
<1> HIDE DEF t
<1>2. t \in Seq(S) /\ Once(t) /\ Elems(t) = Elems(s) \ {s[k]}
  BY <1>1, Spliced, ZenonT(60)
<1> QED
  BY <1>2 DEF t

LEMMA IndexFound ==
  ASSUME NEW s, NEW e \in Elems(s)
  PROVE  IndexOf(s, e) \in DOMAIN s /\ s[IndexOf(s, e)] = e
BY DEF IndexOf, Elems

-----------------------------------------------------------------------------
(* The inductive invariant *)

PhaseSet  == {"scanning", "waiting", "dozing", "busy", "exited"}
QueueType == lanes \in [Lane -> Seq(Item)] /\ order \in [Priority -> Seq(Source)] /\ known \subseteq Item
SlotType  ==
  /\ active \subseteq Item /\ activeSources \subseteq Source /\ activeAuth \subseteq Auth
  /\ held \in [Worker -> Item \union {NoItem}]
RestType  ==
  /\ inbox \in Seq(Item) /\ phase \in [Worker -> PhaseSet]
  /\ paused \in BOOLEAN /\ stop \in {"no", "set", "told"}

\* A deque holds the known items of its lane, once each.
LanesInv == \A l \in Lane : Elems(lanes[l]) = {i \in known : LaneOf(i) = l} /\ Once(lanes[l])

\* The rotation of a priority holds the sources with waiting items, once each.
OrderInv ==
  \A p \in Priority :
    Elems(order[p]) = {s \in Source : lanes[<<p, s>>] # <<>>} /\ Once(order[p])

JobsInv ==
  /\ \A i, k \in known \union active : i.job = k.job => i = k
  /\ known \intersect active = {}

\* IndexesAgree in terms of what the deques hold, and the two other invariants:
\* none of the three is inductive alone, since a worker takes what the indexes
\* say and the indexes are unique because what is active is not enqueued.
IInv == QueueType /\ SlotType /\ RestType /\ LanesInv /\ OrderInv /\ JobsInv /\ ExclusiveSlots

LEMMA ItemParts ==
  ASSUME NEW i \in Item
  PROVE  /\ i.priority \in Priority /\ i.source \in Source /\ i.auth \in Auth /\ i.job \in Job
         /\ LaneOf(i) \in Lane /\ LaneOf(i) = <<i.priority, i.source>>
BY DEF Priority, Source, Auth, Job, LaneOf, Lane

LEMMA LaneParts ==
  /\ \A p \in Priority, s \in Source : <<p, s>> \in Lane
  /\ \A l \in Lane : \E p \in Priority, s \in Source : l = <<p, s>>
BY DEF Lane

\* A deque is empty when it holds nothing.
LEMMA EmptyElems == ASSUME NEW S, NEW s \in Seq(S) PROVE s = <<>> <=> Elems(s) = {}
<1>1. Len(s) \in Nat /\ DOMAIN s = 1..Len(s)
  BY LenProperties
<1>2. s = <<>> <=> Len(s) = 0
  BY <1>1, EmptySeq
<1>3. Elems(s) = {} <=> DOMAIN s = {}
  BY DEF Elems
<1>4. Len(s) # 0 => 1 \in DOMAIN s
  BY <1>1
<1>5. Len(s) = 0 => DOMAIN s = {}
  BY <1>1
<1> QED
  BY <1>2, <1>3, <1>4, <1>5

\* The indexes agree, as Scheduler says it.
LEMMA AgreeByInv == IInv => IndexesAgree
<1> SUFFICES ASSUME IInv PROVE IndexesAgree
  OBVIOUS
<1>1. \A l \in Lane : \A n \in DOMAIN lanes[l] : lanes[l][n] \in known /\ LaneOf(lanes[l][n]) = l
  BY DEF IInv, LanesInv, Elems
<1>2. \A i \in known : \E n \in DOMAIN lanes[LaneOf(i)] : lanes[LaneOf(i)][n] = i
  <2> TAKE i \in known
  <2>1. LaneOf(i) \in Lane
    BY ItemParts DEF IInv, QueueType
  <2>2. i \in Elems(lanes[LaneOf(i)])
    BY <2>1 DEF IInv, LanesInv
  <2> QED
    BY <2>2 DEF Elems
<1>3. \A l \in Lane : \A m, n \in DOMAIN lanes[l] : lanes[l][m] = lanes[l][n] => m = n
  BY DEF IInv, LanesInv, Once
<1>4. \A p \in Priority, s \in Source :
        lanes[<<p, s>>] # <<>> <=> \E n \in DOMAIN order[p] : order[p][n] = s
  BY ZenonT(60) DEF IInv, OrderInv, Elems
<1>5. \A p \in Priority : \A m, n \in DOMAIN order[p] : order[p][m] = order[p][n] => m = n
  BY DEF IInv, OrderInv, Once
<1> QED
  BY <1>1, <1>2, <1>3, <1>4, <1>5 DEF IInv, JobsInv, IndexesAgree

LEMMA TypesByInv == IInv => TypeOK
BY DEF IInv, QueueType, SlotType, RestType, PhaseSet, TypeOK

-----------------------------------------------------------------------------
(* Parts of a step *)

\* An item leaves its deque, and its source the rotation if the deque is empty then.
LEMMA Shrinks ==
  ASSUME QueueType, LanesInv, OrderInv, NEW i \in known, NEW d \in Seq(Item), NEW o \in Seq(Source),
         Once(d), Elems(d) = Elems(lanes[LaneOf(i)]) \ {i}, Once(o),
         Elems(o) = IF d = <<>> THEN Elems(order[i.priority]) \ {i.source}
                                ELSE Elems(order[i.priority]),
         lanes' = [lanes EXCEPT ![LaneOf(i)] = d],
         order' = [order EXCEPT ![i.priority] = o],
         known' = known \ {i}
  PROVE  QueueType' /\ LanesInv' /\ OrderInv'
<1>1. /\ i \in Item /\ i.priority \in Priority /\ i.source \in Source
      /\ LaneOf(i) \in Lane /\ LaneOf(i) = <<i.priority, i.source>>
  BY ItemParts DEF QueueType
<1>2. QueueType'
  BY <1>1 DEF QueueType
<1>3. \A l \in Lane : lanes'[l] = IF l = LaneOf(i) THEN d ELSE lanes[l]
  BY <1>1 DEF QueueType
<1>4. \A p \in Priority : order'[p] = IF p = i.priority THEN o ELSE order[p]
  BY <1>1 DEF QueueType
<1>5. LanesInv'
  <2> SUFFICES ASSUME NEW l \in Lane
               PROVE  Elems(lanes'[l]) = {k \in known' : LaneOf(k) = l} /\ Once(lanes'[l])
    BY DEF LanesInv
  <2>1. Elems(lanes[l]) = {k \in known : LaneOf(k) = l} /\ Once(lanes[l])
    BY DEF LanesInv
  <2>2. CASE l = LaneOf(i)
    BY <1>3, <2>1, <2>2
  <2>3. CASE l # LaneOf(i)
    BY <1>3, <2>1, <2>3
  <2> QED
    BY <2>2, <2>3
<1>6. OrderInv'
  <2> SUFFICES ASSUME NEW p \in Priority
               PROVE  /\ Elems(order'[p]) = {s \in Source : lanes'[<<p, s>>] # <<>>}
                      /\ Once(order'[p])
    BY DEF OrderInv
  <2>1. Elems(order[p]) = {s \in Source : lanes[<<p, s>>] # <<>>} /\ Once(order[p])
    BY DEF OrderInv
  <2>2. \A s \in Source : lanes'[<<p, s>>] = IF p = i.priority /\ s = i.source THEN d ELSE lanes[<<p, s>>]
    BY <1>1, <1>3, LaneParts
  <2>3. CASE p # i.priority
    BY <1>4, <2>1, <2>2, <2>3
  <2>4. CASE p = i.priority
    <3>1. i \in Elems(lanes[LaneOf(i)])
      BY <1>1 DEF LanesInv
    <3>2. lanes[<<p, i.source>>] # <<>>
      BY <1>1, <2>4, <3>1, EmptyElems DEF QueueType
    <3>3. order'[p] = o
      BY <1>4, <2>4
    <3>4. CASE d = <<>>
      BY <1>1, <2>1, <2>2, <2>4, <3>2, <3>3, <3>4
    <3>5. CASE d # <<>>
      BY <1>1, <2>1, <2>2, <2>4, <3>2, <3>3, <3>5
    <3> QED
      BY <3>4, <3>5
  <2> QED
    BY <2>3, <2>4
<1> QED
  BY <1>2, <1>5, <1>6

\* An unknown item enters its deque, and its source the rotation if it was empty.
LEMMA Grows ==
  ASSUME QueueType, LanesInv, OrderInv, NEW i \in Item, i \notin known,
         lanes' = [lanes EXCEPT ![LaneOf(i)] = Append(@, i)],
         order' = IF lanes[LaneOf(i)] = <<>>
                    THEN [order EXCEPT ![i.priority] = Append(@, i.source)]
                    ELSE order,
         known' = known \union {i}
  PROVE  QueueType' /\ LanesInv' /\ OrderInv'
<1>1. /\ i.priority \in Priority /\ i.source \in Source
      /\ LaneOf(i) \in Lane /\ LaneOf(i) = <<i.priority, i.source>>
  BY ItemParts
<1> DEFINE d == Append(lanes[LaneOf(i)], i)
           o == Append(order[i.priority], i.source)
<1>2. lanes[LaneOf(i)] \in Seq(Item) /\ order[i.priority] \in Seq(Source)
  BY <1>1 DEF QueueType
<1>3. /\ Elems(lanes[LaneOf(i)]) = {k \in known : LaneOf(k) = LaneOf(i)}
      /\ Once(lanes[LaneOf(i)]) /\ i \notin Elems(lanes[LaneOf(i)])
  BY <1>1 DEF LanesInv
<1>4. d \in Seq(Item) /\ d # <<>> /\ Elems(d) = Elems(lanes[LaneOf(i)]) \union {i} /\ Once(d)
  BY <1>2, <1>3, Appended
<1>5. o \in Seq(Source) /\ Elems(o) = Elems(order[i.priority]) \union {i.source}
      /\ (i.source \notin Elems(order[i.priority]) => Once(o))
  BY <1>1, <1>2, Appended DEF OrderInv
<1>6. lanes' = [lanes EXCEPT ![LaneOf(i)] = d]
  OBVIOUS
<1>7. order' = IF lanes[LaneOf(i)] = <<>> THEN [order EXCEPT ![i.priority] = o] ELSE order
  OBVIOUS
<1> HIDE DEF d, o
<1>8. QueueType'
  BY <1>1, <1>4, <1>5, <1>6, <1>7 DEF QueueType
<1>9. \A l \in Lane : lanes'[l] = IF l = LaneOf(i) THEN d ELSE lanes[l]
  BY <1>1, <1>6 DEF QueueType
<1>10. LanesInv'
  <2> SUFFICES ASSUME NEW l \in Lane
               PROVE  Elems(lanes'[l]) = {k \in known' : LaneOf(k) = l} /\ Once(lanes'[l])
    BY DEF LanesInv
  <2>1. Elems(lanes[l]) = {k \in known : LaneOf(k) = l} /\ Once(lanes[l])
    BY DEF LanesInv
  <2>2. CASE l = LaneOf(i)
    BY <1>4, <1>9, <2>1, <2>2
  <2>3. CASE l # LaneOf(i)
    BY <1>9, <2>1, <2>3
  <2> QED
    BY <2>2, <2>3
<1>11. OrderInv'
  <2> SUFFICES ASSUME NEW p \in Priority
               PROVE  /\ Elems(order'[p]) = {s \in Source : lanes'[<<p, s>>] # <<>>}
                      /\ Once(order'[p])
    BY DEF OrderInv
  <2>1. Elems(order[p]) = {s \in Source : lanes[<<p, s>>] # <<>>} /\ Once(order[p])
    BY DEF OrderInv
  <2>2. \A s \in Source : lanes'[<<p, s>>] = IF p = i.priority /\ s = i.source THEN d ELSE lanes[<<p, s>>]
    BY <1>1, <1>9, LaneParts
  <2>3. CASE p # i.priority
    <3>1. order'[p] = order[p]
      BY <1>1, <1>7, <2>3 DEF QueueType
    <3> QED
      BY <2>1, <2>2, <2>3, <3>1
  <2>4. CASE p = i.priority /\ lanes[LaneOf(i)] = <<>>
    <3>1. order'[p] = o
      BY <1>1, <1>7, <2>4 DEF QueueType
    <3>2. i.source \notin Elems(order[p])
      BY <1>1, <2>1, <2>4
    <3>3. Elems(o) = Elems(order[p]) \union {i.source} /\ Once(o)
      BY <1>5, <2>4, <3>2
    <3>4. \A s \in Source :
            lanes'[<<p, s>>] # <<>> <=> s \in Elems(order[p]) \/ s = i.source
      BY <1>4, <2>1, <2>2, <2>4
    <3>5. Elems(order'[p]) = {s \in Source : lanes'[<<p, s>>] # <<>>}
      BY <1>1, <2>1, <3>1, <3>3, <3>4
    <3> QED
      BY <3>1, <3>3, <3>5
  <2>5. CASE p = i.priority /\ lanes[LaneOf(i)] # <<>>
    <3>1. order'[p] = order[p]
      BY <1>7, <2>5
    <3>2. i.source \in Elems(order[p])
      BY <1>1, <2>1, <2>5
    <3>3. \A s \in Source : lanes'[<<p, s>>] # <<>> <=> s \in Elems(order[p])
      BY <1>4, <2>1, <2>2, <2>5, <3>2
    <3>4. Elems(order'[p]) = {s \in Source : lanes'[<<p, s>>] # <<>>}
      BY <2>1, <3>1, <3>3
    <3> QED
      BY <2>1, <3>1, <3>4
  <2> QED
    BY <2>3, <2>4, <2>5
<1> QED
  BY <1>8, <1>10, <1>11

\* notify_all leaves a busy worker alone, and makes nobody busy.
LEMMA NotifiedPhases ==
  ASSUME phase \in [Worker -> PhaseSet]
  PROVE  /\ Notified \in [Worker -> PhaseSet]
         /\ \A w \in Worker : Notified[w] = "busy" <=> phase[w] = "busy"
BY DEF Notified, PhaseSet

\* A step of a thread that neither takes nor releases anything.
LEMMA PhaseOnly ==
  ASSUME IInv, UNCHANGED queueVars, UNCHANGED activeVars, inbox' \in Seq(Item),
         phase' \in [Worker -> PhaseSet],
         \A w \in Worker : phase'[w] = "busy" <=> phase[w] = "busy",
         paused' \in BOOLEAN, stop' \in {"no", "set", "told"}
  PROVE  IInv'
<1>1. QueueType' /\ LanesInv' /\ OrderInv'
  BY DEF IInv, QueueType, LanesInv, OrderInv, queueVars
<1>2. SlotType' /\ RestType'
  BY DEF IInv, SlotType, RestType, activeVars
<1>3. JobsInv'
  BY DEF IInv, JobsInv, queueVars, activeVars
<1>4. ExclusiveSlots'
  BY DEF IInv, ExclusiveSlots, activeVars
<1> QED
  BY <1>1, <1>2, <1>3, <1>4 DEF IInv

-----------------------------------------------------------------------------
(* The steps *)

LEMMA InitInv == Init => IInv
<1> SUFFICES ASSUME Init PROVE IInv
  OBVIOUS
<1>1. QueueType
  <2>1. <<>> \in Seq(Item) /\ <<>> \in Seq(Source)
    OBVIOUS
  <2>2. lanes \in [Lane -> Seq(Item)]
    BY <2>1 DEF Init
  <2>3. order \in [Priority -> Seq(Source)]
    BY <2>1 DEF Init
  <2>4. known = {}
    BY DEF Init
  <2> QED
    BY <2>2, <2>3, <2>4 DEF QueueType
<1>2. SlotType /\ RestType
  <2>1. inbox \in Seq(Item)
    BY EmptySeq DEF Init
  <2> QED
    BY <2>1 DEF Init, SlotType, RestType, PhaseSet
<1>3. LanesInv
  BY DEF Init, LanesInv, Elems, Once
<1>4. \A p \in Priority, s \in Source : lanes[<<p, s>>] = <<>>
  BY LaneParts DEF Init
<1>5. OrderInv
  BY <1>4 DEF Init, OrderInv, Elems, Once
<1>6. JobsInv
  BY DEF Init, JobsInv
<1>7. ExclusiveSlots
  BY DEF Init, ExclusiveSlots
<1> QED
  BY <1>1, <1>2, <1>3, <1>5, <1>6, <1>7 DEF IInv

\* The rest of an enqueueing step.
LEMMA AdvanceRest ==
  ASSUME IInv, inbox # <<>>, Advance
  PROVE  /\ inbox' \in Seq(Item) /\ phase' \in [Worker -> PhaseSet]
         /\ \A w \in Worker : phase'[w] = "busy" <=> phase[w] = "busy"
         /\ UNCHANGED activeVars /\ paused' = paused /\ stop' = stop
<1>1. inbox \in Seq(Item) /\ phase \in [Worker -> PhaseSet]
  BY DEF IInv, RestType
<1>2. inbox' \in Seq(Item)
  BY <1>1, HeadTailProperties DEF Advance
<1>3. phase' = Notified \/ phase' = phase
  BY DEF Advance
<1> QED
  BY <1>1, <1>2, <1>3, NotifiedPhases DEF Advance

LEMMA EnqueueKeeps == IInv /\ Enqueue => IInv'
<1> SUFFICES ASSUME IInv, Enqueue PROVE IInv'
  OBVIOUS
<1> DEFINE i == Head(inbox)
<1>1. i \in Item
  BY HeadTailProperties DEF IInv, RestType, Enqueue
<1>2. /\ ~IsKnown(i)
      /\ lanes' = [lanes EXCEPT ![LaneOf(i)] = Append(@, i)]
      /\ order' = IF lanes[LaneOf(i)] = <<>>
                    THEN [order EXCEPT ![i.priority] = Append(@, i.source)]
                    ELSE order
      /\ known' = known \union {i}
  BY DEF Enqueue
<1> HIDE DEF i
<1>3. \A k \in known \union active : k.job # i.job
  BY <1>2 DEF IsKnown, Jobs
<1>4. i \notin known /\ i \notin active
  BY <1>3
<1>5. QueueType' /\ LanesInv' /\ OrderInv'
  BY <1>1, <1>2, <1>4, Grows DEF IInv
<1>6. /\ inbox' \in Seq(Item) /\ phase' \in [Worker -> PhaseSet]
      /\ \A w \in Worker : phase'[w] = "busy" <=> phase[w] = "busy"
      /\ UNCHANGED activeVars /\ paused' = paused /\ stop' = stop
  BY AdvanceRest DEF Enqueue
<1>7. SlotType' /\ RestType'
  BY <1>6 DEF IInv, SlotType, RestType, activeVars
<1>8. JobsInv'
  BY <1>2, <1>3, <1>4, <1>6 DEF IInv, JobsInv, activeVars
<1>9. ExclusiveSlots'
  BY <1>6 DEF IInv, ExclusiveSlots, activeVars
<1> QED
  BY <1>5, <1>7, <1>8, <1>9 DEF IInv

\* _remove_pending_locked finds its item in the deque, and the source in the
\* rotation.
LEMMA RemovedKeeps ==
  ASSUME QueueType, LanesInv, OrderInv, NEW i \in known, Removed(i)
  PROVE  /\ QueueType' /\ LanesInv' /\ OrderInv'
         /\ LaneOf(i) \in Lane /\ IndexOf(lanes[LaneOf(i)], i) \in DOMAIN lanes[LaneOf(i)]
<1>1. /\ i \in Item /\ i.priority \in Priority /\ i.source \in Source
      /\ LaneOf(i) \in Lane /\ LaneOf(i) = <<i.priority, i.source>>
  BY ItemParts DEF QueueType
<1> DEFINE s == lanes[LaneOf(i)]
           r == order[i.priority]
           d == RemoveAt(s, IndexOf(s, i))
           o == IF Len(s) = 1 THEN RemoveAt(r, IndexOf(r, i.source)) ELSE r
<1>2. s \in Seq(Item) /\ r \in Seq(Source) /\ Once(s) /\ Once(r)
  BY <1>1 DEF QueueType, LanesInv, OrderInv
<1>3. i \in Elems(s)
  BY <1>1 DEF LanesInv
<1>4. s # <<>>
  BY <1>2, <1>3, EmptyElems
<1>5. i.source \in Elems(r)
  BY <1>1, <1>4 DEF OrderInv
<1>6. /\ lanes' = [lanes EXCEPT ![LaneOf(i)] = d]
      /\ order' = [order EXCEPT ![i.priority] = o]
      /\ known' = known \ {i}
  BY <1>1 DEF Removed, QueueType
<1> HIDE DEF s, r
<1>7. IndexOf(s, i) \in DOMAIN s /\ s[IndexOf(s, i)] = i
  BY <1>3, IndexFound
<1>8. d \in Seq(Item) /\ Once(d) /\ Elems(d) = Elems(s) \ {i} /\ (d = <<>> <=> Len(s) = 1)
  BY <1>2, <1>7, TakenOut
<1>9. /\ o \in Seq(Source) /\ Once(o)
      /\ Elems(o) = IF Len(s) = 1 THEN Elems(r) \ {i.source} ELSE Elems(r)
  <2>1. IndexOf(r, i.source) \in DOMAIN r /\ r[IndexOf(r, i.source)] = i.source
    BY <1>5, IndexFound
  <2> DEFINE q == RemoveAt(r, IndexOf(r, i.source))
  <2>2. q \in Seq(Source) /\ Once(q) /\ Elems(q) = Elems(r) \ {i.source}
    BY <1>2, <2>1, TakenOut
  <2> HIDE DEF q
  <2>3. o = IF Len(s) = 1 THEN q ELSE r
    BY DEF q
  <2> HIDE DEF o
  <2> QED
    BY <1>2, <2>2, <2>3
<1> HIDE DEF d, o
<1>10. Elems(o) = IF d = <<>> THEN Elems(r) \ {i.source} ELSE Elems(r)
  BY <1>8, <1>9
<1>11. QueueType' /\ LanesInv' /\ OrderInv'
  BY <1>6, <1>8, <1>9, <1>10, Shrinks DEF s, r
<1> QED
  BY <1>1, <1>7, <1>11 DEF s

LEMMA WithdrawKeeps == ASSUME IInv, NEW j \in Job, Withdraw(j) PROVE IInv'
<1>1. /\ inbox' = inbox /\ paused' = paused /\ stop' = stop
      /\ phase' = Notified /\ UNCHANGED activeVars
  BY DEF Withdraw
<1>2. /\ phase' \in [Worker -> PhaseSet]
      /\ \A w \in Worker : phase'[w] = "busy" <=> phase[w] = "busy"
  BY <1>1, NotifiedPhases DEF IInv, RestType
<1>3. CASE j \in Jobs(known)
  <2>1. PICK i \in known : Removed(i)
    BY <1>3 DEF Withdraw
  <2>2. QueueType' /\ LanesInv' /\ OrderInv'
    BY <2>1, RemovedKeeps DEF IInv
  <2>3. SlotType' /\ RestType'
    BY <1>1, <1>2 DEF IInv, SlotType, RestType, activeVars
  <2>4. JobsInv'
    BY <1>1, <2>1 DEF IInv, JobsInv, activeVars, Removed
  <2>5. ExclusiveSlots'
    BY <1>1, <1>2 DEF IInv, ExclusiveSlots, activeVars
  <2> QED
    BY <2>2, <2>3, <2>4, <2>5 DEF IInv
<1>4. CASE j \notin Jobs(known)
  <2>1. UNCHANGED queueVars
    BY <1>4 DEF Withdraw
  <2> QED
    BY <1>1, <1>2, <2>1, PhaseOnly DEF IInv, RestType
<1> QED
  BY <1>3, <1>4

\* The item that a scan takes is the oldest of its lane and free.
LEMMA TurnTaken ==
  ASSUME QueueType, LanesInv, OrderInv, NEW p \in Priority, NEW k \in DOMAIN order[p]
  PROVE  /\ order[p][k] \in Source /\ <<p, order[p][k]>> \in Lane
         /\ lanes[<<p, order[p][k]>>] # <<>>
         /\ Turn(p, k) \in known /\ LaneOf(Turn(p, k)) = <<p, order[p][k]>>
         /\ Turn(p, k).priority = p /\ Turn(p, k).source = order[p][k]
<1> DEFINE s == order[p][k]
           l == <<p, s>>
<1>1. s \in Elems(order[p])
  BY DEF Elems
<1>2. s \in Source /\ lanes[l] # <<>>
  BY <1>1 DEF OrderInv
<1>3. l \in Lane
  BY <1>2, LaneParts
<1>4. lanes[l] \in Seq(Item) /\ Once(lanes[l])
  BY <1>3 DEF QueueType, LanesInv
<1>5. Head(lanes[l]) \in Elems(lanes[l])
  BY <1>2, <1>4, Beheaded
<1>6. Head(lanes[l]) \in known /\ LaneOf(Head(lanes[l])) = l
  BY <1>3, <1>5 DEF LanesInv
<1> QED
  BY <1>2, <1>3, <1>6 DEF Turn, LaneOf

\* _next_job_locked takes the head of the lane, and the rotation follows.
LEMMA TakenKeeps ==
  ASSUME QueueType, LanesInv, OrderInv, NEW p \in Priority, NEW k \in DOMAIN order[p], NEW i,
         i = Turn(p, k),
         lanes' = [lanes EXCEPT ![LaneOf(i)] = Tail(@)],
         order' = [order EXCEPT ![p] = Rotated(p, k)],
         known' = known \ {i}
  PROVE  QueueType' /\ LanesInv' /\ OrderInv'
<1>1. /\ i \in known /\ LaneOf(i) = <<p, order[p][k]>> /\ i.priority = p /\ i.source = order[p][k]
      /\ LaneOf(i) \in Lane /\ lanes[LaneOf(i)] # <<>> /\ i.source \in Source
  <2>1. /\ order[p][k] \in Source /\ <<p, order[p][k]>> \in Lane
        /\ lanes[<<p, order[p][k]>>] # <<>>
        /\ Turn(p, k) \in known /\ LaneOf(Turn(p, k)) = <<p, order[p][k]>>
        /\ Turn(p, k).priority = p /\ Turn(p, k).source = order[p][k]
    BY TurnTaken
  <2> QED
    BY <2>1
<1> DEFINE s == lanes[LaneOf(i)]
           r == order[p]
           d == Tail(s)
           o == Rotated(p, k)
           q == SubSeq(r, k + 1, Len(r)) \o SubSeq(r, 1, k - 1)
<1>2. s \in Seq(Item) /\ r \in Seq(Source) /\ Once(s) /\ Once(r)
  BY <1>1 DEF QueueType, LanesInv, OrderInv
<1>3. i = Head(s)
  BY <1>1 DEF Turn
<1>4. o = q \o (IF Len(s) > 1 THEN <<i.source>> ELSE <<>>)
  BY <1>1 DEF Rotated
<1>5. q \in Seq(Source) /\ Once(q) /\ Elems(q) = Elems(r) \ {i.source}
  BY <1>1, <1>2, TurnedAround
<1>6. i.source \in Elems(r)
  BY <1>1 DEF Elems
<1>7. /\ lanes' = [lanes EXCEPT ![LaneOf(i)] = d]
      /\ order' = [order EXCEPT ![i.priority] = o]
  BY <1>1
<1>8. s # <<>>
  BY <1>1
<1> HIDE DEF s, r, o, q
<1>9. d \in Seq(Item) /\ Once(d) /\ Elems(d) = Elems(s) \ {i} /\ (d = <<>> <=> Len(s) = 1)
  BY <1>2, <1>3, <1>8, Beheaded
<1>10. Len(s) > 1 <=> d # <<>>
  <2>1. Len(s) \in Nat \ {0}
    BY <1>2, <1>8, EmptySeq
  <2>2. \A n \in Nat \ {0} : (n > 1) <=> (n # 1)
    OBVIOUS
  <2> QED
    BY <1>9, <2>1, <2>2
<1> HIDE DEF d
<1>11. /\ o \in Seq(Source) /\ Once(o)
       /\ Elems(o) = IF d = <<>> THEN Elems(r) \ {i.source} ELSE Elems(r)
  <2>1. CASE d = <<>>
    <3>1. o = q
      BY <1>4, <1>5, <1>10, <2>1, ConcatEmptySeq
    <3> QED
      BY <1>5, <2>1, <3>1
  <2>2. CASE d # <<>>
    <3>1. o = Append(q, i.source)
      BY <1>1, <1>4, <1>5, <1>10, <2>2, AppendIsConcat
    <3>2. o \in Seq(Source) /\ Once(o) /\ Elems(o) = Elems(q) \union {i.source}
      BY <1>1, <1>5, <3>1, Appended
    <3> QED
      BY <1>5, <1>6, <2>2, <3>2
  <2> QED
    BY <2>1, <2>2
<1> QED
  BY <1>1, <1>7, <1>9, <1>11, Shrinks DEF s, r

\* What a worker takes takes no slot that another one has.
LEMMA SlotsTaken ==
  ASSUME IInv, NEW w \in Worker, phase[w] = "scanning", NEW i \in known, Free(i),
         active' = active \union {i}, activeSources' = activeSources \union {i.source},
         activeAuth' = activeAuth \union {i.auth}, held' = [held EXCEPT ![w] = i],
         phase' \in [Worker -> PhaseSet], phase'[w] = "busy",
         \A v \in Worker \ {w} : phase'[v] = "busy" <=> phase[v] = "busy"
  PROVE  SlotType' /\ ExclusiveSlots'
<1>1. /\ i \in Item /\ i.source \in Source /\ i.auth \in Auth /\ i # NoItem
  BY ItemParts, SchedulerAssumption DEF IInv, QueueType
<1>2. SlotType'
  BY <1>1 DEF IInv, SlotType
<1>3. \A v \in Worker : held'[v] = IF v = w THEN i ELSE held[v]
  BY DEF IInv, SlotType
<1>4. held[w] = NoItem
  BY DEF IInv, ExclusiveSlots
<1>5. ASSUME NEW v \in Worker, v # w, held[v] # NoItem
      PROVE  held[v].source # i.source /\ held[v].auth # i.auth /\ held[v].job # i.job
  <2>1. held[v] \in active
    BY <1>5 DEF IInv, ExclusiveSlots
  <2>2. held[v].source \in activeSources /\ held[v].auth \in activeAuth
    BY <2>1 DEF IInv, ExclusiveSlots
  <2>3. held[v] # i
    BY <2>1 DEF IInv, JobsInv
  <2>4. held[v].job # i.job
    BY <2>1, <2>3 DEF IInv, JobsInv
  <2> QED
    BY <2>2, <2>4 DEF Free
<1>6. \A u, v \in Worker : held'[u] # NoItem /\ held'[v] # NoItem /\ u # v =>
        held'[u].source # held'[v].source /\ held'[u].auth # held'[v].auth
        /\ held'[u].job # held'[v].job
  BY <1>3, <1>5 DEF IInv, ExclusiveSlots
<1>7. \A v \in Worker : phase'[v] = "busy" <=> held'[v] # NoItem
  BY <1>1, <1>3 DEF IInv, ExclusiveSlots
<1>8. active' = {held'[v] : v \in Worker} \ {NoItem}
  <2>1. active = {held[v] : v \in Worker} \ {NoItem}
    BY DEF IInv, ExclusiveSlots
  <2> QED
    BY <1>1, <1>3, <1>4, <2>1
<1>9. activeSources' = {k.source : k \in active'} /\ activeAuth' = {k.auth : k \in active'}
  BY DEF IInv, ExclusiveSlots
<1> QED
  BY <1>2, <1>6, <1>7, <1>8, <1>9 DEF ExclusiveSlots

\* Phases after a scan: only the scanning worker may become busy.
LEMMA ScanPhases ==
  ASSUME phase \in [Worker -> PhaseSet], NEW w \in Worker, NEW to \in PhaseSet
  PROVE  /\ PhasesAfterScan(w, to) \in [Worker -> PhaseSet]
         /\ PhasesAfterScan(w, to)[w] = to
         /\ \A v \in Worker \ {w} : PhasesAfterScan(w, to)[v] = "busy" <=> phase[v] = "busy"
<1>1. Notified \in [Worker -> PhaseSet] /\ \A v \in Worker : Notified[v] = "busy" <=> phase[v] = "busy"
  BY NotifiedPhases
<1> QED
  BY <1>1 DEF PhasesAfterScan

\* What a scan that finds an open place takes.
LEMMA DispatchTakes ==
  ASSUME IInv, NEW w \in Worker, Dispatch(w)
  PROVE  /\ held[w] = NoItem /\ phase'[w] = "busy" /\ inbox' = inbox /\ stop' = stop
         /\ \E i \in known : held' = [held EXCEPT ![w] = i] /\ known' = known \ {i}
<1>1. PICK p \in Priority : \E k \in DOMAIN order[p] :
        held' = [held EXCEPT ![w] = Turn(p, k)] /\ known' = known \ {Turn(p, k)}
  BY DEF Dispatch
<1>2. PICK k \in DOMAIN order[p] :
        held' = [held EXCEPT ![w] = Turn(p, k)] /\ known' = known \ {Turn(p, k)}
  BY <1>1
<1>3. Turn(p, k) \in known
  BY TurnTaken DEF IInv
<1>4. phase \in [Worker -> PhaseSet] /\ "busy" \in PhaseSet
  BY DEF IInv, RestType, PhaseSet
<1>5. phase'[w] = "busy" /\ phase[w] # "busy" /\ inbox' = inbox /\ stop' = stop
  BY <1>4, ScanPhases DEF Dispatch, Scanning
<1> QED
  BY <1>2, <1>3, <1>5 DEF IInv, ExclusiveSlots

LEMMA DispatchKeeps == ASSUME IInv, NEW w \in Worker, Dispatch(w) PROVE IInv'
<1>1. PICK p \in Priority : \E k \in DOMAIN order[p] :
        /\ Chosen(p, k)
        /\ LET i == Turn(p, k) IN
           /\ lanes' = [lanes EXCEPT ![LaneOf(i)] = Tail(@)]
           /\ order' = [order EXCEPT ![p] = Rotated(p, k)]
           /\ known' = known \ {i}
           /\ active' = active \union {i}
           /\ activeSources' = activeSources \union {i.source}
           /\ activeAuth' = activeAuth \union {i.auth}
           /\ held' = [held EXCEPT ![w] = i]
  BY DEF Dispatch
<1>2. PICK k \in DOMAIN order[p] :
        /\ Chosen(p, k)
        /\ LET i == Turn(p, k) IN
           /\ lanes' = [lanes EXCEPT ![LaneOf(i)] = Tail(@)]
           /\ order' = [order EXCEPT ![p] = Rotated(p, k)]
           /\ known' = known \ {i}
           /\ active' = active \union {i}
           /\ activeSources' = activeSources \union {i.source}
           /\ activeAuth' = activeAuth \union {i.auth}
           /\ held' = [held EXCEPT ![w] = i]
  BY <1>1
<1> DEFINE i == Turn(p, k)
<1>3. /\ lanes' = [lanes EXCEPT ![LaneOf(i)] = Tail(@)]
      /\ order' = [order EXCEPT ![p] = Rotated(p, k)]
      /\ known' = known \ {i}
      /\ active' = active \union {i}
      /\ activeSources' = activeSources \union {i.source}
      /\ activeAuth' = activeAuth \union {i.auth}
      /\ held' = [held EXCEPT ![w] = i]
  BY <1>2
<1>4. Free(i)
  BY <1>2 DEF Chosen, Open
<1>5. i \in known
  BY TurnTaken DEF IInv
<1>6. i = Turn(p, k)
  OBVIOUS
<1> HIDE DEF i
<1>7. QueueType' /\ LanesInv' /\ OrderInv'
  BY <1>3, <1>6, TakenKeeps DEF IInv
<1>8. phase[w] = "scanning" /\ phase' = PhasesAfterScan(w, "busy") /\ paused' = FALSE
      /\ inbox' = inbox /\ stop' = stop
  BY DEF Dispatch, Scanning
<1>9. /\ phase' \in [Worker -> PhaseSet] /\ phase'[w] = "busy"
      /\ \A v \in Worker \ {w} : phase'[v] = "busy" <=> phase[v] = "busy"
  <2>1. "busy" \in PhaseSet /\ phase \in [Worker -> PhaseSet]
    BY DEF PhaseSet, IInv, RestType
  <2> QED
    BY <1>8, <2>1, ScanPhases
<1>10. SlotType' /\ ExclusiveSlots'
  BY <1>3, <1>4, <1>5, <1>8, <1>9, SlotsTaken
<1>11. RestType'
  BY <1>8, <1>9 DEF IInv, RestType
<1>12. JobsInv'
  BY <1>3, <1>5 DEF IInv, JobsInv
<1> QED
  BY <1>7, <1>10, <1>11, <1>12 DEF IInv

\* The slots that a worker gives back are its own.
LEMMA DoneFrees ==
  ASSUME IInv, NEW w \in Worker, Done(w)
  PROVE  /\ held[w] \in active /\ held[w] # NoItem
         /\ active' = active \ {held[w]}
<1>1. held[w] \in active /\ held[w] # NoItem
  BY DEF Done, IInv, ExclusiveSlots
<1>2. active' = {i \in active : i.job # held[w].job}
  BY DEF Done
<1>3. \A i \in active : i.job = held[w].job <=> i = held[w]
  BY <1>1 DEF IInv, JobsInv
<1> QED
  BY <1>1, <1>2, <1>3

LEMMA DoneKeeps == ASSUME IInv, NEW w \in Worker, Done(w) PROVE IInv'
<1> DEFINE i == held[w]
<1>1. i \in active /\ i # NoItem /\ active' = active \ {i}
  BY DoneFrees
<1>2. /\ activeSources' = activeSources \ {i.source} /\ activeAuth' = activeAuth \ {i.auth}
      /\ held' = [held EXCEPT ![w] = NoItem] /\ phase' = [Notified EXCEPT ![w] = "scanning"]
      /\ UNCHANGED queueVars /\ inbox' = inbox /\ paused' = paused /\ stop' = stop
  BY DEF Done
<1>3. QueueType' /\ LanesInv' /\ OrderInv'
  BY <1>2 DEF IInv, QueueType, LanesInv, OrderInv, queueVars
<1>4. Notified \in [Worker -> PhaseSet] /\ \A v \in Worker : Notified[v] = "busy" <=> phase[v] = "busy"
  BY NotifiedPhases DEF IInv, RestType
<1>5. /\ phase' \in [Worker -> PhaseSet] /\ phase'[w] = "scanning"
      /\ \A v \in Worker \ {w} : phase'[v] = "busy" <=> phase[v] = "busy"
  BY <1>2, <1>4 DEF PhaseSet
<1>6. RestType'
  BY <1>2, <1>5 DEF IInv, RestType
<1>7. SlotType'
  BY <1>1, <1>2 DEF IInv, SlotType
<1>8. JobsInv'
  BY <1>1, <1>2 DEF IInv, JobsInv, queueVars
<1>9. \A v \in Worker : held'[v] = IF v = w THEN NoItem ELSE held[v]
  BY <1>2 DEF IInv, SlotType
<1>10. \A v \in Worker : held[v] = i => v = w
  BY <1>1 DEF IInv, ExclusiveSlots
<1> HIDE DEF i
<1>11. \A u, v \in Worker : held'[u] # NoItem /\ held'[v] # NoItem /\ u # v =>
         held'[u].source # held'[v].source /\ held'[u].auth # held'[v].auth
         /\ held'[u].job # held'[v].job
  BY <1>9 DEF IInv, ExclusiveSlots
<1>12. \A v \in Worker : phase'[v] = "busy" <=> held'[v] # NoItem
  BY <1>5, <1>9 DEF IInv, ExclusiveSlots
<1>13. active' = {held'[v] : v \in Worker} \ {NoItem}
  <2>1. active = {held[v] : v \in Worker} \ {NoItem}
    BY DEF IInv, ExclusiveSlots
  <2>2. i = held[w]
    BY DEF i
  <2>3. \A k : k \in active' <=> k # NoItem /\ \E v \in Worker : k = held'[v]
    BY <1>1, <1>9, <1>10, <2>1, <2>2
  <2> QED
    BY <2>3
<1>14. \A k \in active : k # i => k.source # i.source /\ k.auth # i.auth
  <2>1. i = held[w]
    BY DEF i
  <2> QED
    BY <1>1, <2>1 DEF IInv, ExclusiveSlots
<1>15. activeSources' = {k.source : k \in active'}
  <2>1. activeSources = {k.source : k \in active}
    BY DEF IInv, ExclusiveSlots
  <2> QED
    BY <1>1, <1>2, <1>14, <2>1
<1>16. activeAuth' = {k.auth : k \in active'}
  <2>1. activeAuth = {k.auth : k \in active}
    BY DEF IInv, ExclusiveSlots
  <2> QED
    BY <1>1, <1>2, <1>14, <2>1
<1>17. ExclusiveSlots'
  BY <1>11, <1>12, <1>13, <1>15, <1>16 DEF ExclusiveSlots
<1> QED
  BY <1>3, <1>6, <1>7, <1>8, <1>17 DEF IInv

LEMMA NextInv == IInv /\ [Next]_schedVars => IInv'
<1> SUFFICES ASSUME IInv, [Next]_schedVars PROVE IInv'
  OBVIOUS
<1>1. inbox \in Seq(Item) /\ phase \in [Worker -> PhaseSet] /\ paused \in BOOLEAN
      /\ stop \in {"no", "set", "told"}
  BY DEF IInv, RestType
<1>2. Notified \in [Worker -> PhaseSet] /\ \A v \in Worker : Notified[v] = "busy" <=> phase[v] = "busy"
  BY <1>1, NotifiedPhases
<1>3. ASSUME NEW items \in Calls, Submit(items) PROVE IInv'
  <2>1. items \in Seq(Item)
    BY SchedulerAssumption
  <2> QED
    BY <1>1, <1>3, <2>1, PhaseOnly DEF Submit
<1>4. CASE SkipKnown
  <2>1. /\ inbox' \in Seq(Item) /\ phase' \in [Worker -> PhaseSet]
        /\ \A w \in Worker : phase'[w] = "busy" <=> phase[w] = "busy"
        /\ UNCHANGED activeVars /\ paused' = paused /\ stop' = stop
    BY <1>4, AdvanceRest DEF SkipKnown
  <2> QED
    BY <1>1, <1>4, <2>1, PhaseOnly DEF SkipKnown
<1>5. CASE Enqueue
  BY <1>5, EnqueueKeeps
<1>6. CASE Overflow
  <2>1. inbox' \in Seq(Item)
    BY <1>6, EmptySeq DEF Overflow
  <2> QED
    BY <1>1, <1>6, <2>1, PhaseOnly DEF Overflow
<1>7. ASSUME NEW j \in Job, Withdraw(j) PROVE IInv'
  BY <1>7, WithdrawKeeps
<1>8. ASSUME NEW w \in Worker, WorkerStep(w) PROVE IInv'
  <2>1. CASE Dispatch(w)
    BY <2>1, DispatchKeeps
  <2>2. CASE Sleep(w)
    <3>1. phase[w] = "scanning" /\ inbox' = inbox /\ stop' = stop
          /\ UNCHANGED queueVars /\ UNCHANGED activeVars
      BY <2>2 DEF Sleep, Scanning
    <3>2. paused' \in BOOLEAN
      BY <1>1, <2>2 DEF Sleep
    <3>3. phase' = [phase EXCEPT ![w] = "waiting"] \/ phase' = PhasesAfterScan(w, "waiting")
      BY <2>2 DEF Sleep
    <3>4. /\ phase' \in [Worker -> PhaseSet] /\ phase'[w] = "waiting"
          /\ \A v \in Worker \ {w} : phase'[v] = "busy" <=> phase[v] = "busy"
      <4>1. "waiting" \in PhaseSet
        BY DEF PhaseSet
      <4>2. CASE phase' = [phase EXCEPT ![w] = "waiting"]
        BY <1>1, <4>1, <4>2
      <4>3. CASE phase' = PhasesAfterScan(w, "waiting")
        BY <1>1, <4>1, <4>3, ScanPhases
      <4> QED
        BY <3>3, <4>2, <4>3
    <3> QED
      BY <1>1, <3>1, <3>2, <3>4, PhaseOnly
  <2>3. CASE Doze(w)
    <3>1. /\ phase' \in [Worker -> PhaseSet]
          /\ \A v \in Worker : phase'[v] = "busy" <=> phase[v] = "busy"
      BY <1>1, <2>3 DEF Doze, Scanning, PhaseSet
    <3> QED
      BY <1>1, <2>3, <3>1, PhaseOnly DEF Doze
  <2>4. CASE DozeOver(w)
    <3>1. /\ phase' \in [Worker -> PhaseSet]
          /\ \A v \in Worker : phase'[v] = "busy" <=> phase[v] = "busy"
      BY <1>1, <2>4 DEF DozeOver, PhaseSet
    <3> QED
      BY <1>1, <2>4, <3>1, PhaseOnly DEF DozeOver
  <2>5. CASE Done(w)
    BY <2>5, DoneKeeps
  <2>6. CASE Exit(w)
    <3>1. /\ phase' \in [Worker -> PhaseSet]
          /\ \A v \in Worker : phase'[v] = "busy" <=> phase[v] = "busy"
      BY <1>1, <2>6 DEF Exit, Scanning, PhaseSet
    <3> QED
      BY <1>1, <2>6, <3>1, PhaseOnly DEF Exit
  <2> QED
    BY <1>8, <2>1, <2>2, <2>3, <2>4, <2>5, <2>6 DEF WorkerStep
<1>9. CASE SetStop
  BY <1>1, <1>9, PhaseOnly DEF SetStop
<1>10. CASE TellStop
  BY <1>1, <1>2, <1>10, PhaseOnly DEF TellStop
<1>11. CASE UNCHANGED schedVars
  BY <1>1, <1>11, PhaseOnly DEF schedVars, queueVars, activeVars
<1> QED
  BY <1>3, <1>4, <1>5, <1>6, <1>7, <1>8, <1>9, <1>10, <1>11 DEF Next, EnqueueStep

-----------------------------------------------------------------------------
(* The theorems *)

\* Whatever threads and clients do in any order, the three invariants hold.
THEOREM SchedulerInvariant == Spec => []IInv
BY InitInv, NextInv, PTL DEF Spec

\* Every variable of the scheduler holds a value of its domain.
THEOREM SchedulerTyped == Spec => []TypeOK
BY SchedulerInvariant, TypesByInv, PTL

\* The three indexes of the queue agree, for any items, batches, cancellations
\* and workers.
THEOREM IndexesKept == Spec => []IndexesAgree
BY SchedulerInvariant, AgreeByInv, PTL

\* One active capture per job, source and auth state.
THEOREM SlotsKept == Spec => []ExclusiveSlots
<1>1. IInv => ExclusiveSlots
  BY DEF IInv
<1> QED
  BY <1>1, SchedulerInvariant, PTL

-----------------------------------------------------------------------------
(* Scheduler implements CaptureQueue: the state is the same but for the      *)
(* indexes, and every step is one of the queue's or leaves it alone.         *)

LEMMA SameLanes == Queue!Lane = Lane /\ \A i : Queue!LaneOf(i) = LaneOf(i)
BY DEF Queue!Lane, Queue!Priority, Queue!Source, Queue!LaneOf, Lane, Priority, Source, LaneOf

\* What waits in the lanes is known.
LEMMA WaitingKnown == IInv => Queue!Waiting \subseteq known
BY SameLanes DEF Queue!Waiting, IInv, LanesInv, Elems

LEMMA InitImplements == Init => Queue!Init
BY SameLanes DEF Init, Queue!Init

LEMMA EnqueueArrives == IInv /\ Enqueue => Queue!Next
<1> SUFFICES ASSUME IInv, Enqueue PROVE Queue!Next
  OBVIOUS
<1> DEFINE i == Head(inbox)
<1>1. i \in Item
  BY HeadTailProperties DEF IInv, RestType, Enqueue
<1>2. /\ ~IsKnown(i)
      /\ lanes' = [lanes EXCEPT ![LaneOf(i)] = Append(@, i)]
      /\ UNCHANGED active
  BY DEF Enqueue, Advance, activeVars
<1> HIDE DEF i
<1>3. \A k \in known \union active : k.job # i.job
  BY <1>2 DEF IsKnown, Jobs
<1>4. Queue!Arrive(i)
  BY <1>2, <1>3, WaitingKnown, SameLanes DEF Queue!Arrive
<1> QED
  BY <1>1, <1>4 DEF Queue!Next

LEMMA WithdrawLeaves ==
  ASSUME IInv, NEW j \in Job, Withdraw(j)
  PROVE  Queue!Next \/ UNCHANGED Queue!queueVars
<1>1. UNCHANGED active
  BY DEF Withdraw, activeVars
<1>2. CASE j \in Jobs(known)
  <2>1. PICK i \in known : Removed(i)
    BY <1>2 DEF Withdraw
  <2> DEFINE l == LaneOf(i)
             n == IndexOf(lanes[l], i)
  <2>2. l \in Lane /\ n \in DOMAIN lanes[l]
    BY <2>1, RemovedKeeps DEF IInv
  <2>3. lanes' = [lanes EXCEPT ![l] = SubSeq(@, 1, n - 1) \o SubSeq(@, n + 1, Len(@))]
    BY <2>1 DEF Removed, RemoveAt
  <2> HIDE DEF l, n
  <2>4. Queue!Withdraw(l, n)
    BY <1>1, <2>3 DEF Queue!Withdraw
  <2> QED
    BY <2>2, <2>4, SameLanes DEF Queue!Next
<1>3. CASE j \notin Jobs(known)
  BY <1>1, <1>3 DEF Withdraw, queueVars, Queue!queueVars
<1> QED
  BY <1>2, <1>3

\* A lane that could be served has an open place in the rotation.
LEMMA ServableIsOpen ==
  ASSUME IInv, NEW l \in Lane, Queue!Servable(l)
  PROVE  l[1] \in Priority /\ Open(l[1]) # {}
<1>1. PICK q \in Priority, s \in Source : l = <<q, s>>
  BY LaneParts
<1>2. lanes[l] # <<>> /\ Queue!Free(Head(lanes[l]))
  BY DEF Queue!Servable
<1>3. s \in Elems(order[q])
  BY <1>1, <1>2 DEF IInv, OrderInv
<1>4. PICK n \in DOMAIN order[q] : order[q][n] = s
  BY <1>3 DEF Elems
<1>5. Turn(q, n) = Head(lanes[l])
  BY <1>1, <1>4 DEF Turn
<1>6. Free(Turn(q, n))
  BY <1>2, <1>5 DEF Queue!Free, Free, IInv, ExclusiveSlots
<1>7. n \in Open(q)
  BY <1>6 DEF Open
<1> QED
  BY <1>1, <1>7

LEMMA DispatchServes == ASSUME IInv, NEW w \in Worker, Dispatch(w) PROVE Queue!Next
<1>1. PICK p \in Priority : \E k \in DOMAIN order[p] :
        /\ Chosen(p, k)
        /\ lanes' = [lanes EXCEPT ![LaneOf(Turn(p, k))] = Tail(@)]
        /\ active' = active \union {Turn(p, k)}
  BY DEF Dispatch
<1>2. PICK k \in DOMAIN order[p] :
        /\ Chosen(p, k)
        /\ lanes' = [lanes EXCEPT ![LaneOf(Turn(p, k))] = Tail(@)]
        /\ active' = active \union {Turn(p, k)}
  BY <1>1
<1> DEFINE i == Turn(p, k)
           l == <<p, order[p][k]>>
<1>3. l \in Lane /\ lanes[l] # <<>> /\ LaneOf(i) = l /\ i = Head(lanes[l])
  BY TurnTaken DEF IInv, Turn
<1>4. Free(i) /\ \A q \in Priority : q > p => Open(q) = {}
  BY <1>2 DEF Chosen, Open
<1>5. lanes' = [lanes EXCEPT ![l] = Tail(@)] /\ active' = active \union {Head(lanes[l])} /\ l[1] = p
  BY <1>2, <1>3
<1> HIDE DEF i, l
<1>6. Queue!Free(i)
  BY <1>4 DEF Queue!Free, Free, IInv, ExclusiveSlots
<1>7. Queue!Servable(l)
  BY <1>3, <1>6 DEF Queue!Servable
<1>8. \A m \in Lane : m[1] > l[1] => ~Queue!Servable(m)
  BY <1>4, <1>5, ServableIsOpen
<1>9. Queue!Serve(l)
  BY <1>5, <1>7, <1>8, SameLanes DEF Queue!Serve
<1> QED
  BY <1>3, <1>9, SameLanes DEF Queue!Next

LEMMA DoneCompletes == ASSUME IInv, NEW w \in Worker, Done(w) PROVE Queue!Next
<1>1. held[w] \in active /\ active' = active \ {held[w]}
  BY DoneFrees
<1>2. UNCHANGED lanes
  BY DEF Done, queueVars
<1>3. Queue!Complete(held[w])
  BY <1>1, <1>2 DEF Queue!Complete
<1> QED
  BY <1>1, <1>3 DEF Queue!Next

LEMMA NextImplements == IInv /\ [Next]_schedVars => [Queue!Next]_(Queue!queueVars)
<1> SUFFICES ASSUME IInv, [Next]_schedVars PROVE Queue!Next \/ UNCHANGED Queue!queueVars
  OBVIOUS
<1>1. ASSUME NEW items \in Calls, Submit(items) PROVE UNCHANGED Queue!queueVars
  BY <1>1 DEF Submit, queueVars, activeVars, Queue!queueVars
<1>2. CASE SkipKnown \/ Overflow
  BY <1>2 DEF SkipKnown, Overflow, Advance, queueVars, activeVars, Queue!queueVars
<1>3. CASE Enqueue
  BY <1>3, EnqueueArrives
<1>4. ASSUME NEW j \in Job, Withdraw(j) PROVE Queue!Next \/ UNCHANGED Queue!queueVars
  BY <1>4, WithdrawLeaves
<1>5. ASSUME NEW w \in Worker, WorkerStep(w) PROVE Queue!Next \/ UNCHANGED Queue!queueVars
  <2>1. CASE Dispatch(w)
    BY <2>1, DispatchServes
  <2>2. CASE Done(w)
    BY <2>2, DoneCompletes
  <2>3. CASE Sleep(w) \/ Doze(w) \/ DozeOver(w) \/ Exit(w)
    BY <2>3 DEF Sleep, Doze, DozeOver, Exit, queueVars, activeVars, Queue!queueVars
  <2> QED
    BY <1>5, <2>1, <2>2, <2>3 DEF WorkerStep
<1>6. CASE SetStop \/ TellStop
  BY <1>6 DEF SetStop, TellStop, queueVars, activeVars, Queue!queueVars
<1>7. CASE UNCHANGED schedVars
  BY <1>7 DEF schedVars, Queue!queueVars
<1> QED
  BY <1>1, <1>2, <1>3, <1>4, <1>5, <1>6, <1>7 DEF Next, EnqueueStep

\* The scheduler implements the queue of lanes: first in, first out within a
\* priority and source, one capture per source and auth state, the highest
\* servable priority first.
THEOREM QueueImplemented == Spec => QueueSpec
<1>1. Spec => []IInv
  BY SchedulerInvariant
<1>2. Spec => Queue!Init
  BY InitImplements DEF Spec
<1>3. Spec => [][Next]_schedVars
  BY DEF Spec
<1> QED
  BY <1>1, <1>2, <1>3, NextImplements, PTL DEF QueueSpec, Queue!Spec

-----------------------------------------------------------------------------
(* Wake-ups *)

\* A notification wakes every worker that waits.
LEMMA NotifiedWakes == \A w \in Worker : Notified[w] # "waiting"
BY DEF Notified

\* A step under the lock that ends no wait and opens no item misses none.
LEMMA NobodyWaits ==
  ASSUME \A v \in Worker : phase'[v] # "waiting"
  PROVE  ~MissesWork'
BY DEF MissesWork

LEMMA SameWork ==
  ASSUME UNCHANGED <<lanes, order, activeSources, activeAuth>>,
         \A v \in Worker : phase'[v] = "waiting" => phase[v] = "waiting"
  PROVE  MissesWork' => MissesWork
BY DEF MissesWork, Open, Free, Turn

\* The last item of a loop is followed by the notification.
LEMMA AdvanceWakes ==
  ASSUME IInv, inbox # <<>>, Advance, LockFree'
  PROVE  ~MissesWork'
<1>1. inbox \in Seq(Item) /\ Tail(inbox) = <<>>
  BY DEF IInv, RestType, Advance, LockFree
<1>2. Len(inbox) = 1
  <2> DEFINE n == Len(inbox)
             m == Len(Tail(inbox))
  <2>1. m = n - 1
    BY <1>1, HeadTailProperties
  <2>2. Len(<<>>) = 0
    OBVIOUS
  <2>3. n \in Nat
    BY <1>1, LenProperties
  <2>4. m = 0
    BY <1>1, <2>2, Zenon
  <2> HIDE DEF n, m
  <2>5. n = 1
    BY <2>1, <2>3, <2>4
  <2>6. QED
    BY <2>5 DEF n
<1>3. phase' = Notified
  BY <1>2 DEF Advance
<1>4. QED
  BY <1>3, NotifiedWakes, NobodyWaits

\* What one step can do to a wait.
LEMMA WakeupStep ==
  ASSUME IInv, [Next]_schedVars, LockFree', MissesWork'
  PROVE  Overflow \/ (LockFree /\ MissesWork)
<1>1. ASSUME NEW items \in Calls, Submit(items) PROVE FALSE
  BY <1>1 DEF Submit, LockFree
<1>2. CASE SkipKnown \/ Enqueue
  <2>1. inbox # <<>> /\ Advance
    BY <1>2 DEF SkipKnown, Enqueue
  <2>2. QED
    BY <2>1, AdvanceWakes
<1>3. ASSUME NEW j \in Job, Withdraw(j) PROVE FALSE
  <2>1. phase' = Notified
    BY <1>3 DEF Withdraw
  <2>2. QED
    BY <2>1, NotifiedWakes, NobodyWaits
<1>4. ASSUME NEW w \in Worker, Dispatch(w) PROVE LockFree /\ MissesWork
  <2>1. LockFree /\ \E p \in Priority : Open(p) # {}
    BY <1>4 DEF Dispatch, Scanning, Chosen
  <2>2. PICK v \in Worker : phase'[v] = "waiting"
    BY DEF MissesWork
  <2>3. phase' = PhasesAfterScan(w, "busy") /\ phase \in [Worker -> PhaseSet]
    BY <1>4 DEF Dispatch, IInv, RestType
  <2>4. phase[v] = "waiting"
    BY <2>2, <2>3, NotifiedWakes DEF PhasesAfterScan, Notified
  <2>5. QED
    BY <2>1, <2>4 DEF MissesWork
<1>5. ASSUME NEW w \in Worker, Sleep(w) PROVE FALSE
  <2>1. (\A p \in Priority : Open(p) = {}) /\ UNCHANGED <<lanes, order, activeSources, activeAuth>>
    BY <1>5 DEF Sleep, queueVars, activeVars
  <2>2. \A p \in Priority : Open(p)' = {}
    BY <2>1 DEF Open, Free, Turn
  <2>3. QED
    BY <2>2 DEF MissesWork
<1>6. ASSUME NEW w \in Worker, Doze(w) \/ DozeOver(w) \/ Exit(w) PROVE LockFree /\ MissesWork
  <2>1. /\ UNCHANGED <<lanes, order, activeSources, activeAuth, inbox>>
        /\ phase' \in {[phase EXCEPT ![w] = to] : to \in {"dozing", "scanning", "exited"}}
    BY <1>6 DEF Doze, DozeOver, Exit, queueVars, activeVars
  <2>2. \A v \in Worker : phase'[v] = "waiting" => phase[v] = "waiting"
    <3>1. PICK to \in {"dozing", "scanning", "exited"} : phase' = [phase EXCEPT ![w] = to]
      BY <2>1
    <3>2. to # "waiting"
      OBVIOUS
    <3>3. phase \in [Worker -> PhaseSet]
      BY DEF IInv, RestType
    <3>4. QED
      BY <3>1, <3>2, <3>3
  <2>3. QED
    BY <2>1, <2>2, SameWork DEF LockFree
<1>7. ASSUME NEW w \in Worker, Done(w) PROVE FALSE
  <2>1. phase' = [Notified EXCEPT ![w] = "scanning"]
    BY <1>7 DEF Done
  <2>2. \A v \in Worker : phase'[v] # "waiting"
    BY <2>1, NotifiedWakes DEF Notified
  <2>3. QED
    BY <2>2, NobodyWaits
<1>8. CASE SetStop \/ UNCHANGED schedVars
  <2>1. UNCHANGED <<lanes, order, activeSources, activeAuth, inbox, phase>>
    BY <1>8 DEF SetStop, schedVars, queueVars, activeVars
  <2>2. QED
    BY <2>1, SameWork DEF LockFree
<1>9. CASE TellStop
  <2>1. phase' = Notified
    BY <1>9 DEF TellStop
  <2>2. QED
    BY <2>1, NotifiedWakes, NobodyWaits
<1>10. QED
  BY <1>1, <1>2, <1>3, <1>4, <1>5, <1>6, <1>7, <1>8, <1>9 DEF Next, EnqueueStep, WorkerStep

\* No notification is missed: only a batch that overflows leaves a worker
\* waiting beside an item that it could start.
THEOREM WakeupsKept == Spec => NoMissedWakeup
<1>1. IInv /\ [Next]_schedVars =>
        [LockFree' /\ MissesWork' => Overflow \/ (LockFree /\ MissesWork)]_schedVars
  BY WakeupStep
<1>2. QED
  BY <1>1, SchedulerInvariant, PTL DEF Spec, NoMissedWakeup

\* Where no batch overflows, no worker ever waits beside such an item.
THEOREM NobodyOverslept ==
  Spec /\ [][~Overflow]_schedVars => [](LockFree => ~MissesWork)
<1>1. Init => (LockFree => ~MissesWork)
  BY DEF Init, MissesWork
<1>2. IInv /\ (LockFree => ~MissesWork) /\ [Next]_schedVars /\ [~Overflow]_schedVars
        => (LockFree => ~MissesWork)'
  <2> SUFFICES ASSUME IInv, LockFree => ~MissesWork, [Next]_schedVars, [~Overflow]_schedVars,
                      LockFree', MissesWork'
               PROVE  FALSE
    OBVIOUS
  <2>1. CASE UNCHANGED schedVars
    <3>1. UNCHANGED <<lanes, order, activeSources, activeAuth, inbox, phase>>
      BY <2>1 DEF schedVars
    <3>2. QED
      BY <3>1, SameWork DEF LockFree
  <2>2. CASE ~Overflow
    BY <2>2, WakeupStep
  <2>3. QED
    BY <2>1, <2>2
<1>3. QED
  BY <1>1, <1>2, SchedulerInvariant, PTL DEF Spec
=============================================================================
