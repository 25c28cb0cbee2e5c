------------------------------- MODULE Counting -------------------------------
(***************************************************************************)
(* Induction and counting for the proofs, in terms of sets: a least        *)
(* number, induction over a set of numbers, a minimal set, the element of  *)
(* a given rank.                                                           *)
(***************************************************************************)
EXTENDS Integers, FiniteSetTheorems, WellFoundedInduction, TLAPS

\* A set of natural numbers that is not empty has a least element.
LEMMA LeastNumber ==
  ASSUME NEW K \in SUBSET Nat, K # {}
  PROVE  \E k \in K : \A m \in K : k <= m
<1>1. PICK k \in K : \A m \in K : ~(<<m, k>> \in OpToRel(<, Nat))
  BY NatLessThanWellFounded, WFMin
<1>2. ASSUME NEW m \in K PROVE k <= m
  <2>1. m \in Nat /\ k \in Nat
    OBVIOUS
  <2>2. <<m, k>> \in Nat \X Nat /\ <<m, k>>[1] = m /\ <<m, k>>[2] = k
    BY <2>1
  <2>3. ~(m < k)
    BY <1>1, <2>2 DEF OpToRel
  <2> QED
    BY <2>1, <2>3
<1> QED
  BY <1>2

\* Induction: a set that holds 0 and the successors of its members holds every
\* natural number.
LEMMA NumberInduction ==
  ASSUME NEW S \in SUBSET Nat, 0 \in S, \A n \in S : n + 1 \in S
  PROVE  S = Nat
<1> SUFFICES ASSUME S # Nat PROVE FALSE
  OBVIOUS
<1> DEFINE rest == Nat \ S
<1>1. PICK k \in rest : \A m \in rest : k <= m
  BY LeastNumber, rest # {}, rest \in SUBSET Nat
<1>2. k # 0 /\ k - 1 \in Nat /\ (k - 1) + 1 = k
  OBVIOUS
<1>3. k - 1 \in S
  BY <1>1, <1>2
<1> QED
  BY <1>2, <1>3

\* A family of subsets of a finite set has a minimal member.
LEMMA MinimalMember ==
  ASSUME NEW A, IsFiniteSet(A), NEW F \in SUBSET SUBSET A, F # {}
  PROVE  \E T \in F : \A U \in F : U \subseteq T => U = T
<1>1. F \subseteq FiniteSubsetsOf(A)
  BY FS_FiniteSubsetsOfFinite
<1>2. PICK T \in F : \A U \in F : ~(<<U, T>> \in StrictSubsetOrdering(A))
  BY <1>1, FS_StrictSubsetOrderingWellFounded, WFMin
<1> QED
  BY <1>2 DEF StrictSubsetOrdering

\* L orders the members of R strictly and totally.
Orders(L, R) ==
  /\ \A i, j, k \in R : <<i, j>> \in L /\ <<j, k>> \in L => <<i, k>> \in L
  /\ \A i \in R : <<i, i>> \notin L
  /\ \A i, j \in R : i # j => <<i, j>> \in L \/ <<j, i>> \in L

\* What comes before k.
Below(L, R, k) == {i \in R : <<i, k>> \in L}

\* A set that misses some member of a finite order misses a first one.
LEMMA FirstMissing ==
  ASSUME NEW R, IsFiniteSet(R), NEW L, Orders(L, R), NEW K \in SUBSET R, K # {}
  PROVE  \E k \in K : \A i \in K : <<i, k>> \notin L
<1> DEFINE F == {Below(L, R, k) : k \in K}
<1>1. F \in SUBSET SUBSET R /\ F # {} /\ \A k \in K : Below(L, R, k) \in F
  BY DEF Below
<1>2. \A T \in F : \E k \in K : T = Below(L, R, k)
  OBVIOUS
<1> HIDE DEF F
<1>3. PICK T \in F : \A U \in F : U \subseteq T => U = T
  BY <1>1, MinimalMember
<1>4. PICK k \in K : T = Below(L, R, k)
  BY <1>2
<1>5. ASSUME NEW i \in K, <<i, k>> \in L PROVE FALSE
  <2>1. Below(L, R, i) \subseteq T
    BY <1>4, <1>5 DEF Below, Orders
  <2>2. i \in T /\ i \notin Below(L, R, i)
    BY <1>4, <1>5 DEF Below, Orders
  <2> QED
    BY <1>1, <1>3, <2>1, <2>2
<1> QED
  BY <1>5

\* Every rank below the size of a finite order belongs to a member.
LEMMA RankTaken ==
  ASSUME NEW R, IsFiniteSet(R), NEW L, Orders(L, R), NEW n \in Nat, n < Cardinality(R)
  PROVE  \E k \in R : Cardinality(Below(L, R, k)) = n
<1> DEFINE S == {m \in Nat : m < Cardinality(R) => \E k \in R : Cardinality(Below(L, R, k)) = m}
<1>0. Cardinality(R) \in Nat /\ (Cardinality(R) > 0 => R # {})
  BY FS_CardinalityType, FS_EmptySet
<1>1. 0 \in S
  <2> SUFFICES ASSUME 0 < Cardinality(R)
               PROVE  \E k \in R : Cardinality(Below(L, R, k)) = 0
    OBVIOUS
  <2>1. PICK k \in R : \A i \in R : <<i, k>> \notin L
    BY <1>0, FirstMissing
  <2>2. Below(L, R, k) = {}
    BY <2>1 DEF Below
  <2> QED
    BY <2>2, FS_EmptySet
<1>2. ASSUME NEW m \in S PROVE m + 1 \in S
  <2> SUFFICES ASSUME m + 1 < Cardinality(R)
               PROVE  \E k \in R : Cardinality(Below(L, R, k)) = m + 1
    OBVIOUS
  <2>1. PICK k \in R : Cardinality(Below(L, R, k)) = m
    BY <1>0
  <2> DEFINE B == Below(L, R, k) \union {k}
  <2>2. IsFiniteSet(B) /\ Cardinality(B) = m + 1
    <3>1. IsFiniteSet(Below(L, R, k)) /\ k \notin Below(L, R, k)
      BY FS_Subset DEF Below, Orders
    <3> QED
      BY <2>1, <3>1, FS_AddElement
  <2>3. R \ B # {}
    <3>1. B \subseteq R
      BY DEF Below
    <3> QED
      BY <1>0, <2>2, <3>1
  <2>4. PICK l \in R \ B : \A i \in R \ B : <<i, l>> \notin L
    BY <2>3, FirstMissing
  <2>5. Below(L, R, l) = B
    BY <2>4 DEF Below, Orders
  <2> QED
    BY <2>2, <2>4, <2>5
<1>3. S = Nat
  BY <1>1, <1>2, NumberInduction
<1> QED
  BY <1>3

\* A member stands at a place of its own.
LEMMA RankOwn ==
  ASSUME NEW R, IsFiniteSet(R), NEW L, Orders(L, R), NEW k \in R
  PROVE  /\ Cardinality(Below(L, R, k)) + 1 \in 1..Cardinality(R)
         /\ \A i \in R : Cardinality(Below(L, R, i)) = Cardinality(Below(L, R, k)) => i = k
<1>1. \A i \in R : IsFiniteSet(Below(L, R, i)) /\ Cardinality(Below(L, R, i)) \in Nat
  BY FS_Subset, FS_CardinalityType DEF Below
<1>2. Cardinality(Below(L, R, k)) < Cardinality(R) /\ Cardinality(R) \in Nat
  <2>1. Below(L, R, k) \in SUBSET R /\ k \notin Below(L, R, k)
    BY DEF Below, Orders
  <2> QED
    BY <1>1, <2>1, FS_Subset, FS_CardinalityType
<1>3. ASSUME NEW p \in R, NEW q \in R, <<p, q>> \in L
      PROVE  Cardinality(Below(L, R, p)) # Cardinality(Below(L, R, q))
  <2>1. Below(L, R, p) \in SUBSET Below(L, R, q)
    BY <1>3 DEF Below, Orders
  <2>2. p \in Below(L, R, q) /\ p \notin Below(L, R, p)
    BY <1>3 DEF Below, Orders
  <2> QED
    BY <1>1, <2>1, <2>2, FS_Subset
<1>4. ASSUME NEW i \in R, i # k PROVE Cardinality(Below(L, R, i)) # Cardinality(Below(L, R, k))
  BY <1>3, <1>4 DEF Orders
<1> QED
  BY <1>1, <1>2, <1>4

\* Different numbers of an interval that is just as large as their set fill it.
LEMMA IntervalFilled ==
  ASSUME NEW S, IsFiniteSet(S), NEW a \in Nat, NEW f \in [S -> a..(a + Cardinality(S) - 1)],
         \A p, q \in S : p # q => f[p] # f[q]
  PROVE  {f[p] : p \in S} = a..(a + Cardinality(S) - 1)
<1> DEFINE T == a..(a + Cardinality(S) - 1)
<1>1. Cardinality(S) \in Nat
  BY FS_CardinalityType
<1>2. IsFiniteSet(T) /\ Cardinality(T) = Cardinality(S)
  <2>1. a \in Int /\ a + Cardinality(S) - 1 \in Int
    BY <1>1
  <2>2. /\ IsFiniteSet(T)
        /\ Cardinality(T) = IF a > a + Cardinality(S) - 1 THEN 0
                            ELSE (a + Cardinality(S) - 1) - a + 1
    BY <2>1, FS_Interval
  <2> QED
    BY <1>1, <2>2
<1>3. f \in [S -> T]
  OBVIOUS
<1> HIDE DEF T
<1>4. f \in Injection(S, T)
  BY <1>3 DEF Injection, IsInjective
<1>5. f \in Surjection(S, T)
  BY <1>2, <1>4, FS_Injection
<1>6. \A t \in T : \E p \in S : f[p] = t
  BY <1>5 DEF Surjection
<1>7. {f[p] : p \in S} = T
  BY <1>3, <1>6, ZenonT(60)
<1> QED
  BY <1>7 DEF T

\* Among n or more members at least n have a rank below n.
LEMMA FirstOnes ==
  ASSUME NEW R, IsFiniteSet(R), NEW L, Orders(L, R), NEW n \in Nat, n <= Cardinality(R),
         NEW K \in SUBSET R, \A k \in R : Cardinality(Below(L, R, k)) < n => k \in K
  PROVE  n <= Cardinality(K)
<1> DEFINE F == {k \in R : Cardinality(Below(L, R, k)) < n}
           rank == [k \in F |-> Cardinality(Below(L, R, k))]
<1>0. Cardinality(R) \in Nat /\ IsFiniteSet(F) /\ IsFiniteSet(K) /\ F \in SUBSET K
  BY FS_CardinalityType, FS_Subset
<1>1. CASE n = 0
  BY <1>0, <1>1, FS_CardinalityType
<1>2. CASE n > 0
  <2>1. \A k \in R : Cardinality(Below(L, R, k)) \in Nat
    BY FS_Subset, FS_CardinalityType DEF Below
  <2>2. rank \in [F -> 0..(n - 1)]
    BY <2>1
  <2>3. ASSUME NEW m \in 0..(n - 1) PROVE \E k \in F : rank[k] = m
    <3>1. m \in Nat /\ m < Cardinality(R) /\ m < n
      BY <1>0, <1>2
    <3>2. PICK k \in R : Cardinality(Below(L, R, k)) = m
      BY <3>1, RankTaken
    <3> QED
      BY <3>1, <3>2
  <2> HIDE DEF rank
  <2>4. rank \in Surjection(F, 0..(n - 1))
    BY <2>2, <2>3 DEF Surjection
  <2> HIDE DEF F
  <2>5. Cardinality(0..(n - 1)) <= Cardinality(F)
    BY <1>0, <2>4, FS_Surjection
  <2>6. Cardinality(0..(n - 1)) = n
    <3>1. 0 \in Int /\ n - 1 \in Int
      OBVIOUS
    <3>2. Cardinality(0..(n - 1)) = IF 0 > n - 1 THEN 0 ELSE (n - 1) - 0 + 1
      BY <3>1, FS_Interval
    <3> QED
      BY <1>2, <3>2
  <2>7. Cardinality(F) <= Cardinality(K) /\ Cardinality(F) \in Nat /\ Cardinality(K) \in Nat
    BY <1>0, FS_Subset, FS_CardinalityType
  <2> QED
    BY <2>5, <2>6, <2>7
<1> QED
  BY <1>1, <1>2

\* At most n members have a rank below n.
LEMMA FewOnes ==
  ASSUME NEW R, IsFiniteSet(R), NEW L, Orders(L, R), NEW n \in Nat
  PROVE  Cardinality({k \in R : Cardinality(Below(L, R, k)) < n}) <= n
<1> DEFINE F == {k \in R : Cardinality(Below(L, R, k)) < n}
           rank == [k \in F |-> Cardinality(Below(L, R, k))]
<1>1. \A k \in R : IsFiniteSet(Below(L, R, k)) /\ Cardinality(Below(L, R, k)) \in Nat
  BY FS_Subset, FS_CardinalityType DEF Below
<1>2. CASE n = 0
  <2>1. F = {}
    BY <1>1, <1>2
  <2> QED
    BY <1>2, <2>1, FS_EmptySet
<1>3. CASE n > 0
  <2>1. rank \in [F -> 0..(n - 1)]
    BY <1>1
  <2>2. ASSUME NEW p \in F, NEW q \in F, p # q PROVE rank[p] # rank[q]
    BY <2>2, RankOwn
  <2> HIDE DEF rank, F
  <2>3. rank \in Injection(F, 0..(n - 1))
    BY <2>1, <2>2 DEF Injection, IsInjective
  <2>4. IsFiniteSet(0..(n - 1)) /\ Cardinality(0..(n - 1)) = n
    <3>1. 0 \in Int /\ n - 1 \in Int
      OBVIOUS
    <3>2. /\ IsFiniteSet(0..(n - 1))
          /\ Cardinality(0..(n - 1)) = IF 0 > n - 1 THEN 0 ELSE (n - 1) - 0 + 1
      BY <3>1, FS_Interval
    <3> QED
      BY <1>3, <3>2
  <2>5. Cardinality(F) <= n
    BY <2>3, <2>4, FS_Injection
  <2> QED
    BY <2>5 DEF F
<1> QED
  BY <1>2, <1>3

\* The image of a finite set under a function is no larger.
LEMMA ImageNoLarger ==
  ASSUME NEW S, IsFiniteSet(S), NEW f, DOMAIN f = S, NEW T, T = {f[x] : x \in S}
  PROVE  IsFiniteSet(T) /\ Cardinality(T) <= Cardinality(S)
<1>1. [x \in S |-> f[x]] \in Surjection(S, T)
  BY DEF Surjection
<1> QED
  BY <1>1, FS_Surjection
=============================================================================
