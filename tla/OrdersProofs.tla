---------------------------- MODULE OrdersProofs ----------------------------
(***************************************************************************)
(* Facts about the lists of steps and about least elements that the other  *)
(* proofs cite.                                                            *)
(***************************************************************************)
EXTENDS Orders, FiniteSetsExt, Sequences, FiniteSetTheorems, WellFoundedInduction, TLAPS

\* A non-empty set of naturals has a least element, and Min is it.
LEMMA MinIn ==
  ASSUME NEW S \in SUBSET Nat, S # {}
  PROVE  Min(S) \in S /\ \A x \in S : Min(S) <= x
<1>1. OpToRel(<, Nat) = {ss \in Nat \X Nat: ss[1] < ss[2]}
  BY DEF OpToRel
<1>2. PICK x \in S : \A y \in S : ~(<<y, x>> \in OpToRel(<, Nat))
  BY WFMin, NatLessThanWellFounded
<1>3. \A y \in S : ~(<<y, x>> \in {ss \in Nat \X Nat: ss[1] < ss[2]})
  BY <1>1, <1>2
<1>4. \A y \in S : ~(y < x)
  <2> TAKE y \in S
  <2> DEFINE p == <<y, x>>
  <2>1. p \in Nat \X Nat /\ p[1] = y /\ p[2] = x
    OBVIOUS
  <2>2. p \notin {ss \in Nat \X Nat: ss[1] < ss[2]}
    BY <1>3
  <2> HIDE DEF p
  <2> QED
    BY <2>1, <2>2
<1>5. \A y \in S : x <= y
  BY <1>4
<1> QED
  BY <1>5 DEF Min

\* A non-empty finite set of naturals has a greatest element.
LEMMA GreatestIn ==
  ASSUME NEW S \in SUBSET Nat, NEW n \in Nat, \A x \in S : x <= n, S # {}
  PROVE  \E m \in S : \A x \in S : x <= m
<1> DEFINE T == {n - x : x \in S}
<1>1. T \in SUBSET Nat /\ T # {}
  <2>1. \A x \in S : n - x \in Nat
    OBVIOUS
  <2>2. PICK x \in S : TRUE
    OBVIOUS
  <2>3. n - x \in T
    BY <2>2
  <2> QED
    BY <2>1, <2>3
<1>2. Min(T) \in T /\ \A y \in T : Min(T) <= y
  <2> HIDE DEF T
  <2> QED
    BY <1>1, MinIn
<1>3. PICK m \in S : Min(T) = n - m
  BY <1>2
<1>4. \A x \in S : n - m <= n - x
  BY <1>2, <1>3
<1> QED
  BY <1>4

\* A position is smaller than the length of the list.
LEMMA BeforeType ==
  ASSUME NEW S \in SUBSET Nat, IsFiniteSet(S), NEW x \in S
  PROVE  /\ IsFiniteSet({t \in S : t < x})
         /\ Before(S, x) \in 0 .. Cardinality(S) - 1
<1> DEFINE below == {t \in S : t < x}
<1>1. below \in SUBSET S /\ below # S
  OBVIOUS
<1>2. Cardinality(S) \in Nat
  BY FS_CardinalityType
<1>3. IsFiniteSet(below) /\ Cardinality(below) \in 0 .. Cardinality(S) - 1
  <2> HIDE DEF below
  <2> QED
    <3>1. IsFiniteSet(below) /\ Cardinality(below) <= Cardinality(S)
      BY <1>1, FS_Subset
    <3>2. Cardinality(below) # Cardinality(S)
      BY <1>1, FS_Subset
    <3>3. Cardinality(below) \in Nat
      BY <3>1, FS_CardinalityType
    <3> QED
      BY <1>2, <3>1, <3>2, <3>3
<1> QED
  BY <1>3 DEF Before

\* No two steps have the same position.
LEMMA BeforeGrows ==
  ASSUME NEW S \in SUBSET Nat, IsFiniteSet(S), NEW x \in S, NEW y \in S, x < y
  PROVE  Before(S, x) < Before(S, y)
<1> DEFINE bx == {t \in S : t < x}
           by == {t \in S : t < y}
<1>1. x \in Nat /\ y \in Nat
  OBVIOUS
<1>2. \A t \in S : t < x => t < y
  BY <1>1
<1>3. bx \in SUBSET by /\ x \in by /\ x \notin bx
  <2>1. bx \in SUBSET by
    BY <1>2
  <2>2. x \in by /\ x \notin bx
    BY <1>1
  <2> QED
    BY <2>1, <2>2
<1>4. IsFiniteSet(bx) /\ IsFiniteSet(by) /\ Cardinality(bx) \in Nat /\ Cardinality(by) \in Nat
  BY BeforeType, FS_CardinalityType
<1>5. Cardinality(bx) <= Cardinality(by) /\ Cardinality(bx) # Cardinality(by)
  <2> HIDE DEF bx, by
  <2> QED
    BY <1>3, <1>4, FS_Subset
<1> QED
  BY <1>4, <1>5 DEF Before

\* The list of a set has the elements of the set.
LEMMA InOrderIn ==
  ASSUME NEW S \in SUBSET Nat, IsFiniteSet(S)
  PROVE  /\ Cardinality(S) \in Nat
         /\ InOrder(S) \in [1 .. Cardinality(S) -> S]
<1> DEFINE n == Cardinality(S)
           pos == [x \in S |-> Before(S, x)]
<1>1. n \in Nat
  BY FS_CardinalityType
<1>2. pos \in [S -> 0 .. n - 1]
  BY BeforeType
<1>3. \A x, y \in S : pos[x] = pos[y] => x = y
  <2> TAKE x, y \in S
  <2>1. pos[x] \in Int /\ pos[y] \in Int
    BY <1>2, <1>1
  <2>2. x < y \/ y < x \/ x = y
    OBVIOUS
  <2> QED
    BY <2>1, <2>2, BeforeGrows
<1>4. pos \in Injection(S, 0 .. n - 1)
  BY <1>2, <1>3 DEF IsInjective, Injection
<1>5. IsFiniteSet(0 .. n - 1) /\ Cardinality(0 .. n - 1) = n
  <2>1. n - 1 \in Int /\ 0 \in Int
    BY <1>1
  <2> HIDE DEF n
  <2>2. Cardinality(0 .. n - 1) = IF 0 > n - 1 THEN 0 ELSE (n - 1) - 0 + 1
    BY <2>1, FS_Interval
  <2> QED
    BY <1>1, <2>1, <2>2, FS_Interval
<1>6. pos \in Surjection(S, 0 .. n - 1)
  BY <1>4, <1>5, FS_Injection
<1>7. \A k \in 1 .. n : \E s \in S : Before(S, s) = k - 1
  <2> TAKE k \in 1 .. n
  <2>1. k - 1 \in 0 .. n - 1
    BY <1>1
  <2> QED
    BY <2>1, <1>6 DEF Surjection
<1> QED
  BY <1>1, <1>7 DEF InOrder

\* S[:n] has no more than n elements.
LEMMA FirstOfBound ==
  ASSUME NEW S \in SUBSET Nat, NEW m \in Nat, \A x \in S : x <= m, NEW n \in Nat
  PROVE  IsFiniteSet(FirstOf(S, n)) /\ Cardinality(FirstOf(S, n)) <= n
<1>1. IsFiniteSet(S)
  BY FS_BoundedSetOfNaturals
<1> DEFINE F == FirstOf(S, n)
<1>2. F \in SUBSET S
  BY DEF FirstOf
<1>3. IsFiniteSet(F)
  BY <1>1, <1>2, FS_Subset
<1>4. CASE F = {}
  BY <1>4, FS_EmptySet
<1>5. CASE F # {}
  <2>1. F \in SUBSET Nat /\ \A x \in F : x <= m
    BY <1>2
  <2>2. PICK g \in F : \A x \in F : x <= g
    <3> HIDE DEF F
    <3> QED
      BY <2>1, <1>5, GreatestIn
  <2> DEFINE below == {t \in S : t < g}
  <2>3. g \in S /\ Cardinality(below) < n
    BY <2>2 DEF FirstOf, Before
  <2>4. IsFiniteSet(below) /\ Cardinality(below) \in Nat
    BY <1>1, <2>3, BeforeType, FS_CardinalityType
  <2>5. \A x \in F : x \in below \cup {g}
    <3> TAKE x \in F
    <3>1. x \in S /\ x \in Nat /\ g \in Nat /\ x <= g
      BY <1>2, <2>2, <2>3
    <3> QED
      BY <3>1
  <2>6. IsFiniteSet(below \cup {g}) /\ Cardinality(below \cup {g}) <= Cardinality(below) + 1
    BY <2>4, FS_AddElement
  <2>7. Cardinality(F) <= Cardinality(below \cup {g})
    <3> HIDE DEF F, below
    <3> QED
      BY <2>5, <2>6, FS_Subset
  <2>8. Cardinality(F) \in Nat /\ Cardinality(below \cup {g}) \in Nat
    BY <1>3, <2>6, FS_CardinalityType
  <2> QED
    BY <1>3, <2>3, <2>4, <2>6, <2>7, <2>8
<1> QED
  BY <1>4, <1>5

\* The list of a set has all the elements of the set.
LEMMA InOrderOnto ==
  ASSUME NEW S \in SUBSET Nat, IsFiniteSet(S), NEW x \in S
  PROVE  Before(S, x) + 1 \in 1 .. Cardinality(S) /\ InOrder(S)[Before(S, x) + 1] = x
<1> DEFINE k == Before(S, x) + 1
<1>1. Cardinality(S) \in Nat /\ Before(S, x) \in 0 .. Cardinality(S) - 1
  BY FS_CardinalityType, BeforeType
<1>2. k \in 1 .. Cardinality(S) /\ k - 1 = Before(S, x)
  BY <1>1
<1>3. \A y \in S : Before(S, y) = k - 1 => y = x
  <2> SUFFICES ASSUME NEW y \in S, Before(S, y) = Before(S, x), y # x
               PROVE  FALSE
    BY <1>2
  <2>1. y < x \/ x < y
    OBVIOUS
  <2> QED
    BY <1>1, <2>1, BeforeGrows
<1>4. (CHOOSE s \in S : Before(S, s) = k - 1) = x
  BY <1>2, <1>3
<1> HIDE DEF k
<1>5. InOrder(S)[k] = x
  BY <1>2, <1>4 DEF InOrder
<1> QED
  BY <1>2, <1>5 DEF k
=============================================================================
