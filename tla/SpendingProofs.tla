--------------------------- MODULE SpendingProofs ---------------------------
(***************************************************************************)
(* What LLM calls cost, for every registry, every set of instances and of  *)
(* workers and every bound: that no charge gets lost between the calls,    *)
(* the log and the ledger unless a drive does, that the overspend of a     *)
(* tenant is bounded, and that only the calls of completed steps are       *)
(* replayed.                                                               *)
(*                                                                         *)
(* The first part is about sums over finite sets, which MapThenSumSet      *)
(* computes by removing one element after the other.                       *)
(***************************************************************************)
EXTENDS Spending, OrdersProofs

\* The element that the fold of a set removes first.
First(T) == CHOOSE x \in T : TRUE

\* The function that the fold of a set is defined by.
Sums(S, f) ==
  CHOOSE G : G = [T \in SUBSET S |->
                    IF T = {} THEN 0 ELSE f[First(T)] + G[T \ {First(T)}]]

\* It satisfies the equation of the fold.
Unfolds(S, f) ==
  /\ Sums(S, f)[{}] = 0
  /\ \A T \in SUBSET S : T # {} => Sums(S, f)[T] = f[First(T)] + Sums(S, f)[T \ {First(T)}]

\* SumOver is the value of that function.
LEMMA SumIsFold ==
  ASSUME NEW S, NEW f
  PROVE  SumOver(S, f) = Sums(S, f)[S]
BY DEF SumOver, MapThenSumSet, MapThenFoldSet, Sums, First

\* What holds of the empty set, and of a set when it holds of the set without its
\* first element, holds of every finite set.
LEMMA FoldInduction ==
  ASSUME NEW S, IsFiniteSet(S), NEW Q,
         {} \in Q,
         \A T \in SUBSET S : T # {} /\ T \ {First(T)} \in Q => T \in Q
  PROVE  \A T \in SUBSET S : T \in Q
<1> SUFFICES ASSUME NEW U \in SUBSET S, U \notin Q
             PROVE  FALSE
  OBVIOUS
<1> DEFINE Bad == {Cardinality(T) : T \in {T \in SUBSET S : T \notin Q}}
<1>1. \A T \in SUBSET S : IsFiniteSet(T) /\ Cardinality(T) \in Nat
  BY FS_Subset, FS_CardinalityType
<1>2. Bad \in SUBSET Nat /\ Cardinality(U) \in Bad
  BY <1>1
<1>3. Min(Bad) \in Bad /\ \A n \in Bad : Min(Bad) <= n
  <2> HIDE DEF Bad
  <2> QED
    BY <1>2, MinIn
<1>4. PICK T \in SUBSET S : T \notin Q /\ Min(Bad) = Cardinality(T)
  BY <1>3
<1>5. T # {} /\ First(T) \in T
  BY <1>4 DEF First
<1>6. T \ {First(T)} \in SUBSET S /\ T \ {First(T)} \notin Q
  BY <1>4, <1>5
<1>7. Cardinality(T \ {First(T)}) = Cardinality(T) - 1
  BY <1>1, <1>5, FS_RemoveElement
<1>8. Cardinality(T) <= Cardinality(T \ {First(T)})
  BY <1>3, <1>4, <1>6
<1> QED
  BY <1>1, <1>4, <1>7, <1>8

\* There is such a function: for the sets with at most n elements, for every n,
\* hence for all of them.
LEMMA SumsExist ==
  ASSUME NEW S, IsFiniteSet(S), NEW f
  PROVE  Unfolds(S, f)
<1> DEFINE Upto(n) == {T \in SUBSET S : Cardinality(T) <= n}
           Unfold(G, n) == [T \in Upto(n) |->
                      IF T = {} THEN 0 ELSE f[First(T)] + G[T \ {First(T)}]]
           Good == {n \in Nat : \E G : G = Unfold(G, n)}
<1>1. \A T \in SUBSET S : IsFiniteSet(T) /\ Cardinality(T) \in Nat
  BY FS_Subset, FS_CardinalityType
<1>2. \A T \in SUBSET S : T # {} =>
        First(T) \in T /\ T \ {First(T)} \in SUBSET S
        /\ Cardinality(T \ {First(T)}) = Cardinality(T) - 1
  <2> TAKE T \in SUBSET S
  <2> HAVE T # {}
  <2>1. First(T) \in T
    BY DEF First
  <2> QED
    BY <1>1, <2>1, FS_RemoveElement
<1>3. 0 \in Good
  <2>1. \A T \in Upto(0) : T = {}
    <3> SUFFICES ASSUME NEW T \in SUBSET S, Cardinality(T) <= 0, T # {} PROVE FALSE
      OBVIOUS
    <3>1. T \ {First(T)} \in SUBSET S /\ Cardinality(T \ {First(T)}) = Cardinality(T) - 1
      BY <1>2
    <3>2. Cardinality(T \ {First(T)}) \in Nat /\ Cardinality(T) \in Nat
      BY <3>1, <1>1
    <3> QED
      BY <3>1, <3>2
  <2> DEFINE G == [T \in Upto(0) |-> 0]
  <2>2. G = Unfold(G, 0)
    BY <2>1
  <2> QED
    BY <2>2
<1>4. \A n \in Good : n + 1 \in Good
  <2> TAKE n \in Good
  <2>1. PICK G : G = Unfold(G, n)
    OBVIOUS
  <2> DEFINE H == Unfold(G, n + 1)
  <2>2. \A T \in Upto(n) : T \in Upto(n + 1) /\ H[T] = G[T]
    <3> TAKE T \in Upto(n)
    <3>1. T \in Upto(n + 1)
      BY <1>1
    <3> QED
      BY <2>1, <3>1
  <2>3. \A T \in Upto(n + 1) : T # {} => T \ {First(T)} \in Upto(n)
    BY <1>1, <1>2
  <2>4. \A T \in Upto(n + 1) : T # {} => H[T \ {First(T)}] = G[T \ {First(T)}]
    BY <2>2, <2>3
  <2>5. H = Unfold(H, n + 1)
    BY <2>4
  <2>6. n + 1 \in Nat
    OBVIOUS
  <2> HIDE DEF H
  <2>7. \E F : F = Unfold(F, n + 1)
    BY <2>5
  <2> QED
    BY <2>6, <2>7
<1>5. Cardinality(S) \in Good
  <2> DEFINE Bad == {n \in Nat : n \notin Good}
  <2> SUFFICES ASSUME Cardinality(S) \notin Good PROVE FALSE
    OBVIOUS
  <2>1. Bad \in SUBSET Nat /\ Bad # {}
    BY FS_CardinalityType
  <2>2. Min(Bad) \in Bad /\ \A n \in Bad : Min(Bad) <= n
    <3> HIDE DEF Bad
    <3> QED
      BY <2>1, MinIn
  <2>3. PICK m \in Nat : m \notin Good /\ \A n \in Nat : n \notin Good => m <= n
    BY <2>2
  <2>4. m # 0 /\ m - 1 \in Nat /\ m - 1 \in Good
    <3> HIDE DEF Good
    <3> QED
      BY <2>3, <1>3
  <2>5. (m - 1) + 1 \in Good
    <3> HIDE DEF Good
    <3> QED
      BY <2>4, <1>4
  <2> QED
    <3> HIDE DEF Good
    <3> QED
      BY <2>3, <2>5
<1>6. Upto(Cardinality(S)) = SUBSET S
  BY FS_Subset, <1>1
<1>7. PICK G : G = [T \in SUBSET S |->
                      IF T = {} THEN 0 ELSE f[First(T)] + G[T \ {First(T)}]]
  BY <1>5, <1>6
<1>8. Sums(S, f) = [T \in SUBSET S |->
        IF T = {} THEN 0 ELSE f[First(T)] + Sums(S, f)[T \ {First(T)}]]
  BY <1>7 DEF Sums
<1> QED
  BY <1>8 DEF Unfolds

\* A sum of naturals is one.
LEMMA SumNat ==
  ASSUME NEW S, IsFiniteSet(S), NEW f \in [S -> Nat]
  PROVE  SumOver(S, f) \in Nat /\ \A T \in SUBSET S : Sums(S, f)[T] \in Nat
<1>0. Unfolds(S, f)
  BY SumsExist
<1> DEFINE Q == {T \in SUBSET S : Sums(S, f)[T] \in Nat}
<1>1. {} \in Q
  BY <1>0 DEF Unfolds
<1>2. \A T \in SUBSET S : T # {} /\ T \ {First(T)} \in Q => T \in Q
  <2> TAKE T \in SUBSET S
  <2> HAVE T # {} /\ T \ {First(T)} \in Q
  <2>1. First(T) \in S
    BY DEF First
  <2>2. Sums(S, f)[T] = f[First(T)] + Sums(S, f)[T \ {First(T)}]
    BY <1>0 DEF Unfolds
  <2> QED
    BY <2>1, <2>2
<1>3. \A T \in SUBSET S : T \in Q
  <2> HIDE DEF Q
  <2> QED
    BY <1>1, <1>2, FoldInduction
<1> QED
  BY <1>3, SumIsFold

\* When one term changes, the sum changes as much.
LEMMA SumChange ==
  ASSUME NEW S, IsFiniteSet(S), NEW f \in [S -> Nat], NEW h \in [S -> Nat],
         NEW x \in S, \A y \in S : y # x => h[y] = f[y]
  PROVE  SumOver(S, h) + f[x] = SumOver(S, f) + h[x]
<1>0. Unfolds(S, f) /\ Unfolds(S, h)
  BY SumsExist
<1> DEFINE F == Sums(S, f)
           H == Sums(S, h)
           Q == {T \in SUBSET S : IF x \in T THEN H[T] + f[x] = F[T] + h[x] ELSE H[T] = F[T]}
<1>1. \A T \in SUBSET S : F[T] \in Nat /\ H[T] \in Nat
  BY SumNat
<1>2. {} \in Q
  BY <1>0 DEF Unfolds
<1>3. \A T \in SUBSET S : T # {} /\ T \ {First(T)} \in Q => T \in Q
  <2> TAKE T \in SUBSET S
  <2> HAVE T # {} /\ T \ {First(T)} \in Q
  <2> DEFINE y == First(T)
             R == T \ {First(T)}
  <2>1. y \in T /\ y \in S
    BY DEF First
  <2>2. F[T] = f[y] + F[R] /\ H[T] = h[y] + H[R]
    <3>1. F[T] = f[y] + F[R]
      BY <1>0 DEF Unfolds
    <3>2. H[T] = h[y] + H[R]
      BY <1>0 DEF Unfolds
    <3> QED
      BY <3>1, <3>2
  <2>3. R \in SUBSET S /\ F[R] \in Nat /\ H[R] \in Nat /\ F[T] \in Nat /\ H[T] \in Nat
    BY <1>1
  <2>4. f[y] \in Nat /\ h[y] \in Nat /\ f[x] \in Nat /\ h[x] \in Nat
    BY <2>1
  <2>5. IF x \in R THEN H[R] + f[x] = F[R] + h[x] ELSE H[R] = F[R]
    OBVIOUS
  <2>6. CASE y = x
    <3>1. x \in T /\ x \notin R
      BY <2>6, <2>1
    <3>2. H[T] + f[x] = F[T] + h[x]
      <4> HIDE DEF F, H, y, R
      <4> QED
        BY <3>1, <2>2, <2>3, <2>4, <2>5, <2>6
    <3> QED
      BY <3>1, <3>2
  <2>7. CASE y # x
    <3>1. x \in T <=> x \in R
      BY <2>7
    <3>2. h[y] = f[y]
      BY <2>7, <2>1
    <3>3. IF x \in T THEN H[T] + f[x] = F[T] + h[x] ELSE H[T] = F[T]
      <4> HIDE DEF F, H, y, R
      <4> QED
        BY <3>1, <3>2, <2>2, <2>3, <2>4, <2>5
    <3> QED
      BY <3>3
  <2> QED
    BY <2>6, <2>7
<1>4. \A T \in SUBSET S : T \in Q
  <2> HIDE DEF Q
  <2> QED
    BY <1>2, <1>3, FoldInduction
<1>5. S \in Q
  BY <1>4
<1> QED
  BY <1>5, SumIsFold

\* Terms that are no larger than c add up to no more than c for each; terms that
\* are c, to exactly that.
LEMMA SumBound ==
  ASSUME NEW S, IsFiniteSet(S), NEW f \in [S -> Nat], NEW c \in Nat
  PROVE  /\ (\A x \in S : f[x] <= c) => SumOver(S, f) <= Cardinality(S) * c
         /\ (\A x \in S : f[x] = c) => SumOver(S, f) = Cardinality(S) * c
<1>0. Unfolds(S, f)
  BY SumsExist
<1> DEFINE F == Sums(S, f)
           Q == {T \in SUBSET S :
                   /\ (\A x \in S : f[x] <= c) => F[T] <= Cardinality(T) * c
                   /\ (\A x \in S : f[x] = c) => F[T] = Cardinality(T) * c}
<1>1. {} \in Q
  <2>1. F[{}] = 0
    BY <1>0 DEF Unfolds
  <2>2. Cardinality({}) * c = 0
    BY FS_EmptySet
  <2> QED
    BY <2>1, <2>2
<1>2. \A T \in SUBSET S : T # {} /\ T \ {First(T)} \in Q => T \in Q
  <2> TAKE T \in SUBSET S
  <2> HAVE T # {} /\ T \ {First(T)} \in Q
  <2> DEFINE y == First(T)
             R == T \ {First(T)}
  <2>1. y \in T /\ y \in S /\ f[y] \in Nat
    BY DEF First
  <2>2. F[T] = f[y] + F[R] /\ R \in SUBSET S /\ F[R] \in Nat
    <3>1. F[T] = f[y] + F[R]
      BY <1>0 DEF Unfolds
    <3>2. R \in SUBSET S /\ F[R] \in Nat
      BY SumNat
    <3> QED
      BY <3>1, <3>2
  <2>3. IsFiniteSet(T) /\ Cardinality(T) \in Nat
    BY FS_Subset, FS_CardinalityType
  <2>4. Cardinality(R) = Cardinality(T) - 1
    BY <2>1, <2>3, FS_RemoveElement
  <2>5. Cardinality(R) * c + c = Cardinality(T) * c /\ Cardinality(R) * c \in Int
        /\ Cardinality(T) * c \in Int
    <3>1. PICK n \in Int : n = Cardinality(R)
      BY <2>3, <2>4
    <3>2. PICK k \in Int : k = Cardinality(T)
      BY <2>3
    <3>3. k = n + 1
      BY <2>3, <2>4, <3>1, <3>2
    <3>4. n * c + c = (n + 1) * c /\ n * c \in Int /\ (n + 1) * c \in Int
      OBVIOUS
    <3> QED
      BY <3>1, <3>2, <3>3, <3>4
  <2>6. (\A x \in S : f[x] <= c) => F[T] <= Cardinality(T) * c
    <3> HAVE \A x \in S : f[x] <= c
    <3>1. F[R] <= Cardinality(R) * c /\ f[y] <= c
      BY <2>1
    <3> HIDE DEF F, R, y
    <3> QED
      BY <3>1, <2>1, <2>2, <2>5
  <2>7. (\A x \in S : f[x] = c) => F[T] = Cardinality(T) * c
    <3> HAVE \A x \in S : f[x] = c
    <3>1. F[R] = Cardinality(R) * c /\ f[y] = c
      BY <2>1
    <3> HIDE DEF F, R, y
    <3> QED
      BY <3>1, <2>1, <2>2, <2>5
  <2> QED
    BY <2>6, <2>7
<1>3. \A T \in SUBSET S : T \in Q
  <2> HIDE DEF Q
  <2> QED
    BY <1>1, <1>2, FoldInduction
<1>4. S \in Q
  BY <1>3
<1> QED
  BY <1>4, SumIsFold

\* A sum of zeros is zero.
LEMMA SumZero ==
  ASSUME NEW S, IsFiniteSet(S), NEW f \in [S -> Nat], \A x \in S : f[x] = 0
  PROVE  SumOver(S, f) = 0
<1>1. SumOver(S, f) = Cardinality(S) * 0
  BY SumBound
<1>2. Cardinality(S) \in Nat
  BY FS_CardinalityType
<1> QED
  BY <1>1, <1>2
-----------------------------------------------------------------------------
\* A list of elements of K has as many positions as it is long.
LEMMA ListFacts ==
  ASSUME NEW K, NEW n \in Nat, NEW s \in [1 .. n -> K]
  PROVE  DOMAIN s = 1 .. n /\ IsFiniteSet(1 .. n) /\ Cardinality(1 .. n) = n
         /\ (s = <<>> <=> n = 0)
<1>1. IsFiniteSet(1 .. n) /\ Cardinality(1 .. n) = n
  <2>1. Cardinality(1 .. n) = IF 1 > n THEN 0 ELSE n - 1 + 1
    BY FS_Interval
  <2> QED
    BY <2>1, FS_Interval
<1>2. s \in Seq(K) /\ Len(s) = n
  OBVIOUS
<1>3. s = <<>> <=> n = 0
  BY <1>2
<1> QED
  BY <1>1, <1>3
\* Keep keeps the elements of s that are in S, and no others.
LEMMA KeepIn ==
  ASSUME NEW K, NEW n \in Nat, NEW s \in [1 .. n -> K], NEW S
  PROVE  \E m \in Nat : /\ Keep(s, S) \in [1 .. m -> K]
                        /\ ToSet(Keep(s, S)) = ToSet(s) \cap S
<1>1. PICK P \in SUBSET (1 .. n) : P = {i \in DOMAIN s : s[i] \in S}
  OBVIOUS
<1>2. P \in SUBSET Nat /\ IsFiniteSet(P)
  <2>1. PICK D : D = 1 .. n
    OBVIOUS
  <2>2. IsFiniteSet(D) /\ P \in SUBSET D
    BY <2>1, ListFacts
  <2>3. IsFiniteSet(P)
    BY <2>2, FS_Subset
  <2> QED
    BY <2>3
<1>3. PICK m \in Nat : m = Cardinality(P)
  BY <1>2, FS_CardinalityType
<1>4. PICK kept \in [1 .. m -> P] : kept = InOrder(P)
  BY <1>2, <1>3, InOrderIn
<1>5. Keep(s, S) = [k \in 1 .. m |-> s[kept[k]]]
  BY <1>1, <1>4 DEF Keep
<1>6. Keep(s, S) \in [1 .. m -> K]
  BY <1>5
<1>7. \A x \in ToSet(Keep(s, S)) : x \in ToSet(s) \cap S
  BY <1>1, <1>5 DEF ToSet
<1>8. \A x \in ToSet(s) \cap S : x \in ToSet(Keep(s, S))
  <2> TAKE x \in ToSet(s) \cap S
  <2>1. PICK i \in P : x = s[i]
    BY <1>1 DEF ToSet
  <2>2. PICK k \in 1 .. m : kept[k] = i
    BY <1>2, <1>3, <1>4, InOrderOnto
  <2>3. x = Keep(s, S)[k]
    BY <1>5, <2>1, <2>2
  <2> QED
    BY <1>6, <2>3 DEF ToSet
<1> QED
  BY <1>6, <1>7, <1>8

\* The positions of s whose elements come before the one at i.
Cheaper(s, cost, i) ==
  {j \in DOMAIN s : cost[s[j]] < cost[s[i]] \/ (cost[s[j]] = cost[s[i]] /\ j < i)}

\* They are some of the others, and fewer for the one of two that comes first.
LEMMA CheaperGrows ==
  ASSUME NEW K, NEW cost \in [K -> Nat], NEW n \in Nat, NEW s \in [1 .. n -> K],
         NEW i \in 1 .. n
  PROVE  /\ IsFiniteSet(Cheaper(s, cost, i)) /\ Cardinality(Cheaper(s, cost, i)) \in 0 .. n - 1
         /\ \A j \in 1 .. n : j # i =>
              Cardinality(Cheaper(s, cost, j)) # Cardinality(Cheaper(s, cost, i))
<1>1. IsFiniteSet(1 .. n) /\ Cardinality(1 .. n) = n
  BY ListFacts
<1>2. \A j \in 1 .. n : /\ IsFiniteSet(Cheaper(s, cost, j))
                        /\ Cardinality(Cheaper(s, cost, j)) \in 0 .. n - 1
  <2> TAKE j \in 1 .. n
  <2>1. PICK C : C = Cheaper(s, cost, j)
    OBVIOUS
  <2>2. PICK D : D = 1 .. n
    OBVIOUS
  <2>3. IsFiniteSet(D) /\ Cardinality(D) = n /\ C \in SUBSET D /\ C # D
    <3>1. C \in SUBSET D /\ j \in D /\ j \notin C
      BY <2>1, <2>2 DEF Cheaper
    <3> QED
      BY <1>1, <2>2, <3>1
  <2>4. IsFiniteSet(C) /\ Cardinality(C) <= n /\ Cardinality(C) # n
    BY <2>3, FS_Subset
  <2>5. Cardinality(C) \in Nat
    BY <2>4, FS_CardinalityType
  <2> QED
    BY <2>1, <2>4, <2>5
<1>3. ASSUME NEW j \in 1 .. n, NEW k \in 1 .. n, j \in Cheaper(s, cost, k)
      PROVE  Cardinality(Cheaper(s, cost, j)) # Cardinality(Cheaper(s, cost, k))
  <2>1. PICK C, D : C = Cheaper(s, cost, j) /\ D = Cheaper(s, cost, k)
    OBVIOUS
  <2>2. \A l \in 1 .. n : cost[s[l]] \in Nat
    OBVIOUS
  <2>3. C \in SUBSET D /\ j \in D /\ j \notin C
    <3>1. ASSUME NEW l \in C PROVE l \in D
      BY <1>3, <2>1, <2>2, <3>1 DEF Cheaper
    <3>2. j \notin C
      BY <2>1, <2>2 DEF Cheaper
    <3> QED
      BY <1>3, <2>1, <3>1, <3>2
  <2>4. IsFiniteSet(D)
    BY <1>2, <2>1
  <2> QED
    BY <2>1, <2>3, <2>4, FS_Subset
<1>4. ASSUME NEW j \in 1 .. n, j # i
      PROVE  j \in Cheaper(s, cost, i) \/ i \in Cheaper(s, cost, j)
  <2>1. cost[s[i]] \in Nat /\ cost[s[j]] \in Nat
    OBVIOUS
  <2>2. j < i \/ i < j
    BY <1>4
  <2> QED
    BY <2>1, <2>2 DEF Cheaper
<1> QED
  BY <1>2, <1>3, <1>4

\* The sorted list has the elements of s, and none costs less than the first.
LEMMA SortedIn ==
  ASSUME NEW K, NEW cost \in [K -> Nat], NEW n \in Nat, NEW s \in [1 .. n -> K]
  PROVE  /\ SortedByCost(s, cost) \in [1 .. n -> K]
         /\ ToSet(SortedByCost(s, cost)) = ToSet(s)
         /\ n > 0 => \A x \in ToSet(s) : cost[SortedByCost(s, cost)[1]] <= cost[x]
<1>1. PICK rank : rank = [i \in 1 .. n |-> Cardinality(Cheaper(s, cost, i))]
  OBVIOUS
<1>2. rank \in [1 .. n -> 0 .. n - 1] /\ \A i, j \in 1 .. n : rank[i] = rank[j] => i = j
  <2>1. \A i \in 1 .. n : Cardinality(Cheaper(s, cost, i)) \in 0 .. n - 1
    BY CheaperGrows
  <2>2. \A i, j \in 1 .. n : i # j =>
          Cardinality(Cheaper(s, cost, i)) # Cardinality(Cheaper(s, cost, j))
    BY CheaperGrows
  <2> QED
    BY <1>1, <2>1, <2>2
<1>3. \A k \in 1 .. n : \E i \in 1 .. n : rank[i] = k - 1
  <2>1. IsFiniteSet(1 .. n) /\ Cardinality(1 .. n) = n
    BY ListFacts
  <2>2. IsFiniteSet(0 .. n - 1) /\ Cardinality(0 .. n - 1) = n
    <3>1. n - 1 \in Int /\ 0 \in Int
      OBVIOUS
    <3>2. Cardinality(0 .. n - 1) = IF 0 > n - 1 THEN 0 ELSE (n - 1) - 0 + 1
      BY <3>1, FS_Interval
    <3> QED
      BY <3>1, <3>2, FS_Interval
  <2>3. rank \in Injection(1 .. n, 0 .. n - 1)
    BY <1>2 DEF IsInjective, Injection
  <2>4. rank \in Surjection(1 .. n, 0 .. n - 1)
    BY <2>1, <2>2, <2>3, FS_Injection
  <2> TAKE k \in 1 .. n
  <2>5. k - 1 \in 0 .. n - 1
    OBVIOUS
  <2> QED
    BY <2>4, <2>5 DEF Surjection
<1> DEFINE before == [i \in DOMAIN s |-> {j \in DOMAIN s :
                        cost[s[j]] < cost[s[i]] \/ (cost[s[j]] = cost[s[i]] /\ j < i)}]
           chosen == [k \in DOMAIN s |-> CHOOSE i \in DOMAIN s : Cardinality(before[i]) = k - 1]
<1>4. \A i \in DOMAIN s : Cardinality(before[i]) = rank[i]
  BY <1>1 DEF Cheaper
<1>5. SortedByCost(s, cost) = [k \in DOMAIN s |-> s[chosen[k]]]
  BY DEF SortedByCost
<1> HIDE DEF before
<1>6. PICK at \in [1 .. n -> 1 .. n] :
        /\ \A k \in 1 .. n : rank[at[k]] = k - 1
        /\ SortedByCost(s, cost) = [k \in 1 .. n |-> s[at[k]]]
  <2>1. \A k \in 1 .. n : chosen[k] \in 1 .. n /\ rank[chosen[k]] = k - 1
    BY <1>3, <1>4
  <2>2. DOMAIN s = 1 .. n /\ DOMAIN chosen = 1 .. n
    OBVIOUS
  <2> HIDE DEF chosen
  <2>3. SortedByCost(s, cost) = [k \in 1 .. n |-> s[chosen[k]]]
    BY <1>5, <2>2
  <2>4. PICK at : at = [k \in 1 .. n |-> chosen[k]]
    OBVIOUS
  <2>5. at \in [1 .. n -> 1 .. n] /\ \A k \in 1 .. n : rank[at[k]] = k - 1
    BY <2>1, <2>4
  <2>6. SortedByCost(s, cost) = [k \in 1 .. n |-> s[at[k]]]
    BY <2>3, <2>4
  <2> QED
    BY <2>5, <2>6
<1>7. SortedByCost(s, cost) \in [1 .. n -> K]
  BY <1>6
<1>8. ToSet(SortedByCost(s, cost)) = ToSet(s)
  <2>1. \A i \in 1 .. n : \E k \in 1 .. n : at[k] = i
    <3> TAKE i \in 1 .. n
    <3>1. rank[i] \in 0 .. n - 1
      BY <1>2
    <3>2. PICK k \in 1 .. n : k - 1 = rank[i]
      <4>1. PICK q \in 0 .. n - 1 : q = rank[i]
        BY <3>1
      <4>2. q + 1 \in 1 .. n /\ (q + 1) - 1 = q
        OBVIOUS
      <4> QED
        BY <4>1, <4>2
    <3> QED
      BY <1>2, <1>6, <3>2
  <2>2. \A x \in ToSet(s) : x \in ToSet(SortedByCost(s, cost))
    <3> TAKE x \in ToSet(s)
    <3>1. PICK i \in 1 .. n : x = s[i]
      BY DEF ToSet
    <3>2. PICK k \in 1 .. n : at[k] = i
      BY <2>1
    <3>3. x = SortedByCost(s, cost)[k] /\ DOMAIN SortedByCost(s, cost) = 1 .. n
      BY <1>6, <3>1, <3>2
    <3> QED
      BY <3>3 DEF ToSet
  <2>3. \A x \in ToSet(SortedByCost(s, cost)) : x \in ToSet(s)
    BY <1>6 DEF ToSet
  <2> QED
    BY <2>2, <2>3
<1>9. ASSUME n > 0, NEW x \in ToSet(s) PROVE cost[SortedByCost(s, cost)[1]] <= cost[x]
  <2>1. 1 \in 1 .. n /\ 1 - 1 = 0
    BY <1>9
  <2>2. PICK i \in 1 .. n : i = at[1] /\ rank[i] = 0
    BY <1>6, <2>1
  <2>3. Cheaper(s, cost, i) = {}
    <3>1. IsFiniteSet(Cheaper(s, cost, i)) /\ Cardinality(Cheaper(s, cost, i)) = 0
      BY <1>1, <2>2, CheaperGrows
    <3> QED
      BY <3>1, FS_EmptySet
  <2>4. PICK j \in 1 .. n : x = s[j]
    BY <1>9 DEF ToSet
  <2>5. ~(cost[s[j]] < cost[s[i]])
    BY <2>3 DEF Cheaper
  <2>6. cost[s[j]] \in Nat /\ cost[s[i]] \in Nat
    OBVIOUS
  <2> QED
    BY <1>6, <2>1, <2>2, <2>4, <2>5, <2>6
<1> QED
  BY <1>7, <1>8, <1>9

\* The models that can serve a request.
Capable(reg, req) ==
  {k \in Keys(reg) : /\ req.cost_tier \in reg.models[k].tiers
                     /\ k \notin req.exclude /\ CanServe(reg.models[k], req)}

\* What a call costs is a natural.
LEMMA CostNat ==
  ASSUME NEW reg, ValidRegistry(reg), NEW k \in Keys(reg), NEW in \in Nat, NEW out \in Nat
  PROVE  CostUsd(reg.models[k], in, out) \in Nat
<1>1. PICK p \in Nat, q \in Nat :
        p = reg.models[k].input_per_mtok /\ q = reg.models[k].output_per_mtok
  BY DEF ValidRegistry, ValidModel
<1>2. in * p \in Nat /\ out * q \in Nat
  OBVIOUS
<1>3. in * p + out * q \in Nat
  BY <1>2
<1> QED
  BY <1>1, <1>3 DEF CostUsd

\* for_tier lists the models of the tier.
LEMMA ForTierIn ==
  ASSUME NEW reg, ValidRegistry(reg), NEW tier
  PROVE  \E m \in Nat : /\ ForTier(reg, tier) \in [1 .. m -> Keys(reg)]
                        /\ ToSet(ForTier(reg, tier)) = {k \in Keys(reg) : tier \in reg.models[k].tiers}
<1>1. PICK n \in Nat : n = Len(reg.models) /\ Keys(reg) = 1 .. n
  BY DEF ValidRegistry, Keys
<1>2. PICK T : T = {k \in Keys(reg) : tier \in reg.models[k].tiers}
  OBVIOUS
<1>3. PICK K : K = Keys(reg)
  OBVIOUS
<1>4. PICK all : all = [k \in Keys(reg) |-> k]
  OBVIOUS
<1>5. all \in [1 .. n -> K] /\ ToSet(all) = K
  BY <1>1, <1>3, <1>4 DEF ToSet
<1>6. PICK list : list = Keep(all, T)
  OBVIOUS
<1>7. PICK m \in Nat : list \in [1 .. m -> K] /\ ToSet(list) = K \cap T
  <2>1. all \in [1 .. n -> K]
    BY <1>5
  <2>2. \E m \in Nat : Keep(all, T) \in [1 .. m -> K] /\ ToSet(Keep(all, T)) = ToSet(all) \cap T
    BY <2>1, KeepIn
  <2> QED
    BY <1>5, <1>6, <2>2
<1>8. PICK cost : cost = [k \in Keys(reg) |-> CostUsd(reg.models[k], 1, 1)]
  OBVIOUS
<1>9. cost \in [K -> Nat]
  <2>1. \A k \in Keys(reg) : CostUsd(reg.models[k], 1, 1) \in Nat
    BY CostNat
  <2> QED
    BY <1>3, <1>8, <2>1
<1>10. ForTier(reg, tier) = SortedByCost(list, cost)
  BY <1>2, <1>4, <1>6, <1>8 DEF ForTier
<1>11. SortedByCost(list, cost) \in [1 .. m -> K] /\ ToSet(SortedByCost(list, cost)) = K \cap T
  BY <1>7, <1>9, SortedIn
<1> QED
  BY <1>2, <1>3, <1>10, <1>11

\* eligible, those of them that can serve the request.
LEMMA EligibleIn ==
  ASSUME NEW reg, ValidRegistry(reg), NEW req
  PROVE  \E m \in Nat : /\ Eligible(reg, req) \in [1 .. m -> Keys(reg)]
                        /\ ToSet(Eligible(reg, req)) = Capable(reg, req)
<1>1. PICK list : list = ForTier(reg, req.cost_tier)
  OBVIOUS
<1>2. PICK K : K = Keys(reg)
  OBVIOUS
<1>3. PICK n \in Nat : /\ list \in [1 .. n -> K]
                       /\ ToSet(list) = {k \in K : req.cost_tier \in reg.models[k].tiers}
  BY <1>1, <1>2, ForTierIn
<1>4. PICK S : S = {k \in Keys(reg) : k \notin req.exclude /\ CanServe(reg.models[k], req)}
  OBVIOUS
<1>5. Eligible(reg, req) = Keep(list, S)
  BY <1>1, <1>4 DEF Eligible
<1>6. PICK m \in Nat : Keep(list, S) \in [1 .. m -> K] /\ ToSet(Keep(list, S)) = ToSet(list) \cap S
  <2>1. list \in [1 .. n -> K]
    BY <1>3
  <2> QED
    BY <2>1, KeepIn
<1>7. ToSet(list) \cap S = Capable(reg, req)
  BY <1>2, <1>3, <1>4 DEF Capable
<1> QED
  BY <1>2, <1>5, <1>6, <1>7

\* select decides for the cheapest model that can serve the request, and for none
\* only if there is none.
LEMMA QuoteBest ==
  ASSUME NEW reg, ValidRegistry(reg), NEW req, req.input \in Nat, req.output \in Nat
  PROVE  /\ Quote(reg, req).cost \in Nat
         /\ CostsOfCapable(reg, req) \in SUBSET Nat
         /\ CostsOfCapable(reg, req) = {} => Quote(reg, req) = NoQuote
         /\ CostsOfCapable(reg, req) # {} =>
              /\ Quote(reg, req) # NoQuote /\ Quote(reg, req).cost \in CostsOfCapable(reg, req)
              /\ \A c \in CostsOfCapable(reg, req) : Quote(reg, req).cost <= c
<1>1. PICK K : K = Keys(reg)
  OBVIOUS
<1>2. PICK list : list = Eligible(reg, req)
  OBVIOUS
<1>3. PICK n \in Nat : list \in [1 .. n -> K] /\ ToSet(list) = Capable(reg, req)
  BY <1>1, <1>2, EligibleIn
<1>4. PICK cost : cost = [k \in Keys(reg) |-> Projected(reg, req, k)]
  OBVIOUS
<1>5. cost \in [K -> Nat] /\ 0 \notin K
  <2>1. \A k \in Keys(reg) : Projected(reg, req, k) \in Nat
    BY CostNat DEF Projected
  <2>2. 0 \notin Keys(reg)
    BY DEF Keys, ValidRegistry
  <2> QED
    BY <1>1, <1>4, <2>1, <2>2
<1>6. CostsOfCapable(reg, req) = {cost[k] : k \in Capable(reg, req)} /\ Capable(reg, req) \in SUBSET K
  BY <1>1, <1>4 DEF CostsOfCapable, Capable
<1>7. CostsOfCapable(reg, req) \in SUBSET Nat
  BY <1>5, <1>6
<1>8. CASE n = 0
  <2>1. list = <<>> /\ ToSet(list) = {}
    BY <1>3, <1>8, ListFacts DEF ToSet
  <2>2. Quote(reg, req) = NoQuote /\ Quote(reg, req).cost = 0
    BY <1>2, <2>1 DEF Quote, NoQuote
  <2> QED
    BY <1>3, <1>6, <1>7, <2>1, <2>2
<1>9. CASE n > 0
  <2>1. list # <<>> /\ 1 \in 1 .. n
    BY <1>3, <1>9, ListFacts
  <2>2. PICK best : best = SortedByCost(list, cost)
    OBVIOUS
  <2>3. best \in [1 .. n -> K] /\ ToSet(best) = ToSet(list)
        /\ \A x \in ToSet(list) : cost[best[1]] <= cost[x]
    BY <1>3, <1>5, <1>9, <2>2, SortedIn
  <2>4. PICK k \in K : k = best[1]
    BY <2>1, <2>3
  <2>5. k \in Capable(reg, req)
    BY <1>3, <2>1, <2>3, <2>4 DEF ToSet
  <2>6. Head(best) = k
    BY <2>1, <2>3, <2>4
  <2>7. Quote(reg, req) = [key |-> k, cost |-> cost[k]]
    BY <1>1, <1>2, <1>4, <2>1, <2>2, <2>6 DEF Quote, Scored
  <2>8. Quote(reg, req) # NoQuote /\ Quote(reg, req).cost = cost[k]
    BY <1>5, <2>7 DEF NoQuote
  <2>9. cost[k] \in CostsOfCapable(reg, req) /\ \A c \in CostsOfCapable(reg, req) : cost[k] <= c
    BY <1>3, <1>6, <2>3, <2>4, <2>5
  <2> QED
    BY <1>7, <2>8, <2>9
<1> QED
  BY <1>8, <1>9

\* A token estimate is a natural.
LEMMA EstimateNat ==
  ASSUME NEW n \in Nat
  PROVE  EstimateTextTokens(n) \in Nat
BY DEF EstimateTextTokens, CharsPerToken

\* So is the one of a list of texts.
LEMMA EstimatesNat ==
  ASSUME NEW list \in Seq(Nat), NEW more \in Nat
  PROVE  SumOver(DOMAIN list, [n \in DOMAIN list |-> EstimateTextTokens(list[n]) + more]) \in Nat
<1>1. PICK m \in Nat : m = Len(list) /\ list \in [1 .. m -> Nat]
  OBVIOUS
<1>2. PICK D : D = DOMAIN list
  OBVIOUS
<1>3. IsFiniteSet(D) /\ \A n \in D : list[n] \in Nat
  BY <1>1, <1>2, ListFacts
<1>4. PICK f : f = [n \in DOMAIN list |-> EstimateTextTokens(list[n]) + more]
  OBVIOUS
<1>5. f \in [D -> Nat]
  <2>1. \A n \in D : EstimateTextTokens(list[n]) \in Nat
    BY <1>3, EstimateNat
  <2>2. \A n \in D : EstimateTextTokens(list[n]) + more \in Nat
    BY <2>1
  <2> QED
    BY <1>2, <1>4, <2>2
<1>6. SumOver(D, f) \in Nat
  BY <1>3, <1>5, SumNat
<1> QED
  BY <1>2, <1>4, <1>6

\* A request that LLMClient.complete makes of the router has token counts.
LEMMA RequestTokens ==
  ASSUME NEW call, ValidCall(call)
  PROVE  RouteRequest(call).input \in Nat /\ RouteRequest(call).output \in Nat
<1>1. RouteRequest(call).input \in Nat
  <2>1. EstimateTextTokens(call.system) \in Nat
    BY EstimateNat DEF ValidCall
  <2>2. SumOver(DOMAIN call.messages,
                [n \in DOMAIN call.messages |->
                   EstimateTextTokens(call.messages[n]) + PerMessageOverhead]) \in Nat
    BY EstimatesNat DEF ValidCall, PerMessageOverhead
  <2>3. SumOver(DOMAIN call.tools,
                [n \in DOMAIN call.tools |-> EstimateTextTokens(call.tools[n])]) \in Nat
    <3>1. \A n \in DOMAIN call.tools : EstimateTextTokens(call.tools[n]) \in Nat
      <4> TAKE n \in DOMAIN call.tools
      <4>1. call.tools[n] \in Nat
        BY DEF ValidCall
      <4> QED
        BY <4>1, EstimateNat
    <3>2. [n \in DOMAIN call.tools |-> EstimateTextTokens(call.tools[n]) + 0]
            = [n \in DOMAIN call.tools |-> EstimateTextTokens(call.tools[n])]
      BY <3>1
    <3>3. SumOver(DOMAIN call.tools,
                  [n \in DOMAIN call.tools |-> EstimateTextTokens(call.tools[n]) + 0]) \in Nat
      BY EstimatesNat DEF ValidCall
    <3> QED
      BY <3>2, <3>3
  <2> QED
    BY <2>1, <2>2, <2>3 DEF RouteRequest, EstimateMessageTokens
<1>2. RouteRequest(call).output \in Nat
  <2>1. Min({call.max_tokens, 1024}) \in {call.max_tokens, 1024}
    <3>1. PICK S : S = {call.max_tokens, 1024}
      OBVIOUS
    <3>2. S \in SUBSET Nat /\ S # {}
      BY <3>1 DEF ValidCall
    <3>3. Min(S) \in S
      BY <3>2, MinIn
    <3> QED
      BY <3>1, <3>3
  <2>2. Min({call.max_tokens, 1024}) \in Nat
    BY <2>1 DEF ValidCall
  <2> QED
    BY <2>2 DEF RouteRequest, ValidCall
<1> QED
  BY <1>1, <1>2

\* No term is larger than the sum.
LEMMA TermBound ==
  ASSUME NEW S, IsFiniteSet(S), NEW f \in [S -> Nat], NEW x \in S
  PROVE  f[x] <= SumOver(S, f)
<1>1. PICK h : h = [y \in S |-> IF y = x THEN 0 ELSE f[y]]
  OBVIOUS
<1>2. h \in [S -> Nat] /\ h[x] = 0 /\ \A y \in S : y # x => h[y] = f[y]
  BY <1>1
<1>3. SumOver(S, h) + f[x] = SumOver(S, f) + h[x]
  BY <1>2, SumChange
<1>4. PICK a \in Nat, b \in Nat : a = SumOver(S, h) /\ b = SumOver(S, f)
  BY <1>2, SumNat
<1>5. a + f[x] = b + 0 /\ f[x] \in Nat
  BY <1>2, <1>3, <1>4
<1>6. f[x] <= b
  BY <1>5
<1> QED
  BY <1>4, <1>6

\* Max of finitely many costs is one of them.
LEMMA GreatestCost ==
  ASSUME NEW P, IsFiniteSet(P), P # {}, NEW f \in [P -> Nat], NEW C, C = {f[p] : p \in P}
  PROVE  Max(C) \in C /\ \A c \in C : c <= Max(C)
<1>1. PICK b \in Nat : b = SumOver(P, f)
  BY SumNat
<1>2. \A p \in P : f[p] <= b /\ f[p] \in Nat
  BY <1>1, TermBound
<1>3. C \in SUBSET Nat /\ C # {} /\ \A c \in C : c <= b
  BY <1>2
<1>4. PICK m \in C : \A c \in C : c <= m
  BY <1>3, GreatestIn
<1>5. \A c \in C : m >= c
  BY <1>3, <1>4
<1>6. Max(C) \in C /\ \A c \in C : Max(C) >= c
  BY <1>5 DEF Max
<1>7. \A c \in C : c <= Max(C)
  BY <1>3, <1>6
<1> QED
  BY <1>6, <1>7
-----------------------------------------------------------------------------
Pcs == {"idle", "view", "exec", "ledger"}
Results == {"none", "run", "ok", "retryable", "fatal", "budget"}
Statuses == {"running", "paused", "waiting", "failed", "completed"}
StepStates == {"ready", "running", "failed", "completed"}
Views == [workflow : Int, daily : Int]

Folded ==
  [status : Statuses, st : [Steps -> StepStates], att : [Steps -> Nat],
   err : [Steps -> Results \ {"run"}], recorded : [Steps -> 0 .. Calls],
   spent : Nat, limit : Limits \cup {RaisedLimit}]

Drives ==
  [pc : Pcs, on : Insts \cup {"none"}, fresh : BOOLEAN, view : Views,
   at : [Steps -> Attempts], due : Nat]

\* The types of everything.
MoneyShape ==
  /\ ledger \in [1 .. Days -> Nat] /\ today \in 1 .. Days
  /\ bill \in Nat /\ lost \in Nat /\ missed \in Nat
  /\ paid \in [Insts -> [Steps -> [1 .. Calls -> Nat]]]

Shape ==
  /\ inst \in [Insts -> Folded]
  /\ wk \in [Workers -> Drives]
  /\ holder \in [Insts -> Workers \cup {NoWorker}]
  /\ MoneyShape
  /\ faults \in 0 .. MaxFaults

\* Nothing is replayed; an attempt that has not failed has all its recordings;
\* none of its calls has cost more than the dearest may.
AttemptOK(a) ==
  /\ a.replay = 0
  /\ a.res \in {"run", "ok"} => a.recordings = a.made
  /\ a.res = "ok" => a.made = Calls
  /\ a.charges <= a.made * MaxCallCost

Driving(d) == d.pc \in {"view", "exec"}

\* What a drive holds in its hands: charges before the append, a debt to the
\* ledger after it; no charges under a view that left nothing of the day's budget.
DriveOK(d) ==
  /\ d.pc # "idle" => d.on \in Insts
  /\ \A s \in Steps : AttemptOK(d.at[s])
  /\ ~Driving(d) => d.at = [s \in Steps |-> NoAttempt]
  /\ d.pc # "exec" \/ d.view.daily < 0 => \A s \in Steps : d.at[s].charges = 0
  /\ d.pc # "ledger" => d.due = 0
  /\ d.due <= MaxWaveCost

\* A drive that is still up to date runs exactly the steps that are RUNNING.
FreshOK(d) ==
  d.fresh /\ Driving(d) =>
    /\ inst[d.on].status = "running"
    /\ \A s \in Steps : d.at[s].res # "none" <=> inst[d.on].st[s] = "running"

UpToDate(w, i) == wk[w].fresh /\ Driving(wk[w]) /\ wk[w].on = i

\* At most one drive of an instance is up to date.
Alone == \A v, w \in Workers, i \in Insts : UpToDate(v, i) /\ UpToDate(w, i) => v = w

\* The drive that holds the lease is.
Held(i) ==
  holder[i] # NoWorker =>
    /\ wk[holder[i]].on = i /\ wk[holder[i]].pc # "idle"
    /\ Driving(wk[holder[i]]) => wk[holder[i]].fresh
    /\ wk[holder[i]].pc = "ledger" => \A s \in Steps : inst[i].st[s] # "running"

Raised(i) == IF inst[i].limit < RaisedLimit THEN 0 ELSE 1

\* How often a step may have been tried: each lapse or crash, and the one larger
\* budget, give it another attempt.
Tries(i) ==
  /\ inst[i].status = "waiting" => \E s \in Steps : inst[i].st[s] = "failed"
  /\ \A s \in Steps :
       /\ inst[i].att[s] <= MaxRetries + 1 + faults + Raised(i)
       /\ \/ inst[i].st[s] = "ready"
          \/ inst[i].st[s] = "running" /\ holder[i] = NoWorker
          => inst[i].att[s] <= MaxRetries + faults + Raised(i)

\* d has spent, or may spend, what the day's ledger does not know of.
Live(d) == (d.pc = "exec" /\ d.view.daily >= 0) \/ (d.pc = "ledger" /\ d.due > 0)

Cap == DailyLimit + Cardinality(Workers) * MaxWaveCost

MayCost == [w \in Workers |-> IF Live(wk[w]) THEN MaxWaveCost ELSE 0]

\* Once the limit is passed nobody joins those who may still spend.
Overspend ==
  /\ TenantOverspendBounded
  /\ \A d \in 1 .. Days : d > today => ledger[d] = 0
  /\ ledger[today] <= DailyLimit \/ ledger[today] + SumOver(Workers, MayCost) <= Cap

Control ==
  /\ Shape
  /\ \A w \in Workers : DriveOK(wk[w])
  /\ \A w \in Workers : FreshOK(wk[w])
  /\ Alone
  /\ \A i \in Insts : Held(i)
  /\ \A i \in Insts : Tries(i)
  /\ OnlyResultsAreReplayed

Accounts == BillIsLogged /\ LedgerIsComplete /\ Overspend

IInv == Control /\ Accounts
-----------------------------------------------------------------------------
\* Fields of a folded instance.
LEMMA FoldedFields ==
  ASSUME NEW r \in Folded
  PROVE  /\ r.status \in Statuses /\ r.st \in [Steps -> StepStates] /\ r.att \in [Steps -> Nat]
         /\ r.err \in [Steps -> Results \ {"run"}] /\ r.recorded \in [Steps -> 0 .. Calls]
         /\ r.spent \in Nat /\ r.limit \in Nat /\ r.limit \in Limits \cup {RaisedLimit}
<1>1. Limits \cup {RaisedLimit} \subseteq Nat
  BY SpendingAssumption
<1> QED
  BY <1>1 DEF Folded

\* Fields of a drive.
LEMMA DriveFields ==
  ASSUME NEW d \in Drives
  PROVE  /\ d.pc \in Pcs /\ d.on \in Insts \cup {"none"} /\ d.fresh \in BOOLEAN
         /\ d.view \in Views /\ d.at \in [Steps -> Attempts] /\ d.due \in Nat
BY DEF Drives

\* Fields of an attempt.
LEMMA AttemptFields ==
  ASSUME NEW a \in Attempts
  PROVE  /\ a.replay \in 0 .. Calls /\ a.made \in 0 .. Calls /\ a.charges \in Nat
         /\ a.recordings \in 0 .. Calls /\ a.res \in Results
BY DEF Attempts, Results

\* The constants.
LEMMA ConstantFacts ==
  /\ N \in Nat \ {0} /\ Calls \in Nat \ {0} /\ Days \in Nat \ {0} /\ 1 \in 1 .. Days
  /\ RaisedLimit \in Nat /\ DailyLimit \in Nat /\ MaxRetries \in Nat /\ MaxFaults \in Nat
  /\ IsFiniteSet(Insts) /\ IsFiniteSet(Workers) /\ NoWorker \notin Workers
  /\ IsFiniteSet(Steps) /\ Cardinality(Steps) = N /\ Steps \in SUBSET Nat
  /\ IsFiniteSet(1 .. Days) /\ Cardinality(Workers) \in Nat
<1>1. IsFiniteSet(Steps) /\ Cardinality(Steps) = N
  <2>1. Cardinality(1 .. N) = IF 1 > N THEN 0 ELSE N - 1 + 1
    BY SpendingAssumption, FS_Interval
  <2> QED
    BY <2>1, SpendingAssumption, FS_Interval DEF Steps
<1>2. IsFiniteSet(1 .. Days) /\ Cardinality(Workers) \in Nat
  BY SpendingAssumption, FS_Interval, FS_CardinalityType
<1> QED
  BY <1>1, <1>2, SpendingAssumption DEF Steps

\* No call costs more than MaxCallCost.
LEMMA CallCost ==
  /\ MaxCallCost \in Nat
  /\ \A m \in Keys(Registry), u \in Usage :
       /\ CostUsd(Registry.models[m], u[1], u[2]) \in Nat
       /\ CostUsd(Registry.models[m], u[1], u[2]) <= MaxCallCost
<1>1. PICK K : K = Keys(Registry)
  OBVIOUS
<1>2. IsFiniteSet(K) /\ K # {}
  <2>1. PICK n \in Nat \ {0} : n = Len(Registry.models)
    BY SpendingAssumption DEF ValidRegistry
  <2>2. IsFiniteSet(1 .. n) /\ 1 \in 1 .. n
    BY FS_Interval
  <2> QED
    BY <1>1, <2>1, <2>2 DEF Keys
<1>3. PICK P : P = K \X Usage
  OBVIOUS
<1>4. IsFiniteSet(P) /\ P # {}
  <2>1. IsFiniteSet(P)
    BY <1>2, <1>3, SpendingAssumption, FS_Product
  <2>2. PICK k \in K, u \in Usage : TRUE
    BY <1>2, SpendingAssumption
  <2>3. <<k, u>> \in P
    BY <1>3
  <2> QED
    BY <2>1, <2>3
<1>5. PICK f : f = [c \in P |-> CostUsd(Registry.models[c[1]], c[2][1], c[2][2])]
  OBVIOUS
<1>6. f \in [P -> Nat]
  <2>1. \A c \in P : c[1] \in Keys(Registry) /\ c[2][1] \in Nat /\ c[2][2] \in Nat
    BY <1>1, <1>3, SpendingAssumption
  <2>2. \A c \in P : CostUsd(Registry.models[c[1]], c[2][1], c[2][2]) \in Nat
    BY <2>1, SpendingAssumption, CostNat
  <2> QED
    BY <1>5, <2>2
<1>7. PICK C : C = {f[c] : c \in P}
  OBVIOUS
<1>8. Max(C) \in C /\ \A c \in C : c <= Max(C)
  BY <1>4, <1>6, <1>7, GreatestCost
<1>9. Max(C) = MaxCallCost
  <2>1. C = {CostUsd(Registry.models[c[1]], c[2][1], c[2][2]) : c \in Keys(Registry) \X Usage}
    BY <1>1, <1>3, <1>5, <1>7
  <2> QED
    BY <2>1 DEF MaxCallCost
<1>10. MaxCallCost \in Nat
  BY <1>6, <1>7, <1>8, <1>9
<1>11. ASSUME NEW m \in Keys(Registry), NEW u \in Usage
       PROVE  /\ CostUsd(Registry.models[m], u[1], u[2]) \in Nat
              /\ CostUsd(Registry.models[m], u[1], u[2]) <= MaxCallCost
  <2>1. PICK c \in P : c[1] = m /\ c[2] = u
    <3>1. <<m, u>> \in P /\ <<m, u>>[1] = m /\ <<m, u>>[2] = u
      BY <1>1, <1>3, <1>11
    <3> QED
      BY <3>1
  <2>2. f[c] = CostUsd(Registry.models[m], u[1], u[2])
    BY <1>5, <2>1
  <2>3. f[c] \in Nat /\ f[c] \in C
    BY <1>6, <1>7
  <2> QED
    BY <1>8, <1>9, <2>2, <2>3
<1> QED
  BY <1>10, <1>11

\* The chain of a step is finite.
LEMMA ChainFinite ==
  ASSUME NEW s \in Steps
  PROVE  IsFiniteSet(Answering(s)) /\ \A n : IsFiniteSet(TriedBefore(s, n))
<1>1. PICK req : req = RouteRequest(Request[s])
  OBVIOUS
<1>2. PICK K : K = Keys(Registry)
  OBVIOUS
<1>3. PICK chain \in Seq(K) : chain = Registry.chains[req.cost_tier]
  <2>1. req.cost_tier = Request[s].tier /\ Request[s].tier \in DOMAIN Registry.chains
    BY <1>1, SpendingAssumption DEF RouteRequest
  <2>2. Registry.chains[Request[s].tier] \in Seq(Keys(Registry))
    BY <2>1, SpendingAssumption DEF ValidRegistry
  <2> QED
    BY <1>2, <2>1, <2>2
<1>4. PICK n \in Nat : chain \in [1 .. n -> K]
  OBVIOUS
<1>5. PICK first, S : Tried[s] = <<first>> \o Keep(chain, S)
  BY <1>1, <1>3 DEF Tried, Route, ModelsToTry
<1>6. PICK m \in Nat : Keep(chain, S) \in [1 .. m -> K]
  BY <1>4, KeepIn
<1>7. PICK D : D = DOMAIN Tried[s]
  OBVIOUS
<1>8. IsFiniteSet(D)
  <2>1. PICK kept : kept = Keep(chain, S) /\ kept \in [1 .. m -> K]
    BY <1>6
  <2>2. kept \in Seq(K \cup {first}) /\ <<first>> \in Seq(K \cup {first})
    BY <2>1
  <2>3. PICK k \in Nat : DOMAIN (<<first>> \o kept) = 1 .. k
    BY <2>2
  <2>4. D = 1 .. k
    BY <1>5, <1>7, <2>1, <2>3
  <2> QED
    BY <2>4, FS_Interval
<1>9. Answering(s) \in SUBSET D /\ \A k : TriedBefore(s, k) \in SUBSET D
  BY <1>7 DEF Answering, TriedBefore
<1> QED
  BY <1>8, <1>9, FS_Subset

\* An answer that is dropped costs something, or nothing; so do several.
LEMMA DroppedNat ==
  ASSUME NEW s \in Steps, NEW P \in SUBSET Answering(s), NEW waste \in Dropped(s, P)
  PROVE  waste \in Nat
<1>1. PICK u \in [P -> Usage \cup {NoUsage}] :
        waste = SumOver(P, [n \in P |-> PriceOf(s, n, u[n])])
  BY DEF Dropped
<1>2. PICK f : f = [n \in P |-> PriceOf(s, n, u[n])]
  OBVIOUS
<1>3. \A n \in P : PriceOf(s, n, u[n]) \in Nat
  <2> TAKE n \in P
  <2>1. PICK m \in Keys(Registry) : m = Tried[s][n]
    BY DEF Answering
  <2>2. u[n][1] \in Nat /\ u[n][2] \in Nat
    BY <1>1, SpendingAssumption DEF NoUsage
  <2>3. CostUsd(Registry.models[m], u[n][1], u[n][2]) \in Nat
    BY <2>2, SpendingAssumption, CostNat
  <2> QED
    BY <2>1, <2>3 DEF PriceOf
<1>4. f \in [P -> Nat]
  BY <1>2, <1>3
<1>5. IsFiniteSet(P)
  BY ChainFinite, FS_Subset
<1> QED
  BY <1>1, <1>2, <1>4, <1>5, SumNat

\* A projection is not negative.
LEMMA QuoteCost ==
  ASSUME NEW s \in Steps
  PROVE  Quotes[s].cost \in Nat
<1>1. PICK req : req = RouteRequest(Request[s])
  OBVIOUS
<1>2. req.input \in Nat /\ req.output \in Nat
  BY <1>1, SpendingAssumption, RequestTokens
<1>3. Quote(Registry, req).cost \in Nat
  BY <1>2, SpendingAssumption, QuoteBest
<1>4. Quotes[s] = Quote(Registry, req)
  BY <1>1 DEF Quotes, Route
<1> QED
  BY <1>3, <1>4

\* Nor is what a wave costs.
LEMMA WaveCost == MaxWaveCost \in Nat /\ MaxWaveCost = N * (Calls * MaxCallCost) /\ Cap \in Nat
<1>1. PICK c \in Nat : c = MaxCallCost
  BY CallCost
<1>2. N * Calls * c \in Nat /\ N * Calls * c = N * (Calls * c)
  <2>1. N \in Nat /\ Calls \in Nat
    BY ConstantFacts
  <2> QED
    BY <2>1
<1>3. MaxWaveCost \in Nat /\ MaxWaveCost = N * (Calls * MaxCallCost)
  BY <1>1, <1>2 DEF MaxWaveCost
<1>4. Cardinality(Workers) * MaxWaveCost \in Nat
  BY <1>3, ConstantFacts
<1> QED
  BY <1>3, <1>4, ConstantFacts DEF Cap

\* The drive of an idle worker.
LEMMA IdleFacts ==
  /\ NoAttempt \in Attempts /\ AttemptOK(NoAttempt) /\ NoAttempt.charges = 0
  /\ NoAttempt.res = "none" /\ NoAttempt.made = 0 /\ NoAttempt.recordings = 0
  /\ IdleWorker \in Drives /\ DriveOK(IdleWorker)
  /\ IdleWorker.pc = "idle" /\ ~IdleWorker.fresh /\ ~Driving(IdleWorker) /\ ~Live(IdleWorker)
  /\ IdleWorker.on = "none"
  /\ IdleWorker.due = 0 /\ IdleWorker.at = [s \in Steps |-> NoAttempt]
<1>1. NoAttempt \in Attempts /\ NoAttempt.charges = 0 /\ NoAttempt.res = "none"
      /\ NoAttempt.replay = 0 /\ NoAttempt.made = 0 /\ NoAttempt.recordings = 0
  BY ConstantFacts DEF NoAttempt, Attempts
<1>2. AttemptOK(NoAttempt)
  BY <1>1, CallCost DEF AttemptOK
<1>3. IdleWorker \in Drives /\ IdleWorker.pc = "idle" /\ ~IdleWorker.fresh
      /\ IdleWorker.due = 0 /\ IdleWorker.at = [s \in Steps |-> NoAttempt]
      /\ IdleWorker.on = "none"
  <2>1. NoView \in Views
    BY DEF NoView, Views
  <2> QED
    BY <1>1, <2>1 DEF IdleWorker, Drives, Pcs
<1>4. DriveOK(IdleWorker)
  BY <1>1, <1>2, <1>3, WaveCost DEF DriveOK, Driving
<1> QED
  BY <1>1, <1>2, <1>3, <1>4 DEF Driving, Live

\* A bound on attempts still holds when there have been more faults.
LEMMA MoreFaults ==
  ASSUME NEW a \in Nat, NEW r \in Nat, NEW f \in Nat, NEW g \in Nat, f <= g
  PROVE  /\ a <= MaxRetries + f + r => a <= MaxRetries + g + r
         /\ a <= MaxRetries + 1 + f + r => a <= MaxRetries + 1 + g + r
         /\ a <= MaxRetries + 1 + f + r /\ f < g => a <= MaxRetries + g + r
BY ConstantFacts

\* What the calls of a drive have cost.
ChargesOf(d) == SumOver(Steps, [s \in Steps |-> d.at[s].charges])

\* It is no more than MaxWaveCost, and nothing if no attempt has charges.
LEMMA DriveCharges ==
  ASSUME NEW d \in Drives
  PROVE  /\ [s \in Steps |-> d.at[s].charges] \in [Steps -> Nat]
         /\ ChargesOf(d) \in Nat
         /\ (\A s \in Steps : d.at[s].charges = 0) => ChargesOf(d) = 0
         /\ DriveOK(d) => ChargesOf(d) <= MaxWaveCost
<1> DEFINE f == [s \in Steps |-> d.at[s].charges]
<1>1. \A s \in Steps : d.at[s] \in Attempts
  BY DriveFields
<1>2. f \in [Steps -> Nat]
  BY <1>1, AttemptFields
<1>3. IsFiniteSet(Steps) /\ Cardinality(Steps) = N
  BY ConstantFacts
<1>4. SumOver(Steps, f) \in Nat
  <2> HIDE DEF f
  <2> QED
    BY <1>2, <1>3, SumNat
<1>5. (\A s \in Steps : f[s] = 0) => SumOver(Steps, f) = 0
  <2> HIDE DEF f
  <2> QED
    BY <1>2, <1>3, SumZero
<1>6. DriveOK(d) => SumOver(Steps, f) <= MaxWaveCost
  <2> HAVE DriveOK(d)
  <2>1. PICK c \in Nat : c = MaxCallCost
    BY CallCost
  <2>2. PICK k \in Nat : k = Calls
    BY ConstantFacts
  <2>3. k * c \in Nat
    OBVIOUS
  <2>4. \A s \in Steps : f[s] <= k * c
    <3> TAKE s \in Steps
    <3>1. PICK m \in 0 .. k : m = d.at[s].made
      BY <1>1, <2>2, AttemptFields
    <3>2. f[s] <= m * c
      BY <2>1, <3>1 DEF DriveOK, AttemptOK
    <3>3. m * c <= k * c /\ m * c \in Nat
      <4>1. PICK n \in Nat : k = m + n
        <5>1. k - m \in Nat /\ k = m + (k - m)
          BY <3>1
        <5> QED
          BY <5>1
      <4>2. (m + n) * c = m * c + n * c /\ n * c \in Nat /\ m * c \in Nat
        BY <3>1
      <4> QED
        BY <4>1, <4>2
    <3> HIDE DEF f
    <3> QED
      BY <1>2, <2>3, <3>2, <3>3
  <2>5. SumOver(Steps, f) <= N * (k * c)
    <3> HIDE DEF f
    <3> QED
      BY <1>2, <1>3, <2>3, <2>4, SumBound
  <2> QED
    BY <2>1, <2>2, <2>5, WaveCost
<1> QED
  BY <1>2, <1>4, <1>5, <1>6 DEF ChargesOf
-----------------------------------------------------------------------------

\* A drive goes on, and the instances and the leases stay as they are.
LEMMA DriveStep ==
  ASSUME Control, NEW w \in Workers, NEW rec \in Drives, DriveOK(rec),
         wk' = [wk EXCEPT ![w] = rec], UNCHANGED <<inst, holder>>,
         rec.on = wk[w].on, rec.fresh <=> wk[w].fresh, Driving(wk[w]), Driving(rec),
         \A s \in Steps : rec.at[s].res # "none" <=> wk[w].at[s].res # "none",
         MoneyShape', faults' \in faults .. MaxFaults
  PROVE  Control'
<1>1. Shape'
  <2>1. faults' \in 0 .. MaxFaults
    BY ConstantFacts DEF Control, Shape
  <2> QED
    BY <2>1 DEF Control, Shape
<1>2. /\ wk \in [Workers -> Drives] /\ wk'[w] = rec
      /\ \A v \in Workers : v # w => wk'[v] = wk[v]
  BY DEF Control, Shape
<1>3. (\A v \in Workers : DriveOK(wk[v]))'
  <2> SUFFICES ASSUME NEW v \in Workers PROVE DriveOK(wk'[v])
    BY DEF DriveOK, Driving, AttemptOK
  <2> QED
    BY <1>2 DEF Control
<1>4. \A v \in Workers : /\ wk'[v].on = wk[v].on /\ (wk'[v].fresh <=> wk[v].fresh)
                         /\ Driving(wk'[v]) <=> Driving(wk[v])
                         /\ wk'[v].pc = "idle" <=> wk[v].pc = "idle"
                         /\ wk'[v].pc = "ledger" <=> wk[v].pc = "ledger"
                         /\ \A s \in Steps : wk'[v].at[s].res # "none" <=> wk[v].at[s].res # "none"
  <2> SUFFICES ASSUME NEW v \in Workers
               PROVE  /\ wk'[v].on = wk[v].on /\ (wk'[v].fresh <=> wk[v].fresh)
                      /\ Driving(wk'[v]) <=> Driving(wk[v])
                      /\ wk'[v].pc = "idle" <=> wk[v].pc = "idle"
                      /\ wk'[v].pc = "ledger" <=> wk[v].pc = "ledger"
                      /\ \A s \in Steps : wk'[v].at[s].res # "none" <=> wk[v].at[s].res # "none"
    OBVIOUS
  <2>1. CASE v = w
    BY <2>1, <1>2 DEF Driving
  <2>2. CASE v # w
    BY <2>2, <1>2
  <2> QED
    BY <2>1, <2>2
<1>5. (\A v \in Workers : FreshOK(wk[v]))'
  <2> SUFFICES ASSUME NEW v \in Workers, wk'[v].fresh, Driving(wk'[v])
               PROVE  /\ inst[wk'[v].on].status = "running"
                      /\ \A s \in Steps : wk'[v].at[s].res # "none" <=>
                                            inst[wk'[v].on].st[s] = "running"
    BY DEF FreshOK, Driving
  <2>1. FreshOK(wk[v])
    BY DEF Control
  <2> QED
    BY <1>4, <2>1 DEF FreshOK
<1>6. Alone'
  <2>1. \A v \in Workers, i \in Insts : UpToDate(v, i)' <=> UpToDate(v, i)
    BY <1>4 DEF UpToDate, Driving
  <2> QED
    BY <2>1 DEF Control, Alone
<1>7. (\A i \in Insts : Held(i))'
  <2> SUFFICES ASSUME NEW i \in Insts, holder[i] # NoWorker PROVE Held(i)'
    BY DEF Held
  <2>1. holder[i] \in Workers
    BY DEF Control, Shape
  <2>2. Held(i)
    BY DEF Control
  <2> QED
    BY <1>4, <2>1, <2>2 DEF Held, Driving
<1>8. (\A i \in Insts : Tries(i))'
  <2> SUFFICES ASSUME NEW i \in Insts PROVE Tries(i)'
    OBVIOUS
  <2>1. Tries(i) /\ inst[i] \in Folded /\ faults \in Nat /\ faults' \in Nat /\ faults <= faults'
    BY ConstantFacts DEF Control, Shape
  <2>2. Raised(i)' = Raised(i) /\ Raised(i) \in Nat
    BY DEF Raised
  <2>3. \A s \in Steps : inst[i].att[s] \in Nat
    BY <2>1, FoldedFields
  <2>4. \A s \in Steps :
          /\ inst[i].att[s] <= MaxRetries + faults + Raised(i)
               => inst[i].att[s] <= MaxRetries + faults' + Raised(i)
          /\ inst[i].att[s] <= MaxRetries + 1 + faults + Raised(i)
               => inst[i].att[s] <= MaxRetries + 1 + faults' + Raised(i)
    BY <2>1, <2>2, <2>3, MoreFaults
  <2> QED
    BY <2>1, <2>2, <2>4 DEF Tries
<1>9. OnlyResultsAreReplayed'
  BY DEF Control, OnlyResultsAreReplayed
<1> QED
  BY <1>1, <1>3, <1>5, <1>6, <1>7, <1>8, <1>9 DEF Control

\* A drive ends: the lease is given back, unless it is another's by now.  It leaves
\* nothing running, or takes a fault with it.
LEMMA DriveEnds ==
  ASSUME Control, NEW w \in Workers, wk[w].pc # "idle",
         wk' = [wk EXCEPT ![w] = IdleWorker], UNCHANGED inst,
         holder' = Released(w, wk[w].on),
         faults' = faults + 1 \/ wk[w].pc = "ledger" \/ holder[wk[w].on] # w,
         MoneyShape', faults' \in faults .. MaxFaults
  PROVE  Control'
<1> DEFINE j == wk[w].on
<1>0. j \in Insts /\ w # NoWorker
  BY ConstantFacts DEF Control, DriveOK
<1>1. /\ wk \in [Workers -> Drives] /\ wk'[w] = IdleWorker
      /\ \A v \in Workers : v # w => wk'[v] = wk[v]
  BY DEF Control, Shape
<1>2. /\ holder' \in [Insts -> Workers \cup {NoWorker}]
      /\ \A i \in Insts : holder'[i] = IF i = j /\ holder[i] = w THEN NoWorker ELSE holder[i]
      /\ \A i \in Insts : holder'[i] # w
  <2>1. holder \in [Insts -> Workers \cup {NoWorker}]
    BY DEF Control, Shape
  <2>2. holder' = [holder EXCEPT ![j] = IF holder[j] = w THEN NoWorker ELSE holder[j]]
    BY DEF Released
  <2>3. \A i \in Insts : holder'[i] = IF i = j /\ holder[i] = w THEN NoWorker ELSE holder[i]
    BY <2>1, <2>2
  <2>4. \A i \in Insts : holder[i] = w => i = j
    <3> TAKE i \in Insts
    <3> HAVE holder[i] = w
    <3>1. Held(i)
      BY DEF Control
    <3> QED
      BY <3>1, <1>0 DEF Held
  <2> QED
    BY <1>0, <2>1, <2>2, <2>3, <2>4
<1>3. Shape'
  <2>1. faults' \in 0 .. MaxFaults
    BY ConstantFacts DEF Control, Shape
  <2> QED
    BY <1>2, <2>1, IdleFacts DEF Control, Shape
<1>4. (\A v \in Workers : DriveOK(wk[v]))'
  <2> SUFFICES ASSUME NEW v \in Workers PROVE DriveOK(wk'[v])
    BY DEF DriveOK, Driving, AttemptOK
  <2> QED
    BY <1>1, IdleFacts DEF Control
<1>5. (\A v \in Workers : FreshOK(wk[v]))'
  <2> SUFFICES ASSUME NEW v \in Workers, wk'[v].fresh, Driving(wk'[v])
               PROVE  /\ inst[wk'[v].on].status = "running"
                      /\ \A s \in Steps : wk'[v].at[s].res # "none" <=>
                                            inst[wk'[v].on].st[s] = "running"
    BY DEF FreshOK, Driving
  <2>1. FreshOK(wk[v])
    BY DEF Control
  <2>2. v # w
    BY <1>1, IdleFacts
  <2> QED
    BY <1>1, <2>1, <2>2 DEF FreshOK
<1>6. Alone'
  <2>1. \A v \in Workers, i \in Insts : UpToDate(v, i)' => UpToDate(v, i)
    <3> TAKE v \in Workers, i \in Insts
    <3> HAVE UpToDate(v, i)'
    <3>1. v # w
      BY <1>1, IdleFacts DEF UpToDate
    <3> QED
      BY <1>1, <3>1 DEF UpToDate, Driving
  <2> QED
    BY <2>1 DEF Control, Alone
<1>7. (\A i \in Insts : Held(i))'
  <2> SUFFICES ASSUME NEW i \in Insts, holder'[i] # NoWorker PROVE Held(i)'
    BY DEF Held
  <2>1. holder'[i] = holder[i] /\ holder[i] \in Workers /\ holder[i] # w
    BY <1>2
  <2>2. wk'[holder'[i]] = wk[holder[i]]
    BY <1>1, <2>1
  <2>3. Held(i)
    BY DEF Control
  <2> QED
    BY <2>1, <2>2, <2>3 DEF Held, Driving
<1>8. (\A i \in Insts : Tries(i))'
  <2> SUFFICES ASSUME NEW i \in Insts PROVE Tries(i)'
    OBVIOUS
  <2>1. Tries(i) /\ inst[i] \in Folded /\ faults \in Nat /\ faults' \in Nat /\ faults <= faults'
    BY ConstantFacts DEF Control, Shape
  <2>2. Raised(i)' = Raised(i) /\ Raised(i) \in Nat
    BY DEF Raised
  <2>3. \A s \in Steps : inst[i].att[s] \in Nat
    BY <2>1, FoldedFields
  <2>4. \A s \in Steps : inst[i].att[s] <= MaxRetries + 1 + faults' + Raised(i)
    BY <2>1, <2>2, <2>3, MoreFaults DEF Tries
  <2>5. \A s \in Steps : inst[i].st[s] = "ready"
                           => inst[i].att[s] <= MaxRetries + faults' + Raised(i)
    BY <2>1, <2>2, <2>3, MoreFaults DEF Tries
  <2>6. ASSUME NEW s \in Steps, inst[i].st[s] = "running", holder'[i] = NoWorker
        PROVE  inst[i].att[s] <= MaxRetries + faults' + Raised(i)
    <3>1. CASE holder[i] = NoWorker
      <4>1. inst[i].att[s] <= MaxRetries + faults + Raised(i)
        BY <2>1, <2>6, <3>1 DEF Tries
      <4> QED
        BY <2>1, <2>2, <2>3, <4>1, MoreFaults
    <3>2. CASE holder[i] # NoWorker
      <4>1. holder[i] = w /\ i = j
        BY <1>2, <2>6, <3>2
      <4>2. wk[w].pc # "ledger"
        <5>1. Held(i)
          BY DEF Control
        <5> QED
          BY <3>2, <4>1, <5>1, <2>6 DEF Held
      <4>3. faults' = faults + 1
        BY <4>1, <4>2
      <4>4. inst[i].att[s] <= MaxRetries + 1 + faults + Raised(i) /\ faults < faults'
        BY <2>1, <4>3 DEF Tries
      <4> QED
        BY <2>1, <2>2, <2>3, <4>4, MoreFaults
    <3> QED
      BY <3>1, <3>2
  <2> QED
    BY <2>1, <2>2, <2>4, <2>5, <2>6 DEF Tries
<1>9. OnlyResultsAreReplayed'
  BY DEF Control, OnlyResultsAreReplayed
<1> QED
  BY <1>3, <1>4, <1>5, <1>6, <1>7, <1>8, <1>9 DEF Control

\* An append to the log of i, by w unless that is NoWorker: the other drives of the
\* instance are no longer up to date.
Appends(i, new, w, rec) ==
  /\ inst' = [inst EXCEPT ![i] = new]
  /\ wk' = [v \in Workers |-> IF v = w THEN rec
                              ELSE IF wk[v].on = i THEN [wk[v] EXCEPT !.fresh = FALSE]
                              ELSE wk[v]]
  /\ w \in Workers => wk[w].pc = "idle" \/ wk[w].on = i
  /\ DriveOK(rec)
  /\ rec.fresh /\ Driving(rec) =>
       /\ rec.on = i /\ new.status = "running"
       /\ \A s \in Steps : rec.at[s].res # "none" <=> new.st[s] = "running"
  /\ \A s \in Steps : new.recorded[s] = IF new.st[s] = "completed" THEN Calls ELSE 0
  /\ holder' \in [Insts -> Workers \cup {NoWorker}]
  /\ \A j \in Insts : j # i => holder'[j] = holder[j]
  /\ Held(i)' /\ Tries(i)' /\ MoneyShape' /\ UNCHANGED faults

\* Such an append preserves the invariant if it does for the instance.
LEMMA AppendStep ==
  ASSUME Control, NEW i \in Insts, NEW new \in Folded,
         NEW w \in Workers \cup {NoWorker}, NEW rec \in Drives, Appends(i, new, w, rec)
  PROVE  Control'
<1> USE DEF Appends
<1>1. /\ inst \in [Insts -> Folded] /\ inst' \in [Insts -> Folded] /\ inst'[i] = new
      /\ \A j \in Insts : j # i => inst'[j] = inst[j]
  BY DEF Control, Shape
<1>2. \A v \in Workers :
        /\ wk[v] \in Drives
        /\ v # w => /\ wk'[v] \in Drives
                    /\ wk'[v].pc = wk[v].pc /\ wk'[v].on = wk[v].on /\ wk'[v].view = wk[v].view
                    /\ wk'[v].at = wk[v].at /\ wk'[v].due = wk[v].due
                    /\ wk[v].on = i => ~wk'[v].fresh
                    /\ wk[v].on # i => wk'[v] = wk[v]
  <2> SUFFICES ASSUME NEW v \in Workers
               PROVE  /\ wk[v] \in Drives
                      /\ v # w =>
                           /\ wk'[v] \in Drives
                           /\ wk'[v].pc = wk[v].pc /\ wk'[v].on = wk[v].on
                           /\ wk'[v].view = wk[v].view
                           /\ wk'[v].at = wk[v].at /\ wk'[v].due = wk[v].due
                           /\ wk[v].on = i => ~wk'[v].fresh
                           /\ wk[v].on # i => wk'[v] = wk[v]
    OBVIOUS
  <2>1. wk[v] \in Drives
    BY DEF Control, Shape
  <2>2. PICK d \in Drives : d = wk[v]
    BY <2>1
  <2>3. [d EXCEPT !.fresh = FALSE] \in Drives
    BY DEF Drives
  <2>4. LET e == [d EXCEPT !.fresh = FALSE]
        IN  /\ e.pc = d.pc /\ e.on = d.on /\ e.view = d.view /\ e.at = d.at /\ e.due = d.due
            /\ ~e.fresh
    BY DEF Drives
  <2>5. v # w => wk'[v] = IF d.on = i THEN [d EXCEPT !.fresh = FALSE] ELSE d
    BY <2>2
  <2> QED
    BY <2>1, <2>2, <2>3, <2>4, <2>5
<1>3. \A v \in Workers : v = w => wk'[v] = rec
  OBVIOUS
<1>4. Shape'
  <2>1. wk' \in [Workers -> Drives]
    BY <1>2, <1>3
  <2> QED
    BY <1>1, <2>1 DEF Control, Shape
<1>5. (\A v \in Workers : DriveOK(wk[v]))'
  <2> SUFFICES ASSUME NEW v \in Workers PROVE DriveOK(wk'[v])
    BY DEF DriveOK, Driving, AttemptOK
  <2>1. CASE v = w
    BY <2>1, <1>3
  <2>2. CASE v # w
    <3>1. DriveOK(wk[v])
      BY DEF Control
    <3> QED
      BY <2>2, <3>1, <1>2 DEF DriveOK, Driving
  <2> QED
    BY <2>1, <2>2
<1>6. \A v \in Workers : wk'[v].fresh /\ Driving(wk'[v]) =>
        \/ v = w /\ wk'[v] = rec /\ wk'[v].on = i
        \/ v # w /\ wk[v].on # i /\ wk'[v] = wk[v] /\ wk[v].on \in Insts
  <2> SUFFICES ASSUME NEW v \in Workers, wk'[v].fresh, Driving(wk'[v])
               PROVE  \/ v = w /\ wk'[v] = rec /\ wk'[v].on = i
                      \/ v # w /\ wk[v].on # i /\ wk'[v] = wk[v] /\ wk[v].on \in Insts
    OBVIOUS
  <2>1. CASE v = w
    BY <2>1, <1>3
  <2>2. CASE v # w
    <3>1. wk[v].on # i /\ wk'[v] = wk[v]
      BY <2>2, <1>2
    <3>2. wk[v].pc # "idle"
      BY <3>1 DEF Driving
    <3>3. wk[v].on \in Insts
      BY <3>2 DEF Control, DriveOK
    <3> QED
      BY <2>2, <3>1, <3>3
  <2> QED
    BY <2>1, <2>2
<1>7. (\A v \in Workers : FreshOK(wk[v]))'
  <2> SUFFICES ASSUME NEW v \in Workers, wk'[v].fresh, Driving(wk'[v])
               PROVE  /\ inst'[wk'[v].on].status = "running"
                      /\ \A s \in Steps : wk'[v].at[s].res # "none" <=>
                                            inst'[wk'[v].on].st[s] = "running"
    BY DEF FreshOK, Driving
  <2>1. CASE v = w
    <3>1. wk'[v] = rec /\ rec.on = i /\ rec.fresh /\ Driving(rec)
      BY <2>1, <1>6
    <3> QED
      BY <3>1, <1>1
  <2>2. CASE v # w
    <3>1. wk'[v] = wk[v] /\ wk[v].on # i /\ wk[v].on \in Insts
      BY <2>2, <1>6
    <3>2. inst'[wk[v].on] = inst[wk[v].on]
      BY <3>1, <1>1
    <3>3. FreshOK(wk[v])
      BY DEF Control
    <3> QED
      BY <3>1, <3>2, <3>3 DEF FreshOK
  <2> QED
    BY <2>1, <2>2
<1>8. Alone'
  <2> SUFFICES ASSUME NEW u \in Workers, NEW v \in Workers, NEW j \in Insts,
                      UpToDate(u, j)', UpToDate(v, j)'
               PROVE  u = v
    BY DEF Alone
  <2>1. /\ wk'[u].fresh /\ Driving(wk'[u]) /\ wk'[u].on = j
        /\ wk'[v].fresh /\ Driving(wk'[v]) /\ wk'[v].on = j
    BY DEF UpToDate, Driving
  <2>2. CASE j = i
    BY <2>1, <2>2, <1>6
  <2>3. CASE j # i
    <3>1. wk'[u] = wk[u] /\ wk'[v] = wk[v]
      BY <2>1, <2>3, <1>6
    <3>2. UpToDate(u, j) /\ UpToDate(v, j)
      BY <2>1, <3>1 DEF UpToDate
    <3> QED
      BY <3>2 DEF Control, Alone
  <2> QED
    BY <2>2, <2>3
<1>9. (\A j \in Insts : Held(j))'
  <2> SUFFICES ASSUME NEW j \in Insts, j # i PROVE Held(j)'
    OBVIOUS
  <2> SUFFICES ASSUME holder'[j] # NoWorker PROVE Held(j)'
    BY DEF Held
  <2>1. holder'[j] = holder[j] /\ holder[j] \in Workers
    BY DEF Control, Shape
  <2>2. Held(j)
    BY DEF Control
  <2>3. wk[holder[j]].on = j /\ wk[holder[j]].pc # "idle"
    BY <2>2 DEF Held
  <2>4. holder[j] # w
    BY <2>1, <2>3
  <2>5. wk'[holder[j]] = wk[holder[j]]
    BY <1>2, <2>1, <2>3, <2>4
  <2>6. inst'[j] = inst[j]
    BY <1>1
  <2> QED
    BY <2>1, <2>2, <2>5, <2>6 DEF Held, Driving
<1>10. (\A j \in Insts : Tries(j))'
  <2> SUFFICES ASSUME NEW j \in Insts, j # i PROVE Tries(j)'
    OBVIOUS
  <2>1. Tries(j) /\ inst'[j] = inst[j] /\ holder'[j] = holder[j]
    BY <1>1 DEF Control
  <2>2. Raised(j)' = Raised(j)
    BY <2>1 DEF Raised
  <2> QED
    BY <2>1, <2>2 DEF Tries
<1>11. OnlyResultsAreReplayed'
  <2> SUFFICES ASSUME NEW j \in Insts, NEW s \in Steps
               PROVE  inst'[j].recorded[s] = IF inst'[j].st[s] = "completed" THEN Calls ELSE 0
    BY DEF OnlyResultsAreReplayed
  <2> QED
    BY <1>1 DEF Control, OnlyResultsAreReplayed
<1> QED
  BY <1>4, <1>5, <1>7, <1>8, <1>9, <1>10, <1>11 DEF Control

\* BlockOnBudget: nobody holds the lease, and no step changes.
LEMMA BlockControl ==
  ASSUME Control, NEW w \in Workers, NEW i \in Insts, BlockOnBudget(w, i)
  PROVE  Control'
<1> DEFINE new == [inst[i] EXCEPT !.status = "paused"]
<1>1. inst[i] \in Folded /\ Tries(i)
  BY DEF Control, Shape
<1>2. /\ new \in Folded /\ new.status = "paused" /\ new.st = inst[i].st /\ new.att = inst[i].att
      /\ new.recorded = inst[i].recorded /\ new.limit = inst[i].limit
  BY <1>1 DEF Folded, Statuses
<1>3. /\ inst' = [inst EXCEPT ![i] = new] /\ wk[w].pc = "idle" /\ holder[i] = NoWorker
      /\ holder' = holder /\ faults' = faults
      /\ wk' = [v \in Workers |-> IF v = w THEN IdleWorker
                                  ELSE IF wk[v].on = i THEN [wk[v] EXCEPT !.fresh = FALSE]
                                  ELSE wk[v]]
  BY DEF BlockOnBudget, DriverAppend
<1>4. inst'[i] = new
  BY <1>3 DEF Control, Shape
<1>5. Held(i)'
  BY <1>3 DEF Held
<1>6. Tries(i)'
  <2>1. Raised(i)' = Raised(i)
    BY <1>2, <1>4 DEF Raised
  <2> HIDE DEF new
  <2> QED
    BY <1>1, <1>2, <1>3, <1>4, <2>1 DEF Tries
<1>7. MoneyShape'
  BY DEF BlockOnBudget, Control, Shape, Money, MoneyShape
<1>8. \A s \in Steps : new.recorded[s] = IF new.st[s] = "completed" THEN Calls ELSE 0
  <2> HIDE DEF new
  <2> QED
    BY <1>2 DEF Control, OnlyResultsAreReplayed
<1>9. holder' \in [Insts -> Workers \cup {NoWorker}] /\ \A j \in Insts : holder'[j] = holder[j]
  BY <1>3 DEF Control, Shape
<1> HIDE DEF new
<1>10. Appends(i, new, w, IdleWorker)
  BY <1>3, <1>5, <1>6, <1>7, <1>8, <1>9, IdleFacts DEF Appends
<1> QED
  BY <1>2, <1>10, IdleFacts, AppendStep

NewAttempt == [NoAttempt EXCEPT !.replay = 0, !.res = "run"]

\* An attempt that begins.
LEMMA NewAttemptFacts ==
  /\ NewAttempt \in Attempts /\ AttemptOK(NewAttempt)
  /\ NewAttempt.charges = 0 /\ NewAttempt.res = "run"
<1>1. /\ NewAttempt \in Attempts /\ NewAttempt.charges = 0 /\ NewAttempt.res = "run"
      /\ NewAttempt.replay = 0 /\ NewAttempt.made = 0 /\ NewAttempt.recordings = 0
  <2>1. 0 \in 0 .. Calls
    BY ConstantFacts
  <2> QED
    BY <2>1, IdleFacts DEF NewAttempt, Attempts
<1>2. 0 <= 0 * MaxCallCost
  BY CallCost
<1> QED
  BY <1>1, <1>2 DEF AttemptOK

\* Dispatch: what is ready, or was left running, runs now; a step left running has
\* cost a fault.
LEMMA DispatchControl ==
  ASSUME Control, NEW w \in Workers, NEW i \in Insts, Dispatch(w, i)
  PROVE  Control'
<1>0. \A s \in Steps : (s \in Wave(i) <=> inst[i].st[s] \in {"ready", "running"})
  BY DEF Wave
<1> DEFINE old == inst[i]
           W == Wave(i)
           new == [old EXCEPT
                     !.st = [s \in Steps |-> IF s \in W THEN "running" ELSE old.st[s]],
                     !.att = [s \in Steps |-> IF s \in W THEN old.att[s] + 1 ELSE old.att[s]]]
           at == [s \in Steps |->
                    IF s \in W THEN [NoAttempt EXCEPT !.replay = old.recorded[s], !.res = "run"]
                    ELSE NoAttempt]
           rec == [IdleWorker EXCEPT !.pc = "view", !.on = i, !.fresh = TRUE,
                     !.view.workflow = old.limit - old.spent, !.at = at]
<1>1. old \in Folded /\ Tries(i)
  BY DEF Control, Shape
<1>2. /\ wk[w].pc = "idle" /\ holder[i] = NoWorker /\ old.status = "running"
      /\ holder' = [holder EXCEPT ![i] = w] /\ faults' = faults
      /\ inst' = [inst EXCEPT ![i] = new]
      /\ wk' = [v \in Workers |-> IF v = w THEN rec
                                  ELSE IF wk[v].on = i THEN [wk[v] EXCEPT !.fresh = FALSE]
                                  ELSE wk[v]]
  BY DEF Dispatch, DriverAppend
<1>3. \A s \in Steps : (s \in W <=> old.st[s] \in {"ready", "running"})
  BY <1>0
<1>4. new.st \in [Steps -> StepStates] /\ new.att \in [Steps -> Nat] /\ new \in Folded
  <2>1. [s \in Steps |-> IF s \in W THEN "running" ELSE old.st[s]] \in [Steps -> StepStates]
    BY <1>1, FoldedFields DEF StepStates
  <2>2. [s \in Steps |-> IF s \in W THEN old.att[s] + 1 ELSE old.att[s]] \in [Steps -> Nat]
    BY <1>1, FoldedFields
  <2> HIDE DEF W
  <2> QED
    BY <1>1, <2>1, <2>2 DEF Folded
<1>5. /\ new.status = "running" /\ new.recorded = old.recorded /\ new.limit = old.limit
      /\ \A s \in Steps : new.st[s] = IF s \in W THEN "running" ELSE old.st[s]
      /\ \A s \in Steps : new.att[s] = IF s \in W THEN old.att[s] + 1 ELSE old.att[s]
  BY <1>1, <1>2 DEF Folded
<1>6. \A s \in Steps : old.recorded[s] = IF old.st[s] = "completed" THEN Calls ELSE 0
  BY DEF Control, OnlyResultsAreReplayed
<1>7. \A s \in Steps : /\ at[s] \in Attempts /\ AttemptOK(at[s]) /\ at[s].charges = 0
                       /\ at[s].res # "none" <=> s \in W
  <2> TAKE s \in Steps
  <2>1. CASE s \in W
    <3>1. old.recorded[s] = 0
      BY <1>3, <1>6, <2>1
    <3>2. at[s] = NewAttempt
      BY <2>1, <3>1 DEF NewAttempt
    <3> HIDE DEF at
    <3> QED
      BY <2>1, <3>2, NewAttemptFacts
  <2>2. CASE s \notin W
    <3>1. at[s] = NoAttempt
      BY <2>2
    <3> HIDE DEF at
    <3> QED
      BY <2>2, <3>1, IdleFacts
  <2> QED
    BY <2>1, <2>2
<1>8. /\ rec \in Drives /\ rec.pc = "view" /\ rec.on = i /\ rec.fresh /\ rec.at = at /\ rec.due = 0
      /\ Driving(rec)
  <2>1. at \in [Steps -> Attempts]
    BY <1>7
  <2>2. old.limit - old.spent \in Int
    BY <1>1, FoldedFields
  <2> HIDE DEF at, old
  <2> QED
    BY <2>1, <2>2, IdleFacts DEF IdleWorker, NoView, Drives, Views, Pcs, Driving
<1>9. DriveOK(rec)
  <2> HIDE DEF rec, at
  <2> QED
    BY <1>7, <1>8, WaveCost DEF DriveOK, Driving
<1>10. inst'[i] = new /\ holder'[i] = w /\ wk'[w] = rec
  BY <1>2 DEF Control, Shape
<1>11. Held(i)'
  <2> HIDE DEF rec
  <2> QED
    BY <1>8, <1>10 DEF Held, Driving
<1>12. Tries(i)'
  <2>1. Raised(i)' = Raised(i) /\ Raised(i) \in Nat
    BY <1>5, <1>10 DEF Raised
  <2>2. \A s \in Steps : new.att[s] <= MaxRetries + 1 + faults + Raised(i)
    <3> TAKE s \in Steps
    <3>1. old.att[s] \in Nat /\ faults \in Nat
      BY <1>1, FoldedFields, ConstantFacts DEF Control, Shape
    <3>2. CASE s \in W
      <4>1. old.att[s] <= MaxRetries + faults + Raised(i)
        BY <1>1, <1>2, <1>3, <3>2 DEF Tries
      <4>2. new.att[s] = old.att[s] + 1
        BY <1>5, <3>2
      <4> HIDE DEF new, old
      <4> QED
        BY <3>1, <4>1, <4>2, <2>1, ConstantFacts
    <3>3. CASE s \notin W
      <4>1. new.att[s] = old.att[s]
        BY <1>5, <3>3
      <4> HIDE DEF new
      <4> QED
        BY <1>1, <4>1 DEF Tries
    <3> QED
      BY <3>2, <3>3
  <2>3. \A s \in Steps : new.st[s] # "ready"
    BY <1>3, <1>5
  <2>4. w # NoWorker
    BY ConstantFacts
  <2> HIDE DEF new
  <2> QED
    BY <1>2, <1>5, <1>10, <2>1, <2>2, <2>3, <2>4 DEF Tries
<1>13. MoneyShape'
  BY DEF Dispatch, Control, Shape, Money, MoneyShape
<1>14. \A s \in Steps : new.recorded[s] = IF new.st[s] = "completed" THEN Calls ELSE 0
  <2> TAKE s \in Steps
  <2>1. new.st[s] = "completed" <=> old.st[s] = "completed"
    BY <1>3, <1>5
  <2> HIDE DEF new
  <2> QED
    BY <1>5, <1>6, <2>1
<1>15. \A s \in Steps : rec.at[s].res # "none" <=> new.st[s] = "running"
  <2> TAKE s \in Steps
  <2>1. rec.at[s].res # "none" <=> s \in W
    <3> HIDE DEF rec, at
    <3> QED
      BY <1>7, <1>8
  <2>2. new.st[s] = "running" <=> s \in W
    BY <1>3, <1>5
  <2> QED
    BY <2>1, <2>2
<1>16. /\ holder' \in [Insts -> Workers \cup {NoWorker}]
       /\ \A j \in Insts : j # i => holder'[j] = holder[j]
  BY <1>2 DEF Control, Shape
<1> HIDE DEF new, rec, old, at, W
<1>17. /\ rec.on = i /\ new.status = "running"
       /\ \A s \in Steps : rec.at[s].res # "none" <=> new.st[s] = "running"
  BY <1>5, <1>8, <1>15
<1>18. new \in Folded /\ rec \in Drives
  BY <1>4, <1>8
<1>19. Appends(i, new, w, rec)
  BY <1>2, <1>9, <1>11, <1>12, <1>13, <1>14, <1>16, <1>17 DEF Appends
<1> QED
  BY <1>18, <1>19, AppendStep

\* The fields of what StepAfter and StatusAfter return.
LEMMA StatusAfterType ==
  ASSUME NEW new
  PROVE  /\ StatusAfter(new) \in Statuses
         /\ StatusAfter(new) = "waiting" => \E s \in Steps : new.st[s] = "failed"
BY DEF StatusAfter, Statuses

\* The instance after AppendResults: no step is left running; what has completed
\* has its recordings; what is ready may be tried again.
LEMMA ResultFacts ==
  ASSUME Control, NEW w \in Workers, AppendResults(w)
  PROVE  LET i == wk[w].on
         IN /\ i \in Insts
            /\ \E new \in Folded :
                 /\ inst' = [inst EXCEPT ![i] = new]
                 /\ new.att = inst[i].att /\ new.limit = inst[i].limit
                 /\ new.spent = inst[i].spent + ChargesOf(wk[w])
                 /\ new.status = "waiting" => \E s \in Steps : new.st[s] = "failed"
                 /\ \A s \in Steps :
                      /\ new.st[s] # "running"
                      /\ new.st[s] = "ready" =>
                           inst[i].st[s] = "ready" \/ inst[i].att[s] <= MaxRetries
                      /\ new.recorded[s] = IF new.st[s] = "completed" THEN Calls ELSE 0
<1> DEFINE i == wk[w].on
           old == inst[i]
           st == [s \in Steps |-> StepAfter(w, s)]
           err == [s \in Steps |-> IF s \in InWave(w) THEN wk[w].at[s].res ELSE old.err[s]]
           recorded == [s \in Steps |-> IF s \in InWave(w) THEN Recorded(w, s)
                                                           ELSE old.recorded[s]]
           mid == [old EXCEPT !.st = st, !.err = err, !.recorded = recorded,
                              !.spent = old.spent + Charged(w)]
           new == [mid EXCEPT !.status = StatusAfter(mid)]
<1>1. wk[w] \in Drives /\ wk[w].pc = "exec" /\ wk[w].fresh /\ DriveOK(wk[w]) /\ FreshOK(wk[w])
      /\ \A s \in Steps : wk[w].at[s].res # "run"
  BY DEF AppendResults, Ended, Control, Shape
<1>2. i \in Insts
  BY <1>1 DEF DriveOK
<1>3. old \in Folded
  BY <1>2 DEF Control, Shape
<1>4. \A s \in Steps : wk[w].at[s] \in Attempts /\ AttemptOK(wk[w].at[s])
  BY <1>1, DriveFields DEF DriveOK
<1>5. \A s \in Steps : (s \in InWave(w) <=> wk[w].at[s].res # "none")
  BY DEF InWave
<1>6. \A s \in Steps : wk[w].at[s].res # "none" <=> old.st[s] = "running"
  BY <1>1 DEF FreshOK, Driving
<1>7. \A s \in Steps : old.recorded[s] = IF old.st[s] = "completed" THEN Calls ELSE 0
  BY <1>2 DEF Control, OnlyResultsAreReplayed
<1>8. inst' = [inst EXCEPT ![i] = new]
  BY DEF AppendResults, DriverAppend
<1>9. \A s \in Steps : /\ st[s] \in StepStates /\ st[s] # "running"
                       /\ st[s] = "completed" <=>
                            \/ wk[w].at[s].res = "ok"
                            \/ wk[w].at[s].res = "none" /\ old.st[s] = "completed"
                       /\ st[s] = "ready" => old.st[s] = "ready" \/ old.att[s] <= MaxRetries
  <2> TAKE s \in Steps
  <2>1. st[s] = StepAfter(w, s)
    OBVIOUS
  <2>2. old.st[s] \in StepStates
    BY <1>3, FoldedFields
  <2>3. wk[w].at[s].res # "none" <=> old.st[s] = "running"
    BY <1>6
  <2> HIDE DEF st
  <2> QED
    BY <2>1, <2>2, <2>3 DEF StepAfter, StepStates
<1>10. \A s \in Steps : recorded[s] = IF st[s] = "completed" THEN Calls ELSE 0
  <2> TAKE s \in Steps
  <2>1. CASE wk[w].at[s].res = "none"
    <3>1. recorded[s] = old.recorded[s]
      BY <2>1, <1>5
    <3>2. st[s] = "completed" <=> old.st[s] = "completed"
      BY <2>1, <1>9
    <3> HIDE DEF st, recorded
    <3> QED
      BY <3>1, <3>2, <1>7
  <2>2. CASE wk[w].at[s].res = "ok"
    <3>1. old.recorded[s] = 0
      BY <2>2, <1>6, <1>7
    <3>2. wk[w].at[s].recordings = Calls
      BY <2>2, <1>4 DEF AttemptOK
    <3>3. recorded[s] = old.recorded[s] + wk[w].at[s].recordings
      BY <2>2, <1>5 DEF Recorded
    <3>4. st[s] = "completed"
      BY <2>2, <1>9
    <3> HIDE DEF st, recorded
    <3> QED
      BY <3>1, <3>2, <3>3, <3>4, ConstantFacts
  <2>3. CASE wk[w].at[s].res \notin {"none", "ok"}
    <3>1. recorded[s] = 0
      BY <2>3, <1>5 DEF Recorded
    <3>2. st[s] # "completed"
      BY <2>3, <1>9
    <3> HIDE DEF st, recorded
    <3> QED
      BY <3>1, <3>2
  <2> QED
    BY <2>1, <2>2, <2>3
<1>11. /\ st \in [Steps -> StepStates] /\ err \in [Steps -> Results \ {"run"}]
       /\ recorded \in [Steps -> 0 .. Calls]
  <2>1. st \in [Steps -> StepStates]
    BY <1>9
  <2>2. err \in [Steps -> Results \ {"run"}]
    <3> SUFFICES ASSUME NEW s \in Steps
                 PROVE  /\ wk[w].at[s].res \in Results \ {"run"}
                        /\ old.err[s] \in Results \ {"run"}
      OBVIOUS
    <3> QED
      BY <1>1, <1>3, <1>4, AttemptFields, FoldedFields
  <2>3. \A s \in Steps : recorded[s] \in 0 .. Calls
    <3>1. 0 \in 0 .. Calls /\ Calls \in 0 .. Calls
      BY ConstantFacts
    <3> HIDE DEF recorded, st
    <3> QED
      BY <1>10, <3>1
  <2> QED
    BY <2>1, <2>2, <2>3
<1>12. Charged(w) = ChargesOf(wk[w]) /\ ChargesOf(wk[w]) \in Nat
  BY <1>1, DriveCharges DEF Charged, Charges, ChargesOf
<1>13. old.spent + Charged(w) \in Nat
  BY <1>3, <1>12, FoldedFields
<1> HIDE DEF st, err, recorded, old
<1>14. /\ mid \in Folded /\ mid.st = st /\ mid.att = old.att /\ mid.limit = old.limit
       /\ mid.recorded = recorded /\ mid.spent = old.spent + Charged(w)
  BY <1>3, <1>11, <1>13 DEF Folded
<1> HIDE DEF mid
<1>15. /\ StatusAfter(mid) \in Statuses
       /\ StatusAfter(mid) = "waiting" => \E s \in Steps : mid.st[s] = "failed"
  BY StatusAfterType
<1>16. /\ new \in Folded /\ new.st = mid.st /\ new.att = mid.att /\ new.limit = mid.limit
       /\ new.recorded = mid.recorded /\ new.spent = mid.spent /\ new.status = StatusAfter(mid)
  BY <1>14, <1>15 DEF Folded
<1> HIDE DEF new
<1>17. /\ new.att = old.att /\ new.limit = old.limit /\ new.spent = old.spent + ChargesOf(wk[w])
       /\ new.status = "waiting" => \E s \in Steps : new.st[s] = "failed"
  BY <1>12, <1>14, <1>15, <1>16
<1>18. \A s \in Steps :
         /\ new.st[s] # "running"
         /\ new.st[s] = "ready" => old.st[s] = "ready" \/ old.att[s] <= MaxRetries
         /\ new.recorded[s] = IF new.st[s] = "completed" THEN Calls ELSE 0
  BY <1>9, <1>10, <1>14, <1>16
<1> QED
  BY <1>2, <1>8, <1>16, <1>17, <1>18 DEF old

\* The drive after AppendResults.
Debt(i, c) == [IdleWorker EXCEPT !.pc = "ledger", !.on = i, !.fresh = TRUE, !.due = c]

\* It has only a debt to the ledger.
LEMMA DebtFacts ==
  ASSUME NEW i \in Insts, NEW c \in Nat, c <= MaxWaveCost
  PROVE  /\ Debt(i, c) \in Drives /\ Debt(i, c).pc = "ledger" /\ Debt(i, c).on = i
         /\ Debt(i, c).due = c /\ Debt(i, c).at = [s \in Steps |-> NoAttempt]
         /\ ~Driving(Debt(i, c)) /\ DriveOK(Debt(i, c))
<1>0. PICK rec : rec = Debt(i, c)
  OBVIOUS
<1>1. /\ rec \in Drives /\ rec.pc = "ledger" /\ rec.on = i /\ rec.due = c
      /\ rec.at = [s \in Steps |-> NoAttempt]
  <2>1. IdleWorker \in Drives /\ IdleWorker.at = [s \in Steps |-> NoAttempt]
    BY IdleFacts
  <2> QED
    BY <1>0, <2>1 DEF Drives, Pcs, Debt
<1>2. \A s \in Steps : rec.at[s] = NoAttempt
  BY <1>1
<1>3. ~Driving(rec) /\ DriveOK(rec)
  BY <1>1, <1>2, IdleFacts DEF Driving, DriveOK
<1> QED
  BY <1>0, <1>1, <1>3

\* AppendResults: a lease that somebody else holds by now is about a later drive,
\* which cannot be running steps.
LEMMA ResultsControl ==
  ASSUME Control, NEW w \in Workers, AppendResults(w)
  PROVE  Control'
<1>0. PICK i \in Insts : i = wk[w].on
  BY ResultFacts
<1>1. PICK new \in Folded :
        /\ inst' = [inst EXCEPT ![i] = new]
        /\ new.att = inst[i].att /\ new.limit = inst[i].limit
        /\ new.status = "waiting" => \E s \in Steps : new.st[s] = "failed"
        /\ \A s \in Steps :
             /\ new.st[s] # "running"
             /\ new.st[s] = "ready" => inst[i].st[s] = "ready" \/ inst[i].att[s] <= MaxRetries
             /\ new.recorded[s] = IF new.st[s] = "completed" THEN Calls ELSE 0
  BY <1>0, ResultFacts
<1>2. /\ wk \in [Workers -> Drives] /\ inst \in [Insts -> Folded]
      /\ holder \in [Insts -> Workers \cup {NoWorker}] /\ faults \in Nat
      /\ DriveOK(wk[w])
  BY ConstantFacts DEF Control, Shape
<1>3. PICK c \in Nat : c = Charges(w) /\ c <= MaxWaveCost
  BY <1>2, DriveCharges DEF Charges, ChargesOf
<1>4. PICK rec : rec = Debt(i, c)
  OBVIOUS
<1>5. rec \in Drives /\ rec.pc = "ledger" /\ rec.on = i /\ ~Driving(rec) /\ DriveOK(rec)
  BY <1>3, <1>4, DebtFacts
<1>6. /\ wk[w].fresh /\ Driving(wk[w])
      /\ holder' = holder /\ faults' = faults
      /\ wk' = [v \in Workers |-> IF v = w THEN rec
                                  ELSE IF wk[v].on = i THEN [wk[v] EXCEPT !.fresh = FALSE]
                                  ELSE wk[v]]
  BY <1>0, <1>3, <1>4 DEF AppendResults, Ended, DriverAppend, Driving, Debt
<1>7. inst'[i] = new /\ wk'[w] = rec
  BY <1>1, <1>2, <1>6
<1>8. Held(i)'
  <2> SUFFICES ASSUME holder[i] # NoWorker PROVE Held(i)'
    BY <1>6 DEF Held
  <2>1. PICK v \in Workers : v = holder[i]
    BY <1>2
  <2>2. CASE v = w
    BY <1>1, <1>5, <1>6, <1>7, <2>1, <2>2 DEF Held, Driving
  <2>3. CASE v # w
    <3>1. Held(i)
      BY DEF Control
    <3>2. wk[v].on = i /\ wk[v].pc # "idle" /\ (Driving(wk[v]) => wk[v].fresh)
      BY <2>1, <3>1 DEF Held
    <3>3. ~Driving(wk[v])
      <4> SUFFICES ASSUME Driving(wk[v]) PROVE FALSE
        OBVIOUS
      <4>1. UpToDate(v, i) /\ UpToDate(w, i)
        BY <1>0, <1>6, <3>2 DEF UpToDate
      <4> QED
        BY <4>1, <2>3 DEF Control, Alone
    <3>4. wk'[v] = [wk[v] EXCEPT !.fresh = FALSE]
      BY <1>6, <2>3, <3>2
    <3>5. wk'[v].on = i /\ wk'[v].pc = wk[v].pc
      BY <1>2, <3>2, <3>4 DEF Drives
    <3> QED
      BY <1>1, <1>6, <1>7, <2>1, <3>2, <3>3, <3>5 DEF Held, Driving
  <2> QED
    BY <2>2, <2>3
<1>9. Tries(i)'
  <2>1. Raised(i)' = Raised(i) /\ Raised(i) \in Nat
    BY <1>1, <1>7 DEF Raised
  <2>2. Tries(i)
    BY DEF Control
  <2>3. \A s \in Steps : inst[i].att[s] \in Nat
    BY <1>2, FoldedFields
  <2>4. \A s \in Steps : new.st[s] = "ready" => new.att[s] <= MaxRetries + faults + Raised(i)
    <3> TAKE s \in Steps
    <3> HAVE new.st[s] = "ready"
    <3>1. CASE inst[i].st[s] = "ready"
      BY <1>1, <2>2, <3>1 DEF Tries
    <3>2. CASE inst[i].att[s] <= MaxRetries
      BY <1>1, <1>2, <2>1, <2>3, <3>2, ConstantFacts
    <3> QED
      BY <1>1, <3>1, <3>2
  <2>5. \A s \in Steps : new.att[s] <= MaxRetries + 1 + faults + Raised(i)
    BY <1>1, <2>2 DEF Tries
  <2> QED
    BY <1>1, <1>6, <1>7, <2>1, <2>4, <2>5 DEF Tries
<1>10. MoneyShape'
  <2>1. paid' \in [Insts -> [Steps -> [1 .. Calls -> Nat]]]
    BY DEF AppendResults, Control, Shape, MoneyShape
  <2> QED
    BY <2>1 DEF AppendResults, Control, Shape, MoneyShape
<1>11. Appends(i, new, w, rec)
  BY <1>0, <1>1, <1>2, <1>5, <1>6, <1>8, <1>9, <1>10 DEF Appends
<1> QED
  BY <1>5, <1>11, AppendStep

\* RaiseBudget: while the instance waits no drive is up to date, so that the step
\* is ready for a new one.
LEMMA RaiseControl ==
  ASSUME Control, NEW i \in Insts, RaiseBudget(i)
  PROVE  Control'
<1>1. /\ inst \in [Insts -> Folded] /\ wk \in [Workers -> Drives] /\ faults \in Nat
      /\ holder \in [Insts -> Workers \cup {NoWorker}] /\ Tries(i)
      /\ inst[i].status = "waiting" /\ inst[i].limit < RaisedLimit
      /\ holder' = holder /\ faults' = faults
  BY ConstantFacts DEF Control, Shape, RaiseBudget
<1> DEFINE F == {t \in Steps : inst[i].st[t] = "failed"}
<1>2. F \in SUBSET Nat /\ F # {}
  BY <1>1, ConstantFacts DEF Tries
<1>3. PICK s \in Steps : s = Min(F) /\ inst[i].st[s] = "failed"
  <2>1. Min(F) \in F
    <3> HIDE DEF F
    <3> QED
      BY <1>2, MinIn
  <2> QED
    BY <2>1
<1>4. PICK old \in Folded : old = inst[i]
  BY <1>1
<1> DEFINE mid == [old EXCEPT !.limit = RaisedLimit, !.st[s] = "ready"]
           new == [mid EXCEPT !.status = StatusAfter(mid)]
<1>5. inst' = [inst EXCEPT ![i] = new]
  BY <1>3, <1>4 DEF RaiseBudget
<1>6. /\ mid \in Folded /\ mid.st = [old.st EXCEPT ![s] = "ready"] /\ mid.att = old.att
      /\ mid.recorded = old.recorded /\ mid.limit = RaisedLimit
  <2>1. [old.st EXCEPT ![s] = "ready"] \in [Steps -> StepStates]
    BY <1>4, FoldedFields DEF StepStates
  <2> QED
    BY <2>1 DEF Folded
<1> HIDE DEF mid
<1>7. /\ StatusAfter(mid) \in Statuses
      /\ StatusAfter(mid) = "waiting" => \E t \in Steps : mid.st[t] = "failed"
  BY StatusAfterType
<1>8. /\ new \in Folded /\ new.st = mid.st /\ new.att = old.att /\ new.recorded = old.recorded
      /\ new.limit = RaisedLimit /\ new.status = StatusAfter(mid)
  BY <1>6, <1>7 DEF Folded
<1> HIDE DEF new, F
<1>9. inst'[i] = new
  BY <1>1, <1>5
<1>10. \A t \in Steps : new.st[t] = IF t = s THEN "ready" ELSE old.st[t]
  BY <1>4, <1>6, <1>8, FoldedFields
<1>11. wk' = [v \in Workers |-> IF v = NoWorker THEN IdleWorker
                                ELSE IF wk[v].on = i THEN [wk[v] EXCEPT !.fresh = FALSE]
                                ELSE wk[v]]
  <2>1. wk' = [v \in Workers |-> IF wk[v].on = i THEN [wk[v] EXCEPT !.fresh = FALSE] ELSE wk[v]]
    BY DEF RaiseBudget
  <2>2. \A v \in Workers : v # NoWorker
    BY ConstantFacts
  <2> QED
    BY <2>1, <2>2
<1>12. Held(i)'
  <2> SUFFICES ASSUME holder[i] # NoWorker PROVE Held(i)'
    BY <1>1 DEF Held
  <2>1. PICK v \in Workers : v = holder[i]
    BY <1>1
  <2>2. Held(i) /\ FreshOK(wk[v]) /\ wk[v] \in Drives
    BY <1>1 DEF Control
  <2>3. wk[v].on = i /\ wk[v].pc # "idle" /\ (Driving(wk[v]) => wk[v].fresh)
    BY <2>1, <2>2 DEF Held
  <2>4. ~Driving(wk[v])
    BY <1>1, <2>2, <2>3 DEF FreshOK
  <2>5. wk[v].pc = "ledger" => \A t \in Steps : old.st[t] # "running"
    BY <1>4, <2>1, <2>2 DEF Held
  <2>6. wk'[v] = [wk[v] EXCEPT !.fresh = FALSE]
    BY <1>11, <2>3, ConstantFacts
  <2>7. wk'[v].on = i /\ wk'[v].pc = wk[v].pc
    BY <2>2, <2>3, <2>6 DEF Drives
  <2>8. wk[v].pc = "ledger" => \A t \in Steps : new.st[t] # "running"
    BY <1>10, <2>5
  <2> QED
    BY <1>1, <1>9, <2>1, <2>3, <2>4, <2>7, <2>8 DEF Held, Driving
<1>13. Tries(i)'
  <2>1. Raised(i) = 0 /\ Raised(i)' = 1
    BY <1>1, <1>8, <1>9, ConstantFacts DEF Raised
  <2>2. \A t \in Steps : old.att[t] \in Nat
    BY <1>4, FoldedFields
  <2>3. \A t \in Steps : old.att[t] <= MaxRetries + 1 + faults + 0
    BY <1>1, <1>4, <2>1 DEF Tries
  <2>4. \A t \in Steps : /\ new.att[t] <= MaxRetries + 1 + faults + 1
                         /\ new.att[t] <= MaxRetries + faults + 1
    BY <1>1, <1>8, <2>2, <2>3, ConstantFacts
  <2> QED
    BY <1>1, <1>7, <1>8, <1>9, <2>1, <2>4 DEF Tries
<1>14. MoneyShape'
  BY DEF RaiseBudget, Control, Shape, Money, MoneyShape
<1>15. \A t \in Steps : new.recorded[t] = IF new.st[t] = "completed" THEN Calls ELSE 0
  <2> TAKE t \in Steps
  <2>1. old.recorded[t] = IF old.st[t] = "completed" THEN Calls ELSE 0
    BY <1>4 DEF Control, OnlyResultsAreReplayed
  <2> QED
    BY <1>3, <1>4, <1>8, <1>10, <2>1
<1>16. Appends(i, new, NoWorker, IdleWorker)
  BY <1>1, <1>5, <1>11, <1>12, <1>13, <1>14, <1>15, IdleFacts, ConstantFacts DEF Appends
<1> QED
  BY <1>8, <1>16, IdleFacts, AppendStep

\* LeaseLapses: another drive may start, and a fault has been used for it.
LEMMA LapseControl ==
  ASSUME Control, NEW i \in Insts, LeaseLapses(i)
  PROVE  Control'
<1>1. /\ holder \in [Insts -> Workers \cup {NoWorker}] /\ holder' = [holder EXCEPT ![i] = NoWorker]
      /\ faults \in Nat /\ faults' \in Nat /\ faults' = faults + 1 /\ faults' \in 0 .. MaxFaults
      /\ UNCHANGED <<inst, wk>> /\ inst \in [Insts -> Folded]
  <2>1. UseFault /\ faults \in 0 .. MaxFaults
    BY DEF LeaseLapses, Control, Shape
  <2>2. faults \in Nat /\ faults' \in Nat /\ faults' = faults + 1 /\ faults' \in 0 .. MaxFaults
    BY <2>1, ConstantFacts DEF UseFault
  <2> QED
    BY <2>2 DEF LeaseLapses, Control, Shape
<1>2. Shape'
  BY <1>1 DEF LeaseLapses, Control, Shape, MoneyShape, Money
<1>3. (\A w \in Workers : DriveOK(wk[w]))' /\ (\A w \in Workers : FreshOK(wk[w]))' /\ Alone'
      /\ OnlyResultsAreReplayed'
  BY <1>1 DEF Control, DriveOK, Driving, AttemptOK, FreshOK, Alone, UpToDate,
              OnlyResultsAreReplayed
<1>4. (\A j \in Insts : Held(j))'
  <2> SUFFICES ASSUME NEW j \in Insts, holder'[j] # NoWorker PROVE Held(j)'
    BY DEF Held
  <2>1. holder'[j] = holder[j] /\ Held(j)
    BY <1>1 DEF Control
  <2> QED
    BY <1>1, <2>1 DEF Held, Driving
<1>5. (\A j \in Insts : Tries(j))'
  <2> SUFFICES ASSUME NEW j \in Insts PROVE Tries(j)'
    OBVIOUS
  <2>1. Tries(j) /\ Raised(j)' = Raised(j) /\ Raised(j) \in Nat
    BY <1>1 DEF Control, Raised
  <2>2. \A s \in Steps : inst[j].att[s] \in Nat
    BY <1>1, FoldedFields
  <2>3. \A s \in Steps : inst[j].att[s] <= MaxRetries + 1 + faults + Raised(j)
    BY <2>1 DEF Tries
  <2>4. \A s \in Steps : /\ inst[j].att[s] <= MaxRetries + 1 + faults' + Raised(j)
                         /\ inst[j].att[s] <= MaxRetries + faults' + Raised(j)
    BY <1>1, <2>1, <2>2, <2>3, MoreFaults
  <2> QED
    BY <1>1, <2>1, <2>4 DEF Tries
<1> QED
  BY <1>2, <1>3, <1>4, <1>5 DEF Control

\* Midnight.
LEMMA MidnightControl ==
  ASSUME Control, Midnight
  PROVE  Control'
<1>1. UNCHANGED <<inst, wk, holder, faults, ledger, bill, lost, missed, paid>>
      /\ today' \in 1 .. Days
  BY ConstantFacts DEF Midnight, Money, Control, Shape, MoneyShape
<1>2. Shape'
  BY <1>1 DEF Control, Shape, MoneyShape
<1>3. (\A w \in Workers : DriveOK(wk[w]))' /\ (\A w \in Workers : FreshOK(wk[w]))' /\ Alone'
      /\ OnlyResultsAreReplayed'
  BY <1>1 DEF Control, DriveOK, Driving, AttemptOK, FreshOK, Alone, UpToDate,
              OnlyResultsAreReplayed
<1>4. (\A j \in Insts : Held(j))' /\ (\A j \in Insts : Tries(j))'
  BY <1>1 DEF Control, Held, Driving, Tries, Raised
<1> QED
  BY <1>2, <1>3, <1>4 DEF Control
-----------------------------------------------------------------------------
\* What is in the logs, in the hands of the drives, owed to the ledger, in the
\* ledger, and what may still be spent without the ledger's knowledge.
Logged == SumOver(Insts, [i \in Insts |-> inst[i].spent])
InHands == SumOver(Workers, [w \in Workers |-> Charges(w)])
Owed == SumOver(Workers, [w \in Workers |-> wk[w].due])
Banked == SumOver(1 .. Days, ledger)
Pending == SumOver(Workers, MayCost)

\* What matters of a drive for these sums.
SameMoney(d, e) == d.pc = e.pc /\ d.view = e.view /\ d.at = e.at /\ d.due = e.due

\* The sums are numbers.
LEMMA SumTypes ==
  ASSUME Shape
  PROVE  Logged \in Nat /\ InHands \in Nat /\ Owed \in Nat /\ Banked \in Nat /\ Pending \in Nat
<1>1. [i \in Insts |-> inst[i].spent] \in [Insts -> Nat]
  BY FoldedFields DEF Shape
<1>2. [w \in Workers |-> Charges(w)] \in [Workers -> Nat]
  <2> SUFFICES ASSUME NEW w \in Workers PROVE Charges(w) \in Nat
    OBVIOUS
  <2> QED
    BY DriveCharges DEF Shape, Charges, ChargesOf
<1>3. [w \in Workers |-> wk[w].due] \in [Workers -> Nat]
  BY DriveFields DEF Shape
<1>4. MayCost \in [Workers -> Nat]
  BY WaveCost DEF MayCost
<1>5. Logged \in Nat
  BY <1>1, ConstantFacts, SumNat DEF Logged
<1>6. InHands \in Nat
  BY <1>2, ConstantFacts, SumNat DEF InHands
<1>7. Owed \in Nat
  BY <1>3, ConstantFacts, SumNat DEF Owed
<1>8. Banked \in Nat
  BY ConstantFacts, SumNat DEF Banked, Shape, MoneyShape
<1>9. Pending \in Nat
  BY <1>4, ConstantFacts, SumNat DEF Pending
<1> QED
  BY <1>5, <1>6, <1>7, <1>8, <1>9

\* When one drive changes, the sums over the drives change as much.
LEMMA WorkerSums ==
  ASSUME Shape, Shape', NEW w \in Workers,
         \A v \in Workers : v # w => SameMoney(wk'[v], wk[v])
  PROVE  /\ InHands' + ChargesOf(wk[w]) = InHands + ChargesOf(wk'[w])
         /\ Owed' + wk[w].due = Owed + wk'[w].due
         /\ Pending' + MayCost[w] = Pending + MayCost'[w]
         /\ InHands' \in Nat /\ Owed' \in Nat /\ Pending' \in Nat
<1>1. wk \in [Workers -> Drives] /\ wk' \in [Workers -> Drives] /\ IsFiniteSet(Workers)
  BY ConstantFacts DEF Shape
<1>2. InHands' + ChargesOf(wk[w]) = InHands + ChargesOf(wk'[w]) /\ InHands' \in Nat
  <2>1. PICK f : f = [v \in Workers |-> ChargesOf(wk[v])]
    OBVIOUS
  <2>2. PICK h : h = [v \in Workers |-> ChargesOf(wk'[v])]
    OBVIOUS
  <2>3. f \in [Workers -> Nat] /\ h \in [Workers -> Nat]
    BY <1>1, <2>1, <2>2, DriveCharges
  <2>4. \A v \in Workers : v # w => h[v] = f[v]
    BY <2>1, <2>2 DEF SameMoney, ChargesOf
  <2>5. SumOver(Workers, h) + f[w] = SumOver(Workers, f) + h[w] /\ SumOver(Workers, h) \in Nat
    BY <1>1, <2>3, <2>4, SumChange, SumNat
  <2>6. InHands = SumOver(Workers, f) /\ InHands' = SumOver(Workers, h)
    BY <2>1, <2>2 DEF InHands, Charges, ChargesOf
  <2>7. f[w] = ChargesOf(wk[w]) /\ h[w] = ChargesOf(wk'[w])
    BY <2>1, <2>2
  <2> QED
    BY <2>5, <2>6, <2>7
<1>3. Owed' + wk[w].due = Owed + wk'[w].due /\ Owed' \in Nat
  <2>1. PICK f : f = [v \in Workers |-> wk[v].due]
    OBVIOUS
  <2>2. PICK h : h = [v \in Workers |-> wk'[v].due]
    OBVIOUS
  <2>3. f \in [Workers -> Nat] /\ h \in [Workers -> Nat]
    BY <1>1, <2>1, <2>2, DriveFields
  <2>4. \A v \in Workers : v # w => h[v] = f[v]
    BY <2>1, <2>2 DEF SameMoney
  <2>5. SumOver(Workers, h) + f[w] = SumOver(Workers, f) + h[w] /\ SumOver(Workers, h) \in Nat
    BY <1>1, <2>3, <2>4, SumChange, SumNat
  <2>6. Owed = SumOver(Workers, f) /\ Owed' = SumOver(Workers, h)
    BY <2>1, <2>2 DEF Owed
  <2>7. f[w] = wk[w].due /\ h[w] = wk'[w].due
    BY <2>1, <2>2
  <2> QED
    BY <2>5, <2>6, <2>7
<1>4. Pending' + MayCost[w] = Pending + MayCost'[w] /\ Pending' \in Nat
  <2>1. PICK f : f = MayCost
    OBVIOUS
  <2>2. PICK h : h = MayCost'
    OBVIOUS
  <2>3. f \in [Workers -> Nat] /\ h \in [Workers -> Nat]
    BY <2>1, <2>2, WaveCost DEF MayCost
  <2>4. \A v \in Workers : v # w => h[v] = f[v]
    BY <2>1, <2>2 DEF MayCost, SameMoney, Live
  <2>5. SumOver(Workers, h) + f[w] = SumOver(Workers, f) + h[w] /\ SumOver(Workers, h) \in Nat
    BY <1>1, <2>3, <2>4, SumChange, SumNat
  <2> QED
    BY <2>1, <2>2, <2>5 DEF Pending
<1> QED
  BY <1>2, <1>3, <1>4

\* When the spend of one instance changes.
LEMMA InstSums ==
  ASSUME Shape, Shape', NEW i \in Insts,
         \A j \in Insts : j # i => inst'[j].spent = inst[j].spent
  PROVE  Logged' + inst[i].spent = Logged + inst'[i].spent /\ Logged' \in Nat
<1>1. PICK f : f = [j \in Insts |-> inst[j].spent]
  OBVIOUS
<1>2. PICK h : h = [j \in Insts |-> inst'[j].spent]
  OBVIOUS
<1>3. f \in [Insts -> Nat] /\ h \in [Insts -> Nat] /\ IsFiniteSet(Insts)
  BY <1>1, <1>2, FoldedFields, ConstantFacts DEF Shape
<1>4. \A j \in Insts : j # i => h[j] = f[j]
  BY <1>1, <1>2
<1>5. SumOver(Insts, h) + f[i] = SumOver(Insts, f) + h[i] /\ SumOver(Insts, h) \in Nat
  BY <1>3, <1>4, SumChange, SumNat
<1>6. Logged = SumOver(Insts, f) /\ Logged' = SumOver(Insts, h)
  BY <1>1, <1>2 DEF Logged
<1> QED
  BY <1>1, <1>2, <1>5, <1>6

\* When the day's row of the ledger changes.
LEMMA LedgerSums ==
  ASSUME Shape, Shape', \A d \in 1 .. Days : d # today => ledger'[d] = ledger[d]
  PROVE  Banked' + ledger[today] = Banked + ledger'[today] /\ Banked' \in Nat
<1>0. PICK D : D = 1 .. Days /\ IsFiniteSet(D)
  BY ConstantFacts
<1>1. PICK f \in [D -> Nat] : f = ledger
  BY <1>0 DEF Shape, MoneyShape
<1>2. PICK h \in [D -> Nat] : h = ledger'
  BY <1>0 DEF Shape, MoneyShape
<1>3. PICK x \in D : x = today
  BY <1>0 DEF Shape, MoneyShape
<1>4. \A d \in D : d # x => h[d] = f[d]
  BY <1>0, <1>1, <1>2, <1>3
<1>5. IsFiniteSet(D)
  BY <1>0
<1>6. SumOver(D, h) + f[x] = SumOver(D, f) + h[x]
  BY <1>4, <1>5, SumChange
<1>7. SumOver(D, h) \in Nat
  BY <1>5, SumNat
<1> QED
  BY <1>0, <1>1, <1>2, <1>3, <1>6, <1>7 DEF Banked

\* The accounts, in terms of the sums.
LEMMA AccountSums ==
  /\ BillIsLogged <=> bill = Logged + InHands + lost
  /\ LedgerIsComplete <=> Logged = Banked + Owed + missed
BY DEF BillIsLogged, LedgerIsComplete, Logged, InHands, Owed, Banked

\* The overspend when no more drives may spend than before.
LEMMA OverspendStays ==
  ASSUME Shape, Shape', Overspend, UNCHANGED <<ledger, today>>,
         ledger[today] <= DailyLimit \/ Pending' <= Pending
  PROVE  Overspend'
<1>1. Pending \in Nat /\ Pending' \in Nat
  <2>1. PICK h : h = MayCost'
    OBVIOUS
  <2>2. h \in [Workers -> Nat]
    BY <2>1, WaveCost DEF MayCost
  <2>3. SumOver(Workers, h) \in Nat
    BY <2>2, ConstantFacts, SumNat
  <2> QED
    BY <2>1, <2>3, SumTypes DEF Pending
<1>2. ledger[today] \in Nat /\ DailyLimit \in Nat /\ Cap \in Nat
  BY ConstantFacts, WaveCost DEF Shape, MoneyShape
<1>3. TenantOverspendBounded'
  BY DEF Overspend, TenantOverspendBounded
<1>4. ledger[today] <= DailyLimit \/ ledger[today] + Pending' <= Cap
  <2>1. ledger[today] <= DailyLimit \/ ledger[today] + Pending <= Cap
    BY DEF Overspend, Pending
  <2> QED
    BY <1>1, <1>2, <2>1
<1>5. Cap' = Cap /\ ledger'[today'] = ledger[today]
  BY DEF Cap
<1> QED
  BY <1>3, <1>4, <1>5 DEF Overspend, Pending

\* Nothing is spent, but for what a call of w adds to the bill and to its charges.
LEMMA AccountsStep ==
  ASSUME Shape, Shape', Accounts, NEW w \in Workers,
         \A v \in Workers : v # w => SameMoney(wk'[v], wk[v]),
         \A i \in Insts : inst'[i].spent = inst[i].spent, UNCHANGED <<ledger, today>>,
         bill' + ChargesOf(wk[w]) + lost = bill + ChargesOf(wk'[w]) + lost',
         wk'[w].due + missed' = wk[w].due + missed,
         ledger[today] <= DailyLimit \/ (Live(wk'[w]) => Live(wk[w]))
  PROVE  Accounts'
<1>1. wk[w] \in Drives /\ wk'[w] \in Drives
  BY DEF Shape
<1>2. /\ ChargesOf(wk[w]) \in Nat /\ ChargesOf(wk'[w]) \in Nat
      /\ wk[w].due \in Nat /\ wk'[w].due \in Nat
  BY <1>1, DriveCharges, DriveFields
<1>3. /\ bill \in Nat /\ lost \in Nat /\ missed \in Nat
      /\ bill' \in Nat /\ lost' \in Nat /\ missed' \in Nat
  BY DEF Shape, MoneyShape
<1>4. Logged' = Logged /\ Banked' = Banked
  BY DEF Logged, Banked
<1>5. Logged \in Nat /\ InHands \in Nat /\ Owed \in Nat /\ Banked \in Nat /\ Pending \in Nat
  BY SumTypes
<1>6. /\ InHands' + ChargesOf(wk[w]) = InHands + ChargesOf(wk'[w]) /\ InHands' \in Nat
      /\ Owed' + wk[w].due = Owed + wk'[w].due /\ Owed' \in Nat
      /\ Pending' + MayCost[w] = Pending + MayCost'[w] /\ Pending' \in Nat
  BY WorkerSums
<1>7. BillIsLogged'
  <2>1. bill = Logged + InHands + lost
    BY AccountSums DEF Accounts
  <2>2. bill' = Logged + InHands' + lost'
    <3>1. PICK c \in Nat, e \in Nat : c = ChargesOf(wk[w]) /\ e = ChargesOf(wk'[w])
      BY <1>2
    <3>2. PICK h \in Nat, k \in Nat : h = InHands /\ k = InHands'
      BY <1>5, <1>6
    <3>3. k + c = h + e
      BY <1>6, <3>1, <3>2
    <3>4. bill' + c + lost = bill + e + lost'
      BY <3>1
    <3>5. bill = Logged + h + lost
      BY <2>1, <3>2
    <3>6. bill' = Logged + k + lost'
      BY <1>3, <1>5, <3>3, <3>4, <3>5
    <3> QED
      BY <3>2, <3>6
  <2> QED
    BY <1>4, <2>2 DEF BillIsLogged, Logged, InHands
<1>8. LedgerIsComplete'
  <2>1. Logged = Banked + Owed + missed
    BY AccountSums DEF Accounts
  <2>2. Logged = Banked + Owed' + missed'
    <3>1. PICK c \in Nat, e \in Nat : c = wk[w].due /\ e = wk'[w].due
      BY <1>2
    <3>2. PICK h \in Nat, k \in Nat : h = Owed /\ k = Owed'
      BY <1>5, <1>6
    <3>3. k + c = h + e
      BY <1>6, <3>1, <3>2
    <3>4. e + missed' = c + missed
      BY <3>1
    <3>5. Logged = Banked + h + missed
      BY <2>1, <3>2
    <3>6. Logged = Banked + k + missed'
      BY <1>3, <1>5, <3>3, <3>4, <3>5
    <3> QED
      BY <3>2, <3>6
  <2> QED
    BY <1>4, <2>2 DEF LedgerIsComplete, Logged, Owed, Banked
<1>9. Overspend'
  <2>1. ledger[today] <= DailyLimit \/ Pending' <= Pending
    <3> SUFFICES ASSUME Live(wk'[w]) => Live(wk[w]) PROVE Pending' <= Pending
      OBVIOUS
    <3>1. MayCost[w] \in Nat /\ MayCost'[w] \in Nat /\ MayCost'[w] <= MayCost[w]
      BY WaveCost DEF MayCost, Live
    <3> QED
      BY <1>5, <1>6, <3>1
  <2> QED
    BY <2>1, OverspendStays DEF Accounts
<1> QED
  BY <1>7, <1>8, <1>9 DEF Accounts

\* No money moves at all.
LEMMA AccountsSame ==
  ASSUME Shape, Accounts, \A v \in Workers : SameMoney(wk'[v], wk[v]),
         \A i \in Insts : inst'[i].spent = inst[i].spent, UNCHANGED <<ledger, bill, lost, missed>>
  PROVE  BillIsLogged' /\ LedgerIsComplete' /\ Pending' = Pending
<1>1. Logged' = Logged /\ Banked' = Banked
  BY DEF Logged, Banked
<1>2. InHands' = InHands
  BY DEF InHands, Charges, SameMoney
<1>3. Owed' = Owed
  BY DEF Owed, SameMoney
<1>4. Pending' = Pending
  <2>1. \A v \in Workers : Live(wk[v])' <=> Live(wk[v])
    BY DEF SameMoney, Live
  <2>2. MayCost' = MayCost
    BY <2>1 DEF MayCost
  <2> QED
    BY <2>2 DEF Pending
<1>5. bill = Logged + InHands + lost /\ Logged = Banked + Owed + missed
  BY AccountSums DEF Accounts
<1>6. BillIsLogged'
  BY <1>1, <1>2, <1>5 DEF BillIsLogged, Logged, InHands
<1>7. LedgerIsComplete'
  BY <1>1, <1>3, <1>5 DEF LedgerIsComplete, Logged, Owed, Banked
<1> QED
  BY <1>4, <1>6, <1>7

\* A step of one attempt, which may cost something.
LEMMA AttemptStep ==
  ASSUME IInv, NEW w \in Workers, NEW s \in Steps, NEW a \in Attempts, AttemptOK(a),
         wk[w].pc = "exec", wk[w].at[s].res = "run", a.res # "none",
         wk[w].view.daily < 0 => a.charges = 0,
         wk' = [wk EXCEPT ![w].at[s] = a],
         bill' + wk[w].at[s].charges + lost = bill + a.charges + lost',
         UNCHANGED <<inst, holder, ledger, today, missed>>,
         MoneyShape', faults' \in faults .. MaxFaults
  PROVE  IInv'
<1>1. PICK d \in Drives : d = wk[w] /\ DriveOK(d) /\ wk \in [Workers -> Drives]
  BY DEF IInv, Control, Shape
<1>2. d.at \in [Steps -> Attempts] /\ d.pc = "exec" /\ d.view.daily \in Int
  BY <1>1, DriveFields DEF Views
<1>3. PICK at : at = [d.at EXCEPT ![s] = a]
  OBVIOUS
<1>4. /\ at \in [Steps -> Attempts] /\ at[s] = a
      /\ \A t \in Steps : t # s => at[t] = d.at[t]
  BY <1>2, <1>3
<1>5. PICK rec : rec = [d EXCEPT !.at = at]
  OBVIOUS
<1>6. /\ rec \in Drives /\ rec.pc = "exec" /\ rec.on = d.on /\ (rec.fresh <=> d.fresh)
      /\ rec.view = d.view /\ rec.at = at /\ rec.due = d.due
  BY <1>2, <1>4, <1>5 DEF Drives
<1>7. wk' = [wk EXCEPT ![w] = rec]
  BY <1>1, <1>3, <1>5
<1>8. DriveOK(rec)
  <2>1. \A t \in Steps : AttemptOK(at[t])
    BY <1>1, <1>4 DEF DriveOK
  <2>2. d.view.daily < 0 => \A t \in Steps : at[t].charges = 0
    BY <1>1, <1>4 DEF DriveOK
  <2>3. d.on \in Insts /\ d.due = 0 /\ d.due <= MaxWaveCost
    BY <1>1, <1>2 DEF DriveOK
  <2> QED
    BY <1>2, <1>6, <2>1, <2>2, <2>3 DEF DriveOK, Driving
<1>9. \A t \in Steps : rec.at[t].res # "none" <=> wk[w].at[t].res # "none"
  BY <1>1, <1>4, <1>6
<1>10. Driving(wk[w]) /\ Driving(rec) /\ rec.on = wk[w].on /\ (rec.fresh <=> wk[w].fresh)
  BY <1>1, <1>2, <1>6 DEF Driving
<1>11. Control'
  BY <1>6, <1>7, <1>8, <1>9, <1>10, DriveStep DEF IInv
<1>12. wk'[w] = rec /\ \A v \in Workers : v # w => wk'[v] = wk[v]
  BY <1>1, <1>7
<1>13. ChargesOf(rec) + d.at[s].charges = ChargesOf(d) + a.charges
       /\ ChargesOf(rec) \in Nat /\ ChargesOf(d) \in Nat
  <2>1. PICK f : f = [t \in Steps |-> d.at[t].charges]
    OBVIOUS
  <2>2. PICK h : h = [t \in Steps |-> rec.at[t].charges]
    OBVIOUS
  <2>3. f \in [Steps -> Nat] /\ h \in [Steps -> Nat]
    BY <1>6, <2>1, <2>2, DriveCharges
  <2>4. \A t \in Steps : t # s => h[t] = f[t]
    BY <1>4, <1>6, <2>1, <2>2
  <2>5. IsFiniteSet(Steps)
    BY ConstantFacts
  <2>6. SumOver(Steps, h) + f[s] = SumOver(Steps, f) + h[s]
    BY <2>3, <2>4, <2>5, SumChange
  <2>7. f[s] = d.at[s].charges /\ h[s] = a.charges
    BY <1>4, <1>6, <2>1, <2>2
  <2>8. ChargesOf(d) = SumOver(Steps, f) /\ ChargesOf(rec) = SumOver(Steps, h)
    BY <2>1, <2>2 DEF ChargesOf
  <2> QED
    BY <1>6, <2>6, <2>7, <2>8, DriveCharges
<1>14. Shape /\ Shape' /\ Accounts
  BY <1>11 DEF IInv, Control
<1>15. bill' + ChargesOf(wk[w]) + lost = bill + ChargesOf(wk'[w]) + lost'
  <2>1. /\ bill \in Nat /\ lost \in Nat /\ bill' \in Nat /\ lost' \in Nat
    BY <1>14 DEF Shape, MoneyShape
  <2>2. d.at[s].charges \in Nat /\ a.charges \in Nat
    BY <1>2, AttemptFields
  <2>3. bill' + d.at[s].charges + lost = bill + a.charges + lost'
    BY <1>1
  <2>4. bill' + ChargesOf(d) + lost = bill + ChargesOf(rec) + lost'
    BY <1>13, <2>1, <2>2, <2>3
  <2> QED
    BY <1>1, <1>12, <2>4
<1>16. /\ wk'[w].due + missed' = wk[w].due + missed
       /\ Live(wk'[w]) => Live(wk[w])
       /\ \A v \in Workers : v # w => SameMoney(wk'[v], wk[v])
       /\ \A i \in Insts : inst'[i].spent = inst[i].spent
  BY <1>1, <1>2, <1>6, <1>12 DEF Live, SameMoney
<1>17. Accounts'
  BY <1>14, <1>15, <1>16, AccountsStep
<1> QED
  BY <1>11, <1>17 DEF IInv
-----------------------------------------------------------------------------
(***************************************************************************)
(* The actions.                                                            *)
(***************************************************************************)

\* An attempt ends; c is what its last call cost in answers that were dropped.
LEMMA FinishStep ==
  ASSUME IInv, NEW w \in Workers, NEW s \in Steps, NEW res \in Results \ {"run", "none"},
         Runs(w, s), res = "ok" => wk[w].at[s].made = Calls, wk' = Finish(w, s, res),
         NEW c \in Nat, bill' = bill + c, lost' = lost + c,
         UNCHANGED <<inst, holder, ledger, today, missed, paid>>,
         faults' \in faults .. MaxFaults
  PROVE  IInv'
<1>1. PICK a \in Attempts : a = wk[w].at[s] /\ AttemptOK(a) /\ wk[w] \in Drives
                            /\ wk \in [Workers -> Drives]
  BY DriveFields DEF IInv, Control, Shape, DriveOK
<1>2. PICK b : b = [a EXCEPT !.res = res]
  OBVIOUS
<1>3. a.res = "run" /\ wk[w].pc = "exec"
  BY <1>1 DEF Runs
<1>4. /\ b \in Attempts /\ b.res = res /\ b.charges = a.charges /\ b.replay = a.replay
      /\ b.made = a.made /\ b.recordings = a.recordings
  BY <1>2 DEF Attempts, Results
<1>5. AttemptOK(b)
  BY <1>1, <1>3, <1>4 DEF AttemptOK
<1>6. wk' = [wk EXCEPT ![w].at[s] = b]
  BY <1>1, <1>2 DEF Finish
<1>7. wk[w].view.daily < 0 => b.charges = 0
  BY <1>1, <1>4 DEF IInv, Control, DriveOK
<1>8. MoneyShape' /\ bill' + wk[w].at[s].charges + lost = bill + b.charges + lost'
  <2>1. bill \in Nat /\ lost \in Nat /\ a.charges \in Nat
    BY AttemptFields DEF IInv, Control, Shape, MoneyShape
  <2>2. MoneyShape'
    BY <2>1 DEF IInv, Control, Shape, MoneyShape
  <2> QED
    BY <1>1, <1>4, <2>1, <2>2
<1> QED
  BY <1>1, <1>3, <1>4, <1>5, <1>6, <1>7, <1>8, AttemptStep

\* UseFault.
LEMMA FaultStep ==
  ASSUME IInv
  PROVE  /\ UseFault => faults' \in faults .. MaxFaults /\ faults' = faults + 1
         /\ UNCHANGED faults => faults' \in faults .. MaxFaults
<1>1. faults \in 0 .. MaxFaults /\ MaxFaults \in Nat
  BY ConstantFacts DEF IInv, Control, Shape
<1> QED
  BY <1>1 DEF UseFault

\* CallRefused, CallFails and RunnerReturns end an attempt.
LEMMA EndOfAttempt ==
  ASSUME IInv, NEW w \in Workers, NEW s \in Steps,
         CallRefused(w, s) \/ CallFails(w, s) \/ RunnerReturns(w, s)
  PROVE  IInv'
<1>1. bill \in Nat /\ lost \in Nat
  BY DEF IInv, Control, Shape, MoneyShape
<1>2. PICK res \in Results \ {"run", "none"} :
        /\ wk' = Finish(w, s, res) /\ Runs(w, s)
        /\ res = "ok" => wk[w].at[s].made = Calls
  BY DEF CallRefused, CallFails, RunnerReturns, Calling, Asks, Results
<1>3. PICK c \in Nat : bill' = bill + c /\ lost' = lost + c
  <2>1. CASE CallFails(w, s)
    <3>1. PICK P \in SUBSET Answering(s) : \E c \in Dropped(s, P) : Waste(c)
      BY <2>1 DEF CallFails, TriedBefore
    <3>2. PICK c \in Dropped(s, P) : Waste(c)
      BY <3>1
    <3>3. c \in Nat
      BY DroppedNat
    <3> QED
      BY <3>2, <3>3 DEF Waste
  <2>2. CASE UNCHANGED <<bill, lost>>
    BY <1>1, <2>2
  <2> QED
    BY <2>1, <2>2 DEF CallRefused, RunnerReturns, Money
<1>4. UNCHANGED <<inst, holder, ledger, today, missed, paid>>
  BY DEF CallRefused, CallFails, RunnerReturns, Money
<1>5. faults' \in faults .. MaxFaults
  BY FaultStep DEF CallRefused, CallFails, RunnerReturns
<1> QED
  BY <1>2, <1>3, <1>4, <1>5, FinishStep

\* A call may go to a provider only if the view has left something of the day's
\* budget.
LEMMA CallingHasBudget ==
  ASSUME IInv, NEW w \in Workers, NEW s \in Steps, wk[w].pc = "exec",
         VerdictFor(w, s) = "route"
  PROVE  ~(wk[w].view.daily < 0)
<1>1. PICK v \in Views : v = wk[w].view
  BY DriveFields DEF IInv, Control, Shape
<1>2. v.daily \in Int /\ Quotes[s].cost \in Nat
  BY QuoteCost DEF Views
<1>3. Quotes[s].cost <= v.daily
  BY <1>1 DEF VerdictFor, Verdict, Allows
<1> QED
  BY <1>1, <1>2, <1>3

\* CallAnswered: nothing is replayed, so a provider has answered.
LEMMA CallAnsweredStep ==
  ASSUME IInv, NEW w \in Workers, NEW s \in Steps, CallAnswered(w, s)
  PROVE  IInv'
<1>1. PICK a \in Attempts : a = wk[w].at[s] /\ AttemptOK(a) /\ wk[w] \in Drives
                            /\ wk \in [Workers -> Drives] /\ wk[w].on \in Insts
  <2>1. wk[w].pc = "exec"
    BY DEF CallAnswered, Asks, Runs
  <2> QED
    BY <2>1, DriveFields DEF IInv, Control, Shape, DriveOK
<1>2. /\ a.res = "run" /\ wk[w].pc = "exec" /\ a.made < Calls /\ a.made \in Nat /\ a.replay = 0
      /\ a.recordings = a.made
  <2>1. a.res = "run" /\ wk[w].pc = "exec" /\ a.made < Calls
    BY <1>1 DEF CallAnswered, Asks, Runs
  <2>2. a.made \in Nat
    BY AttemptFields, ConstantFacts
  <2>3. a.replay = 0 /\ a.recordings = a.made
    BY <1>1, <2>1 DEF AttemptOK
  <2> QED
    BY <2>1, <2>2, <2>3
<1>3. ~Replays(w, s)
  <2>1. ~(a.made < a.replay)
    BY <1>2
  <2> QED
    BY <1>1, <2>1 DEF Replays
<1>4. VerdictFor(w, s) = "route" /\ UNCHANGED <<inst, holder, ledger, today, missed>>
  BY <1>3 DEF CallAnswered
<1>5. PICK n \in Answering(s), u \in Usage :
        /\ IF n = 1 THEN UNCHANGED faults ELSE UseFault
        /\ \E waste \in Dropped(s, TriedBefore(s, n)) : Charge(w, s, PriceOf(s, n, u), waste)
  BY <1>3 DEF CallAnswered
<1>5a. PICK waste \in Nat : Charge(w, s, PriceOf(s, n, u), waste)
  <2>1. PICK P \in SUBSET Answering(s) : P = TriedBefore(s, n)
    BY DEF TriedBefore
  <2>2. PICK waste \in Dropped(s, P) : Charge(w, s, PriceOf(s, n, u), waste)
    BY <1>5, <2>1
  <2>3. waste \in Nat
    BY DroppedNat
  <2> QED
    BY <2>2, <2>3
<1>6. PICK c \in Nat : c = PriceOf(s, n, u) /\ c <= MaxCallCost
  <2>1. PICK m \in Keys(Registry) : m = Tried[s][n]
    BY DEF Answering
  <2>2. PriceOf(s, n, u) \in Nat /\ PriceOf(s, n, u) <= MaxCallCost
    BY <2>1, CallCost DEF PriceOf
  <2> QED
    BY <2>2
<1>7. PICK b : b = [a EXCEPT !.made = a.made + 1, !.charges = a.charges + c,
                             !.recordings = a.recordings + 1]
  OBVIOUS
<1>8. wk' = [wk EXCEPT ![w].at[s] = b]
  <2>1. Charge(w, s, c, waste)
    BY <1>6, <1>5a
  <2> QED
    BY <1>1, <1>7, <2>1 DEF Charge
<1>9. /\ b \in Attempts /\ b.res = "run" /\ b.charges = a.charges + c /\ b.replay = 0
      /\ b.made = a.made + 1 /\ b.recordings = b.made
  <2>1. a.made + 1 \in 0 .. Calls /\ a.recordings + 1 \in 0 .. Calls /\ a.charges + c \in Nat
    <3>1. a.charges \in Nat /\ Calls \in Nat
      BY ConstantFacts, AttemptFields
    <3> QED
      BY <1>2, <3>1
  <2> QED
    BY <1>2, <1>7, <2>1 DEF Attempts
<1>10. AttemptOK(b)
  <2>1. PICK k \in Nat : k = MaxCallCost
    BY CallCost
  <2>2. PICK j \in Nat : j = a.made
    BY <1>2
  <2>3. (j + 1) * k = j * k + k /\ j * k \in Nat
    OBVIOUS
  <2>4. a.charges <= j * k /\ a.charges \in Nat /\ c <= k
    BY <1>1, <1>6, <2>1, <2>2, AttemptFields DEF AttemptOK
  <2>5. a.charges + c <= (j + 1) * k
    BY <2>3, <2>4
  <2> QED
    BY <1>9, <2>1, <2>2, <2>5 DEF AttemptOK
<1>11. wk[w].view.daily < 0 => b.charges = 0
  <2>1. ~(wk[w].view.daily < 0)
    BY <1>2, <1>4, CallingHasBudget
  <2> QED
    BY <2>1
<1>12. /\ bill' = bill + c + waste /\ lost' = lost + waste
       /\ UNCHANGED <<inst, holder, ledger, today, missed>>
  BY <1>4, <1>6, <1>5a DEF Charge
<1>13. MoneyShape'
  <2>1. MoneyShape
    BY DEF IInv, Control, Shape
  <2>2. paid' = [paid EXCEPT ![wk[w].on][s][a.made + 1] = @ + 1]
    BY <1>1, <1>5a DEF Charge
  <2>3. paid' \in [Insts -> [Steps -> [1 .. Calls -> Nat]]]
    <3>1. PICK i \in Insts : i = wk[w].on
      BY <1>1
    <3>2. PICK k \in 1 .. Calls : k = a.made + 1
      BY <1>2, ConstantFacts
    <3>3. paid[i][s][k] + 1 \in Nat
      <4>1. paid[i] \in [Steps -> [1 .. Calls -> Nat]]
        BY <2>1 DEF MoneyShape
      <4>2. paid[i][s] \in [1 .. Calls -> Nat]
        BY <4>1
      <4>3. paid[i][s][k] \in Nat
        BY <4>2
      <4> QED
        BY <4>3
    <3>4. paid' = [paid EXCEPT ![i] = [paid[i] EXCEPT ![s] =
                     [paid[i][s] EXCEPT ![k] = paid[i][s][k] + 1]]]
      BY <2>1, <2>2, <3>1, <3>2 DEF MoneyShape
    <3> QED
      BY <2>1, <3>3, <3>4 DEF MoneyShape
  <2>4. bill' \in Nat /\ lost' \in Nat
    BY <1>6, <1>12, <1>5a, <2>1 DEF MoneyShape
  <2> QED
    BY <1>12, <2>1, <2>3, <2>4 DEF MoneyShape
<1>14. faults' \in faults .. MaxFaults
  BY <1>5, FaultStep
<1>15. bill' + wk[w].at[s].charges + lost = bill + b.charges + lost'
  <2>1. bill \in Nat /\ lost \in Nat /\ a.charges \in Nat
    BY AttemptFields DEF IInv, Control, Shape, MoneyShape
  <2> QED
    BY <1>1, <1>6, <1>9, <1>12, <1>5a, <2>1
<1> QED
  BY <1>1, <1>2, <1>8, <1>9, <1>10, <1>11, <1>12, <1>13, <1>14, <1>15, AttemptStep

\* Timeout: what the models tried for the call in flight have billed is lost.
LEMMA TimeoutStep ==
  ASSUME IInv, NEW w \in Workers, NEW s \in Steps, Timeout(w, s)
  PROVE  IInv'
<1>1. PICK a \in Attempts : a = wk[w].at[s] /\ AttemptOK(a) /\ wk[w] \in Drives
                            /\ wk \in [Workers -> Drives]
  BY DriveFields DEF IInv, Control, Shape, DriveOK
<1>2. a.res = "run" /\ wk[w].pc = "exec"
  BY <1>1 DEF Timeout, Runs
<1>3. PICK b : b = [a EXCEPT !.res = "retryable", !.recordings = 0]
  OBVIOUS
<1>4. wk' = [wk EXCEPT ![w].at[s] = b]
  BY <1>1, <1>3 DEF Timeout
<1>5. /\ b \in Attempts /\ b.res = "retryable" /\ b.charges = a.charges /\ b.replay = a.replay
      /\ b.made = a.made
  <2>1. 0 \in 0 .. Calls
    BY ConstantFacts
  <2> QED
    BY <1>3, <2>1 DEF Attempts
<1>6. AttemptOK(b)
  BY <1>1, <1>5 DEF AttemptOK
<1>7. wk[w].view.daily < 0 => b.charges = 0
  BY <1>1, <1>5 DEF IInv, Control, DriveOK
<1>8. UNCHANGED <<inst, holder, ledger, today, missed, paid>> /\ faults' \in faults .. MaxFaults
  BY FaultStep DEF Timeout
<1>9. \E c \in Nat : bill' = bill + c /\ lost' = lost + c
  <2>1. bill \in Nat /\ lost \in Nat
    BY DEF IInv, Control, Shape, MoneyShape
  <2>2. CASE UNCHANGED <<bill, lost>>
    BY <2>1, <2>2
  <2>3. CASE \E waste \in Dropped(s, Answering(s)) : Waste(waste)
    <3>1. PICK P \in SUBSET Answering(s) : \E c \in Dropped(s, P) : Waste(c)
      BY <2>3
    <3>2. PICK c \in Dropped(s, P) : Waste(c)
      BY <3>1
    <3>3. c \in Nat
      BY DroppedNat
    <3> QED
      BY <3>2, <3>3 DEF Waste
  <2> QED
    BY <2>2, <2>3 DEF Timeout
<1>10. PICK c \in Nat : bill' = bill + c /\ lost' = lost + c
  BY <1>9
<1>11. /\ MoneyShape'
       /\ bill' + wk[w].at[s].charges + lost = bill + b.charges + lost'
  <2>1. bill \in Nat /\ lost \in Nat /\ a.charges \in Nat
    BY AttemptFields DEF IInv, Control, Shape, MoneyShape
  <2>2. MoneyShape'
    BY <1>8, <1>10, <2>1 DEF IInv, Control, Shape, MoneyShape
  <2> QED
    BY <1>1, <1>5, <1>10, <2>1, <2>2
<1> QED
  BY <1>1, <1>2, <1>4, <1>5, <1>6, <1>7, <1>8, <1>11, AttemptStep

\* TakeView: the wave may spend if something is left of the day's budget.
LEMMA TakeViewStep ==
  ASSUME IInv, NEW w \in Workers, TakeView(w)
  PROVE  IInv'
<1>1. PICK d \in Drives : d = wk[w] /\ DriveOK(d) /\ wk \in [Workers -> Drives] /\ d.pc = "view"
  BY DEF IInv, Control, Shape, TakeView
<1>2. PICK l \in Int : l = DailyLeft /\ l = DailyLimit - ledger[today]
  <2>1. ledger[today] \in Nat
    BY DEF IInv, Control, Shape, MoneyShape
  <2>2. DailyLimit - ledger[today] \in Int
    BY <2>1, ConstantFacts
  <2> QED
    BY <2>2 DEF DailyLeft
<1>3. PICK v : v = [d.view EXCEPT !.daily = l]
  OBVIOUS
<1>4. v \in Views /\ v.daily = l
  BY <1>1, <1>3, DriveFields DEF Views
<1>5. PICK rec : rec = [d EXCEPT !.pc = "exec", !.view = v]
  OBVIOUS
<1>6. /\ rec \in Drives /\ rec.pc = "exec" /\ rec.on = d.on /\ (rec.fresh <=> d.fresh)
      /\ rec.view = v /\ rec.at = d.at /\ rec.due = d.due
  BY <1>4, <1>5 DEF Drives, Pcs
<1>7. wk' = [wk EXCEPT ![w] = rec]
  <2>1. wk' = [wk EXCEPT ![w] = [wk[w] EXCEPT !.pc = "exec", !.view = [wk[w].view EXCEPT !.daily = l]]]
    BY <1>1, <1>2 DEF TakeView, Drives
  <2> QED
    BY <1>1, <1>3, <1>5, <2>1
<1>8. DriveOK(rec)
  BY <1>1, <1>6 DEF DriveOK, Driving
<1>9. /\ Driving(wk[w]) /\ Driving(rec) /\ rec.on = wk[w].on /\ (rec.fresh <=> wk[w].fresh)
      /\ \A t \in Steps : rec.at[t].res # "none" <=> wk[w].at[t].res # "none"
  BY <1>1, <1>6 DEF Driving
<1>10. MoneyShape' /\ faults' \in faults .. MaxFaults /\ UNCHANGED <<inst, holder>>
  BY FaultStep DEF TakeView, Money, IInv, Control, Shape, MoneyShape
<1>11. Control'
  BY <1>6, <1>7, <1>8, <1>9, <1>10, DriveStep DEF IInv
<1>12. wk'[w] = rec /\ \A u \in Workers : u # w => wk'[u] = wk[u]
  BY <1>1, <1>7
<1>13. Shape /\ Shape' /\ Accounts
  BY <1>11 DEF IInv, Control
<1>14. ledger[today] <= DailyLimit \/ (Live(wk'[w]) => Live(wk[w]))
  <2> SUFFICES ASSUME ~(ledger[today] <= DailyLimit) PROVE ~Live(rec)
    BY <1>12
  <2>1. ledger[today] \in Nat /\ DailyLimit \in Nat
    BY ConstantFacts, <1>13 DEF Shape, MoneyShape
  <2>2. l < 0
    BY <1>2, <2>1
  <2> QED
    BY <1>4, <1>6, <2>2 DEF Live
<1>15. ChargesOf(wk'[w]) = ChargesOf(wk[w]) /\ ChargesOf(wk[w]) \in Nat
  BY <1>1, <1>6, <1>12, DriveCharges DEF ChargesOf
<1>16. UNCHANGED <<ledger, today, bill, lost, missed>>
  BY DEF TakeView, Money
<1>17. /\ bill' + ChargesOf(wk[w]) + lost = bill + ChargesOf(wk'[w]) + lost'
       /\ wk'[w].due + missed' = wk[w].due + missed
       /\ \A u \in Workers : u # w => SameMoney(wk'[u], wk[u])
       /\ \A i \in Insts : inst'[i].spent = inst[i].spent
  BY <1>1, <1>6, <1>10, <1>12, <1>15, <1>16 DEF SameMoney
<1>18. Accounts'
  BY <1>13, <1>14, <1>16, <1>17, AccountsStep
<1> QED
  BY <1>11, <1>18 DEF IInv

\* The charges of a drive that is not calling.
LEMMA NothingInHands ==
  ASSUME NEW d \in Drives, DriveOK(d)
  PROVE  /\ d.pc # "exec" => ChargesOf(d) = 0
         /\ d.pc # "ledger" => d.due = 0
BY DriveCharges DEF DriveOK

\* LoseRace and Crash: the charges of the drive, or its debt to the ledger, are
\* lost.
LEMMA DriveDies ==
  ASSUME IInv, NEW w \in Workers, LoseRace(w) \/ Crash(w)
  PROVE  IInv'
<1>1. PICK d \in Drives : d = wk[w] /\ DriveOK(d) /\ wk \in [Workers -> Drives]
  BY DEF IInv, Control, Shape
<1>2. /\ wk' = [wk EXCEPT ![w] = IdleWorker] /\ UNCHANGED <<inst, ledger, today, bill, paid>>
      /\ holder' = Released(w, wk[w].on) /\ lost' = lost + ChargesOf(d)
      /\ wk[w].pc # "idle" /\ faults' \in faults .. MaxFaults
  <2>1. CASE LoseRace(w)
    BY <1>1, <2>1, FaultStep DEF LoseRace, Ended, Charges, ChargesOf
  <2>2. CASE Crash(w)
    BY <1>1, <2>2, FaultStep DEF Crash, Charges, ChargesOf
  <2> QED
    BY <2>1, <2>2
<1>3. missed' = missed + d.due
  <2>1. CASE LoseRace(w)
    <3>1. d.due = 0 /\ missed' = missed /\ missed \in Nat
      BY <1>1, <2>1, NothingInHands DEF LoseRace, Ended, IInv, Control, Shape, MoneyShape
    <3> QED
      BY <3>1
  <2>2. CASE Crash(w)
    BY <1>1, <2>2 DEF Crash
  <2> QED
    BY <2>1, <2>2
<1>4. faults' = faults + 1 \/ holder[wk[w].on] # w
  <2>1. CASE LoseRace(w)
    <3> SUFFICES ASSUME holder[wk[w].on] = w PROVE FALSE
      OBVIOUS
    <3>1. wk[w].pc = "exec" /\ ~wk[w].fresh
      BY <2>1 DEF LoseRace, Ended
    <3>2. wk[w].on \in Insts
      BY <1>1, <3>1 DEF DriveOK
    <3>3. Held(wk[w].on) /\ w # NoWorker
      BY <3>2, ConstantFacts DEF IInv, Control
    <3> QED
      BY <3>1, <3>3 DEF Held, Driving
  <2>2. CASE Crash(w)
    BY <2>2, FaultStep DEF Crash
  <2> QED
    BY <2>1, <2>2
<1>5. ChargesOf(d) \in Nat /\ d.due \in Nat
  BY DriveCharges, DriveFields
<1>6. MoneyShape'
  BY <1>2, <1>3, <1>5 DEF IInv, Control, Shape, MoneyShape
<1>7. Control'
  BY <1>2, <1>4, <1>6, DriveEnds DEF IInv
<1>8. wk'[w] = IdleWorker /\ \A v \in Workers : v # w => wk'[v] = wk[v]
  BY <1>1, <1>2
<1>9. ChargesOf(IdleWorker) = 0 /\ IdleWorker.due = 0
  BY IdleFacts, NothingInHands
<1>10. Shape /\ Shape' /\ Accounts
  BY <1>7 DEF IInv, Control
<1>11. bill \in Nat /\ lost \in Nat /\ missed \in Nat
  BY <1>10 DEF Shape, MoneyShape
<1>12. bill' + ChargesOf(wk[w]) + lost = bill + ChargesOf(wk'[w]) + lost'
  BY <1>1, <1>2, <1>5, <1>8, <1>9, <1>11
<1>13. wk'[w].due + missed' = wk[w].due + missed
  BY <1>1, <1>3, <1>5, <1>8, <1>9, <1>11
<1>14. /\ \A v \in Workers : v # w => SameMoney(wk'[v], wk[v])
       /\ \A i \in Insts : inst'[i].spent = inst[i].spent
       /\ ~Live(wk'[w]) /\ UNCHANGED <<ledger, today>>
  BY <1>2, <1>8, IdleFacts DEF SameMoney
<1>15. Accounts'
  BY <1>10, <1>12, <1>13, <1>14, AccountsStep
<1> QED
  BY <1>7, <1>15 DEF IInv

\* BlockOnBudget and Dispatch: nothing is spent yet.
LEMMA StartOfDrive ==
  ASSUME IInv, NEW w \in Workers, NEW i \in Insts, BlockOnBudget(w, i) \/ Dispatch(w, i)
  PROVE  IInv'
<1>1. Control'
  BY BlockControl, DispatchControl DEF IInv
<1>2. Shape /\ Shape' /\ Accounts /\ wk \in [Workers -> Drives] /\ inst \in [Insts -> Folded]
  BY <1>1 DEF IInv, Control, Shape
<1>3. wk[w].pc = "idle" /\ UNCHANGED <<ledger, today, bill, lost, missed>>
  BY DEF BlockOnBudget, Dispatch, Money
<1>4. PICK d \in Drives : d = wk[w] /\ DriveOK(d) /\ d.pc = "idle"
  BY <1>2, <1>3 DEF IInv, Control
<1>5. PICK e \in Drives : e = wk'[w] /\ DriveOK(e)
  <2>1. \A v \in Workers : DriveOK(wk[v])'
    BY <1>1 DEF Control
  <2>2. DriveOK(wk'[w])
    BY <2>1 DEF DriveOK, Driving, AttemptOK
  <2> QED
    BY <1>2, <2>2 DEF Shape
<1>6. e.pc \in {"idle", "view"}
  <2>1. CASE BlockOnBudget(w, i)
    <3>1. wk'[w] = IdleWorker
      BY <2>1 DEF BlockOnBudget, DriverAppend
    <3> QED
      BY <1>5, <3>1, IdleFacts
  <2>2. CASE Dispatch(w, i)
    <3>1. e = [IdleWorker EXCEPT !.pc = "view", !.on = i, !.fresh = TRUE,
                 !.view.workflow = inst[i].limit - inst[i].spent, !.at = e.at]
      BY <1>5, <2>2 DEF Dispatch, DriverAppend, IdleWorker
    <3> QED
      BY <3>1 DEF IdleWorker
  <2> QED
    BY <2>1, <2>2
<1>7. \A j \in Insts : inst'[j].spent = inst[j].spent
  <2>1. PICK new : inst' = [inst EXCEPT ![i] = new] /\ new.spent = inst[i].spent
    <3>1. inst[i] \in Folded
      BY <1>2
    <3>2. CASE BlockOnBudget(w, i)
      <4>1. inst' = [inst EXCEPT ![i] = [inst[i] EXCEPT !.status = "paused"]]
        BY <3>2 DEF BlockOnBudget, DriverAppend
      <4>2. [inst[i] EXCEPT !.status = "paused"].spent = inst[i].spent
        BY <3>1 DEF Folded
      <4> QED
        BY <4>1, <4>2
    <3>3. CASE Dispatch(w, i)
      <4>1. PICK st, att : inst' = [inst EXCEPT ![i] = [inst[i] EXCEPT !.st = st, !.att = att]]
        BY <3>3 DEF Dispatch, DriverAppend
      <4>2. [inst[i] EXCEPT !.st = st, !.att = att].spent = inst[i].spent
        BY <3>1 DEF Folded
      <4> QED
        BY <4>1, <4>2
    <3> QED
      BY <3>2, <3>3
  <2> QED
    BY <1>2, <2>1
<1>8. \A v \in Workers : v # w => SameMoney(wk'[v], wk[v])
  <2> SUFFICES ASSUME NEW v \in Workers, v # w PROVE SameMoney(wk'[v], wk[v])
    OBVIOUS
  <2>1. PICK f \in Drives : f = wk[v]
    BY <1>2
  <2>2. wk'[v] = f \/ wk'[v] = [f EXCEPT !.fresh = FALSE]
    BY <2>1 DEF BlockOnBudget, Dispatch, DriverAppend
  <2> QED
    BY <2>1, <2>2 DEF SameMoney, Drives
<1>9. ChargesOf(d) = 0 /\ ChargesOf(e) = 0 /\ d.due = 0 /\ e.due = 0 /\ ~Live(e)
  BY <1>4, <1>5, <1>6, NothingInHands DEF Live
<1>10. /\ bill' + ChargesOf(wk[w]) + lost = bill + ChargesOf(wk'[w]) + lost'
       /\ wk'[w].due + missed' = wk[w].due + missed
       /\ ~Live(wk'[w])
  BY <1>3, <1>4, <1>5, <1>9
<1>11. Accounts'
  BY <1>2, <1>3, <1>7, <1>8, <1>10, AccountsStep
<1> QED
  BY <1>1, <1>11 DEF IInv

\* AppendResults: the charges are in the log, and owed to the ledger.
LEMMA AppendResultsStep ==
  ASSUME IInv, NEW w \in Workers, AppendResults(w)
  PROVE  IInv'
<1>1. Control'
  BY ResultsControl DEF IInv
<1>2. Shape /\ Shape' /\ Accounts /\ wk \in [Workers -> Drives] /\ inst \in [Insts -> Folded]
  BY <1>1 DEF IInv, Control, Shape
<1>3. PICK i \in Insts : i = wk[w].on
  BY ResultFacts DEF IInv
<1>4. PICK new \in Folded : /\ inst' = [inst EXCEPT ![i] = new]
                            /\ new.spent = inst[i].spent + ChargesOf(wk[w])
  BY <1>3, ResultFacts DEF IInv
<1>5. PICK d \in Drives : d = wk[w] /\ DriveOK(d) /\ d.pc = "exec"
  BY <1>2 DEF IInv, Control, AppendResults, Ended
<1>6. PICK c \in Nat : c = ChargesOf(wk[w]) /\ c <= MaxWaveCost
  BY <1>5, DriveCharges
<1>7. PICK e \in Drives : e = Debt(i, c)
  BY <1>6, DebtFacts
<1>8. e.pc = "ledger" /\ e.due = c /\ DriveOK(e)
  <2>1. Debt(i, c).pc = "ledger" /\ Debt(i, c).due = c /\ DriveOK(Debt(i, c))
    BY <1>6, DebtFacts
  <2> QED
    BY <1>7, <2>1
<1>9. wk' = [v \in Workers |-> IF v = w THEN e
                               ELSE IF wk[v].on = i THEN [wk[v] EXCEPT !.fresh = FALSE]
                               ELSE wk[v]]
  BY <1>3, <1>6, <1>7 DEF AppendResults, DriverAppend, Debt, Charges, ChargesOf
<1>10. wk'[w] = e
  BY <1>9
<1>11. \A v \in Workers : v # w => SameMoney(wk'[v], wk[v])
  <2> SUFFICES ASSUME NEW v \in Workers, v # w PROVE SameMoney(wk'[v], wk[v])
    OBVIOUS
  <2>1. PICK f \in Drives : f = wk[v]
    BY <1>2
  <2>2. wk'[v] = f \/ wk'[v] = [f EXCEPT !.fresh = FALSE]
    BY <1>9, <2>1
  <2> QED
    BY <2>1, <2>2 DEF SameMoney, Drives
<1>12. UNCHANGED <<ledger, today, bill, lost, missed>>
  BY DEF AppendResults
<1>13. /\ Logged \in Nat /\ InHands \in Nat /\ Owed \in Nat /\ Banked \in Nat /\ Pending \in Nat
       /\ bill \in Nat /\ lost \in Nat /\ missed \in Nat /\ Banked' = Banked
  BY <1>2, <1>12, SumTypes DEF Shape, MoneyShape, Banked
<1>14. ChargesOf(e) = 0 /\ d.due = 0
  BY <1>5, <1>8, NothingInHands
<1>15. InHands' + c = InHands /\ Owed' = Owed + c
       /\ InHands' \in Nat /\ Owed' \in Nat /\ Pending' \in Nat
  <2>1. /\ InHands' + ChargesOf(wk[w]) = InHands + ChargesOf(wk'[w])
        /\ Owed' + wk[w].due = Owed + wk'[w].due
        /\ InHands' \in Nat /\ Owed' \in Nat /\ Pending' \in Nat
    BY <1>2, <1>11, WorkerSums
  <2>2. InHands' + c = InHands + 0 /\ Owed' + 0 = Owed + c
    BY <1>5, <1>6, <1>8, <1>10, <1>14, <2>1
  <2> QED
    BY <1>13, <2>1, <2>2
<1>16. Logged' = Logged + c /\ Logged' \in Nat
  <2>1. inst'[i] = new /\ \A j \in Insts : j # i => inst'[j] = inst[j]
    BY <1>2, <1>4
  <2>2. Logged' + inst[i].spent = Logged + inst'[i].spent /\ Logged' \in Nat
    BY <1>2, <2>1, InstSums
  <2>3. inst[i].spent \in Nat /\ inst'[i].spent = inst[i].spent + c
    BY <1>2, <1>4, <1>6, <2>1, FoldedFields
  <2> QED
    BY <1>13, <2>2, <2>3
<1>17. BillIsLogged'
  <2>1. bill = Logged + InHands + lost
    BY AccountSums DEF IInv, Accounts
  <2>2. PICK g \in Nat, k \in Nat, h \in Nat, o \in Nat :
          g = Logged /\ k = InHands' /\ h = InHands /\ o = lost
    BY <1>13, <1>15
  <2>3. h = k + c /\ Logged' = g + c /\ bill = g + h + o
    BY <1>15, <1>16, <2>1, <2>2
  <2>4. g + h + o = (g + c) + k + o
    BY <2>3
  <2>5. bill = Logged' + InHands' + lost
    BY <2>2, <2>3, <2>4
  <2> QED
    BY <1>12, <2>5 DEF BillIsLogged, Logged, InHands
<1>18. LedgerIsComplete'
  <2>1. Logged = Banked + Owed + missed
    BY AccountSums DEF IInv, Accounts
  <2>2. Logged' = Banked + Owed' + missed
    BY <1>13, <1>15, <1>16, <2>1
  <2> QED
    BY <1>12, <1>13, <2>2 DEF LedgerIsComplete, Logged, Owed, Banked
<1>19. Overspend'
  <2>1. Live(e) => Live(d)
    <3> SUFFICES ASSUME ~Live(d) PROVE c = 0
      BY <1>6, <1>8 DEF Live
    <3>1. d.view.daily \in Int
      BY DriveFields DEF Views
    <3>2. d.view.daily < 0
      BY <1>5, <3>1 DEF Live
    <3>3. \A s \in Steps : d.at[s].charges = 0
      BY <1>5, <3>2 DEF DriveOK
    <3> QED
      BY <1>5, <1>6, <3>3, DriveCharges
  <2>2. MayCost'[w] <= MayCost[w] /\ MayCost[w] \in Nat /\ MayCost'[w] \in Nat
    <3>1. MayCost[w] = IF Live(d) THEN MaxWaveCost ELSE 0
      BY <1>5 DEF MayCost
    <3>2. MayCost'[w] = IF Live(e) THEN MaxWaveCost ELSE 0
      BY <1>10 DEF MayCost, Live
    <3> QED
      BY <2>1, <3>1, <3>2, WaveCost
  <2>3. Pending' + MayCost[w] = Pending + MayCost'[w]
    BY <1>2, <1>11, WorkerSums
  <2>4. Pending' <= Pending
    BY <1>13, <1>15, <2>2, <2>3
  <2> QED
    BY <1>2, <1>12, <2>4, OverspendStays DEF IInv, Accounts
<1> QED
  BY <1>1, <1>17, <1>18, <1>19 DEF IInv, Accounts

\* RecordSpend: one of those who may have spent without the ledger's knowledge is
\* done.
LEMMA RecordSpendStep ==
  ASSUME IInv, NEW w \in Workers, RecordSpend(w)
  PROVE  IInv'
<1>1. PICK d \in Drives : d = wk[w] /\ DriveOK(d) /\ wk \in [Workers -> Drives]
                          /\ d.pc = "ledger"
  BY DEF IInv, Control, Shape, RecordSpend
<1>2. PICK l \in Nat : l = ledger[today]
  BY DEF IInv, Control, Shape, MoneyShape
<1>3. PICK c \in Nat : c = d.due /\ c <= MaxWaveCost
  BY <1>1, DriveFields DEF DriveOK
<1>4. /\ wk' = [wk EXCEPT ![w] = IdleWorker] /\ UNCHANGED <<inst, today, bill, lost, missed, paid>>
      /\ holder' = Released(w, wk[w].on) /\ faults' \in faults .. MaxFaults
      /\ ledger' = [ledger EXCEPT ![today] = l + c]
  BY <1>1, <1>2, <1>3, FaultStep DEF RecordSpend, LedgerAfter
<1>5. MoneyShape'
  <2>1. l + c \in Nat
    OBVIOUS
  <2> QED
    BY <1>4, <2>1 DEF IInv, Control, Shape, MoneyShape
<1>6. Control'
  BY <1>1, <1>4, <1>5, DriveEnds DEF IInv
<1>7. Shape /\ Shape' /\ today \in 1 .. Days /\ ledger \in [1 .. Days -> Nat]
  BY <1>6 DEF IInv, Control, Shape, MoneyShape
<1>8. /\ wk'[w] = IdleWorker /\ \A v \in Workers : v # w => wk'[v] = wk[v]
      /\ ledger'[today] = l + c /\ \A e \in 1 .. Days : e # today => ledger'[e] = ledger[e]
  BY <1>1, <1>4, <1>7
<1>9. /\ Logged \in Nat /\ InHands \in Nat /\ Owed \in Nat /\ Banked \in Nat /\ Pending \in Nat
      /\ bill \in Nat /\ lost \in Nat /\ missed \in Nat /\ Logged' = Logged
  BY <1>4, <1>7, SumTypes DEF Shape, MoneyShape, Logged
<1>10. ChargesOf(d) = 0 /\ ChargesOf(IdleWorker) = 0 /\ IdleWorker.due = 0
  BY <1>1, IdleFacts, NothingInHands
<1>11. /\ InHands' + ChargesOf(wk[w]) = InHands + ChargesOf(wk'[w])
       /\ Owed' + wk[w].due = Owed + wk'[w].due
       /\ Pending' + MayCost[w] = Pending + MayCost'[w]
       /\ InHands' \in Nat /\ Owed' \in Nat /\ Pending' \in Nat
  <2>1. \A v \in Workers : v # w => SameMoney(wk'[v], wk[v])
    BY <1>8 DEF SameMoney
  <2> QED
    BY <1>7, <2>1, WorkerSums
<1>12. InHands' = InHands /\ Owed' + c = Owed
  <2>1. InHands' + 0 = InHands + 0 /\ Owed' + c = Owed + 0
    BY <1>1, <1>3, <1>8, <1>10, <1>11
  <2>2. PICK h \in Nat, k \in Nat, o \in Nat : h = InHands /\ k = InHands' /\ o = Owed
    BY <1>9, <1>11
  <2>3. k + 0 = h + 0 /\ Owed' + c = o + 0
    BY <2>1, <2>2
  <2>4. k = h /\ o + 0 = o
    BY <2>3
  <2> QED
    BY <2>2, <2>3, <2>4
<1>13. Banked' = Banked + c /\ Banked' \in Nat
  <2>1. Banked' + ledger[today] = Banked + ledger'[today] /\ Banked' \in Nat
    BY <1>7, <1>8, LedgerSums
  <2>2. Banked' + l = Banked + (l + c)
    BY <1>2, <1>8, <2>1
  <2>3. PICK b \in Nat, k \in Nat : b = Banked /\ k = Banked'
    BY <1>9, <2>1
  <2>4. k + l = b + (l + c)
    BY <2>2, <2>3
  <2>5. k = b + c
    BY <2>4
  <2> QED
    BY <2>3, <2>5
<1>14. BillIsLogged'
  <2>1. bill = Logged + InHands + lost
    BY AccountSums DEF IInv, Accounts
  <2> QED
    BY <1>4, <1>9, <1>12, <2>1 DEF BillIsLogged, Logged, InHands
<1>15. LedgerIsComplete'
  <2>1. Logged = Banked + Owed + missed
    BY AccountSums DEF IInv, Accounts
  <2>2. Logged = Banked' + Owed' + missed
    BY <1>9, <1>11, <1>12, <1>13, <2>1
  <2> QED
    BY <1>4, <1>9, <2>2 DEF LedgerIsComplete, Logged, Owed, Banked
<1>16. Overspend'
  <2>1. Overspend
    BY DEF IInv, Accounts
  <2>2. PICK m \in Nat : m = MaxWaveCost
    BY WaveCost
  <2>3. PICK p \in Nat, q \in Nat : p = Pending /\ q = Pending'
    BY <1>9, <1>11
  <2>4. MayCost[w] = (IF c > 0 THEN m ELSE 0) /\ MayCost'[w] = 0
    <3>1. MayCost[w] = IF Live(d) THEN MaxWaveCost ELSE 0
      BY <1>1 DEF MayCost
    <3>2. MayCost'[w] = IF Live(IdleWorker) THEN MaxWaveCost ELSE 0
      BY <1>8 DEF MayCost, Live
    <3>3. Live(d) <=> c > 0
      BY <1>1, <1>3 DEF Live
    <3> QED
      BY <2>2, <3>1, <3>2, <3>3, IdleFacts
  <2>5. q + (IF c > 0 THEN m ELSE 0) = p
    BY <1>11, <2>3, <2>4
  <2>6. PICK n \in Nat : n = Cardinality(Workers) * m
    BY <2>2, ConstantFacts
  <2>7. q + (IF c > 0 THEN m ELSE 0) <= n
    <3>1. PICK f : f = [v \in Workers |-> IF v = w THEN m ELSE MayCost'[v]]
      OBVIOUS
    <3>2. \A v \in Workers : MayCost'[v] \in 0 .. m
      BY <2>2 DEF MayCost
    <3>3. f \in [Workers -> Nat] /\ \A v \in Workers : f[v] <= m
      BY <3>1, <3>2
    <3>4. PICK h \in [Workers -> Nat] : h = MayCost'
      BY <2>2 DEF MayCost
    <3>5. IsFiniteSet(Workers)
      BY ConstantFacts
    <3>6. SumOver(Workers, f) <= Cardinality(Workers) * m /\ SumOver(Workers, f) \in Nat
      BY <3>3, <3>5, SumBound, SumNat
    <3>7. SumOver(Workers, f) + h[w] = SumOver(Workers, h) + f[w]
      <4>1. \A v \in Workers : v # w => f[v] = h[v]
        BY <3>1, <3>4
      <4> QED
        BY <3>3, <3>5, <4>1, SumChange
    <3>8. h[w] = 0 /\ f[w] = m /\ SumOver(Workers, h) = q
      BY <2>3, <2>4, <3>1, <3>4 DEF Pending
    <3>9. SumOver(Workers, f) = q + m
      BY <3>6, <3>7, <3>8
    <3> QED
      BY <2>6, <3>6, <3>9
  <2>8. Cap = DailyLimit + n /\ DailyLimit \in Nat
    BY <2>2, <2>6, ConstantFacts DEF Cap
  <2>9. l <= DailyLimit \/ l + p <= Cap
    BY <1>2, <2>1, <2>3 DEF Overspend, Pending
  <2>10. l + c <= DailyLimit \/ (l + c) + q <= Cap
    BY <1>3, <2>2, <2>5, <2>7, <2>8, <2>9
  <2>11. l + c <= Cap
    BY <2>8, <2>10
  <2>12. TenantOverspendBounded'
    <3>1. \A e \in 1 .. Days : ledger'[e] <= Cap
      BY <1>7, <1>8, <2>1, <2>11 DEF Overspend, TenantOverspendBounded, Cap
    <3> QED
      BY <3>1 DEF TenantOverspendBounded, Cap
  <2>13. (\A e \in 1 .. Days : e > today => ledger[e] = 0)'
    <3> SUFFICES ASSUME NEW e \in 1 .. Days, e > today PROVE ledger'[e] = 0
      BY <1>4
    <3>1. e # today
      BY <1>7
    <3> QED
      BY <1>8, <2>1, <3>1 DEF Overspend
  <2>14. (ledger[today] <= DailyLimit \/ ledger[today] + SumOver(Workers, MayCost) <= Cap)'
    BY <1>4, <1>8, <2>3, <2>10 DEF Pending, Cap
  <2> QED
    BY <2>12, <2>13, <2>14 DEF Overspend
<1> QED
  BY <1>6, <1>14, <1>15, <1>16 DEF IInv, Accounts

\* The other steps move no money: LeaseLapses, RaiseBudget and Midnight, after
\* which the ledger of the day is empty.
LEMMA QuietStep ==
  ASSUME IInv, (\E i \in Insts : LeaseLapses(i) \/ RaiseBudget(i)) \/ Midnight
  PROVE  IInv'
<1>1. Control'
  BY LapseControl, RaiseControl, MidnightControl DEF IInv
<1>2. Shape /\ Shape' /\ Accounts /\ wk \in [Workers -> Drives] /\ inst \in [Insts -> Folded]
  BY <1>1 DEF IInv, Control, Shape
<1>3. UNCHANGED <<ledger, bill, lost, missed>>
  BY DEF LeaseLapses, RaiseBudget, Midnight, Money
<1>4. \A v \in Workers : SameMoney(wk'[v], wk[v])
  <2> SUFFICES ASSUME NEW v \in Workers PROVE SameMoney(wk'[v], wk[v])
    OBVIOUS
  <2>1. PICK f \in Drives : f = wk[v]
    BY <1>2
  <2>2. wk'[v] = f \/ wk'[v] = [f EXCEPT !.fresh = FALSE]
    BY <2>1 DEF LeaseLapses, RaiseBudget, Midnight
  <2> QED
    BY <2>1, <2>2 DEF SameMoney, Drives
<1>5. \A j \in Insts : inst'[j].spent = inst[j].spent
  <2>1. CASE UNCHANGED inst
    BY <2>1
  <2>2. ASSUME NEW i \in Insts, RaiseBudget(i) PROVE \A j \in Insts : inst'[j].spent = inst[j].spent
    <3>1. PICK s, k : inst' = [inst EXCEPT ![i] =
                        [[inst[i] EXCEPT !.limit = RaisedLimit, !.st[s] = "ready"]
                           EXCEPT !.status = k]]
      BY <2>2 DEF RaiseBudget
    <3>2. PICK st : st = [inst[i].st EXCEPT ![s] = "ready"]
      OBVIOUS
    <3>3. inst' = [inst EXCEPT ![i] =
                     [[inst[i] EXCEPT !.limit = RaisedLimit, !.st = st] EXCEPT !.status = k]]
      BY <1>2, <3>1, <3>2 DEF Folded
    <3>4. PICK new : new = [[inst[i] EXCEPT !.limit = RaisedLimit, !.st = st] EXCEPT !.status = k]
      OBVIOUS
    <3>5. new.spent = inst[i].spent
      BY <1>2, <3>4 DEF Folded
    <3>6. inst' = [inst EXCEPT ![i] = new]
      BY <3>3, <3>4
    <3>7. inst'[i] = new /\ \A j \in Insts : j # i => inst'[j] = inst[j]
      BY <1>2, <3>6
    <3> TAKE j \in Insts
    <3>8. CASE j = i
      BY <3>5, <3>7, <3>8
    <3>9. CASE j # i
      BY <3>7, <3>9
    <3> QED
      BY <3>8, <3>9, Zenon
  <2> QED
    BY <2>1, <2>2 DEF LeaseLapses, Midnight
<1>6. BillIsLogged' /\ LedgerIsComplete' /\ Pending' = Pending
  BY <1>2, <1>3, <1>4, <1>5, AccountsSame
<1>7. Overspend'
  <2>1. Overspend /\ Pending \in Nat
    BY <1>2, SumTypes DEF Accounts
  <2>2. CASE UNCHANGED today
    BY <1>2, <1>3, <1>6, <2>1, <2>2, OverspendStays
  <2>3. CASE Midnight
    <3>1. today' = today + 1 /\ today' \in 1 .. Days /\ today \in 1 .. Days
      BY <1>2, <2>3 DEF Midnight, Shape, MoneyShape
    <3>2. today' > today
      BY <3>1
    <3>3. \A e \in 1 .. Days : e > today => ledger[e] = 0
      BY <2>1 DEF Overspend
    <3>4. ledger'[today'] = 0
      BY <1>3, <3>1, <3>2, <3>3
    <3>5. (\A e \in 1 .. Days : e > today => ledger[e] = 0)'
      BY <1>3, <3>1, <3>3
    <3>6. TenantOverspendBounded'
      BY <1>3, <2>1 DEF Overspend, TenantOverspendBounded
    <3>7. ledger'[today'] <= DailyLimit
      BY <3>4, ConstantFacts
    <3> QED
      BY <3>5, <3>6, <3>7 DEF Overspend
  <2> QED
    BY <2>2, <2>3 DEF LeaseLapses, RaiseBudget
<1> QED
  BY <1>1, <1>6, <1>7 DEF IInv, Accounts
-----------------------------------------------------------------------------
\* Every instance is new, every worker idle and every account empty.
LEMMA InitIInv == Init => IInv
<1> HAVE Init
<1>1. PICK limit \in [Insts -> Limits] :
        inst = [i \in Insts |->
          [status |-> "running", st |-> [s \in Steps |-> "ready"],
           att |-> [s \in Steps |-> 0], err |-> [s \in Steps |-> "none"],
           recorded |-> [s \in Steps |-> 0], spent |-> 0, limit |-> limit[i]]]
  BY DEF Init
<1>2. /\ wk = [w \in Workers |-> IdleWorker] /\ holder = [i \in Insts |-> NoWorker]
      /\ ledger = [d \in 1 .. Days |-> 0] /\ today = 1 /\ bill = 0 /\ lost = 0 /\ missed = 0
      /\ paid = [i \in Insts |-> [s \in Steps |-> [k \in 1 .. Calls |-> 0]]] /\ faults = 0
  BY DEF Init
<1>3. Shape
  <2>1. inst \in [Insts -> Folded]
    BY <1>1, ConstantFacts DEF Folded, Statuses, StepStates, Results
  <2>2. wk \in [Workers -> Drives]
    BY <1>2, IdleFacts
  <2>3. MoneyShape
    BY <1>2, ConstantFacts DEF MoneyShape
  <2> QED
    BY <1>2, <2>1, <2>2, <2>3, ConstantFacts DEF Shape
<1>4. Control
  <2>1. \A w \in Workers : DriveOK(wk[w]) /\ FreshOK(wk[w])
    BY <1>2, IdleFacts DEF FreshOK
  <2>2. Alone
    BY <1>2, IdleFacts DEF Alone, UpToDate
  <2>3. \A i \in Insts : Held(i)
    BY <1>2 DEF Held
  <2>4. \A i \in Insts : Tries(i)
    <3> TAKE i \in Insts
    <3>1. Raised(i) \in Nat
      BY DEF Raised
    <3>2. inst[i].status = "running" /\ \A s \in Steps : inst[i].att[s] = 0
      BY <1>1
    <3> QED
      BY <1>2, <3>1, <3>2, ConstantFacts DEF Tries
  <2>5. OnlyResultsAreReplayed
    BY <1>1 DEF OnlyResultsAreReplayed
  <2> QED
    BY <1>3, <2>1, <2>2, <2>3, <2>4, <2>5 DEF Control
<1>5. Logged = 0 /\ InHands = 0 /\ Owed = 0 /\ Banked = 0 /\ Pending = 0
  <2>1. Logged = 0
    <3>1. PICK f : f = [i \in Insts |-> inst[i].spent]
      OBVIOUS
    <3>2. f \in [Insts -> Nat] /\ \A i \in Insts : f[i] = 0
      BY <1>1, <3>1
    <3> QED
      BY <3>1, <3>2, ConstantFacts, SumZero DEF Logged
  <2>2. InHands = 0
    <3>1. PICK f : f = [w \in Workers |-> Charges(w)]
      OBVIOUS
    <3>2. ChargesOf(IdleWorker) = 0
      BY IdleFacts, NothingInHands
    <3>3. f \in [Workers -> Nat] /\ \A w \in Workers : f[w] = 0
      BY <1>2, <3>1, <3>2 DEF Charges, ChargesOf
    <3> QED
      BY <3>1, <3>3, ConstantFacts, SumZero DEF InHands
  <2>3. Owed = 0
    <3>1. PICK f : f = [w \in Workers |-> wk[w].due]
      OBVIOUS
    <3>2. f \in [Workers -> Nat] /\ \A w \in Workers : f[w] = 0
      BY <1>2, <3>1, IdleFacts
    <3> QED
      BY <3>1, <3>2, ConstantFacts, SumZero DEF Owed
  <2>4. Banked = 0
    <3>1. ledger \in [1 .. Days -> Nat] /\ \A d \in 1 .. Days : ledger[d] = 0
      BY <1>2
    <3>2. PICK D : D = 1 .. Days
      OBVIOUS
    <3>3. IsFiniteSet(D) /\ ledger \in [D -> Nat] /\ \A d \in D : ledger[d] = 0
      BY <3>1, <3>2, ConstantFacts
    <3>4. SumOver(D, ledger) = 0
      BY <3>3, SumZero
    <3> QED
      BY <3>2, <3>4 DEF Banked
  <2>5. Pending = 0
    <3>1. MayCost \in [Workers -> Nat] /\ \A w \in Workers : MayCost[w] = 0
      BY <1>2, IdleFacts DEF MayCost
    <3> QED
      BY <3>1, ConstantFacts, SumZero DEF Pending
  <2> QED
    BY <2>1, <2>2, <2>3, <2>4, <2>5
<1>6. BillIsLogged /\ LedgerIsComplete
  BY <1>2, <1>5, AccountSums
<1>7. Overspend
  <2>1. \A d \in 1 .. Days : ledger[d] = 0
    BY <1>2
  <2>2. TenantOverspendBounded
    BY <2>1, WaveCost DEF TenantOverspendBounded, Cap
  <2>3. ledger[today] <= DailyLimit
    BY <1>2, <2>1, ConstantFacts
  <2> QED
    BY <2>1, <2>2, <2>3 DEF Overspend
<1> QED
  BY <1>4, <1>6, <1>7 DEF IInv, Accounts

\* Every step keeps the invariant.
LEMMA NextIInv == IInv /\ [Next]_vars => IInv'
<1> HAVE IInv /\ [Next]_vars
<1>1. ASSUME NEW w \in Workers, TakeView(w) PROVE IInv'
  BY <1>1, TakeViewStep
<1>2. ASSUME NEW w \in Workers, AppendResults(w) PROVE IInv'
  BY <1>2, AppendResultsStep
<1>3. ASSUME NEW w \in Workers, RecordSpend(w) PROVE IInv'
  BY <1>3, RecordSpendStep
<1>4. ASSUME NEW w \in Workers, LoseRace(w) \/ Crash(w) PROVE IInv'
  BY <1>4, DriveDies
<1>5. ASSUME NEW w \in Workers, NEW i \in Insts, BlockOnBudget(w, i) \/ Dispatch(w, i)
      PROVE  IInv'
  BY <1>5, StartOfDrive
<1>6. ASSUME NEW w \in Workers, NEW s \in Steps, CallAnswered(w, s) PROVE IInv'
  BY <1>6, CallAnsweredStep
<1>7. ASSUME NEW w \in Workers, NEW s \in Steps,
             CallRefused(w, s) \/ CallFails(w, s) \/ RunnerReturns(w, s)
      PROVE  IInv'
  BY <1>7, EndOfAttempt
<1>8. ASSUME NEW w \in Workers, NEW s \in Steps, Timeout(w, s) PROVE IInv'
  BY <1>8, TimeoutStep
<1>9. ASSUME (\E i \in Insts : LeaseLapses(i) \/ RaiseBudget(i)) \/ Midnight PROVE IInv'
  BY <1>9, QuietStep
<1>10. CASE UNCHANGED vars
  BY <1>10 DEF vars, IInv, Control, Accounts, Shape, MoneyShape, FreshOK, Alone, UpToDate,
       Held, Raised, Tries, OnlyResultsAreReplayed, BillIsLogged, LedgerIsComplete, Charges,
       Overspend, TenantOverspendBounded, MayCost, Live, DriveOK, Driving, AttemptOK
<1> QED
  BY <1>1, <1>2, <1>3, <1>4, <1>5, <1>6, <1>7, <1>8, <1>9, <1>10 DEF Next

\* The invariant: what an instance, a drive and the ledger are, which drives are
\* up to date, how often a step was tried, and where every cent is.
THEOREM SpendingInvariant == Spec => []IInv
BY InitIInv, NextIInv, PTL DEF Spec

\* The state of drives, instances and accounts keeps its shape; a step is tried
\* no more often than the retries, the faults and a raised budget allow.
THEOREM SpendingTypeCorrect == Spec => []TypeOK
<1>1. IInv => TypeOK
  <2> HAVE IInv
  <2>1. Shape /\ \A i \in Insts : Tries(i)
    BY DEF IInv, Control
  <2>2. ASSUME NEW i \in Insts
        PROVE  inst[i].att \in [Steps -> 0 .. MaxRetries + MaxFaults + 2]
    <3>1. inst[i] \in Folded /\ faults \in 0 .. MaxFaults
      BY <2>1 DEF Shape
    <3>2. inst[i].att \in [Steps -> Nat]
      BY <3>1, FoldedFields
    <3>3. ASSUME NEW s \in Steps PROVE inst[i].att[s] \in 0 .. MaxRetries + MaxFaults + 2
      <4>1. PICK a \in Nat : a = inst[i].att[s]
        BY <3>2
      <4>2. PICK r \in {0, 1} : r = Raised(i)
        BY DEF Raised
      <4>3. a <= MaxRetries + 1 + faults + r
        BY <2>1, <4>1, <4>2 DEF Tries
      <4>4. a <= MaxRetries + MaxFaults + 2
        BY <3>1, <4>3, ConstantFacts
      <4> QED
        BY <4>1, <4>4, ConstantFacts
    <3> QED
      BY <3>2, <3>3
  <2>3. ASSUME NEW i \in Insts
        PROVE  /\ inst[i].status \in {"running", "paused", "waiting", "failed", "completed"}
               /\ inst[i].st \in [Steps -> {"ready", "running", "failed", "completed"}]
               /\ inst[i].err \in [Steps -> {"none", "ok", "retryable", "fatal", "budget"}]
               /\ inst[i].recorded \in [Steps -> 0 .. Calls]
               /\ inst[i].spent \in Nat /\ inst[i].limit \in Limits \cup {RaisedLimit}
    <3>1. inst[i] \in Folded
      BY <2>1 DEF Shape
    <3>2. Results \ {"run"} = {"none", "ok", "retryable", "fatal", "budget"}
      BY DEF Results
    <3> QED
      BY <3>1, <3>2, FoldedFields DEF Statuses, StepStates
  <2>4. ASSUME NEW w \in Workers
        PROVE  /\ wk[w].pc \in {"idle", "view", "exec", "ledger"}
               /\ wk[w].on \in Insts \cup {"none"}
               /\ wk[w].at \in [Steps -> Attempts]
               /\ {wk[w].view.workflow, wk[w].view.daily} \subseteq Int /\ wk[w].due \in Nat
    <3>1. wk[w] \in Drives
      BY <2>1 DEF Shape
    <3> QED
      BY <3>1, DriveFields DEF Pcs, Views
  <2> QED
    BY <2>1, <2>2, <2>3, <2>4 DEF TypeOK, Shape, MoneyShape
<1> QED
  BY <1>1, SpendingInvariant, PTL

\* The cost of every response that a provider returned is in a log, in the hands
\* of a drive that is going to append it, or lost with a drive that was: what the
\* bill has beyond that is for answers dropped as malformed or cut off.
THEOREM BillLogged == Spec => []BillIsLogged
<1>1. IInv => BillIsLogged
  BY DEF IInv, Accounts
<1> QED
  BY <1>1, SpendingInvariant, PTL

\* Every cent in a log is in the tenant's ledger, about to be, or was lost with a
\* drive that died between the append and record_spend.
THEOREM LedgerComplete == Spec => []LedgerIsComplete
<1>1. IInv => LedgerIsComplete
  BY DEF IInv, Accounts
<1> QED
  BY <1>1, SpendingInvariant, PTL

\* The ledger of a day passes the tenant's limit by no more than one wave of each
\* worker costs.
THEOREM OverspendBounded == Spec => []TenantOverspendBounded
<1>1. IInv => TenantOverspendBounded
  BY DEF IInv, Accounts, Overspend
<1> QED
  BY <1>1, SpendingInvariant, PTL

\* Only the calls of a step that completed are in the log to be replayed.
THEOREM ResultsReplayed == Spec => []OnlyResultsAreReplayed
<1>1. IInv => OnlyResultsAreReplayed
  BY DEF IInv, Control
<1> QED
  BY <1>1, SpendingInvariant, PTL

\* select takes the cheapest model that can serve the request, and refuses only
\* when the budgets do not allow for it: for every registry and every request.
THEOREM RoutesCorrectly == Spec => []RoutingCorrect
<1>1. IInv => RoutingCorrect
  <2> HAVE IInv
  <2>1. SUFFICES ASSUME NEW w \in Workers, NEW n \in DOMAIN Probes
                 PROVE  /\ Verdict(ProbeQuotes[n], wk[w].view) = "route" <=>
                             \E c \in CapableCosts[n] : Allows(wk[w].view, c)
                        /\ \A c \in CapableCosts[n] : ProbeQuotes[n].cost <= c
    BY DEF RoutingCorrect
  <2>2. PICK req : req = Probes[n] /\ req.input \in Nat /\ req.output \in Nat
    BY SpendingAssumption
  <2>3. PICK q, C : q = Quote(Registry, req) /\ C = CostsOfCapable(Registry, req)
    OBVIOUS
  <2>4. ProbeQuotes[n] = q /\ CapableCosts[n] = C
    BY <2>2, <2>3 DEF ProbeQuotes, CapableCosts
  <2>5. /\ q.cost \in Nat /\ C \in SUBSET Nat
        /\ C = {} => q = NoQuote
        /\ C # {} => q # NoQuote /\ q.cost \in C /\ \A c \in C : q.cost <= c
    BY <2>2, <2>3, SpendingAssumption, QuoteBest
  <2>6. PICK v \in Views : v = wk[w].view
    BY DriveFields DEF IInv, Control, Shape
  <2>7. v.workflow \in Int /\ v.daily \in Int
    BY <2>6 DEF Views
  <2>8. (\E c \in C : Allows(v, c)) <=> (C # {} /\ Allows(v, q.cost))
    BY <2>5, <2>7 DEF Allows
  <2>9. Verdict(q, v) = "route" <=> (q # NoQuote /\ Allows(v, q.cost))
    BY DEF Verdict
  <2> QED
    BY <2>4, <2>5, <2>6, <2>8, <2>9
<1> QED
  BY <1>1, SpendingInvariant, PTL
=============================================================================
