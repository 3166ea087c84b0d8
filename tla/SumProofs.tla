------------------------------ MODULE SumProofs ------------------------------
(***************************************************************************)
(* Sums over finite sets, as the fold of the community modules computes    *)
(* them: it takes the elements one by one in an order CHOOSE decides.      *)
(* Induction over the subsets of a finite set is the existence of a        *)
(* smallest one among those for which a claim does not hold.               *)
(***************************************************************************)
EXTENDS Integers, FiniteSets, FiniteSetsExt, FiniteSetTheorems, TLAPS

\* A claim that a set has when all smaller ones have it holds of every subset:
\* G is the set of the subsets it holds of.
LEMMA SubsetInduction ==
    ASSUME NEW S, IsFiniteSet(S), NEW G,
           \A s \in SUBSET S : (\A u \in SUBSET s : u # s => u \in G) => s \in G
    PROVE  \A s \in SUBSET S : s \in G
<1>. DEFINE bad == {s \in SUBSET S : s \notin G}
            R == StrictSubsetOrdering(S)
<1>1. IsWellFoundedOn(R, SUBSET S)
  BY FS_StrictSubsetOrderingWellFounded, FS_FiniteSubsetsOfFinite
<1>2. SUFFICES ASSUME bad # {} PROVE FALSE
  OBVIOUS
<1>3. PICK s \in bad : \A u \in bad : ~ (<<u, s>> \in R)
  <2>. HIDE DEF R
  <2>1. bad \subseteq SUBSET S
    OBVIOUS
  <2>. HIDE DEF bad
  <2>. QED BY <1>1, <1>2, <2>1, WFMin
<1>4. \A u \in SUBSET s : u # s => u \in G
  BY <1>3 DEF StrictSubsetOrdering
<1>. QED BY <1>3, <1>4

\* The same over the numbers up to n.
LEMMA CountInduction ==
    ASSUME NEW n \in Nat, NEW G, 0 \in G, \A i \in 0..(n - 1) : i \in G => i + 1 \in G
    PROVE  \A i \in 0..n : i \in G
<1>. DEFINE bad == {i \in 0..n : i \notin G}
            R == {ss \in Nat \X Nat : ss[1] < ss[2]}
<1>1. IsWellFoundedOn(R, Nat)
  BY NatLessThanWellFounded DEF OpToRel
<1>2. SUFFICES ASSUME bad # {} PROVE FALSE
  OBVIOUS
<1>3. PICK i \in bad : \A j \in bad : ~ (<<j, i>> \in R)
  <2>1. bad \subseteq Nat
    OBVIOUS
  <2>. HIDE DEF bad, R
  <2>. QED BY <1>1, <1>2, <2>1, WFMin
<1>4. i \in Nat /\ i <= n /\ i \notin G
  OBVIOUS
<1>5. i - 1 \in 0..(n - 1)
  BY <1>4
<1>6. <<i - 1, i>> \in R
  BY <1>4, <1>5
<1>7. i - 1 \in G
  BY <1>3, <1>4, <1>5, <1>6
<1>8. i - 1 + 1 = i
  BY <1>4
<1>. QED BY <1>4, <1>5, <1>7, <1>8

-----------------------------------------------------------------------------

\* The element that is taken first.
First(s) == CHOOSE x \in s : TRUE

\* g is the fold's own function, the sums of f over all subsets of S.
Folds(g, f, S) ==
    g = [s \in SUBSET S |-> IF s = {} THEN 0 ELSE f[First(s)] + g[s \ {First(s)}]]

\* The sum of the values of f on S.
Sum(f, S) == MapThenSumSet(LAMBDA x : f[x], S)

LEMMA FirstIs == ASSUME NEW s, s # {} PROVE First(s) \in s
BY DEF First

\* The sums of the subsets with at most n elements.
Upto(g, f, S, n) ==
    \A s \in SUBSET S : Cardinality(s) <= n =>
        g[s] \in Int /\ g[s] = IF s = {} THEN 0 ELSE f[First(s)] + g[s \ {First(s)}]

LEMMA SubsetSizes ==
    ASSUME NEW S, IsFiniteSet(S), NEW s \in SUBSET S
    PROVE  /\ IsFiniteSet(s) /\ Cardinality(s) \in Nat /\ Cardinality(s) <= Cardinality(S)
           /\ Cardinality(s) = 0 <=> s = {}
           /\ \A x \in s : Cardinality(s \ {x}) = Cardinality(s) - 1
<1>1. IsFiniteSet(s) /\ Cardinality(s) <= Cardinality(S)
  BY FS_Subset
<1>2. Cardinality(s) \in Nat /\ (Cardinality(s) = 0 <=> s = {})
  BY <1>1, FS_CardinalityType, FS_EmptySet
<1>3. \A x \in s : Cardinality(s \ {x}) = Cardinality(s) - 1
  BY <1>1, FS_RemoveElement
<1>. QED BY <1>1, <1>2, <1>3

\* There is such a function, with whole numbers as values.
LEMMA FoldExists ==
    ASSUME NEW S, IsFiniteSet(S), NEW f, \A x \in S : f[x] \in Int
    PROVE  \E g \in [SUBSET S -> Int] : Folds(g, f, S)
<1>. DEFINE n == Cardinality(S)
            G == {i \in 0..n : \E g \in [SUBSET S -> Int] : Upto(g, f, S, i)}
<1>1. n \in Nat
  BY FS_CardinalityType
<1>2. 0 \in G
  <2>. DEFINE g == [s \in SUBSET S |-> 0]
  <2>1. g \in [SUBSET S -> Int]
    OBVIOUS
  <2>2. Upto(g, f, S, 0)
    BY SubsetSizes DEF Upto
  <2>. QED BY <1>1, <2>1, <2>2, SMTT(30)
<1>3. ASSUME NEW i \in 0..(n - 1), i \in G PROVE i + 1 \in G
  <2>1. PICK g \in [SUBSET S -> Int] : Upto(g, f, S, i)
    BY <1>3
  <2>. DEFINE h == [s \in SUBSET S |-> IF s = {} THEN 0 ELSE f[First(s)] + g[s \ {First(s)}]]
  <2>2. \A s \in SUBSET S : s \ {First(s)} \in SUBSET S /\ (s # {} => f[First(s)] \in Int)
    BY FirstIs
  <2>3. h \in [SUBSET S -> Int]
    BY <2>2
  <2>4. ASSUME NEW s \in SUBSET S, Cardinality(s) <= i
        PROVE  h[s] = g[s]
    BY <2>1, <2>4 DEF Upto
  <2>5. ASSUME NEW s \in SUBSET S, Cardinality(s) <= i + 1, s # {}
        PROVE  h[s] = f[First(s)] + h[s \ {First(s)}]
    <3>1. First(s) \in s
      BY <2>5, FirstIs
    <3>2. Cardinality(s \ {First(s)}) = Cardinality(s) - 1 /\ Cardinality(s) \in Nat
      BY <3>1, SubsetSizes
    <3>3. Cardinality(s \ {First(s)}) <= i
      BY <2>5, <3>2
    <3>4. h[s \ {First(s)}] = g[s \ {First(s)}]
      BY <2>2, <2>4, <3>3
    <3>. QED BY <2>5, <3>4
  <2>6. Upto(h, f, S, i + 1)
    <3>1. \A s \in SUBSET S : h[s] \in Int /\ (s = {} => h[s] = 0)
      BY <2>3
    <3>. HIDE DEF h
    <3>. QED BY <2>5, <3>1 DEF Upto
  <2>. HIDE DEF h
  <2>7. i + 1 \in 0..n
    BY <1>1
  <2>. QED BY <2>3, <2>6, <2>7
<1>4. \A i \in 0..n : i \in G
  <2>. HIDE DEF G, n
  <2>. QED BY <1>1, <1>2, <1>3, CountInduction
<1>5. PICK g \in [SUBSET S -> Int] : Upto(g, f, S, n)
  <2>1. n \in 0..n
    BY <1>1
  <2>2. n \in G
    BY <1>4, <2>1
  <2>. HIDE DEF n
  <2>. QED BY <2>2
<1>6. \A s \in SUBSET S : g[s] = IF s = {} THEN 0 ELSE f[First(s)] + g[s \ {First(s)}]
  BY <1>5, SubsetSizes DEF Upto
<1>. QED BY <1>6 DEF Folds

\* There is only one.
LEMMA FoldUnique ==
    ASSUME NEW S, IsFiniteSet(S), NEW f, NEW g, NEW h, Folds(g, f, S), Folds(h, f, S)
    PROVE  g = h
<1>. DEFINE G == {s \in SUBSET S : g[s] = h[s]}
<1>1. /\ DOMAIN g = SUBSET S /\ DOMAIN h = SUBSET S
      /\ g = [s \in DOMAIN g |-> g[s]] /\ h = [s \in DOMAIN h |-> h[s]]
  BY DEF Folds
<1>2. \A s \in SUBSET S : /\ g[s] = IF s = {} THEN 0 ELSE f[First(s)] + g[s \ {First(s)}]
                          /\ h[s] = IF s = {} THEN 0 ELSE f[First(s)] + h[s \ {First(s)}]
  BY DEF Folds
<1>3. ASSUME NEW s \in SUBSET S, \A u \in SUBSET s : u # s => u \in G
      PROVE  s \in G
  <2>1. CASE s = {}
    BY <1>2, <2>1
  <2>2. CASE s # {}
    <3>1. First(s) \in s
      BY <2>2, FirstIs
    <3>2. s \ {First(s)} \in SUBSET s /\ s \ {First(s)} # s
      BY <3>1
    <3>3. g[s \ {First(s)}] = h[s \ {First(s)}]
      BY <1>3, <3>2
    <3>. QED BY <1>2, <2>2, <3>3
  <2>. QED BY <2>1, <2>2
<1>4. \A s \in SUBSET S : s \in G
  <2>. HIDE DEF G
  <2>. QED BY <1>3, SubsetInduction
<1>. QED BY <1>1, <1>4

\* What MapThenSumSet() computes is the value of such a function.
LEMMA SumFolds ==
    ASSUME NEW S, IsFiniteSet(S), NEW f, \A x \in S : f[x] \in Int
    PROVE  \E g \in [SUBSET S -> Int] : Folds(g, f, S) /\ Sum(f, S) = g[S]
<1>. DEFINE g == CHOOSE h : Folds(h, f, S)
<1>1. Folds(g, f, S)
  BY FoldExists
<1>2. Sum(f, S) = g[S]
  BY DEF Sum, MapThenSumSet, MapThenFoldSet, Folds, First
<1>3. g \in [SUBSET S -> Int]
  <2>. HIDE DEF g
  <2>. QED BY <1>1, FoldExists, FoldUnique
<1>. QED BY <1>1, <1>2, <1>3

-----------------------------------------------------------------------------

\* The fold's function for a set gives the sums over its subsets.
LEMMA SumsOfSubsets ==
    ASSUME NEW S, IsFiniteSet(S), NEW f, \A x \in S : f[x] \in Int,
           NEW g \in [SUBSET S -> Int], Folds(g, f, S), NEW T \in SUBSET S
    PROVE  Sum(f, T) = g[T]
<1>1. IsFiniteSet(T)
  BY FS_Subset
<1>2. PICK h \in [SUBSET T -> Int] : Folds(h, f, T) /\ Sum(f, T) = h[T]
  BY <1>1, SumFolds
<1>. DEFINE r == [s \in SUBSET T |-> g[s]]
<1>3. \A s \in SUBSET T : /\ s \in SUBSET S /\ s \ {First(s)} \in SUBSET T
                          /\ g[s] = IF s = {} THEN 0 ELSE f[First(s)] + g[s \ {First(s)}]
  BY DEF Folds
<1>4. Folds(r, f, T)
  <2>1. \A s \in SUBSET T : r[s] = IF s = {} THEN 0 ELSE f[First(s)] + r[s \ {First(s)}]
    BY <1>3
  <2>2. r = [s \in SUBSET T |-> r[s]]
    OBVIOUS
  <2>. HIDE DEF r
  <2>. QED BY <2>1, <2>2 DEF Folds
<1>5. r = h
  <2>. HIDE DEF r
  <2>. QED BY <1>1, <1>2, <1>4, FoldUnique
<1>. QED BY <1>2, <1>5

LEMMA SumEmpty == ASSUME NEW f PROVE Sum(f, {}) = 0
<1>1. IsFiniteSet({}) /\ \A x \in {} : f[x] \in Int
  BY FS_EmptySet
<1>2. PICK g \in [SUBSET {} -> Int] : Folds(g, f, {}) /\ Sum(f, {}) = g[{}]
  BY <1>1, SumFolds
<1>. QED BY <1>2 DEF Folds

LEMMA SumType ==
    ASSUME NEW S, IsFiniteSet(S), NEW f, \A x \in S : f[x] \in Int
    PROVE  Sum(f, S) \in Int
<1>1. PICK g \in [SUBSET S -> Int] : Folds(g, f, S) /\ Sum(f, S) = g[S]
  BY SumFolds
<1>. QED BY <1>1

\* The order does not matter: any element may be taken out first.
LEMMA SumRemove ==
    ASSUME NEW S, IsFiniteSet(S), NEW f, \A x \in S : f[x] \in Int, NEW x \in S
    PROVE  Sum(f, S) = f[x] + Sum(f, S \ {x})
<1>1. PICK g \in [SUBSET S -> Int] : Folds(g, f, S) /\ Sum(f, S) = g[S]
  BY SumFolds
<1>2. \A s \in SUBSET S : g[s] = IF s = {} THEN 0 ELSE f[First(s)] + g[s \ {First(s)}]
  BY <1>1 DEF Folds
<1>. DEFINE G == {s \in SUBSET S : \A y \in s : g[s] = f[y] + g[s \ {y}]}
<1>3. ASSUME NEW s \in SUBSET S, \A u \in SUBSET s : u # s => u \in G
      PROVE  s \in G
  <2>. SUFFICES ASSUME NEW y \in s PROVE g[s] = f[y] + g[s \ {y}]
    OBVIOUS
  <2>. DEFINE z == First(s)
  <2>1. z \in s /\ g[s] = f[z] + g[s \ {z}]
    BY <1>2, FirstIs
  <2>. HIDE DEF z
  <2>2. CASE y = z
    BY <2>1, <2>2
  <2>3. CASE y # z
    <3>1. s \ {z} \in G /\ s \ {y} \in G
      BY <1>3, <2>1
    <3>2. y \in s \ {z} /\ z \in s \ {y} /\ (s \ {z}) \ {y} = (s \ {y}) \ {z}
      BY <2>1, <2>3
    <3>3. g[s \ {z}] = f[y] + g[(s \ {z}) \ {y}] /\ g[s \ {y}] = f[z] + g[(s \ {z}) \ {y}]
      BY <3>1, <3>2
    <3>4. f[y] \in Int /\ f[z] \in Int /\ g[(s \ {z}) \ {y}] \in Int
      BY <2>1
    <3>. QED BY <2>1, <3>3, <3>4
  <2>. QED BY <2>2, <2>3
<1>4. \A s \in SUBSET S : s \in G
  <2>. HIDE DEF G
  <2>. QED BY <1>3, SubsetInduction
<1>5. g[S] = f[x] + g[S \ {x}]
  BY <1>4
<1>6. Sum(f, S \ {x}) = g[S \ {x}]
  BY <1>1, SumsOfSubsets
<1>. QED BY <1>1, <1>5, <1>6

LEMMA SumAdd ==
    ASSUME NEW S, IsFiniteSet(S), NEW f, NEW x, x \notin S, \A y \in S \cup {x} : f[y] \in Int
    PROVE  Sum(f, S \cup {x}) = Sum(f, S) + f[x]
<1>1. IsFiniteSet(S \cup {x}) /\ (S \cup {x}) \ {x} = S
  BY FS_AddElement
<1>2. Sum(f, S \cup {x}) = f[x] + Sum(f, S)
  BY <1>1, SumRemove
<1>. QED BY <1>2, SumType

\* Only the values on the set matter.
LEMMA SumSame ==
    ASSUME NEW S, IsFiniteSet(S), NEW f, NEW h, \A x \in S : f[x] \in Int /\ h[x] = f[x]
    PROVE  Sum(h, S) = Sum(f, S)
<1>1. PICK g \in [SUBSET S -> Int] : Folds(g, f, S) /\ Sum(f, S) = g[S]
  BY SumFolds
<1>2. Folds(g, h, S)
  <2>1. \A s \in SUBSET S : s # {} => h[First(s)] = f[First(s)]
    BY FirstIs
  <2>2. \A s \in SUBSET S : g[s] = IF s = {} THEN 0 ELSE h[First(s)] + g[s \ {First(s)}]
    BY <1>1, <2>1 DEF Folds
  <2>. QED BY <2>2 DEF Folds
<1>3. Sum(h, S) = g[S]
  BY <1>2, SumsOfSubsets
<1>. QED BY <1>1, <1>3

\* One value changes.
DifferAt(f, h, S, x) == \A y \in S : f[y] \in Int /\ h[y] \in Int /\ (y # x => h[y] = f[y])

LEMMA SumChange ==
    ASSUME NEW S, IsFiniteSet(S), NEW f, NEW h, NEW x \in S, DifferAt(f, h, S, x)
    PROVE  Sum(h, S) = Sum(f, S) + (h[x] - f[x])
<1>. USE DEF DifferAt
<1>1. Sum(h, S) = h[x] + Sum(h, S \ {x}) /\ Sum(f, S) = f[x] + Sum(f, S \ {x})
  BY SumRemove
<1>2. IsFiniteSet(S \ {x})
  BY FS_Subset
<1>3. Sum(h, S \ {x}) = Sum(f, S \ {x}) /\ Sum(f, S \ {x}) \in Int
  BY <1>2, SumSame, SumType
<1>. QED BY <1>1, <1>3

\* A part is taken away.
LEMMA SumPart ==
    ASSUME NEW S, IsFiniteSet(S), NEW f, \A x \in S : f[x] \in Int, NEW T \in SUBSET S
    PROVE  Sum(f, S \ T) = Sum(f, S) - Sum(f, T)
<1>. DEFINE G == {u \in SUBSET S : Sum(f, S \ u) = Sum(f, S) - Sum(f, u)}
<1>1. \A u \in SUBSET S : IsFiniteSet(u) /\ Sum(f, u) \in Int
  <2>. SUFFICES ASSUME NEW u \in SUBSET S PROVE IsFiniteSet(u) /\ Sum(f, u) \in Int
    OBVIOUS
  <2>1. IsFiniteSet(u)
    BY FS_Subset
  <2>. QED BY <2>1, SumType
<1>2. ASSUME NEW u \in SUBSET S, \A v \in SUBSET u : v # u => v \in G
      PROVE  u \in G
  <2>1. CASE u = {}
    <3>1. S \ u = S /\ Sum(f, u) = 0
      BY <2>1, SumEmpty
    <3>. QED BY <1>1, <3>1
  <2>2. CASE u # {}
    <3>1. PICK x \in u : TRUE
      BY <2>2
    <3>2. Sum(f, S \ (u \ {x})) = Sum(f, S) - Sum(f, u \ {x})
      BY <1>2
    <3>3. Sum(f, u) = f[x] + Sum(f, u \ {x})
      BY <1>1, SumRemove
    <3>4. Sum(f, S \ (u \ {x})) = f[x] + Sum(f, S \ u)
      <4>1. IsFiniteSet(S \ (u \ {x})) /\ x \in S \ (u \ {x})
        BY <1>1
      <4>2. (S \ (u \ {x})) \ {x} = S \ u
        OBVIOUS
      <4>3. Sum(f, S \ (u \ {x})) = f[x] + Sum(f, (S \ (u \ {x})) \ {x})
        BY <4>1, SumRemove
      <4>. QED BY <4>2, <4>3
    <3>5. f[x] \in Int /\ Sum(f, S \ u) \in Int /\ Sum(f, u \ {x}) \in Int /\ Sum(f, S) \in Int
      BY <1>1
    <3>. QED BY <3>2, <3>3, <3>4, <3>5
  <2>. QED BY <2>1, <2>2
<1>3. \A u \in SUBSET S : u \in G
  <2>. HIDE DEF G
  <2>. QED BY <1>2, SubsetInduction
<1>. QED BY <1>3

\* A sum of natural numbers is one.
LEMMA SumNat ==
    ASSUME NEW S, IsFiniteSet(S), NEW f, \A x \in S : f[x] \in Nat
    PROVE  Sum(f, S) \in Nat
<1>1. PICK g \in [SUBSET S -> Int] : Folds(g, f, S) /\ Sum(f, S) = g[S]
  <2>1. \A x \in S : f[x] \in Int
    OBVIOUS
  <2>. QED BY <2>1, SumFolds
<1>. DEFINE G == {s \in SUBSET S : g[s] \in Nat}
<1>2. ASSUME NEW s \in SUBSET S, \A u \in SUBSET s : u # s => u \in G
      PROVE  s \in G
  <2>1. g[s] = IF s = {} THEN 0 ELSE f[First(s)] + g[s \ {First(s)}]
    BY <1>1 DEF Folds
  <2>2. CASE s # {}
    <3>1. First(s) \in s
      BY <2>2, FirstIs
    <3>2. f[First(s)] \in Nat /\ g[s \ {First(s)}] \in Nat
      BY <1>2, <3>1
    <3>. QED BY <2>1, <2>2, <3>2
  <2>. QED BY <2>1, <2>2
<1>3. \A s \in SUBSET S : s \in G
  <2>. HIDE DEF G
  <2>. QED BY <1>2, SubsetInduction
<1>. QED BY <1>1, <1>3

LEMMA SumZero ==
    ASSUME NEW S, IsFiniteSet(S), NEW f, \A x \in S : f[x] = 0
    PROVE  Sum(f, S) = 0
<1>. DEFINE G == {s \in SUBSET S : Sum(f, s) = 0}
<1>1. ASSUME NEW s \in SUBSET S, \A u \in SUBSET s : u # s => u \in G
      PROVE  s \in G
  <2>1. CASE s = {}
    BY <2>1, SumEmpty
  <2>2. CASE s # {}
    <3>1. PICK x \in s : TRUE
      BY <2>2
    <3>2. IsFiniteSet(s) /\ \A y \in s : f[y] \in Int
      BY FS_Subset
    <3>3. Sum(f, s) = f[x] + Sum(f, s \ {x})
      BY <3>2, SumRemove
    <3>. QED BY <1>1, <3>3
  <2>. QED BY <2>1, <2>2
<1>2. \A s \in SUBSET S : s \in G
  <2>. HIDE DEF G
  <2>. QED BY <1>1, SubsetInduction
<1>. QED BY <1>2

\* Larger values have a larger sum.
LEMMA SumMonotone ==
    ASSUME NEW S, IsFiniteSet(S), NEW f, NEW h,
           \A x \in S : f[x] \in Int /\ h[x] \in Int /\ f[x] <= h[x]
    PROVE  Sum(f, S) <= Sum(h, S)
<1>. DEFINE G == {s \in SUBSET S : Sum(f, s) <= Sum(h, s)}
<1>1. ASSUME NEW s \in SUBSET S, \A u \in SUBSET s : u # s => u \in G
      PROVE  s \in G
  <2>1. IsFiniteSet(s)
    BY FS_Subset
  <2>2. CASE s = {}
    BY <2>2, SumEmpty
  <2>3. CASE s # {}
    <3>1. PICK x \in s : TRUE
      BY <2>3
    <3>2. Sum(f, s) = f[x] + Sum(f, s \ {x}) /\ Sum(h, s) = h[x] + Sum(h, s \ {x})
      BY <2>1, SumRemove
    <3>3. IsFiniteSet(s \ {x}) /\ Sum(f, s \ {x}) <= Sum(h, s \ {x})
      BY <1>1, <2>1, FS_Subset
    <3>4. Sum(f, s \ {x}) \in Int /\ Sum(h, s \ {x}) \in Int
      BY <3>3, SumType
    <3>5. f[x] \in Int /\ h[x] \in Int /\ f[x] <= h[x]
      OBVIOUS
    <3>. QED BY <3>2, <3>3, <3>4, <3>5
  <2>. QED BY <2>2, <2>3
<1>2. \A s \in SUBSET S : s \in G
  <2>. HIDE DEF G
  <2>. QED BY <1>1, SubsetInduction
<1>. QED BY <1>2

\* One more for each element of B.
OneMore(f, S, B) == [x \in S |-> IF x \in B THEN f[x] + 1 ELSE f[x]]

LEMMA SumOneMore ==
    ASSUME NEW S, IsFiniteSet(S), NEW f, \A x \in S : f[x] \in Int, NEW B \in SUBSET S
    PROVE  Sum(OneMore(f, S, B), S) = Sum(f, S) + Cardinality(B)
<1>. DEFINE G == {s \in SUBSET S : Sum(OneMore(f, S, s), S) = Sum(f, S) + Cardinality(s)}
<1>1. Sum(f, S) \in Int
  BY SumType
<1>2. ASSUME NEW s \in SUBSET S, \A u \in SUBSET s : u # s => u \in G
      PROVE  s \in G
  <2>1. CASE s = {}
    <3>1. \A x \in S : OneMore(f, S, s)[x] = f[x]
      BY <2>1 DEF OneMore
    <3>2. Sum(OneMore(f, S, s), S) = Sum(f, S)
      <4>. DEFINE h == OneMore(f, S, s)
      <4>1. \A x \in S : f[x] \in Int /\ h[x] = f[x]
        BY <3>1
      <4>. HIDE DEF h
      <4>2. Sum(h, S) = Sum(f, S)
        BY <4>1, SumSame
      <4>. QED BY <4>2 DEF h
    <3>. QED BY <1>1, <2>1, <3>2, FS_EmptySet
  <2>2. CASE s # {}
    <3>1. PICK x \in s : TRUE
      BY <2>2
    <3>. DEFINE a == OneMore(f, S, s \ {x})
                b == OneMore(f, S, s)
    <3>2. Sum(a, S) = Sum(f, S) + Cardinality(s \ {x})
      BY <1>2
    <3>3. DifferAt(a, b, S, x) /\ b[x] = f[x] + 1 /\ a[x] = f[x] /\ f[x] \in Int
      BY DEF OneMore, DifferAt
    <3>. HIDE DEF a, b
    <3>4. Sum(b, S) = Sum(a, S) + (b[x] - a[x])
      BY <3>3, SumChange
    <3>5. Cardinality(s) \in Nat /\ Cardinality(s \ {x}) = Cardinality(s) - 1
      BY SubsetSizes
    <3>6. Sum(b, S) = Sum(f, S) + Cardinality(s)
      BY <1>1, <3>2, <3>3, <3>4, <3>5
    <3>. QED BY <3>6 DEF b
  <2>. QED BY <2>1, <2>2
<1>3. \A s \in SUBSET S : s \in G
  <2>. HIDE DEF G
  <2>. QED BY <1>2, SubsetInduction
<1>. QED BY <1>3

\* A set is counted class by class: Of says which class an element is in.
Classes(J, M, Of) == [m \in M |-> Cardinality({j \in J : Of[j] = m})]

LEMMA CountByClass ==
    ASSUME NEW J, IsFiniteSet(J), NEW M, IsFiniteSet(M), NEW Of, \A j \in J : Of[j] \in M
    PROVE  Cardinality(J) = Sum(Classes(J, M, Of), M)
<1>. DEFINE G == {s \in SUBSET J : Cardinality(s) = Sum(Classes(s, M, Of), M)}
<1>1. \A s \in SUBSET J : \A m \in M : /\ Classes(s, M, Of)[m] = Cardinality({j \in s : Of[j] = m})
                                       /\ Classes(s, M, Of)[m] \in Nat
  <2>. SUFFICES ASSUME NEW s \in SUBSET J, NEW m \in M
                PROVE  /\ Classes(s, M, Of)[m] = Cardinality({j \in s : Of[j] = m})
                       /\ Classes(s, M, Of)[m] \in Nat
    OBVIOUS
  <2>1. {j \in s : Of[j] = m} \in SUBSET J
    OBVIOUS
  <2>2. Cardinality({j \in s : Of[j] = m}) \in Nat
    BY <2>1, SubsetSizes
  <2>. QED BY <2>2 DEF Classes
<1>2. ASSUME NEW s \in SUBSET J, \A u \in SUBSET s : u # s => u \in G
      PROVE  s \in G
  <2>1. CASE s = {}
    <3>. DEFINE h == Classes(s, M, Of)
    <3>1. \A m \in M : h[m] = 0
      <4>1. \A m \in M : {j \in s : Of[j] = m} = {}
        BY <2>1
      <4>. QED BY <1>1, <4>1, FS_EmptySet
    <3>. HIDE DEF h
    <3>2. Sum(h, M) = 0
      BY <3>1, SumZero
    <3>3. Cardinality(s) = Sum(h, M)
      BY <2>1, <3>2, FS_EmptySet
    <3>. QED BY <3>3 DEF h
  <2>2. CASE s # {}
    <3>1. PICK x \in s : TRUE
      BY <2>2
    <3>. DEFINE a == Classes(s \ {x}, M, Of)
                b == Classes(s, M, Of)
    <3>2. Cardinality(s \ {x}) = Sum(a, M)
      BY <1>2
    <3>3. Of[x] \in M
      OBVIOUS
    <3>4. DifferAt(a, b, M, Of[x])
      <4>1. \A m \in M : m # Of[x] => {j \in s : Of[j] = m} = {j \in s \ {x} : Of[j] = m}
        OBVIOUS
      <4>2. s \ {x} \in SUBSET J
        OBVIOUS
      <4>3. \A m \in M : /\ a[m] = Cardinality({j \in s \ {x} : Of[j] = m}) /\ a[m] \in Int
                         /\ b[m] = Cardinality({j \in s : Of[j] = m}) /\ b[m] \in Int
        BY <1>1, <4>2, SMTT(30)
      <4>. HIDE DEF a, b
      <4>. QED BY <4>1, <4>3 DEF DifferAt
    <3>5. b[Of[x]] = a[Of[x]] + 1 /\ a[Of[x]] \in Int
      <4>. DEFINE c == {j \in s : Of[j] = Of[x]}
      <4>1. c \in SUBSET J /\ x \in c /\ c \ {x} = {j \in s \ {x} : Of[j] = Of[x]}
        OBVIOUS
      <4>2. Cardinality(c \ {x}) = Cardinality(c) - 1 /\ Cardinality(c) \in Nat
        BY <4>1, SubsetSizes
      <4>. QED BY <1>1, <3>3, <4>1, <4>2
    <3>. HIDE DEF a, b
    <3>6. Sum(b, M) = Sum(a, M) + (b[Of[x]] - a[Of[x]])
      BY <3>3, <3>4, SumChange
    <3>7. Cardinality(s) \in Nat /\ Cardinality(s \ {x}) = Cardinality(s) - 1
      BY SubsetSizes
    <3>8. Cardinality(s) = Sum(b, M)
      BY <3>2, <3>5, <3>6, <3>7
    <3>. QED BY <3>8 DEF b
  <2>. QED BY <2>1, <2>2
<1>3. \A s \in SUBSET J : s \in G
  <2>. HIDE DEF G
  <2>. QED BY <1>2, SubsetInduction
<1>. QED BY <1>3

=============================================================================
