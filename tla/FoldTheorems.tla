---------------------------- MODULE FoldTheorems ----------------------------
(***************************************************************************)
(* What folds compute: FoldFunctionOnSet(+, 0, f, S), the sum of f over a  *)
(* finite set; FoldLeft over a sequence; and Keep, the filter.  The        *)
(* library's induction theorems take an operator; here induction is over   *)
(* the SET of the subsets, or of the lengths, that have the property, by   *)
(* the well-foundedness of < on Nat.                                       *)
(***************************************************************************)
EXTENDS Integers, Functions, Filter, FiniteSetTheorems, SequenceTheorems,
    WellFoundedInduction, TLAPS

-----------------------------------------------------------------------------
(* Sums over finite sets                                                   *)

First(s) == CHOOSE x \in s : TRUE

\* g is the function on the subsets of S that the fold computes.
Folds(g, f, S) ==
    g = [s \in SUBSET S |-> IF s = {} THEN 0 ELSE f[First(s)] + g[s \ {First(s)}]]

Sum(f, S) == FoldFunctionOnSet(+, 0, f, S)

\* The fold is the value of its recursive function.
LEMMA SumUnfolds ==
    ASSUME NEW f, NEW S
    PROVE  Sum(f, S) = (CHOOSE g : Folds(g, f, S))[S]
  BY DEF Sum, FoldFunctionOnSet, MapThenFoldSet, Folds, First

\* A nonempty set of naturals has a least element.
LEMMA LeastNatural ==
    ASSUME NEW N, N \subseteq Nat, N # {}
    PROVE  \E k \in N : \A y \in N : k <= y
  <1> DEFINE R == {ss \in Nat \X Nat : ss[1] < ss[2]}
  <1>1. IsWellFoundedOn(R, Nat)
    BY NatLessThanWellFounded DEF OpToRel
  <1>2. \A y, k \in Nat : <<y, k>> \in R <=> y < k
    OBVIOUS
  <1> HIDE DEF R
  <1>3. PICK k \in N : \A y \in N : ~(<<y, k>> \in R)
    BY <1>1, WFMin, Zenon
  <1>4. \A y \in N : ~(y < k)
    BY <1>2, <1>3, Zenon
  <1> QED
    BY <1>4

\* A set of subsets that has every subset whose proper subsets it has, has all.
LEMMA SubsetInduction ==
    ASSUME NEW S, IsFiniteSet(S), NEW T,
           \A s \in SUBSET S : (\A t \in SUBSET s : t # s => t \in T) => s \in T
    PROVE  \A s \in SUBSET S : s \in T
  <1>1. SUFFICES ASSUME NEW s0 \in SUBSET S, s0 \notin T PROVE FALSE
    OBVIOUS
  <1> DEFINE Bad == {s \in SUBSET S : s \notin T}
             Sizes == {Cardinality(s) : s \in Bad}
  <1>2. \A s \in SUBSET S : IsFiniteSet(s) /\ Cardinality(s) \in Nat
    BY FS_Subset, FS_CardinalityType
  <1>3. Sizes \subseteq Nat /\ Sizes # {}
    BY <1>1, <1>2
  <1>4. PICK k \in Sizes : \A y \in Sizes : k <= y
    BY <1>3, LeastNatural
  <1>5. PICK s \in Bad : k = Cardinality(s)
    BY <1>4
  <1>6. ASSUME NEW t \in SUBSET s, t # s, t \notin T PROVE FALSE
    <2>1. Cardinality(t) < Cardinality(s) /\ Cardinality(t) \in Nat /\ Cardinality(s) \in Nat
      <3>1. IsFiniteSet(s)
        BY <1>2
      <3>2. Cardinality(t) <= Cardinality(s) /\ Cardinality(t) # Cardinality(s)
        BY <1>6, <3>1, FS_Subset
      <3>3. Cardinality(t) \in Nat /\ Cardinality(s) \in Nat
        BY <1>2
      <3> QED
        BY <3>2, <3>3
    <2>2. t \in Bad /\ Cardinality(t) \in Sizes
      BY <1>6
    <2> QED
      BY <1>4, <1>5, <2>1, <2>2
  <1> QED
    BY <1>5, <1>6

\* The recursion of Folds, an equation at a time.
LEMMA FoldsRec ==
    ASSUME NEW g, NEW f, NEW S, Folds(g, f, S)
    PROVE  /\ g[{}] = 0
           /\ \A s \in SUBSET S : s # {} =>
                /\ First(s) \in s /\ s \ {First(s)} \in SUBSET S
                /\ g[s] = f[First(s)] + g[s \ {First(s)}]
  BY DEF Folds, First

LEMMA FoldsUnique ==
    ASSUME NEW S, IsFiniteSet(S), NEW f, NEW g, NEW h, NEW U, S \in SUBSET U,
           Folds(g, f, S), Folds(h, f, U)
    PROVE  g[S] = h[S]
  <1> DEFINE T == {s \in SUBSET S : g[s] = h[s]}
  <1>1. ASSUME NEW s \in SUBSET S, \A t \in SUBSET s : t # s => t \in T PROVE s \in T
    <2>1. CASE s = {}
      BY <2>1, FoldsRec
    <2>2. CASE s # {}
      <3>1. First(s) \in s /\ g[s] = f[First(s)] + g[s \ {First(s)}]
        BY <2>2, FoldsRec
      <3>2. s \in SUBSET U /\ h[s] = f[First(s)] + h[s \ {First(s)}]
        <4>1. s \in SUBSET U
          OBVIOUS
        <4> QED
          BY <2>2, <4>1, FoldsRec
      <3>3. s \ {First(s)} \in T
        BY <1>1, <3>1
      <3> QED
        BY <3>1, <3>2, <3>3
    <2> QED
      BY <2>1, <2>2
  <1>2. S \in T
    <2> HIDE DEF T
    <2> QED
      BY <1>1, SubsetInduction
  <1> QED
    BY <1>2

LEMMA FoldsExists ==
    ASSUME NEW S, IsFiniteSet(S), NEW f
    PROVE  Folds(CHOOSE g : Folds(g, f, S), f, S)
  <1> DEFINE T == {s \in SUBSET S : \E g : Folds(g, f, s)}
  <1>1. ASSUME NEW u \in SUBSET S, \A t \in SUBSET u : t # u => t \in T PROVE u \in T
    <2> DEFINE G == [s \in SUBSET u |-> IF s = {} THEN 0
                                       ELSE f[First(s)] + Sum(f, s \ {First(s)})]
    <2>1. ASSUME NEW t \in SUBSET u, t # u PROVE G[t] = Sum(f, t)
      <3> DEFINE h == CHOOSE g : Folds(g, f, t)
      <3>1. Folds(h, f, t) /\ Sum(f, t) = h[t]
        BY <1>1, <2>1, SumUnfolds
      <3> HIDE DEF h
      <3>2. CASE t = {}
        BY <3>1, <3>2, FoldsRec
      <3>3. CASE t # {}
        <4> DEFINE r == t \ {First(t)}
                   k == CHOOSE g : Folds(g, f, r)
        <4>1. /\ First(t) \in t /\ h[t] = f[First(t)] + h[r] /\ r \in SUBSET t /\ r # u
          BY <3>1, <3>3, FoldsRec
        <4>2. Folds(k, f, r) /\ Sum(f, r) = k[r]
          BY <1>1, <4>1, SumUnfolds
        <4>3. IsFiniteSet(r)
          BY <4>1, FS_Subset
        <4>4. k[r] = h[r]
          <5> HIDE DEF k, r
          <5> QED
            BY <3>1, <4>1, <4>2, <4>3, FoldsUnique
        <4> QED
          BY <3>1, <3>3, <4>1, <4>2, <4>4
      <3> QED
        BY <3>2, <3>3
    <2>2. ASSUME NEW s \in SUBSET u, s # {}
          PROVE  Sum(f, s \ {First(s)}) = G[s \ {First(s)}]
      <3>1. First(s) \in s
        BY <2>2 DEF First
      <3> QED
        BY <2>1, <3>1
    <2>3. \A s \in SUBSET u : G[s] = IF s = {} THEN 0 ELSE f[First(s)] + G[s \ {First(s)}]
      BY <2>2
    <2>4. Folds(G, f, u)
      BY <2>3 DEF Folds
    <2> QED
      BY <2>4
  <1>2. S \in T
    <2> HIDE DEF T
    <2> QED
      BY <1>1, SubsetInduction
  <1> QED
    BY <1>2

\* Nothing sums to zero, and a sum is one of its terms and the sum of the others.
LEMMA SumRec ==
    ASSUME NEW S, IsFiniteSet(S), NEW f
    PROVE  /\ Sum(f, {}) = 0
           /\ S # {} => First(S) \in S /\ Sum(f, S) = f[First(S)] + Sum(f, S \ {First(S)})
  <1>1. Sum(f, {}) = 0
    <2> DEFINE g == CHOOSE g : Folds(g, f, {})
    <2>1. Folds(g, f, {}) /\ Sum(f, {}) = g[{}]
      BY FoldsExists, SumUnfolds, FS_EmptySet
    <2> HIDE DEF g
    <2> QED
      BY <2>1, FoldsRec
  <1>2. ASSUME S # {}
        PROVE  First(S) \in S /\ Sum(f, S) = f[First(S)] + Sum(f, S \ {First(S)})
    <2> DEFINE r == S \ {First(S)}
               g == CHOOSE g : Folds(g, f, S)
               h == CHOOSE h : Folds(h, f, r)
    <2>1. Folds(g, f, S) /\ Sum(f, S) = g[S]
      BY FoldsExists, SumUnfolds
    <2>2. IsFiniteSet(r)
      BY FS_Subset
    <2>3. Folds(h, f, r) /\ Sum(f, r) = h[r]
      <3> HIDE DEF r
      <3> QED
        BY <2>2, FoldsExists, SumUnfolds
    <2> HIDE DEF g, h
    <2>4. First(S) \in S /\ g[S] = f[First(S)] + g[r] /\ r \in SUBSET S
      BY <1>2, <2>1, FoldsRec
    <2>5. h[r] = g[r]
      <3> HIDE DEF r
      <3> QED
        BY <2>1, <2>2, <2>3, <2>4, FoldsUnique
    <2> QED
      BY <2>1, <2>3, <2>4, <2>5
  <1> QED
    BY <1>1, <1>2

\* Functions that agree on S have one sum.
LEMMA SumSame ==
    ASSUME NEW S, IsFiniteSet(S), NEW f, NEW g, \A x \in S : f[x] = g[x]
    PROVE  Sum(f, S) = Sum(g, S)
  <1> DEFINE T == {s \in SUBSET S : Sum(f, s) = Sum(g, s)}
  <1>1. ASSUME NEW s \in SUBSET S, \A t \in SUBSET s : t # s => t \in T PROVE s \in T
    <2>1. IsFiniteSet(s)
      BY FS_Subset
    <2>2. CASE s = {}
      BY <2>1, <2>2, SumRec
    <2>3. CASE s # {}
      <3>1. First(s) \in s /\ Sum(f, s) = f[First(s)] + Sum(f, s \ {First(s)})
        BY <2>1, <2>3, SumRec
      <3>2. Sum(g, s) = g[First(s)] + Sum(g, s \ {First(s)})
        BY <2>1, <2>3, SumRec
      <3>3. s \ {First(s)} \in T
        BY <1>1, <3>1
      <3> QED
        BY <3>1, <3>2, <3>3
    <2> QED
      BY <2>2, <2>3
  <1>2. S \in T
    <2> HIDE DEF T
    <2> QED
      BY <1>1, SubsetInduction
  <1> QED
    BY <1>2

\* A sum of integers is an integer.
LEMMA SumInt ==
    ASSUME NEW S, IsFiniteSet(S), NEW f, \A x \in S : f[x] \in Int
    PROVE  Sum(f, S) \in Int
  <1> DEFINE T == {s \in SUBSET S : Sum(f, s) \in Int}
  <1>1. ASSUME NEW s \in SUBSET S, \A t \in SUBSET s : t # s => t \in T PROVE s \in T
    <2>1. IsFiniteSet(s)
      BY FS_Subset
    <2>2. CASE s = {}
      <3>1. Sum(f, s) = 0
        BY <2>1, <2>2, SumRec
      <3> QED
        BY <3>1
    <2>3. CASE s # {}
      <3>1. First(s) \in s /\ Sum(f, s) = f[First(s)] + Sum(f, s \ {First(s)})
        BY <2>1, <2>3, SumRec
      <3>2. s \ {First(s)} \in T
        BY <1>1, <3>1
      <3> QED
        BY <3>1, <3>2
    <2> QED
      BY <2>2, <2>3
  <1>2. S \in T
    <2> HIDE DEF T
    <2> QED
      BY <1>1, SubsetInduction
  <1> QED
    BY <1>2

\* Any term can be taken out of a sum.
LEMMA SumRemove ==
    ASSUME NEW S, IsFiniteSet(S), NEW f, \A x \in S : f[x] \in Int, NEW a \in S
    PROVE  Sum(f, S) = f[a] + Sum(f, S \ {a})
  <1> DEFINE T == {s \in SUBSET S : \A x \in s : Sum(f, s) = f[x] + Sum(f, s \ {x})}
  <1>1. ASSUME NEW s \in SUBSET S, \A t \in SUBSET s : t # s => t \in T PROVE s \in T
    <2>1. SUFFICES ASSUME NEW x \in s PROVE Sum(f, s) = f[x] + Sum(f, s \ {x})
      OBVIOUS
    <2>2. \A t \in SUBSET s : IsFiniteSet(t)
      BY FS_Subset
    <2> DEFINE y == First(s)
    <2>3. y \in s /\ Sum(f, s) = f[y] + Sum(f, s \ {y})
      BY <2>2, SumRec
    <2> HIDE DEF y
    <2>4. CASE x # y
      <3> DEFINE r == (s \ {y}) \ {x}
      <3>1. s \ {y} \in T /\ s \ {x} \in T
        BY <1>1, <2>3
      <3>2. Sum(f, s \ {y}) = f[x] + Sum(f, r)
        BY <2>4, <3>1
      <3>3. r = (s \ {x}) \ {y}
        OBVIOUS
      <3>4. Sum(f, s \ {x}) = f[y] + Sum(f, r)
        BY <2>3, <2>4, <3>1, <3>3
      <3>5. f[x] \in Int /\ f[y] \in Int /\ Sum(f, r) \in Int
        <4>1. IsFiniteSet(r) /\ r \in SUBSET S
          BY <2>2
        <4>2. \A z \in r : f[z] \in Int
          BY <4>1
        <4> HIDE DEF r
        <4> QED
          BY <2>3, <4>1, <4>2, SumInt
      <3> HIDE DEF r
      <3> QED
        BY <2>3, <3>2, <3>4, <3>5
    <2>5. CASE x = y
      BY <2>3, <2>5
    <2> QED
      BY <2>4, <2>5
  <1>2. S \in T
    <2> HIDE DEF T
    <2> QED
      BY <1>1, SubsetInduction
  <1> QED
    BY <1>2

\* A sum of naturals is at least each of its terms; and zero if they all are.
LEMMA SumBounds ==
    ASSUME NEW S, IsFiniteSet(S), NEW f, \A x \in S : f[x] \in Nat
    PROVE  /\ Sum(f, S) \in Nat
           /\ \A x \in S : f[x] <= Sum(f, S)
           /\ (\A x \in S : f[x] = 0) => Sum(f, S) = 0
  <1> DEFINE T == {s \in SUBSET S : /\ Sum(f, s) \in Nat
                                    /\ (\A x \in s : f[x] = 0) => Sum(f, s) = 0}
  <1>1. ASSUME NEW s \in SUBSET S, \A t \in SUBSET s : t # s => t \in T PROVE s \in T
    <2>1. IsFiniteSet(s)
      BY FS_Subset
    <2>2. CASE s = {}
      <3>1. Sum(f, s) = 0
        BY <2>1, <2>2, SumRec
      <3> QED
        BY <3>1
    <2>3. CASE s # {}
      <3>1. First(s) \in s /\ Sum(f, s) = f[First(s)] + Sum(f, s \ {First(s)})
        BY <2>1, <2>3, SumRec
      <3>2. s \ {First(s)} \in T
        BY <1>1, <3>1
      <3> QED
        BY <3>1, <3>2
    <2> QED
      BY <2>2, <2>3
  <1>2. \A s \in SUBSET S : s \in T
    <2> HIDE DEF T
    <2> QED
      BY <1>1, SubsetInduction
  <1>3. S \in T
    BY <1>2
  <1>4. ASSUME NEW x \in S PROVE f[x] <= Sum(f, S)
    <2>1. S \ {x} \in T
      BY <1>2
    <2>2. Sum(f, S) = f[x] + Sum(f, S \ {x})
      BY SumRemove
    <2> QED
      BY <2>1, <2>2
  <1> QED
    BY <1>3, <1>4

\* g is f but for its value at a.
DiffersAt(f, g, S, a) ==
    /\ \A x \in S : f[x] \in Int
    /\ g[a] \in Int
    /\ \A x \in S : x # a => g[x] = f[x]

\* The sum follows a change of one term.
LEMMA SumUpdate ==
    ASSUME NEW S, IsFiniteSet(S), NEW f, NEW g, NEW a \in S, DiffersAt(f, g, S, a)
    PROVE  /\ Sum(g, S) \in Int /\ Sum(f, S) \in Int
           /\ Sum(g, S) = Sum(f, S) - f[a] + g[a]
  <1>1. \A x \in S : f[x] \in Int /\ g[x] \in Int
    BY DEF DiffersAt
  <1>2. IsFiniteSet(S \ {a})
    BY FS_Subset
  <1>3. Sum(f, S) = f[a] + Sum(f, S \ {a})
    BY <1>1, SumRemove
  <1>4. Sum(g, S) = g[a] + Sum(g, S \ {a})
    BY <1>1, SumRemove
  <1>5. Sum(g, S \ {a}) = Sum(f, S \ {a})
    <2>1. \A x \in S \ {a} : g[x] = f[x]
      BY DEF DiffersAt
    <2> QED
      BY <1>2, <2>1, SumSame
  <1>6. Sum(f, S \ {a}) \in Int
    <2>1. \A x \in S \ {a} : f[x] \in Int
      BY <1>1
    <2> QED
      BY <1>2, <2>1, SumInt
  <1> QED
    BY <1>1, <1>3, <1>4, <1>5, <1>6

\* Fewer terms sum up to no more.
LEMMA SumSubset ==
    ASSUME NEW S, IsFiniteSet(S), NEW f, \A x \in S : f[x] \in Nat, NEW D
    PROVE  Sum(f, S \ D) <= Sum(f, S)
  <1> DEFINE T == {s \in SUBSET S : Sum(f, s \ D) <= Sum(f, s)}
  <1>1. ASSUME NEW s \in SUBSET S, \A t \in SUBSET s : t # s => t \in T PROVE s \in T
    <2>1. IsFiniteSet(s) /\ IsFiniteSet(s \ D)
      BY FS_Subset
    <2>2. CASE s \cap D = {}
      <3>1. s \ D = s /\ Sum(f, s) \in Nat
        BY <2>1, <2>2, SumBounds
      <3> QED
        BY <3>1
    <2>3. CASE s \cap D # {}
      <3>1. PICK a \in s : a \in D
        BY <2>3
      <3>2. s \ {a} \in T /\ (s \ {a}) \ D = s \ D /\ IsFiniteSet(s \ {a})
        BY <1>1, <2>1, <3>1, FS_Subset
      <3>3. Sum(f, s) = f[a] + Sum(f, s \ {a})
        BY <2>1, <3>1, SumRemove
      <3>4. Sum(f, s \ {a}) \in Nat /\ Sum(f, s \ D) \in Nat /\ f[a] \in Nat
        BY <2>1, <3>1, <3>2, SumBounds
      <3> QED
        BY <3>2, <3>3, <3>4
    <2> QED
      BY <2>2, <2>3
  <1> QED
    <2> HIDE DEF T
    <2>1. S \in T
      BY <1>1, SubsetInduction
    <2> QED
      BY <2>1 DEF T

-----------------------------------------------------------------------------
(* Folds over sequences                                                    *)

\* A set that has 0, and k whenever it has k - 1, has every number up to n.
LEMMA UpTo ==
    ASSUME NEW n \in Nat, NEW T, 0 \in T, \A k \in 1..n : k - 1 \in T => k \in T
    PROVE  \A k \in 0..n : k \in T
  <1> DEFINE Bad == {k \in 0..n : k \notin T}
  <1> SUFFICES ASSUME Bad # {} PROVE FALSE
    OBVIOUS
  <1>1. PICK k \in Bad : \A y \in Bad : k <= y
    <2>1. Bad \subseteq Nat
      OBVIOUS
    <2> HIDE DEF Bad
    <2> QED
      BY <2>1, LeastNatural
  <1>2. k \in 1..n /\ k - 1 \in 0..n /\ k - 1 \notin Bad
    BY <1>1
  <1> QED
    BY <1>1, <1>2

LEMMA MaxOf ==
    ASSUME NEW n \in Nat, NEW s \in SUBSET (1..n), s # {}
    PROVE  Max(s) \in s /\ \A y \in s : y <= Max(s)
  <1> DEFINE Below == {n - x : x \in s}
  <1>1. PICK b \in Below : \A y \in Below : b <= y
    <2>1. \A x \in s : n - x \in Nat /\ n - x \in Below
      OBVIOUS
    <2>2. Below \subseteq Nat /\ Below # {}
      BY <2>1
    <2> HIDE DEF Below
    <2> QED
      BY <2>2, LeastNatural
  <1>2. PICK x \in s : b = n - x
    BY <1>1
  <1>3. \A y \in s : n - y \in Below
    OBVIOUS
  <1>4. \A y \in s : x >= y
    <2>1. \A y \in s : n - x <= n - y
      BY <1>1, <1>2, <1>3
    <2> QED
      BY <2>1
  <1> QED
    BY <1>2, <1>4 DEF Max

\* h, from an accumulator and an element to an accumulator, is iterated over a
\* sequence by a function on the sets of its positions, last position first.
Iterates(g, h, base, seq) ==
    g = [s \in SUBSET (1..Len(seq)) |->
           IF s = {} THEN base ELSE h[<<g[s \ {Max(s)}], seq[Max(s)]>>]]
\* It does as long as its values are accumulators.
Obeys(g, h, A, base, seq) ==
    /\ g[{}] = base
    /\ \A s \in SUBSET (1..Len(seq)) : s # {} /\ g[s \ {Max(s)}] \in A =>
        g[s] = h[<<g[s \ {Max(s)}], seq[Max(s)]>>]
\* The values of the fold on the prefixes of the sequence.
PrefixFold(f, h, A, base, seq) ==
    /\ f \in [0..Len(seq) -> A] /\ f[0] = base
    /\ \A n \in 1..Len(seq) : f[n] = h[<<f[n - 1], seq[n]>>]

\* The last of them is the fold.
Ends(f, g, seq) == f[Len(seq)] = g[1..Len(seq)]

LEMMA IterationExists ==
    ASSUME NEW A, NEW X, NEW seq \in Seq(X), NEW base \in A, NEW h \in [A \X X -> A]
    PROVE  \E g \in [SUBSET (1..Len(seq)) -> A] : Iterates(g, h, base, seq)
  <1> DEFINE It(g, n) ==
                 \A s \in SUBSET (1..n) :
                     g[s] = IF s = {} THEN base ELSE h[<<g[s \ {Max(s)}], seq[Max(s)]>>]
             T == {n \in 0..Len(seq) : \E g \in [SUBSET (1..n) -> A] : It(g, n)}
  <1>0. Len(seq) \in Nat /\ \A i \in 1..Len(seq) : seq[i] \in X
    OBVIOUS
  <1>1. 0 \in T
    <2> DEFINE g == [s \in SUBSET (1..0) |-> base]
    <2>1. \A s \in SUBSET (1..0) : s = {}
      OBVIOUS
    <2>2. g \in [SUBSET (1..0) -> A] /\ It(g, 0)
      BY <2>1
    <2> HIDE DEF g, It
    <2>3. 0 \in 0..Len(seq)
      BY <1>0
    <2> QED
      BY <2>2, <2>3
  <1>2. ASSUME NEW n \in 1..Len(seq), n - 1 \in T PROVE n \in T
    <2>1. PICK f \in [SUBSET (1..(n - 1)) -> A] : It(f, n - 1)
      BY <1>2
    <2> DEFINE g == [s \in SUBSET (1..n) |->
                       IF n \in s THEN h[<<f[s \ {n}], seq[n]>>] ELSE f[s]]
    <2>2. \A s \in SUBSET (1..n) : /\ s \ {n} \in SUBSET (1..(n - 1))
                                   /\ n \notin s => s \in SUBSET (1..(n - 1))
      BY <1>0
    <2>3. g \in [SUBSET (1..n) -> A]
      BY <1>0, <2>2
    <2>4. ASSUME NEW s \in SUBSET (1..n)
          PROVE  g[s] = IF s = {} THEN base ELSE h[<<g[s \ {Max(s)}], seq[Max(s)]>>]
      <3>1. CASE n \in s
        <4>1. Max(s) = n
          <5>1. n \in Nat /\ s # {}
            BY <1>0, <3>1
          <5>2. Max(s) \in s /\ \A y \in s : y <= Max(s)
            BY <5>1, MaxOf
          <5>3. n <= Max(s) /\ Max(s) \in 1..n
            BY <3>1, <5>2
          <5> QED
            BY <5>1, <5>3
        <4>2. s \ {n} \in SUBSET (1..n) /\ g[s \ {n}] = f[s \ {n}]
          BY <2>2
        <4> QED
          BY <3>1, <4>1, <4>2
      <3>2. CASE n \notin s
        <4>1. s \in SUBSET (1..(n - 1)) /\ g[s] = f[s]
          BY <2>2, <3>2
        <4>2. CASE s = {}
          BY <2>1, <4>1, <4>2
        <4>3. CASE s # {}
          <5>1. s \ {Max(s)} \in SUBSET (1..n) /\ n \notin s \ {Max(s)}
            BY <3>2
          <5>2. g[s \ {Max(s)}] = f[s \ {Max(s)}]
            BY <5>1
          <5>3. f[s] = h[<<f[s \ {Max(s)}], seq[Max(s)]>>]
            BY <2>1, <4>1, <4>3
          <5> QED
            BY <4>1, <4>3, <5>2, <5>3
        <4> QED
          BY <4>2, <4>3
      <3> QED
        BY <3>1, <3>2
    <2>5. It(g, n)
      BY <2>4
    <2> HIDE DEF g, It
    <2>6. n \in 0..Len(seq)
      BY <1>0
    <2> QED
      BY <2>3, <2>5, <2>6
  <1>3. Len(seq) \in T
    <2> HIDE DEF T
    <2>1. \A k \in 0..Len(seq) : k \in T
      BY <1>0, <1>1, <1>2, UpTo
    <2> QED
      BY <1>0, <2>1
  <1>4. PICK g \in [SUBSET (1..Len(seq)) -> A] : It(g, Len(seq))
    BY <1>3
  <1>5. Iterates(g, h, base, seq)
    BY <1>4 DEF Iterates
  <1> QED
    BY <1>5

\* A function that obeys h as long as its values are accumulators is, on the
\* prefixes of the sequence, the fold of h.
LEMMA PrefixValues ==
    ASSUME NEW A, NEW X, NEW seq \in Seq(X), NEW base \in A, NEW h \in [A \X X -> A],
           NEW g, Obeys(g, h, A, base, seq)
    PROVE  \E f : PrefixFold(f, h, A, base, seq) /\ Ends(f, g, seq)
  <1>0. Len(seq) \in Nat /\ \A i \in 1..Len(seq) : seq[i] \in X
    OBVIOUS
  <1> DEFINE T == {n \in 0..Len(seq) : g[1..n] \in A}
  <1>1. ASSUME NEW n \in 1..Len(seq)
        PROVE  /\ n - 1 \in 0..Len(seq)
               /\ g[1..(n - 1)] \in A => g[1..n] = h[<<g[1..(n - 1)], seq[n]>>]
    <2>0. n \in Nat \ {0} /\ n <= Len(seq)
      BY <1>0
    <2>1. 1..n \in SUBSET (1..Len(seq)) /\ n \in 1..n /\ 1..n \in SUBSET (1..n)
      BY <1>0, <2>0
    <2>2. Max(1..n) = n
      <3>1. 1..n # {} /\ n \in Nat
        BY <2>0, <2>1
      <3>2. Max(1..n) \in 1..n /\ n <= Max(1..n)
        BY <2>1, <3>1, MaxOf
      <3> QED
        BY <2>0, <3>2
    <2>3. (1..n) \ {n} = 1..(n - 1)
      BY <2>0
    <2>4. 1..n # {}
      BY <2>1
    <2>5. n - 1 \in 0..Len(seq)
      BY <1>0, <2>0
    <2> QED
      BY <2>1, <2>2, <2>3, <2>4, <2>5 DEF Obeys
  <1>2. 0 \in T
    <2>1. 1..0 = {}
      OBVIOUS
    <2> QED
      BY <1>0, <2>1 DEF Obeys
  <1>3. ASSUME NEW n \in 1..Len(seq), n - 1 \in T PROVE n \in T
    <2>1. g[1..(n - 1)] \in A /\ seq[n] \in X /\ n \in 0..Len(seq)
      BY <1>0, <1>3
    <2>2. g[1..n] = h[<<g[1..(n - 1)], seq[n]>>]
      BY <1>1, <2>1
    <2> QED
      BY <2>1, <2>2
  <1>4. \A n \in 0..Len(seq) : n \in T
    <2> HIDE DEF T
    <2> QED
      BY <1>0, <1>2, <1>3, UpTo
  <1> DEFINE f == [n \in 0..Len(seq) |-> g[1..n]]
  <1>5. f \in [0..Len(seq) -> A] /\ f[Len(seq)] = g[1..Len(seq)]
    BY <1>0, <1>4
  <1>6. f[0] = base
    <2>1. 1..0 = {}
      OBVIOUS
    <2> QED
      BY <1>0, <2>1 DEF Obeys
  <1>7. \A n \in 1..Len(seq) : f[n] = h[<<f[n - 1], seq[n]>>]
    BY <1>0, <1>1, <1>4
  <1> HIDE DEF f
  <1> QED
    BY <1>5, <1>6, <1>7 DEF PrefixFold, Ends

-----------------------------------------------------------------------------
(* The filter                                                              *)

KeepStep(kept, x, S) == IF x \in S THEN Append(kept, x) ELSE kept

LEMMA KeepUnfolds ==
    ASSUME NEW seq, NEW S
    PROVE  Keep(seq, S) =
             (CHOOSE g : g = [s \in SUBSET DOMAIN seq |->
                IF s = {} THEN <<>> ELSE KeepStep(g[s \ {Max(s)}], seq[Max(s)], S)])[DOMAIN seq]
  BY DEF Keep, FoldLeft, MapThenFoldSet, KeepStep

\* The filter of every prefix, step by step.
KeepRun(f, X, seq, S) ==
    /\ f \in [0..Len(seq) -> Seq(X)]
    /\ f[0] = <<>> /\ f[Len(seq)] = Keep(seq, S)
    /\ \A n \in 1..Len(seq) : f[n] = KeepStep(f[n - 1], seq[n], S)

LEMMA KeepFolds ==
    ASSUME NEW X, NEW seq \in Seq(X), NEW S
    PROVE  \E f : KeepRun(f, X, seq, S)
  <1> DEFINE A == Seq(X)
             h == [p \in A \X X |-> KeepStep(p[1], p[2], S)]
             Eq(g) == g = [s \in SUBSET DOMAIN seq |->
                IF s = {} THEN <<>> ELSE KeepStep(g[s \ {Max(s)}], seq[Max(s)], S)]
             G == CHOOSE g : Eq(g)
  <1>1. h \in [A \X X -> A] /\ <<>> \in A
    BY DEF KeepStep
  <1>2. \A a \in A, x \in X : h[<<a, x>>] = KeepStep(a, x, S)
    OBVIOUS
  <1>3. DOMAIN seq = 1..Len(seq) /\ Len(seq) \in Nat /\ \A i \in 1..Len(seq) : seq[i] \in X
    OBVIOUS
  <1> HIDE DEF h, A
  <1>4. \A s \in SUBSET (1..Len(seq)) : s # {} =>
          s \ {Max(s)} \in SUBSET (1..Len(seq)) /\ seq[Max(s)] \in X
    BY <1>3, MaxOf
  <1>5. \E g : Eq(g)
    <2>1. PICK g \in [SUBSET (1..Len(seq)) -> A] : Iterates(g, h, <<>>, seq)
      BY <1>1, IterationExists
    <2>2. \A s \in SUBSET (1..Len(seq)) : s # {} =>
            h[<<g[s \ {Max(s)}], seq[Max(s)]>>] = KeepStep(g[s \ {Max(s)}], seq[Max(s)], S)
      BY <1>2, <1>4
    <2>3. Eq(g)
      BY <1>3, <2>1, <2>2 DEF Iterates
    <2> QED
      BY <2>3
  <1>6. Eq(G)
    BY <1>5
  <1>7. Keep(seq, S) = G[1..Len(seq)]
    BY <1>3, KeepUnfolds
  <1> HIDE DEF G
  <1>8. Obeys(G, h, A, <<>>, seq)
    BY <1>2, <1>3, <1>4, <1>6 DEF Obeys
  <1> DEFINE base == <<>>
  <1>9. PICK f : PrefixFold(f, h, A, base, seq) /\ Ends(f, G, seq)
    <2>1. base \in A /\ Obeys(G, h, A, base, seq)
      BY <1>1, <1>8
    <2> HIDE DEF base
    <2> QED
      BY <1>1, <2>1, PrefixValues
  <1>10. \A n \in 1..Len(seq) : f[n] = KeepStep(f[n - 1], seq[n], S)
    <2>1. \A n \in 1..Len(seq) : n - 1 \in 0..Len(seq)
      BY <1>3
    <2> QED
      BY <1>2, <1>3, <1>9, <2>1 DEF PrefixFold
  <1> QED
    BY <1>7, <1>9, <1>10 DEF A, PrefixFold, Ends, KeepRun

\* Where the elements of out come from: m gives each of the places of out a
\* place among the first n of seq, in order, and leaves out none that S keeps.
Picks(m, out, seq, n, S) ==
    /\ m \in [1..Len(out) -> 1..n]
    /\ \A i, j \in 1..Len(out) : i < j => m[i] < m[j]
    /\ \A i \in 1..Len(out) : out[i] = seq[m[i]] /\ seq[m[i]] \in S
    /\ \A j \in 1..n : seq[j] \in S => \E i \in 1..Len(out) : m[i] = j

LEMMA KeepPicks ==
    ASSUME NEW X, NEW seq \in Seq(X), NEW S
    PROVE  /\ Keep(seq, S) \in Seq(X)
           /\ \E m : Picks(m, Keep(seq, S), seq, Len(seq), S)
  <1>0. PICK f : KeepRun(f, X, seq, S)
    BY KeepFolds
  <1>1. /\ f \in [0..Len(seq) -> Seq(X)]
        /\ f[0] = <<>> /\ f[Len(seq)] = Keep(seq, S)
        /\ \A n \in 1..Len(seq) : f[n] = KeepStep(f[n - 1], seq[n], S)
    BY <1>0 DEF KeepRun
  <1>2. Len(seq) \in Nat /\ \A i \in 1..Len(seq) : seq[i] \in X
    OBVIOUS
  <1> DEFINE T == {n \in 0..Len(seq) : \E m : Picks(m, f[n], seq, n, S)}
  <1>3. 0 \in T
    <2>1. Picks(<<>>, <<>>, seq, 0, S)
      BY DEF Picks
    <2> QED
      BY <1>1, <1>2, <2>1
  <1>4. ASSUME NEW n \in 1..Len(seq), n - 1 \in T PROVE n \in T
    <2>1. PICK m : Picks(m, f[n - 1], seq, n - 1, S)
      BY <1>4
    <2>2. n \in Nat /\ n - 1 \in 0..Len(seq) /\ n \in 0..Len(seq)
      BY <1>2
    <2>3. f[n - 1] \in Seq(X) /\ Len(f[n - 1]) \in Nat
      BY <1>1, <2>2
    <2>4. CASE seq[n] \in S
      <3> DEFINE k == Len(f[n - 1])
                 p == [i \in 1..(k + 1) |-> IF i = k + 1 THEN n ELSE m[i]]
      <3>1. f[n] = Append(f[n - 1], seq[n])
        BY <1>1, <2>4 DEF KeepStep
      <3>2. Len(f[n]) = k + 1 /\ f[n][k + 1] = seq[n] /\ \A i \in 1..k : f[n][i] = f[n - 1][i]
        BY <1>2, <2>3, <3>1
      <3>3. k \in Nat /\ m \in [1..k -> 1..(n - 1)]
        BY <2>1, <2>3 DEF Picks
      <3>4. p \in [1..(k + 1) -> 1..n]
        BY <2>2, <3>3
      <3>5. \A i, j \in 1..(k + 1) : i < j => p[i] < p[j]
        <4>1. \A i \in 1..k : m[i] \in 1..(n - 1) /\ p[i] = m[i] /\ m[i] < n
          BY <2>2, <3>3
        <4>2. p[k + 1] = n /\ \A i \in 1..(k + 1) : i = k + 1 \/ i \in 1..k
          BY <3>3
        <4>3. \A i, j \in 1..k : i < j => m[i] < m[j]
          BY <2>1 DEF Picks
        <4> HIDE DEF p
        <4> QED
          BY <3>3, <4>1, <4>2, <4>3
      <3>6. \A i \in 1..(k + 1) : f[n][i] = seq[p[i]] /\ seq[p[i]] \in S
        BY <2>1, <2>4, <3>2, <3>3 DEF Picks
      <3>7. \A j \in 1..n : seq[j] \in S => \E i \in 1..(k + 1) : p[i] = j
        <4> SUFFICES ASSUME NEW j \in 1..n, seq[j] \in S PROVE \E i \in 1..(k + 1) : p[i] = j
          OBVIOUS
        <4>1. CASE j = n
          <5>1. k + 1 \in 1..(k + 1) /\ p[k + 1] = j
            BY <3>3, <4>1
          <5> QED
            BY <5>1
        <4>2. CASE j # n
          <5>1. j \in 1..(n - 1)
            BY <2>2, <4>2
          <5>2. PICK i \in 1..k : m[i] = j
            BY <2>1, <5>1 DEF Picks
          <5>3. i \in 1..(k + 1) /\ p[i] = j
            BY <3>3, <5>2
          <5> QED
            BY <5>3
        <4> QED
          BY <4>1, <4>2
      <3> HIDE DEF p
      <3>8. Picks(p, f[n], seq, n, S)
        BY <3>2, <3>4, <3>5, <3>6, <3>7 DEF Picks
      <3> QED
        BY <2>2, <3>8
    <2>5. CASE seq[n] \notin S
      <3>1. f[n] = f[n - 1]
        BY <1>1, <2>5 DEF KeepStep
      <3>2. 1..(n - 1) \subseteq 1..n /\ \A j \in 1..n : j = n \/ j \in 1..(n - 1)
        BY <2>2
      <3>3. Picks(m, f[n], seq, n, S)
        BY <2>1, <2>5, <3>1, <3>2 DEF Picks
      <3> QED
        BY <2>2, <3>3
    <2> QED
      BY <2>4, <2>5
  <1>5. Len(seq) \in T
    <2> HIDE DEF T
    <2>1. \A k \in 0..Len(seq) : k \in T
      BY <1>2, <1>3, <1>4, UpTo
    <2> QED
      BY <1>2, <2>1
  <1>6. Keep(seq, S) \in Seq(X)
    BY <1>1, <1>2
  <1> QED
    BY <1>1, <1>5, <1>6

\* A filter keeps, of the elements, those of its set.
LEMMA KeepSet ==
    ASSUME NEW X, NEW seq \in Seq(X), NEW S
    PROVE  /\ Keep(seq, S) \in Seq(X \cap S)
           /\ ToSet(Keep(seq, S)) = ToSet(seq) \cap S
           /\ Len(Keep(seq, S)) <= Len(seq)
  <1> DEFINE K == Keep(seq, S)
  <1>1. PICK m : Picks(m, K, seq, Len(seq), S)
    BY KeepPicks
  <1>2. K \in Seq(X) /\ Len(K) \in Nat /\ Len(seq) \in Nat
    BY KeepPicks
  <1>3. DOMAIN K = 1..Len(K) /\ DOMAIN seq = 1..Len(seq)
    BY <1>2
  <1> HIDE DEF K
  <1>4. ToSet(K) = ToSet(seq) \cap S
    BY <1>1, <1>3 DEF Picks, ToSet
  <1>5. K \in Seq(X \cap S)
    <2>1. \A i \in 1..Len(K) : K[i] \in X \cap S
      BY <1>1, <1>2 DEF Picks
    <2> QED
      BY <1>2, <2>1
  <1>6. Len(K) <= Len(seq)
    <2> SUFFICES ASSUME Len(K) > Len(seq) PROVE FALSE
      BY <1>2
    <2> DEFINE T == {i \in 0..Len(K) : i = 0 \/ m[i] >= i}
    <2>1. 0 \in T
      BY <1>2
    <2>2. ASSUME NEW i \in 1..Len(K), i - 1 \in T PROVE i \in T
      <3>1. CASE i = 1
        BY <1>1, <1>2, <3>1 DEF Picks
      <3>2. CASE i # 1
        <4>1. i - 1 \in 1..Len(K) /\ i - 1 < i
          BY <1>2, <3>2
        <4>2. m[i - 1] < m[i] /\ m[i - 1] >= i - 1 /\ m[i] \in Int /\ m[i - 1] \in Int
          BY <1>1, <2>2, <3>2, <4>1 DEF Picks
        <4> QED
          BY <1>2, <4>2
      <3> QED
        BY <3>1, <3>2
    <2>3. Len(K) \in T
      <3> HIDE DEF T
      <3>1. \A i \in 0..Len(K) : i \in T
        BY <1>2, <2>1, <2>2, UpTo
      <3> QED
        BY <1>2, <3>1
    <2>4. Len(K) \in 1..Len(K) /\ m[Len(K)] \in 1..Len(seq)
      BY <1>1, <1>2 DEF Picks
    <2> QED
      BY <1>2, <2>3, <2>4
  <1> QED
    BY <1>4, <1>5, <1>6 DEF K

\* It repeats no element more often than the sequence does.
LEMMA KeepCount ==
    ASSUME NEW X, NEW seq \in Seq(X), NEW S, NEW x
    PROVE  /\ IsFiniteSet(Places(Keep(seq, S), x)) /\ IsFiniteSet(Places(seq, x))
           /\ Cardinality(Places(Keep(seq, S), x)) <= Cardinality(Places(seq, x))
  <1> DEFINE K == Keep(seq, S)
             P == {i \in DOMAIN K : K[i] = x}
             Q == {i \in DOMAIN seq : seq[i] = x}
  <1>1. PICK m : Picks(m, K, seq, Len(seq), S)
    BY KeepPicks
  <1>2. K \in Seq(X) /\ Len(K) \in Nat /\ Len(seq) \in Nat
    BY KeepPicks
  <1>3. DOMAIN K = 1..Len(K) /\ DOMAIN seq = 1..Len(seq)
    BY <1>2
  <1> HIDE DEF K
  <1>4. IsFiniteSet(Q)
    <2>1. IsFiniteSet(1..Len(seq)) /\ Q \subseteq 1..Len(seq)
      BY <1>2, <1>3, FS_Interval
    <2> HIDE DEF Q
    <2> QED
      BY <2>1, FS_Subset
  <1> DEFINE r == [i \in P |-> m[i]]
  <1>5. r \in [P -> Q]
    BY <1>1, <1>3 DEF Picks
  <1>6. \A i, j \in P : r[i] = r[j] => i = j
    <2>1. \A i, j \in 1..Len(K) : m[i] = m[j] => i = j
      <3>1. \A i, j \in 1..Len(K) : i < j => m[i] < m[j]
        BY <1>1 DEF Picks
      <3>2. \A i \in 1..Len(K) : m[i] \in Int
        <4>1. m \in [1..Len(K) -> 1..Len(seq)]
          BY <1>1 DEF Picks
        <4> QED
          BY <1>2, <4>1
      <3> QED
        BY <1>2, <3>1, <3>2
    <2> QED
      BY <1>3, <2>1
  <1>7. r \in Injection(P, Q)
    BY <1>5, <1>6 DEF Injection, IsInjective
  <1> HIDE DEF P, Q, r
  <1>8. IsFiniteSet(P) /\ Cardinality(P) <= Cardinality(Q)
    BY <1>4, <1>7, FS_Injection
  <1> QED
    BY <1>4, <1>8 DEF P, Q, K, Places

LEMMA AppendSet ==
    ASSUME NEW X, NEW seq \in Seq(X), NEW x
    PROVE  ToSet(Append(seq, x)) = ToSet(seq) \cup {x}
  <1>1. /\ Len(seq) \in Nat /\ DOMAIN seq = 1..Len(seq)
        /\ DOMAIN Append(seq, x) = 1..(Len(seq) + 1)
    OBVIOUS
  <1>2. Append(seq, x)[Len(seq) + 1] = x /\ \A i \in 1..Len(seq) : Append(seq, x)[i] = seq[i]
    OBVIOUS
  <1>3. /\ Len(seq) + 1 \in 1..(Len(seq) + 1) /\ 1..Len(seq) \subseteq 1..(Len(seq) + 1)
        /\ \A i \in 1..(Len(seq) + 1) : i = Len(seq) + 1 \/ i \in 1..Len(seq)
    BY <1>1
  <1> QED
    BY <1>1, <1>2, <1>3 DEF ToSet

-----------------------------------------------------------------------------
(* Sequences that list a set                                               *)

\* Every element of H is in s, once.
Enumerates(s, H) == s \in Seq(H) /\ IsInjective(s) /\ ToSet(s) = H

LEMMA EnumerationLength ==
    ASSUME NEW H, NEW s, Enumerates(s, H)
    PROVE  IsFiniteSet(H) /\ Cardinality(H) = Len(s)
  <1>1. Len(s) \in Nat /\ DOMAIN s = 1..Len(s) /\ s \in [1..Len(s) -> H]
    BY DEF Enumerates
  <1>2. s \in Injection(1..Len(s), H)
    BY <1>1 DEF Enumerates, Injection
  <1>3. s \in Surjection(1..Len(s), H)
    BY <1>1 DEF Enumerates, Surjection, ToSet
  <1>4. s \in Bijection(1..Len(s), H)
    BY <1>2, <1>3 DEF Bijection
  <1>5. ExistsBijection(1..Len(s), H)
    BY <1>4 DEF ExistsBijection
  <1> QED
    BY <1>1, <1>5, FS_NatBijection, FS_CountingElements

LEMMA SetToSeqEnumerates ==
    ASSUME NEW H, IsFiniteSet(H)
    PROVE  Enumerates(SetToSeq(H), H)
  <1> DEFINE n == Cardinality(H)
  <1>1. n \in Nat
    BY FS_CardinalityType
  <1>2. \E f \in [1..n -> H] : IsInjective(f)
    <2>1. PICK k \in Nat : ExistsBijection(1..k, H)
      BY FS_NatBijection
    <2>2. k = n
      BY <2>1, FS_CountingElements
    <2>3. PICK f : f \in Bijection(1..k, H)
      BY <2>1 DEF ExistsBijection
    <2>4. f \in [1..n -> H] /\ IsInjective(f)
      BY <2>2, <2>3 DEF Bijection, Injection
    <2> QED
      BY <2>4
  <1> DEFINE s == SetToSeq(H)
  <1>3. s \in [1..n -> H] /\ IsInjective(s)
    BY <1>2 DEF SetToSeq
  <1> HIDE DEF s, n
  <1>4. s \in Seq(H) /\ DOMAIN s = 1..n
    BY <1>1, <1>3
  <1>5. IsFiniteSet(1..n) /\ Cardinality(1..n) = n
    BY <1>1, FS_Interval
  <1>6. s \in Injection(1..n, H)
    BY <1>3 DEF Injection
  <1>7. s \in Surjection(1..n, H)
    BY <1>5, <1>6, FS_Injection DEF n
  <1>8. ToSet(s) = H
    BY <1>3, <1>4, <1>7 DEF ToSet, Surjection
  <1> QED
    BY <1>3, <1>4, <1>8 DEF Enumerates, s

\* Appending an element that is not listed.
LEMMA EnumerationAppend ==
    ASSUME NEW H, NEW s, Enumerates(s, H), NEW x, x \notin H
    PROVE  Enumerates(Append(s, x), H \cup {x})
  <1>1. /\ s \in Seq(H) /\ Len(s) \in Nat /\ DOMAIN s = 1..Len(s)
        /\ DOMAIN Append(s, x) = 1..(Len(s) + 1)
    BY DEF Enumerates
  <1>2. Append(s, x)[Len(s) + 1] = x /\ \A i \in 1..Len(s) : Append(s, x)[i] = s[i] /\ s[i] \in H
    BY <1>1
  <1>3. \A i \in 1..(Len(s) + 1) : i = Len(s) + 1 \/ i \in 1..Len(s)
    BY <1>1
  <1>4. Append(s, x) \in Seq(H \cup {x})
    <2>1. s \in Seq(H \cup {x})
      BY <1>1
    <2> QED
      BY <2>1
  <1>5. IsInjective(Append(s, x))
    <2>1. \A i, j \in 1..Len(s) : s[i] = s[j] => i = j
      BY <1>1 DEF Enumerates, IsInjective
    <2>2. \A i \in 1..Len(s) : s[i] # x
      BY <1>2
    <2> QED
      BY <1>1, <1>2, <1>3, <2>1, <2>2 DEF IsInjective
  <1>6. ToSet(Append(s, x)) = H \cup {x}
    BY <1>1, AppendSet DEF Enumerates
  <1> QED
    BY <1>4, <1>5, <1>6 DEF Enumerates

\* Removing the place of an element.
LEMMA EnumerationRemove ==
    ASSUME NEW H, NEW s, Enumerates(s, H), NEW p \in 1..Len(s)
    PROVE  Enumerates(RemoveAt(s, p), H \ {s[p]})
  <1> DEFINE r == RemoveAt(s, p)
             n == Len(s)
             from(i) == IF i < p THEN i ELSE i + 1
  <1>1. s \in Seq(H) /\ n \in Nat /\ DOMAIN s = 1..n /\ p \in Nat /\ p >= 1 /\ p <= n
    BY DEF Enumerates
  <1> DEFINE u == SubSeq(s, 1, p - 1)
             v == SubSeq(s, p + 1, n)
  <1>2. u \in Seq(H) /\ Len(u) = p - 1 /\ \A i \in 1..(p - 1) : u[i] = s[i]
    BY <1>1
  <1>3. v \in Seq(H) /\ Len(v) = n - p /\ \A i \in 1..(n - p) : v[i] = s[p + i]
    <2>1. p + 1 \in Int /\ n \in Int /\ \A i \in (p + 1)..n : s[i] \in H
      BY <1>1
    <2> HIDE DEF n
    <2>2. /\ v \in Seq(H)
          /\ Len(v) = IF p + 1 <= n THEN n - (p + 1) + 1 ELSE 0
          /\ \A i \in 1..(n - (p + 1) + 1) : v[i] = s[p + 1 + i - 1]
      BY <2>1, SubSeqProperties
    <2> HIDE DEF v
    <2>3. n \in Int /\ p \in Int /\ n - (p + 1) + 1 = n - p /\ p <= n
      BY <1>1
    <2>4. Len(v) = n - p
      BY <2>2, <2>3
    <2>5. \A i \in 1..(n - p) : p + 1 + i - 1 = p + i
      BY <2>3
    <2> QED
      BY <2>2, <2>3, <2>4, <2>5
  <1>r. r = u \o v
    BY DEF RemoveAt
  <1> HIDE DEF r, u, v
  <1>4. r \in Seq(H) /\ Len(r) = n - 1 /\ DOMAIN r = 1..(n - 1)
    <2>1. Len(r) = Len(u) + Len(v) /\ r \in Seq(H)
      BY <1>2, <1>3, <1>r, ConcatProperties
    <2>2. Len(r) = n - 1
      BY <1>1, <1>2, <1>3, <2>1
    <2> QED
      BY <2>1, <2>2
  <1>5. \A i \in 1..(n - 1) : r[i] = s[from(i)] /\ from(i) \in 1..n /\ from(i) # p
    <2> SUFFICES ASSUME NEW i \in 1..(n - 1) PROVE r[i] = s[from(i)] /\ from(i) \in 1..n /\ from(i) # p
      OBVIOUS
    <2>1. CASE i < p
      <3>1. i \in 1..(p - 1)
        BY <1>1, <2>1
      <3>2. r[i] = u[i]
        BY <1>1, <1>2, <1>3, <1>r, <3>1
      <3> QED
        BY <1>1, <1>2, <2>1, <3>1, <3>2
    <2>2. CASE i >= p
      <3>1. i - (p - 1) \in 1..(n - p) /\ i > p - 1 /\ p + (i - (p - 1)) = i + 1
        BY <1>1, <2>2
      <3>2. r[i] = v[i - (p - 1)]
        BY <1>1, <1>2, <1>3, <1>r, <3>1
      <3>3. r[i] = s[i + 1]
        BY <1>3, <3>1, <3>2
      <3> QED
        BY <1>1, <2>2, <3>3
    <2> QED
      BY <1>1, <2>1, <2>2
  <1>6. \A i, j \in 1..n : s[i] = s[j] => i = j
    BY <1>1 DEF Enumerates, IsInjective
  <1> HIDE DEF r
  <1>7. IsInjective(r)
    <2>1. \A i, j \in 1..(n - 1) : from(i) = from(j) => i = j
      BY <1>1
    <2> HIDE DEF from
    <2> QED
      BY <1>4, <1>5, <1>6, <2>1 DEF IsInjective
  <1>8. \A j \in 1..n : j # p => \E i \in 1..(n - 1) : from(i) = j
    <2> SUFFICES ASSUME NEW j \in 1..n, j # p PROVE \E i \in 1..(n - 1) : from(i) = j
      OBVIOUS
    <2>1. CASE j < p
      BY <1>1, <2>1
    <2>2. CASE j > p
      <3>1. j - 1 \in 1..(n - 1) /\ from(j - 1) = j
        BY <1>1, <2>2
      <3> QED
        BY <3>1
    <2> QED
      BY <1>1, <2>1, <2>2
  <1> HIDE DEF from
  <1>9. ToSet(r) = H \ {s[p]}
    <2>1. H = {s[j] : j \in 1..n}
      BY <1>1 DEF Enumerates, ToSet
    <2>2. ToSet(r) = {r[i] : i \in 1..(n - 1)}
      BY <1>4 DEF ToSet
    <2>3. ASSUME NEW x \in H, x # s[p] PROVE x \in ToSet(r)
      <3>1. PICK j \in 1..n : x = s[j]
        BY <2>1
      <3>2. PICK i \in 1..(n - 1) : from(i) = j
        BY <1>8, <2>3, <3>1
      <3> QED
        BY <1>5, <2>2, <3>1, <3>2
    <2>4. ASSUME NEW i \in 1..(n - 1) PROVE r[i] \in H /\ r[i] # s[p]
      BY <1>1, <1>5, <1>6, <2>1
    <2> QED
      BY <2>2, <2>3, <2>4
  <1>10. r \in Seq(H \ {s[p]})
    <2>1. \A i \in 1..(n - 1) : r[i] \in H \ {s[p]}
      BY <1>4, <1>9 DEF ToSet
    <2> QED
      BY <1>4, <2>1
  <1> QED
    BY <1>7, <1>9, <1>10 DEF Enumerates, r

-----------------------------------------------------------------------------
(* Recursion on a smaller measure                                          *)

\* u is defined along next, down to the arguments in stop.
Descends(u, D, stop, base, h, next) ==
    \A p \in D : u[p] = IF p \in stop THEN base[p] ELSE h[<<p, u[next[p]]>>]

\* A function defined by recursion on arguments of a smaller measure exists.
LEMMA DescentExists ==
    ASSUME NEW D, NEW R, NEW N \in Nat, NEW m \in [D -> 0..N], NEW stop \in SUBSET D,
           NEW base \in [D -> R], NEW h \in [D \X R -> R], NEW next \in [D -> D],
           \A p \in D \ stop : m[next[p]] < m[p]
    PROVE  \E u \in [D -> R] : Descends(u, D, stop, base, h, next)
  <1> DEFINE Val(u, p) == IF p \in stop THEN base[p] ELSE h[<<p, u[next[p]]>>]
             Upto(u, k) == \A p \in D : m[p] < k => u[p] = Val(u, p)
             T == {k \in 0..(N + 1) : \E u \in [D -> R] : Upto(u, k)}
  <1>0. N + 1 \in Nat /\ \A p \in D : m[p] \in Nat /\ m[p] < N + 1
    OBVIOUS
  <1>1. 0 \in T
    <2>1. Upto(base, 0)
      BY <1>0
    <2> HIDE DEF Upto
    <2>2. 0 \in 0..(N + 1)
      OBVIOUS
    <2> QED
      BY <2>1, <2>2
  <1>2. ASSUME NEW k \in 1..(N + 1), k - 1 \in T PROVE k \in T
    <2>1. PICK u \in [D -> R] : Upto(u, k - 1)
      BY <1>2
    <2> DEFINE v == [p \in D |-> IF m[p] < k - 1 THEN u[p] ELSE Val(u, p)]
    <2>2. v \in [D -> R]
      <3>1. \A p \in D : Val(u, p) \in R
        OBVIOUS
      <3> HIDE DEF Val
      <3> QED
        BY <3>1
    <2>3. \A p \in D : v[p] = IF m[p] < k - 1 THEN u[p] ELSE Val(u, p)
      OBVIOUS
    <2>4. \A p \in D : m[p] < k - 1 => u[p] = Val(u, p)
      BY <2>1
    <2>5. \A p \in D : v[p] = Val(u, p)
      <3> HIDE DEF v, Val
      <3> QED
        BY <2>3, <2>4
    <2>6. ASSUME NEW p \in D, m[p] < k PROVE v[p] = Val(v, p)
      <3>1. CASE p \in stop
        BY <2>5, <3>1
      <3>2. CASE p \notin stop
        <4>1. next[p] \in D /\ m[next[p]] < m[p] /\ m[next[p]] \in Nat /\ m[p] \in Nat
          BY <3>2
        <4>2. m[next[p]] < k - 1
          BY <2>6, <4>1
        <4>3. v[next[p]] = u[next[p]]
          BY <2>3, <4>1, <4>2
        <4> HIDE DEF v
        <4> QED
          BY <2>5, <3>2, <4>3
      <3> QED
        BY <3>1, <3>2
    <2>7. Upto(v, k)
      BY <2>6
    <2> HIDE DEF Upto, v
    <2>8. k \in 0..(N + 1)
      OBVIOUS
    <2> QED
      BY <2>2, <2>7, <2>8
  <1>3. N + 1 \in T
    <2> HIDE DEF T
    <2>1. \A k \in 0..(N + 1) : k \in T
      BY <1>0, <1>1, <1>2, UpTo
    <2> QED
      BY <1>0, <2>1
  <1>4. PICK u \in [D -> R] : Upto(u, N + 1)
    BY <1>3
  <1>5. Descends(u, D, stop, base, h, next)
    BY <1>0, <1>4 DEF Descends
  <1> QED
    BY <1>5

\* A set that has i in a..n whenever it has every later number of a..n.
LEMMA DownFrom ==
    ASSUME NEW a \in Nat, NEW n \in Nat, NEW T,
           \A i \in a..n : (\A j \in (i + 1)..n : j \in T) => i \in T
    PROVE  \A i \in a..n : i \in T
  <1> DEFINE Bad == {d \in Nat : n - d \in a..n /\ n - d \notin T}
  <1>1. Bad = {}
    <2> SUFFICES ASSUME Bad # {} PROVE FALSE
      OBVIOUS
    <2>1. PICK d \in Bad : \A e \in Bad : d <= e
      <3>1. Bad \subseteq Nat
        OBVIOUS
      <3> HIDE DEF Bad
      <3> QED
        BY <3>1, LeastNatural
    <2>2. \A j \in ((n - d) + 1)..n : j \in T
      <3> TAKE j \in ((n - d) + 1)..n
      <3>1. n - j \in Nat /\ n - j < d /\ n - (n - j) = j /\ j \in a..n
        BY <2>1
      <3>2. n - j \notin Bad
        BY <2>1, <3>1
      <3> QED
        BY <3>1, <3>2
    <2>3. n - d \in a..n /\ n - d \notin T
      BY <2>1
    <2> QED
      BY <2>2, <2>3
  <1>2. ASSUME NEW i \in a..n PROVE i \in T
    <2>1. n - i \in Nat /\ n - (n - i) = i
      OBVIOUS
    <2>2. n - i \notin Bad
      BY <1>1
    <2> QED
      BY <2>1, <2>2
  <1> QED
    BY <1>2

=============================================================================
