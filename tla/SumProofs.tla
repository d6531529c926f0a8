------------------------------- MODULE SumProofs -------------------------------
(***************************************************************************)
(* Induction over the natural numbers, from their being well-ordered, and  *)
(* with it what the sum of a function over a finite set is: the fold of    *)
(* the community modules, which recurs over subsets, has the recursion     *)
(* equation, whichever elements it picks first.                            *)
(***************************************************************************)
EXTENDS Integers, FiniteSetsExt, FiniteSetTheorems, WellFoundedInduction, TLAPS

-------------------------------------------------------------------------------
(* Induction *)

\* Every set of natural numbers has a least element.
LEMMA LeastElement ==
  ASSUME NEW T \in SUBSET Nat, T # {}
  PROVE  \E n \in T : \A m \in T : n <= m
PROOF
  <1> DEFINE R == OpToRel(<, Nat)
  <1>1. \A m, n \in Nat : <<m, n>> \in R <=> m < n
    BY DEF OpToRel
  <1>2. IsWellFoundedOn(R, Nat)
    BY NatLessThanWellFounded
  <1> HIDE DEF R
  <1>3. PICK n \in T : \A m \in T : ~ (<<m, n>> \in R)
    BY <1>2, WFMin
  <1>4. \A m \in T : m \in Nat /\ n \in Nat /\ ~(m < n)
    BY <1>1, <1>3
  <1>5. \A m \in T : n <= m
    BY <1>4
  <1> QED BY <1>5

\* A set of them that has 0, and with every number the next one, has them all.
LEMMA NatSetInduction ==
  ASSUME NEW T, 0 \in T, \A n \in Nat : n \in T => n + 1 \in T
  PROVE  Nat \subseteq T
PROOF
  <1> SUFFICES ASSUME Nat \ T # {} PROVE FALSE
    OBVIOUS
  <1>1. PICK n \in Nat \ T : \A m \in Nat \ T : n <= m
    BY LeastElement
  <1>2. n # 0 /\ n - 1 \in Nat
    BY <1>1
  <1>3. n - 1 \in T
    BY <1>1, <1>2
  <1> QED BY <1>1, <1>2, <1>3

-------------------------------------------------------------------------------
(* The recursion of the fold *)

Sum(f, S) == MapThenSumSet(LAMBDA x : f[x], S)

First(s) == CHOOSE x \in s : TRUE

\* One step of the recursion, from the value v of the rest.
Step(f, s, v) == f[First(s)] + v

IsFold(f, S, g) ==
  g = [s \in SUBSET S |-> IF s = {} THEN 0 ELSE Step(f, s, g[s \ {First(s)}])]

Fold(f, S) == CHOOSE g : IsFold(f, S, g)

LEMMA SumIsFold == \A f, S : Sum(f, S) = Fold(f, S)[S]
  BY DEF Sum, Fold, IsFold, Step, First, MapThenSumSet, MapThenFoldSet

LEMMA FirstIn == \A s : s # {} => First(s) \in s
  BY DEF First

LEMMA FoldStep ==
  \A f, S, g : IsFold(f, S, g) =>
    /\ g[{}] = 0
    /\ \A s \in SUBSET S : s # {} => g[s] = Step(f, s, g[s \ {First(s)}])
PROOF
  <1> SUFFICES ASSUME NEW f, NEW S, NEW g, IsFold(f, S, g)
               PROVE  /\ g[{}] = 0
                      /\ \A s \in SUBSET S : s # {} => g[s] = Step(f, s, g[s \ {First(s)}])
    OBVIOUS
  <1> DEFINE h == [s \in SUBSET S |-> IF s = {} THEN 0 ELSE Step(f, s, g[s \ {First(s)}])]
  <1>1. g = h
    BY DEF IsFold
  <1>2. h[{}] = 0
    OBVIOUS
  <1>3. \A s \in SUBSET S : s # {} => h[s] = Step(f, s, g[s \ {First(s)}])
    OBVIOUS
  <1> HIDE DEF h
  <1> QED BY <1>1, <1>2, <1>3

\* Two folds of functions that agree, over sets of which one may be larger,
\* agree.
LEMMA FoldsAgree ==
  ASSUME NEW f, NEW e, NEW S, NEW T, T \subseteq S, IsFiniteSet(T),
         \A x \in T : f[x] = e[x],
         NEW g, IsFold(f, S, g), NEW h, IsFold(e, T, h)
  PROVE  \A s \in SUBSET T : g[s] = h[s]
PROOF
  <1> DEFINE Good == {n \in Nat : \A s \in SUBSET T : Cardinality(s) = n => g[s] = h[s]}
  <1>0. /\ \A s \in SUBSET S : s # {} => g[s] = Step(f, s, g[s \ {First(s)}])
        /\ \A s \in SUBSET T : s # {} => h[s] = Step(e, s, h[s \ {First(s)}])
    <2>1. \A s \in SUBSET S : s # {} => g[s] = Step(f, s, g[s \ {First(s)}])
      BY FoldStep
    <2>2. \A s \in SUBSET T : s # {} => h[s] = Step(e, s, h[s \ {First(s)}])
      BY FoldStep
    <2> QED BY <2>1, <2>2
  <1>1. \A s \in SUBSET T : IsFiniteSet(s) /\ Cardinality(s) \in Nat
    BY FS_Subset, FS_CardinalityType
  <1>2. 0 \in Good
    BY <1>1, FS_EmptySet, FoldStep
  <1>3. ASSUME NEW n \in Nat, n \in Good PROVE n + 1 \in Good
    <2> SUFFICES ASSUME NEW s \in SUBSET T, Cardinality(s) = n + 1 PROVE g[s] = h[s]
      OBVIOUS
    <2>1. s # {}
      BY FS_EmptySet
    <2> DEFINE x == First(s)
    <2>2. x \in s /\ x \in T
      BY <2>1, FirstIn
    <2> HIDE DEF x
    <2>3. s \ {x} \in SUBSET T /\ Cardinality(s \ {x}) = n
      <3>1. IsFiniteSet(s)
        BY <1>1
      <3>2. Cardinality(s \ {x}) = Cardinality(s) - 1
        BY <2>2, <3>1, FS_RemoveElement
      <3> QED BY <3>2
    <2>4. g[s \ {x}] = h[s \ {x}]
      BY <1>3, <2>3
    <2>5. g[s] = Step(f, s, g[s \ {x}]) /\ h[s] = Step(e, s, h[s \ {x}])
      BY <1>0, <2>1 DEF x
    <2>6. Step(f, s, g[s \ {x}]) = Step(e, s, h[s \ {x}])
      BY <2>2, <2>4 DEF Step, x
    <2> QED BY <2>5, <2>6
  <1> HIDE DEF Good
  <1>4. Nat \subseteq Good
    BY <1>2, <1>3, NatSetInduction
  <1>5. \A n \in Nat : \A s \in SUBSET T : Cardinality(s) = n => g[s] = h[s]
    BY <1>4 DEF Good
  <1> QED BY <1>1, <1>5

\* The recursion has a solution.
LEMMA FoldExists ==
  ASSUME NEW f, NEW S, IsFiniteSet(S)
  PROVE  IsFold(f, S, Fold(f, S))
PROOF
  <1> DEFINE Good == {n \in Nat : \A s \in SUBSET S :
                                    Cardinality(s) <= n => IsFold(f, s, Fold(f, s))}
  <1>1. \A s \in SUBSET S : IsFiniteSet(s) /\ Cardinality(s) \in Nat
    BY FS_Subset, FS_CardinalityType
  <1>2. 0 \in Good
    <2> SUFFICES ASSUME NEW s \in SUBSET S, Cardinality(s) <= 0
                 PROVE  IsFold(f, s, Fold(f, s))
      OBVIOUS
    <2>1. s = {}
      BY <1>1, FS_EmptySet
    <2> DEFINE g == [u \in SUBSET {} |-> 0]
    <2>2. IsFold(f, {}, g)
      <3>1. g = [u \in SUBSET {} |->
                   IF u = {} THEN 0 ELSE Step(f, u, g[u \ {First(u)}])]
        OBVIOUS
      <3> QED BY <3>1 DEF IsFold
    <2> QED BY <2>1, <2>2 DEF Fold
  <1>3. ASSUME NEW n \in Nat, n \in Good PROVE n + 1 \in Good
    <2> SUFFICES ASSUME NEW s \in SUBSET S, Cardinality(s) <= n + 1
                 PROVE  IsFold(f, s, Fold(f, s))
      OBVIOUS
    <2>1. \A u \in SUBSET s : u # s => u \in SUBSET S /\ IsFold(f, u, Fold(f, u))
      <3> SUFFICES ASSUME NEW u \in SUBSET s, u # s
                   PROVE  IsFold(f, u, Fold(f, u))
        OBVIOUS
      <3>1. u \in SUBSET S /\ Cardinality(u) <= Cardinality(s)
                           /\ Cardinality(u) # Cardinality(s)
        BY <1>1, FS_Subset
      <3>2. Cardinality(u) <= n
        BY <1>1, <3>1
      <3> QED BY <1>3, <3>1, <3>2
    <2>2. CASE s = {}
      BY <1>2, <1>1, <2>2, FS_EmptySet
    <2>3. CASE s # {}
      <3> DEFINE Value(u) == Fold(f, u)[u]
                 x == First(s)
                 g == [u \in SUBSET s |-> IF u = s THEN Step(f, s, Value(s \ {x})) ELSE Value(u)]
      <3>1. x \in s
        BY <2>3, FirstIn
      <3>2. Value({}) = 0
        BY <2>1, <2>3, FoldStep
      <3>3. ASSUME NEW u \in SUBSET s, u # s, u # {}
            PROVE  Value(u) = Step(f, u, Value(u \ {First(u)}))
        <4> DEFINE v == u \ {First(u)}
        <4>1. v \in SUBSET u /\ v \in SUBSET s /\ v # s
          BY <3>3, FirstIn
        <4>2. IsFold(f, u, Fold(f, u)) /\ IsFold(f, v, Fold(f, v)) /\ IsFiniteSet(v)
          BY <1>1, <2>1, <3>3, <4>1
        <4> HIDE DEF v
        <4>3. Fold(f, u)[v] = Fold(f, v)[v]
          BY <4>1, <4>2, FoldsAgree
        <4>4. Fold(f, u)[u] = Step(f, u, Fold(f, u)[v])
          BY <3>3, <4>2, FoldStep DEF v
        <4> QED BY <4>3, <4>4 DEF v
      <3> HIDE DEF Value, x
      <3>4. \A u \in SUBSET s :
              g[u] = IF u = {} THEN 0 ELSE Step(f, u, g[u \ {First(u)}])
        <4> SUFFICES ASSUME NEW u \in SUBSET s
                     PROVE  g[u] = IF u = {} THEN 0 ELSE Step(f, u, g[u \ {First(u)}])
          OBVIOUS
        <4>1. CASE u = {}
          BY <2>3, <3>2, <4>1
        <4>2. CASE u = s
          <5>1. g[u \ {First(u)}] = Value(s \ {x})
            BY <3>1, <4>2 DEF x
          <5> QED BY <2>3, <4>2, <5>1 DEF x
        <4>3. CASE u # {} /\ u # s
          <5>1. u \ {First(u)} # s /\ u \ {First(u)} \in SUBSET s
            BY <4>3
          <5>2. g[u \ {First(u)}] = Value(u \ {First(u)})
            BY <5>1
          <5> QED BY <3>3, <4>3, <5>2
        <4> QED BY <4>1, <4>2, <4>3
      <3>5. IsFold(f, s, g)
        <4> DEFINE k == [u \in SUBSET s |->
                           IF u = {} THEN 0 ELSE Step(f, u, g[u \ {First(u)}])]
        <4>1. \A u \in SUBSET s : g[u] = k[u]
          BY <3>4
        <4>2. DOMAIN g = SUBSET s /\ DOMAIN k = SUBSET s
          OBVIOUS
        <4>3. g = k
          BY <4>1, <4>2
        <4> QED BY <4>3 DEF IsFold
      <3> QED BY <3>5 DEF Fold
    <2> QED BY <2>2, <2>3
  <1> HIDE DEF Good
  <1>4. Cardinality(S) \in Good
    BY <1>1, <1>2, <1>3, NatSetInduction
  <1> QED BY <1>1, <1>4 DEF Good

-------------------------------------------------------------------------------
(* Sums *)

LEMMA SumEmpty == \A f : Sum(f, {}) = 0
  BY FoldExists, FoldStep, SumIsFold, FS_EmptySet

LEMMA SumFirst ==
  ASSUME NEW f, NEW S, IsFiniteSet(S), S # {}
  PROVE  Sum(f, S) = f[First(S)] + Sum(f, S \ {First(S)})
PROOF
  <1> DEFINE T == S \ {First(S)}
  <1>1. IsFold(f, S, Fold(f, S)) /\ IsFold(f, T, Fold(f, T)) /\ IsFiniteSet(T)
    BY FoldExists, FS_RemoveElement
  <1>2. T \in SUBSET T /\ T \subseteq S
    OBVIOUS
  <1> HIDE DEF T
  <1>3. Fold(f, S)[T] = Fold(f, T)[T]
    BY <1>1, <1>2, FoldsAgree
  <1>4. Fold(f, S)[S] = Step(f, S, Fold(f, S)[T])
    BY <1>1, FoldStep DEF T
  <1> QED BY <1>3, <1>4, SumIsFold DEF T, Step

\* A sum depends on nothing but the values it sums.
LEMMA SumAgrees ==
  ASSUME NEW f, NEW e, NEW S, IsFiniteSet(S), \A x \in S : f[x] = e[x]
  PROVE  Sum(f, S) = Sum(e, S)
PROOF
  <1> DEFINE g == Fold(f, S)
             h == Fold(e, S)
  <1>1. Sum(f, S) = g[S] /\ Sum(e, S) = h[S]
    BY SumIsFold
  <1>2. IsFold(f, S, g)
    BY FoldExists
  <1>3. IsFold(e, S, h)
    BY FoldExists
  <1> HIDE DEF g, h
  <1>4. ASSUME NEW T, T = S PROVE \A s \in SUBSET T : g[s] = h[s]
    <2>1. T \subseteq S /\ IsFiniteSet(T) /\ \A x \in T : f[x] = e[x]
      BY <1>4
    <2>2. IsFold(e, T, h)
      BY <1>3, <1>4
    <2> QED BY <1>2, <2>1, <2>2, FoldsAgree
  <1> QED BY <1>1, <1>4

LEMMA SumIsInt ==
  ASSUME NEW f, NEW S, IsFiniteSet(S), \A x \in S : f[x] \in Int
  PROVE  Sum(f, S) \in Int
PROOF
  <1> DEFINE Good == {n \in Nat : \A s \in SUBSET S : Cardinality(s) = n => Sum(f, s) \in Int}
  <1>1. \A s \in SUBSET S : IsFiniteSet(s) /\ Cardinality(s) \in Nat
    BY FS_Subset, FS_CardinalityType
  <1>2. 0 \in Good
    BY <1>1, FS_EmptySet, SumEmpty
  <1>3. ASSUME NEW n \in Nat, n \in Good PROVE n + 1 \in Good
    <2> SUFFICES ASSUME NEW s \in SUBSET S, Cardinality(s) = n + 1 PROVE Sum(f, s) \in Int
      OBVIOUS
    <2>1. s # {} /\ IsFiniteSet(s)
      BY <1>1, FS_EmptySet
    <2> DEFINE x == First(s)
    <2>2. x \in s /\ Sum(f, s) = f[x] + Sum(f, s \ {x})
      BY <2>1, FirstIn, SumFirst
    <2> HIDE DEF x
    <2>3. Cardinality(s \ {x}) = Cardinality(s) - 1
      BY <2>1, <2>2, FS_RemoveElement
    <2>4. Sum(f, s \ {x}) \in Int
      BY <1>3, <2>3
    <2> QED BY <2>2, <2>4
  <1> HIDE DEF Good
  <1>4. Cardinality(S) \in Good
    BY <1>1, <1>2, <1>3, NatSetInduction
  <1> QED BY <1>4 DEF Good

\* Any element may be taken out first.
LEMMA SumRemove ==
  ASSUME NEW f, NEW S, IsFiniteSet(S), \A x \in S : f[x] \in Int, NEW a \in S
  PROVE  Sum(f, S) = f[a] + Sum(f, S \ {a})
PROOF
  <1> DEFINE Good == {n \in Nat : \A s \in SUBSET S : \A x \in s :
                        Cardinality(s) = n => Sum(f, s) = f[x] + Sum(f, s \ {x})}
  <1>1. \A s \in SUBSET S : IsFiniteSet(s) /\ Cardinality(s) \in Nat
    BY FS_Subset, FS_CardinalityType
  <1>2. 0 \in Good
    BY <1>1, FS_EmptySet
  <1>3. ASSUME NEW n \in Nat, n \in Good PROVE n + 1 \in Good
    <2> SUFFICES ASSUME NEW s \in SUBSET S, NEW x \in s, Cardinality(s) = n + 1
                 PROVE  Sum(f, s) = f[x] + Sum(f, s \ {x})
      OBVIOUS
    <2>1. s # {} /\ IsFiniteSet(s)
      BY <1>1
    <2> DEFINE y == First(s)
    <2>2. y \in s /\ Sum(f, s) = f[y] + Sum(f, s \ {y})
      BY <2>1, FirstIn, SumFirst
    <2> HIDE DEF y
    <2>3. CASE x = y
      BY <2>2, <2>3
    <2>4. CASE x # y
      <3>1. /\ s \ {x} \in SUBSET S /\ y \in s \ {x} /\ Cardinality(s \ {x}) = n
            /\ s \ {y} \in SUBSET S /\ x \in s \ {y} /\ Cardinality(s \ {y}) = n
        <4>1. Cardinality(s \ {x}) = Cardinality(s) - 1
          BY <2>1, FS_RemoveElement
        <4>2. Cardinality(s \ {y}) = Cardinality(s) - 1
          BY <2>1, <2>2, FS_RemoveElement
        <4> QED BY <2>2, <2>4, <4>1, <4>2
      <3>2. Sum(f, s \ {x}) = f[y] + Sum(f, (s \ {x}) \ {y})
        BY <1>3, <3>1
      <3>3. Sum(f, s \ {y}) = f[x] + Sum(f, (s \ {y}) \ {x})
        BY <1>3, <3>1
      <3>4. (s \ {y}) \ {x} = (s \ {x}) \ {y}
        OBVIOUS
      <3>5. f[x] \in Int /\ f[y] \in Int /\ Sum(f, (s \ {x}) \ {y}) \in Int
        <4>1. (s \ {x}) \ {y} \in SUBSET S
          OBVIOUS
        <4>2. IsFiniteSet((s \ {x}) \ {y})
          BY <1>1, <4>1
        <4> QED BY <2>2, <4>1, <4>2, SumIsInt
      <3> DEFINE R == Sum(f, (s \ {x}) \ {y})
      <3>6. Sum(f, s \ {y}) = f[x] + R /\ Sum(f, s \ {x}) = f[y] + R /\ R \in Int
        BY <3>2, <3>3, <3>4, <3>5
      <3> HIDE DEF R
      <3> QED BY <2>2, <3>5, <3>6
    <2> QED BY <2>3, <2>4
  <1> HIDE DEF Good
  <1>4. Cardinality(S) \in Good
    BY <1>1, <1>2, <1>3, NatSetInduction
  <1> QED BY <1>4 DEF Good

LEMMA SumAdd ==
  ASSUME NEW f, NEW S, IsFiniteSet(S), NEW a, a \notin S,
         f[a] \in Int, \A x \in S : f[x] \in Int
  PROVE  Sum(f, S \cup {a}) = f[a] + Sum(f, S)
PROOF
  <1>1. IsFiniteSet(S \cup {a}) /\ (S \cup {a}) \ {a} = S
    BY FS_AddElement
  <1>2. \A x \in S \cup {a} : f[x] \in Int
    OBVIOUS
  <1>3. Sum(f, S \cup {a}) = f[a] + Sum(f, (S \cup {a}) \ {a})
    BY <1>1, <1>2, SumRemove
  <1> QED BY <1>1, <1>3
LEMMA SumSingle ==
  ASSUME NEW f, NEW a, f[a] \in Int
  PROVE  Sum(f, {a}) = f[a]
PROOF
  <1>1. IsFiniteSet({}) /\ a \notin {} /\ {a} = {} \cup {a}
    BY FS_EmptySet
  <1>2. \A x \in {} : f[x] \in Int
    OBVIOUS
  <1>3. Sum(f, {} \cup {a}) = f[a] + Sum(f, {})
    BY <1>1, <1>2, SumAdd
  <1> QED BY <1>1, <1>3, SumEmpty

\* The sums over two parts add up.
LEMMA SumUnion ==
  ASSUME NEW f, NEW S, IsFiniteSet(S), \A x \in S : f[x] \in Int, NEW T \in SUBSET S
  PROVE  Sum(f, S) = Sum(f, T) + Sum(f, S \ T)
PROOF
  <1> DEFINE Good == {n \in Nat : \A s \in SUBSET T : Cardinality(s) = n =>
                        Sum(f, S) = Sum(f, s) + Sum(f, S \ s)}
  <1>1. \A s \in SUBSET S : IsFiniteSet(s) /\ Cardinality(s) \in Nat
    BY FS_Subset, FS_CardinalityType
  <1>2. 0 \in Good
    <2> SUFFICES ASSUME NEW s \in SUBSET T, Cardinality(s) = 0
                 PROVE  Sum(f, S) = Sum(f, s) + Sum(f, S \ s)
      OBVIOUS
    <2>1. s = {} /\ S \ s = S
      BY <1>1, FS_EmptySet
    <2>2. Sum(f, S) \in Int
      BY SumIsInt
    <2> QED BY <2>1, <2>2, SumEmpty
  <1>3. ASSUME NEW n \in Nat, n \in Good PROVE n + 1 \in Good
    <2> SUFFICES ASSUME NEW s \in SUBSET T, Cardinality(s) = n + 1
                 PROVE  Sum(f, S) = Sum(f, s) + Sum(f, S \ s)
      OBVIOUS
    <2>0. s \in SUBSET S
      OBVIOUS
    <2>1. s # {} /\ IsFiniteSet(s)
      BY <1>1, <2>0, FS_EmptySet
    <2>2. PICK x \in s : TRUE
      BY <2>1
    <2> DEFINE r == s \ {x}
    <2>3. r \in SUBSET T /\ r \in SUBSET S /\ Cardinality(r) = n /\ IsFiniteSet(r)
      <3>1. Cardinality(r) = Cardinality(s) - 1
        BY <2>1, <2>2, FS_RemoveElement
      <3>2. r \in SUBSET T /\ r \in SUBSET S
        OBVIOUS
      <3> HIDE DEF r
      <3> QED BY <1>1, <3>1, <3>2
    <2>4. Sum(f, S) = Sum(f, r) + Sum(f, S \ r)
      BY <1>3, <2>3
    <2>5. Sum(f, s) = f[x] + Sum(f, r)
      BY <2>1, <2>2, SumRemove
    <2>6. (S \ r) \ {x} = S \ s /\ x \in S \ r
      BY <2>1, <2>2
    <2>7. Sum(f, S \ r) = f[x] + Sum(f, S \ s)
      <3> DEFINE R == S \ r
      <3>0. R \in SUBSET S
        OBVIOUS
      <3>1. IsFiniteSet(R) /\ R \subseteq S /\ x \in R /\ R \ {x} = S \ s
        BY <1>1, <2>6, <3>0
      <3> HIDE DEF R
      <3>2. \A y \in R : f[y] \in Int
        BY <3>1
      <3>3. Sum(f, R) = f[x] + Sum(f, R \ {x})
        BY <3>1, <3>2, SumRemove
      <3> QED BY <3>1, <3>3 DEF R
    <2> HIDE DEF r
    <2>8. f[x] \in Int /\ Sum(f, r) \in Int /\ Sum(f, S \ s) \in Int
      <3>1. S \ s \in SUBSET S
        OBVIOUS
      <3>2. IsFiniteSet(S \ s) /\ \A y \in S \ s : f[y] \in Int
        BY <1>1, <3>1
      <3>3. Sum(f, S \ s) \in Int
        BY <3>2, SumIsInt
      <3>4. Sum(f, r) \in Int /\ f[x] \in Int
        BY <2>0, <2>2, <2>3, SumIsInt
      <3> QED BY <3>3, <3>4
    <2> QED BY <2>4, <2>5, <2>7, <2>8
  <1> HIDE DEF Good
  <1>4. Cardinality(T) \in Good
    BY <1>1, <1>2, <1>3, NatSetInduction
  <1> QED BY <1>4 DEF Good

\* A sum is within the bounds of its values.
LEMMA SumBounds ==
  ASSUME NEW f, NEW S, IsFiniteSet(S), NEW m \in Nat, \A x \in S : f[x] \in 0 .. m
  PROVE  Sum(f, S) \in 0 .. m * Cardinality(S)
PROOF
  <1> DEFINE Good == {n \in Nat : \A s \in SUBSET S : Cardinality(s) = n =>
                                    Sum(f, s) \in 0 .. m * n}
  <1>1. \A s \in SUBSET S : IsFiniteSet(s) /\ Cardinality(s) \in Nat
    BY FS_Subset, FS_CardinalityType
  <1>2. 0 \in Good
    <2> SUFFICES ASSUME NEW s \in SUBSET S, Cardinality(s) = 0 PROVE Sum(f, s) \in 0 .. m * 0
      OBVIOUS
    <2>1. s = {}
      BY <1>1, FS_EmptySet
    <2> QED BY <2>1, SumEmpty
  <1>3. ASSUME NEW n \in Nat, n \in Good PROVE n + 1 \in Good
    <2> SUFFICES ASSUME NEW s \in SUBSET S, Cardinality(s) = n + 1
                 PROVE  Sum(f, s) \in 0 .. m * (n + 1)
      OBVIOUS
    <2>1. s # {} /\ IsFiniteSet(s) /\ \A y \in s : f[y] \in Int
      BY <1>1, FS_EmptySet
    <2>2. PICK x \in s : TRUE
      BY <2>1
    <2>3. Sum(f, s) = f[x] + Sum(f, s \ {x})
      BY <2>1, <2>2, SumRemove
    <2>4. Cardinality(s \ {x}) = Cardinality(s) - 1
      BY <2>1, <2>2, FS_RemoveElement
    <2>5. Sum(f, s \ {x}) \in 0 .. m * n
      BY <1>3, <2>4
    <2>6. f[x] \in 0 .. m /\ m * (n + 1) = m * n + m /\ m * n \in Nat
      BY <2>2
    <2> QED BY <2>3, <2>5, <2>6
  <1> HIDE DEF Good
  <1>4. Cardinality(S) \in Good
    BY <1>1, <1>2, <1>3, NatSetInduction
  <1> QED BY <1>4 DEF Good
===============================================================================
