-------------------------------- MODULE Sums --------------------------------
(***************************************************************************)
(* Sums over finite sets, folds over sequences, recursion over the         *)
(* naturals, and the arithmetic of division: what the proofs about         *)
(* balances, stakes and bytes need.                                        *)
(*                                                                         *)
(* The folds of the community modules are recursive functions over the     *)
(* subsets of a set, so every fact about them is an induction.  The        *)
(* induction theorems of the library take the induction predicate as a     *)
(* parameter; here it is the set F or T of what has been shown, and the    *)
(* principle itself comes from the first-order WFMin: a set of naturals    *)
(* has a least element.                                                    *)
(***************************************************************************)
EXTENDS Integers, FiniteSetsExt, FiniteSetTheorems, WellFoundedInduction, TLAPS

\* The element that the fold of the community modules takes from a set next.
Pick(s) == CHOOSE x \in s : TRUE

\* The sum of w over S, as the fold computes it.
Sum(w, S) == MapThenSumSet(LAMBDA x : w[x], S)

\* g has, for each subset of S, the sum of w over it: what the fold recurs on.
IsSum(g, w, S) ==
  g = [s \in SUBSET S |-> IF s = {} THEN 0 ELSE w[Pick(s)] + g[s \ {Pick(s)}]]

-----------------------------------------------------------------------------
(* Induction                                                               *)

\* A set of naturals that has an element has a least one.
LEMMA LeastNat ==
  ASSUME NEW T \in SUBSET Nat, T # {}
  PROVE  \E m \in T : \A k \in T : m <= k
<1> DEFINE R == {p \in Nat \X Nat : p[1] < p[2]}
<1>1. IsWellFoundedOn(R, Nat)
  BY NatLessThanWellFounded DEF OpToRel
<1> HIDE DEF R
<1>2. PICK m \in T : \A k \in T : ~ (<<k, m>> \in R)
  BY <1>1, WFMin
<1>3. ASSUME NEW k \in T PROVE m <= k
  <2>1. k \in Nat /\ m \in Nat
    OBVIOUS
  <2>2. ~ (k < m)
    BY <1>2, <2>1 DEF R
  <2> QED BY <2>1, <2>2
<1> QED BY <1>3

\* What is true of a set whenever it is true of its proper subsets is true of
\* every subset of a finite set.  F is the set of those it is true of.
LEMMA SetInduction ==
  ASSUME NEW S, IsFiniteSet(S), NEW F,
         \A s \in SUBSET S : (\A r \in SUBSET s : r # s => r \in F) => s \in F
  PROVE  \A s \in SUBSET S : s \in F
<1> DEFINE T == {Cardinality(s) : s \in {r \in SUBSET S : r \notin F}}
<1>1. \A s \in SUBSET S : IsFiniteSet(s) /\ Cardinality(s) \in Nat
  BY FS_Subset, FS_CardinalityType
<1> SUFFICES ASSUME T # {} PROVE FALSE
  OBVIOUS
<1>2. PICK m \in T : \A k \in T : m <= k
  <2>1. T \in SUBSET Nat
    BY <1>1
  <2> QED BY <2>1, LeastNat
<1>3. PICK s \in SUBSET S : s \notin F /\ Cardinality(s) = m
  OBVIOUS
<1>4. ASSUME NEW r \in SUBSET s, r # s PROVE r \in F
  <2>1. r \in SUBSET S
    OBVIOUS
  <2>2. Cardinality(r) <= Cardinality(s) /\ Cardinality(r) # Cardinality(s)
    BY <1>1, <1>4, FS_Subset
  <2>3. Cardinality(r) \in Nat /\ Cardinality(s) \in Nat
    BY <1>1, <2>1
  <2>4. ~ (m <= Cardinality(r))
    BY <1>3, <2>2, <2>3
  <2> QED BY <1>2, <2>1, <2>4
<1> QED BY <1>3, <1>4

\* The element taken from a set is one of its elements.
LEMMA PickIn == \A s : s # {} => Pick(s) \in s
BY DEF Pick

\* A set that has 0, and with each natural the next, has them all.
LEMMA NatInductionOnSet ==
  ASSUME NEW T, 0 \in T, \A n \in Nat : n \in T => n + 1 \in T
  PROVE  Nat \subseteq T
<1> SUFFICES ASSUME Nat \ T # {} PROVE FALSE
  OBVIOUS
<1>1. PICK m \in Nat \ T : \A k \in Nat \ T : m <= k
  <2>1. Nat \ T \in SUBSET Nat
    OBVIOUS
  <2> QED BY <2>1, LeastNat
<1>2. m # 0 /\ m - 1 \in Nat
  OBVIOUS
<1>3. m - 1 \in T
  BY <1>1, <1>2
<1> QED BY <1>2, <1>3

-----------------------------------------------------------------------------
(* The fold                                                                *)

\* The recursion of the fold has a solution: by induction on the size of the
\* subsets it is defined for.
LEMMA SumExists ==
  ASSUME NEW S, IsFiniteSet(S), NEW w \in [S -> Int]
  PROVE  \E g \in [SUBSET S -> Int] : IsSum(g, w, S)
<1> DEFINE Small(n) == {s \in SUBSET S : Cardinality(s) <= n}
           Next(g, s) == IF s = {} THEN 0 ELSE w[Pick(s)] + g[s \ {Pick(s)}]
           Good(g, n) == g = [s \in Small(n) |-> Next(g, s)]
           T == {n \in Nat : \E g \in [Small(n) -> Int] : Good(g, n)}
<1>1. \A s \in SUBSET S : IsFiniteSet(s) /\ Cardinality(s) \in Nat
  BY FS_Subset, FS_CardinalityType
<1>2. ASSUME NEW s \in SUBSET S, s # {}
      PROVE  /\ Pick(s) \in S /\ w[Pick(s)] \in Int
             /\ s \ {Pick(s)} \in SUBSET S
             /\ Cardinality(s \ {Pick(s)}) = Cardinality(s) - 1
  <2>1. Pick(s) \in s
    BY <1>2, PickIn
  <2>2. Cardinality(s \ {Pick(s)}) = Cardinality(s) - 1
    BY <1>1, <2>1, FS_RemoveElement
  <2> QED BY <2>1, <2>2
<1>3. 0 \in T
  <2> DEFINE g == [s \in Small(0) |-> 0]
  <2>1. \A s \in Small(0) : s = {}
    <3>1. ASSUME NEW s \in Small(0) PROVE Cardinality(s) = 0
      BY <1>1
    <3> QED BY <1>1, <3>1, FS_EmptySet
  <2>2. Good(g, 0)
    BY <2>1
  <2>3. g \in [Small(0) -> Int]
    OBVIOUS
  <2> QED BY <2>2, <2>3
<1>4. ASSUME NEW n \in Nat, n \in T PROVE n + 1 \in T
  <2>1. PICK g \in [Small(n) -> Int] : Good(g, n)
    BY <1>4
  <2> DEFINE h == [s \in Small(n + 1) |-> Next(g, s)]
  <2>2. ASSUME NEW s \in Small(n + 1), s # {}
        PROVE  s \ {Pick(s)} \in Small(n) /\ s \ {Pick(s)} \in Small(n + 1)
    BY <1>1, <1>2, <2>2
  <2>3. ASSUME NEW s \in Small(n) PROVE s \in Small(n + 1) /\ g[s] = Next(g, s)
    <3>1. s \in Small(n + 1)
      BY <1>1
    <3>2. g[s] = Next(g, s)
      <4> HIDE DEF Small, Next
      <4> QED BY <2>1
    <3> QED BY <3>1, <3>2
  <2>4. \A s \in Small(n) : h[s] = g[s]
    BY <2>3
  <2>5. \A s \in Small(n + 1) : Next(g, s) = Next(h, s)
    BY <2>2, <2>4
  <2>6. Good(h, n + 1)
    BY <2>5
  <2>7. h \in [Small(n + 1) -> Int]
    BY <1>2, <2>2
  <2>8. \E f \in [Small(n + 1) -> Int] : Good(f, n + 1)
    <3> HIDE DEF Small, Good, h
    <3> QED BY <2>6, <2>7
  <2> HIDE DEF Small, Good
  <2> QED BY <2>8
<1>5. Cardinality(S) \in T
  <2>1. Nat \subseteq T
    <3> HIDE DEF T
    <3> QED BY <1>3, <1>4, NatInductionOnSet
  <2> QED BY <1>1, <2>1
<1>6. Small(Cardinality(S)) = SUBSET S
  BY <1>1, FS_Subset
<1> QED BY <1>5, <1>6 DEF IsSum

\* One step of the recursion.
LEMMA SumStep ==
  ASSUME NEW S, NEW w, NEW g, IsSum(g, w, S)
  PROVE  /\ g[{}] = 0
         /\ \A s \in SUBSET S : s # {} => g[s] = w[Pick(s)] + g[s \ {Pick(s)}]
<1>1. \A s \in SUBSET S : g[s] = IF s = {} THEN 0 ELSE w[Pick(s)] + g[s \ {Pick(s)}]
  BY DEF IsSum
<1> QED BY <1>1

\* The recursion has one solution.
LEMMA SumUnique ==
  ASSUME NEW S, IsFiniteSet(S), NEW w, NEW g, NEW h, IsSum(g, w, S), IsSum(h, w, S)
  PROVE  g = h
<1> DEFINE F == {s \in SUBSET S : g[s] = h[s]}
<1>1. ASSUME NEW s \in SUBSET S, \A r \in SUBSET s : r # s => r \in F PROVE s \in F
  <2>1. CASE s = {}
    BY <2>1, SumStep
  <2>2. CASE s # {}
    <3>1. g[s \ {Pick(s)}] = h[s \ {Pick(s)}]
      BY <1>1, <2>2, PickIn
    <3>2. g[s] = w[Pick(s)] + g[s \ {Pick(s)}]
      BY <2>2, SumStep
    <3>3. h[s] = w[Pick(s)] + h[s \ {Pick(s)}]
      BY <2>2, SumStep
    <3> QED BY <3>1, <3>2, <3>3
  <2> QED BY <2>1, <2>2
<1>2. \A s \in SUBSET S : s \in F
  <2> HIDE DEF F
  <2> QED BY <1>1, SetInduction
<1>3. \A s \in SUBSET S : g[s] = h[s]
  BY <1>2
<1> QED BY <1>3 DEF IsSum

\* Any solution of the recursion has the sum at the whole set.
LEMMA SumIs ==
  ASSUME NEW S, IsFiniteSet(S), NEW w, NEW g, IsSum(g, w, S)
  PROVE  Sum(w, S) = g[S]
<1>1. Sum(w, S) = (CHOOSE h : IsSum(h, w, S))[S]
  BY DEF Sum, MapThenSumSet, MapThenFoldSet, IsSum, Pick
<1>2. IsSum(CHOOSE h : IsSum(h, w, S), w, S)
  OBVIOUS
<1> QED BY <1>1, <1>2, SumUnique

\* A sum over a part is the running sum of the whole there.
LEMMA SumOfPart ==
  ASSUME NEW S, IsFiniteSet(S), NEW w, NEW g, IsSum(g, w, S),
         NEW T \in SUBSET S, NEW v, \A x \in T : v[x] = w[x]
  PROVE  Sum(v, T) = g[T]
<1> DEFINE h == [s \in SUBSET T |-> g[s]]
<1>1. ASSUME NEW s \in SUBSET T
      PROVE  h[s] = IF s = {} THEN 0 ELSE v[Pick(s)] + h[s \ {Pick(s)}]
  <2>1. CASE s = {}
    BY <2>1, SumStep
  <2>2. CASE s # {}
    <3>0. \A r \in SUBSET S : r # {} => g[r] = w[Pick(r)] + g[r \ {Pick(r)}]
      BY SumStep
    <3>1. g[s] = w[Pick(s)] + g[s \ {Pick(s)}]
      BY <2>2, <3>0
    <3>2. v[Pick(s)] = w[Pick(s)]
      BY <2>2, PickIn
    <3>3. h[s] = g[s] /\ h[s \ {Pick(s)}] = g[s \ {Pick(s)}]
      OBVIOUS
    <3> QED BY <2>2, <3>1, <3>2, <3>3
  <2> QED BY <2>1, <2>2
<1>2. IsSum(h, v, T)
  BY <1>1 DEF IsSum
<1>3. IsFiniteSet(T)
  BY FS_Subset
<1>4. h[T] = g[T]
  OBVIOUS
<1> HIDE DEF h
<1> QED BY <1>2, <1>3, <1>4, SumIs

\* A running sum with its types.
Typed(g, w, S) ==
  /\ IsFiniteSet(S) /\ w \in [S -> Int] /\ g \in [SUBSET S -> Int]
  /\ IsSum(g, w, S)

\* Any element may be the last to be added.
TakesAny(g, w, S) == \A s \in SUBSET S : \A x \in s : g[s] = w[x] + g[s \ {x}]

\* The order in which the fold takes the elements does not matter.
LEMMA SumTakesAny ==
  ASSUME NEW S, NEW w, NEW g, Typed(g, w, S)
  PROVE  TakesAny(g, w, S)
<1> USE DEF Typed
<1> DEFINE F == {s \in SUBSET S : \A x \in s : g[s] = w[x] + g[s \ {x}]}
<1>1. ASSUME NEW s \in SUBSET S, \A r \in SUBSET s : r # s => r \in F PROVE s \in F
  <2> SUFFICES ASSUME NEW x \in s PROVE g[s] = w[x] + g[s \ {x}]
    OBVIOUS
  <2> DEFINE p == Pick(s)
  <2>1. p \in s /\ g[s] = w[p] + g[s \ {p}]
    BY PickIn, SumStep
  <2>2. CASE x = p
    BY <2>1, <2>2
  <2>3. CASE x # p
    <3>1. s \ {p} \in F /\ s \ {x} \in F
      BY <1>1, <2>1
    <3> HIDE DEF p
    <3>2. g[s \ {p}] = w[x] + g[(s \ {p}) \ {x}]
      BY <2>3, <3>1
    <3>3. g[s \ {x}] = w[p] + g[(s \ {x}) \ {p}]
      BY <2>1, <2>3, <3>1
    <3>4. g[(s \ {p}) \ {x}] = g[(s \ {x}) \ {p}]
      <4>1. (s \ {p}) \ {x} = (s \ {x}) \ {p}
        OBVIOUS
      <4> QED BY <4>1
    <3>5. w[x] \in Int /\ w[p] \in Int /\ g[(s \ {x}) \ {p}] \in Int
      BY <2>1
    <3> HIDE DEF F
    <3> QED BY <2>1, <3>2, <3>3, <3>4, <3>5
  <2> QED BY <2>2, <2>3
<1>2. \A s \in SUBSET S : s \in F
  <2> HIDE DEF F
  <2> QED BY <1>1, SetInduction
<1> QED BY <1>2 DEF TakesAny

\* What a sum is, whatever the order in which the fold takes the elements: it can
\* be taken apart at any of them.
Additive(w, S) ==
  /\ Sum(w, {}) = 0
  /\ \A T \in SUBSET S :
       /\ Sum(w, T) \in Int
       /\ \A x \in T : Sum(w, T) = w[x] + Sum(w, T \ {x})

\* A sum of integers over a finite set is additive.
LEMMA SumIsAdditive ==
  ASSUME NEW S, IsFiniteSet(S), NEW w, w \in [S -> Int]
  PROVE  Additive(w, S)
<1>1. PICK g \in [SUBSET S -> Int] : IsSum(g, w, S)
  BY SumExists
<1>2. \A T \in SUBSET S : Sum(w, T) = g[T] /\ g[T] \in Int
  BY <1>1, SumOfPart
<1>3. TakesAny(g, w, S)
  BY <1>1, SumTakesAny DEF Typed
<1>4. g[{}] = 0
  BY <1>1, SumStep
<1>5. ASSUME NEW T \in SUBSET S, NEW x \in T
      PROVE  Sum(w, T) = w[x] + Sum(w, T \ {x})
  <2>1. g[T] = w[x] + g[T \ {x}]
    BY <1>3 DEF TakesAny
  <2>2. T \ {x} \in SUBSET S
    OBVIOUS
  <2> QED BY <1>2, <2>1, <2>2
<1> QED BY <1>2, <1>4, <1>5 DEF Additive

\* Only the values on S matter.
LEMMA SumSame ==
  ASSUME NEW S, IsFiniteSet(S), NEW w, w \in [S -> Int], NEW v, \A x \in S : v[x] = w[x]
  PROVE  Sum(v, S) = Sum(w, S)
<1>1. PICK g \in [SUBSET S -> Int] : IsSum(g, w, S)
  BY SumExists
<1>2. Sum(v, S) = g[S] /\ Sum(w, S) = g[S]
  BY <1>1, SumOfPart
<1> QED BY <1>2

\* One value changes, and the sum with it.
LEMMA SumUpdate ==
  ASSUME NEW S, IsFiniteSet(S), NEW w, w \in [S -> Int], NEW v, v \in [S -> Int],
         NEW x \in S, \A y \in S \ {x} : v[y] = w[y]
  PROVE  Sum(v, S) = Sum(w, S) + v[x] - w[x]
<1>1. Additive(w, S) /\ Additive(v, S)
  BY SumIsAdditive
<1>2. Sum(v, S \ {x}) = Sum(w, S \ {x})
  <2> DEFINE T == S \ {x}
             r == [y \in T |-> w[y]]
  <2>1. IsFiniteSet(T) /\ r \in [T -> Int]
    BY FS_RemoveElement
  <2>2. (\A y \in T : v[y] = r[y]) /\ (\A y \in T : w[y] = r[y])
    OBVIOUS
  <2> HIDE DEF T, r
  <2>3. Sum(v, T) = Sum(r, T) /\ Sum(w, T) = Sum(r, T)
    BY <2>1, <2>2, SumSame
  <2> QED BY <2>3 DEF T
<1>3. /\ Sum(w, S) = w[x] + Sum(w, S \ {x}) /\ Sum(v, S) = v[x] + Sum(v, S \ {x})
      /\ Sum(w, S \ {x}) \in Int /\ w[x] \in Int /\ v[x] \in Int
  BY <1>1 DEF Additive
<1> QED BY <1>2, <1>3

\* A sum of naturals is one, and bounds the sum over any part.
LEMMA SumNat ==
  ASSUME NEW S, IsFiniteSet(S), NEW w, w \in [S -> Nat], NEW R \in SUBSET S
  PROVE  Sum(w, S) \in Nat /\ Sum(w, R) \in Nat /\ Sum(w, R) <= Sum(w, S)
<1> DEFINE g(s) == Sum(w, s)
           Bound(s) == \A r \in SUBSET s : g(r) \in Nat /\ g(r) <= g(s)
           F == {s \in SUBSET S : Bound(s)}
<1>1. Additive(w, S)
  <2>1. w \in [S -> Int]
    OBVIOUS
  <2> QED BY <2>1, SumIsAdditive
<1>2. ASSUME NEW s \in SUBSET S, \A r \in SUBSET s : r # s => r \in F PROVE Bound(s)
  <2>1. CASE s = {}
    <3>1. \A r \in SUBSET s : r = {}
      BY <2>1
    <3>2. g(s) = 0
      BY <1>1, <2>1 DEF Additive
    <3> HIDE DEF g
    <3> QED BY <2>1, <3>1, <3>2
  <2>2. CASE s # {}
    <3>1. ASSUME NEW y \in s PROVE g(s) = w[y] + g(s \ {y}) /\ w[y] \in Nat
      BY <1>1 DEF Additive
    <3>2. ASSUME NEW y \in s, NEW r \in SUBSET (s \ {y})
          PROVE  g(r) \in Nat /\ g(r) <= g(s \ {y})
      <4> HIDE DEF g
      <4> QED BY <1>2
    <3> HIDE DEF g
    <3>3. g(s) \in Nat
      <4>1. PICK x \in s : TRUE
        BY <2>2
      <4>2. g(s \ {x}) \in Nat
        BY <3>2
      <4> QED BY <3>1, <4>2
    <3>4. ASSUME NEW r \in SUBSET s, r # s PROVE g(r) \in Nat /\ g(r) <= g(s)
      <4>1. PICK y \in s : y \notin r
        BY <3>4
      <4>2. g(r) \in Nat /\ g(r) <= g(s \ {y})
        BY <3>2, <4>1
      <4>3. g(s \ {y}) \in Nat
        BY <3>2
      <4> QED BY <3>1, <3>3, <4>2, <4>3
    <3> QED BY <3>3, <3>4
  <2> QED BY <2>1, <2>2
<1>3. \A s \in SUBSET S : s \in F
  <2>1. ASSUME NEW s \in SUBSET S, \A r \in SUBSET s : r # s => r \in F PROVE s \in F
    BY <1>2, <2>1
  <2> HIDE DEF F
  <2> QED BY <2>1, SetInduction
<1> HIDE DEF g
<1>4. S \in F
  BY <1>3
<1>5. g(S) \in Nat /\ g(R) \in Nat /\ g(R) <= g(S)
  BY <1>4
<1> QED BY <1>5 DEF g

\* The sum of one natural, as often as there are elements.
LEMMA SumConstant ==
  ASSUME NEW S, IsFiniteSet(S), NEW c \in Nat
  PROVE  Sum([x \in S |-> c], S) = c * Cardinality(S)
<1> DEFINE w == [x \in S |-> c]
           F == {s \in SUBSET S : Sum(w, s) = c * Cardinality(s)}
<1>1. w \in [S -> Int] /\ \A x \in S : w[x] = c
  OBVIOUS
<1> HIDE DEF w
<1>2. Additive(w, S)
  BY <1>1, SumIsAdditive
<1>3. ASSUME NEW s \in SUBSET S, \A r \in SUBSET s : r # s => r \in F PROVE s \in F
  <2>1. CASE s = {}
    <3>1. Sum(w, {}) = 0 /\ Cardinality({}) = 0
      BY <1>2, FS_EmptySet DEF Additive
    <3> QED BY <2>1, <3>1
  <2>2. CASE s # {}
    <3>1. PICK x \in s : TRUE
      BY <2>2
    <3> DEFINE r == s \ {x}
    <3>2. r \in F /\ Sum(w, s) = c + Sum(w, r)
      BY <1>1, <1>2, <1>3 DEF Additive
    <3>3. IsFiniteSet(s) /\ Cardinality(s) \in Nat
      BY FS_Subset, FS_CardinalityType
    <3>4. Cardinality(r) = Cardinality(s) - 1
      BY <3>3, FS_RemoveElement
    <3>5. Sum(w, r) = c * Cardinality(r)
      BY <3>2
    <3> HIDE DEF r
    <3> DEFINE m == Cardinality(s)
    <3> HIDE DEF m
    <3>6. m \in Nat /\ c + c * (m - 1) = c * m
      BY <3>3 DEF m
    <3> QED BY <3>2, <3>4, <3>5, <3>6 DEF m
  <2> QED BY <2>1, <2>2
<1>4. \A s \in SUBSET S : s \in F
  <2> HIDE DEF F
  <2> QED BY <1>3, SetInduction
<1>5. S \in F
  BY <1>4
<1> QED BY <1>5 DEF w

\* A term of a sum of naturals is no more than the sum.
LEMMA TermInSum ==
  ASSUME NEW S, IsFiniteSet(S), NEW w, w \in [S -> Nat], NEW x \in S
  PROVE  w[x] <= Sum(w, S)
<1>1. Additive(w, S)
  <2>1. w \in [S -> Int]
    OBVIOUS
  <2> QED BY <2>1, SumIsAdditive
<1>2. Sum(w, S) = w[x] + Sum(w, S \ {x})
  BY <1>1 DEF Additive
<1>3. Sum(w, S \ {x}) \in Nat
  BY SumNat
<1> QED BY <1>2, <1>3

\* A sum of naturals that are found, each in a place of its own, among those of
\* another sum, is no more than that one.
LEMMA SumOfFound ==
  ASSUME NEW S, IsFiniteSet(S), NEW w, w \in [S -> Nat],
         NEW I, IsFiniteSet(I), NEW u, u \in [I -> Nat], NEW f,
         \A x \in S : w[x] # 0 => f[x] \in I /\ u[f[x]] = w[x],
         \A x, y \in S : w[x] # 0 /\ w[y] # 0 /\ f[x] = f[y] => x = y
  PROVE  Sum(w, S) <= Sum(u, I)
<1> DEFINE g(s) == Sum(w, s)
           h(s) == Sum(u, s)
           Places(s) == {f[x] : x \in {y \in s : w[y] # 0}}
           F == {s \in SUBSET S : g(s) <= h(Places(s))}
<1>1. Additive(w, S) /\ Additive(u, I)
  <2>1. w \in [S -> Int] /\ u \in [I -> Int]
    OBVIOUS
  <2> QED BY <2>1, SumIsAdditive
<1>2. \A s \in SUBSET S : Places(s) \in SUBSET I
  OBVIOUS
<1>3. ASSUME NEW s \in SUBSET S, \A r \in SUBSET s : r # s => r \in F
      PROVE  g(s) <= h(Places(s))
  <2>1. CASE s = {}
    <3>1. Places(s) = {}
      BY <2>1
    <3>2. g(s) = 0 /\ h(Places(s)) = 0
      BY <1>1, <2>1, <3>1 DEF Additive
    <3> QED BY <3>2
  <2>2. CASE s # {}
    <3>1. PICK p \in s : TRUE
      BY <2>2
    <3> DEFINE r == s \ {p}
    <3>2. g(r) <= h(Places(r))
      <4> HIDE DEF g, h, Places
      <4> QED BY <1>3, <3>1
    <3>3. g(s) = w[p] + g(r) /\ w[p] \in Nat
      BY <1>1, <3>1 DEF Additive
    <3>4. g(r) \in Int /\ g(s) \in Int
      BY <1>1 DEF Additive
    <3>5. h(Places(r)) \in Int /\ h(Places(s)) \in Int
      <4>1. Places(r) \in SUBSET I /\ Places(s) \in SUBSET I
        BY <1>2
      <4> HIDE DEF Places
      <4> QED BY <1>1, <4>1 DEF Additive
    <3>6. CASE w[p] = 0
      <4>1. Places(s) = Places(r)
        BY <3>6
      <4> HIDE DEF g, h, Places, r
      <4> QED BY <3>2, <3>3, <3>4, <3>5, <3>6, <4>1
    <3>7. CASE w[p] # 0
      <4>1. f[p] \in Places(s) /\ u[f[p]] = w[p]
        BY <3>7
      <4>2. Places(s) \ {f[p]} = Places(r)
        BY <3>7
      <4>3. h(Places(s)) = u[f[p]] + h(Places(s) \ {f[p]})
        <5>1. Places(s) \in SUBSET I
          BY <1>2
        <5> HIDE DEF Places
        <5> QED BY <1>1, <4>1, <5>1 DEF Additive
      <4> HIDE DEF g, h, Places, r
      <4> QED BY <3>2, <3>3, <3>4, <3>5, <4>1, <4>2, <4>3
    <3> QED BY <3>6, <3>7
  <2> QED BY <2>1, <2>2
<1>4. \A s \in SUBSET S : s \in F
  <2>1. ASSUME NEW s \in SUBSET S, \A r \in SUBSET s : r # s => r \in F PROVE s \in F
    BY <1>3, <2>1
  <2> HIDE DEF F
  <2> QED BY <2>1, SetInduction
<1>5. Places(S) \in SUBSET I
  OBVIOUS
<1>6. h(Places(S)) <= h(I) /\ h(Places(S)) \in Nat /\ h(I) \in Nat
  <2> HIDE DEF Places
  <2> QED BY <1>5, SumNat
<1>7. g(S) \in Int
  BY <1>1 DEF Additive
<1> HIDE DEF g, h, Places
<1>8. g(S) <= h(Places(S))
  BY <1>4
<1>9. g(S) <= h(I)
  BY <1>6, <1>7, <1>8
<1> QED BY <1>9 DEF g, h

-----------------------------------------------------------------------------
(* Folds over sequences                                                    *)

\* A set of indices has a largest.
LEMMA MaxIn ==
  ASSUME NEW n \in Nat, NEW D \in SUBSET (1 .. n), D # {}
  PROVE  Max(D) \in D /\ \A x \in D : x <= Max(D)
<1> DEFINE T == {n - x : x \in D}
<1>1. T \in SUBSET Nat /\ T # {}
  OBVIOUS
<1>2. PICK m \in T : \A k \in T : m <= k
  BY <1>1, LeastNat
<1>3. PICK y \in D : m = n - y
  OBVIOUS
<1>4. \A x \in D : y >= x
  BY <1>2, <1>3
<1>5. Max(D) \in D /\ \A x \in D : Max(D) >= x
  BY <1>4 DEF Max
<1> QED BY <1>5

\* The largest of the first k indices is k.
LEMMA MaxOfPrefix ==
  ASSUME NEW k \in Nat \ {0}
  PROVE  Max(1 .. k) = k /\ (1 .. k) \ {Max(1 .. k)} = 1 .. (k - 1) /\ 1 .. k # {}
<1>1. 1 .. k # {} /\ k \in 1 .. k
  OBVIOUS
<1>2. Max(1 .. k) \in 1 .. k /\ k <= Max(1 .. k)
  BY <1>1, MaxIn
<1>3. Max(1 .. k) = k
  BY <1>2
<1> QED BY <1>1, <1>3

\* What FoldLeft recurs on: for each set of indices, the fold over those elements.
\* The operation is a function f of a value and an element.
FoldStep(g, f, base, q, D) ==
  IF D = {} THEN base ELSE f[<<g[D \ {Max(D)}], q[Max(D)]>>]

IsFold(g, f, base, q) ==
  \A D \in SUBSET DOMAIN q : g[D] = FoldStep(g, f, base, q, D)

\* The recursion has a solution, where the operation stays within a set: by
\* induction on the number of indices.
LEMMA FoldExists ==
  ASSUME NEW W, NEW E, NEW f, f \in [W \X E -> W], NEW base, base \in W,
         NEW n \in Nat, NEW q, q \in [1 .. n -> E]
  PROVE  \E g : g \in [SUBSET (1 .. n) -> W] /\ IsFold(g, f, base, q)
<1> DEFINE S == 1 .. n
           Small(k) == {D \in SUBSET S : Cardinality(D) <= k}
           Good(g, k) == \A D \in Small(k) : g[D] = FoldStep(g, f, base, q, D)
           T == {k \in Nat : \E g \in [Small(k) -> W] : Good(g, k)}
<1>0. IsFiniteSet(S) /\ Cardinality(S) \in Nat
  BY FS_Interval, FS_CardinalityType
<1>1. \A D \in SUBSET S : IsFiniteSet(D) /\ Cardinality(D) \in Nat
  BY <1>0, FS_Subset, FS_CardinalityType
<1>2. ASSUME NEW D \in SUBSET S, D # {}
      PROVE  /\ D \ {Max(D)} \in SUBSET S /\ Cardinality(D \ {Max(D)}) = Cardinality(D) - 1
             /\ q[Max(D)] \in E
  <2>1. Max(D) \in D
    BY <1>2, MaxIn
  <2>2. Cardinality(D \ {Max(D)}) = Cardinality(D) - 1
    BY <1>1, <2>1, FS_RemoveElement
  <2> QED BY <2>1, <2>2
<1>3. 0 \in T
  <2> DEFINE g == [D \in Small(0) |-> base]
  <2>1. \A D \in Small(0) : D = {}
    <3>1. ASSUME NEW D \in Small(0) PROVE Cardinality(D) = 0
      BY <1>1
    <3> QED BY <1>1, <3>1, FS_EmptySet
  <2>2. Good(g, 0)
    BY <2>1 DEF FoldStep
  <2> QED BY <2>2
<1>4. ASSUME NEW k \in Nat, k \in T PROVE k + 1 \in T
  <2>1. PICK g \in [Small(k) -> W] : Good(g, k)
    BY <1>4
  <2> DEFINE h == [D \in Small(k + 1) |-> FoldStep(g, f, base, q, D)]
  <2>2. ASSUME NEW D \in Small(k + 1), D # {}
        PROVE  D \ {Max(D)} \in Small(k)
    <3> DEFINE C == D \ {Max(D)}
    <3>1. C \in SUBSET S /\ Cardinality(C) = Cardinality(D) - 1
      BY <1>2, <2>2
    <3>2. Cardinality(D) \in Nat /\ Cardinality(D) <= k + 1
      BY <1>1
    <3> HIDE DEF C
    <3>3. C \in Small(k)
      BY <3>1, <3>2
    <3> QED BY <3>3 DEF C
  <2>3. ASSUME NEW D \in Small(k + 1) PROVE FoldStep(g, f, base, q, D) \in W
    <3>1. CASE D = {}
      BY <3>1 DEF FoldStep
    <3>2. CASE D # {}
      <4>1. g[D \ {Max(D)}] \in W /\ q[Max(D)] \in E
        <5>1. D \in SUBSET S
          OBVIOUS
        <5> HIDE DEF Small, Good, S
        <5> QED BY <1>2, <2>2, <3>2, <5>1
      <4> QED BY <3>2, <4>1 DEF FoldStep
    <3> QED BY <3>1, <3>2
  <2>4. ASSUME NEW D \in Small(k) PROVE D \in Small(k + 1) /\ h[D] = g[D]
    <3>1. D \in Small(k + 1)
      BY <1>1
    <3>2. g[D] = FoldStep(g, f, base, q, D)
      <4> HIDE DEF Small
      <4> QED BY <2>1
    <3> HIDE DEF Small
    <3> QED BY <3>1, <3>2
  <2>5. \A D \in Small(k + 1) : FoldStep(g, f, base, q, D) = FoldStep(h, f, base, q, D)
    <3> HIDE DEF h, Small
    <3> QED BY <2>2, <2>4 DEF FoldStep
  <2>6. h \in [Small(k + 1) -> W] /\ Good(h, k + 1)
    <3> HIDE DEF Small
    <3> QED BY <2>3, <2>5
  <2> HIDE DEF Small, Good, h
  <2> QED BY <2>6
<1>5. Cardinality(S) \in T
  <2>1. Nat \subseteq T
    <3> HIDE DEF T
    <3> QED BY <1>3, <1>4, NatInductionOnSet
  <2> QED BY <1>0, <2>1
<1>6. Small(Cardinality(S)) = SUBSET S
  BY <1>0, <1>1, FS_Subset
<1>7. PICK g \in [Small(Cardinality(S)) -> W] : Good(g, Cardinality(S))
  BY <1>5
<1>8. g \in [SUBSET S -> W] /\ IsFold(g, f, base, q)
  <2>1. DOMAIN q = S
    OBVIOUS
  <2> HIDE DEF Small, S
  <2> QED BY <1>6, <1>7, <2>1 DEF IsFold
<1> QED BY <1>8

\* h has what there is after each step of f along q, from base to end.
Runs(h, f, base, q, n, end) ==
  h[0] = base /\ h[n] = end /\ \A k \in 1 .. n : h[k] = f[<<h[k - 1], q[k]>>]

\* G has what there is after the indices in a set, of which the last is taken first.
Backward(G, f, base, q, n, W) ==
  /\ G[{}] = base
  /\ \A D \in SUBSET (1 .. n) :
       D # {} /\ G[D \ {Max(D)}] \in W => G[D] = f[<<G[D \ {Max(D)}], q[Max(D)]>>]

\* What takes the elements of q from the last one back takes them in order.
LEMMA FoldRuns ==
  ASSUME NEW W, NEW E, NEW f, f \in [W \X E -> W], NEW base, base \in W,
         NEW n \in Nat, NEW q, q \in [1 .. n -> E],
         NEW G, Backward(G, f, base, q, n, W), NEW end, end = G[1 .. n]
  PROVE  \E h : h \in [0 .. n -> W] /\ Runs(h, f, base, q, n, end)
<1> USE DEF Backward
<1> DEFINE T == {k \in Nat : k <= n => G[1 .. k] \in W}
<1>1. 1 .. 0 = {}
  OBVIOUS
<1>2. ASSUME NEW k \in 1 .. n, G[1 .. (k - 1)] \in W
      PROVE  G[1 .. k] = f[<<G[1 .. (k - 1)], q[k]>>] /\ G[1 .. k] \in W
  <2>1. Max(1 .. k) = k /\ (1 .. k) \ {Max(1 .. k)} = 1 .. (k - 1) /\ 1 .. k # {}
    <3>1. k \in Nat \ {0}
      OBVIOUS
    <3> QED BY <3>1, MaxOfPrefix
  <2>2. 1 .. k \in SUBSET (1 .. n)
    OBVIOUS
  <2>3. G[1 .. k] = f[<<G[1 .. (k - 1)], q[k]>>]
    BY <1>2, <2>1, <2>2
  <2>4. q[k] \in E
    OBVIOUS
  <2>5. <<G[1 .. (k - 1)], q[k]>> \in W \X E
    BY <1>2, <2>4
  <2> QED BY <2>3, <2>5
<1>3. 0 \in T
  BY <1>1
<1>4. ASSUME NEW k \in Nat, k \in T PROVE k + 1 \in T
  <2>1. CASE k + 1 <= n
    <3>1. k + 1 \in 1 .. n /\ (k + 1) - 1 = k /\ G[1 .. k] \in W
      BY <1>4, <2>1
    <3> DEFINE j == k + 1
    <3>2. j \in 1 .. n /\ G[1 .. (j - 1)] \in W
      BY <3>1
    <3> HIDE DEF j
    <3>3. G[1 .. j] \in W
      BY <1>2, <3>2
    <3> QED BY <3>3 DEF j
  <2>2. CASE ~ (k + 1 <= n)
    BY <2>2
  <2> QED BY <2>1, <2>2
<1>5. Nat \subseteq T
  <2> HIDE DEF T
  <2> QED BY <1>3, <1>4, NatInductionOnSet
<1>6. \A k \in 0 .. n : G[1 .. k] \in W
  BY <1>5
<1> DEFINE h == [k \in 0 .. n |-> G[1 .. k]]
<1>7. h \in [0 .. n -> W]
  BY <1>6
<1>8. h[0] = base /\ h[n] = end
  BY <1>1
<1>9. ASSUME NEW k \in 1 .. n PROVE h[k] = f[<<h[k - 1], q[k]>>]
  <2>1. k \in 0 .. n /\ k - 1 \in 0 .. n
    OBVIOUS
  <2>2. G[1 .. k] = f[<<G[1 .. (k - 1)], q[k]>>]
    BY <1>2, <1>6, <2>1
  <2> QED BY <2>1, <2>2
<1> HIDE DEF h
<1>10. Runs(h, f, base, q, n, end)
  BY <1>8, <1>9 DEF Runs
<1> QED BY <1>7, <1>10

-----------------------------------------------------------------------------
(* Recursion over the naturals                                             *)

\* p starts at base and goes on by f.
Recurs(p, f, base) == p[0] = base /\ \A n \in Nat : p[n + 1] = f[p[n]]

\* Such a p has a value at every natural.
LEMMA RecursionExists ==
  ASSUME NEW W, NEW f, f \in [W -> W], NEW base, base \in W
  PROVE  \E p : p \in [Nat -> W] /\ Recurs(p, f, base)
<1> DEFINE Upto(g, n) == g[0] = base /\ \A k \in 0 .. n - 1 : g[k + 1] = f[g[k]]
           T == {n \in Nat : \E g \in [0 .. n -> W] : Upto(g, n)}
<1>1. Nat \subseteq T
  <2>1. 0 \in T
    <3> DEFINE g == [k \in 0 .. 0 |-> base]
    <3>1. g \in [0 .. 0 -> W] /\ Upto(g, 0)
      OBVIOUS
    <3> HIDE DEF g
    <3> QED BY <3>1
  <2>2. ASSUME NEW n \in Nat, n \in T PROVE n + 1 \in T
    <3>1. PICK g \in [0 .. n -> W] : Upto(g, n)
      BY <2>2
    <3> DEFINE h == [k \in 0 .. n + 1 |-> IF k <= n THEN g[k] ELSE f[g[n]]]
    <3>2. h \in [0 .. n + 1 -> W] /\ \A k \in 0 .. n : h[k] = g[k]
      <4>1. ASSUME NEW k \in 0 .. n + 1 PROVE (IF k <= n THEN g[k] ELSE f[g[n]]) \in W
        OBVIOUS
      <4> QED BY <4>1
    <3>3. h[n + 1] = f[g[n]]
      OBVIOUS
    <3>4. Upto(h, n + 1)
      <4> HIDE DEF h
      <4>1. h[0] = base
        BY <3>1, <3>2
      <4>2. ASSUME NEW k \in 0 .. n PROVE h[k + 1] = f[h[k]]
        <5>1. CASE k = n
          BY <3>2, <3>3, <5>1
        <5>2. CASE k \in 0 .. n - 1
          BY <3>1, <3>2, <5>2
        <5> QED BY <5>1, <5>2
      <4> QED BY <4>1, <4>2
    <3> HIDE DEF Upto, h
    <3> QED BY <3>2, <3>4
  <2> HIDE DEF T
  <2> QED BY <2>1, <2>2, NatInductionOnSet
<1> DEFINE G(n) == CHOOSE g \in [0 .. n -> W] : Upto(g, n)
           p == [n \in Nat |-> G(n)[n]]
<1>2. ASSUME NEW n \in Nat PROVE G(n) \in [0 .. n -> W] /\ Upto(G(n), n)
  <2>1. \E g \in [0 .. n -> W] : Upto(g, n)
    BY <1>1
  <2> HIDE DEF Upto
  <2> QED BY <2>1
<1> HIDE DEF G
<1>3. ASSUME NEW n \in Nat PROVE G(n + 1)[n] = G(n)[n]
  <2> DEFINE Q == {k \in Nat : k <= n => G(n + 1)[k] = G(n)[k]}
  <2>1. 0 \in Q
    BY <1>2
  <2>2. ASSUME NEW k \in Nat, k \in Q PROVE k + 1 \in Q
    <3>1. CASE k + 1 <= n
      <4>1. k \in 0 .. n - 1 /\ k \in 0 .. (n + 1) - 1
        BY <3>1
      <4>2. G(n)[k + 1] = f[G(n)[k]]
        BY <1>2, <4>1
      <4>3. G(n + 1)[k + 1] = f[G(n + 1)[k]]
        BY <1>2, <4>1
      <4> QED BY <2>2, <4>1, <4>2, <4>3
    <3>2. CASE ~ (k + 1 <= n)
      BY <3>2
    <3> QED BY <3>1, <3>2
  <2>3. Nat \subseteq Q
    <3> HIDE DEF Q
    <3> QED BY <2>1, <2>2, NatInductionOnSet
  <2>4. n \in Q
    BY <2>3
  <2> QED BY <2>4
<1>4. p \in [Nat -> W] /\ p[0] = base
  BY <1>2
<1>5. ASSUME NEW n \in Nat PROVE p[n + 1] = f[p[n]]
  <2>1. n \in 0 .. (n + 1) - 1 /\ n + 1 \in Nat
    OBVIOUS
  <2>2. G(n + 1)[n + 1] = f[G(n + 1)[n]]
    BY <1>2, <2>1
  <2> QED BY <1>3, <2>1, <2>2
<1>6. p \in [Nat -> W] /\ Recurs(p, f, base)
  <2> HIDE DEF p
  <2> QED BY <1>4, <1>5 DEF Recurs
<1> QED BY <1>6

-----------------------------------------------------------------------------
(* Arithmetic                                                              *)

\* Division with remainder.
LEMMA ModDef ==
  ASSUME NEW W \in Nat \ {0}, NEW a \in Int
  PROVE  a % W \in 0 .. W - 1 /\ a \div W \in Int /\ a = W * (a \div W) + (a % W)
OBVIOUS

\* A multiple of W nearer to 0 than W is 0.
LEMMA SmallMultiple ==
  ASSUME NEW W \in Nat \ {0}, NEW q \in Int, NEW d \in Int, d = W * q, d < W, -W < d
  PROVE  q = 0
<1>1. CASE q >= 1
  <2>1. W * q >= W
    BY <1>1
  <2> QED BY <2>1
<1>2. CASE q <= -1
  <2>1. W * q <= -W
    BY <1>2
  <2> QED BY <2>1
<1> QED BY <1>1, <1>2

\* A number has one quotient and one remainder.
LEMMA ModUnique ==
  ASSUME NEW W \in Nat \ {0}, NEW a \in Int, NEW q \in Int, NEW r \in 0 .. W - 1,
         a = W * q + r
  PROVE  a % W = r /\ a \div W = q
<1> DEFINE p == a \div W
           s == a % W
<1>1. s \in 0 .. W - 1 /\ p \in Int /\ a = W * p + s
  BY ModDef
<1> HIDE DEF p, s
<1>2. W * (p - q) = r - s
  <2>1. W * (p - q) = W * p - W * q
    BY <1>1
  <2> QED BY <1>1, <2>1
<1>3. p - q = 0
  BY <1>1, <1>2, SmallMultiple
<1>4. p = q
  BY <1>1, <1>3
<1> QED BY <1>1, <1>4 DEF p, s

\* The digits of a number, from one place to the next.
LEMMA DigitStep ==
  ASSUME NEW R \in Nat \ {0}, NEW P \in Nat \ {0}, NEW n \in Nat
  PROVE  /\ (n \div (R * P)) * R + ((n \div P) % R) = n \div P
         /\ (n \div P) % R \in 0 .. R - 1
         /\ n \div P \in Nat
<1> DEFINE q == n \div P
           s == n % P
           p == q \div R
           d == q % R
           W == R * P
           r == P * d + s
<1>1. s \in 0 .. P - 1 /\ q \in Int /\ n = P * q + s
  BY ModDef
<1>2. d \in 0 .. R - 1 /\ p \in Int /\ q = R * p + d
  <2> HIDE DEF q, s
  <2> QED BY <1>1, ModDef
<1>3. q \in Nat
  <2> HIDE DEF q, s
  <2>1. CASE q <= -1
    <3>1. P * q <= -P
      BY <1>1, <2>1
    <3> QED BY <1>1, <3>1
  <2> QED BY <1>1, <2>1
<1> HIDE DEF p, q, s, d
<1>4. W \in Nat \ {0}
  OBVIOUS
<1>5. r \in 0 .. W - 1
  <2>1. P * d <= P * (R - 1) /\ P * d >= 0 /\ P * d \in Int
    BY <1>2
  <2>2. P * (R - 1) = R * P - P
    OBVIOUS
  <2> QED BY <1>1, <2>1, <2>2
<1>6. n = W * p + r
  <2>1. P * q = P * (R * p) + P * d
    BY <1>2
  <2>2. P * (R * p) = (R * P) * p
    BY <1>2
  <2>3. P * q \in Int /\ P * (R * p) \in Int /\ P * d \in Int /\ (R * P) * p \in Int
    BY <1>1, <1>2
  <2> QED BY <1>1, <2>1, <2>2, <2>3
<1>7. n \div W = p
  <2>1. n \in Int
    OBVIOUS
  <2> HIDE DEF W, r
  <2> QED BY <1>2, <1>4, <1>5, <1>6, <2>1, ModUnique
<1>8. p * R + d = q
  BY <1>2
<1> QED BY <1>2, <1>3, <1>7, <1>8 DEF q, d, W
=============================================================================
