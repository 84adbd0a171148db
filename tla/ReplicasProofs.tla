--------------------------- MODULE ReplicasProofs ---------------------------
(***************************************************************************)
(* Theorems about Replicas, for every set of nodes, validators and keys,   *)
(* every assignment of stake, and chains of every length.                  *)
(*                                                                         *)
(* Execute iterates over a Go map, in an order of its own each time.  What *)
(* it returns depends on the validators under the vote's key only          *)
(* (ExecuteIsResult), so the records and the charges of a node are a       *)
(* replay of the chain over what the node saw (ReplayInv), and two nodes   *)
(* that saw the same have the same.                                        *)
(***************************************************************************)
EXTENDS Replicas, Sums

-----------------------------------------------------------------------------
(* Stake                                                                   *)

\* The sum in the assumption on stake is the sum of module Sums.
LEMMA StakeIsSum == SumFunctionOnSet(Weight, Validators) = Sum(Weight, Validators)
BY DEF SumFunctionOnSet, FoldFunctionOnSet, Sum, MapThenSumSet

\* Neither a validator's weight nor the total of two overflows.
LEMMA TwoStakes ==
  ASSUME NEW v \in Validators, NEW w \in Validators, v # w
  PROVE  /\ Weight[v] \in Nat /\ Weight[w] \in Nat
         /\ Weight[v] < Word /\ Weight[v] + Weight[w] < Word
<1> DEFINE P == {v, w}
<1>1. /\ IsFiniteSet(Validators) /\ Word \in Nat /\ Weight \in [Validators -> Nat]
      /\ Sum(Weight, Validators) < Word
  BY StakeAssumption, StakeIsSum
<1>2. P \in SUBSET Validators /\ P \ {v} = {w} /\ {w} \ {w} = {} /\ v \in P
  OBVIOUS
<1>3. Sum(Weight, P) <= Sum(Weight, Validators) /\ Sum(Weight, Validators) \in Nat
      /\ Sum(Weight, P) \in Nat
  <2> HIDE DEF P
  <2> QED BY <1>1, <1>2, SumNat
<1>4. Additive(Weight, Validators)
  <2>1. Weight \in [Validators -> Int]
    BY <1>1
  <2> QED BY <1>1, <2>1, SumIsAdditive
<1>5. /\ Sum(Weight, P) = Weight[v] + Sum(Weight, {w})
      /\ Sum(Weight, {w}) = Weight[w] + Sum(Weight, {})
      /\ Sum(Weight, {}) = 0
  <2>1. {w} \in SUBSET Validators /\ w \in {w}
    OBVIOUS
  <2> HIDE DEF P
  <2> QED BY <1>2, <1>4, <2>1 DEF Additive
<1>6. Weight[v] \in Nat /\ Weight[w] \in Nat
  BY <1>1
<1> QED BY <1>1, <1>3, <1>5, <1>6

\* The same for one.
LEMMA OneStake ==
  ASSUME NEW v \in Validators
  PROVE  Weight[v] \in Nat /\ Weight[v] < Word /\ Word \in Nat
<1>1. IsFiniteSet(Validators) /\ Word \in Nat /\ Weight \in [Validators -> Nat]
      /\ Sum(Weight, Validators) < Word
  BY StakeAssumption, StakeIsSum
<1>2. Weight[v] <= Sum(Weight, Validators)
  BY <1>1, TermInSum
<1>3. Sum(Weight, Validators) \in Nat
  BY <1>1, SumNat
<1> QED BY <1>1, <1>2, <1>3

-----------------------------------------------------------------------------
(* The loop over the validators                                            *)

Start(rec) == [units |-> 0, total |-> 0, rec |-> rec]

\* One validator of the map: its iteration, if the keys match.
Step(a, rec, s, v) == IF Matching(a, v) THEN Iterate(a, rec, s, v) ELSE s

\* The fold in Execute, and the recursion that it is.
Loop(a, rec, order) ==
  FoldLeft(LAMBDA s, v : IF Matching(a, v) THEN Iterate(a, rec, s, v) ELSE s,
           Start(rec), order)
IsLoop(g, a, rec, q) ==
  g = [D \in SUBSET DOMAIN q |->
         IF D = {} THEN Start(rec) ELSE Step(a, rec, g[D \ {Max(D)}], q[Max(D)])]

\* The recursion of the fold has a solution.
LEMMA LoopExists ==
  ASSUME NEW a, NEW rec, NEW n \in Nat, NEW q, DOMAIN q = 1 .. n
  PROVE  \E g : IsLoop(g, a, rec, q)
<1> DEFINE S == 1 .. n
           Small(k) == {D \in SUBSET S : Cardinality(D) <= k}
           F(g, D) == IF D = {} THEN Start(rec) ELSE Step(a, rec, g[D \ {Max(D)}], q[Max(D)])
           Good(g, k) == g = [D \in Small(k) |-> F(g, D)]
           T == {k \in Nat : \E g : Good(g, k)}
<1>0. IsFiniteSet(S) /\ Cardinality(S) \in Nat
  BY FS_Interval, FS_CardinalityType
<1>1. \A D \in SUBSET S : IsFiniteSet(D) /\ Cardinality(D) \in Nat
  BY <1>0, FS_Subset, FS_CardinalityType
<1>2. ASSUME NEW D \in SUBSET S, D # {}
      PROVE  D \ {Max(D)} \in SUBSET S /\ Cardinality(D \ {Max(D)}) = Cardinality(D) - 1
  <2>1. Max(D) \in D
    BY <1>2, MaxIn
  <2>2. Cardinality(D \ {Max(D)}) = Cardinality(D) - 1
    BY <1>1, <2>1, FS_RemoveElement
  <2> QED BY <2>2
<1>3. 0 \in T
  <2> DEFINE g == [D \in Small(0) |-> Start(rec)]
  <2>1. \A D \in Small(0) : D = {}
    <3>1. ASSUME NEW D \in Small(0) PROVE Cardinality(D) = 0
      BY <1>1
    <3> QED BY <1>1, <3>1, FS_EmptySet
  <2>2. Good(g, 0)
    BY <2>1
  <2> QED BY <2>2
<1>4. ASSUME NEW k \in Nat, k \in T PROVE k + 1 \in T
  <2>1. PICK g : Good(g, k)
    BY <1>4
  <2> DEFINE h == [D \in Small(k + 1) |-> F(g, D)]
  <2>2. ASSUME NEW D \in Small(k + 1), D # {}
        PROVE  D \ {Max(D)} \in Small(k) /\ D \ {Max(D)} \in Small(k + 1)
    <3> DEFINE E == D \ {Max(D)}
    <3>1. E \in SUBSET S /\ Cardinality(E) = Cardinality(D) - 1
      BY <1>2, <2>2
    <3>2. Cardinality(D) \in Nat /\ Cardinality(D) <= k + 1
      BY <1>1
    <3> HIDE DEF E
    <3>3. E \in Small(k) /\ E \in Small(k + 1)
      BY <3>1, <3>2
    <3> QED BY <3>3 DEF E
  <2>3. ASSUME NEW D \in Small(k) PROVE D \in Small(k + 1) /\ g[D] = F(g, D)
    <3>1. D \in Small(k + 1)
      BY <1>1
    <3>2. g[D] = F(g, D)
      <4> HIDE DEF Small, F
      <4> QED BY <2>1
    <3> QED BY <3>1, <3>2
  <2>4. \A D \in Small(k) : h[D] = g[D]
    <3> HIDE DEF Small, F
    <3> QED BY <2>3
  <2>5. \A D \in Small(k + 1) : F(g, D) = F(h, D)
    <3> HIDE DEF h, Small
    <3> QED BY <2>2, <2>4
  <2>6. Good(h, k + 1)
    <3> HIDE DEF Small, F
    <3> QED BY <2>5
  <2> HIDE DEF Small, Good, h
  <2> QED BY <2>6
<1>5. Cardinality(S) \in T
  <2>1. Nat \subseteq T
    <3> HIDE DEF T
    <3> QED BY <1>3, <1>4, NatInductionOnSet
  <2> QED BY <1>0, <2>1
<1>6. Small(Cardinality(S)) = SUBSET S
  BY <1>0, <1>1, FS_Subset
<1>7. PICK g : Good(g, Cardinality(S))
  BY <1>5
<1>8. IsLoop(g, a, rec, q)
  <2> HIDE DEF Small
  <2> QED BY <1>6, <1>7 DEF IsLoop
<1> QED BY <1>8

\* The fold visits the validators one after the other, from the first.
LEMMA LoopRuns ==
  ASSUME NEW a, NEW rec, NEW n \in Nat, NEW q, DOMAIN q = 1 .. n
  PROVE  \E h : /\ h[0] = Start(rec)
                /\ \A k \in 1 .. n : h[k] = Step(a, rec, h[k - 1], q[k])
                /\ Loop(a, rec, q) = h[n]
<1> DEFINE g == CHOOSE x : IsLoop(x, a, rec, q)
           h == [k \in 0 .. n |-> g[1 .. k]]
<1>1. IsLoop(g, a, rec, q)
  BY LoopExists
<1>2. Loop(a, rec, q) = g[DOMAIN q]
  BY DEF Loop, FoldLeft, MapThenFoldSet, IsLoop, Step
<1> HIDE DEF g
<1>3. \A D \in SUBSET (1 .. n) :
        g[D] = IF D = {} THEN Start(rec) ELSE Step(a, rec, g[D \ {Max(D)}], q[Max(D)])
  BY <1>1 DEF IsLoop
<1>4. h[0] = Start(rec)
  <2>1. 1 .. 0 = {} /\ 0 \in 0 .. n /\ {} \in SUBSET (1 .. n)
    OBVIOUS
  <2> QED BY <1>3, <2>1
<1>5. ASSUME NEW k \in 1 .. n PROVE h[k] = Step(a, rec, h[k - 1], q[k])
  <2>1. /\ Max(1 .. k) = k /\ (1 .. k) \ {Max(1 .. k)} = 1 .. (k - 1) /\ 1 .. k # {}
    <3>1. k \in Nat \ {0}
      OBVIOUS
    <3> QED BY <3>1, MaxOfPrefix
  <2>2. 1 .. k \in SUBSET (1 .. n) /\ k \in 0 .. n /\ k - 1 \in 0 .. n
    OBVIOUS
  <2>3. g[1 .. k] = Step(a, rec, g[1 .. (k - 1)], q[k])
    BY <1>3, <2>1, <2>2
  <2> QED BY <2>2, <2>3
<1>6. Loop(a, rec, q) = h[n]
  BY <1>2
<1> HIDE DEF h
<1> QED BY <1>4, <1>5, <1>6

-----------------------------------------------------------------------------
(* What Execute returns                                                    *)

IsRec(rec) == rec = [weight |-> rec.weight, votes |-> rec.votes]

\* The loop after its first match, if that did not return.
After(a, rec, v) ==
  [units |-> 0, total |-> Weight[v], rec |-> Stored(Tally(rec, a, Weight[v]), a)]

Voted(a, rec) == <<a.tx, a.actor>> \in rec.votes

\* The loop after the matches M, in any order.
Ends(s, a, rec, M) ==
  \/ M = {} /\ s = Start(rec)
  \/ M # {} /\ a.sig # "valid" /\ s.units = 4000
  \/ M # {} /\ a.sig = "valid" /\ Voted(a, rec) /\ s.units = 5000
  \/ /\ a.sig = "valid" /\ ~Voted(a, rec)
     /\ \E v \in M : M = {v} /\ s = After(a, rec, v)
  \/ /\ M # {} /\ a.sig = "valid" /\ ~Voted(a, rec)
     /\ \A v \in M : M # {v}
     /\ s.units = 5000

\* The element of a set of one.
Only(S) == CHOOSE v \in S : S = {v}

\* What Execute returns, given the validators under the vote's key.
Result(same, a, rec, S) ==
  LET fails(units) == [ok |-> FALSE, units |-> units, rec |-> rec]
  IN  IF ~a.inWindow THEN fails(1000)
      ELSE IF a.key = Malformed THEN fails(2000)
      ELSE IF a.sig = Malformed THEN fails(2500)
      ELSE IF S = {} THEN fails(3000)
      ELSE IF ~same THEN [ok |-> TRUE, units |-> 5000, rec |-> rec]
      ELSE IF a.sig # "valid" THEN fails(4000)
      ELSE IF Voted(a, rec) \/ \A v \in S : S # {v} THEN fails(5000)
      ELSE [ok |-> TRUE, units |-> 5000, rec |-> After(a, rec, Only(S)).rec]

\* Tallying and storing a vote leaves a record, with the vote in it.
LEMMA AfterVoted ==
  ASSUME NEW a, NEW rec, IsRec(rec), NEW v
  PROVE  IsRec(After(a, rec, v).rec) /\ Voted(a, After(a, rec, v).rec)
<1> DEFINE t == Tally(rec, a, Weight[v])
<1>1. IsRec(t)
  BY DEF IsRec, Tally
<1>2. IsRec(Stored(t, a)) /\ <<a.tx, a.actor>> \in Stored(t, a).votes
  <2> HIDE DEF t
  <2> QED BY <1>1 DEF IsRec, Stored
<1> QED BY <1>2 DEF After, Voted

\* One more match.
LEMMA EndsStep ==
  ASSUME NEW a, NEW rec, IsRec(rec), NEW M \in SUBSET Validators,
         NEW v \in Validators, v \notin M, NEW s, Ends(s, a, rec, M)
  PROVE  Ends(Iterate(a, rec, s, v), a, rec, M \cup {v})
<1> DEFINE r == Iterate(a, rec, s, v)
           N == M \cup {v}
<1>1. CASE s.units # 0 /\ M # {}
  <2>1. r = s
    BY <1>1 DEF Iterate
  <2>2. N # {} /\ \A w \in N : N # {w}
    BY <1>1
  <2>3. ~ \E w \in M : M = {w} /\ s = After(a, rec, w)
    BY <1>1 DEF After
  <2> HIDE DEF N
  <2> QED BY <1>1, <2>1, <2>2, <2>3 DEF Ends, N
<1>2. CASE M = {}
  <2>1. s = Start(rec) /\ N = {v}
    BY <1>2 DEF Ends
  <2>2. s.units = 0 /\ s.total + Weight[v] = Weight[v] /\ s.rec = rec /\ ~ (Weight[v] >= Word)
    BY <2>1, OneStake DEF Start
  <2>3. CASE a.sig # "valid"
    <3>1. r = [s EXCEPT !.units = 4000]
      BY <2>2, <2>3 DEF Iterate, Return
    <3>2. r.units = 4000
      BY <2>1, <3>1 DEF Start
    <3> QED BY <2>1, <2>3, <3>2 DEF Ends
  <2>4. CASE a.sig = "valid" /\ Voted(a, rec)
    <3>1. r = [s EXCEPT !.units = 5000]
      BY <2>2, <2>4 DEF Iterate, Return, Voted
    <3>2. r.units = 5000
      BY <2>1, <3>1 DEF Start
    <3> QED BY <2>1, <2>4, <3>2 DEF Ends
  <2>5. CASE a.sig = "valid" /\ ~Voted(a, rec)
    <3>1. r = [s EXCEPT !.total = @ + Weight[v], !.rec = Stored(Tally(@, a, Weight[v]), a)]
      BY <2>2, <2>5 DEF Iterate, Voted
    <3>2. r = After(a, rec, v)
      BY <2>1, <2>2, <3>1 DEF Start, After
    <3> QED BY <2>1, <2>5, <3>2 DEF Ends
  <2> QED BY <2>3, <2>4, <2>5
<1>3. CASE s.units = 0 /\ M # {}
  <2>1. /\ a.sig = "valid" /\ ~Voted(a, rec)
        /\ \E w \in M : M = {w} /\ s = After(a, rec, w)
    BY <1>3 DEF Ends
  <2>2. PICK w \in M : M = {w} /\ s = After(a, rec, w)
    BY <2>1
  <2>3. s.total = Weight[w] /\ Voted(a, s.rec)
    BY <2>2, AfterVoted DEF After
  <2>4. ~ (s.total + Weight[v] >= Word)
    <3>1. w \in Validators /\ w # v /\ Word \in Nat
      BY <2>2, OneStake
    <3>2. Weight[w] \in Nat /\ Weight[v] \in Nat /\ Weight[w] + Weight[v] < Word
      BY <3>1, TwoStakes
    <3> QED BY <2>3, <3>1, <3>2
  <2>5. r = [s EXCEPT !.units = 5000]
    BY <1>3, <2>1, <2>3, <2>4 DEF Iterate, Return, Voted
  <2>6. r.units = 5000
    BY <2>2, <2>5 DEF After
  <2>7. N # {} /\ \A x \in N : N # {x}
    BY <2>2
  <2> QED BY <2>1, <2>6, <2>7 DEF Ends
<1> QED BY <1>1, <1>2, <1>3

\* The order of the map makes no difference to where the loop ends.
LEMMA LoopEnds ==
  ASSUME NEW a, NEW rec, IsRec(rec), NEW view \in SUBSET Validators,
         NEW order \in SetToSeqs(view)
  PROVE  Ends(Loop(a, rec, order), a, rec, {v \in view : Matching(a, v)})
<1> DEFINE n == Cardinality(view)
<1>1. IsFiniteSet(view) /\ n \in Nat
  BY StakeAssumption, FS_Subset, FS_CardinalityType
<1>2. order \in [1 .. n -> view] /\ \A i, j \in 1 .. n : i # j => order[i] # order[j]
  BY DEF SetToSeqs
<1>3. \A v \in view : \E i \in 1 .. n : order[i] = v
  <2>1. order \in Injection(1 .. n, view)
    BY <1>2 DEF Injection, IsInjective
  <2>2. Cardinality(1 .. n) = n
    BY <1>1, FS_Interval
  <2>3. order \in Surjection(1 .. n, view)
    BY <1>1, <2>1, <2>2, FS_Injection
  <2> QED BY <2>3 DEF Surjection
<1> HIDE DEF n
<1>4. PICK h : /\ h[0] = Start(rec)
               /\ \A k \in 1 .. n : h[k] = Step(a, rec, h[k - 1], order[k])
               /\ Loop(a, rec, order) = h[n]
  BY <1>1, <1>2, LoopRuns
<1> DEFINE M(k) == {v \in view : Matching(a, v) /\ \E i \in 1 .. k : order[i] = v}
           T == {k \in Nat : k <= n => Ends(h[k], a, rec, M(k))}
<1>5. 0 \in T
  <2>1. M(0) = {}
    OBVIOUS
  <2> QED BY <1>4, <2>1 DEF Ends
<1>6. ASSUME NEW k \in Nat, k \in T PROVE k + 1 \in T
  <2> SUFFICES ASSUME k + 1 <= n PROVE Ends(h[k + 1], a, rec, M(k + 1))
    OBVIOUS
  <2>1. k + 1 \in 1 .. n /\ k <= n /\ (k + 1) - 1 = k
    BY <1>1
  <2> DEFINE v == order[k + 1]
  <2>2. v \in view /\ h[k + 1] = Step(a, rec, h[k], v)
    BY <1>2, <1>4, <2>1
  <2>3. Ends(h[k], a, rec, M(k))
    BY <1>6, <2>1
  <2>4. M(k + 1) = IF Matching(a, v) THEN M(k) \cup {v} ELSE M(k)
    <3>1. \A i \in 1 .. (k + 1) : i \in 1 .. k \/ i = k + 1
      OBVIOUS
    <3>2. 1 .. k \subseteq 1 .. (k + 1)
      OBVIOUS
    <3> QED BY <2>1, <2>2, <3>1, <3>2
  <2>5. v \notin M(k)
    <3>1. \A i \in 1 .. k : i \in 1 .. n /\ i # k + 1
      BY <1>1, <2>1
    <3> QED BY <1>2, <2>1, <3>1
  <2>6. M(k) \in SUBSET Validators
    OBVIOUS
  <2> HIDE DEF M, v
  <2>7. CASE Matching(a, v)
    <3>1. Ends(Iterate(a, rec, h[k], v), a, rec, M(k) \cup {v})
      BY <2>2, <2>3, <2>5, <2>6, EndsStep
    <3> QED BY <2>2, <2>4, <2>7, <3>1 DEF Step
  <2>8. CASE ~Matching(a, v)
    BY <2>2, <2>3, <2>4, <2>8 DEF Step
  <2> QED BY <2>7, <2>8
<1>7. Ends(h[n], a, rec, M(n))
  <2>1. Nat \subseteq T
    <3> HIDE DEF T
    <3> QED BY <1>5, <1>6, NatInductionOnSet
  <2>2. n \in T
    <3> HIDE DEF T
    <3> QED BY <1>1, <2>1
  <2>3. n <= n
    BY <1>1
  <2> HIDE DEF M
  <2> QED BY <2>2, <2>3
<1>8. M(n) = {v \in view : Matching(a, v)}
  BY <1>3
<1> QED BY <1>4, <1>7, <1>8

\* What Execute returns depends on the view through the validators under the
\* vote's key, and not on the order of the map.
LEMMA ExecuteIsResult ==
  ASSUME NEW a, NEW rec, IsRec(rec), NEW view \in SUBSET Validators,
         NEW order \in SetToSeqs(view)
  PROVE  Execute(a, rec, view, order)
           = Result(interned, a, rec, {v \in view : KeyOf[v] = a.key})
<1> DEFINE S == {v \in view : KeyOf[v] = a.key}
           M == {v \in view : Matching(a, v)}
           end == Loop(a, rec, order)
           fails(units) == [ok |-> FALSE, units |-> units, rec |-> rec]
<1> SUFFICES Execute(a, rec, view, order) = Result(interned, a, rec, S)
  OBVIOUS
<1>1. Ends(end, a, rec, M)
  BY LoopEnds
<1>2. M = IF interned THEN S ELSE {}
  BY DEF Matching
<1>3. a.key \notin {KeyOf[v] : v \in view} <=> S = {}
  OBVIOUS
<1>4. Execute(a, rec, view, order) =
        IF ~a.inWindow THEN fails(1000)
        ELSE IF a.key = Malformed THEN fails(2000)
        ELSE IF a.sig = Malformed THEN fails(2500)
        ELSE IF a.key \notin {KeyOf[v] : v \in view} THEN fails(3000)
        ELSE IF end.units # 0 THEN fails(end.units)
        ELSE [ok |-> TRUE, units |-> 5000, rec |-> end.rec]
  BY Zenon DEF Execute, Loop, Start
<1> HIDE DEF S, M, end
<1>5. CASE ~interned \/ S = {}
  <2>1. M = {}
    BY <1>2, <1>5
  <2>2. end.units = 0 /\ end.rec = rec
    BY <1>1, <2>1 DEF Ends, Start
  <2> QED BY <1>3, <1>4, <1>5, <2>2 DEF Result
<1>6. CASE interned /\ S # {} /\ a.sig # "valid"
  <2>1. end.units = 4000
    BY <1>1, <1>2, <1>6 DEF Ends
  <2> QED BY <1>3, <1>4, <1>6, <2>1 DEF Result
<1>7. CASE interned /\ S # {} /\ a.sig = "valid" /\ Voted(a, rec)
  <2>1. end.units = 5000
    BY <1>1, <1>2, <1>7 DEF Ends
  <2> QED BY <1>3, <1>4, <1>7, <2>1 DEF Result
<1>8. CASE interned /\ S # {} /\ a.sig = "valid" /\ ~Voted(a, rec) /\ \A v \in S : S # {v}
  <2>1. end.units = 5000
    BY <1>1, <1>2, <1>8 DEF Ends
  <2> QED BY <1>3, <1>4, <1>8, <2>1 DEF Result
<1>9. CASE interned /\ S # {} /\ a.sig = "valid" /\ ~Voted(a, rec) /\ \E v \in S : S = {v}
  <2>1. PICK v \in S : S = {v}
    BY <1>9
  <2>2. end = After(a, rec, v)
    BY <1>1, <1>2, <1>9, <2>1 DEF Ends
  <2>3. end.units = 0
    BY <2>2 DEF After
  <2>4. Only(S) = v
    BY <2>1 DEF Only
  <2>5. ~ (Voted(a, rec) \/ \A w \in S : S # {w})
    BY <1>9
  <2> DEFINE done(v_) == [ok |-> TRUE, units |-> 5000, rec |-> After(a, rec, v_).rec]
             guarded(r) == IF ~a.inWindow THEN fails(1000)
                           ELSE IF a.key = Malformed THEN fails(2000)
                           ELSE IF a.sig = Malformed THEN fails(2500)
                           ELSE r
  <2>6. Execute(a, rec, view, order) = guarded(done(v))
    BY <1>3, <1>4, <1>9, <2>2, <2>3
  <2>7. Result(interned, a, rec, S) = guarded(done(Only(S)))
    BY <1>9, <2>5 DEF Result
  <2> QED BY <2>4, <2>6, <2>7
<1> QED BY <1>5, <1>6, <1>7, <1>8, <1>9

-----------------------------------------------------------------------------
(* A node is a replay of the chain                                         *)

\* What each node keeps, and how long its histories are.
Shape ==
  /\ votesOf \in Seq(VoteTxs)
  /\ seen \in [Nodes -> Seq(SUBSET Validators)]
  /\ DOMAIN charges = Nodes /\ DOMAIN records = Nodes
  /\ \A n \in Nodes : /\ \E C : charges[n] \in Seq(C)
                      /\ Len(charges[n]) = Len(seen[n]) /\ Len(seen[n]) <= Len(votesOf)
                      /\ IsRec(records[n])

\* What the i-th vote of the chain makes of records.
Outcome(n, i, rec) == Result(interned, votesOf[i], rec, seen[n][i])

\* R are the records of node n, from the first to those it has now.
IsReplay(R, n) ==
  /\ R[0] = EmptyRecords
  /\ \A i \in 1 .. Len(seen[n]) :
       /\ R[i] = Outcome(n, i, R[i - 1]).rec
       /\ charges[n][i] = [ok    |-> Outcome(n, i, R[i - 1]).ok,
                           units |-> Outcome(n, i, R[i - 1]).units]
  /\ records[n] = R[Len(seen[n])]

\* The invariant: every node has what replaying the chain over what it saw yields.
ReplayInv == Shape /\ \A n \in Nodes : \E R : IsReplay(R, n)

\* Executing one more vote appends to the replay.
LEMMA ExecuteReplays ==
  ASSUME ReplayInv, NEW n \in Nodes, NEW view \in SUBSET Validators, ExecuteNext(n, view)
  PROVE  ReplayInv'
<1> DEFINE k == Len(seen[n])
           a == votesOf[k + 1]
           S == {v \in view : KeyOf[v] = a.key}
           r == Result(interned, a, records[n], S)
           charge == [ok |-> r.ok, units |-> r.units]
<1>1. /\ k \in Nat /\ k < Len(votesOf) /\ Len(charges[n]) = k /\ IsRec(records[n])
      /\ seen[n] \in Seq(SUBSET Validators)
  BY DEF ReplayInv, Shape, ExecuteNext
<1>2. /\ records' = [records EXCEPT ![n] = r.rec]
      /\ charges' = [charges EXCEPT ![n] = Append(@, charge)]
      /\ seen' = [seen EXCEPT ![n] = Append(@, S)]
      /\ UNCHANGED <<interned, votesOf>>
  <2>1. PICK order \in SetToSeqs(view) :
          LET x == Execute(a, records[n], view, order)
          IN  /\ records' = [records EXCEPT ![n] = x.rec]
              /\ charges' = [charges EXCEPT ![n] = Append(@, [ok |-> x.ok, units |-> x.units])]
              /\ seen' = [seen EXCEPT ![n] = Append(@, S)]
    BY <1>1 DEF ExecuteNext
  <2>2. Execute(a, records[n], view, order) = r
    BY <1>1, ExecuteIsResult
  <2> HIDE DEF r, a, S
  <2> QED BY <2>1, <2>2 DEF ExecuteNext
<1>3. IsRec(r.rec)
  BY <1>1, AfterVoted DEF Result
<1>4. S \in SUBSET Validators
  OBVIOUS
<1> HIDE DEF r, S, charge
<1>5. /\ \A m \in Nodes \ {n} : /\ records'[m] = records[m] /\ charges'[m] = charges[m]
                                /\ seen'[m] = seen[m]
      /\ records'[n] = r.rec /\ charges'[n] = Append(charges[n], charge)
      /\ seen'[n] = Append(seen[n], S)
  BY <1>2 DEF ReplayInv, Shape
<1>6. /\ Len(seen'[n]) = k + 1 /\ seen'[n] \in Seq(SUBSET Validators)
      /\ seen'[n][k + 1] = S /\ \A i \in 1 .. k : seen'[n][i] = seen[n][i]
  BY <1>1, <1>4, <1>5
<1>7. PICK C : charges[n] \in Seq(C)
  BY DEF ReplayInv, Shape
<1>8. /\ charges'[n] \in Seq(C \cup {charge}) /\ Len(charges'[n]) = k + 1
      /\ charges'[n][k + 1] = charge /\ \A i \in 1 .. k : charges'[n][i] = charges[n][i]
  <2>1. charges[n] \in Seq(C \cup {charge})
    BY <1>7
  <2> QED BY <1>1, <1>5, <2>1
<1>9. Shape'
  <2>1. seen' \in [Nodes -> Seq(SUBSET Validators)]
    BY <1>2, <1>5, <1>6 DEF ReplayInv, Shape
  <2>2. DOMAIN charges' = Nodes /\ DOMAIN records' = Nodes
    BY <1>2 DEF ReplayInv, Shape
  <2>3. ASSUME NEW m \in Nodes
        PROVE  /\ \E D : charges'[m] \in Seq(D)
               /\ Len(charges'[m]) = Len(seen'[m]) /\ Len(seen'[m]) <= Len(votesOf)
               /\ IsRec(records'[m])
    <3>1. CASE m = n
      <4>1. k + 1 <= Len(votesOf)
        <5>1. Len(votesOf) \in Nat
          BY DEF ReplayInv, Shape
        <5> QED BY <1>1, <5>1
      <4> QED BY <1>3, <1>5, <1>6, <1>8, <3>1, <4>1
    <3>2. CASE m # n
      BY <1>5, <3>2 DEF ReplayInv, Shape
    <3> QED BY <3>1, <3>2
  <2>4. \A m \in Nodes : IsRec(records[m])' <=> IsRec(records'[m])
    BY DEF IsRec
  <2> QED BY <1>2, <2>1, <2>2, <2>3, <2>4 DEF ReplayInv, Shape
<1>10. ASSUME NEW m \in Nodes PROVE \E R : IsReplay(R, m)'
  <2>1. PICK R : IsReplay(R, m)
    BY DEF ReplayInv
  <2>2. CASE m # n
    <3>1. IsReplay(R, m)'
      BY <1>2, <1>5, <2>1, <2>2 DEF IsReplay, Outcome
    <3> QED BY <3>1
  <2>3. CASE m = n
    <3>1. PICK Q : (\A i \in 0 .. k : Q[i] = R[i]) /\ Q[k + 1] = r.rec
      <4> DEFINE Q == [i \in 0 .. k + 1 |-> IF i <= k THEN R[i] ELSE r.rec]
      <4>1. (\A i \in 0 .. k : Q[i] = R[i]) /\ Q[k + 1] = r.rec
        BY <1>1
      <4> HIDE DEF Q
      <4> QED BY <4>1
    <3> DEFINE x(i) == Result(interned, votesOf[i], Q[i - 1], seen'[n][i])
    <3>2. Q[0] = EmptyRecords /\ records[n] = R[k]
      BY <1>1, <2>1, <2>3, <3>1 DEF IsReplay
    <3>3. ASSUME NEW i \in 1 .. k + 1
          PROVE  Q[i] = x(i).rec /\ charges'[n][i] = [ok |-> x(i).ok, units |-> x(i).units]
      <4>1. CASE i = k + 1
        <5>1. i - 1 = k /\ Q[k] = records[n]
          BY <1>1, <3>1, <3>2, <4>1
        <5>2. x(i) = r
          BY <1>6, <4>1, <5>1 DEF r
        <5> QED BY <1>8, <3>1, <4>1, <5>2 DEF charge
      <4>2. CASE i \in 1 .. k
        <5>1. i - 1 \in 0 .. k /\ i \in 0 .. k
          BY <1>1, <4>2
        <5>2. Q[i] = R[i] /\ Q[i - 1] = R[i - 1] /\ seen'[n][i] = seen[n][i]
              /\ charges'[n][i] = charges[n][i]
          BY <1>6, <1>8, <3>1, <4>2, <5>1
        <5>3. /\ R[i] = Outcome(n, i, R[i - 1]).rec
              /\ charges[n][i] = [ok    |-> Outcome(n, i, R[i - 1]).ok,
                                  units |-> Outcome(n, i, R[i - 1]).units]
          BY <2>1, <2>3, <4>2 DEF IsReplay
        <5>4. x(i) = Outcome(n, i, R[i - 1])
          BY <5>2 DEF Outcome
        <5> HIDE DEF x
        <5> QED BY <5>2, <5>3, <5>4
      <4>3. i = k + 1 \/ i \in 1 .. k
        BY <1>1
      <4> HIDE DEF x, k
      <4> QED BY <4>1, <4>2, <4>3
    <3>4. IsReplay(Q, n)'
      <4>1. records'[n] = Q[Len(seen'[n])]
        BY <1>5, <1>6, <3>1
      <4>2. interned' = interned /\ votesOf' = votesOf
        BY <1>2
      <4>3. \A i \in 1 .. k + 1 :
              Outcome(n, i, Q[i - 1])' = x(i)
        BY <4>2 DEF Outcome
      <4>4. \A i \in 1 .. k + 1 :
              /\ Q[i] = Outcome(n, i, Q[i - 1])'.rec
              /\ charges'[n][i] = [ok    |-> Outcome(n, i, Q[i - 1])'.ok,
                                   units |-> Outcome(n, i, Q[i - 1])'.units]
        BY <3>3, <4>3
      <4> QED BY <1>6, <3>2, <4>1, <4>4 DEF IsReplay
    <3> QED BY <2>3, <3>4
  <2> QED BY <2>2, <2>3
<1> QED BY <1>9, <1>10 DEF ReplayInv

\* Ordering a vote, starting a node again, and executing keep the invariant.
LEMMA ReplayStep == ReplayInv /\ [Next]_vars => ReplayInv'
<1> SUFFICES ASSUME ReplayInv, [Next]_vars PROVE ReplayInv'
  OBVIOUS
<1>1. ASSUME NEW a \in VoteTxs, Order(a) PROVE ReplayInv'
  <2>1. /\ votesOf' = Append(votesOf, a) /\ UNCHANGED <<interned, records, charges, seen>>
        /\ votesOf \in Seq(VoteTxs)
    BY <1>1 DEF Order, ReplayInv, Shape
  <2>2. /\ votesOf' \in Seq(VoteTxs) /\ Len(votesOf') = Len(votesOf) + 1
        /\ \A i \in 1 .. Len(votesOf) : votesOf'[i] = votesOf[i]
        /\ Len(votesOf) \in Nat
    BY <2>1
  <2>3. \A n \in Nodes : Len(seen[n]) \in Nat /\ Len(seen[n]) <= Len(votesOf)
    BY DEF ReplayInv, Shape
  <2>4. Shape'
    BY <2>1, <2>2, <2>3 DEF ReplayInv, Shape, IsRec
  <2>5. ASSUME NEW n \in Nodes PROVE \E R : IsReplay(R, n)'
    <3>1. PICK R : IsReplay(R, n)
      BY DEF ReplayInv
    <3>2. \A i \in 1 .. Len(seen[n]) : votesOf'[i] = votesOf[i]
      BY <2>2, <2>3
    <3>3. IsReplay(R, n)'
      BY <2>1, <3>1, <3>2 DEF IsReplay, Outcome
    <3> QED BY <3>3
  <2> QED BY <2>4, <2>5 DEF ReplayInv
<1>2. ASSUME NEW n \in Nodes, Resync(n) PROVE ReplayInv'
  <2>1. /\ \A m \in Nodes \ {n} : /\ records'[m] = records[m] /\ charges'[m] = charges[m]
                                  /\ seen'[m] = seen[m]
        /\ records'[n] = EmptyRecords /\ charges'[n] = <<>> /\ seen'[n] = <<>>
        /\ DOMAIN records' = Nodes /\ DOMAIN charges' = Nodes
        /\ seen' \in [Nodes -> Seq(SUBSET Validators)]
        /\ UNCHANGED <<interned, votesOf>>
    BY <1>2 DEF Resync, ReplayInv, Shape
  <2>2. IsRec(EmptyRecords) /\ Len(<<>>) = 0 /\ Len(votesOf) \in Nat
    BY DEF IsRec, EmptyRecords, ReplayInv, Shape
  <2>3. Shape'
    <3>1. ASSUME NEW m \in Nodes
          PROVE  /\ \E D : charges'[m] \in Seq(D)
                 /\ Len(charges'[m]) = Len(seen'[m]) /\ Len(seen'[m]) <= Len(votesOf)
                 /\ IsRec(records'[m])
      <4>1. CASE m = n
        <5>1. charges'[m] \in Seq({})
          BY <2>1, <4>1
        <5> QED BY <2>1, <2>2, <4>1, <5>1
      <4>2. CASE m # n
        BY <2>1, <4>2 DEF ReplayInv, Shape
      <4> QED BY <4>1, <4>2
    <3>2. \A m \in Nodes : IsRec(records[m])' <=> IsRec(records'[m])
      BY DEF IsRec
    <3> QED BY <2>1, <3>1, <3>2 DEF ReplayInv, Shape
  <2>4. ASSUME NEW m \in Nodes PROVE \E R : IsReplay(R, m)'
    <3>1. CASE m = n
      <4> DEFINE R == [i \in {0} |-> EmptyRecords]
      <4>1. R[0] = EmptyRecords /\ 1 .. 0 = {}
        OBVIOUS
      <4> HIDE DEF R
      <4>2. IsReplay(R, m)'
        BY <2>1, <2>2, <3>1, <4>1 DEF IsReplay
      <4> QED BY <4>2
    <3>2. CASE m # n
      <4>1. PICK R : IsReplay(R, m)
        BY DEF ReplayInv
      <4>2. IsReplay(R, m)'
        BY <2>1, <3>2, <4>1 DEF IsReplay, Outcome
      <4> QED BY <4>2
    <3> QED BY <3>1, <3>2
  <2> QED BY <2>3, <2>4 DEF ReplayInv
<1>3. CASE UNCHANGED vars
  <2>1. UNCHANGED <<interned, votesOf, records, charges, seen>>
    BY <1>3 DEF vars
  <2>2. Shape'
    BY <2>1 DEF ReplayInv, Shape, IsRec
  <2>3. ASSUME NEW n \in Nodes PROVE \E R : IsReplay(R, n)'
    <3>1. PICK R : IsReplay(R, n)
      BY DEF ReplayInv
    <3>2. IsReplay(R, n)'
      BY <2>1, <3>1 DEF IsReplay, Outcome
    <3> QED BY <3>2
  <2> QED BY <2>2, <2>3 DEF ReplayInv
<1> QED BY <1>1, <1>2, <1>3, ExecuteReplays DEF Next

\* Every node is a replay of the chain over what it saw.
THEOREM ReplicasReplay == Spec => []ReplayInv
<1>1. Init => ReplayInv
  <2> SUFFICES ASSUME Init PROVE ReplayInv
    OBVIOUS
  <2>1. Shape
    <3>1. <<>> \in Seq(VoteTxs) /\ <<>> \in Seq(SUBSET Validators) /\ <<>> \in Seq({})
          /\ Len(<<>>) = 0
      OBVIOUS
    <3>2. ASSUME NEW n \in Nodes
          PROVE  /\ \E C : charges[n] \in Seq(C)
                 /\ Len(charges[n]) = Len(seen[n]) /\ Len(seen[n]) <= Len(votesOf)
                 /\ IsRec(records[n])
      <4>1. charges[n] = <<>> /\ seen[n] = <<>> /\ votesOf = <<>> /\ records[n] = EmptyRecords
        BY DEF Init
      <4>2. IsRec(EmptyRecords)
        BY DEF IsRec, EmptyRecords
      <4> QED BY <3>1, <4>1, <4>2
    <3>3. /\ votesOf \in Seq(VoteTxs) /\ seen \in [Nodes -> Seq(SUBSET Validators)]
          /\ DOMAIN charges = Nodes /\ DOMAIN records = Nodes
      BY <3>1 DEF Init
    <3> QED BY <3>2, <3>3 DEF Shape
  <2>2. ASSUME NEW n \in Nodes PROVE \E R : IsReplay(R, n)
    <3> DEFINE R == [i \in {0} |-> EmptyRecords]
    <3>1. R[0] = EmptyRecords /\ 1 .. 0 = {} /\ Len(<<>>) = 0
      OBVIOUS
    <3> HIDE DEF R
    <3>2. IsReplay(R, n)
      BY <3>1 DEF Init, IsReplay
    <3> QED BY <3>2
  <2> QED BY <2>1, <2>2 DEF ReplayInv
<1> QED BY <1>1, ReplayStep, PTL DEF Spec

\* Two replays of the chain over the same sightings are the same.
LEMMA ReplaysAgree ==
  ASSUME NEW m \in Nodes, NEW n \in Nodes, Shape, seen[m] = seen[n],
         NEW P, IsReplay(P, m), NEW Q, IsReplay(Q, n)
  PROVE  \A i \in 0 .. Len(seen[m]) : P[i] = Q[i]
<1> DEFINE k == Len(seen[m])
           T == {i \in Nat : i <= k => P[i] = Q[i]}
<1>1. k \in Nat
  BY DEF Shape
<1>2. 0 \in T
  BY DEF IsReplay
<1>3. ASSUME NEW i \in Nat, i \in T PROVE i + 1 \in T
  <2> SUFFICES ASSUME i + 1 <= k PROVE P[i + 1] = Q[i + 1]
    OBVIOUS
  <2>1. i + 1 \in 1 .. k /\ (i + 1) - 1 = i /\ P[i] = Q[i]
    BY <1>1, <1>3
  <2>2. P[i + 1] = Outcome(m, i + 1, P[i]).rec /\ Q[i + 1] = Outcome(n, i + 1, Q[i]).rec
    BY <2>1 DEF IsReplay
  <2> QED BY <2>1, <2>2 DEF Outcome
<1>4. Nat \subseteq T
  <2> HIDE DEF T
  <2> QED BY <1>2, <1>3, NatInductionOnSet
<1> QED BY <1>1, <1>4

\* Nodes whose views had the same validators under the keys of the votes agree on
\* every record and every charge: the order in which Go iterates over the map, and
\* all the other validators, make no difference.
THEOREM Agreement == Spec => []AgreeWhereViewsAgree
<1>1. ReplayInv => AgreeWhereViewsAgree
  <2> SUFFICES ASSUME ReplayInv, NEW m \in Nodes, NEW n \in Nodes, seen[m] = seen[n]
               PROVE  records[m] = records[n] /\ charges[m] = charges[n]
    BY DEF AgreeWhereViewsAgree
  <2> DEFINE k == Len(seen[m])
  <2>1. PICK P : IsReplay(P, m)
    BY DEF ReplayInv
  <2>2. PICK Q : IsReplay(Q, n)
    BY DEF ReplayInv
  <2>3. Shape /\ k \in Nat
    BY DEF ReplayInv, Shape
  <2>4. \A i \in 0 .. k : P[i] = Q[i]
    BY <2>1, <2>2, <2>3, ReplaysAgree
  <2>5. records[m] = records[n]
    BY <2>1, <2>2, <2>3, <2>4 DEF IsReplay
  <2>6. \A i \in 1 .. k : charges[m][i] = charges[n][i]
    <3> SUFFICES ASSUME NEW i \in 1 .. k PROVE charges[m][i] = charges[n][i]
      OBVIOUS
    <3>1. P[i - 1] = Q[i - 1]
      BY <2>3, <2>4
    <3> QED BY <2>1, <2>2, <3>1 DEF IsReplay, Outcome
  <2>7. /\ \E C : charges[m] \in Seq(C)
        /\ \E C : charges[n] \in Seq(C)
        /\ Len(charges[m]) = k /\ Len(charges[n]) = k
    BY DEF ReplayInv, Shape
  <2>8. charges[m] = charges[n]
    <3> HIDE DEF k
    <3> QED BY <2>6, <2>7
  <2> QED BY <2>5, <2>8
<1> QED BY <1>1, ReplicasReplay, PTL

\* As built, where keys are pointers of their own, no vote changes a record at any
\* node, whatever the views: nodes can disagree about a charge only.
THEOREM BuiltAgreement == Spec => []BuiltDisagreesOnlyOnCharges
<1> DEFINE Empty == ~interned => \A n \in Nodes : records[n] = EmptyRecords
<1>1. Init => Empty
  BY DEF Init
<1>2. ReplayInv /\ Empty /\ [Next]_vars => Empty'
  <2> SUFFICES ASSUME ReplayInv, Empty, [Next]_vars, ~interned'
               PROVE  \A n \in Nodes : records'[n] = EmptyRecords
    OBVIOUS
  <2>1. interned' = interned
    BY DEF Next, Order, ExecuteNext, Resync, vars
  <2>2. DOMAIN records = Nodes /\ \A n \in Nodes : records[n] = EmptyRecords /\ IsRec(records[n])
    BY <2>1 DEF ReplayInv, Shape
  <2>3. ASSUME NEW n \in Nodes, NEW view \in SUBSET Validators, ExecuteNext(n, view)
        PROVE  \A m \in Nodes : records'[m] = EmptyRecords
    <3> DEFINE a == votesOf[Len(charges[n]) + 1]
    <3>1. PICK order \in SetToSeqs(view) :
            records' = [records EXCEPT ![n] = Execute(a, records[n], view, order).rec]
      BY <2>3 DEF ExecuteNext
    <3>2. Execute(a, records[n], view, order)
            = Result(interned, a, records[n], {v \in view : KeyOf[v] = a.key})
      BY <2>2, ExecuteIsResult
    <3>3. Result(interned, a, records[n], {v \in view : KeyOf[v] = a.key}).rec = records[n]
      BY <2>1 DEF Result
    <3> QED BY <2>2, <3>1, <3>2, <3>3
  <2>4. ASSUME NEW n \in Nodes, Resync(n)
        PROVE  \A m \in Nodes : records'[m] = EmptyRecords
    BY <2>2, <2>4 DEF Resync
  <2>5. ASSUME UNCHANGED records
        PROVE  \A m \in Nodes : records'[m] = EmptyRecords
    BY <2>2, <2>5
  <2> QED BY <2>3, <2>4, <2>5 DEF Next, Order, vars
<1>3. Spec => []Empty
  BY <1>1, <1>2, ReplicasReplay, PTL DEF Spec
<1>4. Empty => BuiltDisagreesOnlyOnCharges
  BY DEF BuiltDisagreesOnlyOnCharges
<1> QED BY <1>3, <1>4, PTL
=============================================================================
