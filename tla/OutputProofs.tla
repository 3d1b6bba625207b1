---------------------------- MODULE OutputProofs ----------------------------
(***************************************************************************)
(* Proofs about what is generated.  First the draw, for any logits, top_k  *)
(* and weights: what is drawn is among the top_k, and in proportion to its *)
(* weight.  Then the bytes, for any texts and tokens: a text that was      *)
(* encoded is written back, and a token of plain ASCII as it stands.       *)
(***************************************************************************)
EXTENDS Output, SequenceLemmas

\* compare_candidates orders the ids: none is before itself, and no two are before each other.
LEMMA BeforeOrders ==
  ASSUME logits \in Seq(Int), NEW m \in 1 .. Len(logits), NEW n \in 1 .. Len(logits)
  PROVE  /\ ~Before(m, m)
         /\ Before(m, n) => ~Before(n, m) /\ logits[m] >= logits[n]
<1>1. logits[m] \in Int /\ logits[n] \in Int /\ m \in Int /\ n \in Int
  BY ElementOfSeq
<1> DEFINE a == logits[m]
           b == logits[n]
<1>2. a \in Int /\ b \in Int
  BY <1>1
<1> HIDE DEF a, b
<1>3. /\ ~(a > a \/ (a = a /\ m < m))
      /\ (a > b \/ (a = b /\ m < n)) => ~(b > a \/ (b = a /\ n < m)) /\ a >= b
  BY <1>1, <1>2
<1> QED
  BY <1>3 DEF Before, a, b

\* The ids, sorted, are all of them, each once, and each has those behind which it comes
\* before it.
Place(s, k) == {s[j] : j \in 1 .. k}

\* What qsort leaves: the ids before the one at k are those at the places before it, and
\* the first has the largest logit.
LEMMA SortedIs ==
  ASSUME logits \in Seq(Int), NEW s \in [1 .. Len(logits) -> 1 .. Len(logits)], Sorted(s),
         NEW k \in 1 .. Len(logits)
  PROVE  /\ {m \in 1 .. Len(logits) : Before(m, s[k])} = Place(s, k - 1)
         /\ Cardinality(Place(s, k - 1)) = k - 1
         /\ s[k] \notin Place(s, k - 1) /\ Place(s, k - 1) \in SUBSET (1 .. Len(logits))
         /\ Place(s, k) \in SUBSET (1 .. Len(logits)) /\ Place(s, k) \ {s[k]} = Place(s, k - 1)
         /\ s[k] \in Place(s, k)
         /\ \A m \in 1 .. Len(logits) : logits[s[1]] >= logits[m]
         /\ \A i1, i2 \in 1 .. Len(logits) : s[i1] = s[i2] => i1 = i2
<1> DEFINE n == Len(logits)
           I == 1 .. n
<1>1. n \in Nat /\ s \in [I -> I] /\ k \in I /\ \A j \in 1 .. k : j \in I
  OBVIOUS
<1>2. \A i1, j \in I : i1 < j => Before(s[i1], s[j])
  BY DEF Sorted
<1>3. \A i1, j \in I : /\ ~Before(i1, i1)
                       /\ Before(i1, j) => ~Before(j, i1) /\ logits[i1] >= logits[j]
  BY BeforeOrders
<1> HIDE DEF n, I
<1>4. \A i1, j \in I : Before(s[i1], s[j]) <=> i1 < j
  <2> SUFFICES ASSUME NEW i1 \in I, NEW j \in I, ~(i1 < j) PROVE ~Before(s[i1], s[j])
    BY <1>2
  <2>1. i1 \in Int /\ j \in Int
    BY DEF I
  <2>2. i1 = j \/ j < i1
    BY <2>1
  <2>3. s[i1] \in I /\ s[j] \in I
    BY <1>1
  <2> QED
    BY <1>2, <1>3, <2>2, <2>3
<1>5. \A i1, j \in I : s[i1] = s[j] => i1 = j
  <2> SUFFICES ASSUME NEW i1 \in I, NEW j \in I, s[i1] = s[j], i1 # j PROVE FALSE
    OBVIOUS
  <2>1. i1 \in Int /\ j \in Int
    BY DEF I
  <2>2. i1 < j \/ j < i1
    BY <2>1
  <2>3. s[i1] \in I
    BY <1>1
  <2> QED
    BY <1>2, <1>3, <2>2, <2>3
<1>6. \A m \in I : \E j \in I : m = s[j]
  <2>1. s \in Injection(I, I)
    BY <1>1, <1>5 DEF Injection, IsInjective
  <2>2. IsFiniteSet(I)
    BY <1>1, FS_Interval DEF I
  <2>3. s \in Surjection(I, I)
    BY <2>1, <2>2, FS_Injection
  <2> QED
    BY <2>3 DEF Surjection
<1>7. {m \in I : Before(m, s[k])} = Place(s, k - 1)
  <2>1. ASSUME NEW m \in I, Before(m, s[k]) PROVE m \in Place(s, k - 1)
    <3>1. PICK j \in I : m = s[j]
      BY <1>6
    <3>2. j < k
      BY <1>1, <1>4, <2>1, <3>1
    <3>3. j \in 1 .. k - 1
      BY <1>1, <3>2 DEF I
    <3> QED
      BY <3>1, <3>3 DEF Place
  <2>2. ASSUME NEW m \in Place(s, k - 1) PROVE m \in I /\ Before(m, s[k])
    <3>1. PICK j \in 1 .. k - 1 : m = s[j]
      BY DEF Place
    <3>2. j \in I /\ j < k
      BY <1>1 DEF I
    <3> QED
      BY <1>1, <1>4, <3>1, <3>2
  <2> QED
    BY <2>1, <2>2
<1>8. Cardinality(Place(s, k - 1)) = k - 1
  <2> DEFINE f == [j \in 1 .. k - 1 |-> s[j]]
             P == Place(s, k - 1)
  <2>1. k - 1 \in Nat /\ \A j \in 1 .. k - 1 : j \in I
    BY <1>1 DEF I
  <2>2. f \in [1 .. k - 1 -> P] /\ \A m \in P : \E j \in 1 .. k - 1 : f[j] = m
    BY DEF Place
  <2>3. \A i1, j \in 1 .. k - 1 : f[i1] = f[j] => i1 = j
    BY <1>5, <2>1
  <2> HIDE DEF f, P
  <2>4. f \in Bijection(1 .. k - 1, P)
    BY <2>2, <2>3 DEF Bijection, Injection, Surjection, IsInjective
  <2>5. Cardinality(P) = k - 1
    BY <2>1, <2>4, FS_CountingElements DEF ExistsBijection
  <2> QED
    BY <2>5 DEF P
<1>9. s[k] \notin Place(s, k - 1)
  BY <1>1, <1>3, <1>7
<1>10. Place(s, k - 1) \in SUBSET I /\ Place(s, k) \in SUBSET I
  BY <1>1, <1>7 DEF Place
<1>11. Place(s, k) \ {s[k]} = Place(s, k - 1) /\ s[k] \in Place(s, k)
  <2>1. /\ \A j \in 1 .. k : j = k \/ j \in 1 .. k - 1
        /\ \A j \in 1 .. k - 1 : j \in 1 .. k
        /\ k \in 1 .. k
    BY <1>1 DEF I
  <2>2. Place(s, k) = Place(s, k - 1) \cup {s[k]}
    BY <2>1 DEF Place
  <2> QED
    BY <1>9, <2>2
<1>12. ASSUME NEW m \in I PROVE logits[s[1]] >= logits[m]
  <2>1. PICK j \in I : m = s[j]
    BY <1>6
  <2>2. 1 \in I /\ (j = 1 \/ 1 < j)
    BY <1>1 DEF I
  <2>3. s[1] \in I /\ s[j] \in I
    BY <1>1, <2>2
  <2>4. logits[m] \in Int
    BY ElementOfSeq DEF I, n
  <2>5. CASE j = 1
    BY <2>1, <2>4, <2>5
  <2>6. CASE 1 < j
    BY <1>2, <1>3, <2>1, <2>2, <2>3, <2>6
  <2> QED
    BY <2>2, <2>5, <2>6
<1> QED
  BY <1>5, <1>7, <1>8, <1>9, <1>10, <1>11, <1>12 DEF I, n
-----------------------------------------------------------------------------
\* The weight of each id, where all logits are finite.
Weights == [m \in 1 .. Len(logits) |-> Weight[logits[candidates[1]] - logits[m]]]

\* The inductive invariant.  The arguments are what they were.
ArgsInv == /\ logits \in LogitRows /\ logits \in Seq(Int) /\ top_k \in Nat
           /\ temperature \in Temperatures

\* Greedy: best is the lowest of the largest logits so far.
GreedyInv ==
  pc = "greedy" \/ (pc = "done" /\ temperature = "zero") =>
    /\ temperature = "zero" /\ i \in 1 .. Len(logits) + 1 /\ best \in 1 .. Len(logits)
    /\ best <= i
    /\ \A m \in 1 .. i - 1 : /\ logits[m] <= logits[best]
                             /\ m < best => logits[m] < logits[best]
    /\ pc = "done" => token_id = best /\ i = Len(logits) + 1

\* Collecting: all logits so far are finite.
CollectInv ==
  pc = "collect" => /\ i \in 1 .. Len(logits) + 1 /\ Len(logits) > 0
                    /\ \A m \in 1 .. i - 1 : Finite(m)

\* From the draw on: all logits are finite, and the candidates sorted.
SortedInv ==
  pc \in {"draw", "walk"} \/ (pc = "done" /\ temperature = "positive") =>
    /\ Len(logits) > 0 /\ \A m \in 1 .. Len(logits) : Finite(m)
    /\ candidates \in [1 .. Len(logits) -> 1 .. Len(logits)] /\ Sorted(candidates)

\* t is left of the number that was drawn after the first k.
Left(t, k) ==
  \A f : Sums(Len(logits), Weights, f) => t = draws[1] - f[Place(candidates, k)]

\* Walking: target is what is left of the number after the candidates passed, and
\* not negative before the one that takes it.
WalkInv ==
  pc = "walk" \/ (pc = "done" /\ temperature = "positive") =>
    /\ i \in 1 .. Retained + 1 /\ draws[1] \in 0 .. Total
    /\ pc = "walk" => Left(target, i - 1) /\ target \in Nat
    /\ pc = "done" /\ i <= Retained =>
         /\ token_id = candidates[i] /\ Left(target, i)
         /\ target \in Int /\ target < 0 /\ target + WeightOf(i) >= 0
    /\ pc = "done" /\ i > Retained =>
         token_id = candidates[Retained] /\ Left(target, Retained) /\ target \in Nat

\* All of it, and where each variable is still as at the start.
SamplerInv ==
  /\ ArgsInv /\ GreedyInv /\ CollectInv /\ SortedInv /\ WalkInv
  /\ pc \in {"collect", "draw", "walk"} => temperature = "positive"
  /\ pc \in {"check", "greedy", "collect", "draw"} => draws = << >>
  /\ pc \in {"check", "greedy"} => i \in 1 .. Len(logits) + 1
  /\ pc = "check" => i = 1 /\ best = 1
  /\ pc \in {"check", "greedy", "collect", "draw", "walk", "done", "refused"}
  /\ pc = "done" => temperature # "invalid"

\* At least one is kept, and no more than top_k.
LEMMA RetainedIs ==
  ASSUME ArgsInv, Len(logits) > 0
  PROVE  Retained \in 1 .. Len(logits) /\ (top_k # 0 => Retained <= top_k)
<1>1. Len(logits) \in Nat /\ top_k \in Nat
  BY DEF ArgsInv
<1> QED
  BY <1>1 DEF Retained

\* A weight is a whole number, and there are sums of them.
LEMMA WeightsTyped ==
  ASSUME WeightAssumption, ArgsInv, Len(logits) > 0, \A m \in 1 .. Len(logits) : Finite(m),
         candidates \in [1 .. Len(logits) -> 1 .. Len(logits)], Sorted(candidates)
  PROVE  /\ Weights \in [1 .. Len(logits) -> Nat] /\ Weights \in [1 .. Len(logits) -> Int]
         /\ \A k \in 1 .. Len(logits) : WeightOf(k) = Weights[candidates[k]] /\ WeightOf(k) \in Nat
         /\ \E f : Sums(Len(logits), Weights, f)
<1>1. Len(logits) \in Nat /\ 1 \in 1 .. Len(logits) /\ logits \in Seq(Int) /\ logits \in LogitRows
  BY DEF ArgsInv
<1>2. ASSUME NEW m \in 1 .. Len(logits)
      PROVE  Weight[logits[candidates[1]] - logits[m]] \in Nat
  <2>1. logits[candidates[1]] >= logits[m]
    BY <1>1, SortedIs
  <2>2. candidates[1] \in 1 .. Len(logits)
    BY <1>1
  <2>3. NaN \notin {logits[candidates[1]], logits[m]}
    BY <2>2 DEF Finite
  <2>4. logits[candidates[1]] - logits[m] \in DOMAIN Weight
    BY <1>1, <2>1, <2>2, <2>3 DEF WeightAssumption
  <2> QED
    BY <2>4 DEF WeightAssumption
<1>3. Weights \in [1 .. Len(logits) -> Nat]
  BY <1>2 DEF Weights
<1>4. Weights \in [1 .. Len(logits) -> Int]
  BY <1>3
<1>5. ASSUME NEW k \in 1 .. Len(logits)
      PROVE  WeightOf(k) = Weights[candidates[k]] /\ WeightOf(k) \in Nat
  BY <1>2 DEF WeightOf, Weights
<1>6. \E f : Sums(Len(logits), Weights, f)
  BY <1>1, <1>4, SumExists
<1> QED
  BY <1>3, <1>4, <1>5, <1>6

\* The sum over all that are kept is the sum of their weights by id.
LEMMA TotalIs ==
  ASSUME WeightAssumption, ArgsInv, Len(logits) > 0, \A m \in 1 .. Len(logits) : Finite(m),
         candidates \in [1 .. Len(logits) -> 1 .. Len(logits)], Sorted(candidates),
         NEW f, Sums(Len(logits), Weights, f)
  PROVE  Total = f[Place(candidates, Retained)]
<1> DEFINE n == Len(logits)
           R == Retained
           u == [k \in 1 .. n |-> Weights[candidates[k]]]
           Ids(S) == {candidates[j] : j \in S}
           h == [S \in SUBSET (1 .. n) |-> f[Ids(S)]]
           Iter(c) == c = [S \in SUBSET (1 .. R) |->
                             IF S = {} THEN 0
                             ELSE WeightOf(CHOOSE x \in S : TRUE) + c[S \ {CHOOSE x \in S : TRUE}]]
           c == CHOOSE e : Iter(e)
<1>1. n \in Nat /\ R \in 1 .. n /\ logits \in Seq(Int)
  BY RetainedIs DEF ArgsInv
<1>2. \A k \in 1 .. n : WeightOf(k) = u[k]
  BY WeightsTyped
<1>3. \A i1, i2 \in 1 .. n : candidates[i1] = candidates[i2] => i1 = i2
  <2>1. 1 \in 1 .. n
    BY <1>1
  <2> QED
    BY <1>1, <2>1, SortedIs
<1>4. Sums(n, u, h)
  <2>1. /\ f \in [SUBSET (1 .. n) -> Int] /\ f[{}] = 0
        /\ \A S \in SUBSET (1 .. n) : \A x \in S : f[S] = Weights[x] + f[S \ {x}]
    BY DEF Sums
  <2>2. \A S \in SUBSET (1 .. n) : Ids(S) \in SUBSET (1 .. n)
    OBVIOUS
  <2>3. h \in [SUBSET (1 .. n) -> Int]
    BY <2>1, <2>2
  <2>4. Ids({}) = {}
    OBVIOUS
  <2>5. ASSUME NEW S \in SUBSET (1 .. n), NEW x \in S PROVE h[S] = u[x] + h[S \ {x}]
    <3>1. candidates[x] \in Ids(S) /\ x \in 1 .. n /\ S \ {x} \in SUBSET (1 .. n)
      OBVIOUS
    <3>2. Ids(S) \ {candidates[x]} = Ids(S \ {x})
      BY <1>3
    <3>3. h[S] = f[Ids(S)] /\ h[S \ {x}] = f[Ids(S \ {x})] /\ u[x] = Weights[candidates[x]]
      BY <3>1
    <3>4. f[Ids(S)] = Weights[candidates[x]] + f[Ids(S) \ {candidates[x]}]
      <4> HIDE DEF Ids
      <4> QED
        BY <2>1, <2>2, <3>1
    <3> QED
      BY <3>2, <3>3, <3>4
  <2>6. h[{}] = 0
    BY <2>1, <2>4
  <2> HIDE DEF h, u
  <2> QED
    BY <2>3, <2>5, <2>6 DEF Sums
<1> HIDE DEF n, u, h, R
<1>5. \A S \in SUBSET (1 .. R) : S \in SUBSET (1 .. n) /\ (S # {} => (CHOOSE x \in S : TRUE) \in S)
  BY <1>1
<1>6. \E e : Iter(e)
  <2> DEFINE e == [S \in SUBSET (1 .. R) |-> h[S]]
  <2>1. ASSUME NEW S \in SUBSET (1 .. R)
        PROVE  h[S] = IF S = {} THEN 0
                      ELSE WeightOf(CHOOSE x \in S : TRUE) + e[S \ {CHOOSE x \in S : TRUE}]
    <3>1. CASE S = {}
      BY <1>4, <3>1 DEF Sums
    <3>2. CASE S # {}
      <4> DEFINE x == CHOOSE y \in S : TRUE
      <4>1. x \in S /\ S \in SUBSET (1 .. n) /\ x \in 1 .. n
        BY <1>5, <3>2
      <4>2. e[S \ {x}] = h[S \ {x}]
        OBVIOUS
      <4> HIDE DEF x, e
      <4>3. h[S] = WeightOf(x) + e[S \ {x}]
        BY <1>2, <1>4, <4>1, <4>2 DEF Sums
      <4> QED
        BY <3>2, <4>3 DEF x
    <3> QED
      BY <3>1, <3>2
  <2>2. Iter(e)
    BY <2>1
  <2> QED
    BY <2>2
<1>7. Iter(c)
  BY <1>6
<1> HIDE DEF c
<1>8. c[{}] = 0
  BY <1>7
<1>9. ASSUME NEW S \in SUBSET (1 .. R), S # {} PROVE \E x \in S : c[S] = u[x] + c[S \ {x}]
  <2> DEFINE x == CHOOSE y \in S : TRUE
  <2>1. x \in S /\ x \in 1 .. n
    BY <1>5, <1>9
  <2>2. c[S] = WeightOf(x) + c[S \ {x}]
    BY <1>7, <1>9
  <2> HIDE DEF x
  <2> QED
    BY <1>2, <2>1, <2>2
<1>10. c[1 .. R] = h[1 .. R]
  <2> DEFINE A == 1 .. R
  <2>1. A \in SUBSET (1 .. n) /\ n \in Nat
    BY <1>1
  <2>2. \A S \in SUBSET A : S # {} => \E x \in S : c[S] = u[x] + c[S \ {x}]
    BY <1>9
  <2> HIDE DEF A
  <2>3. AddsUp(u, c, A)
    BY <1>8, <2>2 DEF AddsUp
  <2>4. c[A] = h[A]
    BY <1>4, <2>1, <2>3, SumIs
  <2> QED
    BY <2>4 DEF A
<1>11. Total = c[1 .. R]
  BY DEF Total, MapThenSumSet, MapThenFoldSet, c, R
<1>12. h[1 .. R] = f[Place(candidates, Retained)]
  <2>1. 1 .. R \in SUBSET (1 .. n)
    BY <1>1
  <2> QED
    BY <2>1 DEF h, Place, R
<1> QED
  BY <1>10, <1>11, <1>12

\* The weights before a token are the sum over the places before its own.
LEMMA AheadIs ==
  ASSUME WeightAssumption, ArgsInv, Len(logits) > 0, \A m \in 1 .. Len(logits) : Finite(m),
         candidates \in [1 .. Len(logits) -> 1 .. Len(logits)], Sorted(candidates),
         NEW f, Sums(Len(logits), Weights, f), NEW k \in 1 .. Len(logits)
  PROVE  /\ OddsAhead(candidates[k]) = f[Place(candidates, k - 1)]
         /\ Odds(candidates[k]) = Weights[candidates[k]]
         /\ Cardinality(Ahead(candidates[k])) = k - 1
<1> DEFINE n == Len(logits)
           A == Ahead(candidates[k])
           Iter(c) == c = [S \in SUBSET A |->
                             IF S = {} THEN 0
                             ELSE Odds(CHOOSE x \in S : TRUE) + c[S \ {CHOOSE x \in S : TRUE}]]
           c == CHOOSE e : Iter(e)
<1>1. n \in Nat /\ k \in 1 .. n /\ logits \in Seq(Int) /\ 1 \in 1 .. n
  BY DEF ArgsInv
<1>2. A = Place(candidates, k - 1) /\ Cardinality(A) = k - 1 /\ A \in SUBSET (1 .. n)
  <2>1. /\ {m \in 1 .. Len(logits) : Before(m, candidates[k])} = Place(candidates, k - 1)
        /\ Cardinality(Place(candidates, k - 1)) = k - 1
        /\ Place(candidates, k - 1) \in SUBSET (1 .. Len(logits))
    BY <1>1, SortedIs
  <2> QED
    BY <2>1 DEF Ahead
<1>3. Max(Range(logits)) = logits[candidates[1]]
  <2> DEFINE R == Range(logits)
             a == logits[candidates[1]]
  <2>1. R = {logits[m] : m \in 1 .. n} /\ candidates[1] \in 1 .. n
    <3>1. DOMAIN logits = 1 .. n
      BY <1>1
    <3> QED
      BY <1>1, <3>1 DEF Range
  <2>2. a \in R /\ \A y \in R : a >= y
    <3>1. \A m \in 1 .. Len(logits) : logits[candidates[1]] >= logits[m]
      BY <1>1, SortedIs
    <3> QED
      BY <2>1, <3>1
  <2>3. \A y \in R : y \in Int
    BY <1>1, <2>1, ElementOfSeq
  <2> HIDE DEF R, a
  <2>4. \A x \in R : (\A y \in R : x >= y) => x = a
    BY <2>2, <2>3
  <2>5. Max(R) = a
    BY <2>2, <2>4 DEF Max
  <2> QED
    BY <2>5 DEF R, a
<1>4. \A m \in 1 .. n : Odds(m) = Weights[m]
  BY <1>3 DEF Odds, Weights
<1> HIDE DEF n, A
<1>5. f \in [SUBSET (1 .. n) -> Int] /\ f[{}] = 0 /\ Sums(n, Weights, f)
      /\ \A S \in SUBSET (1 .. n) : \A x \in S : f[S] = Weights[x] + f[S \ {x}]
  BY DEF Sums, n
<1>6. \A S \in SUBSET A : S \in SUBSET (1 .. n) /\ (S # {} => (CHOOSE x \in S : TRUE) \in S)
  BY <1>2
<1>7. \E e : Iter(e)
  <2> DEFINE e == [S \in SUBSET A |-> f[S]]
  <2>1. ASSUME NEW S \in SUBSET A
        PROVE  f[S] = IF S = {} THEN 0
                      ELSE Odds(CHOOSE x \in S : TRUE) + e[S \ {CHOOSE x \in S : TRUE}]
    <3>1. CASE S = {}
      BY <1>5, <3>1
    <3>2. CASE S # {}
      <4> DEFINE x == CHOOSE y \in S : TRUE
      <4>1. x \in S /\ S \in SUBSET (1 .. n) /\ x \in 1 .. n
        BY <1>6, <3>2
      <4>2. e[S \ {x}] = f[S \ {x}]
        OBVIOUS
      <4> HIDE DEF x, e
      <4>3. f[S] = Odds(x) + e[S \ {x}]
        BY <1>4, <1>5, <4>1, <4>2
      <4> QED
        BY <3>2, <4>3 DEF x
    <3> QED
      BY <3>1, <3>2
  <2>2. Iter(e)
    BY <2>1
  <2> QED
    BY <2>2
<1>8. Iter(c)
  BY <1>7
<1> HIDE DEF c
<1>9. c[{}] = 0
  BY <1>8
<1>10. ASSUME NEW S \in SUBSET A, S # {} PROVE \E x \in S : c[S] = Weights[x] + c[S \ {x}]
  <2> DEFINE x == CHOOSE y \in S : TRUE
  <2>1. x \in S /\ x \in 1 .. n
    BY <1>6, <1>10
  <2>2. c[S] = Odds(x) + c[S \ {x}]
    BY <1>8, <1>10
  <2> HIDE DEF x
  <2> QED
    BY <1>4, <2>1, <2>2
<1>11. AddsUp(Weights, c, A)
  BY <1>9, <1>10 DEF AddsUp
<1>12. c[A] = f[A]
  <2>1. n \in Nat /\ Sums(n, Weights, f) /\ A \in SUBSET (1 .. n) /\ AddsUp(Weights, c, A)
    BY <1>1, <1>2, <1>5, <1>11
  <2> QED
    BY ONLY <2>1, SumIs
<1>13. OddsAhead(candidates[k]) = c[A]
  BY DEF OddsAhead, MapThenSumSet, MapThenFoldSet, c, A
<1> QED
  BY <1>1, <1>2, <1>4, <1>12, <1>13 DEF A, n

-----------------------------------------------------------------------------
\* Walking on takes the weight of one more.
LEMMA LeftGoesOn ==
  ASSUME WeightAssumption, ArgsInv, Len(logits) > 0, \A m \in 1 .. Len(logits) : Finite(m),
         candidates \in [1 .. Len(logits) -> 1 .. Len(logits)], Sorted(candidates),
         draws[1] \in Int, NEW k \in 1 .. Len(logits), NEW t \in Int, Left(t, k - 1)
  PROVE  Left(t - WeightOf(k), k)
<1> SUFFICES ASSUME NEW f, Sums(Len(logits), Weights, f)
             PROVE  t - WeightOf(k) = draws[1] - f[Place(candidates, k)]
  BY DEF Left
<1>1. t = draws[1] - f[Place(candidates, k - 1)]
  BY DEF Left
<1>2. /\ Place(candidates, k) \in SUBSET (1 .. Len(logits))
      /\ candidates[k] \in Place(candidates, k)
      /\ Place(candidates, k) \ {candidates[k]} = Place(candidates, k - 1)
      /\ Place(candidates, k - 1) \in SUBSET (1 .. Len(logits))
  <2>1. logits \in Seq(Int)
    BY DEF ArgsInv
  <2> QED
    BY <2>1, SortedIs
<1>3. /\ f[Place(candidates, k)] = Weights[candidates[k]] + f[Place(candidates, k - 1)]
      /\ f[Place(candidates, k - 1)] \in Int
  <2>1. /\ f \in [SUBSET (1 .. Len(logits)) -> Int]
        /\ \A S \in SUBSET (1 .. Len(logits)) : \A x \in S : f[S] = Weights[x] + f[S \ {x}]
    BY DEF Sums
  <2> QED
    BY <1>2, <2>1
<1>4. WeightOf(k) = Weights[candidates[k]] /\ WeightOf(k) \in Nat
  BY WeightsTyped
<1> DEFINE a == f[Place(candidates, k - 1)]
           b == f[Place(candidates, k)]
           w == WeightOf(k)
           d == draws[1]
<1>5. t = d - a /\ b = w + a /\ a \in Int /\ w \in Int /\ d \in Int
  BY <1>1, <1>3, <1>4
<1> HIDE DEF a, b, w, d
<1>6. t - w = d - b
  BY ONLY <1>5
<1> QED
  BY <1>6 DEF b, w, d

\* The invariant holds when a call starts.
LEMMA SamplerInit ==
  ASSUME WeightAssumption, Init
  PROVE  SamplerInv
<1>1. ArgsInv
  BY DEF Init, WeightAssumption, ArgsInv
<1>2. Len(logits) \in Nat
  BY <1>1 DEF ArgsInv
<1> QED
  BY <1>1, <1>2 DEF Init, SamplerInv, GreedyInv, CollectInv, SortedInv, WalkInv

\* No step changes the arguments.
LEMMA ArgsStay ==
  ASSUME ArgsInv, UNCHANGED args
  PROVE  ArgsInv' /\ Retained' = Retained /\ Len(logits') = Len(logits)
BY DEF ArgsInv, args, Retained

\* Each step keeps it.
LEMMA CheckKeeps == ASSUME SamplerInv, Check PROVE SamplerInv'
<1>1. UNCHANGED <<args, i, best, candidates, draws, target, token_id>> /\ pc = "check"
      /\ \/ pc' = "refused"
         \/ pc' = "greedy" /\ temperature = "zero" /\ logits # << >>
         \/ pc' = "collect" /\ temperature = "positive" /\ logits # << >>
  BY DEF Check, Refuse
<1>2. /\ ArgsInv' /\ Len(logits') = Len(logits) /\ Len(logits) \in Nat
      /\ logits # << >> => Len(logits) > 0
  <2>1. ArgsInv' /\ Len(logits') = Len(logits)
    BY <1>1, ArgsStay DEF SamplerInv
  <2>2. logits \in Seq(Int)
    BY DEF SamplerInv, ArgsInv
  <2> QED
    BY <2>1, <2>2, EmptySeq
<1> QED
  BY <1>1, <1>2 DEF SamplerInv, GreedyInv, CollectInv, SortedInv, WalkInv, args

LEMMA RefuseKeeps == ASSUME SamplerInv, Refuse PROVE SamplerInv'
<1>1. ArgsInv' /\ pc' = "refused"
  BY ArgsStay DEF SamplerInv, Refuse
<1> QED
  BY <1>1 DEF SamplerInv, GreedyInv, CollectInv, SortedInv, WalkInv

LEMMA GreedyKeeps == ASSUME SamplerInv, Greedy PROVE SamplerInv'
<1>1. /\ UNCHANGED <<pc, args, candidates, draws, target, token_id>> /\ pc = "greedy"
      /\ i <= Len(logits) /\ i' = i + 1
      /\ best' = IF logits[i] > logits[best] THEN i ELSE best
  BY DEF Greedy
<1>2. ArgsInv' /\ Len(logits') = Len(logits) /\ logits \in Seq(Int) /\ Len(logits) \in Nat
  BY <1>1, ArgsStay DEF SamplerInv, ArgsInv
<1>3. /\ temperature = "zero" /\ i \in 1 .. Len(logits) + 1 /\ best \in 1 .. Len(logits)
      /\ best <= i
      /\ \A m \in 1 .. i - 1 : logits[m] <= logits[best] /\ (m < best => logits[m] < logits[best])
  BY <1>1 DEF SamplerInv, GreedyInv
<1>4. \A m \in 1 .. Len(logits) : logits[m] \in Int
  BY <1>2, ElementOfSeq
<1>5. /\ i' \in 1 .. Len(logits) + 1 /\ best' \in 1 .. Len(logits) /\ best' <= i'
      /\ i \in 1 .. Len(logits)
  BY <1>1, <1>2, <1>3
<1>6. ASSUME NEW m \in 1 .. i
      PROVE  logits[m] <= logits[best'] /\ (m < best' => logits[m] < logits[best'])
  <2>1. /\ m \in 1 .. Len(logits) /\ m \in Int /\ i \in Int /\ best \in Int
        /\ m = i \/ m \in 1 .. i - 1
    BY <1>2, <1>5, <1>3
  <2>2. logits[m] \in Int /\ logits[i] \in Int /\ logits[best] \in Int
    BY <1>3, <1>4, <1>5, <2>1
  <2>3. m \in 1 .. i - 1 => logits[m] <= logits[best] /\ (m < best => logits[m] < logits[best])
    BY <1>3
  <2> QED
    BY <1>1, <1>3, <2>1, <2>2, <2>3
<1>7. GreedyInv'
  <2>1. i' - 1 = i
    BY <1>1, <1>3
  <2> QED
    BY <1>1, <1>2, <1>3, <1>5, <1>6, <2>1 DEF GreedyInv, args
<1> QED
  BY <1>1, <1>2, <1>5, <1>7 DEF SamplerInv, CollectInv, SortedInv, WalkInv, args

LEMMA GreedyDoneKeeps == ASSUME SamplerInv, GreedyDone PROVE SamplerInv'
<1>1. /\ UNCHANGED <<args, i, best, candidates, draws, target>> /\ pc = "greedy" /\ pc' = "done"
      /\ i > Len(logits) /\ token_id' = best
  BY DEF GreedyDone, Answer
<1>2. ArgsInv' /\ Len(logits') = Len(logits) /\ Len(logits) \in Nat
  BY <1>1, ArgsStay DEF SamplerInv, ArgsInv
<1>3. /\ temperature = "zero" /\ i = Len(logits) + 1 /\ best \in 1 .. Len(logits)
      /\ best <= i
      /\ \A m \in 1 .. i - 1 : logits[m] <= logits[best] /\ (m < best => logits[m] < logits[best])
  BY <1>1, <1>2 DEF SamplerInv, GreedyInv
<1>4. GreedyInv'
  BY <1>1, <1>2, <1>3 DEF GreedyInv, args
<1> QED
  BY <1>1, <1>2, <1>3, <1>4 DEF SamplerInv, CollectInv, SortedInv, WalkInv, args

LEMMA CollectKeeps == ASSUME SamplerInv, Collect PROVE SamplerInv'
<1>1. /\ UNCHANGED <<pc, args, best, draws, target, token_id>> /\ pc = "collect"
      /\ i <= Len(logits) /\ Finite(i) /\ i' = i + 1
  BY DEF Collect
<1>2. ArgsInv' /\ Len(logits') = Len(logits) /\ Len(logits) \in Nat
  BY <1>1, ArgsStay DEF SamplerInv, ArgsInv
<1>3. i \in 1 .. Len(logits) + 1 /\ Len(logits) > 0 /\ \A m \in 1 .. i - 1 : Finite(m)
  BY <1>1 DEF SamplerInv, CollectInv
<1>4. i' \in 1 .. Len(logits) + 1 /\ i' - 1 = i /\ \A m \in 1 .. i : m = i \/ m \in 1 .. i - 1
  BY <1>1, <1>2, <1>3
<1>5. CollectInv'
  BY <1>1, <1>2, <1>3, <1>4 DEF CollectInv, Finite, args
<1> QED
  BY <1>1, <1>2, <1>5 DEF SamplerInv, GreedyInv, SortedInv, WalkInv, args

LEMMA SortKeeps == ASSUME SamplerInv, Sort PROVE SamplerInv'
<1>1. /\ UNCHANGED <<args, i, best, draws, target, token_id>> /\ pc = "collect" /\ pc' = "draw"
      /\ i > Len(logits) /\ candidates' \in [1 .. Len(logits) -> 1 .. Len(logits)]
      /\ Sorted(candidates')
  BY DEF Sort
<1>2. ArgsInv' /\ Len(logits') = Len(logits) /\ Len(logits) \in Nat /\ logits' = logits
  BY <1>1, ArgsStay DEF SamplerInv, ArgsInv, args
<1>3. i = Len(logits) + 1 /\ Len(logits) > 0 /\ \A m \in 1 .. i - 1 : Finite(m)
  BY <1>1, <1>2 DEF SamplerInv, CollectInv
<1>4. \A m \in 1 .. Len(logits) : m \in 1 .. i - 1
  BY <1>2, <1>3
<1>5. Sorted(candidates)'
  BY <1>1, <1>2 DEF Sorted, Before
<1>6. SortedInv'
  BY <1>1, <1>2, <1>3, <1>4, <1>5 DEF SortedInv, Finite
<1> QED
  BY <1>1, <1>2, <1>6 DEF SamplerInv, GreedyInv, CollectInv, WalkInv, args

\* What holds of the candidates goes on holding while they stay.
LEMMA SortedStay ==
  ASSUME UNCHANGED <<args, candidates>>
  PROVE  /\ Sorted(candidates)' = Sorted(candidates) /\ Weights' = Weights
         /\ \A m : Finite(m)' = Finite(m) /\ WeightOf(m)' = WeightOf(m)
<1>1. logits' = logits /\ candidates' = candidates
  BY DEF args
<1> QED
  BY <1>1 DEF Sorted, Before, Weights, Finite, WeightOf

\* What is known wherever the candidates are sorted.
Ready == /\ WeightAssumption /\ ArgsInv /\ Len(logits) > 0
         /\ \A m \in 1 .. Len(logits) : Finite(m)
         /\ candidates \in [1 .. Len(logits) -> 1 .. Len(logits)] /\ Sorted(candidates)

\* And goes on being so while they stay.
LEMMA ReadyStays ==
  ASSUME Ready, UNCHANGED <<args, candidates>>
  PROVE  /\ ArgsInv' /\ Len(logits)' = Len(logits) /\ Retained' = Retained /\ Weights' = Weights
         /\ (\A m \in 1 .. Len(logits) : Finite(m))' /\ Sorted(candidates)'
         /\ candidates' \in [1 .. Len(logits) -> 1 .. Len(logits)]
         /\ \A m : WeightOf(m)' = WeightOf(m)
<1>1. logits' = logits /\ candidates' = candidates /\ top_k' = top_k /\ temperature' = temperature
  BY DEF args
<1> QED
  BY <1>1 DEF Ready, ArgsInv, Retained, Sorted, Before, Weights, Finite, WeightOf

\* The draw starts the walk with the whole number.
LEMMA DrawKeeps ==
  ASSUME WeightAssumption, SamplerInv, NEW t, Draw(t) PROVE SamplerInv'
<1>1. /\ UNCHANGED <<args, best, candidates, held, token_id>> /\ pc = "draw" /\ pc' = "walk"
      /\ t \in 0 .. Total /\ target' = t /\ draws' = Append(draws, t) /\ i' = 1
  BY DEF Draw
<1>2. Ready
  BY <1>1 DEF Ready, SamplerInv, SortedInv
<1>3. /\ ArgsInv' /\ Len(logits') = Len(logits) /\ Retained' = Retained /\ Weights' = Weights
      /\ (\A m \in 1 .. Len(logits) : Finite(m))' /\ Sorted(candidates)'
      /\ candidates' \in [1 .. Len(logits) -> 1 .. Len(logits)]
      /\ logits' = logits /\ candidates' = candidates /\ temperature' = temperature
  BY <1>1, <1>2, ReadyStays DEF args
<1>4. draws = << >> /\ temperature = "positive"
  BY <1>1 DEF SamplerInv
<1>5. draws'[1] = t
  BY <1>1, <1>4
<1>6. Total' = Total
  BY <1>3 DEF Total, MapThenSumSet, MapThenFoldSet, WeightOf
<1>7. Left(target, i - 1)'
  <2> SUFFICES ASSUME NEW f, Sums(Len(logits'), Weights', f)
               PROVE  target' = draws'[1] - f[Place(candidates', i' - 1)]
    BY DEF Left
  <2>1. i' - 1 = 0
    BY <1>1
  <2>2. Place(candidates', 0) = {}
    BY DEF Place
  <2>3. f[{}] = 0
    BY DEF Sums
  <2>4. t - 0 = t
    BY <1>1
  <2> QED
    BY <1>1, <1>5, <2>1, <2>2, <2>3, <2>4
<1>8. i' \in 1 .. Retained' + 1 /\ target' \in Nat
  <2>1. Retained \in 1 .. Len(logits)
    BY <1>2, RetainedIs DEF Ready
  <2> QED
    BY <1>1, <1>3, <2>1
<1>9. WalkInv'
  BY <1>1, <1>5, <1>6, <1>7, <1>8 DEF WalkInv
<1>10. SortedInv'
  BY <1>2, <1>3 DEF SortedInv, Ready
<1> QED
  BY <1>1, <1>3, <1>4, <1>9, <1>10 DEF SamplerInv, GreedyInv, CollectInv

\* A step of the walk takes one weight from what is left.
LEMMA WalkKeeps ==
  ASSUME WeightAssumption, SamplerInv, Walk PROVE SamplerInv'
<1>1. /\ UNCHANGED <<args, best, candidates, draws>> /\ pc = "walk" /\ i <= Retained
      /\ target' = target - WeightOf(i)
      /\ \/ target' >= 0 /\ i' = i + 1 /\ pc' = "walk"
         \/ target' < 0 /\ pc' = "done" /\ token_id' = candidates[i] /\ i' = i
  BY DEF Walk, Answer
<1>2. Ready /\ temperature = "positive"
  BY <1>1 DEF Ready, SamplerInv, SortedInv
<1>3. /\ ArgsInv' /\ Len(logits') = Len(logits) /\ Retained' = Retained /\ Weights' = Weights
      /\ (\A m \in 1 .. Len(logits) : Finite(m))' /\ Sorted(candidates)'
      /\ candidates' \in [1 .. Len(logits) -> 1 .. Len(logits)]
      /\ logits' = logits /\ candidates' = candidates /\ temperature' = temperature
      /\ WeightOf(i)' = Weight[logits'[candidates'[1]] - logits'[candidates'[i']]]
  BY <1>1, <1>2, ReadyStays DEF args, WeightOf
<1>4. /\ i \in 1 .. Retained + 1 /\ draws[1] \in 0 .. Total
      /\ Left(target, i - 1) /\ target \in Nat
  BY <1>1 DEF SamplerInv, WalkInv
<1>5. Total' = Total
  BY <1>3 DEF Total, MapThenSumSet, MapThenFoldSet, WeightOf
<1>6. Retained \in 1 .. Len(logits)
  BY <1>2, RetainedIs DEF Ready
<1>7. i \in 1 .. Len(logits) /\ i \in 1 .. Retained /\ Len(logits) \in Nat
  <2>1. Len(logits) \in Nat
    BY <1>2 DEF Ready, ArgsInv
  <2> QED
    BY <1>1, <1>4, <1>6, <2>1
<1>8. WeightOf(i) \in Nat
  BY <1>2, <1>7, WeightsTyped DEF Ready
<1>9. Left(target - WeightOf(i), i)
  <2>1. draws[1] \in Int /\ target \in Int
    BY <1>4
  <2> QED
    BY <1>2, <1>4, <1>7, <2>1, LeftGoesOn DEF Ready
<1>10. target' \in Int /\ \A t, k : Left(t, k) =>
         \A f : Sums(Len(logits'), Weights', f) => t = draws'[1] - f[Place(candidates', k)]
  <2>1. \A a, b \in Int : a - b \in Int
    OBVIOUS
  <2>2. target' \in Int
    BY <1>1, <1>4, <1>8, <2>1
  <2> QED
    BY <1>1, <1>3, <2>2 DEF Left
<1>11. \A f : Sums(Len(logits'), Weights', f) => target' = draws'[1] - f[Place(candidates', i)]
  BY <1>1, <1>9, <1>10
<1>12. SortedInv'
  BY <1>2, <1>3 DEF SortedInv, Ready
<1>13. CASE target' >= 0
  <2>1. i' - 1 = i /\ i' \in 1 .. Retained' + 1 /\ target' \in Nat /\ pc' = "walk"
    <3>1. \A a \in Int : a >= 0 => ~(a < 0) /\ a \in Nat
      OBVIOUS
    <3>2. target' \in Nat /\ i' = i + 1 /\ pc' = "walk"
      BY <1>1, <1>10, <1>13, <3>1
    <3>3. \A a : a = i + 1 => a - 1 = i /\ a \in 1 .. Retained + 1
      BY <1>6, <1>7
    <3>4. i' - 1 = i /\ i' \in 1 .. Retained + 1
      BY <3>2, <3>3
    <3> QED
      BY <1>3, <3>2, <3>4
  <2>2. Left(target, i - 1)'
    BY <1>11, <2>1 DEF Left
  <2>3. WalkInv'
    BY <1>1, <1>4, <1>5, <2>1, <2>2 DEF WalkInv
  <2> QED
    BY <1>2, <1>3, <1>12, <2>1, <2>3 DEF SamplerInv, GreedyInv, CollectInv
<1>14. CASE ~(target' >= 0)
  <2>1. pc' = "done" /\ token_id' = candidates[i] /\ i' = i /\ target' < 0
    BY <1>1, <1>14
  <2>2. Left(target, i)'
    BY <1>11, <2>1 DEF Left
  <2>3. WeightOf(i)' = WeightOf(i)
    BY <1>3, <2>1 DEF WeightOf
  <2>4. target' + WeightOf(i) = target
    <3>1. \A a, b \in Int : a - b + b = a
      OBVIOUS
    <3>2. target \in Int /\ WeightOf(i) \in Int
      BY <1>4, <1>8
    <3>3. target - WeightOf(i) + WeightOf(i) = target
      BY ONLY <3>1, <3>2
    <3> QED
      BY <1>1, <3>3
  <2>5. /\ i' \in 1 .. Retained' + 1 /\ draws'[1] \in 0 .. Total' /\ i' <= Retained'
        /\ token_id' = candidates'[i'] /\ ~(i' > Retained')
    <3>1. i \in 1 .. Retained + 1 /\ i <= Retained /\ ~(i > Retained)
      BY <1>6, <1>7
    <3> QED
      BY <1>1, <1>3, <1>4, <1>5, <2>1, <3>1
  <2>6. (target + WeightOf(i) >= 0)'
    BY <1>4, <2>3, <2>4
  <2>7. WalkInv'
    BY <1>10, <2>1, <2>2, <2>5, <2>6 DEF WalkInv
  <2> QED
    BY <1>2, <1>3, <1>12, <2>1, <2>7 DEF SamplerInv, GreedyInv, CollectInv
<1> QED
  BY <1>13, <1>14

\* What rounding leaves over goes to the last candidate kept.
LEMMA WalkedOffKeeps ==
  ASSUME WeightAssumption, SamplerInv, WalkedOff PROVE SamplerInv'
<1>1. /\ UNCHANGED <<args, best, candidates, draws, i, target>> /\ pc = "walk" /\ i > Retained
      /\ pc' = "done" /\ token_id' = candidates[Retained]
  BY DEF WalkedOff, Answer
<1>2. Ready /\ temperature = "positive"
  BY <1>1 DEF Ready, SamplerInv, SortedInv
<1>3. /\ ArgsInv' /\ Len(logits') = Len(logits) /\ Retained' = Retained /\ Weights' = Weights
      /\ (\A m \in 1 .. Len(logits) : Finite(m))' /\ Sorted(candidates)'
      /\ candidates' \in [1 .. Len(logits) -> 1 .. Len(logits)]
      /\ logits' = logits /\ candidates' = candidates /\ temperature' = temperature
  BY <1>1, <1>2, ReadyStays DEF args
<1>4. /\ i \in 1 .. Retained + 1 /\ draws[1] \in 0 .. Total
      /\ Left(target, i - 1) /\ target \in Nat
  BY <1>1 DEF SamplerInv, WalkInv
<1>5. Total' = Total
  BY <1>3 DEF Total, MapThenSumSet, MapThenFoldSet, WeightOf
<1>6. Retained \in 1 .. Len(logits)
  BY <1>2, RetainedIs DEF Ready
<1>7. i - 1 = Retained /\ ~(i <= Retained)
  <2>1. Len(logits) \in Nat
    BY <1>2 DEF Ready, ArgsInv
  <2> QED
    BY <1>1, <1>4, <1>6, <2>1
<1>8. Left(target, Retained)'
  BY <1>1, <1>3, <1>4, <1>7 DEF Left
<1>9. WalkInv'
  BY <1>1, <1>3, <1>4, <1>5, <1>7, <1>8 DEF WalkInv
<1>10. SortedInv'
  BY <1>2, <1>3 DEF SortedInv, Ready
<1> QED
  BY <1>1, <1>2, <1>3, <1>9, <1>10 DEF SamplerInv, GreedyInv, CollectInv

\* No step at all.
LEMMA SamplerStays ==
  ASSUME SamplerInv, UNCHANGED vars PROVE SamplerInv'
<1>1. /\ pc' = pc /\ logits' = logits /\ temperature' = temperature /\ top_k' = top_k
      /\ i' = i /\ best' = best /\ candidates' = candidates /\ draws' = draws
      /\ target' = target /\ token_id' = token_id
  BY DEF vars, args
<1>2. /\ Retained' = Retained /\ Total' = Total /\ Weights' = Weights
      /\ \A m : WeightOf(m)' = WeightOf(m)
  BY <1>1 DEF Retained, Total, MapThenSumSet, MapThenFoldSet, Weights, WeightOf
<1>3. WalkInv'
  BY <1>1, <1>2 DEF SamplerInv, WalkInv, Left, WeightOf
<1>4. SortedInv'
  BY <1>1 DEF SamplerInv, SortedInv, Sorted, Before, Finite
<1> QED
  BY <1>1, <1>3, <1>4 DEF SamplerInv, ArgsInv, GreedyInv, CollectInv, Finite

\* The inductive invariant of a call of mlmc_sample (tokenizer.c:717-784), for any logits,
\* any top_k and any weights that do not grow with the distance to the largest logit.
THEOREM SamplerHolds == Spec => []SamplerInv
<1>1. OutputInit => SamplerInv
  BY SamplerInit, WeightAssumption DEF OutputInit
<1>2. SamplerInv /\ [Next]_all => SamplerInv'
  <2> SUFFICES ASSUME SamplerInv, Step \/ UNCHANGED vars PROVE SamplerInv'
    BY DEF Next, Sampling, Writing, Ended, all
  <2>1. CASE Check
    BY <2>1, CheckKeeps
  <2>2. CASE Greedy
    BY <2>2, GreedyKeeps
  <2>3. CASE GreedyDone
    BY <2>3, GreedyDoneKeeps
  <2>4. CASE NotFinite
    BY <2>4, RefuseKeeps DEF NotFinite
  <2>5. CASE Collect
    BY <2>5, CollectKeeps
  <2>6. CASE Sort
    BY <2>6, SortKeeps
  <2>7. CASE \E t \in 0 .. Len(logits) * Weight[0] : Draw(t)
    BY <2>7, DrawKeeps, WeightAssumption
  <2>8. CASE Walk
    BY <2>8, WalkKeeps, WeightAssumption
  <2>9. CASE WalkedOff
    BY <2>9, WalkedOffKeeps, WeightAssumption
  <2>10. CASE UNCHANGED vars
    BY <2>10, SamplerStays
  <2> QED
    BY <2>1, <2>2, <2>3, <2>4, <2>5, <2>6, <2>7, <2>8, <2>9, <2>10 DEF Step
<1> QED
  BY <1>1, <1>2, PTL DEF Spec

\* The token drawn, by its place.
LEMMA DrawnFrom ==
  ASSUME WeightAssumption, SamplerInv, pc = "done", temperature = "positive"
  PROVE  /\ Ready /\ Retained \in 1 .. Len(logits) /\ i \in 1 .. Retained + 1
         /\ i > Retained => token_id = candidates[Retained]
         /\ i <= Retained => token_id = candidates[i]
<1>1. Ready
  BY DEF Ready, SamplerInv, SortedInv
<1>2. Retained \in 1 .. Len(logits)
  BY <1>1, RetainedIs DEF Ready
<1>3. /\ i \in 1 .. Retained + 1
      /\ i > Retained => token_id = candidates[Retained]
      /\ i <= Retained => token_id = candidates[i]
  BY DEF SamplerInv, WalkInv
<1> QED
  BY <1>1, <1>2, <1>3

\* The invariant says it of the ids ahead of the token: one less than its place.
LEMMA TopKept ==
  ASSUME WeightAssumption, SamplerInv PROVE AmongTopK
<1> SUFFICES ASSUME pc = "done" PROVE AmongTopK
  BY DEF AmongTopK
<1> DEFINE larger == {m \in 1 .. Len(logits) : logits[m] > logits[token_id]}
           equal  == {m \in 1 .. token_id - 1 : logits[m] = logits[token_id]}
           kept   == IF temperature = "zero" THEN 1 ELSE IF top_k = 0 THEN Len(logits) ELSE top_k
<1>1. logits \in Seq(Int) /\ Len(logits) \in Nat /\ top_k \in Nat
      /\ (temperature = "zero" \/ temperature = "positive")
  BY DEF SamplerInv, ArgsInv, Temperatures
<1>2. \A m \in 1 .. Len(logits) : logits[m] \in Int
  BY <1>1, ElementOfSeq
<1>3. CASE temperature = "zero"
  <2>1. /\ token_id \in 1 .. Len(logits)
        /\ \A m \in 1 .. Len(logits) : /\ logits[m] <= logits[token_id]
                                       /\ m < token_id => logits[m] < logits[token_id]
    <3>1. /\ best \in 1 .. Len(logits) /\ token_id = best /\ i = Len(logits) + 1
          /\ \A m \in 1 .. i - 1 : /\ logits[m] <= logits[best]
                                   /\ m < best => logits[m] < logits[best]
      BY <1>3 DEF SamplerInv, GreedyInv
    <3>2. i - 1 = Len(logits)
      BY <1>1, <3>1
    <3> QED
      BY <3>1, <3>2
  <2>2. larger = {}
    BY <1>2, <2>1
  <2>3. equal = {}
    <3> SUFFICES ASSUME NEW m \in 1 .. token_id - 1, logits[m] = logits[token_id] PROVE FALSE
      OBVIOUS
    <3>1. m \in 1 .. Len(logits) /\ m < token_id
      BY <1>1, <2>1
    <3> QED
      BY <1>2, <2>1, <3>1
  <2>4. Cardinality(larger) = 0 /\ Cardinality(equal) = 0
    BY <2>2, <2>3, FS_EmptySet
  <2> QED
    BY <1>3, <2>4 DEF AmongTopK
<1>4. CASE temperature = "positive"
  <2>1. PICK r \in 1 .. Retained : r \in 1 .. Len(logits) /\ token_id = candidates[r]
    <3>1. /\ Retained \in 1 .. Len(logits) /\ i \in 1 .. Retained + 1
          /\ i > Retained => token_id = candidates[Retained]
          /\ i <= Retained => token_id = candidates[i]
      BY <1>4, DrawnFrom
    <3>2. CASE i <= Retained
      BY <1>1, <3>1, <3>2
    <3>3. CASE i > Retained
      BY <1>1, <3>1, <3>3
    <3> QED
      BY <3>1, <3>2, <3>3
  <2>2. Ready /\ Retained \in 1 .. Len(logits)
    BY <1>4, DrawnFrom
  <2>3. token_id \in 1 .. Len(logits)
    BY <2>1, <2>2 DEF Ready
  <2>4. /\ Ahead(token_id) \in SUBSET (1 .. Len(logits))
        /\ Cardinality(Ahead(token_id)) = r - 1
    <3>1. PICK f : Sums(Len(logits), Weights, f)
      BY <2>2, WeightsTyped DEF Ready
    <3>2. Cardinality(Ahead(candidates[r])) = r - 1
      BY <2>1, <2>2, <3>1, AheadIs DEF Ready
    <3> QED
      BY <2>1, <3>2 DEF Ahead
  <2>5. Ahead(token_id) = larger \cup equal /\ larger \cap equal = {}
    <3>1. \A m \in 1 .. token_id - 1 : m \in 1 .. Len(logits) /\ m < token_id
      BY <1>1, <2>3
    <3>2. \A m \in 1 .. Len(logits) : m < token_id => m \in 1 .. token_id - 1
      BY <1>1, <2>3
    <3>3. \A m \in 1 .. Len(logits) :
            ~(logits[m] > logits[token_id] /\ logits[m] = logits[token_id])
      BY <1>2, <2>3
    <3> QED
      BY <3>1, <3>2, <3>3 DEF Ahead, Before
  <2>6. IsFiniteSet(larger) /\ IsFiniteSet(equal)
    <3>1. IsFiniteSet(Ahead(token_id))
      <4>1. IsFiniteSet(1 .. Len(logits))
        <5>1. 1 \in Int /\ Len(logits) \in Int
          BY <1>1
        <5> QED
          BY ONLY <5>1, FS_Interval
      <4> QED
        BY <2>4, <4>1, FS_Subset
    <3> QED
      BY <2>5, <3>1, FS_Subset
  <2>7. Cardinality(larger) + Cardinality(equal) = r - 1
    <3> HIDE DEF larger, equal
    <3>1. Cardinality(larger \cup equal)
            = Cardinality(larger) + Cardinality(equal) - Cardinality(larger \cap equal)
      BY <2>6, FS_Union
    <3>2. Cardinality(larger \cap equal) = 0
      BY <2>5, FS_EmptySet
    <3>3. Cardinality(larger) \in Nat /\ Cardinality(equal) \in Nat
      BY <2>6, FS_CardinalityType
    <3> QED
      BY <2>4, <2>5, <3>1, <3>2, <3>3
  <2>8. r - 1 < kept
    <3>1. kept = IF top_k = 0 THEN Len(logits) ELSE top_k
      BY <1>4
    <3>2. top_k # 0 => Retained <= top_k
      BY <2>2, RetainedIs DEF Ready
    <3> HIDE DEF kept
    <3> QED
      BY <1>1, <2>1, <2>2, <3>1, <3>2
  <2> HIDE DEF larger, equal, kept
  <2>9. Cardinality(larger) + Cardinality(equal) < kept
    BY <2>7, <2>8
  <2> QED
    BY <2>9 DEF AmongTopK, larger, equal, kept
<1> QED
  BY <1>1, <1>3, <1>4

\* The number lies between the sums before and after the token's weight.
LEMMA WeightKept ==
  ASSUME WeightAssumption, SamplerInv PROVE DrawnByWeight
<1> SUFFICES ASSUME pc = "done", temperature = "positive" PROVE DrawnByWeight
  BY DEF DrawnByWeight
<1>1. /\ Ready /\ Retained \in 1 .. Len(logits) /\ i \in 1 .. Retained + 1
      /\ i > Retained => token_id = candidates[Retained]
      /\ i <= Retained => token_id = candidates[i]
  BY DrawnFrom
<1>2. /\ draws[1] \in 0 .. Total
      /\ i <= Retained => /\ Left(target, i) /\ target \in Int
                          /\ target < 0 /\ target + WeightOf(i) >= 0
      /\ i > Retained => Left(target, Retained) /\ target \in Nat
  BY DEF SamplerInv, WalkInv
<1>3. PICK f : Sums(Len(logits), Weights, f)
  BY <1>1, WeightsTyped DEF Ready
<1>4. ASSUME NEW k \in 1 .. Len(logits), token_id = candidates[k]
      PROVE  /\ OddsAhead(token_id) \in Int /\ Odds(token_id) = WeightOf(k) /\ WeightOf(k) \in Nat
             /\ Cardinality(Ahead(token_id)) = k - 1
             /\ f[Place(candidates, k)] = Odds(token_id) + OddsAhead(token_id)
  <2>1. /\ OddsAhead(candidates[k]) = f[Place(candidates, k - 1)]
        /\ Odds(candidates[k]) = Weights[candidates[k]]
        /\ Cardinality(Ahead(candidates[k])) = k - 1
    BY <1>1, <1>3, AheadIs DEF Ready
  <2>2. WeightOf(k) = Weights[candidates[k]] /\ WeightOf(k) \in Nat
    BY <1>1, WeightsTyped DEF Ready
  <2>3. /\ Place(candidates, k) \in SUBSET (1 .. Len(logits))
        /\ candidates[k] \in Place(candidates, k)
        /\ Place(candidates, k) \ {candidates[k]} = Place(candidates, k - 1)
        /\ Place(candidates, k - 1) \in SUBSET (1 .. Len(logits))
    <3>1. logits \in Seq(Int)
      BY <1>1 DEF Ready, ArgsInv
    <3> QED
      BY <1>1, <3>1, SortedIs DEF Ready
  <2>4. /\ f \in [SUBSET (1 .. Len(logits)) -> Int]
        /\ f[Place(candidates, k)] = Weights[candidates[k]] + f[Place(candidates, k - 1)]
    BY <1>3, <2>3 DEF Sums
  <2> QED
    BY <1>4, <2>1, <2>2, <2>3, <2>4
<1>5. CASE i <= Retained
  <2>1. i \in 1 .. Len(logits) /\ token_id = candidates[i] /\ ~(i > Retained)
    BY <1>1, <1>5
  <2>2. target = draws[1] - f[Place(candidates, i)]
    BY <1>2, <1>3, <1>5 DEF Left
  <2> DEFINE d == draws[1]
             o == OddsAhead(token_id)
             w == Odds(token_id)
             t == target
             a == f[Place(candidates, i)]
  <2>3. /\ d \in Int /\ o \in Int /\ w \in Int /\ t \in Int /\ a = w + o /\ t = d - a
        /\ t < 0 /\ t + w >= 0
    BY <1>2, <1>4, <1>5, <2>1, <2>2
  <2> HIDE DEF d, o, w, t, a
  <2>4. d \in o .. o + w - 1
    BY ONLY <2>3
  <2> QED
    BY <2>1, <2>4 DEF DrawnByWeight, d, o, w
<1>6. CASE i > Retained
  <2>1. token_id = candidates[Retained]
    BY <1>1, <1>6
  <2>2. target = draws[1] - f[Place(candidates, Retained)]
    BY <1>2, <1>3, <1>6 DEF Left
  <2>3. Total = f[Place(candidates, Retained)]
    BY <1>1, <1>3, TotalIs DEF Ready
  <2> DEFINE d == draws[1]
             o == OddsAhead(token_id)
             w == Odds(token_id)
             t == target
             a == Total
  <2>4. d \in 0 .. a /\ o \in Int /\ w \in Int /\ t \in Nat /\ a = w + o /\ t = d - a
        /\ Cardinality(Ahead(token_id)) = Retained - 1
    BY <1>1, <1>2, <1>4, <1>6, <2>1, <2>2, <2>3
  <2> HIDE DEF d, o, w, t, a
  <2>5. d = o + w
    BY ONLY <2>4
  <2> QED
    BY <1>6, <2>4, <2>5 DEF DrawnByWeight, d, o, w
<1> QED
  <2>1. Retained \in Int /\ i \in Int
    BY <1>1
  <2>2. i <= Retained \/ i > Retained
    BY ONLY <2>1
  <2> QED
    BY <1>5, <1>6, <2>2

\* The answer is one of the top_k largest logits, equal ones counted by id, and at
\* temperature zero the first of the largest (tokenizer.c:733-744, 762-763).
THEOREM TopKKept == Spec => []AmongTopK
<1>1. SamplerInv => AmongTopK
  BY TopKept, WeightAssumption
<1> QED
  BY <1>1, SamplerHolds, PTL

\* Each token is drawn for exactly the numbers between the weights before it and its own on
\* top of them: in proportion to its weight, and never one of weight 0; what rounding
\* leaves over goes to the last one kept (tokenizer.c:766-781).
THEOREM WeightsKept == Spec => []DrawnByWeight
<1>1. SamplerInv => DrawnByWeight
  BY WeightKept, WeightAssumption
<1> QED
  BY <1>1, SamplerHolds, PTL

-----------------------------------------------------------------------------
\* The two forms of a symbol, and their bytes.
LEMMA SymbolIs ==
  ASSUME NEW b \in Y!Bytes
  PROVE  LET c == Y!CodepointForByte(b)
         IN  /\ c \in 0 .. 511 /\ Y!Symbol(b) \in Seq(Y!Bytes)
             /\ c < 128 => /\ b \in 33 .. 126 /\ c = b /\ Y!Symbol(b) = <<b>>
             /\ c >= 128 => /\ Y!Symbol(b) = <<192 + (c \div 64), 128 + (c % 64)>>
                            /\ c \div 64 \in 2 .. 7 /\ c % 64 \in 0 .. 63
                            /\ c = (c \div 64) * 64 + (c % 64)
<1> DEFINE c == Y!CodepointForByte(b)
<1>1. c \in 0 .. 511 /\ (c < 128 => b \in 33 .. 126 /\ c = b)
  BY DEF Y!CodepointForByte, Y!Printable, Y!Bytes
<1>2. Y!Symbol(b) = Y!EncodeCodepoint(c)
  BY DEF Y!Symbol
<1> HIDE DEF c
<1>3. CASE c < 128
  <2>1. Y!Symbol(b) = <<b>>
    BY <1>1, <1>2, <1>3 DEF Y!EncodeCodepoint
  <2>2. <<b>> \in Seq(Y!Bytes)
    OBVIOUS
  <2>3. ~(c >= 128)
    BY <1>1, <1>3
  <2> QED
    BY <1>1, <1>3, <2>1, <2>2, <2>3 DEF c
<1>4. CASE ~(c < 128)
  <2>1. Y!Symbol(b) = <<192 + (c \div 64), 128 + (c % 64)>>
    BY <1>2, <1>4 DEF Y!EncodeCodepoint
  <2>2. c \div 64 \in 2 .. 7 /\ c % 64 \in 0 .. 63 /\ c = (c \div 64) * 64 + (c % 64)
    BY <1>1, <1>4
  <2> DEFINE q == c \div 64
             r == c % 64
  <2>3. 192 + q \in Y!Bytes /\ 128 + r \in Y!Bytes
    BY <2>2 DEF Y!Bytes
  <2>4. <<192 + q, 128 + r>> \in Seq(Y!Bytes)
    BY <2>3
  <2> QED
    BY <1>1, <1>4, <2>1, <2>2, <2>4 DEF c
<1> QED
  BY <1>3, <1>4

\* A symbol takes one byte or two.
LEMMA SymbolLength ==
  ASSUME NEW b \in Y!Bytes
  PROVE  Y!Symbol(b) \in Seq(Y!Bytes) /\ Len(Y!Symbol(b)) \in 1 .. 2
<1> DEFINE c == Y!CodepointForByte(b)
           q == c \div 64
           r == c % 64
<1>1. /\ c \in 0 .. 511 /\ Y!Symbol(b) \in Seq(Y!Bytes)
      /\ c < 128 => Y!Symbol(b) = <<b>>
      /\ c >= 128 => Y!Symbol(b) = <<192 + q, 128 + r>>
  BY SymbolIs
<1> HIDE DEF c, q, r
<1>2. c < 128 \/ c >= 128
  BY <1>1
<1> QED
  BY <1>1, <1>2

\* A code point below 160 or 512 has at most one of the cases.
LEMMA ByteIs ==
  ASSUME NEW c \in Int
  PROVE  /\ c \in Y!Printable => Y!ByteForCodepoint(c) = c
         /\ c \in 256 .. 288 => Y!ByteForCodepoint(c) = c - 256
         /\ c = 383 => Y!ByteForCodepoint(c) = 127
         /\ c = 416 => Y!ByteForCodepoint(c) = 160
         /\ c = 429 => Y!ByteForCodepoint(c) = 173
<1>1. ASSUME c \in Y!Printable PROVE Y!ByteForCodepoint(c) = c
  <2>1. c \notin 256 .. 288 /\ c # 383 /\ c # 416 /\ c # 429
    BY <1>1 DEF Y!Printable
  <2> QED
    BY <1>1, <2>1, Zenon DEF Y!ByteForCodepoint
<1>2. ASSUME c \in 256 .. 288 PROVE Y!ByteForCodepoint(c) = c - 256
  <2>1. c \notin Y!Printable /\ c # 383 /\ c # 416 /\ c # 429
    BY <1>2 DEF Y!Printable
  <2> QED
    BY <1>2, <2>1, Zenon DEF Y!ByteForCodepoint
<1>3. ASSUME c = 383 PROVE Y!ByteForCodepoint(c) = 127
  <2>1. c \notin Y!Printable /\ c \notin 256 .. 288 /\ c # 416 /\ c # 429
    BY <1>3 DEF Y!Printable
  <2> QED
    BY <1>3, <2>1, SMT DEF Y!ByteForCodepoint
<1>4. ASSUME c = 416 PROVE Y!ByteForCodepoint(c) = 160
  <2>1. c \notin Y!Printable /\ c \notin 256 .. 288 /\ c # 383 /\ c # 429
    BY <1>4 DEF Y!Printable
  <2> QED
    BY <1>4, <2>1, SMT DEF Y!ByteForCodepoint
<1>5. ASSUME c = 429 PROVE Y!ByteForCodepoint(c) = 173
  <2>1. c \notin Y!Printable /\ c \notin 256 .. 288 /\ c # 383 /\ c # 416
    BY <1>5 DEF Y!Printable
  <2> QED
    BY <1>5, <2>1, SMT DEF Y!ByteForCodepoint
<1> QED
  BY <1>1, <1>2, <1>3, <1>4, <1>5

\* Whatever the code point, what is written is a byte or nothing.
LEMMA ByteOrNone ==
  ASSUME NEW c
  PROVE  Y!ByteForCodepoint(c) \in Y!Bytes \/ Y!ByteForCodepoint(c) = -1
<1>1. \/ c \in Y!Printable /\ Y!ByteForCodepoint(c) = c
      \/ c \in 256 .. 288 /\ Y!ByteForCodepoint(c) = c - 256
      \/ Y!ByteForCodepoint(c) \in {127, 160, 173, -1}
  BY SMT DEF Y!ByteForCodepoint
<1>2. c \in Y!Printable => c \in Y!Bytes
  BY DEF Y!Printable, Y!Bytes
<1>3. c \in 256 .. 288 => c - 256 \in Y!Bytes
  BY DEF Y!Bytes
<1>4. 127 \in Y!Bytes /\ 160 \in Y!Bytes /\ 173 \in Y!Bytes
  BY DEF Y!Bytes
<1> QED
  BY <1>1, <1>2, <1>3, <1>4

\* A symbol is read back as what it was made of.
LEMMA ReadBack ==
  ASSUME NEW s \in Seq(Y!Bytes), NEW at \in Nat, NEW b \in Y!Bytes, b \notin 128 .. 159,
         at + Len(Y!Symbol(b)) <= Len(s),
         \A n \in 1 .. Len(Y!Symbol(b)) : s[at + n] = Y!Symbol(b)[n]
  PROVE  Y!Width(s, at) = Len(Y!Symbol(b)) /\ Y!ByteForCodepoint(Y!CodepointAt(s, at)) = b
<1> DEFINE c == Y!CodepointForByte(b)
           q == c \div 64
           r == c % 64
<1>1. /\ c \in 0 .. 511 /\ Y!Symbol(b) \in Seq(Y!Bytes)
      /\ c < 128 => /\ b \in 33 .. 126 /\ c = b /\ Y!Symbol(b) = <<b>>
      /\ c >= 128 => /\ Y!Symbol(b) = <<192 + q, 128 + r>> /\ q \in 2 .. 7 /\ r \in 0 .. 63
                     /\ c = q * 64 + r
  BY SymbolIs
<1>2. \/ c = b /\ b \in Y!Printable
      \/ c = 256 + b /\ b \in (0 .. 32) \cup {127, 160, 173}
  BY DEF Y!CodepointForByte, Y!Printable, Y!Bytes
<1> HIDE DEF c
<1>3. Y!ByteForCodepoint(c) = b
  <2>1. CASE c = b /\ b \in Y!Printable
    BY <1>1, <2>1, ByteIs
  <2>2. CASE c = 256 + b /\ b \in 0 .. 32
    <3>1. c \in Int /\ c \in 256 .. 288 /\ c - 256 = b
      BY <1>1, <2>2
    <3> QED
      BY <3>1, ByteIs
  <2>3. CASE c = 256 + b /\ b = 127
    <3>1. c \in Int /\ c = 383
      BY <1>1, <2>3
    <3> QED
      BY <2>3, <3>1, ByteIs
  <2>4. CASE c = 256 + b /\ b = 160
    <3>1. c \in Int /\ c = 416
      BY <1>1, <2>4
    <3> QED
      BY <2>4, <3>1, ByteIs
  <2>5. CASE c = 256 + b /\ b = 173
    <3>1. c \in Int /\ c = 429
      BY <1>1, <2>5
    <3> QED
      BY <2>5, <3>1, ByteIs
  <2> QED
    BY <1>2, <2>1, <2>2, <2>3, <2>4, <2>5
<1>4. Len(s) \in Nat
  OBVIOUS
<1>5. CASE c < 128
  <2>1. Y!Symbol(b) = <<b>> /\ b \in 33 .. 126 /\ c = b
    BY <1>1, <1>5
  <2>2. s[at + 1] = b /\ Len(Y!Symbol(b)) = 1 /\ at + 1 <= Len(s)
    BY <2>1
  <2>3. Y!Width(s, at) = 1
    BY <1>4, <2>1, <2>2 DEF Y!Width
  <2>4. Y!CodepointAt(s, at) = s[at + 1]
    BY <2>3, SMT DEF Y!CodepointAt
  <2> QED
    BY <1>3, <2>1, <2>2, <2>3, <2>4
<1>6. CASE ~(c < 128)
  <2>1. q \in 2 .. 7 /\ r \in 0 .. 63 /\ c = q * 64 + r
    BY <1>1, <1>6
  <2>2. Y!Symbol(b) = <<192 + q, 128 + r>>
    BY <1>1, <1>6
  <2> HIDE DEF q, r
  <2>3. Len(Y!Symbol(b)) = 2 /\ Y!Symbol(b)[1] = 192 + q /\ Y!Symbol(b)[2] = 128 + r
    BY ONLY <2>2
  <2>4. 1 \in 1 .. 2 /\ 2 \in 1 .. 2
    BY ONLY TRUE
  <2>5. s[at + 1] = 192 + q /\ s[at + 2] = 128 + r /\ at + 2 <= Len(s)
    BY <2>3, <2>4
  <2>6. 192 + q \in 192 .. 199 /\ 128 + r \in 128 .. 191
    BY ONLY <2>1
  <2>7. Y!Width(s, at) = 2
    <3> DEFINE x == s[at + 1]
               y == s[at + 2]
    <3>1. x \in 192 .. 199 /\ y \in 128 .. 191 /\ at + 2 <= Len(s)
      BY <2>5, <2>6
    <3>2. Y!Width(s, at) = IF at + 2 <= Len(s) /\ (\A n \in 2 .. 2 : s[at + n] \in 128 .. 191)
                         THEN 2 ELSE 0
      <4>1. ~(x < 128) /\ x < 224
        BY ONLY <3>1
      <4> HIDE DEF y
      <4> QED
        BY ONLY <4>1 DEF Y!Width
    <3>3. \A n \in 2 .. 2 : s[at + n] \in 128 .. 191
      <4>1. \A n \in 2 .. 2 : n = 2
        BY ONLY TRUE
      <4> QED
        BY <3>1, <4>1
    <3> QED
      BY <3>1, <3>2, <3>3
  <2>8. Y!CodepointAt(s, at) = (s[at + 1] % 32) * 64 + Y!Rest(s, at + 2)
    BY <2>7, SMT DEF Y!CodepointAt
  <2>9. (192 + q) % 32 = q /\ (128 + r) % 64 = r
    BY ONLY <2>1
  <2>10. Y!CodepointAt(s, at) = c
    BY <2>1, <2>5, <2>8, <2>9 DEF Y!Rest
  <2> QED
    BY <1>3, <2>3, <2>7, <2>10
<1> QED
  BY <1>5, <1>6

\* What is not read past the end, and how wide it is.
LEMMA WidthIs ==
  ASSUME NEW s \in Seq(Y!Bytes), NEW at \in 0 .. Len(s), at < Len(s), Y!Width(s, at) > 0
  PROVE  /\ Y!Width(s, at) \in 1 .. 4 /\ at + Y!Width(s, at) <= Len(s)
         /\ s[at + 1] < 128 => Y!Width(s, at) = 1 /\ Y!CodepointAt(s, at) = s[at + 1]
<1>1. Len(s) \in Nat /\ at \in Nat
  OBVIOUS
<1>2. s[at + 1] \in Y!Bytes
  <2>1. at + 1 \in 1 .. Len(s)
    BY <1>1
  <2> QED
    BY <2>1, ElementOfSeq
<1>3. Y!Width(s, at) \in 1 .. 4 /\ at + Y!Width(s, at) <= Len(s)
  BY <1>1, <1>2 DEF Y!Width, Y!Bytes
<1>4. ASSUME s[at + 1] < 128 PROVE Y!Width(s, at) = 1 /\ Y!CodepointAt(s, at) = s[at + 1]
  <2>1. Y!Width(s, at) = 1
    BY <1>1, <1>2, <1>4 DEF Y!Width, Y!Bytes
  <2>2. 1 # 2 /\ 1 # 3 /\ 1 # 4
    OBVIOUS
  <2> QED
    BY <2>1, <2>2, SMT DEF Y!CodepointAt
<1> QED
  BY <1>3, <1>4
-----------------------------------------------------------------------------
\* Where the symbols of the bytes that are encoded end in the token.
Ends(e) ==
  /\ e \in [0 .. fed -> Nat] /\ e[0] = 0 /\ e[fed] = Len(piece)
  /\ \A j, k \in 0 .. fed : j < k => e[j] < e[k]
  /\ \A k \in 1 .. fed :
       /\ e[k] = e[k - 1] + Len(Y!Symbol(text[k]))
       /\ \A n \in 1 .. Len(Y!Symbol(text[k])) : piece[e[k - 1] + n] = Y!Symbol(text[k])[n]

Gapless == \A n \in 1 .. Len(text) : text[n] \notin 128 .. 159

\* What is encoded is symbol after symbol, and what has been written is the bytes of so
\* many of them.
SymbolsInv ==
  text # << >> =>
    /\ write_pc \in {"write", "done"} => fed = Len(text)
    /\ \E e : /\ Ends(e)
              /\ Gapless => \E k \in 0 .. fed : offset = e[k] /\ written = SubSeq(text, 1, k)

\* What is no symbol is written as it stands.
AsciiInv == (\A n \in 1 .. Len(piece) : piece[n] < 128) => written = SubSeq(piece, 1, offset)

ProgressInv ==
  /\ write_pc = "idle" =>
       text = << >> /\ piece = << >> /\ fed = 0 /\ offset = 0 /\ written = << >>
  /\ write_pc = "encode" => offset = 0 /\ written = << >>
  /\ write_pc = "done" => offset = Len(piece)

ByteInv == Y!TypeOK /\ ProgressInv /\ SymbolsInv /\ AsciiInv

LEMMA NothingOf ==
  ASSUME NEW s
  PROVE  SubSeq(s, 1, 0) = << >>
BY SubSeqEmpty

LEMMA BytesInit ==
  ASSUME Y!Init
  PROVE  ByteInv
<1>1. /\ fed = 0 /\ offset = 0 /\ written = << >> /\ text = << >> /\ piece = << >>
      /\ write_pc = "idle" /\ << >> \in Seq(Y!Bytes) /\ Len(<< >>) = 0
  BY DEF Y!Init
<1>2. Y!TypeOK
  BY <1>1 DEF Y!TypeOK
<1>3. ProgressInv /\ AsciiInv /\ SymbolsInv
  BY <1>1, NothingOf DEF ProgressInv, AsciiInv, SymbolsInv
<1> QED
  BY <1>2, <1>3 DEF ByteInv

\* A text or a token is begun with.
LEMMA CalledKeeps ==
  ASSUME Y!StringsOfC, ByteInv, Y!Called
  PROVE  ByteInv'
<1>1. /\ fed' = 0 /\ offset' = 0 /\ written' = << >>
      /\ text' \in Seq(Y!Bytes) /\ piece' \in Seq(Y!Bytes)
      /\ write_pc' \in {"encode", "write"} /\ (write_pc' = "write" => text' = << >>)
      /\ (write_pc' = "encode" => piece' = << >>)
  <2>1. \A t \in Texts \cup Tokens : t \in Seq(Y!Bytes)
    <3>1. \A t \in Seq(Y!Bytes \ {0}) : t \in Seq(Y!Bytes)
      BY SeqMonotonic
    <3> QED
      BY <3>1 DEF Y!StringsOfC
  <2>2. write_pc = "idle" /\ << >> \in Seq(Y!Bytes)
    BY DEF Y!Called, Y!Encode, Y!Write
  <2>3. text = << >> /\ piece = << >> /\ fed = 0 /\ offset = 0 /\ written = << >>
    BY <2>2 DEF ByteInv, ProgressInv
  <2> QED
    BY <2>1, <2>2, <2>3 DEF Y!Called, Y!Encode, Y!Write
<1>2. Len(text') \in Nat /\ Len(piece') \in Nat
  BY <1>1
<1>3. Y!TypeOK'
  <2>1. 0 \in 0 .. Len(text') /\ 0 \in 0 .. Len(piece') /\ << >> \in Seq(Y!Bytes)
    BY <1>2
  <2> QED
    BY <1>1, <2>1 DEF Y!TypeOK
<1>4. ProgressInv' /\ AsciiInv'
  BY <1>1, NothingOf DEF ProgressInv, AsciiInv
<1>5. SymbolsInv'
  <2> SUFFICES ASSUME text' # << >>
               PROVE  /\ write_pc' \in {"write", "done"} => fed' = Len(text')
                      /\ \E e : /\ Ends(e)'
                                /\ Gapless' => \E k \in 0 .. fed' :
                                     offset' = e[k] /\ written' = SubSeq(text', 1, k)
    BY DEF SymbolsInv
  <2>1. write_pc' = "encode" /\ piece' = << >> /\ Len(piece') = 0
    BY <1>1
  <2> DEFINE e == [k \in 0 .. 0 |-> 0]
  <2>2. e \in [0 .. 0 -> Nat] /\ e[0] = 0
    OBVIOUS
  <2>3. \A j, k \in 0 .. 0 : ~(j < k)
    OBVIOUS
  <2>4. 1 .. 0 = {} /\ 0 \in 0 .. 0
    OBVIOUS
  <2> HIDE DEF e
  <2>5. Ends(e)'
    BY <1>1, <2>1, <2>2, <2>3, <2>4 DEF Ends
  <2>6. offset' = e[0] /\ written' = SubSeq(text', 1, 0)
    BY <1>1, <2>2, NothingOf
  <2> QED
    BY <1>1, <2>1, <2>4, <2>5, <2>6
<1> QED
  BY <1>3, <1>4, <1>5 DEF ByteInv

\* One more byte is one more symbol.
LEMMA EncodeByteKeeps ==
  ASSUME ByteInv, Y!EncodeByte
  PROVE  ByteInv'
<1>1. /\ write_pc = "encode" /\ write_pc' = write_pc /\ text' = text
      /\ offset' = 0 /\ written' = << >>
      /\ fed \in Nat /\ fed < Len(text) /\ Len(text) \in Nat /\ fed' = fed + 1
      /\ text \in Seq(Y!Bytes) /\ piece \in Seq(Y!Bytes) /\ offset = 0 /\ written = << >>
  BY DEF ByteInv, Y!TypeOK, ProgressInv, Y!EncodeByte
<1> DEFINE y == Y!Symbol(text[fed + 1])
<1>2. text[fed + 1] \in Y!Bytes
  <2>1. fed + 1 \in 1 .. Len(text)
    BY <1>1
  <2> QED
    BY <1>1, <2>1, ElementOfSeq
<1>3. y \in Seq(Y!Bytes) /\ Len(y) \in 1 .. 2
  BY <1>2, SymbolLength
<1>4. piece' = piece \o y
  BY DEF Y!EncodeByte
<1> HIDE DEF y
<1>5. /\ piece' \in Seq(Y!Bytes) /\ Len(piece') = Len(piece) + Len(y)
      /\ \A n \in 1 .. Len(piece) + Len(y) :
           piece'[n] = IF n <= Len(piece) THEN piece[n] ELSE y[n - Len(piece)]
  BY <1>1, <1>3, <1>4, ConcatProperties
<1>6. Len(piece) \in Nat /\ Len(y) \in Nat
  BY <1>1, <1>3
<1>7. Y!TypeOK'
  <2>1. fed + 1 \in 0 .. Len(text)
    BY <1>1
  <2>2. 0 \in 0 .. (Len(piece) + Len(y)) /\ << >> \in Seq(Y!Bytes)
    BY <1>6
  <2> QED
    BY <1>1, <1>5, <2>1, <2>2 DEF Y!TypeOK
<1>8. ProgressInv' /\ AsciiInv'
  BY <1>1, NothingOf DEF ProgressInv, AsciiInv
<1>9. SymbolsInv'
  <2>1. text # << >>
    <3>1. Len(text) # 0
      BY <1>1
    <3> QED
      BY <3>1
  <2>2. PICK e : Ends(e)
    BY <2>1 DEF ByteInv, SymbolsInv
  <2>3. /\ e \in [0 .. fed -> Nat] /\ e[0] = 0 /\ e[fed] = Len(piece)
        /\ \A j, k \in 0 .. fed : j < k => e[j] < e[k]
        /\ \A k \in 1 .. fed :
             /\ e[k] = e[k - 1] + Len(Y!Symbol(text[k]))
             /\ \A n \in 1 .. Len(Y!Symbol(text[k])) : piece[e[k - 1] + n] = Y!Symbol(text[k])[n]
    BY <2>2 DEF Ends
  <2> DEFINE m == fed + 1
             f == [k \in 0 .. m |-> IF k = m THEN Len(piece) + Len(y) ELSE e[k]]
  <2>4. \A k \in 0 .. m : k = m \/ k \in 0 .. fed
    BY <1>1
  <2>5. /\ m \in Nat /\ m - 1 = fed /\ 0 \in 0 .. m /\ 0 # m /\ m \in 0 .. m
        /\ fed \in 0 .. m /\ fed # m /\ fed \in 0 .. fed /\ 0 \in 0 .. fed
        /\ \A k \in 0 .. fed : k \in 0 .. m /\ k # m
    BY <1>1
  <2> HIDE DEF m
  <2>6. /\ f \in [0 .. m -> Nat] /\ f[0] = 0 /\ f[m] = Len(piece) + Len(y)
        /\ \A k \in 0 .. fed : f[k] = e[k]
    BY <1>6, <2>3, <2>4, <2>5
  <2>14. PICK g : /\ g \in [0 .. m -> Nat] /\ g[0] = 0 /\ g[m] = Len(piece) + Len(y)
                  /\ \A k \in 0 .. fed : g[k] = e[k]
    BY <2>6
  <2> HIDE DEF f
  <2>7. \A k \in 0 .. fed : e[k] \in Nat /\ e[k] <= Len(piece)
    <3> SUFFICES ASSUME NEW k \in 0 .. fed PROVE e[k] \in Nat /\ e[k] <= Len(piece)
      OBVIOUS
    <3>1. e[k] \in Nat
      BY <2>3
    <3>2. k = fed \/ k < fed
      BY <1>1
    <3>3. k < fed => e[k] < e[fed]
      BY <2>3, <2>5
    <3> QED
      BY <1>6, <2>3, <3>1, <3>2, <3>3
  <2>8. ASSUME NEW j \in 0 .. m, NEW k \in 0 .. m, j < k PROVE g[j] < g[k]
    <3>1. j \in 0 .. fed
      BY <1>1, <2>8 DEF m
    <3>2. CASE k = m
      <4>1. g[j] = e[j] /\ e[j] \in Nat /\ e[j] <= Len(piece)
        BY <2>14, <2>7, <3>1
      <4>2. \A a \in Nat : a <= Len(piece) => a < Len(piece) + Len(y)
        <5>1. \A a, l, w \in Nat : a <= l /\ w >= 1 => a < l + w
          OBVIOUS
        <5>2. Len(y) >= 1
          <6>1. Len(y) \in 1 .. 2
            BY <1>3
          <6>2. \A w \in 1 .. 2 : w >= 1
            OBVIOUS
          <6> QED
            BY ONLY <6>1, <6>2
        <5> QED
          BY ONLY <1>6, <5>1, <5>2
      <4> QED
        BY <2>14, <3>2, <4>1, <4>2
    <3>3. CASE k \in 0 .. fed
      BY <2>3, <2>14, <2>8, <3>1, <3>3
    <3> QED
      BY <2>4, <3>2, <3>3
  <2>9. ASSUME NEW k \in 1 .. m
        PROVE  /\ g[k] = g[k - 1] + Len(Y!Symbol(text[k]))
               /\ \A n \in 1 .. Len(Y!Symbol(text[k])) : piece'[g[k - 1] + n] = Y!Symbol(text[k])[n]
    <3>1. CASE k = m
      <4>1. g[k] = Len(piece) + Len(y) /\ k - 1 = fed /\ g[k - 1] = Len(piece)
        BY <2>3, <2>5, <2>14, <3>1
      <4>2. Y!Symbol(text[k]) = y
        BY <3>1 DEF y, m
      <4>3. ASSUME NEW n \in 1 .. Len(y) PROVE piece'[Len(piece) + n] = y[n]
        <5>1. /\ Len(piece) + n \in 1 .. Len(piece) + Len(y) /\ ~(Len(piece) + n <= Len(piece))
              /\ (Len(piece) + n) - Len(piece) = n
          BY <1>6
        <5> QED
          BY <1>5, <5>1
      <4> QED
        BY <4>1, <4>2, <4>3
    <3>2. CASE k \in 1 .. fed
      <4> DEFINE z == Y!Symbol(text[k])
      <4>1. k - 1 \in 0 .. fed /\ k \in 0 .. fed
        BY <1>1, <3>2
      <4>2. g[k] = e[k] /\ g[k - 1] = e[k - 1] /\ e[k] = e[k - 1] + Len(z)
            /\ \A n \in 1 .. Len(z) : piece[e[k - 1] + n] = z[n]
        BY <2>3, <2>14, <3>2, <4>1
      <4>3. Len(z) \in Nat
        <5>1. k \in 1 .. Len(text)
          BY <1>1, <3>2
        <5>2. text[k] \in Y!Bytes
          BY <1>1, <5>1, ElementOfSeq
        <5>3. z \in Seq(Y!Bytes)
          BY <5>2, SymbolIs
        <5> QED
          BY <5>3
      <4>4. e[k - 1] \in Nat /\ e[k] \in Nat /\ e[k] <= Len(piece)
        BY <2>7, <4>1
      <4> HIDE DEF z
      <4>5. ASSUME NEW n \in 1 .. Len(z) PROVE piece'[e[k - 1] + n] = z[n]
        <5>1. e[k - 1] + n \in 1 .. Len(piece) + Len(y) /\ e[k - 1] + n <= Len(piece)
          BY <1>6, <4>2, <4>3, <4>4
        <5>2. piece'[e[k - 1] + n] = piece[e[k - 1] + n]
          BY <1>5, <5>1
        <5> QED
          BY <4>2, <5>2
      <4> QED
        BY <4>2, <4>5 DEF z
    <3>3. k = m \/ k \in 1 .. fed
      BY <1>1 DEF m
    <3> QED
      BY <3>1, <3>2, <3>3
  <2>10. fed' = m
    BY <1>1 DEF m
  <2>11. Ends(g)'
    BY <1>1, <1>5, <2>14, <2>8, <2>9, <2>10 DEF Ends
  <2>12. offset' = g[0] /\ written' = SubSeq(text', 1, 0)
    BY <1>1, <2>14, NothingOf
  <2>13. \E k \in 0 .. fed' : offset' = g[k] /\ written' = SubSeq(text', 1, k)
    BY <2>5, <2>10, <2>12
  <2> QED
    BY <1>1, <2>11, <2>13 DEF SymbolsInv, Gapless
<1> QED
  BY <1>7, <1>8, <1>9 DEF ByteInv

\* A step that writes moves on by what it has read, in UTF-8 or not.
LEMMA WriteSymbolKeeps ==
  ASSUME ByteInv, Y!WriteSymbol
  PROVE  ByteInv'
<1> DEFINE at == offset
           l == Y!Width(piece, offset)
           c == Y!CodepointAt(piece, offset)
<1>1. /\ write_pc = "write" /\ write_pc' = write_pc /\ text' = text /\ fed' = fed /\ piece' = piece
      /\ offset < Len(piece) /\ l > 0 /\ offset' = offset + l
      /\ text \in Seq(Y!Bytes) /\ piece \in Seq(Y!Bytes) /\ written \in Seq(Y!Bytes)
      /\ fed \in 0 .. Len(text) /\ offset \in 0 .. Len(piece)
  BY DEF ByteInv, Y!TypeOK, Y!WriteSymbol
<1>2. written' = IF Y!ByteForCodepoint(c) >= 0 THEN Append(written, Y!ByteForCodepoint(c))
                 ELSE written \o SubSeq(piece, offset + 1, offset + l)
  BY DEF Y!WriteSymbol
<1>3. l \in 1 .. 4 /\ offset + l <= Len(piece)
      /\ (piece[offset + 1] < 128 => l = 1 /\ c = piece[offset + 1])
  BY <1>1, WidthIs
<1>4. Len(piece) \in Nat /\ offset \in Nat /\ Len(text) \in Nat /\ fed \in Nat
  BY <1>1
<1> HIDE DEF l, c
<1>5. offset + l \in 0 .. Len(piece)
  BY <1>3, <1>4
<1>6. \A n \in 1 .. Len(piece) : piece[n] \in Y!Bytes
  BY <1>1, ElementOfSeq
<1>7. SubSeq(piece, offset + 1, offset + l) \in Seq(Y!Bytes)
  <2>1. \A n \in offset + 1 .. offset + l : piece[n] \in Y!Bytes
    BY <1>3, <1>4, <1>6
  <2>2. offset + 1 \in Int /\ offset + l \in Int
    BY <1>3, <1>4
  <2> QED
    BY <2>1, <2>2, SubSeqProperties
<1>8. written' \in Seq(Y!Bytes)
  <2>1. Y!ByteForCodepoint(c) \in Y!Bytes \/ Y!ByteForCodepoint(c) = -1
    BY ByteOrNone
  <2>2. Y!ByteForCodepoint(c) >= 0 => Y!ByteForCodepoint(c) \in Y!Bytes
    BY <2>1
  <2>3. Y!ByteForCodepoint(c) >= 0 => Append(written, Y!ByteForCodepoint(c)) \in Seq(Y!Bytes)
    BY <1>1, <2>2, AppendProperties
  <2>4. written \o SubSeq(piece, offset + 1, offset + l) \in Seq(Y!Bytes)
    BY <1>1, <1>7, ConcatProperties
  <2> QED
    BY <1>2, <2>3, <2>4
<1>9. Y!TypeOK'
  BY <1>1, <1>5, <1>8 DEF Y!TypeOK
<1>10. ProgressInv'
  BY <1>1 DEF ProgressInv
<1>11. AsciiInv'
  <2> SUFFICES ASSUME \A n \in 1 .. Len(piece) : piece[n] < 128
               PROVE  written' = SubSeq(piece, 1, offset + l)
    BY <1>1 DEF AsciiInv
  <2>1. written = SubSeq(piece, 1, offset)
    BY DEF ByteInv, AsciiInv
  <2>2. offset + 1 \in 1 .. Len(piece)
    BY <1>1, <1>4
  <2> DEFINE x == piece[offset + 1]
  <2>3. l = 1 /\ c = x /\ x \in Y!Bytes /\ x < 128
    BY <1>3, <1>6, <2>2
  <2> HIDE DEF x
  <2>4. SubSeq(piece, 1, offset + 1) = SubSeq(piece, 1, offset) \o <<x>>
    <3>1. 1 \in 1 .. Len(piece) /\ (offset + 1) - 1 = offset
      BY <1>4, <2>2
    <3>2. SubSeq(piece, 1, offset + 1) = SubSeq(piece, 1, (offset + 1) - 1) \o <<x>>
      BY <1>1, <2>2, <3>1, SubSeqRecursiveSecond DEF x
    <3> QED
      BY <3>1, <3>2
  <2>5. SubSeq(piece, offset + 1, offset + 1) = <<x>>
    BY <1>1, <2>2, SubSeqOne DEF x
  <2>6. Y!ByteForCodepoint(c) = x \/ Y!ByteForCodepoint(c) = -1
    <3>1. x \in Int /\ (x \in Y!Printable \/ x \in 0 .. 32 \/ x = 127)
      BY <2>3 DEF Y!Bytes, Y!Printable
    <3>2. x \in Y!Printable => Y!ByteForCodepoint(x) = x
      BY <3>1, ByteIs
    <3>3. x \in (0 .. 32) \cup {127} => Y!ByteForCodepoint(x) = -1
      <4> SUFFICES ASSUME x \in 0 .. 32 \/ x = 127 PROVE Y!ByteForCodepoint(x) = -1
        OBVIOUS
      <4>1. /\ x \notin Y!Printable /\ x \notin 256 .. 288 /\ x # 383 /\ x # 416 /\ x # 429
        BY <3>1 DEF Y!Printable
      <4> QED
        BY <3>1, <4>1, SMT DEF Y!ByteForCodepoint
    <3> QED
      BY <2>3, <3>1, <3>2, <3>3
  <2>7. Append(written, x) = written \o <<x>>
    BY <1>1, <2>3, AppendIsConcat
  <2>8. CASE Y!ByteForCodepoint(c) = x
    <3>1. x >= 0
      BY <2>3 DEF Y!Bytes
    <3>2. written' = Append(written, x)
      BY <1>2, <2>8, <3>1
    <3> QED
      BY <2>1, <2>3, <2>4, <2>7, <3>2
  <2>9. CASE Y!ByteForCodepoint(c) = -1
    <3>1. written' = written \o SubSeq(piece, offset + 1, offset + l)
      BY <1>2, <2>9
    <3> QED
      BY <2>1, <2>3, <2>4, <2>5, <3>1
  <2> QED
    BY <2>6, <2>8, <2>9
<1>12. SymbolsInv'
  <2> SUFFICES ASSUME text # << >>
               PROVE  /\ fed = Len(text)
                      /\ \E e : /\ Ends(e)'
                                /\ Gapless => \E k \in 0 .. fed : /\ offset + l = e[k]
                                                                  /\ written' = SubSeq(text, 1, k)
    BY <1>1 DEF SymbolsInv, Gapless
  <2>1. fed = Len(text)
    BY <1>1 DEF ByteInv, SymbolsInv
  <2>2. PICK e : /\ Ends(e)
                 /\ Gapless => \E k \in 0 .. fed : offset = e[k] /\ written = SubSeq(text, 1, k)
    BY DEF ByteInv, SymbolsInv
  <2>3. Ends(e)'
    BY <1>1, <2>2 DEF Ends
  <2>4. ASSUME Gapless
        PROVE  \E k \in 0 .. fed : offset + l = e[k] /\ written' = SubSeq(text, 1, k)
    <3>1. PICK k \in 0 .. fed : offset = e[k] /\ written = SubSeq(text, 1, k)
      BY <2>2, <2>4
    <3>2. k \in Nat /\ k < fed
      <4>1. k # fed
        BY <1>1, <1>4, <2>2, <3>1 DEF Ends
      <4> QED
        BY <1>4, <4>1
    <3> DEFINE b == text[k + 1]
    <3>3. k + 1 \in 1 .. fed /\ (k + 1) - 1 = k /\ k + 1 \in 0 .. fed /\ k + 1 \in 1 .. Len(text)
      BY <1>4, <2>1, <3>2
    <3>4. b \in Y!Bytes /\ b \notin 128 .. 159
      BY <1>1, <2>4, <3>3, ElementOfSeq DEF Gapless
    <3>5. /\ e[k + 1] = offset + Len(Y!Symbol(b)) /\ e[k + 1] \in Nat
          /\ \A n \in 1 .. Len(Y!Symbol(b)) : piece[offset + n] = Y!Symbol(b)[n]
      BY <2>2, <3>1, <3>3 DEF Ends
    <3>6. e[k + 1] <= Len(piece)
      <4>1. k + 1 = fed \/ k + 1 < fed
        BY <1>4, <3>2
      <4>2. k + 1 < fed => e[k + 1] < e[fed]
        <5>1. fed \in 0 .. fed
          BY <1>4
        <5> QED
          BY <2>2, <3>3, <5>1 DEF Ends
      <4>3. e[fed] = Len(piece)
        BY <2>2 DEF Ends
      <4> QED
        BY <1>4, <3>5, <4>1, <4>2, <4>3
    <3>7. l = Len(Y!Symbol(b)) /\ Y!ByteForCodepoint(c) = b
      <4>1. offset + Len(Y!Symbol(b)) <= Len(piece)
        BY <3>5, <3>6
      <4> HIDE DEF b
      <4> QED
        BY <1>1, <1>4, <3>4, <3>5, <4>1, ReadBack DEF l, c
    <3>8. written' = Append(SubSeq(text, 1, k), b)
      <4>1. b >= 0
        <5> HIDE DEF b
        <5> QED
          BY ONLY <3>4 DEF Y!Bytes
      <4> QED
        BY <1>2, <3>1, <3>7, <4>1
    <3>9. SubSeq(text, 1, k + 1) = SubSeq(text, 1, k) \o <<b>>
      <4>1. 1 \in 1 .. Len(text)
        BY <1>4, <3>3
      <4>2. SubSeq(text, 1, k + 1) = SubSeq(text, 1, (k + 1) - 1) \o <<text[k + 1]>>
        BY <1>1, <3>3, <4>1, SubSeqRecursiveSecond
      <4> QED
        BY <3>3, <4>2
    <3>10. Append(SubSeq(text, 1, k), b) = SubSeq(text, 1, k) \o <<b>>
      <4>1. SubSeq(text, 1, k) \in Seq(Y!Bytes)
        BY <1>1, <3>1
      <4> HIDE DEF b
      <4> QED
        BY <3>4, <4>1, AppendIsConcat
    <3> QED
      BY <3>3, <3>5, <3>7, <3>8, <3>9, <3>10
  <2> QED
    BY <2>1, <2>3, <2>4
<1> QED
  BY <1>9, <1>10, <1>11, <1>12 DEF ByteInv

\* The other steps change how far the call is.
LEMMA OthersKeep ==
  ASSUME ByteInv, Y!EncodeFails \/ Y!Encoded \/ Y!WriteFails \/ Y!Written \/ UNCHANGED writing
  PROVE  ByteInv'
<1>1. /\ text' = text /\ fed' = fed /\ piece' = piece /\ offset' = offset /\ written' = written
      /\ write_pc' = "done" => offset = Len(piece)
      /\ write_pc' = "encode" => write_pc = "encode"
      /\ write_pc' \in {"write", "done"} => write_pc \in {"write", "done"} \/ fed = Len(text)
      /\ write_pc' = "idle" => write_pc = "idle"
      /\ write_pc' \in {"idle", "encode", "write", "done", "failed"}
  BY DEF Y!EncodeFails, Y!Encoded, Y!WriteFails, Y!Written, writing, ByteInv, Y!TypeOK, ProgressInv
<1>2. Y!TypeOK' /\ ProgressInv' /\ AsciiInv'
  BY <1>1 DEF ByteInv, Y!TypeOK, ProgressInv, AsciiInv
<1>3. \A e : Ends(e)' <=> Ends(e)
  BY <1>1 DEF Ends
<1>4. SymbolsInv'
  BY <1>1, <1>3 DEF ByteInv, SymbolsInv, Gapless
<1> QED
  BY <1>2, <1>4 DEF ByteInv

\* The inductive invariant of encoding a segment byte by byte and writing a token symbol by
\* symbol (encode_segment, mlmc_tokenizer_write_token), for any texts and tokens.
THEOREM BytesHold == Spec => []ByteInv
<1>1. OutputInit => ByteInv
  BY BytesInit DEF OutputInit
<1>2. ByteInv /\ [Next]_all => ByteInv'
  <2> SUFFICES ASSUME ByteInv, Y!Called \/ Y!Step \/ UNCHANGED writing PROVE ByteInv'
    BY DEF Next, Sampling, Writing, WriteDrawn, Ended, all
  <2>1. CASE Y!Called
    BY <2>1, CalledKeeps, StringsAssumption
  <2>2. CASE Y!EncodeByte
    BY <2>2, EncodeByteKeeps
  <2>3. CASE Y!WriteSymbol
    BY <2>3, WriteSymbolKeeps
  <2>4. CASE Y!EncodeFails \/ Y!Encoded \/ Y!WriteFails \/ Y!Written \/ UNCHANGED writing
    BY <2>4, OthersKeep
  <2> QED
    BY <2>1, <2>2, <2>3, <2>4 DEF Y!Step
<1> QED
  BY <1>1, <1>2, PTL DEF Spec

\* What is encoded, and what reaches the stream, are bytes, and no place runs past its
\* string (tokenizer.c:679-703).
THEOREM BytesTyped == Spec => []TypeOK
<1>1. ByteInv => TypeOK
  BY DEF ByteInv, TypeOK
<1> QED
  BY <1>1, BytesHold, PTL

\* A token of plain ASCII, such as "<|im_start|>", reaches the stream as it stands
\* (tokenizer.c:690-697).
THEOREM AsciiWritten == Spec => []AsciiUnchanged
<1>1. ASSUME ByteInv PROVE AsciiUnchanged
  <2> SUFFICES ASSUME write_pc = "done", \A n \in 1 .. Len(piece) : piece[n] < 128
               PROVE  written = piece
    BY DEF AsciiUnchanged, Y!AsciiUnchanged
  <2>1. written = SubSeq(piece, 1, Len(piece)) /\ piece \in Seq(Y!Bytes)
    BY <1>1 DEF ByteInv, AsciiInv, ProgressInv, Y!TypeOK
  <2> QED
    BY <2>1, SubSeqFull
<1> QED
  BY <1>1, BytesHold, PTL

\* A text without bytes 128 to 159 that was encoded is written back: a prefix of it at
\* every symbol, and all of it at the end (tokenizer.c:283-289, 316-335).
THEOREM TextComesBack == Spec => []SymbolsTranslatedBackOutsideGap
<1>1. ASSUME ByteInv PROVE SymbolsTranslatedBackOutsideGap
  <2> SUFFICES ASSUME text # << >>, Gapless
               PROVE  Y!IsPrefix(written, text) /\ (write_pc = "done" => written = text)
    BY DEF SymbolsTranslatedBackOutsideGap, Y!SymbolsTranslatedBackOutsideGap, Gapless
  <2>1. PICK e : /\ Ends(e)
                 /\ \E k \in 0 .. fed : offset = e[k] /\ written = SubSeq(text, 1, k)
    BY <1>1 DEF ByteInv, SymbolsInv
  <2>2. PICK k \in 0 .. fed : offset = e[k] /\ written = SubSeq(text, 1, k)
    BY <2>1
  <2>3. /\ text \in Seq(Y!Bytes) /\ Len(text) \in Nat /\ fed \in Nat /\ fed <= Len(text)
        /\ k \in Nat /\ k <= fed /\ written \in Seq(Y!Bytes)
    BY <1>1, <2>2 DEF ByteInv, Y!TypeOK
  <2>4. ASSUME write_pc = "done" PROVE written = text
    <3>1. offset = Len(piece) /\ fed = Len(text)
      BY <1>1, <2>4 DEF ByteInv, ProgressInv, SymbolsInv
    <3>2. k = fed
      <4>1. e[fed] = Len(piece) /\ (k < fed => e[k] < e[fed]) /\ e[k] = Len(piece) /\ e[k] \in Nat
        <5>1. fed \in 0 .. fed
          BY <2>3
        <5> QED
          BY <2>1, <2>2, <3>1, <5>1 DEF Ends
      <4> QED
        BY <2>3, <4>1
    <3> QED
      BY <2>2, <2>3, <3>1, <3>2, SubSeqFull
  <2>5. Y!IsPrefix(written, text)
    <3>1. k \in 0 .. Len(text)
      BY <2>3
    <3>2. Len(written) = k
      BY <2>2, <2>3, <3>1, PartIs
    <3>3. SubSeq(written, 1, Len(written)) = written
      BY <2>3, SubSeqFull
    <3> QED
      BY <2>2, <2>3, <3>2, <3>3 DEF Y!IsPrefix
  <2> QED
    BY <2>4, <2>5
<1> QED
  BY <1>1, BytesHold, PTL
=============================================================================
