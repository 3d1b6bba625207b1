---------------------------- MODULE ModelProofs ----------------------------
(***************************************************************************)
(* Proofs about the tensors of a model, for any types, shapes and sizes:   *)
(* the size the loader checks for a tensor is its size, and no kernel      *)
(* reads outside it.  For every file gguf_load accepts, a model that       *)
(* loaded passes every check a forward pass makes again, for any number of *)
(* layers.                                                                 *)
(***************************************************************************)
EXTENDS Model, SequenceLemmas

\* size_t is as wide as uint64_t.
SameWidth == Shapes \subseteq Seq(1 .. SizeMax)

\* A product grows with its first factor.
LEMMA ProductGrows ==
  ASSUME NEW a \in Nat, NEW b \in Nat, NEW n \in Nat, a <= b
  PROVE  a * n <= b * n
<1>1. PICK d \in Nat : b = a + d
  <2>1. b - a \in Nat /\ b = a + (b - a)
    OBVIOUS
  <2> QED
    BY <2>1
<1>2. b * n = a * n + d * n /\ d * n \in Nat /\ a * n \in Nat
  BY <1>1
<1> QED
  BY <1>2

\* The check by division is the one of the product.
LEMMA DivisionChecks ==
  ASSUME NEW m \in Nat, NEW v \in Nat, NEW n \in Nat \ {0}
  PROVE  v > m \div n <=> v * n > m
<1> DEFINE q == m \div n
<1>1. q \in Nat /\ q * n <= m /\ m < q * n + n
  <2>1. q \in Nat /\ m % n \in 0 .. n - 1 /\ m = n * q + (m % n)
    OBVIOUS
  <2>2. n * q = q * n /\ q * n \in Nat
    BY <2>1
  <2> HIDE DEF q
  <2> QED
    BY <2>1, <2>2
<1> HIDE DEF q
<1>2. CASE v > q
  <2>1. (q + 1) * n <= v * n
    BY <1>1, <1>2, ProductGrows
  <2>2. (q + 1) * n = q * n + n /\ v * n \in Nat /\ q * n \in Nat
    BY <1>1
  <2> QED
    BY <1>1, <1>2, <2>1, <2>2
<1>3. CASE v <= q
  <2>1. v * n <= q * n /\ v * n \in Nat /\ q * n \in Nat
    BY <1>1, <1>3, ProductGrows
  <2> QED
    BY <1>1, <1>3, <2>1
<1>4. v > q \/ v <= q
  BY <1>1
<1> QED
  BY <1>2, <1>3, <1>4 DEF q

Counts == {Overflow} \cup (0 .. SizeMax)

\* One step of the size: exact, or refused because it would not fit.
LEMMA TimesIs ==
  ASSUME TensorRowsAssumption, NEW v \in 0 .. SizeMax, NEW n \in 1 .. SizeMax
  PROVE  /\ Times(v, n) = IF v * n > SizeMax THEN Overflow ELSE v * n
         /\ Times(v, n) \in Counts /\ Times(Overflow, n) = Overflow
<1>1. SizeMax \in Nat /\ v \in Nat /\ n \in Nat \ {0} /\ v # Overflow /\ v * n \in Nat
  BY TensorRowsAssumption DEF Overflow
<1>2. v > SizeMax \div n <=> v * n > SizeMax
  BY <1>1, DivisionChecks
<1>3. \A p \in Nat : p <= SizeMax => AsSize(p) = p
  BY <1>1 DEF AsSize
<1>4. Times(v, n) = IF v * n > SizeMax THEN Overflow ELSE v * n
  BY <1>1, <1>2, <1>3 DEF Times
<1>5. Times(Overflow, n) = Overflow
  BY DEF Times
<1>6. v * n > SizeMax \/ v * n \in 0 .. SizeMax
  BY <1>1
<1> QED
  BY <1>4, <1>5, <1>6 DEF Counts

\* The same of any two of them.
LEMMA TimesCounts ==
  ASSUME TensorRowsAssumption, NEW v \in Counts, NEW n \in 1 .. SizeMax
  PROVE  Times(v, n) \in Counts
<1>1. Overflow \in Counts
  BY DEF Counts
<1> QED
  BY <1>1, TimesIs DEF Counts

\* The lesser of two.
LEMMA LesserIs ==
  ASSUME NEW a \in Int, NEW b \in Int
  PROVE  Min({a, b}) = IF a <= b THEN a ELSE b
<1> DEFINE m == IF a <= b THEN a ELSE b
<1>1. m \in {a, b} /\ \A y \in {a, b} : m <= y
  OBVIOUS
<1>2. \A x \in {a, b} : (\A y \in {a, b} : x <= y) => x = m
  OBVIOUS
<1> HIDE DEF m
<1>3. (CHOOSE x \in {a, b} : \A y \in {a, b} : x <= y) = m
  BY <1>1, <1>2
<1> QED
  BY <1>3 DEF Min, m

CappedSizes == 0 .. SizeMax + 1

\* One step of the size as a number.
LEMMA CappedIs ==
  ASSUME TensorRowsAssumption, NEW v \in CappedSizes, NEW n \in 1 .. SizeMax
  PROVE  /\ Capped(v, n) \in CappedSizes
         /\ Capped(v, n) = IF v * n > SizeMax THEN SizeMax + 1 ELSE v * n
<1>1. SizeMax \in Nat /\ v * n \in Nat
  BY TensorRowsAssumption DEF CappedSizes
<1>2. Capped(v, n) = IF v * n <= SizeMax + 1 THEN v * n ELSE SizeMax + 1
  BY <1>1, LesserIs DEF Capped
<1> QED
  BY <1>1, <1>2 DEF CappedSizes

\* What the folds come to, place after place.
SizeRuns(h, b, s) ==
  /\ h \in [0 .. Len(s) -> Counts] /\ h[0] = b
  /\ \A k \in 1 .. Len(s) : h[k] = Times(h[k - 1], s[k])

CappedRuns(h, b, s) ==
  /\ h \in [0 .. Len(s) -> CappedSizes] /\ h[0] = b
  /\ \A k \in 1 .. Len(s) : h[k] = Capped(h[k - 1], s[k])

\* The size is multiplied up dimension by dimension.
LEMMA SizeFold ==
  ASSUME TensorRowsAssumption, NEW b \in 0 .. SizeMax, NEW s \in Seq(1 .. SizeMax)
  PROVE  \E h : SizeRuns(h, b, s) /\ FoldLeft(Times, b, s) = h[Len(s)]
<1> DEFINE n == Len(s)
           g == [p \in (1 .. n) \X Counts |-> Times(p[2], s[p[1]])]
           Iter(f) == f = [S \in SUBSET DOMAIN s |->
                             IF S = {} THEN b ELSE Times(f[S \ {Max(S)}], s[Max(S)])]
           c == CHOOSE f : Iter(f)
<1>1. n \in Nat /\ DOMAIN s = 1 .. n /\ b \in Counts /\ \A k \in 1 .. n : s[k] \in 1 .. SizeMax
  BY DEF Counts
<1>2. \A k \in 1 .. n, v \in Counts : Times(v, s[k]) \in Counts
  BY <1>1, TimesCounts
<1>3. /\ g \in [(1 .. n) \X Counts -> Counts]
      /\ \A k \in 1 .. n, v \in Counts : g[<<k, v>>] = Times(v, s[k])
  BY <1>2
<1> HIDE DEF n, g
<1>4. \A S \in SUBSET (1 .. n) : S # {} => Max(S) \in 1 .. n
  BY <1>1, MaxUpTo
<1>5. PICK f \in [SUBSET (1 .. n) -> Counts] : Folds(n, b, g, f)
  BY <1>1, <1>3, FoldExists
<1>6. Iter(f)
  <2>1. ASSUME NEW S \in SUBSET (1 .. n)
        PROVE  (IF S = {} THEN b ELSE g[<<Max(S), f[S \ {Max(S)}]>>])
                 = IF S = {} THEN b ELSE Times(f[S \ {Max(S)}], s[Max(S)])
    <3>1. S # {} => Max(S) \in 1 .. n /\ f[S \ {Max(S)}] \in Counts
      BY <1>4, <1>5
    <3> QED
      BY <1>3, <3>1
  <2>2. f = [S \in SUBSET (1 .. n) |-> IF S = {} THEN b ELSE g[<<Max(S), f[S \ {Max(S)}]>>]]
    BY <1>5 DEF Folds
  <2> QED
    BY <1>1, <2>1, <2>2
<1>7. Iter(c)
  BY <1>6
<1> HIDE DEF c
<1>8. c[{}] = b
  BY <1>1, <1>7
<1>9. ASSUME NEW S \in SUBSET (1 .. n), S # {}, c[S \ {Max(S)}] \in Counts
      PROVE  c[S] = g[<<Max(S), c[S \ {Max(S)}]>>]
  <2>1. c[S] = Times(c[S \ {Max(S)}], s[Max(S)])
    BY <1>1, <1>7, <1>9
  <2> QED
    BY <1>3, <1>4, <1>9, <2>1
<1>10. /\ \A k \in 0 .. n : c[1 .. k] \in Counts
       /\ c[1 .. 0] = b /\ \A k \in 1 .. n : c[1 .. k] = g[<<k, c[1 .. k - 1]>>]
  <2>1. \A S \in SUBSET (1 .. n) : S # {} /\ c[S \ {Max(S)}] \in Counts =>
          c[S] = g[<<Max(S), c[S \ {Max(S)}]>>]
    BY <1>9
  <2>2. FoldsInto(n, Counts, b, g, c)
    BY <1>8, <2>1 DEF FoldsInto
  <2>3. n \in Nat /\ b \in Counts /\ g \in [(1 .. n) \X Counts -> Counts]
    BY <1>1, <1>3
  <2>4. Traced(n, Counts, b, g, c)
    BY <2>2, <2>3, FoldRuns, Zenon
  <2> QED
    BY <2>4 DEF Traced
<1>11. FoldLeft(Times, b, s) = c[1 .. n]
  <2>1. FoldLeft(Times, b, s) = c[DOMAIN s]
    BY DEF FoldLeft, MapThenFoldSet, c
  <2> QED
    BY <1>1, <2>1
<1> DEFINE h == [k \in 0 .. n |-> c[1 .. k]]
<1>12. h \in [0 .. n -> Counts] /\ h[0] = b /\ h[n] = c[1 .. n]
  BY <1>1, <1>10
<1>13. ASSUME NEW k \in 1 .. n PROVE h[k] = Times(h[k - 1], s[k])
  <2>1. k \in 0 .. n /\ k - 1 \in 0 .. n
    BY <1>1
  <2> QED
    BY <1>3, <1>10, <2>1
<1> HIDE DEF h
<1>14. SizeRuns(h, b, s)
  BY <1>12, <1>13 DEF SizeRuns, n
<1> QED
  BY <1>11, <1>12, <1>14 DEF n
\* The same of the size as a number.
LEMMA CappedFold ==
  ASSUME TensorRowsAssumption, NEW b \in 0 .. SizeMax, NEW s \in Seq(1 .. SizeMax)
  PROVE  \E h : CappedRuns(h, b, s) /\ FoldLeft(Capped, b, s) = h[Len(s)]
<1> DEFINE n == Len(s)
           g == [p \in (1 .. n) \X CappedSizes |-> Capped(p[2], s[p[1]])]
           Iter(f) == f = [S \in SUBSET DOMAIN s |->
                             IF S = {} THEN b ELSE Capped(f[S \ {Max(S)}], s[Max(S)])]
           c == CHOOSE f : Iter(f)
<1>1. n \in Nat /\ DOMAIN s = 1 .. n /\ b \in CappedSizes /\ \A k \in 1 .. n : s[k] \in 1 .. SizeMax
  BY DEF CappedSizes
<1>2. \A k \in 1 .. n, v \in CappedSizes : Capped(v, s[k]) \in CappedSizes
  BY <1>1, CappedIs
<1>3. /\ g \in [(1 .. n) \X CappedSizes -> CappedSizes]
      /\ \A k \in 1 .. n, v \in CappedSizes : g[<<k, v>>] = Capped(v, s[k])
  BY <1>2
<1> HIDE DEF n, g
<1>4. \A S \in SUBSET (1 .. n) : S # {} => Max(S) \in 1 .. n
  BY <1>1, MaxUpTo
<1>5. PICK f \in [SUBSET (1 .. n) -> CappedSizes] : Folds(n, b, g, f)
  BY <1>1, <1>3, FoldExists
<1>6. Iter(f)
  <2>1. ASSUME NEW S \in SUBSET (1 .. n)
        PROVE  (IF S = {} THEN b ELSE g[<<Max(S), f[S \ {Max(S)}]>>])
                 = IF S = {} THEN b ELSE Capped(f[S \ {Max(S)}], s[Max(S)])
    <3>1. S # {} => Max(S) \in 1 .. n /\ f[S \ {Max(S)}] \in CappedSizes
      BY <1>4, <1>5
    <3> QED
      BY <1>3, <3>1
  <2>2. f = [S \in SUBSET (1 .. n) |-> IF S = {} THEN b ELSE g[<<Max(S), f[S \ {Max(S)}]>>]]
    BY <1>5 DEF Folds
  <2> QED
    BY <1>1, <2>1, <2>2
<1>7. Iter(c)
  BY <1>6
<1> HIDE DEF c
<1>8. c[{}] = b
  BY <1>1, <1>7
<1>9. ASSUME NEW S \in SUBSET (1 .. n), S # {}, c[S \ {Max(S)}] \in CappedSizes
      PROVE  c[S] = g[<<Max(S), c[S \ {Max(S)}]>>]
  <2>1. c[S] = Capped(c[S \ {Max(S)}], s[Max(S)])
    BY <1>1, <1>7, <1>9
  <2> QED
    BY <1>3, <1>4, <1>9, <2>1
<1>10. /\ \A k \in 0 .. n : c[1 .. k] \in CappedSizes
       /\ c[1 .. 0] = b /\ \A k \in 1 .. n : c[1 .. k] = g[<<k, c[1 .. k - 1]>>]
  <2>1. \A S \in SUBSET (1 .. n) : S # {} /\ c[S \ {Max(S)}] \in CappedSizes =>
          c[S] = g[<<Max(S), c[S \ {Max(S)}]>>]
    BY <1>9
  <2>2. FoldsInto(n, CappedSizes, b, g, c)
    BY <1>8, <2>1 DEF FoldsInto
  <2>3. n \in Nat /\ b \in CappedSizes /\ g \in [(1 .. n) \X CappedSizes -> CappedSizes]
    BY <1>1, <1>3
  <2>4. Traced(n, CappedSizes, b, g, c)
    BY <2>2, <2>3, FoldRuns, Zenon
  <2> QED
    BY <2>4 DEF Traced
<1>11. FoldLeft(Capped, b, s) = c[1 .. n]
  <2>1. FoldLeft(Capped, b, s) = c[DOMAIN s]
    BY DEF FoldLeft, MapThenFoldSet, c
  <2> QED
    BY <1>1, <2>1
<1> DEFINE h == [k \in 0 .. n |-> c[1 .. k]]
<1>12. h \in [0 .. n -> CappedSizes] /\ h[0] = b /\ h[n] = c[1 .. n]
  BY <1>1, <1>10
<1>13. ASSUME NEW k \in 1 .. n PROVE h[k] = Capped(h[k - 1], s[k])
  <2>1. k \in 0 .. n /\ k - 1 \in 0 .. n
    BY <1>1
  <2> QED
    BY <1>3, <1>10, <2>1
<1> HIDE DEF h
<1>14. CappedRuns(h, b, s)
  BY <1>12, <1>13 DEF CappedRuns, n
<1> QED
  BY <1>11, <1>12, <1>14 DEF n
-----------------------------------------------------------------------------
\* A tensor of a file.
OfFile == type \in DOMAIN Types /\ dims \in Shapes

Blocks == Head(dims) \div Types[type].block

\* The parts its size is multiplied from.
LEMMA PartsOf ==
  ASSUME TensorRowsAssumption, SameWidth, OfFile
  PROVE  /\ SizeMax \in Nat /\ Types[type].block \in Nat \ {0} /\ Types[type].bytes \in 1 .. SizeMax
         /\ dims \in Seq(1 .. SizeMax) /\ dims # << >> /\ Head(dims) \in 1 .. SizeMax
         /\ Tail(dims) \in Seq(1 .. SizeMax)
         /\ Blocks \in 0 .. SizeMax /\ AsSize(Blocks) = Blocks
         /\ Whole => Blocks >= 1 /\ Columns = Blocks * Types[type].block
<1>1. /\ SizeMax \in Nat /\ Types[type].block \in Nat \ {0} /\ Types[type].bytes \in 1 .. SizeMax
      /\ dims \in Seq(1 .. SizeMax) /\ dims # << >>
  BY TensorRowsAssumption DEF SameWidth, OfFile
<1>2. Head(dims) \in 1 .. SizeMax /\ Tail(dims) \in Seq(1 .. SizeMax)
  BY <1>1
<1> DEFINE c == Head(dims)  w == Types[type].block  q == c \div w
<1>4. c \in Nat \ {0} /\ c <= SizeMax /\ w \in Nat \ {0} /\ SizeMax \in Nat
  BY <1>1, <1>2
<1> HIDE DEF c, w
<1>3. q \in Nat /\ c % w \in 0 .. w - 1 /\ c = w * q + (c % w)
  BY <1>4
<1> HIDE DEF q
<1>5. w * q = q * w /\ q * w \in Nat /\ q <= q * w
  <2>1. \A x \in Nat, y \in Nat \ {0} : y * x = x * y /\ x * y \in Nat /\ x <= x * y
    <3> SUFFICES ASSUME NEW x \in Nat, NEW y \in Nat \ {0}
                 PROVE  y * x = x * y /\ x * y \in Nat /\ x <= x * y
      OBVIOUS
    <3>1. 1 * x <= y * x
      BY ProductGrows
    <3> QED
      BY <3>1
  <2> QED
    BY <1>3, <1>4, <2>1
<1>6. q \in 0 .. SizeMax
  BY <1>3, <1>4, <1>5
<1>7. c % w = 0 => q >= 1 /\ c = q * w
  <2>1. q = 0 => q * w = 0
    BY <1>4
  <2> QED
    BY <1>3, <1>4, <1>5, <2>1
<1>8. AsSize(q) = q
  BY <1>4, <1>6 DEF AsSize
<1> QED
  BY <1>1, <1>2, <1>6, <1>7, <1>8 DEF c, w, q, Blocks, Whole, Columns

\* The loader's size is the size, and it has none only of what is no size.
LEMMA StorageSizeIs ==
  ASSUME TensorRowsAssumption, SameWidth, OfFile
  PROVE  /\ StorageSize(type, dims) = IF Whole /\ Bytes <= SizeMax THEN {Bytes} ELSE {}
         /\ Bytes \in Nat /\ (Whole => Bytes > 0)
<1> DEFINE b == Blocks  w == Types[type].bytes  t == Tail(dims)  u == Append(t, w)  n == Len(t)
<1>1. /\ SizeMax \in Nat /\ b \in 0 .. SizeMax /\ w \in 1 .. SizeMax /\ t \in Seq(1 .. SizeMax)
      /\ Whole => b >= 1
  BY PartsOf
<1>2. StorageSize(type, dims) =
        {size \in {Times(FoldLeft(Times, b, t), w)} : Whole /\ size # Overflow}
  <2>1. AsSize(Head(dims) \div Types[type].block) = b
    BY PartsOf DEF Blocks
  <2> QED
    BY <2>1 DEF StorageSize, Whole
<1>3. Bytes = FoldLeft(Capped, b, u)
  BY DEF Bytes, Blocks
<1> HIDE DEF b, w, t
<1>4. /\ n \in Nat /\ u \in Seq(1 .. SizeMax) /\ Len(u) = n + 1 /\ u[n + 1] = w
      /\ \A k \in 1 .. n : u[k] = t[k] /\ t[k] \in 1 .. SizeMax
  BY <1>1
<1>5. PICK h : SizeRuns(h, b, t) /\ FoldLeft(Times, b, t) = h[Len(t)]
  BY <1>1, SizeFold
<1>6. PICK m : CappedRuns(m, b, u) /\ FoldLeft(Capped, b, u) = m[Len(u)]
  BY <1>1, <1>4, CappedFold
<1> HIDE DEF u, n
<1>7. /\ h \in [0 .. n -> Counts] /\ h[0] = b /\ \A k \in 1 .. n : h[k] = Times(h[k - 1], t[k])
      /\ m \in [0 .. n + 1 -> CappedSizes] /\ m[0] = b
      /\ \A k \in 1 .. n + 1 : m[k] = Capped(m[k - 1], u[k])
  BY <1>4, <1>5, <1>6 DEF SizeRuns, CappedRuns, n
<1>8. ASSUME NEW v \in CappedSizes, NEW d \in 1 .. SizeMax
      PROVE  /\ Times(IF v > SizeMax THEN Overflow ELSE v, d)
                   = IF Capped(v, d) > SizeMax THEN Overflow ELSE Capped(v, d)
             /\ v >= 1 => Capped(v, d) >= 1
  <2>1. Capped(v, d) = IF v * d > SizeMax THEN SizeMax + 1 ELSE v * d
    BY CappedIs
  <2>2. v \in Nat /\ d \in Nat \ {0} /\ v * d \in Nat /\ v <= v * d
    <3>1. v \in Nat /\ d \in Nat \ {0} /\ 1 <= d
      BY <1>1 DEF CappedSizes
    <3>2. 1 * v <= d * v
      BY <3>1, ProductGrows
    <3> QED
      BY <3>1, <3>2
  <2>3. CASE v > SizeMax
    <3>1. v * d > SizeMax
      BY <1>1, <2>2, <2>3
    <3>2. Times(Overflow, d) = Overflow
      BY DEF Times
    <3> QED
      BY <1>1, <2>1, <2>3, <3>1, <3>2
  <2>4. CASE ~ (v > SizeMax)
    <3>1. v \in 0 .. SizeMax
      BY <1>1, <2>2, <2>4
    <3>2. Times(v, d) = IF v * d > SizeMax THEN Overflow ELSE v * d
      BY <3>1, TimesIs
    <3> QED
      BY <1>1, <2>1, <2>2, <2>4, <3>2
  <2> QED
    BY <2>3, <2>4
<1> DEFINE T == {k \in Nat : k <= n =>
                   /\ h[k] = IF m[k] > SizeMax THEN Overflow ELSE m[k]
                   /\ b >= 1 => m[k] >= 1}
<1>9. \A k \in Nat : k <= n => /\ h[k] = IF m[k] > SizeMax THEN Overflow ELSE m[k]
                               /\ b >= 1 => m[k] >= 1
  <2>1. 0 \in T
    BY <1>1, <1>7
  <2>2. ASSUME NEW k \in T PROVE k + 1 \in T
    <3> SUFFICES ASSUME k + 1 <= n
                 PROVE  /\ h[k + 1] = IF m[k + 1] > SizeMax THEN Overflow ELSE m[k + 1]
                        /\ b >= 1 => m[k + 1] >= 1
      OBVIOUS
    <3> DEFINE i == k + 1
    <3>1. i \in 1 .. n /\ i \in 1 .. n + 1 /\ i - 1 = k /\ k \in 0 .. n + 1 /\ k <= n
      BY <1>4
    <3> HIDE DEF i
    <3>2. h[i] = Times(h[k], t[i]) /\ m[i] = Capped(m[k], t[i]) /\ t[i] \in 1 .. SizeMax
      BY <1>4, <1>7, <3>1
    <3>3. m[k] \in CappedSizes
      BY <1>7, <3>1
    <3>4. /\ h[k] = IF m[k] > SizeMax THEN Overflow ELSE m[k]
          /\ b >= 1 => m[k] >= 1
      BY <2>2, <3>1
    <3>5. /\ h[i] = IF m[i] > SizeMax THEN Overflow ELSE m[i]
          /\ b >= 1 => m[i] >= 1
      BY <1>8, <3>2, <3>3, <3>4
    <3> QED
      BY <3>5 DEF i
  <2>3. Nat \subseteq T
    <3> HIDE DEF T
    <3> QED
      BY <2>1, <2>2, NatSetInduction
  <2> QED
    BY <2>3
<1> HIDE DEF T
<1> DEFINE p == m[n + 1]
<1>10. m[n] \in CappedSizes /\ p \in CappedSizes /\ p = Capped(m[n], w)
  <2>1. n \in 0 .. n + 1 /\ n + 1 \in 1 .. n + 1 /\ n + 1 \in 0 .. n + 1 /\ (n + 1) - 1 = n
    BY <1>4
  <2> QED
    BY <1>4, <1>7, <2>1
<1> HIDE DEF p
<1>11. h[n] = IF m[n] > SizeMax THEN Overflow ELSE m[n]
  BY <1>4, <1>9
<1>12. Times(h[n], w) = IF p > SizeMax THEN Overflow ELSE p
  BY <1>1, <1>8, <1>10, <1>11
<1>13. b >= 1 => p >= 1
  BY <1>1, <1>4, <1>8, <1>9, <1>10
<1>14. Bytes = p /\ FoldLeft(Times, b, t) = h[n]
  BY <1>3, <1>4, <1>5, <1>6 DEF p, n
<1>15. p \in Nat /\ p # Overflow
  BY <1>1, <1>10 DEF CappedSizes, Overflow
<1>16. StorageSize(type, dims) =
         {size \in {IF p > SizeMax THEN Overflow ELSE p} : Whole /\ size # Overflow}
  BY <1>2, <1>12, <1>14
<1>17. p > SizeMax <=> ~ (p <= SizeMax)
  BY <1>1, <1>15
<1>18. StorageSize(type, dims) = IF Whole /\ p <= SizeMax THEN {p} ELSE {}
  BY <1>15, <1>16, <1>17, Zenon
<1> QED
  BY <1>1, <1>13, <1>14, <1>15, <1>18
-----------------------------------------------------------------------------
RowSize == Blocks * Types[type].bytes

\* The size of one row, where it has one.
LEMMA RowBytesIs ==
  ASSUME TensorRowsAssumption, SameWidth, OfFile
  PROVE  RowBytes = IF Whole /\ RowSize <= SizeMax THEN {RowSize} ELSE {}
<1> DEFINE b == Blocks  w == Types[type].bytes  e == << >>
<1>1. SizeMax \in Nat /\ b \in 0 .. SizeMax /\ w \in 1 .. SizeMax /\ AsSize(b) = b
  BY PartsOf
<1>2. Head(<<Columns>>) = Columns /\ Tail(<<Columns>>) = e
  OBVIOUS
<1>3. RowBytes = {size \in {Times(FoldLeft(Times, b, e), w)} : Whole /\ size # Overflow}
  <2>1. AsSize(Columns \div Types[type].block) = b
    BY <1>1 DEF Blocks, Columns
  <2> QED
    BY <1>2, <2>1 DEF RowBytes, StorageSize, Whole, Columns
<1> HIDE DEF b, w
<1>4. FoldLeft(Times, b, e) = b
  <2>0. b \in 0 .. SizeMax /\ e \in Seq(1 .. SizeMax)
    BY <1>1
  <2>1. PICK h : SizeRuns(h, b, e) /\ FoldLeft(Times, b, e) = h[Len(e)]
    <3> HIDE DEF e
    <3> QED
      BY <2>0, SizeFold
  <2> QED
    BY <2>1 DEF SizeRuns
<1>5. Times(b, w) = IF b * w > SizeMax THEN Overflow ELSE b * w
  BY <1>1, TimesIs
<1> DEFINE p == b * w
<1>6. p \in Nat /\ p # Overflow /\ (p > SizeMax <=> ~ (p <= SizeMax))
  BY <1>1 DEF Overflow
<1> HIDE DEF p
<1>7. RowBytes = {size \in {IF p > SizeMax THEN Overflow ELSE p} : Whole /\ size # Overflow}
  BY <1>3, <1>4, <1>5 DEF p
<1>8. RowBytes = IF Whole /\ p <= SizeMax THEN {p} ELSE {}
  BY <1>6, <1>7, Zenon
<1> QED
  BY <1>8 DEF p, b, w, RowSize

\* The size of a vector is the one of its row.
LEMMA VectorSize ==
  ASSUME TensorRowsAssumption, SameWidth, OfFile, Len(dims) = 1, NEW z \in StorageSize(type, dims)
  PROVE  RowBytes = {RowSize} /\ z = RowSize
<1>1. dims = <<Columns>>
  BY PartsOf DEF Columns
<1>2. StorageSize(type, dims) = RowBytes
  BY <1>1 DEF RowBytes
<1> QED
  BY <1>2, RowBytesIs

\* What follows the first of two.
LEMMA TailOfTwo ==
  ASSUME NEW S, NEW x \in Seq(S), Len(x) = 2
  PROVE  Len(Tail(x)) = 1 /\ Tail(x)[1] = x[2] /\ x[2] \in S
<1>1. x # << >> /\ Len(Tail(x)) = 1 /\ x[2] \in S
  <2>1. x # << >>
    OBVIOUS
  <2>2. Len(Tail(x)) = 1
    BY <2>1
  <2>3. x[2] \in S
    <3>1. 2 \in 1 .. Len(x) /\ x \in [1 .. Len(x) -> S]
      OBVIOUS
    <3> QED
      BY <3>1
  <2> QED
    BY <2>1, <2>2, <2>3
<1>2. \A i \in 1 .. Len(Tail(x)) : Tail(x)[i] = x[i + 1]
  BY <1>1, HeadTailProperties
<1>3. 1 \in 1 .. Len(Tail(x)) /\ 1 + 1 = 2
  BY <1>1
<1>4. Tail(x)[1] = x[1 + 1]
  BY <1>2, <1>3
<1> QED
  BY <1>1, <1>3, <1>4

\* The size of a matrix is the one of a row as often as it has rows.
LEMMA MatrixSize ==
  ASSUME TensorRowsAssumption, SameWidth, OfFile, Len(dims) = 2, NEW z \in StorageSize(type, dims)
  PROVE  RowBytes = {RowSize} /\ Rows \in Nat \ {0} /\ RowSize \in Nat \ {0} /\ z = Rows * RowSize
<1> DEFINE b == Blocks  w == Types[type].bytes  t == Tail(dims)  r == Rows
<1>1. /\ SizeMax \in Nat /\ b \in 0 .. SizeMax /\ w \in 1 .. SizeMax /\ AsSize(b) = b
      /\ t \in Seq(1 .. SizeMax) /\ (Whole => b >= 1)
  BY PartsOf
<1>2. Len(t) = 1 /\ t[1] = r /\ r \in 1 .. SizeMax
  <2>1. dims \in Seq(1 .. SizeMax) /\ Len(dims) = 2
    BY PartsOf
  <2> QED
    BY <2>1, TailOfTwo DEF Rows
<1>3. Whole /\ z = Times(FoldLeft(Times, b, t), w) /\ z # Overflow
  BY <1>1 DEF StorageSize, Whole, Blocks
<1> HIDE DEF b, w, t, r
<1>4. FoldLeft(Times, b, t) = Times(b, r)
  <2>0. b \in 0 .. SizeMax /\ t \in Seq(1 .. SizeMax)
    BY <1>1
  <2>1. PICK h : SizeRuns(h, b, t) /\ FoldLeft(Times, b, t) = h[Len(t)]
    BY <2>0, SizeFold
  <2> QED
    BY <1>2, <2>1 DEF SizeRuns
<1>5. b * r <= SizeMax /\ Times(b, r) = b * r
  <2>1. Times(b, r) = IF b * r > SizeMax THEN Overflow ELSE b * r
    BY <1>1, <1>2, TimesIs
  <2>2. Times(Overflow, w) = Overflow
    BY DEF Times
  <2>3. Times(b, r) # Overflow
    BY <1>3, <1>4, <2>2
  <2>4. b * r \in Nat
    BY <1>1, <1>2
  <2> QED
    BY <1>1, <2>1, <2>3, <2>4
<1> DEFINE p == b * r
<1>6. p \in 0 .. SizeMax
  BY <1>1, <1>2, <1>5
<1>7. z = p * w /\ p * w <= SizeMax
  <2>1. Times(p, w) = IF p * w > SizeMax THEN Overflow ELSE p * w
    BY <1>1, <1>6, TimesIs
  <2>2. z = Times(p, w)
    BY <1>3, <1>4, <1>5
  <2>3. p * w \in Nat
    BY <1>1, <1>6
  <2> HIDE DEF p
  <2> QED
    BY <1>1, <1>3, <2>1, <2>2, <2>3
<1>8. p * w = r * (b * w) /\ b * w \in Nat \ {0} /\ b * w <= r * (b * w)
  <2>1. b >= 1 /\ w >= 1 /\ r >= 1
    BY <1>1, <1>2, <1>3
  <2>2. b * w \in Nat /\ 1 * w <= b * w
    BY <1>1, <2>1, ProductGrows
  <2>3. 1 * (b * w) <= r * (b * w)
    BY <1>2, <2>1, <2>2, ProductGrows
  <2>4. p * w = r * (b * w)
    <3>1. \A i \in Int, j \in Int, k \in Int : (i * j) * k = j * (i * k)
      OBVIOUS
    <3> QED
      BY <1>1, <1>2, <3>1
  <2> QED
    BY <1>1, <2>1, <2>2, <2>3, <2>4
<1>9. RowSize = b * w
  BY DEF RowSize, b, w
<1> HIDE DEF p
<1>10. RowSize <= SizeMax
  BY <1>1, <1>2, <1>6, <1>7, <1>8, <1>9
<1>11. RowBytes = {RowSize}
  BY <1>3, <1>10, RowBytesIs
<1>12. r \in Nat \ {0}
  BY <1>2
<1> QED
  BY <1>7, <1>8, <1>9, <1>11, <1>12 DEF r

\* What a row's kernel reads.
LEMMA RowAtIs ==
  ASSUME NEW start
  PROVE  RowAt(start) = start .. start + RowSize - 1
BY DEF RowAt, RowSize, Blocks, Columns

\* The storage found is the loader's, and a product has read the rows before its row.
Inv ==
  /\ OfFile
  /\ pc \in {"load", "loaded", "refused", "gemv", "multiplied", "row"}
  /\ pc \in {"load", "loaded", "refused"} => read = {}
  /\ pc = "load" => storage = 0
  /\ pc \notin {"load", "refused"} => storage \in StorageSize(type, dims)
  /\ pc = "refused" => storage > 0 \/ StorageSize(type, dims) = {}
  /\ pc \in {"gemv", "multiplied"} =>
       /\ Len(dims) = 2 /\ row \in 0 .. Rows
       /\ read = 0 .. row * RowSize - 1
       /\ pc = "multiplied" => row = Rows
  /\ pc = "row" => read \subseteq 0 .. storage - 1

\* A row of it lies in the matrix.
LEMMA RowInside ==
  ASSUME NEW r \in Nat, NEW n \in Nat, r < n, NEW z \in Nat
  PROVE  /\ r * z .. r * z + z - 1 \subseteq 0 .. n * z - 1
         /\ (0 .. r * z - 1) \cup (r * z .. r * z + z - 1) = 0 .. (r + 1) * z - 1
<1>1. (r + 1) * z = r * z + z /\ r * z \in Nat /\ n * z \in Nat
  OBVIOUS
<1>2. (r + 1) * z <= n * z
  BY ProductGrows
<1> DEFINE a == r * z  b == n * z  c == (r + 1) * z
<1>3. a \in Nat /\ b \in Nat /\ c = a + z /\ c <= b
  BY <1>1, <1>2
<1> HIDE DEF a, b, c
<1>4. a .. a + z - 1 \subseteq 0 .. b - 1 /\ (0 .. a - 1) \cup (a .. a + z - 1) = 0 .. c - 1
  BY <1>3
<1> QED
  BY <1>4 DEF a, b, c

LEMMA InitInv == ASSUME TensorRowsAssumption, Init PROVE Inv
BY DEF Init, Inv, OfFile

\* Every step on a tensor.
LEMMA StepInv ==
  ASSUME TensorRowsAssumption, SameWidth, Inv, Step
  PROVE  Inv'
<1>1. OfFile /\ OfFile' /\ UNCHANGED <<type, dims>>
  BY DEF Inv, Step, Load, Gemv, GemvRow, GemvDone, DequantizeRow, To, OfFile
<1>2. /\ StorageSize(type, dims)' = StorageSize(type, dims) /\ Rows' = Rows /\ RowSize' = RowSize
  BY <1>1 DEF StorageSize, Rows, RowSize, Blocks
<1>3. CASE Load
  <2>1. read' = {} /\ storage = 0
    BY <1>3 DEF Load, Inv
  <2>2. CASE StorageSize(type, dims) = {}
    BY <1>1, <1>2, <1>3, <2>1, <2>2 DEF Load, Inv, To
  <2>3. CASE StorageSize(type, dims) # {}
    BY <1>1, <1>2, <1>3, <2>1, <2>3 DEF Load, Inv, To
  <2> QED
    BY <2>2, <2>3
<1>4. CASE Gemv
  <2>1. /\ storage \in StorageSize(type, dims) /\ Len(dims) = 2 /\ storage' = storage
        /\ pc' \in {"gemv", "refused"} /\ row' = 0 /\ read' = {}
    BY <1>4 DEF Gemv, Inv, To
  <2>2. /\ Rows \in Nat \ {0} /\ RowSize \in Nat \ {0} /\ storage = Rows * RowSize
    BY <1>1, <2>1, MatrixSize
  <2>3. storage > 0
    <3>1. 1 * RowSize <= Rows * RowSize
      BY <2>2, ProductGrows
    <3> QED
      BY <2>2, <3>1
  <2>4. 0 .. 0 * RowSize - 1 = {} /\ 0 \in 0 .. Rows
    BY <2>2
  <2> QED
    BY <1>1, <1>2, <2>1, <2>3, <2>4 DEF Inv
<1>5. CASE GemvRow
  <2>1. /\ storage \in StorageSize(type, dims) /\ Len(dims) = 2 /\ storage' = storage
        /\ pc = "gemv" /\ pc' = pc /\ row \in 0 .. Rows /\ row < Rows /\ row' = row + 1
        /\ read = 0 .. row * RowSize - 1
    BY <1>5 DEF GemvRow, Inv
  <2>2. /\ Rows \in Nat \ {0} /\ RowSize \in Nat \ {0} /\ RowBytes = {RowSize}
    BY <1>1, <2>1, MatrixSize
  <2>3. read' = read \cup (row * RowSize .. row * RowSize + RowSize - 1)
    BY <1>5, <2>2, RowAtIs DEF GemvRow
  <2>4. read' = 0 .. (row + 1) * RowSize - 1 /\ row + 1 \in 0 .. Rows
    <3>1. row \in Nat /\ Rows \in Nat /\ RowSize \in Nat
      BY <2>1, <2>2
    <3> QED
      BY <2>1, <2>3, <3>1, RowInside
  <2> QED
    BY <1>1, <1>2, <2>1, <2>4 DEF Inv
<1>6. CASE GemvDone
  BY <1>1, <1>2, <1>6 DEF GemvDone, Inv, To
<1>7. CASE \E n \in 0 .. Vectors - 1 : DequantizeRow(n)
  <2>1. PICK n \in 0 .. Vectors - 1 : DequantizeRow(n)
    BY <1>7
  <2>2. PICK bytes \in RowBytes : read' = RowAt(n * bytes)
    BY <2>1 DEF DequantizeRow
  <2>3. storage \in StorageSize(type, dims) /\ storage' = storage /\ pc' = "row"
    BY <2>1 DEF DequantizeRow, Inv, To
  <2>4. read' \subseteq 0 .. storage - 1
    <3>1. CASE Len(dims) = 1
      <4>1. RowBytes = {RowSize} /\ storage = RowSize
        BY <1>1, <2>3, <3>1, VectorSize
      <4>2. n = 0 /\ bytes = RowSize /\ RowSize \in Nat
        <5>1. Vectors = 1
          BY <3>1 DEF Vectors
        <5>2. RowSize \in Nat
          <6>1. Blocks \in Nat /\ Types[type].bytes \in Nat
            BY <1>1, PartsOf
          <6> QED
            BY <6>1 DEF RowSize
        <5> QED
          BY <2>2, <4>1, <5>1, <5>2
      <4>3. n * bytes = 0
        BY <4>2
      <4>4. read' = 0 .. RowSize - 1
        BY <2>2, <4>2, <4>3, RowAtIs
      <4> QED
        BY <4>1, <4>4
    <3>2. CASE Len(dims) = 2
      <4>1. /\ Rows \in Nat \ {0} /\ RowSize \in Nat \ {0} /\ RowBytes = {RowSize}
            /\ storage = Rows * RowSize
        BY <1>1, <2>3, <3>2, MatrixSize
      <4>2. n \in Nat /\ n < Rows /\ Rows \in Nat /\ RowSize \in Nat /\ bytes = RowSize
        <5>1. Vectors = Rows
          BY <3>2 DEF Vectors
        <5> QED
          BY <2>2, <4>1, <5>1
      <4>3. read' = n * RowSize .. n * RowSize + RowSize - 1
        BY <2>2, <4>2, RowAtIs
      <4> QED
        BY <4>1, <4>2, <4>3, RowInside
    <3>3. Len(dims) \in {1, 2}
      BY <2>1 DEF Vectors
    <3> QED
      BY <3>1, <3>2, <3>3
  <2> QED
    BY <1>1, <1>2, <2>3, <2>4 DEF Inv
<1> QED
  BY <1>3, <1>4, <1>5, <1>6, <1>7 DEF Step

\* Also the conversion of an element and the loading of a model, which touch no tensor.
LEMMA NextInv ==
  ASSUME TensorRowsAssumption, SameWidth, Inv, [Next]_all
  PROVE  Inv'
<1>1. Step \/ UNCHANGED vars
  BY DEF Next, ReadTensor, ConvertHalf, LoadAndRun, Ended, all
<1>2. CASE UNCHANGED vars
  <2>1. UNCHANGED <<pc, type, dims, storage, row, read>>
    BY <1>2 DEF vars
  <2> QED
    BY <2>1 DEF Inv, OfFile, StorageSize, Rows, RowSize, Blocks
<1> QED
  BY <1>1, <1>2, StepInv

\* The inductive invariant of loading a tensor and reading its rows, and of converting an
\* element, for every table of types and all shapes.
THEOREM TensorInvariant == ASSUME TensorRowsAssumption, SameWidth PROVE Spec => []Inv
<1>1. ModelInit => Inv
  BY InitInv DEF ModelInit
<1>2. Inv /\ [Next]_all => Inv'
  BY NextInv
<1> QED
  BY <1>1, <1>2, PTL DEF Spec

\* What the loader found for a tensor is its size, and it has refused nothing else
\* (mlmc_ggml_tensor_storage_size, ggml_types.c:67-93).
THEOREM SizesExact == ASSUME TensorRowsAssumption, SameWidth PROVE Spec => []SizeExact
<1>1. ASSUME Inv PROVE SizeExact
  <2>1. /\ StorageSize(type, dims) = IF Whole /\ Bytes <= SizeMax THEN {Bytes} ELSE {}
        /\ Bytes \in Nat /\ SizeMax \in Nat
    BY <1>1, StorageSizeIs, PartsOf DEF Inv
  <2>2. pc \notin {"load", "refused"} => Whole /\ storage = Bytes
    BY <1>1, <2>1 DEF Inv
  <2>3. pc = "refused" => storage > 0 \/ ~ Whole \/ Bytes > SizeMax
    BY <1>1, <2>1 DEF Inv
  <2> QED
    BY <2>2, <2>3 DEF SizeExact
<1> QED
  BY <1>1, TensorInvariant, PTL

\* No kernel reads a byte that the loader did not check, and a product reads each
\* checked byte for one row (mlmc_gemv and mlmc_dequantize_row, dequant.c:72-206).
THEOREM ReadsExact == ASSUME TensorRowsAssumption, SameWidth PROVE Spec => []RowsExact
<1>1. ASSUME Inv PROVE RowsExact
  <2>1. CASE pc \in {"load", "loaded", "refused"}
    BY <1>1, <2>1 DEF Inv, RowsExact
  <2>2. CASE pc = "row"
    BY <1>1, <2>2 DEF Inv, RowsExact
  <2>3. CASE pc \in {"gemv", "multiplied"}
    <3>1. /\ OfFile /\ storage \in StorageSize(type, dims) /\ Len(dims) = 2 /\ row \in 0 .. Rows
          /\ read = 0 .. row * RowSize - 1 /\ (pc = "multiplied" => row = Rows)
      BY <1>1, <2>3 DEF Inv
    <3>2. /\ Rows \in Nat \ {0} /\ RowSize \in Nat \ {0} /\ storage = Rows * RowSize
      BY <3>1, MatrixSize
    <3>3. row \in Nat /\ row * RowSize \in Nat /\ row * RowSize <= Rows * RowSize
      BY <3>1, <3>2, ProductGrows
    <3>4. \A m \in Nat : Cardinality(0 .. m - 1) = m
      <4> SUFFICES ASSUME NEW m \in Nat PROVE Cardinality(0 .. m - 1) = m
        OBVIOUS
      <4>1. 0 \in Int /\ m - 1 \in Int
        OBVIOUS
      <4>2. Cardinality(0 .. m - 1) = IF 0 > m - 1 THEN 0 ELSE (m - 1) - 0 + 1
        BY <4>1, FS_Interval
      <4> QED
        BY <4>2
    <3>5. RowAt(0) = 0 .. RowSize - 1
      BY <3>2, RowAtIs
    <3>6. Cardinality(RowAt(0)) = RowSize /\ Cardinality(read) = row * RowSize
      BY <3>1, <3>2, <3>3, <3>4, <3>5
    <3>7. read \subseteq 0 .. storage - 1
      <4> DEFINE a == row * RowSize
      <4>1. a \in Nat /\ storage \in Nat /\ a <= storage /\ read = 0 .. a - 1
        BY <3>1, <3>2, <3>3
      <4> HIDE DEF a
      <4> QED
        BY <4>1
    <3>8. pc = "multiplied" => read = 0 .. storage - 1
      BY <3>1, <3>2
    <3> QED
      BY <3>6, <3>7, <3>8 DEF RowsExact
  <2> QED
    BY <1>1, <2>1, <2>2, <2>3 DEF Inv
<1> QED
  BY <1>1, TensorInvariant, PTL
-----------------------------------------------------------------------------
\* The powers of two that fields are shifted by.
LEMMA Powers ==
  /\ 2^5 = 32 /\ 2^10 = 1024 /\ 2^11 = 2048 /\ 2^(1 - 1) = 1
  /\ 2^13 \in Nat \ {0} /\ 2^15 \in Nat \ {0} /\ 2^16 = 2 * 2^15 /\ 2^23 = 1024 * 2^13
BY SMT

Shifts == 0 .. 10

\* As many as the loop can take.
LEMMA PowersDouble ==
  ASSUME NEW k \in Shifts
  PROVE  /\ 2^k \in 1 .. 1024 /\ (k < 10 => 2^(k + 1) = 2 * 2^k)
         /\ 2^(k + 13) = 2^k * 2^13 /\ (k = 10 => 2^k = 1024)
<1>1. k \in {0, 1, 2, 3, 4, 5, 6, 7, 8, 9, 10}
  BY DEF Shifts
<1>2. k = 0 => 2^k = 1 /\ 2^(k + 1) = 2 /\ 2^(k + 13) = 1 * 2^13
  BY SMT
<1>3. k = 1 => 2^k = 2 /\ 2^(k + 1) = 4 /\ 2^(k + 13) = 2 * 2^13
  BY SMT
<1>4. k = 2 => 2^k = 4 /\ 2^(k + 1) = 8 /\ 2^(k + 13) = 4 * 2^13
  BY SMT
<1>5. k = 3 => 2^k = 8 /\ 2^(k + 1) = 16 /\ 2^(k + 13) = 8 * 2^13
  BY SMT
<1>6. k = 4 => 2^k = 16 /\ 2^(k + 1) = 32 /\ 2^(k + 13) = 16 * 2^13
  BY SMT
<1>7. k = 5 => 2^k = 32 /\ 2^(k + 1) = 64 /\ 2^(k + 13) = 32 * 2^13
  BY SMT
<1>8. k = 6 => 2^k = 64 /\ 2^(k + 1) = 128 /\ 2^(k + 13) = 64 * 2^13
  BY SMT
<1>9. k = 7 => 2^k = 128 /\ 2^(k + 1) = 256 /\ 2^(k + 13) = 128 * 2^13
  BY SMT
<1>10. k = 8 => 2^k = 256 /\ 2^(k + 1) = 512 /\ 2^(k + 13) = 256 * 2^13
  BY SMT
<1>11. k = 9 => 2^k = 512 /\ 2^(k + 1) = 1024 /\ 2^(k + 13) = 512 * 2^13
  BY SMT
<1>12. k = 10 => 2^k = 1024 /\ 2^(k + 1) = 2048 /\ 2^(k + 13) = 1024 * 2^13
  BY SMT
<1> QED
  BY <1>1, <1>2, <1>3, <1>4, <1>5, <1>6, <1>7, <1>8, <1>9, <1>10, <1>11, <1>12, SMT

\* The fields of a half.
LEMMA FieldsOf ==
  ASSUME half_bits \in 0 .. 2^16 - 1
  PROVE  H!Sign \in 0 .. 1 /\ H!Exponent \in 0 .. 31 /\ H!Mantissa \in 0 .. 1023
<1> DEFINE b == half_bits
<1>1. b \in Nat /\ b < 2 * 2^15
  BY Powers
<1> HIDE DEF b
<1>2. \A w \in Nat \ {0} : b < 2 * w => b \div w \in 0 .. 1
  BY <1>1, SMT
<1>3. b \div 2^15 \in 0 .. 1
  BY <1>1, <1>2, Powers
<1>4. (b \div 1024) % 32 \in 0 .. 31 /\ b % 1024 \in 0 .. 1023
  BY <1>1, SMT
<1> QED
  BY <1>3, <1>4, Powers DEF b, H!Sign, H!Exponent, H!Mantissa

\* The mantissa of a subnormal has been doubled as often as its exponent says.
Doubled(m) == /\ H!Exponent = 0 /\ H!Mantissa \in 1 .. 1023
              /\ exponent \in -9 .. 1 /\ m = H!Mantissa * 2^(1 - exponent)

ElementInv ==
  /\ half_bits \in 0 .. 2^16 - 1
  /\ half_pc \in {"idle", "start", "shift", "build", "done"}
  /\ half_pc = "idle" => float = H!NoFloat
  /\ half_pc = "start" => exponent = H!Exponent /\ mantissa = H!Mantissa
  /\ half_pc = "shift" => mantissa \in 1 .. 2047 /\ Doubled(mantissa)
  /\ half_pc = "build" => mantissa \in 0 .. 1023 /\ Doubled(mantissa + 1024)
  /\ SameValue

LEMMA ElementInitInv == ASSUME H!Init PROVE ElementInv
BY Powers DEF H!Init, ElementInv, SameValue, H!SameValue

\* Only the loop changes the exponent and the mantissa.
LEMMA FieldsStay ==
  ASSUME UNCHANGED half_bits
  PROVE  H!Sign' = H!Sign /\ H!Exponent' = H!Exponent /\ H!Mantissa' = H!Mantissa
BY DEF H!Sign, H!Exponent, H!Mantissa

\* What is doubled so keeps its value.
LEMMA DoublingKeeps ==
  ASSUME half_pc' = "shift", mantissa' \in 1 .. 2047, Doubled(mantissa)'
  PROVE  SameValue'
<1>1. mantissa' = H!Mantissa' * 2^(1 - exponent')
  BY DEF Doubled
<1>2. mantissa' \in 1 .. 2^11 - 1
  <2>1. 2^11 - 1 = 2047
    BY Powers
  <2> QED
    BY <2>1
<1> DEFINE power == 2^(1 - exponent')
<1>3. mantissa' = H!Mantissa' * power
  BY <1>1
<1> HIDE DEF power
<1>4. H!SameValue'
  BY <1>2, <1>3, Zenon DEF H!SameValue, power
<1> QED
  BY <1>4 DEF SameValue

\* Every step of the conversion.
LEMMA ElementStep ==
  ASSUME ElementInv, H!Step
  PROVE  ElementInv'
<1>1. UNCHANGED half_bits /\ half_bits \in 0 .. 2^16 - 1
  BY DEF H!Step, H!Zero, H!NotFinite, H!Subnormal, H!Shift, H!Shifted, H!Build, H!Returns,
         ElementInv
<1>2. H!Sign' = H!Sign /\ H!Exponent' = H!Exponent /\ H!Mantissa' = H!Mantissa
  BY <1>1, FieldsStay
<1>3. H!Sign \in 0 .. 1 /\ H!Exponent \in 0 .. 31 /\ H!Mantissa \in 0 .. 1023
  BY <1>1, FieldsOf
<1>4. CASE H!Zero
  <2>1. /\ H!Exponent = 0 /\ H!Mantissa = 0 /\ half_pc' = "done"
        /\ float' = [sign |-> H!Sign, exponent |-> 0, fraction |-> 0]
    BY <1>4 DEF H!Zero, H!Returns, ElementInv
  <2>2. H!HalfValue.n = 0
    BY <2>1 DEF H!HalfValue
  <2>3. SameValue'
    BY <1>2, <2>1, <2>2, Powers DEF SameValue, H!SameValue, H!HalfValue
  <2> QED
    BY <1>1, <2>1, <2>3 DEF ElementInv
<1>5. CASE H!NotFinite
  <2>1. /\ H!Exponent = 31 /\ half_pc' = "done"
        /\ float' = [sign |-> H!Sign, exponent |-> 255, fraction |-> H!Mantissa * 2^13]
    BY <1>5, Powers DEF H!NotFinite, H!Returns, ElementInv
  <2>2. SameValue'
    BY <1>2, <1>3, <2>1, Powers DEF SameValue, H!SameValue
  <2> QED
    BY <1>1, <2>1, <2>2 DEF ElementInv
<1>6. CASE H!Subnormal
  <2>1. /\ H!Exponent = 0 /\ H!Mantissa \in 1 .. 1023 /\ half_pc' = "shift"
        /\ exponent' = 1 /\ mantissa' = H!Mantissa
    BY <1>3, <1>6 DEF H!Subnormal, ElementInv
  <2>2. Doubled(mantissa)' /\ mantissa' \in 1 .. 2047
    BY <1>2, <2>1, Powers DEF Doubled
  <2>3. SameValue'
    BY <2>1, <2>2, DoublingKeeps
  <2> QED
    BY <1>1, <2>1, <2>2, <2>3 DEF ElementInv
<1>7. CASE H!Shift
  <2>1. /\ half_pc' = "shift" /\ mantissa \in 1 .. 1023 /\ Doubled(mantissa)
        /\ mantissa' = mantissa * 2 /\ exponent' = exponent - 1
    BY <1>7, Powers DEF H!Shift, ElementInv
  <2> DEFINE k == 1 - exponent
  <2>2. k \in Shifts /\ mantissa = H!Mantissa * 2^k
    BY <2>1 DEF Doubled, Shifts
  <2>3. 1 - exponent' = k + 1
    <3>1. exponent \in Int
      BY <2>1 DEF Doubled
    <3> QED
      BY <2>1, <3>1
  <2> HIDE DEF k
  <2>4. k < 10 /\ 2^(k + 1) = 2 * 2^k /\ 2^k \in Nat
    <3>1. k = 10 => H!Mantissa * 2^k >= 1024
      BY <2>1, <2>2, PowersDouble DEF Doubled
    <3>2. k # 10 /\ k \in 0 .. 10
      BY <2>1, <2>2, <3>1 DEF Shifts
    <3> QED
      BY <2>2, <3>2, PowersDouble
  <2>5. mantissa * 2 = H!Mantissa * 2^(k + 1)
    BY <1>3, <2>2, <2>4
  <2>6. exponent' \in -9 .. 1
    <3>1. exponent \in -9 .. 1 /\ exponent # -9
      BY <2>1, <2>4 DEF Doubled, k
    <3> QED
      BY <2>1, <3>1
  <2>7. Doubled(mantissa)'
    BY <1>2, <2>1, <2>3, <2>5, <2>6 DEF Doubled
  <2>8. mantissa' \in 1 .. 2047
    BY <2>1
  <2>9. SameValue'
    BY <2>1, <2>7, <2>8, DoublingKeeps
  <2> QED
    BY <1>1, <2>1, <2>7, <2>8, <2>9 DEF ElementInv
<1>8. CASE H!Shifted
  <2>1. /\ half_pc' = "build" /\ mantissa \in 1024 .. 2047 /\ Doubled(mantissa)
        /\ mantissa' = mantissa - 1024 /\ exponent' = exponent
    BY <1>8, Powers DEF H!Shifted, ElementInv
  <2>2. mantissa' \in 0 .. 1023 /\ mantissa' + 1024 = mantissa
    BY <2>1
  <2>3. Doubled(mantissa + 1024)'
    BY <1>2, <2>1, <2>2 DEF Doubled
  <2>4. SameValue'
    BY <2>1 DEF SameValue, H!SameValue
  <2> QED
    BY <1>1, <2>1, <2>2, <2>3, <2>4 DEF ElementInv
<1>9. CASE H!Build
  <2>1. /\ half_pc' = "done"
        /\ float' = [sign |-> H!Sign, exponent |-> exponent + 112,
                      fraction |-> mantissa * 2^13]
    BY <1>9, Powers DEF H!Build, H!Returns
  <2>2. CASE half_pc = "start" /\ exponent \in 1 .. 30
    <3>1. exponent = H!Exponent /\ mantissa = H!Mantissa
      BY <2>2 DEF ElementInv
    <3> DEFINE e == H!Exponent  m == H!Mantissa
    <3>2. e \in 1 .. 30 /\ m \in 0 .. 1023
      BY <1>3, <2>2, <3>1
    <3>3. /\ H!HalfValue' = [n |-> 1024 + m, k |-> e - 25]
          /\ H!FloatValue' = [n |-> 2^23 + m * 2^13, k |-> (e + 112) - 150]
      BY <1>2, <2>1, <3>1, <3>2, Powers DEF H!HalfValue, H!FloatValue
    <3>4. (e - 25) - ((e + 112) - 150) = 13 /\ 2^23 + m * 2^13 = (1024 + m) * 2^13
      BY <3>2
    <3>5. H!FloatValue'.n = H!HalfValue'.n * 2^(H!HalfValue'.k - H!FloatValue'.k)
      <4>1. H!HalfValue'.k - H!FloatValue'.k = 13
        BY <3>3, <3>4
      <4>2. H!FloatValue'.n = H!HalfValue'.n * 2^13
        BY <3>3, <3>4
      <4> QED
        BY <4>1, <4>2, Zenon
    <3>6. H!FloatValue'.k <= H!HalfValue'.k /\ H!HalfValue'.n # 0
      BY <3>2, <3>3
    <3>7. float'.exponent \in 1 .. 254 /\ float'.fraction \in 0 .. 2^23 - 1
          /\ float'.sign = H!Sign
      BY <2>1, <3>1, <3>2
    <3>8. H!Exponent' < 31
      BY <1>2, <3>2
    <3> HIDE DEF e, m
    <3>9. SameValue'
      BY <1>2, <2>1, <3>5, <3>6, <3>7, <3>8, Powers DEF SameValue, H!SameValue
    <3> QED
      BY <1>1, <2>1, <3>9 DEF ElementInv
  <2>3. CASE half_pc = "build"
    <3>1. mantissa \in 0 .. 1023 /\ Doubled(mantissa + 1024)
      BY <2>3 DEF ElementInv
    <3> DEFINE e == exponent  m == H!Mantissa  k == 1 - e
    <3>2. /\ e \in -9 .. 1 /\ m \in 1 .. 1023 /\ H!Exponent = 0 /\ k \in Shifts
          /\ mantissa + 1024 = m * 2^k
      BY <3>1 DEF Doubled, Shifts
    <3>3. /\ H!HalfValue' = [n |-> m, k |-> -24]
          /\ H!FloatValue' = [n |-> 2^23 + mantissa * 2^13, k |-> (e + 112) - 150]
      BY <1>2, <2>1, <3>2, Powers DEF H!HalfValue, H!FloatValue
    <3>4. -24 - ((e + 112) - 150) = k + 13
      BY <3>2
    <3>5. 2^(k + 13) = 2^k * 2^13 /\ 2^k \in Nat
      <4>1. k \in Shifts
        BY <3>2
      <4> HIDE DEF k
      <4>2. 2^k \in 1 .. 1024 /\ 2^(k + 13) = 2^k * 2^13
        BY <4>1, PowersDouble
      <4> QED
        BY <4>2
    <3>6. 2^23 + mantissa * 2^13 = m * 2^(k + 13)
      <4>1. \A x \in Nat, y \in Nat, z \in Nat : z + 1024 = x * y =>
              2^23 + z * 2^13 = x * (y * 2^13)
        OBVIOUS
      <4> QED
        BY <3>1, <3>2, <3>5, <4>1
    <3>7. H!FloatValue'.n = H!HalfValue'.n * 2^(H!HalfValue'.k - H!FloatValue'.k)
      BY <3>3, <3>4, <3>6
    <3>8. H!FloatValue'.k <= H!HalfValue'.k /\ H!HalfValue'.n # 0
      BY <3>2, <3>3
    <3>9. float'.exponent \in 1 .. 254 /\ float'.fraction \in 0 .. 2^23 - 1
          /\ float'.sign = H!Sign
      BY <2>1, <3>1, <3>2
    <3>10. H!Exponent' < 31
      BY <1>2, <3>2
    <3> HIDE DEF e, m, k
    <3>11. SameValue'
      BY <1>2, <2>1, <3>7, <3>8, <3>9, <3>10, Powers DEF SameValue, H!SameValue
    <3> QED
      BY <1>1, <2>1, <3>11 DEF ElementInv
  <2> QED
    BY <1>9, <2>2, <2>3 DEF H!Build
<1> QED
  BY <1>4, <1>5, <1>6, <1>7, <1>8, <1>9 DEF H!Step

\* A half becomes the float of the same value (mlmc_fp16_to_fp32, dequant.c:29-50).
THEOREM HalvesKeepTheirValue == Spec => []SameValue
<1>1. ModelInit => ElementInv
  BY ElementInitInv DEF ModelInit
<1>2. ASSUME ElementInv, [Next]_all PROVE ElementInv'
  <2>1. CASE H!Step
    BY <1>2, <2>1, ElementStep
  <2>2. CASE ConvertElement
    <3>1. PICK half \in Halves : H!Convert(half)
      BY <2>2 DEF ConvertElement
    <3>2. half_bits' \in 0 .. 2^16 - 1 /\ half_pc' = "start"
      BY <3>1, HalvesAssumption DEF H!Convert
    <3>3. exponent' = H!Exponent' /\ mantissa' = H!Mantissa'
      BY <3>1 DEF H!Convert
    <3>4. SameValue'
      BY <3>2 DEF SameValue, H!SameValue
    <3> QED
      BY <3>2, <3>3, <3>4 DEF ElementInv
  <2>3. CASE UNCHANGED element
    <3>1. UNCHANGED <<half_pc, half_bits, exponent, mantissa, float>>
      BY <2>3 DEF element
    <3>2. H!Sign' = H!Sign /\ H!Exponent' = H!Exponent /\ H!Mantissa' = H!Mantissa
      BY <3>1, FieldsStay
    <3>3. H!HalfValue' = H!HalfValue /\ H!FloatValue' = H!FloatValue
      BY <3>1, <3>2 DEF H!HalfValue, H!FloatValue
    <3>4. SameValue => SameValue'
      BY <3>1, <3>2, <3>3 DEF SameValue, H!SameValue
    <3> QED
      BY <1>2, <3>1, <3>2, <3>4 DEF ElementInv, Doubled
  <2> QED
    BY <1>2, <2>1, <2>2, <2>3 DEF Next, ReadTensor, ConvertHalf, LoadAndRun, Ended, all
<1>3. ElementInv => SameValue
  BY DEF ElementInv
<1> QED
  BY <1>1, <1>2, <1>3, PTL DEF Spec
-----------------------------------------------------------------------------
Validated == {"embed", "projections", "feed_forward", "done"}

GlobalsValid ==
  /\ M!EmbeddingValid
  /\ config.vocab_size = M!Tensor(-1, "token_embd.weight").dims[2]
  /\ M!IsMatrix(M!Tensor(-1, "output.weight"), M!Hidden, config.vocab_size)
  /\ M!IsF32Vector(M!Tensor(-1, "output_norm.weight"), M!Hidden)

\* The configuration is the metadata's, and the tensors looked at so far are valid for it.
Validation ==
  /\ model_pc \in {"closed", "load", "globals", "validate", "refused"} \cup Validated
  /\ model_pc # "closed" => metadata \in Metadata /\ table \in Tables(metadata)
  /\ config \in [DOMAIN M!NoConfig -> Int]
  /\ model_pc \in {"closed", "load", "globals"} => layer = 0
  /\ model_pc \in {"globals", "validate"} \cup Validated =>
       M!ConfigValid(metadata) /\ \A k \in M!Sizes : config[k] = metadata[k]
  /\ model_pc \in {"validate"} \cup Validated =>
       GlobalsValid /\ layer \in 0 .. config.block_count
  /\ model_pc = "feed_forward" => layer < config.block_count
  /\ model_pc = "validate" => \A l \in 0 .. layer - 1 : M!LayerValid(l)
  /\ model_pc \in Validated => \A l \in 0 .. config.block_count - 1 : M!LayerValid(l)
-----------------------------------------------------------------------------
\* The keys of the configuration.
LEMMA ConfigKeys == DOMAIN M!NoConfig = M!Sizes \cup {"vocab_size"}
BY DEF M!NoConfig, M!Sizes

\* A matrix of a file has whole blocks in its columns: mlmc_gemv will not refuse it.
LEMMA MatrixRuns ==
  ASSUME M!FilesAccepted, metadata \in Metadata, table \in Tables(metadata),
         NEW l, NEW name, NEW columns, NEW rows,
         M!IsMatrix(M!Tensor(l, name), columns, rows)
  PROVE  M!MatrixGemvOk(M!Tensor(l, name), columns, rows)
<1>1. CASE <<l, name>> \in DOMAIN table
  <2> DEFINE t == table[<<l, name>>]
  <2>1. M!Tensor(l, name) = t /\ M!WholeBlocks(t)
    BY <1>1 DEF M!FilesAccepted, M!Tensor
  <2> HIDE DEF t
  <2> QED
    BY <2>1 DEF M!IsMatrix, M!MatrixGemvOk, M!WholeBlocks
<1>2. CASE <<l, name>> \notin DOMAIN table
  BY <1>2 DEF M!Tensor, M!NoTensor, M!IsMatrix
<1> QED
  BY <1>1, <1>2

\* What a layer was validated for is what the pass checks of it.
LEMMA LayerRuns ==
  ASSUME M!FilesAccepted, metadata \in Metadata, table \in Tables(metadata),
         NEW l, M!LayerValid(l)
  PROVE  M!ProjectionsOk(l) /\ M!FeedForwardOk(l)
BY MatrixRuns DEF M!LayerValid, M!ProjectionsOk, M!FeedForwardOk, M!RmsNormOk, M!AddBiasOk

\* The same for the tensors that belong to no layer.
LEMMA GlobalsRun ==
  ASSUME M!FilesAccepted, metadata \in Metadata, table \in Tables(metadata), GlobalsValid
  PROVE  M!CopyEmbeddingOk /\ M!OutputOk
<1> DEFINE e == M!Tensor(-1, "token_embd.weight")
<1>1. M!IsMatrix(e, M!Hidden, config.vocab_size)
  BY DEF GlobalsValid, M!EmbeddingValid, M!IsMatrix
<1>2. M!MatrixGemvOk(e, M!Hidden, config.vocab_size)
  BY <1>1, MatrixRuns
<1>3. M!CopyEmbeddingOk
  BY <1>1, <1>2 DEF M!MatrixGemvOk, M!CopyEmbeddingOk
<1>4. M!OutputOk
  BY MatrixRuns DEF GlobalsValid, M!OutputOk, M!RmsNormOk
<1> QED
  BY <1>3, <1>4

\* Validity depends on the table and on the sizes, and on nothing that changes later.
LEMMA ValidityStays ==
  ASSUME UNCHANGED table, \A k \in M!Sizes : config'[k] = config[k]
  PROVE  /\ M!EmbeddingValid => M!EmbeddingValid'
         /\ \A l : M!LayerValid(l) => M!LayerValid(l)'
         /\ \A l, name : M!Tensor(l, name)' = M!Tensor(l, name)
         /\ M!Hidden' = M!Hidden
<1>1. /\ config.embedding_length' = config.embedding_length
      /\ config.feed_forward_length' = config.feed_forward_length
      /\ config.head_count' = config.head_count /\ config.head_count_kv' = config.head_count_kv
  BY DEF M!Sizes
<1>2. M!Hidden' = M!Hidden /\ M!Ffn' = M!Ffn /\ M!KeyValueLength' = M!KeyValueLength
  BY <1>1 DEF M!Hidden, M!Ffn, M!KeyValueLength
<1>3. \A l, name : M!Tensor(l, name)' = M!Tensor(l, name)
  BY DEF M!Tensor
<1>4. M!EmbeddingValid => M!EmbeddingValid'
  BY <1>2, <1>3 DEF M!EmbeddingValid
<1>5. ASSUME NEW l, M!LayerValid(l) PROVE M!LayerValid(l)'
  BY <1>2, <1>3, <1>5 DEF M!LayerValid, M!IsF32Vector, M!IsMatrix
<1> QED
  BY <1>2, <1>3, <1>4, <1>5

\* A file starts unread.
LEMMA ModelInitInv == M!Init => Validation
BY DEF M!Init, Validation, M!NoConfig, Validated

\* A failure of the validation.
LEMMA RefusedInv ==
  ASSUME Validation, model_pc # "closed", M!LoadFails, UNCHANGED <<metadata, table>>
  PROVE  Validation'
BY DEF Validation, M!LoadFails, M!NoConfig, Validated

\* What validation has established stays as long as the configuration and the file do.
LEMMA KeepsInv ==
  ASSUME Validation, UNCHANGED <<metadata, table, config>>, model_pc \in Validated,
         model_pc' \in Validated, layer' \in 0 .. config.block_count,
         model_pc' = "feed_forward" => layer' < config.block_count
  PROVE  Validation'
<1>1. GlobalsValid => GlobalsValid'
  BY DEF GlobalsValid, M!EmbeddingValid, M!Hidden, M!Tensor, M!IsMatrix,
         M!IsF32Vector
<1>2. \A l : M!LayerValid(l) => M!LayerValid(l)'
  BY ValidityStays
<1> QED
  BY <1>1, <1>2 DEF Validation, Validated

\* Every step of the loader and of a pass.
LEMMA ModelNextInv ==
  ASSUME M!FilesAccepted, Validation, M!Step \/ UNCHANGED model
  PROVE  Validation'
<1>1. CASE M!LoadConfig
  <2>1. CASE ~ M!ConfigValid(metadata)
    BY <1>1, <2>1, RefusedInv DEF M!LoadConfig
  <2>2. CASE M!ConfigValid(metadata)
    <3>1. /\ model_pc = "load" /\ model_pc' = "globals" /\ UNCHANGED <<metadata, table, layer>>
          /\ config' = [k \in DOMAIN M!NoConfig |-> IF k = "vocab_size" THEN 0 ELSE metadata[k]]
      BY <1>1, <2>2 DEF M!LoadConfig
    <3>2. \A k \in M!Sizes : k \in DOMAIN M!NoConfig /\ k # "vocab_size" /\ metadata[k] \in Int
      BY <3>1, ConfigKeys DEF M!FilesAccepted, M!Sizes, Validation
    <3>3. config' \in [DOMAIN M!NoConfig -> Int] /\ \A k \in M!Sizes : config'[k] = metadata[k]
      BY <3>1, <3>2, ConfigKeys
    <3> QED
      BY <2>2, <3>1, <3>3 DEF Validation, Validated, M!ConfigValid
  <2> QED
    BY <2>1, <2>2
<1>2. CASE M!ValidateGlobals
  <2> DEFINE vocab == M!Tensor(-1, "token_embd.weight").dims[2]
             good == /\ M!EmbeddingValid
                     /\ M!IsMatrix(M!Tensor(-1, "output.weight"), M!Hidden, vocab)
                     /\ M!IsF32Vector(M!Tensor(-1, "output_norm.weight"), M!Hidden)
  <2>1. CASE ~ good
    BY <1>2, <2>1, RefusedInv DEF M!ValidateGlobals
  <2>2. CASE good
    <3>1. /\ model_pc = "globals" /\ model_pc' = "validate" /\ UNCHANGED <<metadata, table, layer>>
          /\ config' = [config EXCEPT !.vocab_size = vocab]
      BY <1>2, <2>2 DEF M!ValidateGlobals
    <3>2. vocab \in Int
      BY <2>2 DEF M!FilesAccepted, M!EmbeddingValid
    <3>3. config' \in [DOMAIN M!NoConfig -> Int] /\ config'.vocab_size = vocab
          /\ \A k \in M!Sizes : config'[k] = config[k]
      BY <3>1, <3>2, ConfigKeys DEF Validation, M!Sizes
    <3>4. GlobalsValid'
      <4>1. M!EmbeddingValid' /\ M!Hidden' = M!Hidden
            /\ \A l, name : M!Tensor(l, name)' = M!Tensor(l, name)
        BY <2>2, <3>1, <3>3, ValidityStays
      <4> QED
        BY <2>2, <3>3, <4>1 DEF GlobalsValid, M!IsMatrix, M!IsF32Vector
    <3>5. layer' = 0 /\ config'.block_count \in Nat
      BY <3>1, <3>3 DEF M!FilesAccepted, Validation, M!Sizes
    <3> QED
      BY <3>1, <3>3, <3>4, <3>5 DEF Validation, Validated
  <2> QED
    BY <2>1, <2>2
<1>3. CASE M!ValidateLayer
  <2>1. CASE ~ M!LayerValid(layer)
    BY <1>3, <2>1, RefusedInv DEF M!ValidateLayer
  <2>2. CASE M!LayerValid(layer)
    <3>1. /\ model_pc = "validate" /\ layer < config.block_count /\ layer' = layer + 1
          /\ UNCHANGED <<model_pc, config, metadata, table>>
      BY <1>3, <2>2 DEF M!ValidateLayer
    <3>2. layer \in Nat /\ config.block_count \in Int
      BY <3>1, ConfigKeys DEF Validation, M!Sizes
    <3>3. GlobalsValid'
      BY <3>1 DEF Validation, GlobalsValid, M!EmbeddingValid, M!Hidden, M!Tensor, M!IsMatrix,
         M!IsF32Vector
    <3>4. \A l \in 0 .. layer' - 1 : M!LayerValid(l)'
      <4>1. \A l \in 0 .. layer' - 1 : M!LayerValid(l)
        BY <2>2, <3>1, <3>2 DEF Validation
      <4> QED
        BY <3>1, <4>1, ValidityStays
    <3> QED
      BY <3>1, <3>2, <3>3, <3>4 DEF Validation, Validated
  <2> QED
    BY <2>1, <2>2
<1>4. CASE M!Loaded
  <2>1. /\ model_pc = "validate" /\ layer = config.block_count /\ model_pc' = "embed" /\ layer' = 0
        /\ UNCHANGED <<metadata, table, config>>
    BY <1>4 DEF M!Loaded
  <2>2. GlobalsValid'
    BY <2>1 DEF Validation, GlobalsValid, M!EmbeddingValid, M!Hidden, M!Tensor, M!IsMatrix,
         M!IsF32Vector
  <2>3. \A l \in 0 .. config'.block_count - 1 : M!LayerValid(l)'
    BY <2>1, ValidityStays DEF Validation
  <2> QED
    BY <2>1, <2>2, <2>3 DEF Validation, Validated
<1>5. CASE M!CopyEmbedding \/ M!Projections \/ M!FeedForward \/ M!Output
  <2>1. /\ model_pc \in Validated /\ metadata \in Metadata /\ table \in Tables(metadata)
        /\ layer \in 0 .. config.block_count /\ GlobalsValid
        /\ \A l \in 0 .. config.block_count - 1 : M!LayerValid(l)
    BY <1>5 DEF M!CopyEmbedding, M!Projections, M!FeedForward, M!Output, Validation, Validated
  <2>2. M!CopyEmbeddingOk /\ M!OutputOk
    BY <2>1, GlobalsRun
  <2>3. \A l \in 0 .. config.block_count - 1 : M!ProjectionsOk(l) /\ M!FeedForwardOk(l)
    BY <2>1, LayerRuns
  <2>4. layer \in Nat /\ config.block_count \in Int
    BY <2>1, ConfigKeys DEF Validation, M!Sizes
  <2>5. /\ model_pc' \in Validated /\ UNCHANGED <<metadata, table, config>>
        /\ layer' \in 0 .. config.block_count
        /\ model_pc' = "feed_forward" => layer' < config.block_count
    <3>1. CASE M!CopyEmbedding
      BY <2>1, <2>2, <3>1 DEF M!CopyEmbedding, M!Check, Validated
    <3>2. CASE M!Projections
      <4>1. layer \in 0 .. config.block_count - 1
        BY <2>4, <3>2 DEF M!Projections
      <4> QED
        BY <2>1, <2>3, <3>2, <4>1 DEF M!Projections, M!Check, Validated
    <3>3. CASE M!FeedForward
      <4>1. layer \in 0 .. config.block_count - 1
        BY <2>4, <3>3 DEF M!FeedForward, Validation
      <4>2. M!FeedForwardOk(layer)
        BY <2>3, <4>1
      <4> QED
        BY <2>4, <3>3, <4>1, <4>2 DEF M!FeedForward, M!Check, Validated
    <3>4. CASE M!Output
      BY <2>1, <2>2, <3>4 DEF M!Output, M!Check, Validated
    <3> QED
      BY <1>5, <3>1, <3>2, <3>3, <3>4
  <2> QED
    BY <2>1, <2>5, KeepsInv
<1>6. CASE M!Open
  BY <1>6 DEF M!Open, Validation, Validated
<1>7. CASE UNCHANGED model
  <2>1. UNCHANGED <<model_pc, metadata, table, config, layer>>
    BY <1>7 DEF model
  <2>2. GlobalsValid => GlobalsValid'
    BY <2>1 DEF GlobalsValid, M!EmbeddingValid, M!Hidden, M!Tensor, M!IsMatrix,
         M!IsF32Vector
  <2>3. \A l : M!LayerValid(l) => M!LayerValid(l)'
    BY <2>1, ValidityStays
  <2> QED
    BY <2>1, <2>2, <2>3 DEF Validation
<1> QED
  BY <1>1, <1>2, <1>3, <1>4, <1>5, <1>6, <1>7 DEF M!Step

\* The inductive invariant of loading a model and running it: what has been validated is what
\* a pass will find (model.c:121-175).
THEOREM ModelInv == Spec => []Validation
<1>1. ModelInit => Validation
  BY ModelInitInv DEF ModelInit
<1>2. Validation /\ [Next]_all => Validation'
  BY ModelNextInv, ModelAssumption
    DEF Next, ReadTensor, ConvertHalf, LoadAndRun, Ended, all
<1> QED
  BY <1>1, <1>2, PTL DEF Spec

\* No tensor check of a forward pass fails on a model that loaded, however many layers it has
\* and whatever its sizes and its tensors' types (model.c:121-175 against 299-372, 488-575).
THEOREM LoadedRuns == Spec => []LoadedModelRuns
<1>1. Validation => LoadedModelRuns
  BY DEF Validation, LoadedModelRuns, M!LoadedModelRuns, Validated
<1> QED
  BY <1>1, ModelInv, PTL
-----------------------------------------------------------------------------
\* A number that divides another does so as many times as the quotient says.
LEMMA Divides ==
  ASSUME NEW a \in Nat, NEW b \in Nat \ {0}, a % b = 0
  PROVE  a \div b \in Nat /\ a = b * (a \div b)
OBVIOUS

\* Whole heads: a kv row is no longer than the residual stream, so that its length, a product
\* of 32-bit numbers, does not wrap.
LEMMA Heads ==
  ASSUME NEW h \in Nat \ {0}, NEW n \in Nat \ {0}, NEW k \in Nat \ {0},
         h % n = 0, n % k = 0, (h \div n) % 2 = 0
  PROVE  /\ h \div n \in 2 .. h /\ h = n * (h \div n) /\ (h \div n) * k <= h
         /\ n = (n \div k) * k
<1> DEFINE d == h \div n
           q == n \div k
<1>1. d \in Nat /\ h = n * d
  BY Divides
<1>2. q \in Nat /\ n = k * q
  BY Divides
<1>3. d % 2 = 0
  OBVIOUS
<1> HIDE DEF d, q
<1>4. d # 0
  BY <1>1
<1>5. d >= 2
  BY <1>1, <1>3, <1>4
<1>6. q >= 1
  BY <1>2
<1>7. k <= n
  BY <1>2, <1>6
<1>8. d <= n * d
  BY <1>1
<1>9. d * k <= d * n
  BY <1>1, <1>7
<1>10. d * n = n * d /\ k * q = q * k
  BY <1>1, <1>2
<1> QED
  BY <1>1, <1>2, <1>5, <1>8, <1>9, <1>10 DEF d, q

\* The sizes a pass computes with fit each other (model.c:84-92, 121-125).
THEOREM SizesAgree == Spec => []DimensionsAgree
<1>1. ASSUME Validation, model_pc \in Validated
      PROVE  /\ config.vocab_size > 0
             /\ \E head_dim \in 2 .. M!Hidden :
                  /\ head_dim % 2 = 0
                  /\ M!Hidden = config.head_count * head_dim
                  /\ M!KeyValueLength = config.head_count_kv * head_dim
                  /\ M!KeyValueLength <= M!Hidden
             /\ config.head_count =
                  (config.head_count \div config.head_count_kv) * config.head_count_kv
  <2> DEFINE h == config.embedding_length
             n == config.head_count
             k == config.head_count_kv
  <2>1. config.vocab_size > 0
    BY <1>1, ModelAssumption
      DEF M!FilesAccepted, Validation, Validated, GlobalsValid, M!EmbeddingValid
  <2>2. /\ M!ConfigValid(metadata) /\ metadata \in Metadata
        /\ \A key \in M!Sizes : config[key] = metadata[key] /\ metadata[key] \in Nat
    BY <1>1, ModelAssumption DEF M!FilesAccepted, Validation, Validated
  <2>3. /\ h = metadata.embedding_length /\ n = metadata.head_count
        /\ k = metadata.head_count_kv
        /\ h \in Nat \ {0} /\ n \in Nat \ {0} /\ k \in Nat \ {0}
    BY <2>2 DEF M!ConfigValid, M!Sizes
  <2>4. h % n = 0 /\ n % k = 0 /\ (h \div n) % 2 = 0
    BY <2>2, <2>3 DEF M!ConfigValid
  <2>5. /\ h \div n \in 2 .. h /\ h = n * (h \div n) /\ (h \div n) * k <= h
        /\ n = (n \div k) * k
    BY <2>3, <2>4, Heads
  <2>6. M!Hidden = h /\ M!KeyValueLength = (h \div n) * k
    BY DEF M!Hidden, M!KeyValueLength
  <2> HIDE DEF h, n, k
  <2>7. M!KeyValueLength = k * (h \div n)
    BY <2>3, <2>5, <2>6
  <2>8. \E head_dim \in 2 .. M!Hidden :
          /\ head_dim % 2 = 0 /\ M!Hidden = n * head_dim /\ M!KeyValueLength = k * head_dim
          /\ M!KeyValueLength <= M!Hidden
    <3>1. h \div n \in 2 .. M!Hidden
      BY <2>5, <2>6
    <3> QED
      BY <2>4, <2>5, <2>6, <2>7, <3>1
  <2> QED
    BY <2>1, <2>5, <2>8 DEF h, n, k
<1>2. Validation => DimensionsAgree
  BY <1>1 DEF DimensionsAgree, M!DimensionsAgree, Validated
<1> QED
  BY <1>2, ModelInv, PTL
=============================================================================
