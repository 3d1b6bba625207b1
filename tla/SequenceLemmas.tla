--------------------------- MODULE SequenceLemmas ---------------------------
(***************************************************************************)
(* Facts about sequences that the library of proofs does not have:         *)
(* induction over the naturals stated with a set, what FlattenSeq, which   *)
(* is defined by recursion, computes, and fronts and prefixes.             *)
(***************************************************************************)
EXTENDS Integers, SequencesExt, FiniteSetTheorems, SequenceTheorems, TLAPS

\* Induction, with the set of the numbers a property holds of in place of the property:
\* subtracting one maps the numbers up to n that are left over into themselves without n,
\* and is injective.
LEMMA NatSetInduction ==
  ASSUME NEW S, 0 \in S, \A n \in Nat : n \in S => n + 1 \in S
  PROVE  Nat \subseteq S
<1> SUFFICES ASSUME NEW n \in Nat, n \notin S PROVE FALSE
  OBVIOUS
<1> DEFINE T == (0 .. n) \ S
       f == [x \in T |-> x - 1]
<1>1. IsFiniteSet(T) /\ n \in T
  <2>1. IsFiniteSet(0 .. n)
    BY FS_Interval
  <2>2. T \in SUBSET (0 .. n)
    OBVIOUS
  <2>3. n \in T
    OBVIOUS
  <2> HIDE DEF T
  <2>4. IsFiniteSet(T)
    BY <2>1, <2>2, FS_Subset
  <2> QED
    BY <2>3, <2>4
<1>2. ASSUME NEW x \in T PROVE x \in Nat /\ x - 1 \in T \ {n}
  <2>1. x \in Nat /\ x # 0 /\ x <= n
    OBVIOUS
  <2>2. x - 1 \in Nat /\ (x - 1) + 1 = x
    BY <2>1
  <2>3. x - 1 \notin S
    BY <2>2
  <2> QED
    BY <2>1, <2>2, <2>3
<1>3. f \in [T -> T \ {n}]
  BY <1>2
<1>4. IsFiniteSet(T \ {n}) /\ Cardinality(T \ {n}) < Cardinality(T)
  <2>1. IsFiniteSet(T \ {n}) /\ Cardinality(T \ {n}) = Cardinality(T) - 1
    BY <1>1, FS_RemoveElement
  <2>2. Cardinality(T) \in Nat
    BY <1>1, FS_CardinalityType
  <2> QED
    BY <2>1, <2>2
<1>5. \A x, y \in T : x # y => f[x] # f[y]
  BY <1>2
<1> HIDE DEF T, f
<1>6. \E x, y \in T : x # y /\ f[x] = f[y]
  BY <1>1, <1>3, <1>4, FS_PigeonHole
<1> QED
  BY <1>5, <1>6

-----------------------------------------------------------------------------
\* Naturals have a least, if there are any.
LEMMA LeastExists ==
  ASSUME NEW S \in SUBSET Nat, S # {}
  PROVE  \E x \in S : \A y \in S : x <= y
<1> SUFFICES ASSUME \A x \in S : \E y \in S : ~(x <= y) PROVE FALSE
  OBVIOUS
<1> DEFINE T == {n \in Nat : \A y \in S : n <= y}
<1>1. 0 \in T
  OBVIOUS
<1>2. ASSUME NEW n \in Nat, n \in T PROVE n + 1 \in T
  <2>1. n \notin S
    BY <1>2
  <2>2. ASSUME NEW y \in S PROVE n + 1 <= y
    <3>1. y \in Nat /\ n <= y /\ n # y
      BY <1>2, <2>1
    <3> QED
      BY <3>1
  <2> QED
    BY <2>2
<1>3. Nat \subseteq T
  <2> HIDE DEF T
  <2> QED
    BY <1>1, <1>2, NatSetInduction
<1>4. PICK x \in S : x \in Nat
  OBVIOUS
<1>5. x + 1 \in T
  BY <1>3, <1>4
<1> QED
  BY <1>4, <1>5

-----------------------------------------------------------------------------
\* f holds the concatenations of the first sequences of s, as FlattenSeq computes them.
Joins(s, f) == f = [i \in 1 .. Len(s) |-> IF i = 1 THEN s[i] ELSE f[i - 1] \o s[i]]
Join(s) == CHOOSE f : Joins(s, f)

\* FlattenSeq takes the last of these concatenations.
LEMMA FlattenIsJoin ==
  ASSUME NEW s, Len(s) # 0
  PROVE  FlattenSeq(s) = Join(s)[Len(s)]
BY DEF FlattenSeq, Join, Joins

\* f does so for the first n sequences, and each is one over A.
JoinsUpTo(A, s, n, f) ==
  /\ f \in [1 .. n -> Seq(A)]
  /\ \A j \in 1 .. n : f[j] = IF j = 1 THEN s[j] ELSE f[j - 1] \o s[j]

\* The recursion has a solution, built one sequence at a time, and CHOOSE finds one.
LEMMA JoinExists ==
  ASSUME NEW A, NEW s \in Seq(Seq(A))
  PROVE  Joins(s, Join(s)) /\ Join(s) \in [1 .. Len(s) -> Seq(A)]
<1> DEFINE S == {n \in Nat : n <= Len(s) => \E f : JoinsUpTo(A, s, n, f)}
<1>0. Len(s) \in Nat /\ \A j \in 1 .. Len(s) : s[j] \in Seq(A)
  OBVIOUS
<1>1. 0 \in S
  <2>1. JoinsUpTo(A, s, 0, << >>)
    BY DEF JoinsUpTo
  <2> QED
    BY <2>1
<1>2. ASSUME NEW n \in Nat, n \in S PROVE n + 1 \in S
  <2> SUFFICES ASSUME n + 1 <= Len(s) PROVE \E f : JoinsUpTo(A, s, n + 1, f)
    OBVIOUS
  <2>1. PICK f : JoinsUpTo(A, s, n, f)
    BY <1>0, <1>2
  <2> DEFINE last == IF n = 0 THEN s[n + 1] ELSE f[n] \o s[n + 1]
             g == [j \in 1 .. n + 1 |-> IF j = n + 1 THEN last ELSE f[j]]
  <2>2. last \in Seq(A)
    <3>1. n + 1 \in 1 .. Len(s)
      BY <1>0
    <3>2. CASE n = 0
      BY <3>1, <3>2, <1>0
    <3>3. CASE n # 0
      <4>1. f[n] \in Seq(A) /\ s[n + 1] \in Seq(A)
        BY <2>1, <3>1, <3>3, <1>0 DEF JoinsUpTo
      <4>2. f[n] \o s[n + 1] \in Seq(A)
        BY <4>1, ConcatProperties
      <4> QED
        BY <4>2, <3>3
    <3> QED
      BY <3>2, <3>3
  <2>3. g \in [1 .. n + 1 -> Seq(A)]
    BY <2>1, <2>2 DEF JoinsUpTo
  <2>4. ASSUME NEW j \in 1 .. n + 1
        PROVE  g[j] = IF j = 1 THEN s[j] ELSE g[j - 1] \o s[j]
    <3>1. CASE j = n + 1
      <4>1. j # 1 => j - 1 \in 1 .. n + 1 /\ j - 1 # n + 1 /\ j - 1 = n
        BY <3>1
      <4> QED
        BY <3>1, <4>1
    <3>2. CASE j # n + 1
      <4>1. j \in 1 .. n /\ (j # 1 => j - 1 \in 1 .. n + 1 /\ j - 1 # n + 1)
        BY <3>2
      <4>2. f[j] = IF j = 1 THEN s[j] ELSE f[j - 1] \o s[j]
        BY <2>1, <4>1 DEF JoinsUpTo
      <4> QED
        BY <3>2, <4>1, <4>2
    <3> QED
      BY <3>1, <3>2
  <2>5. JoinsUpTo(A, s, n + 1, g)
    BY <2>3, <2>4 DEF JoinsUpTo
  <2> QED
    BY <2>5
<1>3. Len(s) \in S
  <2> HIDE DEF S
  <2> QED
    BY <1>0, <1>1, <1>2, NatSetInduction
<1>4. PICK f : JoinsUpTo(A, s, Len(s), f)
  BY <1>0, <1>3
<1>5. Joins(s, f)
  BY <1>4, <1>0 DEF Joins, JoinsUpTo
<1>6. Joins(s, Join(s))
  BY <1>5 DEF Join
<1> DEFINE J == Join(s)
           T == {n \in Nat : n \in 1 .. Len(s) => J[n] \in Seq(A)}
<1>7. J = [i \in 1 .. Len(s) |-> IF i = 1 THEN s[i] ELSE J[i - 1] \o s[i]]
  BY <1>6 DEF Joins
<1>8. \A j \in 1 .. Len(s) : J[j] = IF j = 1 THEN s[j] ELSE J[j - 1] \o s[j]
  <2> HIDE DEF J
  <2> QED
    BY <1>7
<1>9. 0 \in T
  OBVIOUS
<1>10. ASSUME NEW n \in Nat, n \in T PROVE n + 1 \in T
  <2> SUFFICES ASSUME n + 1 \in 1 .. Len(s) PROVE J[n + 1] \in Seq(A)
    OBVIOUS
  <2>1. CASE n = 0
    BY <2>1, <1>8, <1>0
  <2>2. CASE n # 0
    <3>1. n \in 1 .. Len(s) /\ J[n] \in Seq(A) /\ s[n + 1] \in Seq(A)
      BY <2>2, <1>10, <1>0
    <3>2. J[n + 1] = J[n] \o s[n + 1]
      <4>1. n + 1 \in 1 .. Len(s) /\ n + 1 # 1 /\ (n + 1) - 1 = n
        BY <2>2
      <4> HIDE DEF J
      <4> QED
        BY <1>8, <4>1
    <3> HIDE DEF J
    <3> QED
      BY <3>1, <3>2, ConcatProperties
  <2> QED
    BY <2>1, <2>2
<1>11. Nat \subseteq T
  <2> HIDE DEF T
  <2> QED
    BY <1>9, <1>10, NatSetInduction
<1>12. \A j \in 1 .. Len(s) : J[j] \in Seq(A)
  BY <1>0, <1>11
<1>13. J \in [1 .. Len(s) -> Seq(A)]
  <2> HIDE DEF J
  <2> QED
    BY <1>7, <1>12
<1> QED
  BY <1>6, <1>13

\* A sequence of sequences is flattened one at a time.
LEMMA FlattenAppend ==
  ASSUME NEW A, NEW s \in Seq(Seq(A)), NEW p \in Seq(A)
  PROVE  /\ FlattenSeq(s) \in Seq(A)
         /\ FlattenSeq(Append(s, p)) = FlattenSeq(s) \o p
<1> DEFINE t == Append(s, p)
           J == Join(s)
           K == Join(t)
           S == {n \in Nat : n \in 1 .. Len(s) => K[n] = J[n]}
<1>1. t \in Seq(Seq(A)) /\ Len(s) \in Nat /\ Len(t) = Len(s) + 1 /\ t[Len(t)] = p
      /\ \A j \in 1 .. Len(s) : t[j] = s[j]
  OBVIOUS
<1>2. J \in [1 .. Len(s) -> Seq(A)]
      /\ \A j \in 1 .. Len(s) : J[j] = IF j = 1 THEN s[j] ELSE J[j - 1] \o s[j]
  <2>1. J = [j \in 1 .. Len(s) |-> IF j = 1 THEN s[j] ELSE J[j - 1] \o s[j]]
    BY JoinExists DEF Joins
  <2>2. J \in [1 .. Len(s) -> Seq(A)]
    BY JoinExists
  <2> HIDE DEF J
  <2> QED
    BY <2>1, <2>2
<1>3. \A j \in 1 .. Len(t) : K[j] = IF j = 1 THEN t[j] ELSE K[j - 1] \o t[j]
  <2> HIDE DEF t
  <2>1. K = [j \in 1 .. Len(t) |-> IF j = 1 THEN t[j] ELSE K[j - 1] \o t[j]]
    BY <1>1, JoinExists DEF Joins
  <2> HIDE DEF K
  <2> QED
    BY <2>1
<1> HIDE DEF t, J, K
<1>4. 0 \in S
  OBVIOUS
<1>5. ASSUME NEW n \in Nat, n \in S PROVE n + 1 \in S
  <2> SUFFICES ASSUME n + 1 \in 1 .. Len(s) PROVE K[n + 1] = J[n + 1]
    OBVIOUS
  <2> HIDE DEF S
  <2>1. (n + 1) - 1 = n /\ n + 1 \in 1 .. Len(t)
    BY <1>1
  <2>2. t[n + 1] = s[n + 1]
    BY <1>1
  <2>3. n + 1 # 1 => K[n] = J[n]
    <3>1. n + 1 # 1 => n \in 1 .. Len(s)
      BY <1>1
    <3> QED
      BY <1>5, <3>1 DEF S
  <2>4. K[n + 1] = IF n + 1 = 1 THEN t[n + 1] ELSE K[n] \o t[n + 1]
    BY <2>1, <1>3
  <2>5. J[n + 1] = IF n + 1 = 1 THEN s[n + 1] ELSE J[n] \o s[n + 1]
    BY <2>1, <1>2
  <2> QED
    BY <2>2, <2>3, <2>4, <2>5
<1>6. \A j \in 1 .. Len(s) : K[j] = J[j]
  <2>1. Nat \subseteq S
    <3> HIDE DEF S
    <3> QED
      BY <1>4, <1>5, NatSetInduction
  <2> QED
    BY <2>1
<1>7. FlattenSeq(t) = K[Len(t)]
  BY <1>1, FlattenIsJoin DEF K
<1>8. CASE Len(s) = 0
  <2>1. s = << >> /\ FlattenSeq(s) = << >>
    BY <1>8 DEF FlattenSeq
  <2>2. K[Len(t)] = p
    BY <1>1, <1>3, <1>8
  <2>3. << >> \in Seq(A) /\ << >> \o p = p
    BY EmptySeq, ConcatEmptySeq
  <2> QED
    BY <2>1, <2>2, <2>3, <1>7 DEF t
<1>9. CASE Len(s) # 0
  <2>1. FlattenSeq(s) = J[Len(s)]
    BY <1>9, FlattenIsJoin DEF J
  <2>2. Len(s) \in 1 .. Len(s) /\ Len(t) \in 1 .. Len(t) /\ Len(t) # 1 /\ Len(t) - 1 = Len(s)
    BY <1>1, <1>9
  <2>3. K[Len(t)] = K[Len(s)] \o p
    BY <1>1, <1>3, <2>2
  <2> QED
    BY <2>1, <2>2, <2>3, <1>2, <1>6, <1>7 DEF t
<1> QED
  BY <1>8, <1>9
-----------------------------------------------------------------------------
\* A sequence is its front and its last element.
LEMMA FrontAndLast ==
  ASSUME NEW S, NEW s \in Seq(S), s # << >>
  PROVE  Front(s) \in Seq(S) /\ Last(s) \in S /\ s = Append(Front(s), Last(s))
         /\ Len(Front(s)) + 1 = Len(s)
<1>1. /\ Len(s) \in Nat \ {0} /\ Front(s) \in Seq(S) /\ Len(Front(s)) = Len(s) - 1
      /\ \A k \in 1 .. Len(s) - 1 : Front(s)[k] = s[k]
      /\ Last(s) = s[Len(s)] /\ Last(s) \in S
  <2>1. Len(s) \in Nat \ {0} /\ \A k \in 1 .. Len(s) : s[k] \in S
    OBVIOUS
  <2>2. \A k \in 1 .. Len(s) - 1 : s[k] \in S
    BY <2>1
  <2>3. /\ SubSeq(s, 1, Len(s) - 1) \in Seq(S) /\ Len(SubSeq(s, 1, Len(s) - 1)) = Len(s) - 1
        /\ \A k \in 1 .. Len(s) - 1 : SubSeq(s, 1, Len(s) - 1)[k] = s[k]
    <3> DEFINE m == Len(s) - 1
    <3>1. m \in Nat /\ 1 \in Int /\ (1 <= m \/ m = 0)
      <4>1. Len(s) \in Nat /\ Len(s) # 0
        BY <2>1
      <4>2. m \in Nat
        BY <4>1
      <4> HIDE DEF m
      <4> QED
        BY <4>2
    <3>2. \A k \in 1 .. m : s[k] \in S /\ 1 + k - 1 = k
      BY <2>1, <2>2
    <3> HIDE DEF m
    <3>3. /\ SubSeq(s, 1, m) \in Seq(S) /\ Len(SubSeq(s, 1, m)) = m
          /\ \A k \in 1 .. m : SubSeq(s, 1, m)[k] = s[k]
      BY <3>1, <3>2, SubSeqProperties
    <3> QED
      BY <3>3 DEF m
  <2> QED
    BY <2>1, <2>3 DEF Front, Last
<1> DEFINE a == Append(Front(s), Last(s))
<1>2. /\ a \in Seq(S) /\ Len(a) = Len(s) /\ a[Len(s)] = Last(s)
      /\ \A k \in 1 .. Len(s) - 1 : a[k] = Front(s)[k]
  BY <1>1
<1> HIDE DEF a
<1>3. \A k \in 1 .. Len(s) : a[k] = s[k]
  BY <1>1, <1>2
<1>4. a = s
  BY <1>1, <1>2, <1>3, SeqEqual
<1> QED
  BY <1>1, <1>4 DEF a

\* Dropping the element that was appended.
LEMMA FrontOfAppend ==
  ASSUME NEW T, NEW b \in Seq(T), NEW x \in T
  PROVE  /\ Append(b, x) \in Seq(T) /\ Append(b, x) # << >>
         /\ Len(Append(b, x)) = Len(b) + 1
         /\ Front(Append(b, x)) = b
<1>1. Append(b, x) \in Seq(T) /\ Len(Append(b, x)) = Len(b) + 1 /\ Len(b) \in Nat
      /\ \A k \in 1 .. Len(b) : Append(b, x)[k] = b[k]
  OBVIOUS
<1>2. Front(Append(b, x)) \in Seq(T) /\ Len(Front(Append(b, x))) = Len(b)
      /\ \A k \in 1 .. Len(b) : Front(Append(b, x))[k] = b[k]
  BY <1>1 DEF Front
<1> QED
  BY <1>1, <1>2, SeqEqual

\* Taking one more element of a sequence.
LEMMA PrefixGrows ==
  ASSUME NEW S, NEW s \in Seq(S), NEW n \in 0 .. Len(s), n < Len(s)
  PROVE  /\ n + 1 \in 1 .. Len(s) /\ s[n + 1] \in S
         /\ SubSeq(s, 1, n) \in Seq(S) /\ Len(SubSeq(s, 1, n)) = n
         /\ Append(SubSeq(s, 1, n), s[n + 1]) = SubSeq(s, 1, n + 1)
         /\ SubSeq(s, 1, n + 1) \in Seq(S)
<1>1. n + 1 \in 1 .. Len(s) /\ 1 \in 1 .. Len(s) /\ Len(s) \in Nat /\ (n + 1) - 1 = n
  OBVIOUS
<1>2. s[n + 1] \in S /\ \A k \in 1 .. n + 1 : s[k] \in S
  BY <1>1
<1>3. SubSeq(s, 1, n) \in Seq(S) /\ Len(SubSeq(s, 1, n)) = n /\ SubSeq(s, 1, n + 1) \in Seq(S)
  BY <1>1, <1>2, SubSeqProperties
<1>4. SubSeq(s, 1, n + 1) = SubSeq(s, 1, n) \o << s[n + 1] >>
  BY <1>1, SubSeqRecursiveSecond
<1>5. Append(SubSeq(s, 1, n), s[n + 1]) = SubSeq(s, 1, n) \o << s[n + 1] >>
  BY <1>2, <1>3, AppendIsConcat
<1> QED
  BY <1>1, <1>2, <1>3, <1>4, <1>5

\* Flattening goes through concatenation.
LEMMA FlattenConcat ==
  ASSUME NEW A, NEW s \in Seq(Seq(A)), NEW t \in Seq(Seq(A))
  PROVE  /\ FlattenSeq(s) \in Seq(A) /\ FlattenSeq(t) \in Seq(A)
         /\ FlattenSeq(s \o t) = FlattenSeq(s) \o FlattenSeq(t)
<1>1. \A u \in Seq(Seq(A)) : FlattenSeq(u) \in Seq(A)
  <2>1. << >> \in Seq(A)
    BY EmptySeq
  <2> QED
    BY <2>1, FlattenAppend
<1> DEFINE S == {n \in Nat : n <= Len(t) =>
                   FlattenSeq(s \o SubSeq(t, 1, n)) = FlattenSeq(s) \o FlattenSeq(SubSeq(t, 1, n))}
<1>2. 0 \in S
  <2>1. SubSeq(t, 1, 0) = << >> /\ FlattenSeq(<< >>) = << >>
    BY SubSeqEmpty DEF FlattenSeq
  <2>2. s \o << >> = s /\ FlattenSeq(s) \o << >> = FlattenSeq(s)
    BY <1>1, ConcatEmptySeq
  <2> QED
    BY <2>1, <2>2
<1>3. ASSUME NEW n \in Nat, n \in S PROVE n + 1 \in S
  <2> SUFFICES ASSUME n + 1 <= Len(t)
               PROVE  FlattenSeq(s \o SubSeq(t, 1, n + 1))
                        = FlattenSeq(s) \o FlattenSeq(SubSeq(t, 1, n + 1))
    OBVIOUS
  <2> DEFINE u == SubSeq(t, 1, n)
             x == t[n + 1]
  <2>1. n \in 0 .. Len(t) /\ n < Len(t) /\ n <= Len(t)
    <3>1. Len(t) \in Nat
      OBVIOUS
    <3> QED
      BY <3>1
  <2>2. u \in Seq(Seq(A)) /\ x \in Seq(A) /\ SubSeq(t, 1, n + 1) = Append(u, x)
    BY <2>1, PrefixGrows
  <2>3. FlattenSeq(s \o u) = FlattenSeq(s) \o FlattenSeq(u)
    BY <1>3, <2>1
  <2> HIDE DEF u, x, S
  <2>4. s \o Append(u, x) = Append(s \o u, x) /\ s \o u \in Seq(Seq(A))
    <3>1. Append(u, x) = u \o <<x>> /\ <<x>> \in Seq(Seq(A))
      BY <2>2, AppendIsConcat
    <3>2. s \o u \in Seq(Seq(A))
      BY <2>2, ConcatProperties
    <3>3. Append(s \o u, x) = (s \o u) \o <<x>>
      BY <3>2, <2>2, AppendIsConcat
    <3>4. s \o (u \o <<x>>) = (s \o u) \o <<x>>
      <4>1. s \in Seq(Seq(A)) /\ u \in Seq(Seq(A)) /\ <<x>> \in Seq(Seq(A))
        BY <2>2, <3>1
      <4> QED
        BY ONLY <4>1, ConcatAssociative
    <3> QED
      BY <3>1, <3>2, <3>3, <3>4
  <2>5. FlattenSeq(Append(s \o u, x)) = FlattenSeq(s \o u) \o x
    BY <2>2, <2>4, FlattenAppend
  <2>6. FlattenSeq(Append(u, x)) = FlattenSeq(u) \o x /\ FlattenSeq(u) \in Seq(A)
    BY <2>2, FlattenAppend
  <2>7. (FlattenSeq(s) \o FlattenSeq(u)) \o x = FlattenSeq(s) \o (FlattenSeq(u) \o x)
    <3>1. FlattenSeq(s) \in Seq(A) /\ FlattenSeq(u) \in Seq(A) /\ x \in Seq(A)
      BY <1>1, <2>2
    <3> QED
      BY ONLY <3>1, ConcatAssociative
  <2> QED
    BY <2>2, <2>3, <2>4, <2>5, <2>6, <2>7
<1>4. Len(t) \in S
  <2> HIDE DEF S
  <2>1. Len(t) \in Nat
    OBVIOUS
  <2> QED
    BY <1>2, <1>3, <2>1, NatSetInduction
<1>5. SubSeq(t, 1, Len(t)) = t
  BY SubSeqFull
<1>6. \A n : n \in S => (n <= Len(t) =>
        FlattenSeq(s \o SubSeq(t, 1, n)) = FlattenSeq(s) \o FlattenSeq(SubSeq(t, 1, n)))
  OBVIOUS
<1>7. Len(t) <= Len(t)
  <2>1. Len(t) \in Nat
    OBVIOUS
  <2> QED
    BY <2>1
<1> HIDE DEF S
<1> QED
  BY Zenon, <1>1, <1>4, <1>5, <1>6, <1>7

\* Two elements, one behind the other.
LEMMA TwoAsConcat ==
  ASSUME NEW T, NEW x \in T, NEW y \in T
  PROVE  /\ <<x>> \in Seq(T) /\ <<y>> \in Seq(T) /\ <<x, y>> \in Seq(T)
         /\ <<x>> \o <<y>> = <<x, y>>
<1>1. <<x>> \in Seq(T) /\ <<y>> \in Seq(T) /\ <<x, y>> \in Seq(T)
      /\ Len(<<x>>) = 1 /\ Len(<<x, y>>) = 2
  OBVIOUS
<1>2. Append(<<x>>, y) = <<x, y>>
  <2> DEFINE a == Append(<<x>>, y)
  <2>1. a \in Seq(T) /\ Len(a) = 2 /\ a[1] = x /\ a[2] = y
    BY <1>1
  <2>2. <<x, y>>[1] = x /\ <<x, y>>[2] = y
    OBVIOUS
  <2> HIDE DEF a
  <2>3. \A i \in 1 .. 2 : a[i] = <<x, y>>[i]
    BY <2>1, <2>2
  <2>4. a = <<x, y>>
    BY <1>1, <2>1, <2>3, SeqEqual
  <2> QED
    BY <2>4 DEF a
<1> QED
  BY <1>1, <1>2, AppendIsConcat
-----------------------------------------------------------------------------
\* The largest of some of the numbers from 1 to n.
LEMMA MaxUpTo ==
  ASSUME NEW n \in Nat, NEW S \in SUBSET (1 .. n), S # {}
  PROVE  Max(S) \in S /\ \A k \in S : k <= Max(S)
<1> DEFINE T == {n - k : k \in S}
<1>0. \A k \in S : k \in Nat /\ n - k \in Nat
  OBVIOUS
<1>1. T \in SUBSET Nat /\ T # {}
  BY <1>0
<1>2. PICK x \in T : \A y \in T : x <= y
  <2> HIDE DEF T
  <2> QED
    BY <1>1, LeastExists
<1>3. PICK k \in S : x = n - k
  BY <1>2
<1>4. ASSUME NEW j \in S PROVE k >= j
  <2>1. n - j \in T
    OBVIOUS
  <2>2. n - k <= n - j /\ k \in Nat /\ j \in Nat
    BY <1>0, <1>2, <1>3, <2>1
  <2> QED
    BY <2>2
<1>5. Max(S) \in S /\ \A j \in S : Max(S) >= j
  BY <1>4 DEF Max
<1> QED
  BY <1>5

\* A fold from left to right over n values is a function on the sets of their places, by
\* recursion on the largest place.
Folds(n, b, g, f) ==
  f = [S \in SUBSET (1 .. n) |-> IF S = {} THEN b ELSE g[<<Max(S), f[S \ {Max(S)}]>>]]

\* f does so up to the place k, and its values are in V.
FoldsUpTo(V, b, g, k, f) ==
  /\ f \in [SUBSET (1 .. k) -> V]
  /\ \A S \in SUBSET (1 .. k) :
       f[S] = IF S = {} THEN b ELSE g[<<Max(S), f[S \ {Max(S)}]>>]

\* There is one.
LEMMA FoldExists ==
  ASSUME NEW n \in Nat, NEW V, NEW b \in V, NEW g \in [(1 .. n) \X V -> V]
  PROVE  \E f \in [SUBSET (1 .. n) -> V] : Folds(n, b, g, f)
<1> DEFINE T == {k \in Nat : k <= n => \E f : FoldsUpTo(V, b, g, k, f)}
<1>1. 0 \in T
  <2> DEFINE f == [S \in SUBSET (1 .. 0) |-> b]
  <2>1. SUBSET (1 .. 0) = {{}}
    OBVIOUS
  <2>2. FoldsUpTo(V, b, g, 0, f)
    BY <2>1 DEF FoldsUpTo
  <2> QED
    BY <2>2
<1>2. ASSUME NEW k \in Nat, k \in T PROVE k + 1 \in T
  <2> SUFFICES ASSUME k + 1 <= n PROVE \E f : FoldsUpTo(V, b, g, k + 1, f)
    OBVIOUS
  <2>1. PICK f : FoldsUpTo(V, b, g, k, f)
    BY <1>2
  <2> DEFINE h == [S \in SUBSET (1 .. k + 1) |->
                     IF k + 1 \in S THEN g[<<k + 1, f[S \ {k + 1}]>>] ELSE f[S]]
  <2>2. ASSUME NEW S \in SUBSET (1 .. k + 1) PROVE S \ {k + 1} \in SUBSET (1 .. k)
    OBVIOUS
  <2>3. ASSUME NEW S \in SUBSET (1 .. k + 1), k + 1 \in S PROVE Max(S) = k + 1
    <3>1. k + 1 \in Nat /\ S # {}
      BY <2>3
    <3>2. Max(S) \in S /\ k + 1 <= Max(S)
      BY <2>3, <3>1, MaxUpTo
    <3>3. Max(S) \in 1 .. k + 1
      BY <3>2
    <3> QED
      BY <3>2, <3>3
  <2>4. h \in [SUBSET (1 .. k + 1) -> V]
    <3> SUFFICES ASSUME NEW S \in SUBSET (1 .. k + 1)
                 PROVE  (IF k + 1 \in S THEN g[<<k + 1, f[S \ {k + 1}]>>] ELSE f[S]) \in V
      OBVIOUS
    <3>1. CASE k + 1 \in S
      <4>1. f[S \ {k + 1}] \in V /\ k + 1 \in 1 .. n
        BY <2>1, <2>2 DEF FoldsUpTo
      <4>2. <<k + 1, f[S \ {k + 1}]>> \in (1 .. n) \X V
        BY <4>1
      <4> QED
        BY <3>1, <4>2
    <3>2. CASE k + 1 \notin S
      <4>1. S \in SUBSET (1 .. k)
        BY <3>2
      <4> QED
        BY <3>2, <4>1, <2>1 DEF FoldsUpTo
    <3> QED
      BY <3>1, <3>2
  <2>5. ASSUME NEW S \in SUBSET (1 .. k + 1)
        PROVE  h[S] = IF S = {} THEN b ELSE g[<<Max(S), h[S \ {Max(S)}]>>]
    <3>1. CASE k + 1 \in S
      <4>1. S # {} /\ Max(S) = k + 1
        BY <3>1, <2>3
      <4>2. h[S \ {k + 1}] = f[S \ {k + 1}] /\ S \ {k + 1} \in SUBSET (1 .. k + 1)
        BY <2>2
      <4>3. h[S] = g[<<k + 1, f[S \ {k + 1}]>>]
        BY <3>1
      <4> HIDE DEF h
      <4> QED
        BY <4>1, <4>2, <4>3
    <3>2. CASE k + 1 \notin S
      <4>1. S \in SUBSET (1 .. k)
        BY <3>2
      <4>2. h[S] = f[S]
        BY <3>2
      <4>3. CASE S # {}
        <5>1. Max(S) \in 1 .. k
          BY <4>1, <4>3, MaxUpTo
        <5>2. S \ {Max(S)} \in SUBSET (1 .. k + 1) /\ k + 1 \notin S \ {Max(S)}
          BY <3>2
        <5>3. h[S \ {Max(S)}] = f[S \ {Max(S)}]
          BY <5>2
        <5> HIDE DEF h
        <5> QED
          BY <2>1, <4>1, <4>2, <4>3, <5>3 DEF FoldsUpTo
      <4>4. CASE S = {}
        <5> HIDE DEF h
        <5> QED
          BY <2>1, <4>1, <4>2, <4>4 DEF FoldsUpTo
      <4> QED
        BY <4>3, <4>4
    <3> QED
      BY <3>1, <3>2
  <2>6. FoldsUpTo(V, b, g, k + 1, h)
    <3> HIDE DEF h
    <3> QED
      BY <2>4, <2>5 DEF FoldsUpTo
  <2> QED
    BY <2>6
<1>3. Nat \subseteq T
  <2> HIDE DEF T
  <2> QED
    BY <1>1, <1>2, NatSetInduction
<1>4. PICK f : FoldsUpTo(V, b, g, n, f)
  <2>1. n \in T /\ n <= n
    BY <1>3
  <2> QED
    BY <2>1
<1>5. Folds(n, b, g, f)
  <2>1. f = [S \in SUBSET (1 .. n) |-> f[S]]
    BY <1>4 DEF FoldsUpTo
  <2> QED
    BY <1>4, <2>1 DEF Folds, FoldsUpTo
<1> QED
  BY <1>4, <1>5 DEF FoldsUpTo

\* The same of a function that need be nothing else.
FoldsInto(n, V, b, g, f) ==
  /\ f[{}] = b
  /\ \A S \in SUBSET (1 .. n) :
       S # {} /\ f[S \ {Max(S)}] \in V => f[S] = g[<<Max(S), f[S \ {Max(S)}]>>]

Traced(n, V, b, g, f) ==
  /\ \A k \in 0 .. n : f[1 .. k] \in V
  /\ f[1 .. 0] = b /\ \A k \in 1 .. n : f[1 .. k] = g[<<k, f[1 .. k - 1]>>]

\* What it comes to, one value after the other.
LEMMA FoldRuns ==
  ASSUME NEW n \in Nat, NEW V, NEW b \in V, NEW g \in [(1 .. n) \X V -> V],
         NEW f, FoldsInto(n, V, b, g, f)
  PROVE  Traced(n, V, b, g, f)
<1>0. /\ f[{}] = b
      /\ \A S \in SUBSET (1 .. n) :
           S # {} /\ f[S \ {Max(S)}] \in V => f[S] = g[<<Max(S), f[S \ {Max(S)}]>>]
  BY DEF FoldsInto
<1> DEFINE T == {k \in Nat : k <= n => f[1 .. k] \in V}
<1>1. 1 .. 0 = {}
  OBVIOUS
<1>2. 0 \in T
  BY <1>0, <1>1
<1>3. ASSUME NEW k \in Nat, k + 1 <= n
      PROVE  /\ 1 .. k + 1 \in SUBSET (1 .. n) /\ 1 .. k + 1 # {} /\ Max(1 .. k + 1) = k + 1
             /\ (1 .. k + 1) \ {k + 1} = 1 .. k
  <2>1. 1 .. k + 1 \in SUBSET (1 .. n) /\ k + 1 \in 1 .. k + 1
    BY <1>3
  <2>2. Max(1 .. k + 1) \in 1 .. k + 1 /\ k + 1 <= Max(1 .. k + 1)
    BY <2>1, MaxUpTo
  <2> QED
    BY <2>1, <2>2
<1>4. ASSUME NEW k \in Nat, k + 1 <= n, f[1 .. k] \in V
      PROVE  f[1 .. k + 1] = g[<<k + 1, f[1 .. k]>>] /\ f[1 .. k + 1] \in V
  <2>1. f[1 .. k + 1] = g[<<k + 1, f[1 .. k]>>]
    <3> DEFINE S == 1 .. k + 1
    <3>1. S \in SUBSET (1 .. n) /\ S # {} /\ Max(S) = k + 1 /\ S \ {Max(S)} = 1 .. k
      BY <1>3, <1>4
    <3> HIDE DEF S
    <3>2. f[S] = g[<<Max(S), f[S \ {Max(S)}]>>]
      BY <1>0, <1>4, <3>1
    <3> QED
      BY <3>1, <3>2 DEF S
  <2>2. <<k + 1, f[1 .. k]>> \in (1 .. n) \X V
    BY <1>4
  <2> QED
    BY <2>1, <2>2
<1>5. ASSUME NEW k \in Nat, k \in T PROVE k + 1 \in T
  <2> SUFFICES ASSUME k + 1 <= n PROVE f[1 .. k + 1] \in V
    OBVIOUS
  <2>1. k <= n
    OBVIOUS
  <2>2. f[1 .. k] \in V
    BY <1>5, <2>1
  <2> QED
    BY <1>4, <2>2
<1>6. \A k \in 0 .. n : f[1 .. k] \in V
  <2>1. Nat \subseteq T
    <3> HIDE DEF T
    <3> QED
      BY <1>2, <1>5, NatSetInduction
  <2> QED
    BY <2>1
<1>7. ASSUME NEW k \in 1 .. n PROVE f[1 .. k] = g[<<k, f[1 .. k - 1]>>]
  <2> DEFINE j == k - 1
  <2>1. j \in Nat /\ j + 1 <= n /\ j \in 0 .. n /\ j + 1 = k
    OBVIOUS
  <2> HIDE DEF j
  <2>2. f[1 .. j] \in V
    BY <1>6, <2>1
  <2>3. f[1 .. j + 1] = g[<<j + 1, f[1 .. j]>>]
    BY <1>4, <2>1, <2>2
  <2> QED
    BY <2>1, <2>3 DEF j
<1> QED
  BY <1>0, <1>1, <1>6, <1>7 DEF Traced

\* The beginning of a sequence.
LEMMA PartIs ==
  ASSUME NEW S, NEW p \in Seq(S), NEW k \in 0 .. Len(p)
  PROVE  /\ SubSeq(p, 1, k) \in Seq(S) /\ Len(SubSeq(p, 1, k)) = k
         /\ \A n \in 1 .. k : SubSeq(p, 1, k)[n] = p[n]
<1> DEFINE w == SubSeq(p, 1, k)
<1>1. k \in Nat /\ k <= Len(p) /\ Len(p) \in Nat
  OBVIOUS
<1>2. \A n \in 1 .. k : p[n] \in S
  <2>1. \A n \in 1 .. k : n \in 1 .. Len(p)
    BY <1>1
  <2> QED
    BY <2>1, ElementOfSeq
<1>3. /\ w \in Seq(S) /\ Len(w) = (IF 1 <= k THEN k - 1 + 1 ELSE 0)
      /\ \A n \in 1 .. k - 1 + 1 : w[n] = p[1 + n - 1]
  <2>1. k \in Int /\ 1 \in Int
    BY <1>1
  <2> QED
    BY <1>2, <2>1, SubSeqProperties
<1> HIDE DEF w
<1>4. Len(w) = k
  BY <1>1, <1>3
<1>5. ASSUME NEW n \in 1 .. k PROVE w[n] = p[n]
  <2>1. n \in 1 .. k - 1 + 1 /\ 1 + n - 1 = n
    BY <1>1
  <2> QED
    BY <1>3, <2>1
<1> QED
  BY <1>3, <1>4, <1>5 DEF w

\* One element of a sequence as a sequence.
LEMMA SubSeqOne ==
  ASSUME NEW S, NEW p \in Seq(S), NEW i \in 1 .. Len(p)
  PROVE  SubSeq(p, i, i) = <<p[i]>>
<1>1. i \in Int /\ i - 1 \in Int /\ i - 1 < i /\ Len(p) \in Nat
  OBVIOUS
<1>2. SubSeq(p, i, i) = SubSeq(p, i, i - 1) \o <<p[i]>>
  BY <1>1, SubSeqRecursiveSecond
<1>3. SubSeq(p, i, i - 1) = << >>
  BY <1>1, SubSeqEmpty
<1>4. p[i] \in S
  BY ElementOfSeq
<1>5. <<p[i]>> \in Seq(S)
  BY <1>4
<1> QED
  BY <1>2, <1>3, <1>5, ConcatEmptySeq
-----------------------------------------------------------------------------
\* The sums of w over sets of numbers from 1 to n, whichever is added last.
Sums(n, w, f) ==
  /\ f \in [SUBSET (1 .. n) -> Int] /\ f[{}] = 0
  /\ \A S \in SUBSET (1 .. n) : \A x \in S : f[S] = w[x] + f[S \ {x}]

\* There are such sums.
LEMMA SumExists ==
  ASSUME NEW n \in Nat, NEW w \in [1 .. n -> Int]
  PROVE  \E f : Sums(n, w, f)
<1> DEFINE g == [q \in (1 .. n) \X Int |-> w[q[1]] + q[2]]
<1>1. g \in [(1 .. n) \X Int -> Int] /\ \A k \in 1 .. n, v \in Int : g[<<k, v>>] = w[k] + v
  OBVIOUS
<1> HIDE DEF g
<1>2. PICK f \in [SUBSET (1 .. n) -> Int] : Folds(n, 0, g, f)
  <2>1. 0 \in Int
    OBVIOUS
  <2> QED
    BY <1>1, <2>1, FoldExists
<1>3. ASSUME NEW S \in SUBSET (1 .. n)
      PROVE  /\ S = {} => f[S] = 0
             /\ S # {} => /\ Max(S) \in S /\ (\A k \in S : k <= Max(S))
                          /\ f[S] = w[Max(S)] + f[S \ {Max(S)}]
  <2>1. f[S] = IF S = {} THEN 0 ELSE g[<<Max(S), f[S \ {Max(S)}]>>]
    BY <1>2 DEF Folds
  <2>2. ASSUME S # {} PROVE Max(S) \in S /\ \A k \in S : k <= Max(S)
    BY <2>2, MaxUpTo
  <2>3. S # {} => Max(S) \in 1 .. n /\ f[S \ {Max(S)}] \in Int
    BY <1>2, <2>2
  <2> QED
    BY <1>1, <2>1, <2>2, <2>3
<1> DEFINE T == {k \in Nat : k <= n =>
                   \A S \in SUBSET (1 .. k) : \A x \in S : f[S] = w[x] + f[S \ {x}]}
<1>4. 0 \in T
  <2>1. \A S \in SUBSET (1 .. 0) : S = {}
    OBVIOUS
  <2> QED
    BY <2>1
<1>5. ASSUME NEW k \in Nat, k \in T PROVE k + 1 \in T
  <2> SUFFICES ASSUME k + 1 <= n, NEW S \in SUBSET (1 .. k + 1), NEW x \in S
               PROVE  f[S] = w[x] + f[S \ {x}]
    OBVIOUS
  <2>1. /\ \A U \in SUBSET (1 .. k) : \A y \in U : f[U] = w[y] + f[U \ {y}]
        /\ 1 .. k + 1 \subseteq 1 .. n /\ 1 .. k \subseteq 1 .. n
    <3>1. k <= n /\ 1 .. k + 1 \subseteq 1 .. n /\ 1 .. k \subseteq 1 .. n
      OBVIOUS
    <3> QED
      BY <1>5, <3>1
  <2> HIDE DEF T
  <2>2. CASE k + 1 \notin S
    <3>1. S \in SUBSET (1 .. k)
      BY <2>2
    <3> QED
      BY <2>1, <3>1
  <2>3. CASE k + 1 \in S
    <3> DEFINE m == k + 1
               U == S \ {m}
    <3>1. S \in SUBSET (1 .. n) /\ S # {}
      BY <2>1
    <3>2. Max(S) = m
      <4>1. Max(S) \in S /\ k + 1 <= Max(S)
        BY <1>3, <2>3, <3>1
      <4>2. Max(S) \in 1 .. k + 1
        BY <4>1
      <4> QED
        BY <4>1, <4>2
    <3>3. f[S] = w[m] + f[U]
      BY <1>3, <3>1, <3>2
    <3>4. CASE x = m
      BY <3>3, <3>4
    <3>5. CASE x # m
      <4>1. U \in SUBSET (1 .. k) /\ x \in U
        BY <3>5
      <4>2. f[U] = w[x] + f[U \ {x}]
        BY <2>1, <4>1
      <4> DEFINE V == S \ {x}
      <4>3. V \in SUBSET (1 .. n) /\ V # {} /\ m \in V /\ V \in SUBSET (1 .. k + 1)
        BY <2>3, <3>1, <3>5
      <4>4. Max(V) = m
        <5> HIDE DEF V
        <5>1. Max(V) \in V /\ k + 1 <= Max(V)
          BY <1>3, <4>3
        <5>2. Max(V) \in 1 .. k + 1
          BY <4>3, <5>1
        <5> QED
          BY <5>1, <5>2
      <4>5. f[V] = w[m] + f[V \ {m}]
        <5> HIDE DEF V
        <5> QED
          BY <1>3, <4>3, <4>4
      <4>6. V \ {m} = U \ {x}
        OBVIOUS
      <4>7. w[m] \in Int /\ w[x] \in Int /\ f[U \ {x}] \in Int
        <5>1. m \in 1 .. n /\ x \in 1 .. n /\ U \ {x} \in SUBSET (1 .. n)
          BY <2>1, <2>3, <3>1
        <5> QED
          BY <1>2, <5>1
      <4> HIDE DEF U, V, m
      <4>8. f[S] = w[x] + f[V]
        <5>1. \A a, b, d \in Int : a + (b + d) = b + (a + d)
          OBVIOUS
        <5>2. w[m] + (w[x] + f[U \ {x}]) = w[x] + (w[m] + f[U \ {x}])
          BY ONLY <4>7, <5>1
        <5> QED
          BY ONLY <3>3, <4>2, <4>5, <4>6, <5>2
      <4> QED
        BY <4>8 DEF V
    <3> QED
      BY <3>4, <3>5
  <2> QED
    BY <2>2, <2>3
<1>6. Nat \subseteq T
  <2> HIDE DEF T
  <2> QED
    BY <1>4, <1>5, NatSetInduction
<1>7. \A S \in SUBSET (1 .. n) : \A x \in S : f[S] = w[x] + f[S \ {x}]
  <2>1. n \in T
    BY <1>6
  <2>2. n <= n
    OBVIOUS
  <2> QED
    BY <2>1, <2>2
<1>8. f[{}] = 0
  BY <1>3
<1> QED
  BY <1>2, <1>7, <1>8 DEF Sums

\* c adds up w over A, by any choice of what is added next.
AddsUp(w, c, A) ==
  /\ c[{}] = 0
  /\ \A S \in SUBSET A : S # {} => \E x \in S : c[S] = w[x] + c[S \ {x}]

\* A sum by any choice of what is added next is that sum.
LEMMA SumIs ==
  ASSUME NEW n \in Nat, NEW w, NEW f, Sums(n, w, f), NEW A \in SUBSET (1 .. n),
         NEW c, AddsUp(w, c, A)
  PROVE  c[A] = f[A]
<1>0. /\ c[{}] = 0
      /\ \A S \in SUBSET A : S # {} => \E x \in S : c[S] = w[x] + c[S \ {x}]
  BY DEF AddsUp
<1> DEFINE T == {k \in Nat : \A S \in SUBSET A : Cardinality(S) <= k => c[S] = f[S]}
<1>1. IsFiniteSet(A)
  <2>1. IsFiniteSet(1 .. n)
    BY FS_Interval
  <2> QED
    BY <2>1, FS_Subset
<1>2. \A S \in SUBSET A : IsFiniteSet(S) /\ Cardinality(S) \in Nat
  BY <1>1, FS_Subset, FS_CardinalityType
<1>3. 0 \in T
  <2> SUFFICES ASSUME NEW S \in SUBSET A, Cardinality(S) <= 0 PROVE c[S] = f[S]
    OBVIOUS
  <2>1. Cardinality(S) = 0
    BY <1>2
  <2>2. S = {}
    BY <1>2, <2>1, FS_EmptySet
  <2> QED
    BY <1>0, <2>2 DEF Sums
<1>4. ASSUME NEW k \in Nat, k \in T PROVE k + 1 \in T
  <2> SUFFICES ASSUME NEW S \in SUBSET A, Cardinality(S) <= k + 1 PROVE c[S] = f[S]
    OBVIOUS
  <2>1. CASE S = {}
    BY <1>0, <2>1 DEF Sums
  <2>2. CASE S # {}
    <3>1. PICK x \in S : c[S] = w[x] + c[S \ {x}]
      BY <1>0, <2>2
    <3>2. Cardinality(S \ {x}) = Cardinality(S) - 1
      BY <1>2, FS_RemoveElement
    <3>3. S \ {x} \in SUBSET A /\ Cardinality(S \ {x}) <= k
      BY <1>2, <3>2
    <3>4. c[S \ {x}] = f[S \ {x}]
      BY <1>4, <3>3
    <3>5. f[S] = w[x] + f[S \ {x}]
      BY DEF Sums
    <3> QED
      BY <3>1, <3>4, <3>5
  <2> QED
    BY <2>1, <2>2
<1>5. Nat \subseteq T
  <2> HIDE DEF T
  <2> QED
    BY <1>3, <1>4, NatSetInduction
<1>6. Cardinality(A) \in T
  BY <1>2, <1>5
<1>7. Cardinality(A) \in Nat
  BY <1>2
<1> QED
  BY <1>6, <1>7
=============================================================================
