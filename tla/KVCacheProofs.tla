---------------------------- MODULE KVCacheProofs ----------------------------
(***************************************************************************)
(* Proofs about KVCache for every configuration load_config accepts.  The  *)
(* strengthening of the two cache invariants says what an in-flight pass   *)
(* has already written at its own position; the arithmetic lemmas say that *)
(* cache_position gives every layer, position and kv head a cell of its    *)
(* own inside the allocation.                                              *)
(***************************************************************************)
EXTENDS KVCache, TLAPS

\* A product is monotone in its first factor.
LEMMA TimesMonotone ==
  ASSUME NEW a \in Nat, NEW b \in Nat, NEW n \in Nat, a < b
  PROVE  a * n + n <= b * n
<1>1. PICK d \in Nat : b = a + 1 + d
  <2>1. b - a - 1 \in Nat /\ b = a + 1 + (b - a - 1)
    OBVIOUS
  <2> QED
    BY <2>1
<1>2. b * n = a * n + n + d * n
  BY <1>1
<1>3. d * n \in Nat
  OBVIOUS
<1> QED
  BY <1>2, <1>3

\* Quotient and remainder are unique: a digit below the base and the rest.
LEMMA Digits ==
  ASSUME NEW n \in Nat, NEW a \in Nat, NEW b \in Nat,
         NEW r \in 0 .. n - 1, NEW s \in 0 .. n - 1,
         a * n + r = b * n + s
  PROVE  a = b /\ r = s
<1>1. a * n \in Nat /\ b * n \in Nat
  OBVIOUS
<1>2. ~ (a < b)
  <2> SUFFICES ASSUME a < b PROVE FALSE
    OBVIOUS
  <2>1. a * n + n <= b * n
    BY TimesMonotone
  <2> QED
    BY <1>1, <2>1
<1>3. ~ (b < a)
  <2> SUFFICES ASSUME b < a PROVE FALSE
    OBVIOUS
  <2>1. b * n + n <= a * n
    BY TimesMonotone
  <2> QED
    BY <1>1, <2>1
<1>4. a = b
  BY <1>2, <1>3
<1> QED
  BY <1>1, <1>4

\* The constants' types, in the form the provers use them.
LEMMA ConfigTypes ==
  /\ BlockCount \in Nat /\ BlockCount > 0
  /\ HeadCountKV \in Nat /\ HeadCountKV > 0
  /\ HeadCount \in Nat /\ HeadCount > 0
  /\ ContextLength \in Nat /\ ContextLength > 0
  /\ VocabSize \in Nat /\ VocabSize > 0
  /\ HeadBytes \in Nat /\ HeadBytes > 0
  /\ SizeMax \in Nat
BY ConfigAssumption

\* cache_position is a number written with the digits layer and position.
LEMMA PositionDigits ==
  ASSUME NEW l \in Nat, NEW q \in Nat, capacity \in Nat
  PROVE  /\ CachePosition(l, q) = (l * capacity + q) * HeadCountKV
         /\ CachePosition(l, q) \in Nat
<1> DEFINE lc == l * capacity
<1>1. lc \in Nat
  OBVIOUS
<1>2. HeadCountKV \in Nat
  BY ConfigTypes
<1>3. lc * HeadCountKV \in Nat /\ q * HeadCountKV \in Nat
  BY <1>1, <1>2
<1>4. (lc + q) * HeadCountKV = lc * HeadCountKV + q * HeadCountKV
  BY <1>1, <1>2
<1> QED
  BY <1>3, <1>4 DEF CachePosition

\* No two layers, positions or heads share a cell.
LEMMA CellsDistinct ==
  ASSUME capacity \in Nat,
         NEW l \in Nat, NEW m \in Nat,
         NEW q \in 0 .. capacity - 1, NEW p \in 0 .. capacity - 1,
         NEW g \in KVHeads, NEW h \in KVHeads,
         CachePosition(l, q) + g = CachePosition(m, p) + h
  PROVE  l = m /\ q = p /\ g = h
<1> DEFINE lq == l * capacity + q
           mp == m * capacity + p
<1>1. q \in Nat /\ p \in Nat
  OBVIOUS
<1>2. l * capacity \in Nat /\ m * capacity \in Nat
  OBVIOUS
<1>3. lq \in Nat /\ mp \in Nat
  BY <1>1, <1>2
<1>4. lq * HeadCountKV + g = mp * HeadCountKV + h
  BY <1>1, PositionDigits
<1>5. HeadCountKV \in Nat /\ g \in 0 .. HeadCountKV - 1 /\ h \in 0 .. HeadCountKV - 1
  BY ConfigTypes DEF KVHeads
<1>6. lq = mp /\ g = h
  <2> HIDE DEF lq, mp
  <2> QED
    BY <1>3, <1>4, <1>5, Digits
<1>7. l = m /\ q = p
  BY <1>6, Digits
<1> QED
  BY <1>6, <1>7

\* Every row of the cache lies inside the allocation.
LEMMA CellsInRange ==
  ASSUME capacity \in Nat,
         NEW l \in Layers, NEW q \in 0 .. capacity - 1, NEW g \in KVHeads
  PROVE  CachePosition(l, q) + g \in 0 .. CellCount(capacity) - 1
<1> DEFINE lq == l * capacity + q
           bc == BlockCount * capacity
<1>1. l \in Nat /\ q \in Nat /\ g \in Nat /\ l < BlockCount /\ g < HeadCountKV
  BY ConfigTypes DEF Layers, KVHeads
<1>2. lq \in Nat /\ bc \in Nat
  <2>1. l * capacity \in Nat
    BY <1>1
  <2>2. BlockCount * capacity \in Nat
    BY ConfigTypes
  <2> QED
    BY <1>1, <2>1, <2>2
<1>3. lq < bc
  <2>1. l * capacity + capacity <= bc
    BY <1>1, ConfigTypes, TimesMonotone
  <2>2. l * capacity \in Nat
    BY <1>1
  <2> QED
    BY <1>2, <2>1, <2>2
<1>4. lq * HeadCountKV + HeadCountKV <= bc * HeadCountKV
  <2> HIDE DEF lq, bc
  <2> QED
    BY <1>2, <1>3, ConfigTypes, TimesMonotone
<1>5. CachePosition(l, q) = lq * HeadCountKV /\ CachePosition(l, q) \in Nat
  BY <1>1, PositionDigits
<1>6. CellCount(capacity) = bc * HeadCountKV
  BY DEF CellCount
<1>7. bc * HeadCountKV \in Nat
  <2> HIDE DEF bc
  <2> QED
    BY <1>2, ConfigTypes
<1> DEFINE cp == CachePosition(l, q)
           lqh == lq * HeadCountKV
           bch == bc * HeadCountKV
<1>8. cp = lqh /\ cp \in Nat /\ lqh + HeadCountKV <= bch /\ bch \in Nat
  BY <1>4, <1>5, <1>7
<1>9. cp + g \in 0 .. bch - 1
  <2> HIDE DEF cp, lqh, bch
  <2> QED
    BY <1>1, <1>8, ConfigTypes
<1> QED
  BY <1>6, <1>9

\* A query head is served by one of the kv heads.
LEMMA KVHeadServes ==
  ASSUME NEW h \in 0 .. HeadCount - 1
  PROVE  KVHeadOf(h) \in KVHeads
<1> DEFINE m == HeadCount \div HeadCountKV
<1>1. m \in Nat /\ HeadCount = m * HeadCountKV
  BY ConfigAssumption
<1>2. m > 0
  BY <1>1, ConfigTypes
<1> DEFINE k == h \div m
<1>3. h \in Nat /\ h < HeadCount
  BY ConfigTypes
<1>4. k \in Nat /\ k * m <= h
  <2> HIDE DEF m
  <2> QED
    BY <1>1, <1>2, <1>3
<1>5. ASSUME ~ (k < HeadCountKV) PROVE FALSE
  <2> HIDE DEF m, k
  <2>1. k = HeadCountKV \/ HeadCountKV < k
    BY <1>4, <1>5, ConfigTypes
  <2>2. HeadCountKV * m <= k * m
    <3>1. CASE k = HeadCountKV
      BY <3>1, <1>1, <1>4
    <3>2. CASE HeadCountKV < k
      <4>1. HeadCountKV * m + m <= k * m
        BY <3>2, <1>1, <1>4, ConfigTypes, TimesMonotone
      <4>2. HeadCountKV * m \in Nat /\ k * m \in Nat
        BY <1>1, <1>4, ConfigTypes
      <4> QED
        BY <4>1, <4>2, <1>1
    <3> QED
      BY <2>1, <3>1, <3>2
  <2>3. HeadCountKV * m = m * HeadCountKV
    BY <1>1, ConfigTypes
  <2>4. k * m \in Nat /\ HeadCountKV * m \in Nat
    BY <1>1, <1>4, ConfigTypes
  <2> QED
    BY <2>2, <2>3, <2>4, <1>1, <1>3, <1>4
<1> QED
  BY <1>4, <1>5, ConfigTypes DEF KVHeads, KVHeadOf

\* What the memcpys leave at each row: the new row at (l, p), the old one
\* everywhere else.
LEMMA StoredRows ==
  ASSUME capacity \in Nat, NEW cache,
         DOMAIN cache = 0 .. CellCount(capacity) - 1,
         NEW l \in Layers, NEW p \in 0 .. capacity - 1,
         NEW m \in Layers, NEW q \in 0 .. capacity - 1, NEW g \in KVHeads
  PROVE  At(Stored(cache, l, p), CachePosition(m, q) + g) =
           IF m = l /\ q = p
           THEN [layer |-> l, position |-> p, head |-> g, context |-> hidden]
           ELSE At(cache, CachePosition(m, q) + g)
<1> DEFINE i == CachePosition(m, q) + g
           b == CachePosition(l, p)
<1>1. i \in DOMAIN cache
  BY CellsInRange
<1>2. l \in Nat /\ m \in Nat /\ p \in Nat /\ q \in Nat /\ g \in Int
  BY ConfigTypes DEF Layers, KVHeads
<1>3. CachePosition(m, q) \in Nat /\ b \in Nat
  BY <1>2, PositionDigits
<1>4. At(Stored(cache, l, p), i) =
        IF i - b \in KVHeads
        THEN [layer |-> l, position |-> p, head |-> i - b, context |-> hidden]
        ELSE cache[i]
  BY <1>1 DEF At, Stored
<1>5. CASE m = l /\ q = p
  <2>1. i - b = g
    BY <1>2, <1>3, <1>5
  <2> QED
    BY <1>4, <1>5, <2>1
<1>6. CASE ~ (m = l /\ q = p)
  <2>1. i - b \notin KVHeads
    <3> SUFFICES ASSUME i - b \in KVHeads PROVE FALSE
      OBVIOUS
    <3>1. PICK h \in KVHeads : h = i - b
      OBVIOUS
    <3>2. CachePosition(l, p) + h = CachePosition(m, q) + g
      BY <1>2, <1>3, <3>1
    <3>3. l = m /\ p = q /\ h = g
      BY <1>2, <3>2, CellsDistinct
    <3> QED
      BY <1>6, <3>3
  <2> QED
    BY <1>1, <1>4, <1>6, <2>1 DEF At
<1> QED
  BY <1>5, <1>6

\* A row names the last of the tokens it depends on.
LEMMA RowNamesToken ==
  ASSUME NEW toks \in Seq(Tokens), NEW l \in Layers, NEW g,
         NEW q \in Nat, q < Len(toks)
  PROVE  /\ TokenOf(Row(l, q, g, toks)) = toks[q + 1]
         /\ Row(l, q, g, toks).context \in Seq(Tokens)
<1>1. toks[q + 1] \in Tokens
  OBVIOUS
<1>2. CASE l = 0
  BY <1>1, <1>2 DEF Row, TokenOf
<1>3. CASE l # 0
  <2> DEFINE pre == SubSeq(toks, 1, q + 1)
  <2>1. pre \in Seq(Tokens) /\ Len(pre) = q + 1 /\ pre[q + 1] = toks[q + 1]
    OBVIOUS
  <2>2. Row(l, q, g, toks).context = pre
    BY <1>3 DEF Row
  <2>3. pre # << >> /\ Len(pre) \in Nat
    BY <2>1
  <2>4. TokenOf(Row(l, q, g, toks)) = pre[Len(pre)]
    BY <2>2, <2>3 DEF TokenOf
  <2> QED
    BY <2>1, <2>2, <2>4
<1> QED
  BY <1>2, <1>3

\* Attention over the rows of one context depends on exactly that context.
LEMMA AttendedContext ==
  ASSUME capacity \in Nat, NEW ks, NEW vs, NEW l \in Layers,
         NEW p \in 0 .. capacity - 1,
         NEW toks \in Seq(Tokens), Len(toks) = p + 1,
         \A q \in 0 .. p, g \in KVHeads :
            /\ At(ks, CachePosition(l, q) + g) = Row(l, q, g, toks)
            /\ At(vs, CachePosition(l, q) + g) = Row(l, q, g, toks)
  PROVE  Attended(ks, vs, l, p) = toks
<1> DEFINE seen == [q \in 1 .. p + 1 |-> TokenOf(At(ks, CachePosition(l, q - 1)))]
<1>1. 0 \in KVHeads
  BY ConfigTypes DEF KVHeads
<1>2. ASSUME NEW q \in 1 .. p + 1
      PROVE  seen[q] = toks[q]
  <2>1. q - 1 \in 0 .. p /\ q - 1 \in Nat
    OBVIOUS
  <2>2. At(ks, CachePosition(l, q - 1) + 0) = Row(l, q - 1, 0, toks)
    BY <1>1, <2>1
  <2>3. CachePosition(l, q - 1) \in Nat
    <3>1. l \in Nat
      BY ConfigTypes DEF Layers
    <3> QED
      BY <2>1, <3>1, PositionDigits
  <2>4. CachePosition(l, q - 1) + 0 = CachePosition(l, q - 1)
    BY <2>3
  <2>5. seen[q] = TokenOf(Row(l, q - 1, 0, toks))
    BY <2>2, <2>4
  <2>6. q - 1 < Len(toks)
    OBVIOUS
  <2>7. TokenOf(Row(l, q - 1, 0, toks)) = toks[(q - 1) + 1]
    BY <2>1, <2>6, RowNamesToken
  <2> QED
    BY <2>5, <2>7
<1>3. seen = toks
  <2>1. toks = [q \in 1 .. p + 1 |-> toks[q]]
    OBVIOUS
  <2> QED
    BY <1>2, <2>1
<1>4. \A h \in 0 .. HeadCount - 1, q \in 0 .. p :
        /\ At(ks, CachePosition(l, q) + KVHeadOf(h)) = Row(l, q, KVHeadOf(h), seen)
        /\ At(vs, CachePosition(l, q) + KVHeadOf(h)) = Row(l, q, KVHeadOf(h), seen)
  <2> HIDE DEF seen
  <2> QED
    BY <1>3, KVHeadServes
<1>5. Attended(ks, vs, l, p) = seen
  BY <1>4 DEF Attended
<1> QED
  BY <1>3, <1>5
-----------------------------------------------------------------------------
\* The inductive invariant.  TypeOK and CacheMatchesContext are not inductive
\* alone: that a finished pass may be counted needs PassFollowsContext.
IInv == TypeOK /\ CacheMatchesContext /\ PassFollowsContext

\* A size that passes multiply_size's checks is allocated in full.
LEMMA CallocExact ==
  ASSUME NEW c \in 1 .. ContextLength, ~ Overflows(c)
  PROVE  /\ DOMAIN Calloc(c) = 0 .. CellCount(c) - 1
         /\ \A i \in DOMAIN Calloc(c) : Calloc(c)[i] = Zero
         /\ Calloc(c) \in [0 .. CellCount(c) - 1 -> {Zero}]
<1> DEFINE n == CellCount(c)
           b == n * HeadBytes
<1>1. n \in Nat
  <2>1. BlockCount * c \in Nat
    BY ConfigTypes
  <2> QED
    BY <2>1, ConfigTypes DEF CellCount
<1>2. b \in Nat /\ b <= SizeMax
  <2>1. b \in Nat
    <3> HIDE DEF n
    <3> QED
      BY <1>1, ConfigTypes
  <2> QED
    BY <2>1, ConfigTypes DEF Overflows
<1>3. b % (SizeMax + 1) = b
  <2> HIDE DEF b
  <2> QED
    BY <1>2, ConfigTypes
<1>4. b \div HeadBytes = n
  <2> HIDE DEF n
  <2> QED
    BY <1>1, ConfigTypes
<1>5. Calloc(c) = [i \in 0 .. n - 1 |-> Zero]
  BY <1>3, <1>4 DEF Calloc
<1> QED
  BY <1>5

\* The context the cache records is a sequence of valid tokens.
LEMMA ContextType ==
  ASSUME TypeOK, CacheMatchesContext
  PROVE  Context \in Seq(Tokens) /\ Len(Context) = token_count
<1>1. token_count \in Nat /\ capacity \in Nat /\ token_count <= capacity
  BY ConfigTypes DEF TypeOK
<1>2. ASSUME NEW q \in 1 .. token_count
      PROVE  Context[q] \in Tokens
  <2>1. q - 1 \in 0 .. token_count - 1 /\ q - 1 \in 0 .. capacity - 1
    BY <1>1
  <2>2. 0 \in Layers /\ 0 \in KVHeads
    BY ConfigTypes DEF Layers, KVHeads
  <2>3. CachePosition(0, q - 1) \in Nat
    BY <1>1, <2>1, PositionDigits
  <2> DEFINE i == CachePosition(0, q - 1)
  <2>4. i + 0 = i
    BY <2>3
  <2>5. i \in 0 .. CellCount(capacity) - 1
    BY <1>1, <2>1, <2>2, <2>4, CellsInRange
  <2>6. capacity # 0
    BY <1>1
  <2>7. At(keys, i) \in Cell \cup {Zero}
    BY <2>5, <2>6 DEF TypeOK, CacheType, At
  <2>8. At(keys, i) = Row(0, q - 1, 0, Context)
    BY <2>1, <2>2, <2>4 DEF CacheMatchesContext
  <2>9. At(keys, i).layer = 0 /\ At(keys, i).context = <<Context[q]>>
    BY <1>1, <2>8 DEF Row
  <2>10. At(keys, i) \in Cell
    BY <2>7, <2>9 DEF Zero
  <2>11. At(keys, i).context \in Seq(Tokens)
    BY <2>10 DEF Cell
  <2>12. ASSUME NEW x, <<x>> \in Seq(Tokens) PROVE x \in Tokens
    <3>1. <<x>>[1] \in Tokens
      BY <2>12
    <3> QED
      BY <3>1
  <2> QED
    BY <2>9, <2>11, <2>12
<1>3. Context = [q \in 1 .. token_count |-> Context[q]]
  BY DEF Context
<1>4. Context \in [1 .. token_count -> Tokens]
  BY <1>2, <1>3
<1> QED
  BY <1>1, <1>4

\* Extending the context does not change what earlier rows are.
LEMMA RowPrefix ==
  ASSUME NEW ctx \in Seq(Tokens), NEW t \in Tokens, NEW l \in Layers, NEW g,
         NEW q \in Nat, q < Len(ctx)
  PROVE  Row(l, q, g, Append(ctx, t)) = Row(l, q, g, ctx)
<1>1. Append(ctx, t)[q + 1] = ctx[q + 1]
  OBVIOUS
<1>2. SubSeq(Append(ctx, t), 1, q + 1) = SubSeq(ctx, 1, q + 1)
  OBVIOUS
<1> QED
  BY <1>1, <1>2 DEF Row
-----------------------------------------------------------------------------
\* The zeroed state the callers start from satisfies the invariant (main.c:234).
THEOREM InitEstablishes == Init => IInv
<1> SUFFICES ASSUME Init PROVE IInv
  OBVIOUS
<1>1. TypeOK
  <2>1. << >> \in Seq(Tokens)
    OBVIOUS
  <2>2. 0 \in 0 .. ContextLength /\ 0 \in 0 .. BlockCount /\ 0 \in 0 .. 0
    BY ConfigTypes
  <2>3. capacity = 0 /\ keys = Null /\ values = Null
    BY DEF Init
  <2>4. capacity \in 0 .. ContextLength /\ token_count \in 0 .. capacity
    BY <2>2 DEF Init
  <2> QED
    BY <2>1, <2>2, <2>3, <2>4 DEF Init, TypeOK
<1>2. CacheMatchesContext
  BY DEF Init, CacheMatchesContext
<1>3. PassFollowsContext
  BY DEF Init, PassFollowsContext
<1> QED
  BY <1>1, <1>2, <1>3 DEF IInv

\* A step that leaves the pass idle and the context empty keeps the invariant.
LEMMA EmptyContext ==
  ASSUME TypeOK', token_count' = 0, pc' = "idle"
  PROVE  IInv'
<1>1. CacheMatchesContext'
  BY DEF CacheMatchesContext
<1>2. PassFollowsContext'
  BY DEF PassFollowsContext
<1> QED
  BY <1>1, <1>2 DEF IInv

\* The memcpys of an in-flight pass touch no counted row and keep the arrays'
\* types.
LEMMA StoreKeeps ==
  ASSUME IInv, pc = "layers", layer \in Layers,
         keys' = Stored(keys, layer, token_count),
         values' = Stored(values, layer, token_count),
         capacity' = capacity, token_count' = token_count
  PROVE  /\ Context' = Context
         /\ CacheMatchesContext'
         /\ \A m \in Layers, q \in 0 .. token_count - 1, g \in KVHeads :
              /\ At(keys', CachePosition(m, q) + g) = Row(m, q, g, Context)
              /\ At(values', CachePosition(m, q) + g) = Row(m, q, g, Context)
         /\ keys' \in CacheType' /\ values' \in CacheType'
         /\ capacity # 0
<1>1. /\ capacity \in Nat /\ capacity <= ContextLength
      /\ token_count \in 0 .. capacity - 1
      /\ capacity # 0
  BY ConfigTypes DEF IInv, TypeOK, PassFollowsContext
<1>2. keys \in CacheType /\ values \in CacheType
  BY <1>1 DEF IInv, TypeOK
<1>3. /\ DOMAIN keys = 0 .. CellCount(capacity) - 1
      /\ DOMAIN values = 0 .. CellCount(capacity) - 1
  BY <1>2 DEF CacheType
<1>4. \A m \in Layers, q \in 0 .. token_count - 1, g \in KVHeads :
        /\ At(keys', CachePosition(m, q) + g) = At(keys, CachePosition(m, q) + g)
        /\ At(values', CachePosition(m, q) + g) = At(values, CachePosition(m, q) + g)
  <2> TAKE m \in Layers, q \in 0 .. token_count - 1, g \in KVHeads
  <2>1. q \in 0 .. capacity - 1
    BY <1>1
  <2>2. At(Stored(keys, layer, token_count), CachePosition(m, q) + g)
          = At(keys, CachePosition(m, q) + g)
    <3>1. At(Stored(keys, layer, token_count), CachePosition(m, q) + g) =
            IF m = layer /\ q = token_count
            THEN [layer |-> layer, position |-> token_count, head |-> g,
                  context |-> hidden]
            ELSE At(keys, CachePosition(m, q) + g)
      BY <1>1, <1>3, <2>1, StoredRows
    <3> QED
      BY <1>1, <3>1
  <2>3. At(Stored(values, layer, token_count), CachePosition(m, q) + g)
          = At(values, CachePosition(m, q) + g)
    <3>1. At(Stored(values, layer, token_count), CachePosition(m, q) + g) =
            IF m = layer /\ q = token_count
            THEN [layer |-> layer, position |-> token_count, head |-> g,
                  context |-> hidden]
            ELSE At(values, CachePosition(m, q) + g)
      BY <1>1, <1>3, <2>1, StoredRows
    <3> QED
      BY <1>1, <3>1
  <2> QED
    BY <2>2, <2>3
<1>5. \A m, q : CachePosition(m, q)' = CachePosition(m, q)
  BY DEF CachePosition
<1>6. Context' = Context
  <2>1. ASSUME NEW q \in 1 .. token_count
        PROVE  At(keys', CachePosition(0, q - 1)) = At(keys, CachePosition(0, q - 1))
    <3>1. q - 1 \in 0 .. token_count - 1 /\ q - 1 \in Nat
      BY <1>1
    <3>2. 0 \in Layers /\ 0 \in KVHeads
      BY ConfigTypes DEF Layers, KVHeads
    <3>3. CachePosition(0, q - 1) \in Nat
      BY <1>1, <3>1, PositionDigits
    <3>4. CachePosition(0, q - 1) + 0 = CachePosition(0, q - 1)
      BY <3>3
    <3> QED
      BY <1>4, <3>1, <3>2, <3>4
  <2> QED
    BY <1>5, <2>1 DEF Context, At
<1>7. \A m \in Layers, q \in 0 .. token_count - 1, g \in KVHeads :
         /\ At(keys', CachePosition(m, q) + g) = Row(m, q, g, Context)
         /\ At(values', CachePosition(m, q) + g) = Row(m, q, g, Context)
  BY <1>4 DEF IInv, CacheMatchesContext
<1>8. CacheMatchesContext'
  BY <1>5, <1>6, <1>7 DEF CacheMatchesContext, At, Row
<1>9. ASSUME NEW cache, cache \in CacheType
      PROVE  Stored(cache, layer, token_count) \in CacheType
  <2> DEFINE b == CachePosition(layer, token_count)
  <2>1. hidden \in Seq(Tokens) /\ token_count \in Positions
    BY <1>1, ConfigTypes DEF IInv, TypeOK, Positions
  <2>2. ASSUME NEW i, i - b \in KVHeads
        PROVE  [layer |-> layer, position |-> token_count, head |-> i - b,
                context |-> hidden] \in Cell
    BY <2>1, <2>2 DEF Cell
  <2> HIDE DEF b
  <2>3. \A i \in 0 .. CellCount(capacity) - 1 : cache[i] \in Cell \cup {Zero}
    BY <1>9 DEF CacheType
  <2> QED
    BY <1>9, <2>2, <2>3 DEF Stored, CacheType, b
<1>10. CacheType' = CacheType
  BY DEF CacheType, CellCount
<1> QED
  BY <1>1, <1>2, <1>6, <1>8, <1>9, <1>10, <1>7

\* One layer of a pass: its row joins the rows of the layers before it, and
\* attention over them depends on exactly the context and the new token.
LEMMA RunLayerKeeps ==
  ASSUME IInv, RunLayer
  PROVE  IInv' /\ Context' = Context
<1> DEFINE p == token_count
           toks == Append(Context, token)
<1>1. /\ pc = "layers" /\ layer \in Layers /\ layer \in Nat /\ pc' = pc
      /\ keys' = Stored(keys, layer, p) /\ values' = Stored(values, layer, p)
      /\ hidden' = Attended(keys', values', layer, p)
      /\ layer' = layer + 1
      /\ capacity' = capacity /\ token_count' = token_count /\ token' = token
      /\ logits' = logits /\ ok' = ok
  BY ConfigTypes DEF RunLayer, IInv, TypeOK, Layers
<1>2. /\ Context' = Context /\ CacheMatchesContext'
      /\ \A m \in Layers, q \in 0 .. p - 1, g \in KVHeads :
           /\ At(keys', CachePosition(m, q) + g) = Row(m, q, g, Context)
           /\ At(values', CachePosition(m, q) + g) = Row(m, q, g, Context)
      /\ keys' \in CacheType' /\ values' \in CacheType' /\ capacity # 0
  BY <1>1, StoreKeeps
<1>3. Context \in Seq(Tokens) /\ Len(Context) = p
  BY ContextType DEF IInv
<1>4. /\ capacity \in Nat /\ p \in 0 .. capacity - 1 /\ p \in Nat
      /\ token \in Tokens
      /\ hidden = IF layer = 0 THEN <<token>> ELSE toks
  BY <1>1, ConfigTypes DEF IInv, TypeOK, PassFollowsContext
<1>5. toks \in Seq(Tokens) /\ Len(toks) = p + 1 /\ toks[p + 1] = token
  BY <1>3, <1>4
<1>6. /\ DOMAIN keys = 0 .. CellCount(capacity) - 1
      /\ DOMAIN values = 0 .. CellCount(capacity) - 1
  BY <1>2 DEF IInv, TypeOK, CacheType
<1>7. \A m, q : CachePosition(m, q)' = CachePosition(m, q)
  BY <1>1 DEF CachePosition
<1>8. ASSUME NEW g \in KVHeads
      PROVE  [layer |-> layer, position |-> p, head |-> g, context |-> hidden]
               = Row(layer, p, g, toks)
  <2>1. CASE layer = 0
    BY <1>4, <1>5, <2>1 DEF Row
  <2>2. CASE layer # 0
    <3>1. SubSeq(toks, 1, p + 1) = toks
      BY <1>4, <1>5
    <3> QED
      BY <1>4, <2>2, <3>1 DEF Row
  <2> QED
    BY <2>1, <2>2
<1>9. ASSUME NEW g \in KVHeads
      PROVE  /\ At(keys', CachePosition(layer, p) + g) = Row(layer, p, g, toks)
             /\ At(values', CachePosition(layer, p) + g) = Row(layer, p, g, toks)
  <2>1. At(Stored(keys, layer, p), CachePosition(layer, p) + g)
          = IF layer = layer /\ p = p
            THEN [layer |-> layer, position |-> p, head |-> g, context |-> hidden]
            ELSE At(keys, CachePosition(layer, p) + g)
    BY <1>1, <1>4, <1>6, StoredRows
  <2>2. At(Stored(values, layer, p), CachePosition(layer, p) + g)
          = IF layer = layer /\ p = p
            THEN [layer |-> layer, position |-> p, head |-> g, context |-> hidden]
            ELSE At(values, CachePosition(layer, p) + g)
    BY <1>1, <1>4, <1>6, StoredRows
  <2> QED
    BY <1>1, <1>8, <2>1, <2>2
<1>10. ASSUME NEW l \in 0 .. layer - 1, NEW g \in KVHeads
       PROVE  /\ At(keys', CachePosition(l, p) + g) = Row(l, p, g, toks)
              /\ At(values', CachePosition(l, p) + g) = Row(l, p, g, toks)
  <2>1. l \in Layers /\ (l = layer) = FALSE
    BY <1>1, ConfigTypes DEF Layers
  <2>2. At(Stored(keys, layer, p), CachePosition(l, p) + g)
          = IF l = layer /\ p = p
            THEN [layer |-> layer, position |-> p, head |-> g, context |-> hidden]
            ELSE At(keys, CachePosition(l, p) + g)
    <3>1. l \in Layers
      BY <2>1
    <3> QED
      BY <1>1, <1>4, <1>6, <3>1, StoredRows
  <2>3. At(Stored(values, layer, p), CachePosition(l, p) + g)
          = IF l = layer /\ p = p
            THEN [layer |-> layer, position |-> p, head |-> g, context |-> hidden]
            ELSE At(values, CachePosition(l, p) + g)
    <3>1. l \in Layers
      BY <2>1
    <3> QED
      BY <1>1, <1>4, <1>6, <3>1, StoredRows
  <2>4. /\ At(keys, CachePosition(l, p) + g) = Row(l, p, g, toks)
        /\ At(values, CachePosition(l, p) + g) = Row(l, p, g, toks)
    BY <1>1 DEF IInv, PassFollowsContext
  <2> QED
    BY <1>1, <2>1, <2>2, <2>3, <2>4
<1>11. ASSUME NEW q \in 0 .. p, NEW g \in KVHeads
       PROVE  /\ At(keys', CachePosition(layer, q) + g) = Row(layer, q, g, toks)
              /\ At(values', CachePosition(layer, q) + g) = Row(layer, q, g, toks)
  <2>1. CASE q = p
    BY <1>9, <2>1
  <2>2. CASE q # p
    <3>1. q \in 0 .. p - 1 /\ q \in Nat /\ q < Len(Context)
      BY <1>3, <1>4, <2>2
    <3>2. Row(layer, q, g, toks) = Row(layer, q, g, Context)
      BY <1>1, <1>3, <1>4, <3>1, RowPrefix
    <3> QED
      BY <1>1, <1>2, <3>1, <3>2
  <2> QED
    BY <2>1, <2>2
<1>12. hidden' = toks
  <2>1. Attended(keys', values', layer, p) = toks
    BY <1>1, <1>4, <1>5, <1>11, AttendedContext
  <2> QED
    BY <1>1, <2>1
<1>13. TypeOK'
  <2>1. layer' \in 0 .. BlockCount
    BY <1>1, ConfigTypes DEF Layers
  <2>2. hidden' \in Seq(Tokens)
    BY <1>5, <1>12
  <2> QED
    BY <1>1, <1>2, <2>1, <2>2 DEF IInv, TypeOK
<1>14. PassFollowsContext'
  <2>1. (0 .. layer' - 1) = (0 .. layer - 1) \cup {layer} /\ layer' # 0
    BY <1>1
  <2>2. Append(Context, token)' = toks
    BY <1>1, <1>2
  <2>3. \A l \in 0 .. layer' - 1, g \in KVHeads :
          /\ At(keys', CachePosition(l, p) + g) = Row(l, p, g, toks)
          /\ At(values', CachePosition(l, p) + g) = Row(l, p, g, toks)
    BY <1>9, <1>10, <2>1
  <2>4. p < capacity
    BY <1>4
  <2> HIDE DEF toks
  <2> QED
    BY <1>1, <1>4, <1>7, <1>12, <2>1, <2>2, <2>3, <2>4
       DEF PassFollowsContext, At, Row
<1> QED
  BY <1>2, <1>13, <1>14 DEF IInv

\* A state with no counted position has the empty context.
LEMMA NoContext ==
  ASSUME token_count' = 0
  PROVE  Context' = << >>
<1>1. (1 .. token_count)' = 1 .. 0 /\ 1 .. 0 = {}
  OBVIOUS
<1>2. DOMAIN Context' = {} /\ DOMAIN << >> = {}
  BY <1>1 DEF Context
<1>3. Context' = [q \in {} |-> 0] /\ << >> = [q \in {} |-> 0]
  BY <1>1, <1>2 DEF Context
<1> QED
  BY <1>3

\* Counting a finished pass adds exactly its token to the context.
LEMMA SuccessExtends ==
  ASSUME IInv, ForwardSucceeds
  PROVE  /\ IInv'
         /\ Context' = Append(Context, token) /\ logits' = Context'
         /\ token \in Tokens /\ Len(Context) < capacity
<1> DEFINE p == token_count
           toks == Append(Context, token)
<1>1. /\ pc = "layers" /\ layer = BlockCount /\ logits' = hidden
      /\ token_count' = p + 1
      /\ pc' = "idle" /\ token' = 0 /\ layer' = 0 /\ hidden' = << >> /\ ok' = TRUE
      /\ keys' = keys /\ values' = values /\ capacity' = capacity
  BY DEF ForwardSucceeds, ForwardReturns
<1>2. Context \in Seq(Tokens) /\ Len(Context) = p
  BY ContextType DEF IInv
<1>3. /\ capacity \in Nat /\ p \in Nat /\ p < capacity /\ capacity # 0
      /\ token \in Tokens /\ hidden = toks
      /\ \A l \in 0 .. layer - 1, g \in KVHeads :
            /\ At(keys, CachePosition(l, p) + g) = Row(l, p, g, toks)
            /\ At(values, CachePosition(l, p) + g) = Row(l, p, g, toks)
  BY <1>1, ConfigTypes DEF IInv, TypeOK, PassFollowsContext
<1>4. toks \in Seq(Tokens) /\ Len(toks) = p + 1 /\ toks[p + 1] = token
  BY <1>2, <1>3
<1>5. ASSUME NEW l \in Layers, NEW q \in 0 .. p, NEW g \in KVHeads
      PROVE  /\ At(keys, CachePosition(l, q) + g) = Row(l, q, g, toks)
             /\ At(values, CachePosition(l, q) + g) = Row(l, q, g, toks)
  <2>1. CASE q = p
    BY <1>1, <1>3, <2>1 DEF Layers
  <2>2. CASE q # p
    <3>1. q \in 0 .. p - 1 /\ q \in Nat /\ q < Len(Context)
      BY <1>2, <1>3, <2>2
    <3>2. Row(l, q, g, toks) = Row(l, q, g, Context)
      BY <1>2, <1>3, <3>1, RowPrefix
    <3> QED
      BY <3>1, <3>2 DEF IInv, CacheMatchesContext
  <2> QED
    BY <2>1, <2>2
<1>6. \A l, q : CachePosition(l, q)' = CachePosition(l, q)
  BY <1>1 DEF CachePosition
<1>7. ASSUME NEW q \in 1 .. p + 1
      PROVE  TokenOf(At(keys, CachePosition(0, q - 1))) = toks[q]
  <2>1. q - 1 \in 0 .. p /\ q - 1 \in Nat /\ q - 1 < Len(toks)
    BY <1>3, <1>4
  <2>2. 0 \in Layers /\ 0 \in KVHeads
    BY ConfigTypes DEF Layers, KVHeads
  <2>3. CachePosition(0, q - 1) \in Nat
    BY <1>3, <2>1, PositionDigits
  <2>4. CachePosition(0, q - 1) + 0 = CachePosition(0, q - 1)
    BY <2>3
  <2>5. At(keys, CachePosition(0, q - 1)) = Row(0, q - 1, 0, toks)
    BY <1>5, <2>1, <2>2, <2>4
  <2>6. TokenOf(Row(0, q - 1, 0, toks)) = toks[(q - 1) + 1]
    BY <1>4, <2>1, <2>2, RowNamesToken
  <2>7. (q - 1) + 1 = q
    BY <1>3
  <2> HIDE DEF toks
  <2> QED
    BY <2>5, <2>6, <2>7
<1>8. Context' = toks
  <2>1. Context' = [q \in 1 .. p + 1 |-> TokenOf(At(keys, CachePosition(0, q - 1)))]
    BY <1>1, <1>6 DEF Context, At
  <2>2. Context' = [q \in 1 .. p + 1 |-> toks[q]]
    <3> HIDE DEF toks
    <3> QED
      BY <1>7, <2>1
  <2>3. toks = [q \in 1 .. p + 1 |-> toks[q]]
    <3> HIDE DEF toks
    <3> QED
      BY <1>3, <1>4
  <2> QED
    BY <2>2, <2>3
<1>9. TypeOK'
  <2>1. << >> \in Seq(Tokens) /\ token' \in Nat /\ layer' \in 0 .. BlockCount
    BY <1>1, ConfigTypes
  <2>2. token_count' \in 0 .. capacity
    BY <1>1, <1>3
  <2>3. CacheType' = CacheType
    BY <1>1 DEF CacheType, CellCount
  <2>4. capacity' \in 0 .. ContextLength /\ keys' \in CacheType' /\ values' \in CacheType'
    BY <1>1, <1>3, <2>3 DEF IInv, TypeOK
  <2>5. hidden' \in Seq(Tokens) /\ logits' \in Seq(Tokens)
    BY <1>1, <1>3, <1>4, <2>1
  <2> QED
    BY <1>1, <1>3, <2>1, <2>2, <2>4, <2>5 DEF TypeOK
<1>10. CacheMatchesContext'
  <2>1. \A l \in Layers, q \in 0 .. (p + 1) - 1, g \in KVHeads :
          /\ At(keys, CachePosition(l, q) + g) = Row(l, q, g, toks)
          /\ At(values, CachePosition(l, q) + g) = Row(l, q, g, toks)
    BY <1>3, <1>5
  <2> HIDE DEF toks
  <2> QED
    BY <1>1, <1>6, <1>8, <2>1 DEF CacheMatchesContext, At, Row
<1>11. PassFollowsContext'
  BY <1>1 DEF PassFollowsContext
<1> QED
  BY <1>1, <1>2, <1>3, <1>8, <1>9, <1>10, <1>11 DEF IInv

\* Only a closed state has no arrays.
LEMMA NullIsClosed ==
  ASSUME TypeOK, IsNull(keys)
  PROVE  capacity = 0 /\ token_count = 0 /\ Context = << >>
<1>1. ASSUME capacity # 0 PROVE FALSE
  <2>1. DOMAIN keys = 0 .. CellCount(capacity) - 1
    BY <1>1 DEF TypeOK, CacheType
  <2>2. 0 \in Layers /\ 0 \in KVHeads /\ 0 \in 0 .. capacity - 1 /\ capacity \in Nat
    BY <1>1, ConfigTypes DEF Layers, KVHeads, TypeOK
  <2>3. CachePosition(0, 0) + 0 \in DOMAIN keys
    BY <2>1, <2>2, CellsInRange
  <2> QED
    BY <2>3 DEF IsNull
<1>2. token_count = 0
  BY <1>1 DEF TypeOK
<1>3. 1 .. token_count = {}
  BY <1>2
<1> QED
  BY <1>1, <1>2, <1>3 DEF Context

\* Every step keeps the invariant and is a step of the abstract decoder.
LEMMA StepKeeps ==
  ASSUME IInv, [Next]_vars
  PROVE  IInv' /\ [D!Next]_(D!dvars)
<1>1. TypeOK /\ << >> \in Seq(Tokens) /\ 0 \in 0 .. BlockCount
      /\ 0 \in 0 .. ContextLength /\ 0 \in 0 .. 0
  BY ConfigTypes DEF IInv
<1>2. ASSUME NEW c \in 0 .. ContextLength + 1, StateInit(c)
      PROVE  IInv' /\ D!Open(c)
  <2>1. /\ c \in 1 .. ContextLength /\ c \in 0 .. ContextLength /\ c # 0
        /\ 0 \in 0 .. c
    BY <1>2, ConfigTypes DEF StateInit
  <2>2. Calloc(c) \in [0 .. CellCount(c) - 1 -> {Zero}]
    BY <1>2, <2>1, CallocExact DEF StateInit
  <2>3. keys' \in CacheType' /\ values' \in CacheType'
    BY <1>2, <2>2 DEF StateInit, CacheType, CellCount
  <2>4. TypeOK'
    BY <1>1, <1>2, <2>1, <2>3 DEF TypeOK, StateInit, flight
  <2>5. IInv'
    BY <1>2, <2>4, EmptyContext DEF StateInit, flight
  <2>6. capacity = 0
    BY <1>1, <1>2, NullIsClosed DEF StateInit
  <2> QED
    BY <1>2, <2>1, <2>5, <2>6, NoContext DEF D!Open, StateInit
<1>3. ASSUME NEW c \in 0 .. ContextLength + 1, StateInitFails(c)
      PROVE  IInv' /\ [D!Next]_(D!dvars)
  <2>1. CASE UNCHANGED state
    <3>1. IInv' /\ Context' = Context
      BY <1>3, <2>1 DEF IInv, TypeOK, CacheType, CellCount, CacheMatchesContext,
         PassFollowsContext, Context, CachePosition, At, StateInitFails, state, flight
    <3> QED
      BY <1>3, <2>1, <3>1 DEF D!Next, D!Refuse, StateInitFails, state
  <2>2. CASE keys' = Null /\ values' = Null /\ capacity' = 0 /\ token_count' = 0
    <3>1. TypeOK'
      BY <1>1, <1>3, <2>2 DEF TypeOK, StateInitFails, flight
    <3>2. IInv'
      BY <1>3, <2>2, <3>1, EmptyContext DEF StateInitFails, flight
    <3>3. capacity = 0 /\ Context = << >>
      BY <1>1, <1>3, NullIsClosed DEF StateInitFails
    <3> QED
      BY <1>3, <2>2, <3>2, <3>3, NoContext DEF D!Next, D!Refuse, StateInitFails
  <2> QED
    BY <1>3, <2>1, <2>2 DEF StateInitFails
<1>4. ASSUME StateReset
      PROVE  IInv' /\ D!Clear
  <2>1. /\ keys' = [i \in DOMAIN keys |-> Zero] /\ values' = [i \in DOMAIN values |-> Zero]
        /\ capacity' = capacity /\ token_count' = 0 /\ pc' = "idle" /\ token' = token
        /\ layer' = layer /\ hidden' = hidden /\ logits' = logits /\ ok' = ok
    BY <1>4 DEF StateReset, flight
  <2>2. CacheType' = CacheType /\ IsNull(Null)
    BY <2>1 DEF CacheType, CellCount, IsNull, Null
  <2>3. CASE capacity = 0
    <3>1. keys' = Null /\ values' = Null
      BY <1>1, <2>1, <2>3 DEF TypeOK, Null
    <3>2. TypeOK'
      BY <1>1, <2>1, <2>3, <3>1 DEF TypeOK
    <3> QED
      BY <2>1, <3>2, EmptyContext, NoContext DEF D!Clear
  <2>4. CASE capacity # 0
    <3>1. keys' \in CacheType /\ values' \in CacheType
      BY <1>1, <2>1, <2>4 DEF TypeOK, CacheType
    <3>2. token_count' \in 0 .. capacity'
      BY <1>1, <2>1, ConfigTypes DEF TypeOK
    <3>3. TypeOK'
      BY <1>1, <2>1, <2>2, <2>4, <3>1, <3>2 DEF TypeOK
    <3> QED
      BY <2>1, <3>3, EmptyContext, NoContext DEF D!Clear
  <2> QED
    BY <2>3, <2>4
<1>5. ASSUME StateFree
      PROVE  IInv' /\ D!Close
  <2>1. TypeOK'
    BY <1>1, <1>5 DEF TypeOK, StateFree, flight
  <2> QED
    BY <1>5, <2>1, EmptyContext, NoContext DEF StateFree, flight, D!Close
<1>6. ASSUME NEW t \in TokenIds, ForwardBegins(t)
      PROVE  IInv' /\ UNCHANGED D!dvars
  <2>1. /\ t \in Tokens /\ t \in Nat
        /\ keys' = keys /\ values' = values /\ capacity' = capacity
        /\ token_count' = token_count /\ logits' = logits /\ ok' = ok
        /\ pc' = "layers" /\ token' = t /\ layer' = 0 /\ hidden' = <<t>>
        /\ token_count < capacity
    BY <1>6, ConfigAssumption DEF ForwardBegins, Accepts, state, Tokens
  <2>2. \A l, q : CachePosition(l, q)' = CachePosition(l, q)
    BY <2>1 DEF CachePosition
  <2>3. Context' = Context /\ CacheType' = CacheType
    BY <2>1, <2>2 DEF Context, At, CacheType, CellCount
  <2>4. TypeOK'
    BY <1>1, <2>1, <2>3 DEF TypeOK
  <2>5. CacheMatchesContext'
    BY <2>1, <2>2, <2>3 DEF IInv, CacheMatchesContext, At, Row
  <2>6. PassFollowsContext'
    <3>1. 0 .. layer' - 1 = {}
      BY <2>1
    <3> QED
      BY <2>1, <3>1 DEF PassFollowsContext
  <2> QED
    BY <2>1, <2>3, <2>4, <2>5, <2>6 DEF IInv, D!dvars
<1>7. ASSUME UNCHANGED <<state, flight, logits>>, ok' \in BOOLEAN
      PROVE  IInv' /\ Context' = Context
  <2>1. /\ keys' = keys /\ values' = values /\ capacity' = capacity
        /\ token_count' = token_count /\ logits' = logits
        /\ pc' = pc /\ token' = token /\ layer' = layer /\ hidden' = hidden
    BY <1>7 DEF state, flight
  <2>2. \A l, q : CachePosition(l, q)' = CachePosition(l, q)
    BY <2>1 DEF CachePosition
  <2>3. Context' = Context /\ CacheType' = CacheType
    BY <2>1, <2>2 DEF Context, At, CacheType, CellCount
  <2>4. TypeOK'
    BY <1>1, <1>7, <2>1, <2>3 DEF TypeOK
  <2>5. CacheMatchesContext'
    BY <2>1, <2>2, <2>3 DEF IInv, CacheMatchesContext, At, Row
  <2>6. PassFollowsContext'
    BY <2>1, <2>2, <2>3 DEF IInv, PassFollowsContext, At, Row
  <2> QED
    BY <2>3, <2>4, <2>5, <2>6 DEF IInv
<1>8. ASSUME ForwardRefused
      PROVE  IInv' /\ D!Refuse
  BY <1>7, <1>8 DEF ForwardRefused, state, D!Refuse
<1>9. ASSUME RunLayer
      PROVE  IInv' /\ UNCHANGED D!dvars
  BY <1>9, RunLayerKeeps DEF RunLayer, D!dvars
<1>10. ASSUME ForwardReturns(FALSE), CacheMatchesContext', Context' = Context,
              keys' \in CacheType' \/ keys' = keys,
              values' \in CacheType' \/ values' = values,
              capacity # 0, UNCHANGED <<capacity, token_count, logits>>
       PROVE  IInv' /\ D!Refuse
  <2>1. CacheType' = CacheType
    BY <1>10 DEF CacheType, CellCount
  <2>2. keys' \in CacheType' /\ values' \in CacheType'
    BY <1>1, <1>10, <2>1 DEF TypeOK
  <2>3. token' \in Nat /\ layer' \in 0 .. BlockCount /\ hidden' \in Seq(Tokens)
    BY <1>1, <1>10 DEF ForwardReturns
  <2>4. TypeOK'
    BY <1>1, <1>10, <2>2, <2>3 DEF TypeOK, ForwardReturns
  <2>5. PassFollowsContext'
    BY <1>10 DEF PassFollowsContext, ForwardReturns
  <2> QED
    BY <1>10, <2>4, <2>5 DEF IInv, D!Refuse, ForwardReturns
<1>11. ASSUME pc = "layers"
       PROVE  capacity # 0
  BY <1>1, <1>11, ConfigTypes DEF IInv, PassFollowsContext, TypeOK
<1>12. ASSUME ForwardReturns(FALSE), pc = "layers", UNCHANGED <<state, logits>>
       PROVE  IInv' /\ D!Refuse
  <2>1. /\ keys' = keys /\ values' = values /\ capacity' = capacity
        /\ token_count' = token_count
    BY <1>12 DEF state
  <2>2. \A l, q : CachePosition(l, q)' = CachePosition(l, q)
    BY <2>1 DEF CachePosition
  <2>3. Context' = Context
    BY <2>1, <2>2 DEF Context, At
  <2>4. CacheMatchesContext'
    BY <2>1, <2>2, <2>3 DEF IInv, CacheMatchesContext, At, Row
  <2> QED
    BY <1>10, <1>11, <1>12, <2>1, <2>3, <2>4
<1>13. ASSUME LayerFails
       PROVE  IInv' /\ D!Refuse
  <2>1. pc = "layers" /\ ForwardReturns(FALSE) /\ logits' = logits
    BY <1>13 DEF LayerFails
  <2>2. CASE UNCHANGED state
    BY <1>12, <2>1, <2>2
  <2>3. CASE /\ keys' = Stored(keys, layer, token_count)
             /\ values' = Stored(values, layer, token_count)
             /\ UNCHANGED <<capacity, token_count>>
    <3>1. layer \in Layers
      BY <1>1, <1>13, ConfigTypes DEF LayerFails, TypeOK, Layers
    <3> QED
      BY <1>10, <2>1, <2>3, <3>1, StoreKeeps
  <2> QED
    BY <1>13, <2>2, <2>3 DEF LayerFails
<1>14. ASSUME OutputFails
       PROVE  IInv' /\ D!Refuse
  BY <1>12, <1>14 DEF OutputFails
<1>15. ASSUME ForwardSucceeds
       PROVE  IInv' /\ D!Accept(token) /\ token \in Tokens
  BY <1>15, SuccessExtends DEF D!Accept, ForwardSucceeds, ForwardReturns
<1>16. ASSUME UNCHANGED vars
       PROVE  IInv' /\ UNCHANGED D!dvars
  <2>1. UNCHANGED <<state, flight, logits>> /\ ok' = ok
    BY <1>16 DEF vars
  <2>2. ok' \in BOOLEAN
    BY <1>1, <2>1 DEF TypeOK
  <2>3. IInv' /\ Context' = Context
    BY <1>7, <2>1, <2>2
  <2>4. capacity' = capacity /\ logits' = logits
    BY <2>1 DEF state
  <2> QED
    BY <2>1, <2>3, <2>4 DEF D!dvars
<1>17. \A c \in 0 .. ContextLength + 1 : D!Open(c) => D!Next
  BY DEF D!Open, D!Next
<1> QED
  BY <1>2, <1>3, <1>4, <1>5, <1>6, <1>8, <1>9, <1>13, <1>14, <1>15, <1>16, <1>17
     DEF Next, D!Next
-----------------------------------------------------------------------------
\* The invariant holds in every reachable state of every configuration.
THEOREM Invariance == Spec => []IInv
<1>1. IInv /\ [Next]_vars => IInv'
  BY StepKeeps
<1> QED
  BY InitEstablishes, <1>1, PTL DEF Spec

\* The arrays, the counters and the pass are always of their types, the
\* arrays present exactly when a capacity is (model.c:243-297).
THEOREM TypeCorrect == Spec => []TypeOK
<1>1. IInv => TypeOK
  BY DEF IInv
<1> QED
  BY Invariance, <1>1, PTL

\* Whatever was initialised, reset, refused or failed before, each counted
\* row of every layer and kv head is the row of the present context.
THEOREM CacheCorrect == Spec => []CacheMatchesContext
<1>1. IInv => CacheMatchesContext
  BY DEF IInv
<1> QED
  BY Invariance, <1>1, PTL

\* Each pass computes from the context and its token alone, layer by layer.
THEOREM PassCorrect == Spec => []PassFollowsContext
<1>1. IInv => PassFollowsContext
  BY DEF IInv
<1> QED
  BY Invariance, <1>1, PTL

\* A pass never addresses a cell outside the arrays or a score outside its
\* buffer.
THEOREM InBounds == Spec => []InFlightInBounds
<1>1. IInv => InFlightInBounds
  <2> SUFFICES ASSUME IInv, pc = "layers"
               PROVE  /\ token_count < ContextLength
                      /\ \A l \in Layers, q \in 0 .. token_count, g \in KVHeads :
                           /\ CachePosition(l, q) + g \in DOMAIN keys
                           /\ CachePosition(l, q) + g \in DOMAIN values
    BY DEF InFlightInBounds
  <2>1. /\ capacity \in Nat /\ capacity <= ContextLength /\ capacity # 0
        /\ token_count \in Nat /\ token_count < capacity
    BY ConfigTypes DEF IInv, TypeOK, PassFollowsContext
  <2>2. /\ DOMAIN keys = 0 .. CellCount(capacity) - 1
        /\ DOMAIN values = 0 .. CellCount(capacity) - 1
    BY <2>1 DEF IInv, TypeOK, CacheType
  <2>3. ASSUME NEW l \in Layers, NEW q \in 0 .. token_count, NEW g \in KVHeads
        PROVE  CachePosition(l, q) + g \in 0 .. CellCount(capacity) - 1
    <3>1. q \in 0 .. capacity - 1
      BY <2>1
    <3> QED
      BY <2>1, <3>1, CellsInRange
  <2> QED
    BY <2>1, <2>2, <2>3, ConfigTypes
<1> QED
  BY Invariance, <1>1, PTL

\* The cache and the forward pass implement the abstract decoder: a call that
\* returns true extends the context by its token and answers all of it, one
\* that returns false is invisible.
THEOREM Implementation == Spec => ImplementsDecoder
<1>1. Init => D!Init
  <2> SUFFICES ASSUME Init PROVE D!Init
    OBVIOUS
  <2>1. 1 .. token_count = {}
    BY DEF Init
  <2>2. Context = << >>
    BY <2>1 DEF Context
  <2> QED
    BY <2>2 DEF Init, D!Init
<1>2. IInv /\ [Next]_vars => [D!Next]_(D!dvars)
  BY StepKeeps
<1> QED
  BY <1>1, <1>2, Invariance, PTL DEF Spec, ImplementsDecoder, D!Spec

\* No step of a pass, successful or failing, rewrites a counted row.
THEOREM RowsKept == Spec => CountedRowsKept
<1> DEFINE Kept == \A l \in Layers, q \in 0 .. token_count - 1, g \in KVHeads :
                     LET i == CachePosition(l, q) + g
                     IN At(keys', i) = At(keys, i) /\ At(values', i) = At(values, i)
<1>1. ASSUME IInv, [Next]_vars, pc = "layers"
      PROVE  Kept
  <2>1. ASSUME keys' = Stored(keys, layer, token_count),
               values' = Stored(values, layer, token_count),
               UNCHANGED <<capacity, token_count>>, layer < BlockCount
        PROVE  Kept
    <3>1. layer \in Layers
      BY <1>1, <2>1, ConfigTypes DEF IInv, TypeOK, Layers
    <3>2. \A m \in Layers, q \in 0 .. token_count - 1, g \in KVHeads :
            /\ At(keys', CachePosition(m, q) + g) = Row(m, q, g, Context)
            /\ At(values', CachePosition(m, q) + g) = Row(m, q, g, Context)
      BY <1>1, <2>1, <3>1, StoreKeeps
    <3> QED
      BY <1>1, <3>2 DEF IInv, CacheMatchesContext
  <2>2. CASE RunLayer
    BY <2>1, <2>2 DEF RunLayer
  <2>3. CASE LayerFails
    BY <2>1, <2>3 DEF LayerFails, state
  <2>4. CASE keys' = keys /\ values' = values
    BY <2>4
  <2>5. CASE ForwardSucceeds \/ OutputFails \/ UNCHANGED vars
    BY <2>4, <2>5 DEF ForwardSucceeds, OutputFails, vars, state
  <2> QED
    BY <1>1, <2>2, <2>3, <2>5
       DEF Next, StateInit, StateInitFails, StateReset, StateFree, ForwardBegins,
           ForwardRefused
<1>2. IInv /\ [Next]_vars => [(pc = "layers") => Kept]_vars
  BY <1>1
<1> QED
  BY Invariance, <1>2, PTL DEF Spec, CountedRowsKept
=============================================================================
