--------------------------- MODULE GgufFileProofs ---------------------------
(***************************************************************************)
(* Proofs about GgufFile for every file size, layout of the metadata and   *)
(* depth of its arrays, and every value of SIZE_MAX.                       *)
(***************************************************************************)
EXTENDS GgufFile, SequenceLemmas

Loads == {"header", "key", "type", "value", "unwind", "tensors", "name", "shape", "align",
          "ranges", "loaded"}

\* What the file says lies in it, and in range of a size_t.
Entries     == [key : {"general.alignment", "other"}, type : {"none", "u32", "string", "array"},
                u32 : Nat]
Descriptors == [storage : StorageSizes, offset : Offsets]

LayoutInv ==
  /\ pc \in {"map", "failed", "freed"} \cup Loads
  /\ file_size \in 0 .. SizeMax /\ cursor \in 0 .. file_size
  /\ pc \in {"map", "header"} => cursor = 0
  /\ kv_count \in Nat /\ tensor_count \in Nat
  /\ kv \in Seq(Entries) /\ tensors \in Seq(Descriptors)
  /\ pc \notin {"name", "shape", "ranges", "loaded"} => tensors = << >>
  /\ pc = "align" => tensor_count = 0
  /\ pc = "name" => Len(tensors) <= tensor_count
  /\ pc = "shape" => Len(tensors) < tensor_count
  /\ pc \in {"ranges", "loaded"} =>
       /\ Len(tensors) = tensor_count
       /\ alignment \in Nat \ {0} /\ tensor_data_offset \in cursor .. file_size
       /\ tensor_count > 0 => tensor_data_offset % alignment = 0
  /\ pc = "loaded" => \A n \in 1 .. tensor_count :
                        tensors[n].offset % alignment = 0 /\ InRange(tensors[n])
-----------------------------------------------------------------------------
\* A block is named by a kind and the numbers that lead to it.
Atoms  == {"kv", "tensors", "key", "value", "name"} \cup Nat
Blocks == {b \in Seq(Atoms) : b # << >> /\ \A n \in 2 .. Len(b) : b[n] \in Nat}
Calls  == [path : Blocks, elem : {"u32", "string", "array"}, len : Nat, next : Nat]

\* b is the block at p, or one that is reached through it.
Under(b, p) == Len(b) >= Len(p) /\ \A n \in 1 .. Len(p) : b[n] = p[n]

\* The path of the k-th call in entry e: the item each of the calls before it is at.
PathAt(calls, e, k) == [n \in 1 .. k + 1 |-> IF n = 1 THEN "value"
                                             ELSE IF n = 2 THEN e ELSE calls[n - 2].next]

\* A call on an array has its items allocated, and none behind the one it is at.
Shape(calls, blocks, e) ==
  /\ calls \in Seq(Calls)
  /\ \A k \in 1 .. Len(calls) : calls[k].path = PathAt(calls, e, k) /\ calls[k].path \in blocks
  /\ \A k \in 1 .. Len(calls) : \A b \in blocks :
       Len(b) > k + 1 /\ Under(b, PathAt(calls, e, k)) => b[k + 2] <= calls[k].next

\* Nothing is at the value that is next.
Vacant(calls, blocks, e) == \A b \in blocks : ~ Under(b, PathAt(calls, e, Len(calls) + 1))

StackInv ==
  IF pc \in {"value", "unwind"}
  THEN /\ kv # << >>
       /\ Shape(stack, linked, Len(kv) - 1) /\ Vacant(stack, linked, Len(kv) - 1)
  ELSE stack = << >>

\* What gguf_free reaches is all that is linked, and what is not linked is the local key.
HeapInv ==
  /\ linked = Reachable /\ heap = linked \cup key
  /\ linked \subseteq Blocks
  /\ \A b \in linked : b[1] = "value" => Len(b) >= 2 /\ b[2] < Len(kv)
  /\ pc = "type" => key = {<<"key", Len(kv)>>}
  /\ pc # "type" => key = {}
  /\ pc \in {"map", "header", "failed", "freed"} => linked = {}
  /\ pc \in {"key", "type", "value", "unwind"} => <<"kv">> \in linked
  /\ pc \in {"name", "shape"} /\ tensor_count > 0 => <<"tensors">> \in linked

LoadInv == LayoutInv /\ StackInv /\ HeapInv
-----------------------------------------------------------------------------
\* What the system has handed out at each step of the mapping.
MapInv ==
  /\ platform \in {"posix", "windows"}
  /\ map_pc \in {"start", "impl", "open", "stat", "mapping", "map", "fill", "mapped", "failed",
                 "unmapped"}
  /\ disk \in Nat /\ stat \in Nat /\ view \in Nat
  /\ map_pc # "start" => out = IF map_pc = "mapped" THEN [points |-> {"view", "impl"}, size |-> view]
                               ELSE M!Zeroed
  /\ map_pc \in {"start", "failed", "unmapped"} => held = {} /\ view = 0
  /\ map_pc = "mapping" => platform = "windows"
  /\ platform = "posix" =>
       /\ map_pc = "open" => held = {} /\ view = 0
       /\ map_pc \in {"stat", "map"} => held = {"fd"} /\ view = 0
       /\ map_pc = "impl" => held = {"fd", "view"} /\ view = M!AsSize(stat)
       /\ map_pc \in {"fill", "mapped"} => held = {"fd", "view", "impl"} /\ view = M!AsSize(stat)
  /\ platform = "windows" =>
       /\ map_pc = "impl" => held = {} /\ view = 0
       /\ map_pc = "open" => held = {"impl"} /\ view = 0
       /\ map_pc \in {"stat", "mapping"} => held = {"impl", "handle"} /\ view = 0
       /\ map_pc = "map" => held = {"impl", "handle", "mapping"} /\ view = 0
       /\ map_pc \in {"mapping", "map"} => stat = disk
       /\ map_pc \in {"fill", "mapped"} =>
            held = {"impl", "handle", "mapping", "view"} /\ view = M!AsSize(stat)

Inv ==
  /\ LoadInv /\ MapInv
  /\ pc # "map" => map_pc \in {"mapped", "failed", "unmapped"}
  /\ pc = "failed" => map_pc \in {"failed", "unmapped"}
  /\ pc = "freed" => map_pc = "unmapped"
  /\ pc \in Loads => map_pc = "mapped" /\ file_size = view
-----------------------------------------------------------------------------
\* A path is a block's name, one number longer for each call.
LEMMA PathType ==
  ASSUME NEW calls \in Seq(Calls), NEW e \in Nat, NEW k \in 1 .. Len(calls) + 1
  PROVE  /\ PathAt(calls, e, k) \in Blocks /\ Len(PathAt(calls, e, k)) = k + 1
         /\ PathAt(calls, e, k)[1] = "value" /\ PathAt(calls, e, k)[2] = e
         /\ \A n \in 3 .. k + 1 : PathAt(calls, e, k)[n] = calls[n - 2].next
<1> DEFINE p == PathAt(calls, e, k)
<1>1. \A n \in 3 .. k + 1 : n - 2 \in 1 .. Len(calls) /\ calls[n - 2].next \in Nat
  <2> SUFFICES ASSUME NEW n \in 3 .. k + 1
               PROVE  n - 2 \in 1 .. Len(calls) /\ calls[n - 2].next \in Nat
    OBVIOUS
  <2>1. n - 2 \in 1 .. Len(calls)
    OBVIOUS
  <2>2. calls[n - 2] \in Calls
    BY <2>1
  <2> QED
    BY <2>1, <2>2 DEF Calls
<1>2. \A n \in 1 .. k + 1 : /\ n = 1 => p[n] = "value"
                            /\ n = 2 => p[n] = e
                            /\ n >= 3 => p[n] = calls[n - 2].next
  BY DEF PathAt
<1>3. p \in Seq(Atoms) /\ Len(p) = k + 1
  <2>1. ASSUME NEW n \in 1 .. k + 1 PROVE p[n] \in Atoms
    <3> HIDE DEF p
    <3>1. n = 1 \/ n = 2 \/ n \in 3 .. k + 1
      OBVIOUS
    <3>2. p[n] = "value" \/ p[n] \in Nat
      BY <1>1, <1>2, <3>1
    <3> QED
      BY <3>2 DEF Atoms
  <2>2. p \in [1 .. k + 1 -> Atoms]
    BY <2>1 DEF PathAt
  <2> HIDE DEF p
  <2> QED
    BY <2>2
<1> HIDE DEF p
<1>4. ASSUME NEW n \in 2 .. Len(p) PROVE p[n] \in Nat
  <2>1. n = 2 \/ n \in 3 .. k + 1
    BY <1>3
  <2> QED
    BY <1>1, <1>2, <2>1
<1>5. p \in Blocks
  BY <1>3, <1>4 DEF Blocks
<1> QED
  BY <1>2, <1>3, <1>5 DEF p

\* An inner path is under every outer one.
LEMMA PathsNest ==
  ASSUME NEW calls \in Seq(Calls), NEW e \in Nat, NEW k \in 1 .. Len(calls) + 1,
         NEW j \in 1 .. k
  PROVE  Under(PathAt(calls, e, k), PathAt(calls, e, j))
<1>1. Len(calls) \in Nat /\ j \in 1 .. Len(calls) + 1
  OBVIOUS
<1>2. Len(PathAt(calls, e, k)) = k + 1 /\ Len(PathAt(calls, e, j)) = j + 1
  BY <1>1, PathType
<1>3. \A n \in 1 .. j + 1 : PathAt(calls, e, k)[n] = PathAt(calls, e, j)[n]
  BY <1>1 DEF PathAt
<1> QED
  BY <1>2, <1>3 DEF Under

\* Lists of calls that agree on the outer calls agree on the path.
LEMMA PathAgrees ==
  ASSUME NEW calls, NEW others, NEW e, NEW k \in Nat,
         \A j \in 1 .. k - 1 : calls[j].next = others[j].next
  PROVE  PathAt(calls, e, k) = PathAt(others, e, k)
<1>1. \A n \in 1 .. k + 1 : n # 1 /\ n # 2 => calls[n - 2].next = others[n - 2].next
  OBVIOUS
<1> QED
  BY <1>1 DEF PathAt

\* What is under the next path is under the call's own, at the item it is at.
LEMMA UnderNext ==
  ASSUME NEW calls \in Seq(Calls), NEW e \in Nat, NEW k \in 1 .. Len(calls), NEW b \in Blocks
  PROVE  Under(b, PathAt(calls, e, k + 1))
           <=> Len(b) > k + 1 /\ Under(b, PathAt(calls, e, k)) /\ b[k + 2] = calls[k].next
<1>1. Len(calls) \in Nat /\ k + 1 \in 1 .. Len(calls) + 1 /\ k \in 1 .. Len(calls) + 1
      /\ Len(b) \in Nat
  BY DEF Blocks
<1>2. Len(PathAt(calls, e, k)) = k + 1 /\ Len(PathAt(calls, e, k + 1)) = k + 2
  BY <1>1, PathType
<1>3. \A n \in 1 .. k + 1 : PathAt(calls, e, k + 1)[n] = PathAt(calls, e, k)[n]
  BY DEF PathAt
<1>4. PathAt(calls, e, k + 1)[k + 2] = calls[k].next
  BY DEF PathAt
<1> QED
  BY <1>1, <1>2, <1>3, <1>4 DEF Under

\* The front of a list of calls, and the last of them.
LEMMA FrontCalls ==
  ASSUME NEW calls \in Seq(Calls), calls # << >>
  PROVE  /\ Len(calls) \in Nat \ {0} /\ Front(calls) \in Seq(Calls)
         /\ Len(Front(calls)) = Len(calls) - 1
         /\ \A k \in 1 .. Len(calls) - 1 : Front(calls)[k] = calls[k]
         /\ Last(calls) = calls[Len(calls)] /\ Last(calls) \in Calls
         /\ \A e : \A k \in 1 .. Len(calls) : PathAt(Front(calls), e, k) = PathAt(calls, e, k)
<1>1. /\ Front(calls) \in Seq(Calls) /\ Last(calls) \in Calls /\ Len(Front(calls)) + 1 = Len(calls)
      /\ calls = Append(Front(calls), Last(calls))
  BY FrontAndLast
<1>2. \A k \in 1 .. Len(calls) - 1 : Front(calls)[k] = calls[k]
  <2> DEFINE f == Front(calls)
             l == Last(calls)
  <2>1. f \in Seq(Calls) /\ l \in Calls /\ calls = Append(f, l) /\ Len(f) + 1 = Len(calls)
    BY <1>1
  <2> HIDE DEF f, l
  <2>2. \A k \in 1 .. Len(f) : f[k] = calls[k]
    BY <2>1
  <2> QED
    BY <2>1, <2>2 DEF f
<1>3. Len(calls) \in Nat \ {0}
  OBVIOUS
<1>4. ASSUME NEW e, NEW k \in 1 .. Len(calls)
      PROVE  PathAt(Front(calls), e, k) = PathAt(calls, e, k)
  BY <1>2, <1>3, PathAgrees
<1> QED
  BY <1>1, <1>2, <1>3, <1>4 DEF Last

\* A call that is over leaves the calls outside it as they are.
LEMMA ShapePops ==
  ASSUME NEW calls, NEW blocks \in SUBSET Blocks, NEW e \in Nat, calls # << >>,
         Shape(calls, blocks, e)
  PROVE  Shape(Front(calls), blocks, e)
<1>1. calls \in Seq(Calls)
  BY DEF Shape
<1>2. /\ Front(calls) \in Seq(Calls) /\ Len(Front(calls)) = Len(calls) - 1 /\ Len(calls) \in Nat
      /\ \A k \in 1 .. Len(calls) - 1 : Front(calls)[k] = calls[k]
      /\ \A k \in 1 .. Len(calls) : PathAt(Front(calls), e, k) = PathAt(calls, e, k)
  BY <1>1, FrontCalls
<1> QED
  BY <1>2 DEF Shape

\* The item after the one that is complete has nothing yet.
LEMMA ShapeAdvances ==
  ASSUME NEW calls, NEW blocks \in SUBSET Blocks, NEW e \in Nat, calls # << >>,
         Shape(calls, blocks, e)
  PROVE  LET after == [calls EXCEPT ![Len(calls)].next = @ + 1]
         IN  Shape(after, blocks, e) /\ Vacant(after, blocks, e)
<1> DEFINE m == Len(calls)
           c == [calls[m] EXCEPT !.next = @ + 1]
           after == [calls EXCEPT ![m].next = @ + 1]
<1>1. calls \in Seq(Calls) /\ m \in Nat \ {0} /\ m \in 1 .. m
  BY DEF Shape
<1>2. calls[m] \in Calls /\ c \in Calls /\ c.next = calls[m].next + 1 /\ c.path = calls[m].path
  <2> DEFINE d == calls[m]
  <2>1. d \in Calls
    BY <1>1
  <2> HIDE DEF d
  <2>2. d.next \in Nat
    BY <2>1 DEF Calls
  <2>3. [d EXCEPT !.next = @ + 1] \in Calls
    BY <2>1, <2>2 DEF Calls
  <2>4. c = [d EXCEPT !.next = @ + 1]
    BY DEF d
  <2>5. c.next = d.next + 1 /\ c.path = d.path
    BY <2>1, <2>4 DEF Calls
  <2> QED
    BY <2>1, <2>3, <2>4, <2>5 DEF d
<1>3. /\ after \in Seq(Calls) /\ Len(after) = m /\ after[m] = c
      /\ \A k \in 1 .. m : k # m => after[k] = calls[k]
  <2>1. calls \in [1 .. m -> Calls]
    BY <1>1, LenProperties
  <2>2. after = [calls EXCEPT ![m] = c]
    OBVIOUS
  <2> HIDE DEF after, c, m
  <2>3. after \in [1 .. m -> Calls]
    BY <1>1, <1>2, <2>1, <2>2
  <2>4. after[m] = c /\ \A k \in 1 .. m : k # m => after[k] = calls[k]
    BY <1>1, <2>1, <2>2
  <2> QED
    BY <1>1, <2>3, <2>4
<1> HIDE DEF after, c, m
<1>4. \A k \in 1 .. m : PathAt(after, e, k) = PathAt(calls, e, k)
  <2> SUFFICES ASSUME NEW k \in 1 .. m PROVE PathAt(after, e, k) = PathAt(calls, e, k)
    OBVIOUS
  <2>1. \A j \in 1 .. k - 1 : after[j].next = calls[j].next
    BY <1>1, <1>3
  <2> QED
    BY <1>1, <2>1, PathAgrees
<1>5. \A k \in 1 .. m : after[k].path = calls[k].path /\ calls[k].next \in Nat
                        /\ after[k].next \in {calls[k].next, calls[k].next + 1}
  <2>1. \A k \in 1 .. m : calls[k] \in Calls
    BY <1>1 DEF m
  <2> QED
    BY <1>1, <1>2, <1>3, <2>1 DEF Calls
<1>6. Shape(after, blocks, e)
  <2>1. \A k \in 1 .. m : after[k].path = PathAt(after, e, k) /\ after[k].path \in blocks
    BY <1>4, <1>5 DEF Shape, m
  <2>2. ASSUME NEW k \in 1 .. m, NEW b \in blocks, Len(b) > k + 1, Under(b, PathAt(after, e, k))
        PROVE  b[k + 2] <= after[k].next
    <3>1. b[k + 2] <= calls[k].next
      BY <1>4, <2>2 DEF Shape, m
    <3>2. b[k + 2] \in Nat
      BY <1>1, <2>2 DEF Blocks
    <3> QED
      BY <1>5, <3>1, <3>2
  <2> QED
    BY <1>1, <1>3, <2>1, <2>2 DEF Shape
<1>7. Vacant(after, blocks, e)
  <2> SUFFICES ASSUME NEW b \in blocks, Under(b, PathAt(after, e, m + 1)) PROVE FALSE
    BY <1>3 DEF Vacant
  <2>1. Len(b) > m + 1 /\ Under(b, PathAt(after, e, m)) /\ b[m + 2] = after[m].next
    BY <1>1, <1>3, UnderNext
  <2>2. b[m + 2] <= calls[m].next
    BY <1>1, <1>4, <2>1 DEF Shape, m
  <2> QED
    BY <1>1, <1>2, <1>3, <1>5, <2>1, <2>2
<1> QED
  BY <1>6, <1>7 DEF after, m

\* The block of the value that is next may be allocated at any time.
LEMMA ShapeAllocates ==
  ASSUME NEW calls, NEW blocks \in SUBSET Blocks, NEW e \in Nat, Shape(calls, blocks, e)
  PROVE  Shape(calls, blocks \cup {PathAt(calls, e, Len(calls) + 1)}, e)
<1> DEFINE m == Len(calls)
           p == PathAt(calls, e, m + 1)
<1>1. calls \in Seq(Calls) /\ m \in Nat /\ m + 1 \in 1 .. m + 1
  BY DEF Shape
<1>2. Len(p) = m + 2 /\ \A n \in 3 .. m + 2 : p[n] = calls[n - 2].next
  BY <1>1, PathType
<1> HIDE DEF p
<1>3. \A k \in 1 .. m : p[k + 2] <= calls[k].next
  <2> SUFFICES ASSUME NEW k \in 1 .. m PROVE p[k + 2] <= calls[k].next
    OBVIOUS
  <2>1. p[k + 2] = calls[k].next
    <3>1. k + 2 \in 3 .. m + 2 /\ (k + 2) - 2 = k
      BY <1>1
    <3> QED
      BY <1>2, <3>1
  <2>2. calls[k] \in Calls
    BY <1>1
  <2>3. calls[k].next \in Nat
    BY <2>2 DEF Calls
  <2> QED
    BY <2>1, <2>3
<1> QED
  BY <1>3 DEF Shape, p

\* A new call is at its first item, and nothing is there.
LEMMA ShapePushes ==
  ASSUME NEW calls, NEW blocks \in SUBSET Blocks, NEW e \in Nat, NEW c \in Calls,
         Shape(calls, blocks, e), Vacant(calls, blocks, e),
         c.path = PathAt(calls, e, Len(calls) + 1), c.next = 0
  PROVE  LET both == blocks \cup {c.path}
         IN  Shape(Append(calls, c), both, e) /\ Vacant(Append(calls, c), both, e)
<1> DEFINE m == Len(calls)
           p == PathAt(calls, e, m + 1)
           both == blocks \cup {p}
           more == Append(calls, c)
<1>1. calls \in Seq(Calls) /\ m \in Nat /\ m + 1 \in 1 .. m + 1
  BY DEF Shape
<1>2. Len(p) = m + 2 /\ p \in Blocks
  <2>1. Len(PathAt(calls, e, m + 1)) = (m + 1) + 1 /\ PathAt(calls, e, m + 1) \in Blocks
    BY <1>1, PathType
  <2> QED
    BY <1>1, <2>1
<1>3. /\ more \in Seq(Calls) /\ Len(more) = m + 1 /\ more[m + 1] = c
      /\ \A k \in 1 .. m : more[k] = calls[k]
  BY <1>1
<1> HIDE DEF more, m
<1>4. \A k \in 1 .. m + 1 : PathAt(more, e, k) = PathAt(calls, e, k)
  <2> SUFFICES ASSUME NEW k \in 1 .. m + 1 PROVE PathAt(more, e, k) = PathAt(calls, e, k)
    OBVIOUS
  <2>1. \A j \in 1 .. k - 1 : more[j].next = calls[j].next
    BY <1>1, <1>3
  <2> QED
    BY <1>1, <2>1, PathAgrees
<1>5. Shape(calls, both, e)
  BY ShapeAllocates DEF m
<1>6. \A b \in both : ~ (Len(b) > m + 2 /\ Under(b, p))
  BY <1>1, <1>2 DEF Vacant, m
<1>7. Shape(more, both, e)
  <2>1. \A k \in 1 .. m + 1 : more[k].path = PathAt(more, e, k) /\ more[k].path \in both
    <3>1. \A k \in 1 .. m : more[k].path = PathAt(more, e, k) /\ more[k].path \in both
      BY <1>1, <1>3, <1>4, <1>5 DEF Shape, m
    <3>2. more[m + 1].path = PathAt(more, e, m + 1) /\ more[m + 1].path \in both
      BY <1>1, <1>3, <1>4 DEF m
    <3> QED
      BY <1>1, <3>1, <3>2
  <2>2. ASSUME NEW k \in 1 .. m + 1, NEW b \in both, Len(b) > k + 1,
               Under(b, PathAt(more, e, k))
        PROVE  b[k + 2] <= more[k].next
    <3> HIDE DEF both
    <3>1. Under(b, PathAt(calls, e, k))
      BY <1>4, <2>2
    <3>2. CASE k = m + 1
      <4>1. Len(b) > m + 2 /\ Under(b, p)
        BY <1>1, <2>2, <3>1, <3>2
      <4> QED
        BY <1>6, <4>1
    <3>3. CASE k # m + 1
      <4>1. k \in 1 .. m
        BY <1>1, <3>3
      <4>2. b[k + 2] <= calls[k].next
        BY <1>5, <2>2, <3>1, <4>1 DEF Shape, m
      <4> QED
        BY <1>3, <4>1, <4>2
    <3> QED
      BY <3>2, <3>3
  <2> QED
    BY <1>3, <2>1, <2>2 DEF Shape
<1>8. Vacant(more, both, e)
  <2> SUFFICES ASSUME NEW b \in both, Under(b, PathAt(more, e, m + 2)) PROVE FALSE
    BY <1>1, <1>3 DEF Vacant
  <2>1. b \in Blocks /\ m + 1 \in 1 .. Len(more) /\ (m + 1) + 1 = m + 2
    BY <1>1, <1>2, <1>3
  <2>2. Len(b) > m + 2 /\ Under(b, PathAt(more, e, m + 1))
    BY <1>1, <1>3, <2>1, UnderNext
  <2>3. PathAt(more, e, m + 1) = p
    BY <1>1, <1>4
  <2> QED
    BY <1>6, <2>2, <2>3
<1> QED
  BY <1>7, <1>8 DEF more, both, m

\* One block leads to another when its name begins it.
LEMMA Begins ==
  ASSUME NEW b \in Blocks, NEW p \in Blocks, Len(b) >= Len(p)
  PROVE  SubSeq(b, 1, Len(p)) = p <=> Under(b, p)
<1> DEFINE q == SubSeq(b, 1, Len(p))
<1>1. /\ p \in Seq(Atoms) /\ b \in Seq(Atoms) /\ Len(p) \in Nat \ {0} /\ Len(b) \in Nat
  BY DEF Blocks
<1>2. q \in Seq(Atoms) /\ Len(q) = Len(p) /\ \A n \in 1 .. Len(p) : q[n] = b[n]
  BY <1>1
<1> HIDE DEF q
<1>3. q = p <=> \A n \in 1 .. Len(p) : q[n] = p[n]
  BY <1>1, <1>2, SeqEqual
<1> QED
  BY <1>2, <1>3 DEF q, Under

\* A beginning of a name that is under a path is.
LEMMA BeginningUnder ==
  ASSUME NEW b \in Blocks, NEW n \in 1 .. Len(b), NEW p, Under(SubSeq(b, 1, n), p)
  PROVE  Under(b, p) /\ n >= Len(p)
<1>1. b \in Seq(Atoms) /\ Len(b) \in Nat
  BY DEF Blocks
<1>2. Len(SubSeq(b, 1, n)) = n /\ \A j \in 1 .. n : SubSeq(b, 1, n)[j] = b[j]
  BY <1>1
<1> QED
  BY <1>1, <1>2 DEF Under

\* What the unwinding of a call frees is its array's block and all that it leads to.
LEMMA FreedUnder ==
  ASSUME NEW calls, NEW blocks \in SUBSET Blocks, NEW e \in Nat, calls # << >>,
         Shape(calls, blocks, e), Vacant(calls, blocks, e), NEW b \in blocks
  PROVE  LET call == Last(calls)
             depth == Len(call.path)
         IN  /\ call.path = PathAt(calls, e, Len(calls)) /\ depth = Len(calls) + 1
             /\ \/ b = call.path
                \/ Len(b) > depth /\ SubSeq(b, 1, depth) = call.path /\ b[depth + 1] < call.next
                <=> Under(b, call.path)
<1> DEFINE m == Len(calls)
           p == PathAt(calls, e, m)
           next == calls[m].next
<1>1. calls \in Seq(Calls) /\ m \in Nat \ {0} /\ m \in 1 .. m /\ calls[m] \in Calls
  BY DEF Shape
<1>2. Last(calls) = calls[m] /\ calls[m].path = p /\ next \in Nat
  BY <1>1 DEF Last, Shape, Calls
<1>3. p \in Blocks /\ Len(p) = m + 1
  BY <1>1, PathType
<1>4. b \in Blocks /\ Len(b) \in Nat
  BY DEF Blocks
<1>5. Len(b) >= m + 1 => (SubSeq(b, 1, m + 1) = p <=> Under(b, p))
  BY <1>3, <1>4, Begins
<1>6. Under(b, p) => Len(b) >= m + 1
  BY <1>3 DEF Under
<1>7. Under(b, p) /\ Len(b) > m + 1 => b[m + 2] < next
  <2> SUFFICES ASSUME Under(b, p), Len(b) > m + 1 PROVE b[m + 2] < next
    OBVIOUS
  <2>1. b[m + 2] <= next
    BY <1>1 DEF Shape
  <2>2. b[m + 2] \in Nat
    BY <1>1, <1>4 DEF Blocks
  <2>3. b[m + 2] # next
    BY <1>1, <1>4, UnderNext DEF Vacant
  <2> QED
    BY <1>2, <2>1, <2>2, <2>3
<1>8. Under(b, p) /\ Len(b) = m + 1 => b = p
  <2> SUFFICES ASSUME Under(b, p), Len(b) = m + 1 PROVE b = p
    OBVIOUS
  <2>1. b \in Seq(Atoms) /\ p \in Seq(Atoms)
    BY <1>3, <1>4 DEF Blocks
  <2> QED
    BY <1>3, <2>1, SeqEqual DEF Under
<1>9. Under(p, p)
  BY <1>1, <1>3 DEF Under
<1> HIDE DEF p, next, m
<1>10. \/ b = p
       \/ Len(b) > m + 1 /\ SubSeq(b, 1, m + 1) = p /\ b[m + 2] < next
       <=> Under(b, p)
  BY <1>1, <1>4, <1>5, <1>6, <1>7, <1>8, <1>9
<1>11. (m + 1) + 1 = m + 2
  BY <1>1
<1> QED
  BY <1>2, <1>3, <1>10, <1>11 DEF p, m, next

\* After it the calls outside are as before, and their next item has nothing again.
LEMMA ShapeUnwinds ==
  ASSUME NEW calls, NEW blocks \in SUBSET Blocks, NEW e \in Nat, calls # << >>,
         Shape(calls, blocks, e), Vacant(calls, blocks, e),
         NEW rest \in SUBSET blocks,
         \A b \in blocks : b \in rest <=> ~ Under(b, Last(calls).path)
  PROVE  Shape(Front(calls), rest, e) /\ Vacant(Front(calls), rest, e)
<1> DEFINE m == Len(calls)
           p == PathAt(calls, e, m)
           f == Front(calls)
<1>1. calls \in Seq(Calls)
  BY DEF Shape
<1>2. /\ m \in Nat \ {0} /\ f \in Seq(Calls) /\ Len(f) = m - 1
      /\ \A k \in 1 .. m - 1 : f[k] = calls[k]
      /\ \A k \in 1 .. m : PathAt(f, e, k) = PathAt(calls, e, k)
      /\ Last(calls) = calls[m]
  BY <1>1, FrontCalls
<1>3. calls[m].path = p /\ Len(p) = m + 1
  BY <1>1, <1>2, PathType DEF Shape
<1>4. Shape(f, blocks, e)
  BY ShapePops
<1> HIDE DEF f, p
<1>5. Shape(f, rest, e)
  <2>1. \A k \in 1 .. m - 1 : f[k].path \in rest
    <3> SUFFICES ASSUME NEW k \in 1 .. m - 1 PROVE f[k].path \in rest
      OBVIOUS
    <3>1. f[k].path \in blocks /\ f[k].path = PathAt(calls, e, k)
      BY <1>2, <1>4 DEF Shape
    <3>2. Len(PathAt(calls, e, k)) = k + 1
      BY <1>1, <1>2, PathType
    <3>3. ~ Under(f[k].path, p)
      BY <1>2, <1>3, <3>1, <3>2 DEF Under
    <3> QED
      BY <1>2, <1>3, <3>1, <3>3
  <2> QED
    BY <1>2, <1>4, <2>1 DEF Shape
<1>6. Vacant(f, rest, e)
  <2>1. PathAt(f, e, Len(f) + 1) = p
    BY <1>2 DEF p
  <2> QED
    BY <1>2, <1>3, <2>1 DEF Vacant
<1> QED
  BY <1>5, <1>6 DEF f
-----------------------------------------------------------------------------
\* A block joins those that gguf_free reaches when what leads to it is there.
LEMMA ReachableGrows ==
  ASSUME linked = Reachable, NEW b, linked' = linked \cup {b},
         b[1] \in {"key", "value"} => <<"kv">> \in linked',
         b[1] = "name" => <<"tensors">> \in linked',
         b[1] = "value" => \A n \in 2 .. Len(b) - 1 : SubSeq(b, 1, n) \in linked
  PROVE  linked' = Reachable'
BY DEF Reachable

\* The same for an array's or a string's block, which its calls lead to.
LEMMA ValueReachable ==
  ASSUME linked = Reachable, linked \subseteq Blocks, <<"kv">> \in linked, NEW e \in Nat,
         Shape(stack, linked, e),
         linked' = linked \cup {PathAt(stack, e, Len(stack) + 1)}
  PROVE  linked' = Reachable'
<1> DEFINE m == Len(stack)
           p == PathAt(stack, e, m + 1)
<1>1. stack \in Seq(Calls) /\ m \in Nat /\ m + 1 \in 1 .. m + 1
  BY DEF Shape
<1>2. p \in Blocks /\ Len(p) = m + 2
  <2>1. Len(PathAt(stack, e, m + 1)) = (m + 1) + 1 /\ PathAt(stack, e, m + 1) \in Blocks
    BY <1>1, PathType
  <2> QED
    BY <1>1, <2>1
<1>3. ASSUME NEW n \in 2 .. m + 1 PROVE SubSeq(p, 1, n) \in linked
  <2> DEFINE k == n - 1
             q == PathAt(stack, e, k)
  <2>1. k \in 1 .. m /\ k \in 1 .. m + 1 /\ k + 1 = n
    BY <1>1
  <2> HIDE DEF k, p
  <2>2. q \in Blocks /\ Len(q) = n
    BY <1>1, <2>1, PathType
  <2>3. Under(p, q)
    <3>1. m + 1 \in 1 .. Len(stack) + 1 /\ k \in 1 .. m + 1
      BY <1>1, <2>1
    <3> QED
      BY <1>1, <3>1, PathsNest DEF p
  <2>4. q \in linked
    BY <2>1 DEF Shape
  <2> HIDE DEF q, m
  <2>5. Len(p) >= Len(q)
    BY <1>1, <1>2, <2>2
  <2>6. SubSeq(p, 1, Len(q)) = q
    BY <1>2, <2>2, <2>3, <2>5, Begins
  <2> QED
    BY <2>2, <2>4, <2>6
<1>4. p[1] = "value"
  BY <1>1, PathType
<1> HIDE DEF p, m
<1>5. Len(p) - 1 = m + 1
  BY <1>1, <1>2
<1>6. \A n \in 2 .. Len(p) - 1 : SubSeq(p, 1, n) \in linked
  BY <1>3, <1>5
<1>7. linked' = linked \cup {p} /\ <<"kv">> \in linked'
  BY DEF p, m
<1>8. p[1] \in {"key", "value"} => <<"kv">> \in linked'
  BY <1>7
<1>9. p[1] = "name" => <<"tensors">> \in linked'
  BY <1>4
<1> QED
  BY <1>6, <1>7, <1>8, <1>9, ReachableGrows

\* What is left when a block and all under it are freed is still reached.
LEMMA ReachableShrinks ==
  ASSUME linked = Reachable, linked \subseteq Blocks, NEW p \in Blocks, p[1] = "value",
         Len(p) >= 2,
         linked' = {b \in linked : ~ Under(b, p)}
  PROVE  linked' = Reachable'
<1>1. ASSUME NEW b \in linked' PROVE b \in Reachable'
  <2>1. b \in linked /\ ~ Under(b, p) /\ b \in Reachable /\ b \in Blocks /\ Len(b) \in Nat
    BY DEF Blocks
  <2>2. b[1] \in {"key", "value"} => <<"kv">> \in linked'
    <3>1. ~ Under(<<"kv">>, p)
      BY DEF Under
    <3> QED
      BY <2>1, <3>1 DEF Reachable
  <2>3. b[1] = "name" => <<"tensors">> \in linked'
    <3>1. ~ Under(<<"tensors">>, p)
      BY DEF Under
    <3> QED
      BY <2>1, <3>1 DEF Reachable
  <2>4. ASSUME b[1] = "value", NEW n \in 2 .. Len(b) - 1 PROVE SubSeq(b, 1, n) \in linked'
    <3>1. SubSeq(b, 1, n) \in linked
      BY <2>1, <2>4 DEF Reachable
    <3>2. ~ Under(SubSeq(b, 1, n), p)
      BY <2>1, BeginningUnder
    <3> QED
      BY <3>1, <3>2
  <2> QED
    BY <2>2, <2>3, <2>4 DEF Reachable
<1> QED
  BY <1>1 DEF Reachable
-----------------------------------------------------------------------------
\* A sum is divided by what divides its parts.
LEMMA DivisibleSum ==
  ASSUME NEW a \in Nat, NEW b \in Nat, NEW d \in Nat \ {0}, a % d = 0, b % d = 0
  PROVE  (a + b) % d = 0
<1> DEFINE p == a \div d
           q == b \div d
<1>1. p \in Nat /\ a = d * p /\ q \in Nat /\ b = d * q
  OBVIOUS
<1> HIDE DEF p, q
<1>2. a + b = d * (p + q)
  BY <1>1
<1>3. \A k \in Nat : (d * k) % d = 0
  OBVIOUS
<1> QED
  BY <1>1, <1>2, <1>3

\* What the alignment adds does not go over SIZE_MAX, and is what is missing.
LEMMA AlignsUp ==
  ASSUME NEW offset \in 0 .. SizeMax, NEW a \in Nat \ {0}, AlignUp(offset, a) # SizeMax
  PROVE  AlignUp(offset, a) \in offset .. SizeMax /\ AlignUp(offset, a) % a = 0
<1> DEFINE r == offset % a
           q == offset \div a
<1>1. SizeMax \in Nat /\ offset \in Nat
  BY GgufAssumption
<1>2. r \in 0 .. a - 1 /\ q \in Nat /\ offset = a * q + r
  BY <1>1
<1> HIDE DEF r, q
<1>3. CASE r = 0
  BY <1>1, <1>3 DEF AlignUp, r
<1>4. CASE r # 0
  <2>1. AlignUp(offset, a) = offset + (a - r) /\ a - r <= SizeMax - offset
    BY <1>1, <1>4 DEF AlignUp, r
  <2>2. offset + (a - r) = a * (q + 1)
    BY <1>1, <1>2
  <2>3. \A k \in Nat : (a * k) % a = 0
    OBVIOUS
  <2>4. (offset + (a - r)) % a = 0
    BY <1>2, <2>2, <2>3
  <2> QED
    BY <1>1, <1>2, <2>1, <2>4
<1> QED
  BY <1>3, <1>4

\* A tensor in range ends inside the file, the additions of the check exact, and the
\* accessor, whose own checks are made the other way around, hands out its bytes.
LEMMA RangeExact ==
  ASSUME file_size \in 0 .. SizeMax, tensor_data_offset \in 0 .. file_size,
         NEW t \in Descriptors, InRange(t)
  PROVE  /\ tensor_data_offset + t.offset + t.storage <= file_size
         /\ TensorData(t) = {[at |-> tensor_data_offset + t.offset, size |-> t.storage]}
<1>1. SizeMax \in Nat /\ t.offset \in Nat /\ t.storage \in Nat
  <2>1. t.offset \in Offsets /\ t.storage \in StorageSizes
    BY DEF Descriptors
  <2>2. SizeMax \in Nat /\ Offsets \subseteq Nat /\ StorageSizes \subseteq 1 .. SizeMax
    BY GgufAssumption
  <2>3. t.offset \in Nat
    BY <2>1, <2>2
  <2>4. t.storage \in 1 .. SizeMax
    BY <2>1, <2>2
  <2>5. \A n \in 1 .. SizeMax : n \in Nat
    BY <2>2
  <2> QED
    BY <2>2, <2>3, <2>4, <2>5
<1>2. t.offset <= SizeMax - tensor_data_offset
  BY DEF InRange
<1>3. (tensor_data_offset + t.offset) % (SizeMax + 1) = tensor_data_offset + t.offset
  BY <1>1, <1>2
<1>4. tensor_data_offset + t.offset + t.storage <= file_size
  BY <1>1, <1>3 DEF InRange
<1> DEFINE at == tensor_data_offset + t.offset
<1>5. ~(t.offset > SizeMax - tensor_data_offset) /\ ~(t.storage > SizeMax - at)
      /\ ~(at + t.storage > file_size) /\ (tensor_data_offset + t.offset) % (SizeMax + 1) = at
  BY <1>1, <1>2, <1>3, <1>4
<1> HIDE DEF at
<1>6. TensorData(t) = {[at |-> at, size |-> t.storage]}
  BY ONLY <1>5 DEF TensorData
<1> QED
  BY <1>4, <1>6 DEF at
-----------------------------------------------------------------------------
\* The names of the blocks that are not values.
LEMMA BlockTypes ==
  ASSUME NEW n \in Nat
  PROVE  {<<"kv">>, <<"tensors">>, <<"key", n>>, <<"name", n>>} \subseteq Blocks
<1>1. \A a \in Atoms : <<a>> \in Seq(Atoms) /\ <<a, n>> \in Seq(Atoms)
  BY DEF Atoms
<1>2. {"kv", "tensors", "key", "name"} \subseteq Atoms
  BY DEF Atoms
<1> QED
  BY <1>1, <1>2 DEF Blocks

\* The path of an entry's own value.
LEMMA FirstPath ==
  ASSUME NEW e \in Nat
  PROVE  PathAt(<< >>, e, 1) = <<"value", e>>
<1> DEFINE p == PathAt(<< >>, e, 1)
<1>1. p = [n \in 1 .. 2 |-> IF n = 1 THEN "value" ELSE IF n = 2 THEN e ELSE << >>[n - 2].next]
  BY DEF PathAt
<1>2. p[1] = "value" /\ p[2] = e
  BY <1>1
<1>3. p \in [1 .. 2 -> Atoms]
  BY <1>1 DEF Atoms
<1> HIDE DEF p
<1>4. p \in Seq(Atoms) /\ Len(p) = 2
  <2>1. \A n \in Nat : \A f \in [1 .. n -> Atoms] : f \in Seq(Atoms) /\ Len(f) = n
    OBVIOUS
  <2> QED
    BY <1>3, <2>1
<1>5. "value" \in Atoms /\ e \in Atoms
  BY DEF Atoms
<1>6. <<"value", e>> \in Seq(Atoms) /\ Len(<<"value", e>>) = 2
  BY <1>5
<1> QED
  BY <1>2, <1>4, <1>6, SeqEqual DEF p

\* Nothing is reached but what was, when no pointer is set.
LEMMA SameHeap ==
  ASSUME UNCHANGED linked
  PROVE  Reachable' = Reachable
BY DEF Reachable

\* Everything is freed, the local key with it.
LEMMA FreesAll ==
  ASSUME LoadInv, NEW others, key \subseteq others, Frees(others), pc' \in {"failed", "freed"}
  PROVE  LoadInv' /\ heap' = {}
<1>1. /\ heap' = heap \ (Reachable \cup others)
      /\ linked' = {} /\ key' = {}
      /\ kv' = << >> /\ tensors' = << >> /\ stack' = << >>
      /\ kv_count' = 0 /\ tensor_count' = 0
      /\ file_size' = 0 /\ cursor' = 0
  BY DEF Frees
<1>2. heap' = {}
  BY <1>1 DEF LoadInv, HeapInv
<1>3. LayoutInv'
  BY <1>1, GgufAssumption DEF LayoutInv, Loads
<1>4. StackInv'
  BY <1>1 DEF StackInv
<1>5. Reachable' = {}
  BY <1>1 DEF Reachable
<1>6. HeapInv'
  BY <1>1, <1>2, <1>5 DEF HeapInv
<1> QED
  BY <1>2, <1>3, <1>4, <1>6 DEF LoadInv

\* A failure once the key is stored, or before there is one.
LEMMA FailsAll ==
  ASSUME LoadInv, pc # "type", Fails
  PROVE  LoadInv' /\ heap' = {} /\ pc' = "failed"
<1>1. key = {}
  BY DEF LoadInv, HeapInv
<1>2. Frees({}) /\ pc' = "failed"
  BY DEF Fails
<1> QED
  BY <1>1, <1>2, FreesAll

\* The header and the array of metadata.
LEMMA HeaderKeeps ==
  ASSUME LoadInv, NEW nkv \in Nat, NEW nt \in Nat, Header(nkv, nt)
  PROVE  LoadInv' /\ pc' \in Loads
<1>1. /\ pc = "header" /\ 24 <= file_size - cursor /\ cursor' = 24
      /\ kv_count' = nkv /\ tensor_count' = nt /\ file_size' = file_size
      /\ kv' = kv /\ stack' = stack /\ tensors' = tensors /\ key' = key
      /\ nkv = 0 => pc' = "tensors" /\ heap' = heap /\ linked' = linked
      /\ nkv # 0 => pc' = "key" /\ heap' = heap \cup {<<"kv">>}
                    /\ linked' = linked \cup {<<"kv">>}
  BY DEF Header, HeaderBytes, remaining, layout
<1>2. pc' \in {"tensors", "key"}
  BY <1>1
<1>3. LayoutInv'
  <2>1. /\ file_size \in 0 .. SizeMax /\ SizeMax \in Nat /\ cursor = 0
        /\ kv \in Seq(Entries) /\ tensors \in Seq(Descriptors) /\ tensors = << >>
    BY <1>1, GgufAssumption DEF LoadInv, LayoutInv
  <2>2. file_size' \in 0 .. SizeMax /\ cursor' \in 0 .. file_size'
    BY <1>1, <2>1
  <2> QED
    BY <1>1, <1>2, <2>1, <2>2 DEF LayoutInv, Loads
<1>4. StackInv'
  BY <1>1, <1>2 DEF LoadInv, StackInv
<1>5. HeapInv'
  <2>1. linked = {} /\ key = {} /\ heap = {} /\ linked = Reachable
    BY <1>1 DEF LoadInv, HeapInv
  <2>2. CASE nkv = 0
    BY <1>1, <2>1, <2>2, SameHeap DEF HeapInv
  <2>3. CASE nkv # 0
    <3>1. linked' = {<<"kv">>} /\ heap' = {<<"kv">>} /\ pc' = "key"
      BY <1>1, <2>1, <2>3
    <3>2. <<"kv">> \in Blocks
      BY BlockTypes
    <3>3. Reachable' = linked'
      BY <3>1 DEF Reachable
    <3> QED
      BY <1>1, <2>1, <3>1, <3>2, <3>3 DEF HeapInv
  <2> QED
    BY <2>2, <2>3
<1> QED
  BY <1>2, <1>3, <1>4, <1>5 DEF LoadInv, Loads

\* While metadata is read the layout is only the position, in the file.
LEMMA MetadataLayout ==
  ASSUME LayoutInv, pc \in {"key", "type", "value", "unwind"},
         pc' \in {"key", "type", "value", "unwind", "tensors"},
         kv' \in Seq(Entries), UNCHANGED <<file_size, kv_count, tensor_count, tensors>>,
         cursor' \in cursor .. file_size
  PROVE  LayoutInv'
<1>1. /\ file_size \in 0 .. SizeMax /\ SizeMax \in Nat /\ cursor \in 0 .. file_size
      /\ kv_count \in Nat /\ tensor_count \in Nat
      /\ tensors \in Seq(Descriptors) /\ tensors = << >>
  BY GgufAssumption DEF LayoutInv
<1>2. file_size' \in 0 .. SizeMax /\ cursor' \in 0 .. file_size'
  BY <1>1
<1> QED
  BY <1>1, <1>2 DEF LayoutInv, Loads

\* The key is local: allocated, and not yet linked.
LEMMA ReadKeyKeeps ==
  ASSUME LoadInv, ReadKey
  PROVE  LoadInv' /\ pc' \in Loads
<1>1. /\ pc = "key" /\ file_size' = file_size /\ tensor_count' = tensor_count
      /\ kv_count' = kv_count
      /\ kv' = kv /\ stack' = stack /\ tensors' = tensors /\ linked' = linked
      /\ \/ pc' = "tensors" /\ cursor' = cursor /\ heap' = heap /\ key' = key
         \/ /\ pc' = "type" /\ 9 <= file_size - cursor /\ cursor' = cursor + 9
            /\ key' = {<<"key", Len(kv)>>} /\ heap' = heap \cup key'
  BY DEF ReadKey, StringBytes, remaining, file, counts
<1>2. pc' \in {"tensors", "type"}
  BY <1>1
<1>3. LayoutInv'
  <2>1. /\ file_size \in 0 .. SizeMax /\ SizeMax \in Nat /\ cursor \in 0 .. file_size
        /\ kv \in Seq(Entries) /\ LayoutInv
    BY <1>1, GgufAssumption DEF LoadInv, LayoutInv
  <2>2. cursor' \in cursor .. file_size
    BY <1>1, <2>1
  <2> QED
    BY <1>1, <1>2, <2>1, <2>2, MetadataLayout
<1>4. StackInv'
  BY <1>1, <1>2 DEF LoadInv, StackInv
<1>5. HeapInv'
  BY <1>1, SameHeap DEF LoadInv, HeapInv
<1> QED
  BY <1>2, <1>3, <1>4, <1>5 DEF LoadInv, Loads

\* The entry owns its key, and nothing is at its value yet: the values before it
\* have smaller numbers.
LEMMA ReadTypeKeeps ==
  ASSUME LoadInv, NEW k \in {"general.alignment", "other"}, ReadType(k)
  PROVE  LoadInv' /\ pc' \in Loads
<1> DEFINE e == Len(kv)
           entry == [key |-> k, type |-> "none", u32 |-> 0]
<1>1. /\ pc = "type" /\ pc' = "value" /\ 4 <= file_size - cursor /\ cursor' = cursor + 4
      /\ file_size' = file_size /\ tensor_count' = tensor_count /\ kv_count' = kv_count
      /\ kv' = Append(kv, entry)
      /\ stack' = stack /\ tensors' = tensors /\ heap' = heap
      /\ linked' = linked \cup key /\ key' = {}
  BY DEF ReadType, remaining, file, counts
<1>2. entry \in Entries
  BY DEF Entries
<1> HIDE DEF entry
<1>3. kv \in Seq(Entries) /\ e \in Nat /\ kv' \in Seq(Entries) /\ Len(kv') = e + 1 /\ kv' # << >>
  BY <1>1, <1>2 DEF LoadInv, LayoutInv
<1>4. LayoutInv'
  <2>1. file_size \in 0 .. SizeMax /\ SizeMax \in Nat /\ cursor \in 0 .. file_size /\ LayoutInv
    BY <1>1, GgufAssumption DEF LoadInv, LayoutInv
  <2>2. cursor' \in cursor .. file_size
    BY <1>1, <2>1
  <2> QED
    BY <1>1, <1>3, <2>1, <2>2, MetadataLayout
<1>5. /\ linked = Reachable /\ heap = linked \cup key /\ linked \subseteq Blocks
      /\ key = {<<"key", e>>} /\ <<"kv">> \in linked
      /\ \A b \in linked : b[1] = "value" => Len(b) >= 2 /\ b[2] < e
  BY <1>1 DEF LoadInv, HeapInv
<1>6. linked' \subseteq Blocks /\ linked' = linked \cup {<<"key", e>>}
  BY <1>1, <1>3, <1>5, BlockTypes
<1>7. HeapInv'
  <2>1. linked' = Reachable'
    BY <1>5, <1>6, ReachableGrows
  <2>2. \A b \in linked' : b[1] = "value" => Len(b) >= 2 /\ b[2] < Len(kv')
    <3> SUFFICES ASSUME NEW b \in linked', b[1] = "value"
                 PROVE  Len(b) >= 2 /\ b[2] < Len(kv')
      OBVIOUS
    <3>1. b \in linked
      BY <1>6
    <3>2. Len(b) >= 2 /\ b[2] < e /\ b \in Blocks
      BY <1>5, <3>1
    <3>3. b[2] \in Nat
      BY <3>2 DEF Blocks
    <3> QED
      BY <1>3, <3>2, <3>3
  <2> QED
    BY <1>1, <1>5, <1>6, <2>1, <2>2 DEF HeapInv
<1>8. StackInv'
  <2>1. stack' = << >>
    BY <1>1 DEF LoadInv, StackInv
  <2>2. Shape(<< >>, linked', e)
    BY DEF Shape
  <2>3. Vacant(<< >>, linked', e)
    <3> SUFFICES ASSUME NEW b \in linked', Under(b, PathAt(<< >>, e, 1)) PROVE FALSE
      BY DEF Vacant
    <3>1. Under(b, <<"value", e>>)
      BY <1>3, FirstPath
    <3>2. Len(<<"value", e>>) = 2 /\ <<"value", e>>[1] = "value" /\ <<"value", e>>[2] = e
      OBVIOUS
    <3>3. b[1] = "value" /\ b[2] = e
      BY <3>1, <3>2 DEF Under
    <3>4. b \in linked
      BY <1>6, <3>3
    <3> QED
      BY <1>3, <1>5, <3>3, <3>4
  <2>4. Len(kv') - 1 = e
    BY <1>3
  <2> QED
    BY <1>1, <1>3, <2>1, <2>2, <2>3, <2>4 DEF StackInv
<1> QED
  BY <1>1, <1>4, <1>7, <1>8 DEF LoadInv, Loads
-----------------------------------------------------------------------------
\* Path names the item the calls are at.
LEMMA PathIs ==
  ASSUME kv \in Seq(Entries), kv # << >>, Shape(stack, linked, Len(kv) - 1)
  PROVE  Path = PathAt(stack, Len(kv) - 1, Len(stack) + 1)
<1> DEFINE e == Len(kv) - 1
           m == Len(stack)
           p == PathAt(stack, e, m)
           q == PathAt(stack, e, m + 1)
<1>1. e \in Nat /\ stack \in Seq(Calls) /\ m \in Nat /\ m + 1 \in 1 .. m + 1
  BY DEF Shape
<1>2. CASE stack = << >>
  <2>1. Len(<< >>) + 1 = 1
    OBVIOUS
  <2> QED
    BY <1>1, <1>2, <2>1, FirstPath DEF Path
<1>3. CASE stack # << >>
  <2>1. m \in 1 .. m /\ m \in 1 .. m + 1 /\ stack[m] \in Calls
    BY <1>1, <1>3
  <2>2. Last(stack) = stack[m] /\ stack[m].path = p /\ stack[m].next \in Nat
    BY <2>1 DEF Last, Shape, Calls
  <2>3. p \in Blocks /\ Len(p) = m + 1
    BY <1>1, <2>1, PathType
  <2>4. q \in Blocks /\ Len(q) = (m + 1) + 1
    BY <1>1, PathType
  <2>5. (\A n \in 1 .. m + 1 : q[n] = p[n]) /\ q[(m + 1) + 1] = stack[m].next
    BY <1>1, <2>1 DEF PathAt
  <2> DEFINE next == stack[m].next
             r == Append(p, next)
  <2>6. r \in Seq(Atoms) /\ Len(r) = (m + 1) + 1 /\ r[(m + 1) + 1] = next
        /\ \A n \in 1 .. m + 1 : r[n] = p[n]
    <3>1. p \in Seq(Atoms) /\ next \in Atoms
      BY <2>2, <2>3 DEF Blocks, Atoms
    <3> HIDE DEF p, next
    <3> QED
      BY <2>3, <3>1
  <2>7. q \in Seq(Atoms)
    BY <2>4 DEF Blocks
  <2> HIDE DEF q, r, p, next
  <2>8. q = r
    <3>1. \A n \in 1 .. (m + 1) + 1 : n \in 1 .. m + 1 \/ n = (m + 1) + 1
      BY <1>1
    <3>2. \A n \in 1 .. (m + 1) + 1 : q[n] = r[n]
      BY <2>5, <2>6, <3>1 DEF next
    <3> QED
      BY <2>4, <2>6, <2>7, <3>2, SeqEqual
  <2> QED
    BY <1>3, <2>2, <2>8 DEF Path, q, r, next
<1> QED
  BY <1>2, <1>3

\* An entry's value is filled in, an item's is its own block.
LEMMA SetsValue ==
  ASSUME kv \in Seq(Entries), kv # << >>, NEW type \in {"u32", "string", "array"}, NEW n \in Nat,
         SetValue(type, n)
  PROVE  kv' \in Seq(Entries) /\ Len(kv') = Len(kv) /\ kv' # << >>
<1> DEFINE m == Len(kv)
           entry == [kv[m] EXCEPT !.type = type, !.u32 = n]
<1>1. CASE stack = << >>
  <2>1. m \in Nat \ {0} /\ m \in 1 .. m /\ kv \in [1 .. m -> Entries] /\ kv[m] \in Entries
    BY LenProperties
  <2>2. entry \in Entries
    BY <2>1 DEF Entries
  <2>3. kv' = [kv EXCEPT ![m] = entry]
    BY <1>1 DEF SetValue
  <2> HIDE DEF m, entry
  <2>4. kv' \in [1 .. m -> Entries]
    BY <2>1, <2>2, <2>3
  <2>5. kv' \in Seq(Entries) /\ Len(kv') = m
    BY <2>1, <2>4
  <2> QED
    BY <2>1, <2>5 DEF m
<1>2. CASE stack # << >>
  BY <1>2 DEF SetValue
<1> QED
  BY <1>1, <1>2

\* The array that a value was an item of goes on at the next, or the next key follows.
LEMMA ReturnsKeep ==
  ASSUME kv' \in Seq(Entries), kv' # << >>, NEW calls, Returns(calls),
         linked' \subseteq Blocks, Shape(calls, linked', Len(kv') - 1)
  PROVE  StackInv' /\ pc' \in {"key", "value"}
<1>1. CASE calls = << >>
  BY <1>1 DEF Returns, StackInv
<1>2. CASE calls # << >>
  <2> DEFINE e == Len(kv') - 1
  <2>1. e \in Nat
    OBVIOUS
  <2>2. pc' = "value" /\ stack' = [calls EXCEPT ![Len(calls)].next = @ + 1]
    BY <1>2 DEF Returns
  <2>3. Shape(stack', linked', e) /\ Vacant(stack', linked', e)
    <3> HIDE DEF e
    <3> QED
      BY <1>2, <2>1, <2>2, ShapeAdvances DEF e
  <2> QED
    BY <2>2, <2>3 DEF StackInv
<1> QED
  BY <1>1, <1>2

\* What is known where a value is parsed or its parsing is undone.
LEMMA AtValue ==
  ASSUME LoadInv, pc \in {"value", "unwind"}
  PROVE  /\ kv \in Seq(Entries) /\ kv # << >> /\ Len(kv) - 1 \in Nat /\ LayoutInv
         /\ file_size \in 0 .. SizeMax /\ SizeMax \in Nat /\ cursor \in 0 .. file_size
         /\ Shape(stack, linked, Len(kv) - 1) /\ Vacant(stack, linked, Len(kv) - 1)
         /\ linked \subseteq Blocks /\ linked = Reachable /\ <<"kv">> \in linked
         /\ heap = linked /\ key = {}
         /\ \A b \in linked : b[1] = "value" => Len(b) >= 2 /\ b[2] < Len(kv)
<1>1. /\ kv \in Seq(Entries) /\ LayoutInv
      /\ file_size \in 0 .. SizeMax /\ SizeMax \in Nat /\ cursor \in 0 .. file_size
  BY GgufAssumption DEF LoadInv, LayoutInv
<1>2. kv # << >> /\ Shape(stack, linked, Len(kv) - 1) /\ Vacant(stack, linked, Len(kv) - 1)
  BY DEF LoadInv, StackInv
<1>3. Len(kv) - 1 \in Nat
  BY <1>1, <1>2
<1> QED
  BY <1>1, <1>2, <1>3 DEF LoadInv, HeapInv

\* A value without blocks leaves the heap as it is.
LEMMA SameBlocks ==
  ASSUME LoadInv, pc \in {"value", "unwind"}, pc' \in {"key", "value", "unwind"},
         UNCHANGED <<heap, linked, key>>, Len(kv') = Len(kv)
  PROVE  HeapInv'
BY AtValue, SameHeap DEF HeapInv

\* The block of the value the parser is at is linked in its place.
LEMMA LinksValue ==
  ASSUME LoadInv, pc = "value", pc' \in {"key", "value"}, Len(kv') = Len(kv), key' = key,
         heap' = heap \cup {Path}, linked' = linked \cup {Path}
  PROVE  HeapInv' /\ linked' \subseteq Blocks
<1> DEFINE e == Len(kv) - 1
           p == PathAt(stack, e, Len(stack) + 1)
<1>1. /\ kv \in Seq(Entries) /\ kv # << >> /\ e \in Nat /\ Len(kv) = e + 1
      /\ Shape(stack, linked, e)
      /\ linked \subseteq Blocks /\ linked = Reachable /\ <<"kv">> \in linked
      /\ heap = linked /\ key = {}
      /\ \A b \in linked : b[1] = "value" => Len(b) >= 2 /\ b[2] < Len(kv)
  BY AtValue
<1>2. Path = p
  BY <1>1, PathIs
<1>3. p \in Blocks /\ Len(p) >= 2 /\ p[2] = e
  <2>1. stack \in Seq(Calls) /\ Len(stack) \in Nat /\ Len(stack) + 1 \in 1 .. Len(stack) + 1
    BY <1>1 DEF Shape
  <2>2. p \in Blocks /\ Len(p) = (Len(stack) + 1) + 1 /\ p[2] = e
    BY <1>1, <2>1, PathType
  <2> HIDE DEF p
  <2> QED
    BY <2>1, <2>2
<1>4. linked' = Reachable'
  <2> HIDE DEF e
  <2> QED
    BY <1>1, <1>2, ValueReachable
<1> HIDE DEF p
<1>5. \A b \in linked' : b[1] = "value" => Len(b) >= 2 /\ b[2] < Len(kv')
  BY <1>1, <1>2, <1>3
<1> QED
  BY <1>1, <1>2, <1>3, <1>4, <1>5 DEF HeapInv
-----------------------------------------------------------------------------
\* A number, and whatever needs no block.
LEMMA ParseScalarKeeps ==
  ASSUME LoadInv, NEW n \in Nat, ParseScalar(n)
  PROVE  LoadInv' /\ pc' \in Loads
<1>1. /\ pc = "value" /\ 4 <= file_size - cursor /\ cursor' = cursor + 4
      /\ SetValue("u32", n) /\ Returns(stack)
      /\ UNCHANGED <<file_size, kv_count, tensor_count, tensors>>
      /\ UNCHANGED <<heap, linked, key>>
  BY DEF ParseScalar, remaining, counts, memory
<1>2. /\ kv \in Seq(Entries) /\ kv # << >> /\ LayoutInv
      /\ file_size \in 0 .. SizeMax /\ SizeMax \in Nat /\ cursor \in 0 .. file_size
      /\ Shape(stack, linked, Len(kv) - 1) /\ linked \subseteq Blocks
  BY <1>1, AtValue
<1>3. kv' \in Seq(Entries) /\ Len(kv') = Len(kv) /\ kv' # << >>
  BY <1>1, <1>2, SetsValue
<1>4. StackInv' /\ pc' \in {"key", "value"}
  BY <1>1, <1>2, <1>3, ReturnsKeep
<1>5. LayoutInv'
  <2>1. cursor' \in cursor .. file_size
    BY <1>1, <1>2
  <2> QED
    BY <1>1, <1>2, <1>3, <1>4, <2>1, MetadataLayout
<1>6. HeapInv'
  BY <1>1, <1>3, <1>4, SameBlocks
<1> QED
  BY <1>4, <1>5, <1>6 DEF LoadInv, Loads

\* A string's characters are a block of the value's own.
LEMMA ParseStringKeeps ==
  ASSUME LoadInv, ParseString
  PROVE  LoadInv' /\ pc' \in Loads
<1>1. /\ pc = "value" /\ 9 <= file_size - cursor /\ cursor' = cursor + 9
      /\ SetValue("string", 0) /\ Returns(stack)
      /\ heap' = heap \cup {Path} /\ linked' = linked \cup {Path}
      /\ UNCHANGED <<file_size, kv_count, tensor_count, tensors>> /\ key' = key
  BY DEF ParseString, StringBytes, remaining, counts
<1>2. /\ kv \in Seq(Entries) /\ kv # << >> /\ LayoutInv /\ Len(kv) - 1 \in Nat
      /\ file_size \in 0 .. SizeMax /\ SizeMax \in Nat /\ cursor \in 0 .. file_size
      /\ Shape(stack, linked, Len(kv) - 1) /\ linked \subseteq Blocks
  BY <1>1, AtValue
<1>3. kv' \in Seq(Entries) /\ Len(kv') = Len(kv) /\ kv' # << >>
  BY <1>1, <1>2, SetsValue
<1>4. Shape(stack, linked', Len(kv') - 1)
  <2>1. Path = PathAt(stack, Len(kv) - 1, Len(stack) + 1)
    BY <1>2, PathIs
  <2> QED
    BY <1>1, <1>2, <1>3, <2>1, ShapeAllocates
<1>5. pc' \in {"key", "value"}
  BY <1>1 DEF Returns
<1>6. HeapInv' /\ linked' \subseteq Blocks
  BY <1>1, <1>3, <1>5, LinksValue
<1>7. StackInv'
  BY <1>1, <1>3, <1>4, <1>6, ReturnsKeep
<1>8. LayoutInv'
  <2>1. cursor' \in cursor .. file_size
    BY <1>1, <1>2
  <2> QED
    BY <1>1, <1>2, <1>3, <1>5, <2>1, MetadataLayout
<1> QED
  BY <1>5, <1>6, <1>7, <1>8 DEF LoadInv, Loads

\* An array without items is complete; another one's items are a block, and the
\* parser goes on inside it.
LEMMA ParseArrayKeeps ==
  ASSUME LoadInv, NEW elem \in {"u32", "string", "array"}, NEW len \in Nat, ParseArray(elem, len)
  PROVE  LoadInv' /\ pc' \in Loads
<1> DEFINE c == [path |-> Path, elem |-> elem, len |-> len, next |-> 0]
<1>1. /\ pc = "value" /\ 12 <= file_size - cursor /\ cursor' = cursor + 12
      /\ SetValue("array", 0)
      /\ UNCHANGED <<file_size, kv_count, tensor_count, tensors>> /\ key' = key
      /\ len = 0 => Returns(stack) /\ heap' = heap /\ linked' = linked
      /\ len # 0 => /\ stack' = Append(stack, c) /\ pc' = pc
                    /\ heap' = heap \cup {Path} /\ linked' = linked \cup {Path}
  BY DEF ParseArray, remaining, counts
<1>2. /\ kv \in Seq(Entries) /\ kv # << >> /\ LayoutInv /\ Len(kv) - 1 \in Nat
      /\ file_size \in 0 .. SizeMax /\ SizeMax \in Nat /\ cursor \in 0 .. file_size
      /\ Shape(stack, linked, Len(kv) - 1) /\ Vacant(stack, linked, Len(kv) - 1)
      /\ linked \subseteq Blocks
  BY <1>1, AtValue
<1>3. kv' \in Seq(Entries) /\ Len(kv') = Len(kv) /\ kv' # << >>
  BY <1>1, <1>2, SetsValue
<1>4. pc' \in {"key", "value"} /\ StackInv' /\ HeapInv'
  <2>1. CASE len = 0
    <3>1. StackInv' /\ pc' \in {"key", "value"}
      BY <1>1, <1>2, <1>3, <2>1, ReturnsKeep
    <3>2. UNCHANGED <<heap, linked, key>>
      BY <1>1, <2>1
    <3> QED
      BY <1>1, <1>3, <3>1, <3>2, SameBlocks
  <2>2. CASE len # 0
    <3>1. Path = PathAt(stack, Len(kv) - 1, Len(stack) + 1)
      BY <1>2, PathIs
    <3>2. pc' = "value" /\ linked' = linked \cup {Path} /\ heap' = heap \cup {Path}
          /\ stack' = Append(stack, c)
      BY <1>1, <2>2
    <3>3. HeapInv' /\ linked' \subseteq Blocks
      BY <1>1, <1>3, <3>2, LinksValue
    <3>4. c \in Calls /\ c.path = Path /\ c.next = 0
      <4>1. Path \in Blocks
        BY <3>2, <3>3
      <4> HIDE DEF Path
      <4> QED
        BY <4>1 DEF Calls
    <3>5. linked' = linked \cup {c.path}
      BY <3>2, <3>4
    <3> HIDE DEF c
    <3>6. Shape(Append(stack, c), linked', Len(kv) - 1)
          /\ Vacant(Append(stack, c), linked', Len(kv) - 1)
      BY <1>2, <3>1, <3>4, <3>5, ShapePushes
    <3> QED
      BY <1>3, <3>2, <3>3, <3>6 DEF StackInv
  <2> QED
    BY <2>1, <2>2
<1>5. LayoutInv'
  <2>1. cursor' \in cursor .. file_size
    BY <1>1, <1>2
  <2> QED
    BY <1>1, <1>2, <1>3, <1>4, <2>1, MetadataLayout
<1> QED
  BY <1>4, <1>5 DEF LoadInv, Loads

\* All items are there.
LEMMA ArrayDoneKeeps ==
  ASSUME LoadInv, ArrayDone
  PROVE  LoadInv' /\ pc' \in Loads
<1>1. /\ pc = "value" /\ stack # << >> /\ Returns(Front(stack))
      /\ UNCHANGED <<file_size, cursor, kv_count, tensor_count, tensors, kv>>
      /\ UNCHANGED <<heap, linked, key>>
  BY DEF ArrayDone, file, counts, memory
<1>2. /\ kv \in Seq(Entries) /\ kv # << >> /\ LayoutInv /\ Len(kv) - 1 \in Nat
      /\ cursor \in 0 .. file_size /\ file_size \in 0 .. SizeMax /\ SizeMax \in Nat
      /\ Shape(stack, linked, Len(kv) - 1) /\ linked \subseteq Blocks
  BY <1>1, AtValue
<1>3. Shape(Front(stack), linked', Len(kv') - 1)
  BY <1>1, <1>2, ShapePops
<1>4. StackInv' /\ pc' \in {"key", "value"}
  BY <1>1, <1>2, <1>3, ReturnsKeep
<1>5. LayoutInv'
  <2>1. cursor' \in cursor .. file_size
    BY <1>1, <1>2
  <2> QED
    BY <1>1, <1>2, <1>4, <2>1, MetadataLayout
<1>6. HeapInv'
  BY <1>1, <1>4, SameBlocks
<1> QED
  BY <1>4, <1>5, <1>6 DEF LoadInv, Loads

\* The unwinding starts with the calls there are.
LEMMA ParseFailsKeeps ==
  ASSUME LoadInv, ParseFails
  PROVE  LoadInv' /\ pc' \in Loads
<1>1. /\ pc = "value" /\ pc' = "unwind"
      /\ UNCHANGED <<file_size, cursor, kv_count, tensor_count, tensors, kv, stack>>
      /\ UNCHANGED <<heap, linked, key>>
  BY DEF ParseFails, file, counts, memory
<1>2. /\ kv \in Seq(Entries) /\ kv # << >> /\ LayoutInv
      /\ cursor \in 0 .. file_size /\ file_size \in 0 .. SizeMax /\ SizeMax \in Nat
      /\ Shape(stack, linked, Len(kv) - 1) /\ Vacant(stack, linked, Len(kv) - 1)
  BY <1>1, AtValue
<1>3. StackInv'
  BY <1>1, <1>2 DEF StackInv
<1>4. LayoutInv'
  <2>1. cursor' \in cursor .. file_size
    BY <1>1, <1>2
  <2> QED
    BY <1>1, <1>2, <2>1, MetadataLayout
<1>5. HeapInv'
  BY <1>1, SameBlocks
<1> QED
  BY <1>1, <1>3, <1>4, <1>5 DEF LoadInv, Loads

\* One call frees its array and all that the items before the failing one hold: every
\* block under it, since the failing item has none.
LEMMA UnwindKeeps ==
  ASSUME LoadInv, Unwind
  PROVE  LoadInv' /\ pc' \in Loads
<1> DEFINE e == Len(kv) - 1
           call == Last(stack)
           depth == Len(call.path)
           freed == {call.path} \cup
                    {b \in linked : /\ Len(b) > depth /\ SubSeq(b, 1, depth) = call.path
                                    /\ b[depth + 1] < call.next}
<1>1. /\ pc = "unwind" /\ pc' = "unwind" /\ stack # << >>
      /\ heap' = heap \ freed /\ linked' = linked \ freed /\ stack' = Front(stack)
      /\ UNCHANGED <<file_size, cursor, kv_count, tensor_count, tensors, kv>> /\ key' = key
  BY DEF Unwind, file, counts
<1>2. /\ kv \in Seq(Entries) /\ kv # << >> /\ e \in Nat /\ LayoutInv
      /\ cursor \in 0 .. file_size /\ file_size \in 0 .. SizeMax /\ SizeMax \in Nat
      /\ Shape(stack, linked, e) /\ Vacant(stack, linked, e)
      /\ linked \subseteq Blocks /\ linked = Reachable /\ <<"kv">> \in linked
      /\ heap = linked /\ key = {}
      /\ \A b \in linked : b[1] = "value" => Len(b) >= 2 /\ b[2] < Len(kv)
  BY <1>1, AtValue
<1>3. call.path = PathAt(stack, e, Len(stack)) /\ depth = Len(stack) + 1
      /\ \A b \in linked : b \in freed <=> Under(b, call.path)
  <2> HIDE DEF e
  <2>1. stack \in Seq(Calls) /\ Len(stack) \in Nat \ {0} /\ Len(stack) \in 1 .. Len(stack)
    BY <1>1, <1>2 DEF Shape
  <2>2. Last(stack) = stack[Len(stack)]
    BY <2>1 DEF Last
  <2>3. call.path = PathAt(stack, e, Len(stack))
    BY <1>2, <2>1, <2>2 DEF Shape
  <2>4. call.path \in linked
    BY <1>2, <2>1, <2>2 DEF Shape
  <2>5. depth = Len(stack) + 1
    BY <1>1, <1>2, <2>4, FreedUnder
  <2>6. ASSUME NEW b \in linked PROVE b \in freed <=> Under(b, call.path)
    BY <1>1, <1>2, FreedUnder
  <2> QED
    BY <2>3, <2>5, <2>6
<1>4. /\ call.path \in Blocks /\ Len(call.path) >= 2 /\ call.path[1] = "value"
  <2>1. stack \in Seq(Calls) /\ Len(stack) \in Nat \ {0} /\ Len(stack) \in 1 .. Len(stack) + 1
    BY <1>1, <1>2 DEF Shape
  <2> HIDE DEF e, call
  <2>2. /\ PathAt(stack, e, Len(stack)) \in Blocks
        /\ Len(PathAt(stack, e, Len(stack))) = Len(stack) + 1
        /\ PathAt(stack, e, Len(stack))[1] = "value"
    BY <1>2, <2>1, PathType
  <2> QED
    BY <1>3, <2>1, <2>2
<1> HIDE DEF freed, e, depth
<1>5. linked' = {b \in linked : ~ Under(b, call.path)}
  BY <1>1, <1>3
<1>6. StackInv'
  <2>1. linked' \in SUBSET linked /\ \A b \in linked : b \in linked' <=> ~ Under(b, call.path)
    BY <1>5
  <2>2. Shape(Front(stack), linked', e) /\ Vacant(Front(stack), linked', e)
    BY <1>1, <1>2, <2>1, ShapeUnwinds
  <2> QED
    BY <1>1, <1>2, <2>2 DEF StackInv, e
<1>7. HeapInv'
  <2> HIDE DEF call
  <2>1. linked' = Reachable'
    BY <1>2, <1>4, <1>5, ReachableShrinks
  <2>2. heap' = linked' /\ key' = {}
    BY <1>1, <1>2
  <2>3. <<"kv">> \in linked'
    <3>1. Len(<<"kv">>) = 1
      OBVIOUS
    <3>2. ~ Under(<<"kv">>, call.path)
      BY <1>4, <3>1 DEF Under, Blocks
    <3> QED
      BY <1>2, <1>5, <3>2
  <2>4. linked' \subseteq Blocks
        /\ \A b \in linked' : b[1] = "value" => Len(b) >= 2 /\ b[2] < Len(kv')
    BY <1>1, <1>2, <1>5
  <2> QED
    BY <1>1, <2>1, <2>2, <2>3, <2>4 DEF HeapInv
<1>8. LayoutInv'
  <2>1. cursor' \in cursor .. file_size
    BY <1>1, <1>2
  <2> QED
    BY <1>1, <1>2, <2>1, MetadataLayout
<1> QED
  BY <1>1, <1>6, <1>7, <1>8 DEF LoadInv, Loads
-----------------------------------------------------------------------------
\* The steps between the last key and the answer leave the heap as it is,
LEMMA SameMemory ==
  ASSUME LoadInv, pc \in {"tensors", "name", "shape", "align", "ranges"},
         pc' \in {"tensors", "name", "shape", "align", "ranges", "loaded"},
         pc' \in {"name", "shape"} => pc \in {"name", "shape"},
         UNCHANGED <<heap, linked, key, kv, stack, tensor_count>>
  PROVE  HeapInv' /\ StackInv'
<1>1. Reachable' = Reachable
  BY SameHeap
<1>2. HeapInv'
  BY <1>1 DEF LoadInv, HeapInv
<1>3. StackInv'
  BY DEF LoadInv, StackInv
<1> QED
  BY <1>2, <1>3

\* or link the array of tensors, and names it leads to.
LEMMA LinksTensor ==
  ASSUME LoadInv, pc \in {"tensors", "name"}, pc' \in {"name", "shape"},
         UNCHANGED <<key, kv, stack, tensor_count>>,
         NEW b \in Blocks, b[1] \in {"tensors", "name"},
         heap' = heap \cup {b}, linked' = linked \cup {b}, <<"tensors">> \in linked'
  PROVE  HeapInv' /\ StackInv'
<1>1. /\ linked = Reachable /\ heap = linked \cup key /\ linked \subseteq Blocks
      /\ \A c \in linked : c[1] = "value" => Len(c) >= 2 /\ c[2] < Len(kv)
      /\ key = {}
  BY DEF LoadInv, HeapInv
<1>2. linked' = Reachable'
  BY <1>1, ReachableGrows
<1>3. linked' \subseteq Blocks /\ heap' = linked' \cup key'
      /\ \A c \in linked' : c[1] = "value" => Len(c) >= 2 /\ c[2] < Len(kv')
  BY <1>1
<1>4. HeapInv'
  BY <1>1, <1>2, <1>3 DEF HeapInv
<1>5. StackInv'
  BY DEF LoadInv, StackInv
<1> QED
  BY <1>4, <1>5

\* The array of descriptors.
LEMMA AllocateTensorsKeeps ==
  ASSUME LoadInv, AllocateTensors
  PROVE  LoadInv' /\ pc' \in Loads
<1>1. /\ pc = "tensors"
      /\ UNCHANGED <<file_size, cursor, kv_count, tensor_count, tensors, kv, stack, key>>
      /\ tensor_count = 0 => pc' = "align" /\ heap' = heap /\ linked' = linked
      /\ tensor_count # 0 => /\ pc' = "name" /\ heap' = heap \cup {<<"tensors">>}
                             /\ linked' = linked \cup {<<"tensors">>}
  BY DEF AllocateTensors, file, counts
<1>2. LayoutInv /\ tensors = << >> /\ tensor_count \in Nat
  BY <1>1 DEF LoadInv, LayoutInv
<1>3. pc' \in {"align", "name"} /\ LayoutInv'
  BY <1>1, <1>2 DEF LayoutInv, Loads
<1>4. HeapInv' /\ StackInv'
  <2>1. CASE tensor_count = 0
    BY <1>1, <2>1, SameMemory
  <2>2. CASE tensor_count # 0
    <3>1. <<"tensors">> \in Blocks /\ <<"tensors">>[1] = "tensors"
      BY BlockTypes
    <3>2. /\ pc' \in {"name", "shape"} /\ pc \in {"tensors", "name"}
          /\ heap' = heap \cup {<<"tensors">>} /\ linked' = linked \cup {<<"tensors">>}
      BY <1>1, <2>2
    <3> QED
      BY <1>1, <3>1, <3>2, LinksTensor
  <2> QED
    BY <2>1, <2>2
<1> QED
  BY <1>3, <1>4 DEF LoadInv, Loads

\* The next descriptor's name, which *out owns at once.
LEMMA ReadNameKeeps ==
  ASSUME LoadInv, ReadName
  PROVE  LoadInv' /\ pc' \in Loads
<1> DEFINE b == <<"name", Len(tensors)>>
<1>1. /\ pc = "name" /\ pc' = "shape" /\ Len(tensors) < tensor_count
      /\ 9 <= file_size - cursor /\ cursor' = cursor + 9
      /\ UNCHANGED <<file_size, kv_count, tensor_count, tensors, kv, stack, key>>
      /\ heap' = heap \cup {b} /\ linked' = linked \cup {b}
  BY DEF ReadName, StringBytes, remaining, counts
<1>2. /\ file_size \in 0 .. SizeMax /\ SizeMax \in Nat /\ cursor \in 0 .. file_size
      /\ tensors \in Seq(Descriptors) /\ tensor_count \in Nat /\ LayoutInv
  BY GgufAssumption DEF LoadInv, LayoutInv
<1>3. cursor' \in 0 .. file_size'
  BY <1>1, <1>2
<1>4. LayoutInv'
  BY <1>1, <1>2, <1>3 DEF LayoutInv, Loads
<1>5. b \in Blocks /\ b[1] = "name"
  <2>1. Len(tensors) \in Nat
    BY <1>2
  <2>2. b \in Blocks
    BY <2>1, BlockTypes
  <2> QED
    BY <2>2
<1>6. <<"tensors">> \in linked'
  <2>1. tensor_count > 0
    BY <1>1, <1>2
  <2> QED
    BY <1>1, <2>1 DEF LoadInv, HeapInv
<1> HIDE DEF b
<1>7. HeapInv' /\ StackInv'
  BY <1>1, <1>5, <1>6, LinksTensor
<1> QED
  BY <1>1, <1>4, <1>7 DEF LoadInv, Loads

\* The rest of a descriptor.
LEMMA ReadShapeKeeps ==
  ASSUME LoadInv, NEW storage \in StorageSizes, NEW offset \in Offsets, ReadShape(storage, offset)
  PROVE  LoadInv' /\ pc' \in Loads
<1> DEFINE t == [storage |-> storage, offset |-> offset]
<1>1. /\ pc = "shape" /\ pc' = "name" /\ 24 <= file_size - cursor /\ cursor' = cursor + 24
      /\ tensors' = Append(tensors, t)
      /\ UNCHANGED <<file_size, kv_count, tensor_count, kv, stack>>
      /\ UNCHANGED <<heap, linked, key>>
  BY DEF ReadShape, TensorBytes, remaining, counts, memory
<1>2. /\ file_size \in 0 .. SizeMax /\ SizeMax \in Nat /\ cursor \in 0 .. file_size
      /\ tensors \in Seq(Descriptors) /\ tensor_count \in Nat /\ Len(tensors) < tensor_count
      /\ LayoutInv
  BY <1>1, GgufAssumption DEF LoadInv, LayoutInv
<1>3. t \in Descriptors
  BY DEF Descriptors
<1> HIDE DEF t
<1>4. tensors' \in Seq(Descriptors) /\ Len(tensors') = Len(tensors) + 1
  BY <1>1, <1>2, <1>3
<1>5. Len(tensors') <= tensor_count' /\ cursor' \in 0 .. file_size'
  BY <1>1, <1>2, <1>4
<1>6. LayoutInv'
  BY <1>1, <1>2, <1>4, <1>5 DEF LayoutInv, Loads
<1>7. HeapInv' /\ StackInv'
  BY <1>1, SameMemory
<1> QED
  BY <1>1, <1>6, <1>7 DEF LoadInv, Loads

\* An alignment that is accepted is a number to divide by.
LEMMA AlignmentPositive ==
  ASSUME kv \in Seq(Entries), AlignmentValid
  PROVE  Alignment \in Nat \ {0}
<1> DEFINE found == Find("general.alignment")
           n == CHOOSE m \in found : TRUE
<1>1. CASE found = {}
  BY <1>1 DEF Alignment, DefaultAlignment
<1>2. CASE found # {}
  <2>1. n \in found
    BY <1>2
  <2>2. n \in 1 .. Len(kv)
    BY <2>1 DEF Find
  <2>3. kv[n] \in Entries
    BY <2>2
  <2>4. kv[n].u32 # 0
    BY <2>1 DEF AlignmentValid
  <2>5. kv[n].u32 \in Nat
    BY <2>3 DEF Entries
  <2>6. Alignment = kv[n].u32
    BY <1>2 DEF Alignment
  <2> QED
    BY <2>4, <2>5, <2>6
<1> QED
  BY <1>1, <1>2

\* The data section starts behind the descriptors, in the file, aligned when there
\* is a tensor.
LEMMA LayOutKeeps ==
  ASSUME LoadInv, LayOut
  PROVE  LoadInv' /\ (pc' \in Loads \/ (pc' = "failed" /\ heap' = {}))
<1> DEFINE a == Alignment
           up == AlignUp(cursor, a)
           ok == AlignmentValid /\ (tensor_count > 0 => up # SizeMax /\ up <= file_size)
<1>1. /\ pc = "align" \/ (pc = "name" /\ Len(tensors) = tensor_count)
      /\ ok => /\ alignment' = a /\ pc' = "ranges"
               /\ tensor_data_offset' = IF tensor_count > 0 THEN up ELSE cursor
               /\ UNCHANGED <<file_size, cursor, kv_count, tensor_count, tensors, kv, stack>>
               /\ UNCHANGED <<heap, linked, key>>
      /\ ~ ok => Fails
  <2>1. /\ pc = "align" \/ (pc = "name" /\ Len(tensors) = tensor_count)
        /\ IF ok
           THEN /\ alignment' = a /\ pc' = "ranges"
                /\ tensor_data_offset' = IF tensor_count > 0 THEN up ELSE cursor
                /\ UNCHANGED <<file, counts, kv, stack, tensors, memory>>
           ELSE Fails
    BY DEF LayOut
  <2> HIDE DEF ok, a, up
  <2> QED
    BY <2>1 DEF file, counts, memory
<1>2. /\ file_size \in 0 .. SizeMax /\ SizeMax \in Nat /\ cursor \in 0 .. file_size
      /\ kv \in Seq(Entries) /\ kv_count \in Nat
      /\ tensors \in Seq(Descriptors) /\ tensor_count \in Nat /\ LayoutInv
  BY GgufAssumption DEF LoadInv, LayoutInv
<1>3. Len(tensors) = tensor_count
  BY <1>1 DEF LoadInv, LayoutInv
<1>4. CASE ok
  <2>1. a \in Nat \ {0}
    BY <1>2, <1>4, AlignmentPositive
  <2>2. cursor \in 0 .. SizeMax
    BY <1>2
  <2> HIDE DEF a
  <2>3. ASSUME tensor_count > 0 PROVE up \in cursor .. file_size /\ up % a = 0
    <3>1. up # SizeMax /\ up <= file_size
      BY <1>4, <2>3
    <3>2. up \in cursor .. SizeMax /\ up % a = 0
      BY <2>1, <2>2, <3>1, AlignsUp
    <3> QED
      BY <1>2, <3>1, <3>2
  <2> HIDE DEF up
  <2>4. /\ alignment' = a /\ pc' = "ranges"
        /\ tensor_data_offset' = IF tensor_count > 0 THEN up ELSE cursor
        /\ UNCHANGED <<file_size, cursor, kv_count, tensor_count, tensors, kv, stack>>
        /\ UNCHANGED <<heap, linked, key>>
    BY <1>1, <1>4
  <2>5. tensor_data_offset' \in cursor' .. file_size'
        /\ (tensor_count' > 0 => tensor_data_offset' % alignment' = 0)
    BY <1>2, <2>3, <2>4
  <2>6. LayoutInv'
    BY <1>2, <1>3, <2>1, <2>4, <2>5 DEF LayoutInv, Loads
  <2>7. HeapInv' /\ StackInv'
    BY <1>1, <2>4, SameMemory
  <2>8. LoadInv'
    BY <2>6, <2>7 DEF LoadInv
  <2>9. pc' \in Loads
    BY <2>4 DEF Loads
  <2> QED
    BY <2>8, <2>9
<1>5. CASE ~ ok
  <2>1. Fails /\ pc # "type"
    BY <1>1, <1>5
  <2> QED
    BY <2>1, FailsAll
<1> QED
  BY <1>4, <1>5

\* Every tensor is in range, or the load fails.
LEMMA ValidateRangesKeeps ==
  ASSUME LoadInv, ValidateRanges
  PROVE  LoadInv' /\ (pc' \in Loads \/ (pc' = "failed" /\ heap' = {}))
<1> DEFINE ok == \A n \in 1 .. tensor_count :
                   tensors[n].offset % alignment = 0 /\ InRange(tensors[n])
<1>1. /\ pc = "ranges"
      /\ ok => /\ pc' = "loaded"
               /\ UNCHANGED <<file_size, cursor, kv_count, tensor_count, tensors, kv, stack>>
               /\ UNCHANGED <<alignment, tensor_data_offset, heap, linked, key>>
      /\ ~ ok => Fails
  BY DEF ValidateRanges, file, counts, memory, layout
<1>2. CASE ok
  <2>1. /\ pc' = "loaded"
        /\ UNCHANGED <<file_size, cursor, kv_count, tensor_count, tensors, kv, stack>>
        /\ UNCHANGED <<alignment, tensor_data_offset, heap, linked, key>>
    BY <1>1, <1>2
  <2>2. \A n \in 1 .. tensor_count' :
          tensors'[n].offset % alignment' = 0 /\ InRange(tensors[n])'
    BY <1>2, <2>1 DEF InRange
  <2>3. LayoutInv
    BY DEF LoadInv
  <2>4. LayoutInv'
    BY <1>1, <2>1, <2>2, <2>3 DEF LayoutInv, Loads
  <2>5. HeapInv' /\ StackInv'
    BY <1>1, <2>1, SameMemory
  <2>6. LoadInv'
    BY <2>4, <2>5 DEF LoadInv
  <2>7. pc' \in Loads
    BY <2>1 DEF Loads
  <2> QED
    BY <2>6, <2>7
<1>3. CASE ~ ok
  <2>1. Fails /\ pc # "type"
    BY <1>1, <1>3
  <2> QED
    BY <2>1, FailsAll
<1> QED
  BY <1>2, <1>3

\* The mapping is there.
LEMMA MappedKeeps ==
  ASSUME LoadInv, NEW size \in 0 .. SizeMax, Mapped(size)
  PROVE  LoadInv' /\ pc' \in Loads /\ file_size' = size
<1>1. /\ pc = "map" /\ pc' = "header" /\ file_size' = size
      /\ UNCHANGED <<cursor, kv_count, tensor_count, tensors, kv, stack>>
      /\ UNCHANGED <<heap, linked, key>>
  BY DEF Mapped, counts, memory
<1>2. LayoutInv /\ cursor = 0 /\ SizeMax \in Nat /\ size \in Nat
  BY <1>1, GgufAssumption DEF LoadInv, LayoutInv
<1>3. cursor' \in 0 .. file_size'
  BY <1>1, <1>2
<1>4. LayoutInv'
  BY <1>1, <1>2, <1>3 DEF LayoutInv, Loads
<1>5. HeapInv'
  BY <1>1, SameHeap DEF LoadInv, HeapInv
<1>6. StackInv'
  BY <1>1 DEF LoadInv, StackInv
<1> QED
  BY <1>1, <1>4, <1>5, <1>6 DEF LoadInv, Loads

\* Every step of the load and gguf_free keep the invariant, and when they are over
\* every block is freed.
LEMMA LoadStepKeeps ==
  ASSUME LoadInv, LoadStep
  PROVE  LoadInv' /\ (pc' \in Loads \/ (pc' \in {"failed", "freed"} /\ heap' = {}))
         /\ pc \in Loads
<1>1. MaxKv \in Nat /\ MaxTensors \in Nat /\ MaxLen \in Nat /\ AlignmentValues \subseteq Nat
  BY GgufAssumption
<1>2. ASSUME NEW nkv \in 0 .. MaxKv, NEW nt \in 0 .. MaxTensors, Header(nkv, nt)
      PROVE  LoadInv' /\ pc' \in Loads /\ pc \in Loads
  <2>1. nkv \in Nat /\ nt \in Nat
    BY <1>1
  <2> QED
    BY <1>2, <2>1, HeaderKeeps DEF Header, Loads
<1>3. ASSUME HeaderFails \/ ReadKeyFails \/ UnwindDone \/ TensorsFail \/ DescriptorFails
      PROVE  LoadInv' /\ pc' = "failed" /\ heap' = {} /\ pc \in Loads
  <2>1. Fails /\ pc # "type" /\ pc \in Loads
    BY <1>3 DEF HeaderFails, ReadKeyFails, UnwindDone, TensorsFail, DescriptorFails, Loads
  <2> QED
    BY <2>1, FailsAll
<1>4. ASSUME ReadKey PROVE LoadInv' /\ pc' \in Loads /\ pc \in Loads
  BY <1>4, ReadKeyKeeps DEF ReadKey, Loads
<1>5. ASSUME NEW k \in {"general.alignment", "other"}, ReadType(k)
      PROVE  LoadInv' /\ pc' \in Loads /\ pc \in Loads
  BY <1>5, ReadTypeKeeps DEF ReadType, Loads
<1>6. ASSUME ReadTypeFails
      PROVE  LoadInv' /\ pc' = "failed" /\ heap' = {} /\ pc \in Loads
  <2>1. pc = "type" /\ pc' = "failed" /\ Frees(key)
    BY <1>6 DEF ReadTypeFails
  <2> QED
    BY <2>1, FreesAll DEF Loads
<1>7. ASSUME NEW n \in AlignmentValues, ParseScalar(n)
      PROVE  LoadInv' /\ pc' \in Loads /\ pc \in Loads
  <2>1. n \in Nat
    BY <1>1
  <2> QED
    BY <1>7, <2>1, ParseScalarKeeps DEF ParseScalar, Loads
<1>8. ASSUME ParseString PROVE LoadInv' /\ pc' \in Loads /\ pc \in Loads
  BY <1>8, ParseStringKeeps DEF ParseString, Loads
<1>9. ASSUME NEW elem \in {"u32", "string", "array"}, NEW len \in 0 .. MaxLen,
             ParseArray(elem, len)
      PROVE  LoadInv' /\ pc' \in Loads /\ pc \in Loads
  <2>1. len \in Nat
    BY <1>1
  <2> QED
    BY <1>9, <2>1, ParseArrayKeeps DEF ParseArray, Loads
<1>10. ASSUME ArrayDone PROVE LoadInv' /\ pc' \in Loads /\ pc \in Loads
  BY <1>10, ArrayDoneKeeps DEF ArrayDone, Loads
<1>11. ASSUME ParseFails PROVE LoadInv' /\ pc' \in Loads /\ pc \in Loads
  BY <1>11, ParseFailsKeeps DEF ParseFails, Loads
<1>12. ASSUME Unwind PROVE LoadInv' /\ pc' \in Loads /\ pc \in Loads
  BY <1>12, UnwindKeeps DEF Unwind, Loads
<1>13. ASSUME AllocateTensors PROVE LoadInv' /\ pc' \in Loads /\ pc \in Loads
  BY <1>13, AllocateTensorsKeeps DEF AllocateTensors, Loads
<1>14. ASSUME ReadName PROVE LoadInv' /\ pc' \in Loads /\ pc \in Loads
  BY <1>14, ReadNameKeeps DEF ReadName, Loads
<1>15. ASSUME NEW storage \in StorageSizes, NEW offset \in Offsets, ReadShape(storage, offset)
       PROVE  LoadInv' /\ pc' \in Loads /\ pc \in Loads
  BY <1>15, ReadShapeKeeps DEF ReadShape, Loads
<1>16. ASSUME LayOut
       PROVE  LoadInv' /\ (pc' \in Loads \/ (pc' = "failed" /\ heap' = {})) /\ pc \in Loads
  BY <1>16, LayOutKeeps DEF LayOut, Loads
<1>17. ASSUME ValidateRanges
       PROVE  LoadInv' /\ (pc' \in Loads \/ (pc' = "failed" /\ heap' = {})) /\ pc \in Loads
  BY <1>17, ValidateRangesKeeps DEF ValidateRanges, Loads
<1>18. ASSUME Free PROVE LoadInv' /\ pc' = "freed" /\ heap' = {} /\ pc \in Loads
  <2>1. pc = "loaded" /\ pc' = "freed" /\ Frees({})
    BY <1>18 DEF Free
  <2>2. key = {}
    BY <2>1 DEF LoadInv, HeapInv
  <2> QED
    BY <2>1, <2>2, FreesAll DEF Loads
<1>19. CASE \/ HeaderFails \/ ReadKeyFails \/ ReadTypeFails \/ UnwindDone \/ TensorsFail
            \/ DescriptorFails \/ Free
  BY <1>3, <1>6, <1>18, <1>19
<1>20. CASE \/ \E nkv \in 0 .. MaxKv, nt \in 0 .. MaxTensors : Header(nkv, nt)
            \/ ReadKey
            \/ \E k \in {"general.alignment", "other"} : ReadType(k)
  BY <1>2, <1>4, <1>5, <1>20
<1>21. CASE \/ \E n \in AlignmentValues : ParseScalar(n)
            \/ ParseString
            \/ \E elem \in {"u32", "string", "array"}, len \in 0 .. MaxLen :
                 ParseArray(elem, len)
            \/ ArrayDone \/ ParseFails \/ Unwind
  BY <1>7, <1>8, <1>9, <1>10, <1>11, <1>12, <1>21
<1>22. CASE \/ AllocateTensors \/ ReadName
            \/ \E storage \in StorageSizes, offset \in Offsets : ReadShape(storage, offset)
  BY <1>13, <1>14, <1>15, <1>22
<1>23. CASE LayOut \/ ValidateRanges
  BY <1>16, <1>17, <1>23
<1> QED
  BY <1>19, <1>20, <1>21, <1>22, <1>23 DEF LoadStep
-----------------------------------------------------------------------------
\* A platform's steps, each of which may fail and gives back what it names.
LEMMA MapStepKeeps ==
  ASSUME MapInv, M!MapStep \/ M!Resize
  PROVE  MapInv'
<1>1. SizeMax \in Nat /\ FileSizes \subseteq Nat
  <2>1. SizeMax \in Nat /\ FileSizes \subseteq 1 .. SizeMax
    BY GgufAssumption
  <2>2. \A n \in 1 .. SizeMax : n \in Nat
    BY <2>1
  <2> QED
    BY <2>1, <2>2
<1>2. platform \in {"posix", "windows"} /\ disk \in Nat /\ stat \in Nat /\ view \in Nat
  BY DEF MapInv
<1>3. \A n \in Nat : M!AsSize(n) \in Nat /\ (n <= SizeMax => M!AsSize(n) = n)
  BY <1>1 DEF M!AsSize
<1>4. CASE M!Clear
  <2>1. /\ map_pc = "start" /\ out' = M!Zeroed
        /\ map_pc' = IF platform = "posix" THEN "open" ELSE "impl"
        /\ UNCHANGED <<platform, disk, stat, held, view>>
    BY <1>4 DEF M!Clear, M!Posix
  <2>2. held = {} /\ view = 0
    BY <2>1 DEF MapInv
  <2> QED
    BY <1>2, <2>1, <2>2 DEF MapInv
<1>5. CASE M!AllocateImpl
  <2>1. /\ platform = "windows" /\ map_pc = "impl" /\ UNCHANGED <<platform, disk, stat, out, view>>
        /\ \/ map_pc' = "open" /\ held' = held \cup {"impl"}
           \/ map_pc' = "failed" /\ held' = held
    BY <1>5 DEF M!AllocateImpl, M!Acquires, M!Fails, M!Windows
  <2>2. held = {} /\ view = 0 /\ out = M!Zeroed
    BY <2>1 DEF MapInv
  <2> QED
    BY <1>2, <2>1, <2>2 DEF MapInv
<1>6. CASE M!Open
  <2>1. /\ map_pc = "open" /\ UNCHANGED <<platform, disk, stat, out, view>>
        /\ \/ /\ map_pc' = "stat"
              /\ held' = held \cup {IF platform = "posix" THEN "fd" ELSE "handle"}
           \/ /\ map_pc' = "failed"
              /\ held' = held \ (IF platform = "posix" THEN {} ELSE {"impl"})
    BY <1>6 DEF M!Open, M!Acquires, M!Fails, M!Posix
  <2>2. held = (IF platform = "posix" THEN {} ELSE {"impl"}) /\ view = 0 /\ out = M!Zeroed
    BY <1>2, <2>1 DEF MapInv
  <2> QED
    BY <1>2, <2>1, <2>2 DEF MapInv
<1>7. CASE M!Stat
  <2>1. /\ map_pc = "stat" /\ UNCHANGED <<platform, disk, out, view>>
        /\ \/ /\ map_pc' = IF platform = "posix" THEN "map" ELSE "mapping"
              /\ stat' = disk /\ held' = held
           \/ /\ map_pc' = "failed" /\ stat' = stat
              /\ held' = held \ (IF platform = "posix" THEN {"fd"} ELSE {"handle", "impl"})
    BY <1>7 DEF M!Stat, M!Fails, M!Posix
  <2>2. held = (IF platform = "posix" THEN {"fd"} ELSE {"impl", "handle"}) /\ view = 0
        /\ out = M!Zeroed
    BY <1>2, <2>1 DEF MapInv
  <2> QED
    BY <1>2, <2>1, <2>2 DEF MapInv
<1>8. CASE M!CreateMapping
  <2>1. /\ platform = "windows" /\ map_pc = "mapping"
        /\ UNCHANGED <<platform, disk, stat, out, view>>
        /\ \/ map_pc' = "map" /\ held' = held \cup {"mapping"}
           \/ map_pc' = "failed" /\ held' = held \ {"handle", "impl"}
    BY <1>8 DEF M!CreateMapping, M!Acquires, M!Fails, M!Windows
  <2>2. held = {"impl", "handle"} /\ view = 0 /\ out = M!Zeroed /\ stat = disk
    BY <2>1 DEF MapInv
  <2> QED
    BY <1>2, <2>1, <2>2 DEF MapInv
<1>9. CASE M!Map
  <2>1. /\ map_pc = "map" /\ UNCHANGED <<platform, disk, stat, out>>
        /\ \/ /\ map_pc' = IF platform = "posix" THEN "impl" ELSE "fill"
              /\ held' = held \cup {"view"} /\ view' \in 1 .. SizeMax
              /\ view' = IF platform = "posix" THEN M!AsSize(stat) ELSE disk
           \/ /\ map_pc' = "failed" /\ view' = view
              /\ held' = held \ (IF platform = "posix" THEN {"fd"}
                                 ELSE {"mapping", "handle", "impl"})
    BY <1>9 DEF M!Map, M!Acquires, M!Fails, M!Posix
  <2>2. held = (IF platform = "posix" THEN {"fd"} ELSE {"impl", "handle", "mapping"})
        /\ view = 0 /\ out = M!Zeroed /\ (platform = "windows" => stat = disk)
    BY <1>2, <2>1 DEF MapInv
  <2>3. map_pc' # "failed" => view' = M!AsSize(stat')
    BY <1>1, <1>2, <1>3, <2>1, <2>2
  <2> QED
    BY <1>1, <1>2, <2>1, <2>2, <2>3 DEF MapInv
<1>10. CASE M!KeepDescriptor
  <2>1. /\ platform = "posix" /\ map_pc = "impl" /\ UNCHANGED <<platform, disk, stat, out>>
        /\ \/ map_pc' = "fill" /\ held' = held \cup {"impl"} /\ view' = view
           \/ map_pc' = "failed" /\ held' = held \ {"view", "fd"} /\ view' = 0
    BY <1>10 DEF M!KeepDescriptor, M!Acquires, M!Fails, M!Posix
  <2>2. held = {"fd", "view"} /\ view = M!AsSize(stat) /\ out = M!Zeroed
    BY <2>1 DEF MapInv
  <2>3. M!AsSize(stat') = M!AsSize(stat)
    BY <2>1
  <2> QED
    BY <1>2, <2>1, <2>2, <2>3 DEF MapInv
<1>11. CASE M!Fill
  <2>1. /\ map_pc = "fill" /\ map_pc' = "mapped" /\ UNCHANGED <<platform, disk, stat, held, view>>
        /\ out' = [points |-> {"view", "impl"}, size |-> M!AsSize(stat)]
    BY <1>11 DEF M!Fill
  <2>2. view = M!AsSize(stat)
        /\ held = (IF platform = "posix" THEN {"fd", "view", "impl"}
                   ELSE {"impl", "handle", "mapping", "view"})
    BY <1>2, <2>1 DEF MapInv
  <2>3. M!AsSize(stat') = M!AsSize(stat)
    BY <2>1
  <2> QED
    BY <1>2, <2>1, <2>2, <2>3 DEF MapInv
<1>12. CASE M!Resize
  <2>1. /\ "handle" \notin held /\ disk' \in Nat
        /\ UNCHANGED <<platform, map_pc, stat, held, view, out>>
    BY <1>1, <1>12 DEF M!Resize
  <2>2. M!AsSize(stat') = M!AsSize(stat)
    BY <2>1
  <2>3. platform = "windows" => map_pc \notin {"mapping", "map"}
    BY <2>1 DEF MapInv
  <2> QED
    BY <2>1, <2>2, <2>3 DEF MapInv
<1> QED
  BY <1>4, <1>5, <1>6, <1>7, <1>8, <1>9, <1>10, <1>11, <1>12 DEF M!MapStep

\* After the unmapping of what is mapped, or was not, nothing is held.
LEMMA UnmapKeeps ==
  ASSUME MapInv, M!Unmap
  PROVE  MapInv' /\ map_pc' = "unmapped"
<1>1. /\ map_pc \in {"mapped", "failed", "unmapped"} /\ map_pc' = "unmapped" /\ out' = M!Zeroed
      /\ held' = IF "impl" \in out.points
                 THEN held \ ({"mapping", "fd", "handle", "impl"} \cup (out.points \cap {"view"}))
                 ELSE held
      /\ view' = IF "impl" \in out.points /\ "view" \in out.points THEN 0 ELSE view
      /\ UNCHANGED <<platform, disk, stat>>
  BY DEF M!Unmap
<1>2. held' = {} /\ view' = 0
  <2>1. CASE map_pc = "mapped"
    <3>1. out.points = {"view", "impl"}
      BY <2>1 DEF MapInv
    <3>2. held \subseteq {"mapping", "fd", "handle", "impl", "view"}
      BY <2>1 DEF MapInv
    <3> QED
      BY <1>1, <3>1, <3>2
  <2>2. CASE map_pc # "mapped"
    <3>1. held = {} /\ view = 0 /\ out = M!Zeroed
      BY <1>1, <2>2 DEF MapInv
    <3>2. out.points = {}
      BY <3>1 DEF M!Zeroed
    <3> QED
      BY <1>1, <3>1, <3>2
  <2> QED
    BY <2>1, <2>2
<1>3. platform \in {"posix", "windows"} /\ disk \in Nat /\ stat \in Nat
  BY DEF MapInv
<1> QED
  BY <1>1, <1>2, <1>3 DEF MapInv
-----------------------------------------------------------------------------
\* The size of the mapping is taken once.
LEMMA SizeTakenOnce ==
  ASSUME LoadStep, pc' \in Loads
  PROVE  file_size' = file_size
<1>1. pc' \notin {"failed", "freed"}
  BY DEF Loads
<1>2. ~ Fails
  BY <1>1 DEF Fails
<1>3. \A nkv, nt : Header(nkv, nt) => file_size' = file_size
  BY DEF Header
<1>4. ReadKey \/ (\E k : ReadType(k)) => file_size' = file_size
  BY DEF ReadKey, ReadType
<1>5. (\E n : ParseScalar(n)) \/ ParseString \/ (\E elem, len : ParseArray(elem, len))
        => file_size' = file_size
  BY DEF ParseScalar, ParseString, ParseArray
<1>6. ArrayDone \/ ParseFails \/ Unwind \/ AllocateTensors => file_size' = file_size
  BY DEF ArrayDone, ParseFails, Unwind, AllocateTensors, file
<1>7. ReadName \/ (\E storage, offset : ReadShape(storage, offset)) => file_size' = file_size
  BY DEF ReadName, ReadShape
<1>8. LayOut \/ ValidateRanges => file_size' = file_size
  BY <1>2 DEF LayOut, ValidateRanges, file
<1>9. ~ (HeaderFails \/ ReadKeyFails \/ ReadTypeFails \/ UnwindDone \/ TensorsFail
         \/ DescriptorFails \/ Free)
  BY <1>1, <1>2 DEF HeaderFails, ReadKeyFails, ReadTypeFails, UnwindDone, TensorsFail,
                    DescriptorFails, Free
<1> QED
  BY <1>3, <1>4, <1>5, <1>6, <1>7, <1>8, <1>9 DEF LoadStep

\* The invariant holds at first,
LEMMA InitInv == FileInit => Inv
<1> SUFFICES ASSUME FileInit PROVE Inv
  OBVIOUS
<1>1. /\ pc = "map" /\ file_size = 0 /\ cursor = 0 /\ kv_count = 0 /\ tensor_count = 0
      /\ kv = << >> /\ stack = << >> /\ tensors = << >>
      /\ heap = {} /\ linked = {} /\ key = {}
  BY DEF FileInit, Init
<1>2. /\ platform \in Platforms /\ map_pc = "start" /\ disk \in FileSizes /\ stat = 0
      /\ held = {} /\ view = 0
  BY DEF FileInit, M!Init
<1>3. SizeMax \in Nat /\ FileSizes \subseteq 1 .. SizeMax /\ Platforms \subseteq {"posix", "windows"}
  BY GgufAssumption, GgufFileAssumption
<1>4. LayoutInv
  BY <1>1, <1>3 DEF LayoutInv, Loads
<1>5. StackInv /\ HeapInv
  BY <1>1 DEF StackInv, HeapInv, Reachable
<1>6. disk \in Nat
  <2>1. disk \in 1 .. SizeMax
    BY <1>2, <1>3
  <2> QED
    BY <1>3, <2>1
<1>7. MapInv
  BY <1>2, <1>3, <1>6 DEF MapInv
<1> QED
  BY <1>1, <1>4, <1>5, <1>7 DEF Inv, LoadInv, Loads

\* and every step of the file keeps it.
LEMMA NextInv == Inv /\ [Next]_<<vars, mapping>> => Inv'
<1> SUFFICES ASSUME Inv, [Next]_<<vars, mapping>> PROVE Inv'
  OBVIOUS
<1>1. /\ LoadInv /\ MapInv
      /\ pc # "map" => map_pc \in {"mapped", "failed", "unmapped"}
      /\ pc = "failed" => map_pc \in {"failed", "unmapped"}
      /\ pc = "freed" => map_pc = "unmapped"
      /\ pc \in Loads => map_pc = "mapped" /\ file_size = view
  BY DEF Inv
<1>2. ASSUME UNCHANGED vars PROVE LoadInv'
  <2>1. /\ UNCHANGED <<pc, file_size, cursor, kv_count, tensor_count, kv, stack, tensors>>
        /\ UNCHANGED <<alignment, tensor_data_offset, heap, linked, key>>
    BY <1>2 DEF vars, file, counts, layout, memory
  <2>2. \A t : InRange(t)' <=> InRange(t)
    BY <2>1 DEF InRange
  <2>3. LayoutInv /\ StackInv /\ HeapInv
    BY <1>1 DEF LoadInv
  <2>4. LayoutInv'
    BY <2>1, <2>2, <2>3 DEF LayoutInv
  <2>5. StackInv'
    BY <2>1, <2>3 DEF StackInv
  <2>6. HeapInv'
    BY <2>1, <2>3, SameHeap DEF HeapInv
  <2> QED
    BY <2>4, <2>5, <2>6 DEF LoadInv
<1>3. ASSUME UNCHANGED mapping PROVE MapInv'
  <2>1. UNCHANGED <<platform, map_pc, disk, stat, held, view, out>>
    BY <1>3 DEF mapping
  <2>2. M!AsSize(stat') = M!AsSize(stat)
    BY <2>1
  <2> QED
    BY <1>1, <2>1, <2>2 DEF MapInv
<1>4. CASE Mapping
  <2>1. pc = "map" /\ (M!MapStep \/ M!Resize) /\ UNCHANGED vars
    BY <1>4 DEF Mapping
  <2>2. pc' = "map"
    BY <2>1 DEF vars
  <2>3. LoadInv' /\ MapInv'
    BY <1>1, <1>2, <2>1, MapStepKeeps
  <2> QED
    BY <2>2, <2>3 DEF Inv, Loads
<1>5. CASE MapFile
  <2>1. disk' = 0 /\ UNCHANGED <<platform, map_pc, stat, held, view, out>>
    BY <1>5 DEF MapFile
  <2>2. map_pc \in {"mapped", "failed"}
    BY <1>5 DEF MapFile
  <2>3. MapInv'
    <3>1. M!AsSize(stat') = M!AsSize(stat)
      BY <2>1
    <3> QED
      BY <1>1, <2>1, <2>2, <3>1 DEF MapInv
  <2>4. CASE map_pc = "mapped" /\ Mapped(out.size)
    <3>1. out.size = view
      BY <1>1, <2>4 DEF MapInv
    <3>2. view \in 0 .. SizeMax
      <4>1. view = M!AsSize(stat) /\ stat \in Nat
        BY <1>1, <2>4 DEF MapInv
      <4>2. SizeMax \in Nat
        BY GgufAssumption
      <4> QED
        BY <4>1, <4>2 DEF M!AsSize
    <3>3. LoadInv' /\ pc' \in Loads /\ file_size' = view
      BY <1>1, <2>4, <3>1, <3>2, MappedKeeps
    <3>4. pc' \notin {"map", "failed", "freed"}
      BY <3>3 DEF Loads
    <3> QED
      BY <2>1, <2>3, <2>4, <3>3, <3>4 DEF Inv
  <2>5. CASE map_pc = "failed" /\ NotMapped
    <3>1. Fails /\ pc = "map"
      BY <2>5 DEF NotMapped
    <3>2. LoadInv' /\ pc' = "failed"
      BY <1>1, <3>1, FailsAll
    <3> QED
      BY <2>1, <2>3, <2>5, <3>2 DEF Inv, Loads
  <2> QED
    BY <1>5, <2>4, <2>5 DEF MapFile
<1>6. CASE Loading
  <2>1. LoadStep /\ (IF pc' \in {"failed", "freed"} THEN M!Unmap ELSE UNCHANGED mapping)
    BY <1>6 DEF Loading
  <2>2. /\ LoadInv' /\ pc \in Loads
        /\ pc' \in Loads \/ (pc' \in {"failed", "freed"} /\ heap' = {})
    BY <1>1, <2>1, LoadStepKeeps
  <2>3. map_pc = "mapped" /\ file_size = view
    BY <1>1, <2>2
  <2>4. CASE pc' \in {"failed", "freed"}
    <3>1. MapInv' /\ map_pc' = "unmapped"
      BY <1>1, <2>1, <2>4, UnmapKeeps
    <3> QED
      BY <2>2, <2>4, <3>1 DEF Inv, Loads
  <2>5. CASE pc' \in Loads
    <3>1. pc' \notin {"map", "failed", "freed"}
      BY <2>5 DEF Loads
    <3>2. UNCHANGED mapping
      BY <2>1, <3>1
    <3>3. MapInv' /\ map_pc' = "mapped" /\ view' = view
      BY <1>3, <2>3, <3>2 DEF mapping
    <3>4. file_size' = file_size
      BY <2>1, <2>5, SizeTakenOnce
    <3> QED
      BY <2>2, <2>3, <3>1, <3>3, <3>4 DEF Inv
  <2> QED
    BY <2>2, <2>4, <2>5
<1>7. CASE UNCHANGED <<vars, mapping>>
  <2>1. UNCHANGED vars /\ UNCHANGED mapping
    BY <1>7
  <2>2. LoadInv' /\ MapInv'
    BY <1>2, <1>3, <2>1
  <2>3. pc' = pc /\ file_size' = file_size /\ map_pc' = map_pc /\ view' = view
    BY <2>1 DEF vars, mapping, file
  <2> QED
    BY <1>1, <2>2, <2>3 DEF Inv
<1> QED
  BY <1>4, <1>5, <1>6, <1>7 DEF Next, Done
-----------------------------------------------------------------------------
\* The state of a load and its mapping, at every step: what is allocated, what leads to
\* it, how far the file has been read and what the system has handed out.
THEOREM FileInv == Spec => []Inv
<1> QED
  BY InitInv, NextInv, PTL DEF Spec

\* A failed load and a freed file leave no block, descriptor or view, whatever the file
\* held and wherever it failed (gguf.c:254-263, 473-492, platform.c:16-79, 92-140).
THEOREM NothingLeaks == Spec => []AllReleased
<1>1. Inv => AllReleased
  <2> SUFFICES ASSUME Inv PROVE AllReleased
    OBVIOUS
  <2>1. EverythingFreed
    BY DEF Inv, LoadInv, HeapInv, EverythingFreed
  <2>2. M!NothingHeld
    BY DEF Inv, MapInv, M!NothingHeld
  <2>3. pc \in {"failed", "freed"} => held = {} /\ out = M!Zeroed
    BY DEF Inv, MapInv
  <2> QED
    BY <2>1, <2>2, <2>3 DEF AllReleased
<1> QED
  BY <1>1, FileInv, PTL

\* Every pointer of *out is to a block that is allocated, and together with the local key
\* they lead to all, at every step of the parsing and of its undoing, however deep the
\* arrays (gguf.c:219-227, 310-328, platform.c:57-79).
THEOREM PointersKept == Spec => []PointersExact
<1>1. Inv => PointersExact
  <2> SUFFICES ASSUME Inv PROVE PointersExact
    OBVIOUS
  <2>1. OwnershipExact
    BY DEF Inv, LoadInv, HeapInv, OwnershipExact
  <2>2. map_pc # "start" => out.points \subseteq held
    <3>1. CASE map_pc = "mapped"
      <4>1. out.points = {"view", "impl"}
        BY <3>1 DEF Inv, MapInv
      <4>2. "view" \in held /\ "impl" \in held
        BY <3>1 DEF Inv, MapInv
      <4> QED
        BY <4>1, <4>2
    <3>2. CASE map_pc # "mapped"
      BY <3>2 DEF Inv, MapInv, M!Zeroed
    <3> QED
      BY <3>1, <3>2
  <2> QED
    BY <2>1, <2>2 DEF PointersExact, M!PointsToHeld
<1> QED
  BY <1>1, FileInv, PTL

\* The bytes of a loaded tensor are in the mapping, whatever its offset and the width of a
\* size_t, and they are what the accessor hands out (gguf.c:423-466, 519-542,
\* platform.c:33-60, 100-124).
THEOREM TensorsInFile == Spec => []TensorsMapped
<1>1. Inv => TensorsMapped
  <2> SUFFICES ASSUME Inv PROVE TensorsMapped
    OBVIOUS
  <2>1. LayoutInv /\ MapInv
    BY DEF Inv, LoadInv
  <2>2. M!SizeIsMapped
    BY <2>1 DEF MapInv, M!SizeIsMapped
  <2>3. ASSUME pc = "loaded", NEW n \in 1 .. tensor_count
        PROVE  /\ tensor_data_offset >= cursor
               /\ tensor_data_offset + tensors[n].offset + tensors[n].storage <= file_size
               /\ (tensor_data_offset + tensors[n].offset) % alignment = 0
               /\ file_size = view
               /\ TensorData(tensors[n]) = {[at |-> tensor_data_offset + tensors[n].offset,
                                             size |-> tensors[n].storage]}
    <3>1. /\ file_size \in 0 .. SizeMax /\ cursor \in 0 .. file_size
          /\ tensor_data_offset \in cursor .. file_size
          /\ SizeMax \in Nat /\ tensor_count \in Nat /\ Offsets \subseteq Nat
      BY <2>1, <2>3, GgufAssumption DEF LayoutInv
    <3>2. tensors[n] \in Descriptors
      <4>1. tensors \in Seq(Descriptors) /\ n \in 1 .. Len(tensors)
        BY <2>1, <2>3 DEF LayoutInv
      <4> QED
        BY <4>1
    <3>3. tensors[n].offset % alignment = 0 /\ InRange(tensors[n])
      BY <2>1, <2>3 DEF LayoutInv
    <3>4. alignment \in Nat \ {0} /\ tensor_data_offset % alignment = 0
      BY <2>1, <2>3, <3>1 DEF LayoutInv
    <3>5. tensor_data_offset \in 0 .. file_size /\ tensor_data_offset \in Nat
          /\ tensor_data_offset >= cursor
      BY <3>1
    <3>6. /\ tensor_data_offset + tensors[n].offset + tensors[n].storage <= file_size
          /\ TensorData(tensors[n]) = {[at |-> tensor_data_offset + tensors[n].offset,
                                        size |-> tensors[n].storage]}
      BY <3>1, <3>2, <3>3, <3>5, RangeExact
    <3>7. tensors[n].offset \in Nat
      BY <3>1, <3>2 DEF Descriptors
    <3>8. (tensor_data_offset + tensors[n].offset) % alignment = 0
      BY <3>3, <3>4, <3>5, <3>7, DivisibleSum
    <3>9. file_size = view
      BY <2>3 DEF Inv, Loads
    <3> QED
      BY <3>5, <3>6, <3>8, <3>9
  <2>4. LoadedRangesValid
    BY <2>3 DEF LoadedRangesValid
  <2> QED
    BY <2>2, <2>3, <2>4 DEF TensorsMapped
<1> QED
  BY <1>1, FileInv, PTL
=============================================================================
