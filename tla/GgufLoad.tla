------------------------------ MODULE GgufLoad ------------------------------
(***************************************************************************)
(* gguf_load, gguf_free and the tensor accessor (src/gguf.c).  The file is *)
(* arbitrary: every field read has any value of a small set, and the file  *)
(* may end before any of them.  A heap block is named by where its pointer *)
(* belongs: <<"key", i>>, <<"value", i, j, ...>> for the string or items of *)
(* (nested) metadata, <<"name", i>>, the arrays <<"kv">> and <<"tensors">>. *)
(* Sizes are in bytes.  GgufFile composes this with the mapped file.       *)
(***************************************************************************)
EXTENDS Integers, Sequences, SequencesExt

CONSTANTS SizeMax,        \* SIZE_MAX
          FileSizes,      \* sizes of the mapped file
          MaxKv, MaxTensors, MaxLen, MaxDepth,   \* bounds on what a file holds
          AlignmentValues,  \* values of general.alignment
          Offsets,        \* tensor offsets
          StorageSizes    \* what ggml_tensor_storage_size may return

ASSUME GgufAssumption ==
  /\ SizeMax \in Nat /\ FileSizes \subseteq 1 .. SizeMax
  /\ {MaxKv, MaxTensors, MaxLen, MaxDepth} \subseteq Nat
  /\ AlignmentValues \subseteq Nat /\ Offsets \subseteq Nat
  /\ StorageSizes \subseteq 1 .. SizeMax

VARIABLES pc,
          file_size, cursor,          \* out->file.size; bytes consumed
          kv_count, tensor_count,     \* out->metadata_kv_count, tensor_count
          kv,                         \* metadata read: key and value
          stack,                      \* parse_value's calls on arrays
          tensors,                    \* descriptors read
          alignment, tensor_data_offset,
          heap,                       \* blocks allocated
          linked,                     \* blocks a pointer in *out leads to
          key                         \* gguf_load's local key, as a set

file   == <<file_size, cursor>>
counts == <<kv_count, tensor_count>>
layout == <<alignment, tensor_data_offset>>
memory == <<heap, linked, key>>
vars   == <<pc, file, counts, kv, stack, tensors, layout, memory>>

DefaultAlignment == 32
HeaderBytes == 24
StringBytes == 9    \* its length and one character
TensorBytes == 24   \* n_dims, one dimension, type and offset

remaining == file_size - cursor
-----------------------------------------------------------------------------
\* A value of alignment 0 or one that would overflow is SIZE_MAX.
AlignUp(offset, a) ==
  IF a = 0 THEN SizeMax
  ELSE IF offset % a = 0 THEN offset
  ELSE IF a - (offset % a) > SizeMax - offset THEN SizeMax
  ELSE offset + (a - (offset % a))

\* gguf_find: the first entry with the key.
Find(k) == {n \in 1 .. Len(kv) :
              kv[n].key = k /\ \A m \in 1 .. n - 1 : kv[m].key # k}

\* Mutant: the sums are compared without the overflow tests.
InRangeWraps(t) ==
  (tensor_data_offset + t.offset + t.storage) % (SizeMax + 1) <= file_size

\* gguf_load's check of a tensor's range, in size_t arithmetic.
InRange(t) ==
  /\ t.offset <= SizeMax - tensor_data_offset
  /\ LET abs_offset == (tensor_data_offset + t.offset) % (SizeMax + 1)
     IN /\ t.storage <= SizeMax - abs_offset
        /\ abs_offset + t.storage <= file_size

\* Mutant: a tensor may not reach the last byte.
TensorDataShort(t) ==
  LET abs_offset == (tensor_data_offset + t.offset) % (SizeMax + 1)
  IN  IF \/ t.offset > SizeMax - tensor_data_offset
         \/ t.storage > SizeMax - abs_offset
         \/ abs_offset + t.storage >= file_size
      THEN {} ELSE {[at |-> abs_offset, size |-> t.storage]}

\* gguf_tensor_data, which checks anew: where the bytes of t begin in the mapping and
\* how many they are, or nothing.
TensorData(t) ==
  LET abs_offset == (tensor_data_offset + t.offset) % (SizeMax + 1)
  IN  IF \/ t.offset > SizeMax - tensor_data_offset
         \/ t.storage > SizeMax - abs_offset
         \/ abs_offset + t.storage > file_size
      THEN {} ELSE {[at |-> abs_offset, size |-> t.storage]}

\* What gguf_free and free_value reach by following the pointers of *out.
Reachable ==
  {b \in linked :
     /\ b[1] \in {"key", "value"} => <<"kv">> \in linked
     /\ b[1] = "name" => <<"tensors">> \in linked
     /\ b[1] = "value" => \A n \in 2 .. Len(b) - 1 : SubSeq(b, 1, n) \in linked}

\* gguf_free(out) and what the failing branch frees besides.
Frees(others) ==
  /\ heap' = heap \ (Reachable \cup others)
  /\ linked' = {} /\ key' = {}
  /\ kv' = << >> /\ tensors' = << >> /\ stack' = << >>
  /\ kv_count' = 0 /\ tensor_count' = 0
  /\ alignment' = 0 /\ tensor_data_offset' = 0
  /\ file_size' = 0 /\ cursor' = 0

Fails == pc' = "failed" /\ Frees({})
-----------------------------------------------------------------------------
Init == /\ pc = "map" /\ file_size = 0 /\ cursor = 0
        /\ kv_count = 0 /\ tensor_count = 0
        /\ kv = << >> /\ stack = << >> /\ tensors = << >>
        /\ alignment = 0 /\ tensor_data_offset = 0
        /\ heap = {} /\ linked = {} /\ key = {}

\* mlmc_map_file has mapped so many bytes, or failed.
Mapped(size) ==
  /\ pc = "map"
  /\ pc' = "header" /\ file_size' = size
  /\ UNCHANGED <<cursor, counts, kv, stack, tensors, layout, memory>>

NotMapped == pc = "map" /\ Fails

Header(nkv, nt) ==
  /\ pc = "header"
  /\ HeaderBytes <= remaining
  /\ cursor' = HeaderBytes
  /\ kv_count' = nkv /\ tensor_count' = nt
  /\ IF nkv = 0
     THEN pc' = "tensors" /\ UNCHANGED <<heap, linked>>
     ELSE pc' = "key" /\ heap' = heap \cup {<<"kv">>}
                      /\ linked' = linked \cup {<<"kv">>}
  /\ UNCHANGED <<file_size, kv, stack, tensors, layout, key>>

\* Truncated, another magic or version, a count too large, or no memory.
HeaderFails == pc = "header" /\ Fails

\* The key string, still a local of gguf_load.
ReadKey ==
  /\ pc = "key"
  /\ IF Len(kv) = kv_count
     THEN pc' = "tensors" /\ UNCHANGED <<cursor, heap, key>>
     ELSE /\ StringBytes <= remaining
          /\ cursor' = cursor + StringBytes
          /\ key' = {<<"key", Len(kv)>>} /\ heap' = heap \cup key'
          /\ pc' = "type"
  /\ UNCHANGED <<file_size, counts, kv, stack, tensors, layout, linked>>

\* Truncated or no memory, or an empty key, which has been allocated.
ReadKeyFails ==
  /\ pc = "key" /\ Len(kv) < kv_count
  /\ Fails

\* The value's type follows; only then does *out own the key.
ReadType(k) ==
  /\ pc = "type"
  /\ 4 <= remaining
  /\ cursor' = cursor + 4
  /\ kv' = Append(kv, [key |-> k, type |-> "none", u32 |-> 0])
  /\ linked' = linked \cup key /\ key' = {}
  /\ pc' = "value"
  /\ UNCHANGED <<file_size, counts, stack, tensors, layout, heap>>

\* Mutant: the local key is forgotten.
ReadTypeFailsLeaks ==
  /\ pc = "type"
  /\ pc' = "failed" /\ Frees({})

ReadTypeFails ==
  /\ pc = "type"
  /\ pc' = "failed" /\ Frees(key)
-----------------------------------------------------------------------------
\* The value parse_value is at: an entry's own or the next item of an array.
Path == IF stack = << >> THEN <<"value", Len(kv) - 1>>
        ELSE Append(Last(stack).path, Last(stack).next)
MayBe(type) == stack # << >> => /\ Last(stack).elem = type
                                /\ Last(stack).next < Last(stack).len

\* One value is complete: its array goes on, or the next entry's key follows.
Returns(calls) ==
  IF calls = << >> THEN stack' = << >> /\ pc' = "key"
  ELSE /\ stack' = [calls EXCEPT ![Len(calls)].next = @ + 1]
       /\ pc' = "value"

SetValue(type, n) ==
  IF stack = << >>
  THEN kv' = [kv EXCEPT ![Len(kv)].type = type, ![Len(kv)].u32 = n]
  ELSE UNCHANGED kv

ParseScalar(n) ==
  /\ pc = "value" /\ MayBe("u32")
  /\ 4 <= remaining
  /\ cursor' = cursor + 4
  /\ SetValue("u32", n) /\ Returns(stack)
  /\ UNCHANGED <<file_size, counts, tensors, layout, memory>>

ParseString ==
  /\ pc = "value" /\ MayBe("string")
  /\ StringBytes <= remaining
  /\ cursor' = cursor + StringBytes
  /\ heap' = heap \cup {Path} /\ linked' = linked \cup {Path}
  /\ SetValue("string", 0) /\ Returns(stack)
  /\ UNCHANGED <<file_size, counts, tensors, layout, key>>

ParseArray(elem, len) ==
  /\ pc = "value" /\ MayBe("array")
  /\ 12 <= remaining
  /\ cursor' = cursor + 12
  /\ SetValue("array", 0)
  /\ IF len = 0
     THEN Returns(stack) /\ UNCHANGED <<heap, linked>>
     ELSE /\ stack' = Append(stack, [path |-> Path, elem |-> elem,
                                     len |-> len, next |-> 0])
          /\ heap' = heap \cup {Path} /\ linked' = linked \cup {Path}
          /\ UNCHANGED pc
  /\ UNCHANGED <<file_size, counts, tensors, layout, key>>

ArrayDone ==
  /\ pc = "value" /\ stack # << >> /\ Last(stack).next = Last(stack).len
  /\ Returns(Front(stack))
  /\ UNCHANGED <<file, counts, kv, tensors, layout, memory>>

\* A value cannot be read or allocated, or its type is unknown.
ParseFails ==
  /\ pc = "value"
  /\ stack # << >> => Last(stack).next < Last(stack).len
  /\ pc' = "unwind"
  /\ UNCHANGED <<file, counts, kv, stack, tensors, layout, memory>>

\* Mutant: the item array is freed without its items.
UnwindArrayOnly ==
  /\ pc = "unwind" /\ stack # << >>
  /\ heap' = heap \ {Last(stack).path} /\ linked' = linked \ {Last(stack).path}
  /\ stack' = Front(stack)
  /\ UNCHANGED <<pc, file, counts, kv, tensors, layout, key>>

\* Mutant: the pointer to the freed item array stays.
UnwindKeepsPointer ==
  /\ pc = "unwind" /\ stack # << >>
  /\ heap' = heap \ {Last(stack).path}
  /\ stack' = Front(stack)
  /\ UNCHANGED <<pc, file, counts, kv, tensors, layout, linked, key>>

\* Each parse_value on an array frees the items before the failing one and
\* the item array, and clears the pointer to it.
Unwind ==
  /\ pc = "unwind" /\ stack # << >>
  /\ LET call  == Last(stack)
         depth == Len(call.path)
         freed == {call.path} \cup
                  {b \in linked : /\ Len(b) > depth /\ SubSeq(b, 1, depth) = call.path
                                  /\ b[depth + 1] < call.next}
     IN heap' = heap \ freed /\ linked' = linked \ freed
  /\ stack' = Front(stack)
  /\ UNCHANGED <<pc, file, counts, kv, tensors, layout, key>>

UnwindDone == pc = "unwind" /\ stack = << >> /\ Fails
-----------------------------------------------------------------------------
AllocateTensors ==
  /\ pc = "tensors"
  /\ IF tensor_count = 0
     THEN pc' = "align" /\ UNCHANGED <<heap, linked>>
     ELSE /\ pc' = "name"
          /\ heap' = heap \cup {<<"tensors">>}
          /\ linked' = linked \cup {<<"tensors">>}
  /\ UNCHANGED <<file, counts, kv, stack, tensors, layout, key>>

TensorsFail == pc = "tensors" /\ tensor_count > 0 /\ Fails

\* t->name owns the string as soon as it is read.
ReadName ==
  /\ pc = "name" /\ Len(tensors) < tensor_count
  /\ StringBytes <= remaining
  /\ cursor' = cursor + StringBytes
  /\ heap' = heap \cup {<<"name", Len(tensors)>>}
  /\ linked' = linked \cup {<<"name", Len(tensors)>>}
  /\ pc' = "shape"
  /\ UNCHANGED <<file_size, counts, kv, stack, tensors, layout, key>>

\* Dimensions, type and offset; storage is what they amount to.
ReadShape(storage, offset) ==
  /\ pc = "shape"
  /\ TensorBytes <= remaining
  /\ cursor' = cursor + TensorBytes
  /\ tensors' = Append(tensors, [storage |-> storage, offset |-> offset])
  /\ pc' = "name"
  /\ UNCHANGED <<file_size, counts, kv, stack, layout, memory>>

DescriptorFails ==
  /\ \/ pc = "name" /\ Len(tensors) < tensor_count
     \/ pc = "shape"
  /\ Fails

\* general.alignment, and where the tensor data starts.
Alignment == IF Find("general.alignment") = {} THEN DefaultAlignment
             ELSE kv[CHOOSE n \in Find("general.alignment") : TRUE].u32
AlignmentValid ==
  \A n \in Find("general.alignment") :
     kv[n].type = "u32" /\ kv[n].u32 # 0 /\ kv[n].u32 % 8 = 0

LayOut ==
  /\ \/ pc = "align"
     \/ pc = "name" /\ Len(tensors) = tensor_count
  /\ IF /\ AlignmentValid
        /\ tensor_count > 0 => /\ AlignUp(cursor, Alignment) # SizeMax
                               /\ AlignUp(cursor, Alignment) <= file_size
     THEN /\ alignment' = Alignment
          /\ tensor_data_offset' = IF tensor_count > 0 THEN AlignUp(cursor, Alignment)
                                   ELSE cursor
          /\ pc' = "ranges"
          /\ UNCHANGED <<file, counts, kv, stack, tensors, memory>>
     ELSE Fails

\* The last loop: every tensor's byte range.
ValidateRanges ==
  /\ pc = "ranges"
  /\ IF \A n \in 1 .. tensor_count :
          tensors[n].offset % alignment = 0 /\ InRange(tensors[n])
     THEN /\ pc' = "loaded"
          /\ UNCHANGED <<file, counts, kv, stack, tensors, layout, memory>>
     ELSE Fails

Free == pc = "loaded" /\ pc' = "freed" /\ Frees({})

\* gguf_load once the file is mapped, and gguf_free.
LoadStep ==
  \/ \E nkv \in 0 .. MaxKv, nt \in 0 .. MaxTensors : Header(nkv, nt)
  \/ HeaderFails
  \/ ReadKey \/ ReadKeyFails
  \/ \E k \in {"general.alignment", "other"} : ReadType(k)
  \/ ReadTypeFails
  \/ \E n \in AlignmentValues : ParseScalar(n)
  \/ ParseString
  \/ /\ Len(stack) < MaxDepth
     /\ \E elem \in {"u32", "string", "array"}, len \in 0 .. MaxLen :
          ParseArray(elem, len)
  \/ ArrayDone \/ ParseFails \/ Unwind \/ UnwindDone
  \/ AllocateTensors \/ TensorsFail
  \/ ReadName
  \/ \E storage \in StorageSizes, offset \in Offsets : ReadShape(storage, offset)
  \/ DescriptorFails
  \/ LayOut \/ ValidateRanges
  \/ Free
-----------------------------------------------------------------------------
\* "Any failure at any stage frees everything allocated so far and returns
\* -1" (gguf.c:254-255), the unwinding of nested arrays and the key not yet
\* stored in *out included; gguf_free after a success leaves nothing either.
EverythingFreed == pc \in {"failed", "freed"} => heap = {}

\* Every pointer gguf_free would follow is to a block still allocated, and at
\* every point of the load, the unwinding of nested arrays included, it would
\* reach all blocks but the local key: no double free, no block only a lost
\* pointer knew (gguf.c:219-227, 310-328, 473-492).
OwnershipExact == linked = Reachable /\ heap = linked \cup key

\* After a load every tensor's bytes lie in the data section, aligned, and
\* inside the file, though offsets come from the file and size_t wraps
\* (gguf.c:423-466).
LoadedRangesValid ==
  pc = "loaded" =>
    \A n \in 1 .. tensor_count :
      /\ tensor_data_offset >= cursor
      /\ tensor_data_offset + tensors[n].offset + tensors[n].storage <= file_size
      /\ (tensor_data_offset + tensors[n].offset) % alignment = 0
=============================================================================
