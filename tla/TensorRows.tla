----------------------------- MODULE TensorRows -----------------------------
(***************************************************************************)
(* The size of a tensor's data (src/ggml_types.c), and what mlmc_gemv and  *)
(* mlmc_dequantize_row (src/dequant.c) read of it.  Dimensions are         *)
(* uint64_t, sizes size_t: the same width, or on a 32-bit build not.       *)
(***************************************************************************)
EXTENDS Integers, FiniteSetsExt, SequencesExt

CONSTANTS SizeMax,    \* SIZE_MAX
          Types,      \* type -> [block |-> elements, bytes |-> of a block]
          Kernels,    \* types that can be decoded
          Shapes      \* sequences of one to four dimensions, none of them 0

ASSUME TensorRowsAssumption ==
  /\ SizeMax \in Nat /\ Kernels \subseteq DOMAIN Types
  /\ \A t \in DOMAIN Types : Types[t].block \in Nat \ {0} /\ Types[t].bytes \in 1 .. SizeMax
  /\ Shapes \subseteq Seq(Nat \ {0}) \ {<< >>}

AsSize(n) == n % (SizeMax + 1)
Overflow  == -1

\* Mutant: the product is compared with SIZE_MAX after it has wrapped.
TimesWrapped(count, n) == AsSize(count * n)

\* count * n, unless it is more than SIZE_MAX.
Times(count, n) ==
  IF count = Overflow \/ count > SizeMax \div n THEN Overflow ELSE AsSize(count * n)

\* ggml_tensor_storage_size: the size, or none for a partial block or an overflow.
\* The cast to size_t comes before the first check.
StorageSize(type, dims) ==
  LET t      == Types[type]
      blocks == FoldLeft(Times, AsSize(Head(dims) \div t.block), Tail(dims))
  IN  {size \in {Times(blocks, t.bytes)} : Head(dims) % t.block = 0 /\ size # Overflow}
-----------------------------------------------------------------------------
VARIABLES pc,
          type, dims,   \* of the tensor, as the file has them
          storage,      \* what the loader checked that the file holds of it
          row,
          read          \* positions of the bytes read

vars == <<pc, type, dims, storage, row, read>>

Init == /\ pc = "load"
        /\ type \in DOMAIN Types /\ dims \in Shapes
        /\ storage = 0 /\ row = 0 /\ read = {}

To(then) == pc' = then /\ UNCHANGED <<type, dims>>

Load ==
  /\ pc = "load"
  /\ IF StorageSize(type, dims) = {}
     THEN To("refused") /\ UNCHANGED storage
     ELSE To("loaded") /\ storage' \in StorageSize(type, dims)
  /\ UNCHANGED <<row, read>>

Columns == Head(dims)
Rows    == dims[2]

RowBytes == StorageSize(type, <<Columns>>)

\* A kernel goes block by block over the columns of one row.
RowAt(start) == start .. start + (Columns \div Types[type].block) * Types[type].bytes - 1

Gemv ==
  /\ pc = "loaded" /\ Len(dims) = 2
  /\ LET accepted == type \in Kernels /\ RowBytes # {} /\ StorageSize(type, dims) # {}
     IN  To(IF accepted THEN "gemv" ELSE "refused")
  /\ row' = 0 /\ read' = {}
  /\ UNCHANGED storage

\* Mutant: rows are counted from 1.
GemvRowFromOne ==
  /\ pc = "gemv" /\ row < Rows
  /\ \E bytes \in RowBytes : read' = read \cup RowAt((row + 1) * bytes)
  /\ row' = row + 1
  /\ UNCHANGED <<pc, type, dims, storage>>

GemvRow ==
  /\ pc = "gemv" /\ row < Rows
  /\ \E bytes \in RowBytes : read' = read \cup RowAt(row * bytes)
  /\ row' = row + 1
  /\ UNCHANGED <<pc, type, dims, storage>>

GemvDone == pc = "gemv" /\ row = Rows /\ To("multiplied") /\ UNCHANGED <<storage, row, read>>

\* mlmc_dequantize_row on what copy_embedding and the norms give it: the row of one
\* token, or a vector.
Vectors == CASE Len(dims) = 1 -> 1 [] Len(dims) = 2 -> Rows [] OTHER -> 0

DequantizeRow(n) ==
  /\ pc = "loaded" /\ type \in Kernels
  /\ \E bytes \in RowBytes : read' = RowAt(n * bytes)
  /\ row' = n
  /\ To("row") /\ UNCHANGED storage

Step == \/ Load \/ Gemv \/ GemvRow \/ GemvDone
        \/ \E n \in 0 .. Vectors - 1 : DequantizeRow(n)
-----------------------------------------------------------------------------
\* The size as a whole number, where it is at most SIZE_MAX.
Capped(product, n) == Min({product * n, SizeMax + 1})
Bytes == FoldLeft(Capped, Head(dims) \div Types[type].block, Append(Tail(dims), Types[type].bytes))
Whole == Head(dims) % Types[type].block = 0

\* "full overflow checking" (ggml_types.h:66-71): a size that is returned is the size,
\* and only what is too large or not in whole blocks is refused, in whatever order the
\* dimensions come, where size_t has the width of uint64_t (ggml_types.c:67-93).
SizeExact ==
  /\ pc \notin {"load", "refused"} => Whole /\ storage = Bytes
  /\ pc = "refused" => storage > 0 \/ ~Whole \/ Bytes > SizeMax

\* No kernel reads outside the bytes the loader checked that the file has, a product
\* reads all of them, and no byte for two rows: the size of a row times their number
\* is the size of the tensor, although the two are computed apart (dequant.c:72-83,
\* 127-206, model.c:365-372).
RowsExact ==
  /\ read \subseteq 0 .. storage - 1
  /\ pc = "gemv" => Cardinality(read) = row * Cardinality(RowAt(0))
  /\ pc = "multiplied" => read = 0 .. storage - 1
=============================================================================
