-------------------------------- MODULE Bpe --------------------------------
(***************************************************************************)
(* encode_segment (src/tokenizer.c): the bytes of a segment, written as    *)
(* symbols (ByteSymbols has how), become one token each, and pairs of      *)
(* neighbours are merged, the lowest rank first, looked up in the tables   *)
(* that Vocabulary builds.  The ids are appended to the caller's array.    *)
(***************************************************************************)
EXTENDS Integers, SequencesExt

VARIABLES ids, merges, pairs,   \* the vocabulary's tables
          pc,
          segment,              \* a sequence of symbols
          base,                 \* what the caller's array held before
          pieces,               \* the tokens the segment is at the moment
          token_ids             \* the caller's array

tables == <<ids, merges, pairs>>
locals == <<pc, segment, base, pieces>>

Init == pc = "idle" /\ segment = << >> /\ base = 0 /\ pieces = << >>

Call(symbols) ==
  /\ pc = "idle" /\ pc' = "symbols"
  /\ segment' = symbols /\ base' = Len(token_ids) /\ pieces' = << >>

AddSymbol ==
  /\ pc = "symbols" /\ Len(pieces) < Len(segment)
  /\ LET symbol == <<segment[Len(pieces) + 1]>>
     IN symbol \in DOMAIN ids /\ pieces' = Append(pieces, ids[symbol])
  /\ UNCHANGED <<pc, segment, base, token_ids>>

Clear == pc' = "idle" /\ segment' = << >> /\ base' = 0 /\ pieces' = << >>

\* The symbol is no token, or an array cannot grow.  What has been appended
\* stays, for the caller to free with the rest.
Fail ==
  /\ \/ pc = "symbols" /\ Len(pieces) < Len(segment)
     \/ pc = "append" /\ Len(token_ids) < base + Len(pieces)
  /\ Clear

SymbolsDone ==
  /\ pc = "symbols" /\ Len(pieces) = Len(segment)
  /\ pc' = "merge"
  /\ UNCHANGED <<segment, base, pieces, token_ids>>

\* Where two neighbours have a merge, and its rank.
Mergeable == {i \in 1 .. Len(pieces) - 1 : <<pieces[i], pieces[i + 1]>> \in DOMAIN pairs}
Rank(i) == pairs[<<pieces[i], pieces[i + 1]>>]

\* Mutant: <= in the comparison of ranks would take the last of equal pairs.
IsBestLast(i) ==
  /\ i \in Mergeable
  /\ \A j \in Mergeable : Rank(i) < Rank(j) \/ (Rank(i) = Rank(j) /\ i >= j)

\* The lowest rank, and the first of equal pairs.
IsBest(i) ==
  /\ i \in Mergeable
  /\ \A j \in Mergeable : Rank(i) < Rank(j) \/ (Rank(i) = Rank(j) /\ i <= j)

\* Mutant: one piece too few is moved down.
MergeDropsLast(i) ==
  /\ pc = "merge" /\ IsBest(i)
  /\ pieces' = SubSeq(pieces, 1, i - 1) \o <<merges[Rank(i) + 1].merged>>
                 \o SubSeq(pieces, i + 2, Len(pieces) - 1)
  /\ UNCHANGED <<pc, segment, base, token_ids>>

Merge(i) ==
  /\ pc = "merge" /\ IsBest(i)
  /\ pieces' = SubSeq(pieces, 1, i - 1) \o <<merges[Rank(i) + 1].merged>>
                 \o SubSeq(pieces, i + 2, Len(pieces))
  /\ UNCHANGED <<pc, segment, base, token_ids>>

\* Mutant: the loop is left with two pieces, not one.
MergesDoneEarly ==
  /\ pc = "merge" /\ (Len(pieces) <= 2 \/ Mergeable = {})
  /\ pc' = "append"
  /\ UNCHANGED <<segment, base, pieces, token_ids>>

MergesDone ==
  /\ pc = "merge" /\ Mergeable = {}
  /\ pc' = "append"
  /\ UNCHANGED <<segment, base, pieces, token_ids>>

AppendId ==
  /\ pc = "append" /\ Len(token_ids) < base + Len(pieces)
  /\ token_ids' = Append(token_ids, pieces[Len(token_ids) - base + 1])
  /\ UNCHANGED locals

Appended == pc = "append" /\ Len(token_ids) = base + Len(pieces)

Return == Appended /\ Clear

Step == \/ AddSymbol \/ SymbolsDone \/ MergesDone \/ AppendId
        \/ \E i \in Mergeable : Merge(i)
-----------------------------------------------------------------------------
\* The merges of a trained vocabulary: what a merge joins is a symbol or was
\* made by merges of lower ranks only.
Trained ==
  \A q, r \in 1 .. Len(merges) :
    merges[q].merged \in {merges[r].left, merges[r].right} => q < r

\* All of a pair, from left to right.
Joined(out, id, merge) ==
  IF out # << >> /\ Last(out) = merge.left /\ id = merge.right
  THEN Append(Front(out), merge.merged) ELSE Append(out, id)
Sweep(done, merge) == FoldLeft(LAMBDA out, id : Joined(out, id, merge), << >>, done)

\* Byte pair encoding as it is defined for such a vocabulary: the merges are
\* applied one after the other by rank, each wherever it can be.
Encoded(done) == FoldLeft(Sweep, done, merges)
Reference     == Encoded([n \in 1 .. Len(segment) |-> ids[<<segment[n]>>]])

\* Merging one pair at a time, and looking for the best again each time, comes
\* to the same tokens as the definition, whatever the order that equal and
\* overlapping pairs are met in, and leaves no pair to merge (tokenizer.c:373-401).
MatchesReference ==
  Appended => /\ Mergeable = {}
              /\ Trained => SubSeq(token_ids, base + 1, Len(token_ids)) = Reference
=============================================================================
