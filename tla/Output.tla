------------------------------- MODULE Output -------------------------------
(***************************************************************************)
(* From logits to the stream (src/tokenizer.c): the next token is drawn    *)
(* (Sampler), and its string is written (ByteSymbols).                     *)
(***************************************************************************)
EXTENDS Sampler

CONSTANTS Texts, Tokens   \* see ByteSymbols

VARIABLES write_pc, text, fed, piece, offset, written

writing == <<write_pc, text, fed, piece, offset, written>>
all     == <<vars, writing>>

Y == INSTANCE ByteSymbols WITH pc <- write_pc

ASSUME StringsAssumption == Y!StringsOfC

\* A token is written alike, however it was drawn: the only one there is stands for all.
WriteDrawn == pc = "done" /\ Len(logits) = 1 /\ top_k = 1 /\ Y!Called

Sampling == Step /\ UNCHANGED writing
Writing  == (WriteDrawn \/ Y!Step) /\ UNCHANGED vars
Ended    == /\ pc \in {"done", "refused"} /\ write_pc \in {"idle", "done", "failed"}
            /\ UNCHANGED all

OutputInit == Init /\ Y!Init
Next == Sampling \/ Writing \/ Ended

\* One thread that waits for nobody.
Spec == OutputInit /\ [][Next]_all /\ WF_all(Sampling)
-----------------------------------------------------------------------------
\* Bytes are bytes, and no place runs past its string (tokenizer.c:679-703).
TypeOK == Y!TypeOK

\* "translating byte-level BPE symbols back to bytes" (tokenizer.h:42).
SymbolsTranslatedBack == Y!SymbolsTranslatedBack

\* A text without bytes 128 to 159 comes back (tokenizer.c:283-289, 316-335).
SymbolsTranslatedBackOutsideGap == Y!SymbolsTranslatedBackOutsideGap

\* A token of plain ASCII is written as it stands (tokenizer.c:690-697).
AsciiUnchanged == Y!AsciiUnchanged
=============================================================================
