------------------------------ MODULE Tokenizer ------------------------------
(***************************************************************************)
(* A tokenizer in use (src/tokenizer.c): it is built from a file and texts *)
(* are encoded with it, one segment after the other, until it is freed.    *)
(* Characters are what matters of the bytes of a text, and symbols what    *)
(* ByteSymbols makes of them.                                              *)
(***************************************************************************)
EXTENDS Integers, SequencesExt

CONSTANTS Files, Texts(_)   \* see Vocabulary; what is encoded with a file

\* Names of the symbols below are not themselves characters.
ASSUME TokenizerAssumption ==
  \A f \in Files :
    /\ {f.tokens, f.merges} \subseteq Seq(Seq(STRING)) /\ {f.bos, f.eos} \subseteq Int
    /\ \A t \in Texts(f) : t \in Seq(STRING \ {"[space]", "[tab]", "[newline]"})

VARIABLES pc, file, ids, merges, pairs, current, heap,          \* Vocabulary
          enc_pc, text, addBos, offset, end, next, parts,       \* encode
          seg_pc, segment, base, pieces,                        \* encode_segment
          token_ids

vocabulary == <<pc, file, ids, merges, pairs, current, heap>>
encoding   == <<enc_pc, text, addBos, offset, end, next, parts>>
segmenting == <<seg_pc, segment, base, pieces>>
vars       == <<vocabulary, encoding, segmenting, token_ids>>

V == INSTANCE Vocabulary
E == INSTANCE Encoding WITH pc <- enc_pc, bos <- {file.bos} \ {V!Absent}
B == INSTANCE Bpe WITH pc <- seg_pc
-----------------------------------------------------------------------------
Init == V!Init /\ E!Init /\ B!Init

BuildVocabulary == V!Step /\ UNCHANGED <<encoding, segmenting, token_ids>>

Idle == pc = "ready" /\ enc_pc = "idle"

FreeVocabulary == Idle /\ V!Free /\ UNCHANGED <<encoding, segmenting, token_ids>>

CallEncode ==
  /\ Idle /\ \E t \in Texts(file), b \in BOOLEAN : E!Call(t, b)
  /\ UNCHANGED <<vocabulary, segmenting>>

\* What stands for a character in a token: bytes that do not print have other symbols.
SymbolOf(c) ==
  CASE c = " " -> "[space]" [] c = "\t" -> "[tab]" [] c = "\n" -> "[newline]" [] OTHER -> c

\* encode calls encode_segment for the characters between offset and end.
EncodeStep ==
  /\ E!Step
  /\ IF E!Calling
     THEN B!Call([n \in 1 .. end' - offset' |-> SymbolOf(text[offset' + n - 1])])
     ELSE UNCHANGED segmenting
  /\ UNCHANGED vocabulary

SegmentStep == B!Step /\ UNCHANGED <<vocabulary, encoding>>

SegmentEncoded ==
  /\ E!SegmentEncoded
  /\ IF end > offset THEN B!Return ELSE UNCHANGED segmenting
  /\ UNCHANGED vocabulary

\* encode_segment returns false, or the marker's id cannot be appended.
SegmentFails ==
  /\ E!SegmentFails
  /\ \/ B!Fail
     \/ next > end /\ IF end > offset THEN B!Return ELSE UNCHANGED segmenting
  /\ UNCHANGED vocabulary

ReturnIds == E!Return /\ UNCHANGED <<vocabulary, segmenting>>

Step == BuildVocabulary \/ EncodeStep \/ SegmentStep \/ SegmentEncoded \/ SegmentFails \/ ReturnIds
Freed == pc = "closed" /\ UNCHANGED vars
Next == Step \/ CallEncode \/ FreeVocabulary \/ Freed

\* One thread that waits for nobody but its caller, who need not call.
Spec == Init /\ [][Next]_vars /\ WF_vars(Step)
-----------------------------------------------------------------------------
\* A failed or freed tokenizer leaves no memory and empty tables (tokenizer.c:136,
\* 150, 168-217, 233-258).
NothingLeft == V!NothingLeft

\* A tokenizer that is ready has read the whole file, and rightly (tokenizer.c:160-246).
TablesMatchFile == V!TablesMatchFile

InMarker(p) ==
  \E n \in 1 .. Len(parts) : parts[n].kind = "marker" /\ p \in parts[n].from .. parts[n].to - 1

\* What a position of the text is in the tokens: encode_segment takes symbols, a marker
\* is looked up as it stands.
SignAt(p) == IF InMarker(p) THEN text[p] ELSE SymbolOf(text[p])

\* The ids cover the text: the strings of the tokens behind the bos, joined, are the
\* symbols of the text up to where it was encoded, in the end of all of it, whatever
\* was cut and merged; a call that failed gives none.  (What the symbols are written
\* back as is Output's matter.)  (tokenizer.c:355-404, 576-672)
IdsCoverText ==
  /\ enc_pc \in {"encode", "done"} =>
       /\ addBos => token_ids # << >> /\ Head(token_ids) = file.bos
       /\ FlattenSeq([n \in 1 .. Len(token_ids) - (IF addBos THEN 1 ELSE 0) |->
                        file.tokens[token_ids[IF addBos THEN n + 1 ELSE n] + 1]])
            = [p \in 1 .. offset - 1 |-> SignAt(p)]
  /\ enc_pc = "done" => offset = Len(text) + 1
  /\ enc_pc \in {"failed", "no_segment"} => token_ids = << >>

\* Each segment becomes the tokens that byte pair encoding defines (tokenizer.c:373-401).
MatchesReference == B!MatchesReference

\* A marker in the text becomes its token (tokenizer.c:598-645).
MarkersKept == E!MarkersKept

\* Segments are words (tokenizer.c:477-545, 647-670).
WordsKept == E!WordsKept

\* The tokenizer is ready or refused in the end, and every call ends: in the end of
\* the text, or a failure, which if it is not one of memory or of a symbol without a
\* token is a text that is cut short (tokenizer.c:112-248, 373-384, 598-672).
CallsEnd == <>(pc \in {"ready", "closed"}) /\ E!CallsEnd

\* "The tokenizer follows the Qwen2/GPT-2 pre-tokenization pattern" (README.md:47-48):
\* none of its alternatives goes from a word over a blank to another.
DocumentedPattern == E!WordsApart
=============================================================================
