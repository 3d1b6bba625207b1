------------------------------ MODULE Encoding ------------------------------
(***************************************************************************)
(* mlmc_tokenizer_encode (src/tokenizer.c): the text is cut into segments, *)
(* each encoded on its own (by Bpe), and markers, which are tokens written *)
(* "<|...|>", are taken whole.  Positions count characters from 1, and     *)
(* offset is the next one to encode.  Letters stand for either case.       *)
(***************************************************************************)
EXTENDS Integers, SequencesExt, FiniteSetsExt

VARIABLES ids, bos,      \* the vocabulary's: texts to ids; the token as a set, or {}
          pc, text, addBos,
          offset,
          end, next,     \* of the segment being encoded, and of a marker behind it
          parts,         \* what was encoded: [kind, from, to], to excluded
          token_ids      \* what the caller gets

locals == <<pc, text, addBos, offset, end, next, parts>>

Init == /\ pc = "idle" /\ text = << >> /\ addBos = FALSE
        /\ offset = 1 /\ end = 1 /\ next = 1
        /\ parts = << >> /\ token_ids = << >>

Call(t, b) ==
  /\ pc = "idle" /\ pc' = "start" /\ text' = t /\ addBos' = b
  /\ UNCHANGED <<offset, end, next, parts, token_ids>>

Part(kind, from, to) == [kind |-> kind, from |-> from, to |-> to]

Start ==
  /\ pc = "start" /\ (addBos => bos # {})
  /\ pc' = "encode"
  /\ token_ids' = IF addBos THEN SetToSeq(bos) ELSE << >>
  /\ UNCHANGED <<text, addBos, offset, end, next, parts>>
-----------------------------------------------------------------------------
Spaces   == {" ", "\t", "\n"}
Newlines == {"\n"}
Digits   == {"0", "1"}
Others   == {"<", "|", ">", "'", "!"}
Cut      == "cut"       \* a first byte with too few bytes behind it
Letters  == {"a", "d", "e", "l", "m", "r", "s", "t", "v"}

\* The first position from p on that has no character of the class.
Past(class, p) == Min({k \in p .. Len(text) : text[k] \notin class} \cup {Len(text) + 1})

\* Blanks, up to the first newline behind the first of them.
SpacesEnd(p) ==
  LET past == Past(Spaces, p)
  IN  Min({k + 1 : k \in {n \in p + 1 .. past - 1 : text[n] \in Newlines}} \cup {past})

\* Mutant: a word goes on over the blanks behind it.
RunEndOverBlanks(p) ==
  CASE text[p] = Cut        -> p
    [] text[p] \in Spaces   -> SpacesEnd(p)
    [] text[p] \in Digits   -> Min({Past(Digits, p), p + 3})
    [] text[p] \in Letters  -> Past(Letters \cup {" "}, p)
    [] OTHER                -> Past(Newlines, Past(Others, p))

\* Mutant: width >= length - offset, so that the last character counts as cut.
RunEndLastCut(p) ==
  CASE text[p] = Cut \/ p = Len(text) -> p
    [] text[p] \in Spaces   -> SpacesEnd(p)
    [] text[p] \in Digits   -> Min({Past(Digits, p), p + 3})
    [] text[p] \in Letters  -> Past(Letters, p)
    [] OTHER                -> Past(Newlines, Past(Others, p))

\* Mutant: words are cut like numbers.
RunEndThrees(p) ==
  CASE text[p] = Cut        -> p
    [] text[p] \in Spaces   -> SpacesEnd(p)
    [] text[p] \in Digits   -> Min({Past(Digits, p), p + 3})
    [] text[p] \in Letters  -> Min({Past(Letters, p), p + 3})
    [] OTHER                -> Past(Newlines, Past(Others, p))

\* segment_end from a position it takes no space at.
RunEnd(p) ==
  CASE text[p] = Cut        -> p
    [] text[p] \in Spaces   -> SpacesEnd(p)
    [] text[p] \in Digits   -> Min({Past(Digits, p), p + 3})
    [] text[p] \in Letters  -> Past(Letters, p)
    [] OTHER                -> Past(Newlines, Past(Others, p))

\* One space belongs to what comes behind it.
LeadingSpace(p) ==
  text[p] = " " /\ p < Len(text) /\ text[p + 1] \notin {" "} \cup Newlines

SegmentEnd(p) == IF LeadingSpace(p) THEN RunEnd(p + 1) ELSE RunEnd(p)

Contractions == {<<"'", "s">>, <<"'", "t">>, <<"'", "r", "e">>, <<"'", "v", "e">>,
                 <<"'", "m">>, <<"'", "l", "l">>, <<"'", "d">>}
IsAt(word, p) == p + Len(word) <= Len(text) + 1 /\ SubSeq(text, p, p + Len(word) - 1) = word

ContractionEnds(p) == {p + Len(c) : c \in {d \in Contractions : IsAt(d, p)}}

\* Where strstr finds "<|", and the "|>" that closes it.
Opens(p)  == {k \in p .. Len(text) - 1 : IsAt(<<"<", "|">>, k)}
Closes(p) == {k \in p .. Len(text) - 1 : IsAt(<<"|", ">">>, k)}

\* Mutant: the end is looked for from the last "<|", not the first.
MarkerLast ==
  LET open == Max(Opens(offset)) IN
  {m \in {<<open, close + 2>> : close \in Closes(open + 2)} :
     /\ \A k \in Closes(open + 2) : m[2] <= k + 2
     /\ SubSeq(text, m[1], m[2] - 1) \in DOMAIN ids}

\* From the first "<|" to the first "|>" behind it, if that is a token.
Marker ==
  LET open == Min(Opens(offset)) IN
  {m \in {<<open, close + 2>> : close \in Closes(open + 2)} :
     /\ \A k \in Closes(open + 2) : m[2] <= k + 2
     /\ SubSeq(text, m[1], m[2] - 1) \in DOMAIN ids}

HasMarker == Opens(offset) # {} /\ Marker # {}
-----------------------------------------------------------------------------
Encoding == pc = "encode" /\ offset <= Len(text)

\* encode_segment is called for what is before to; a marker, up to behind, follows.
Encode(to, behind) ==
  /\ pc' = "segment" /\ end' = to /\ next' = behind
  /\ UNCHANGED <<text, addBos, offset, parts, token_ids>>

\* Mutant: what comes before the marker is dropped.
EncodeMarkerOnly ==
  /\ Encoding /\ HasMarker
  /\ \E m \in Marker : /\ pc' = "segment" /\ end' = m[1] /\ next' = m[2] /\ offset' = m[1]
                       /\ UNCHANGED <<text, addBos, parts, token_ids>>

\* All before the marker, if anything is, is one segment.
EncodeMarker ==
  /\ Encoding /\ HasMarker
  /\ \E m \in Marker : Encode(m[1], m[2])

\* "<|" begins no marker, and all before it is one segment too.
EncodeToOpen ==
  /\ Encoding /\ ~HasMarker
  /\ Opens(offset) # {} /\ offset \notin Opens(offset)
  /\ Encode(Min(Opens(offset)), Min(Opens(offset)))

PlainText == Encoding /\ ~HasMarker /\ (Opens(offset) = {} \/ offset \in Opens(offset))
Contracted == text[offset] = "'" /\ ContractionEnds(offset) # {}

EncodeContraction ==
  /\ PlainText /\ Contracted
  /\ \E to \in ContractionEnds(offset) : Encode(to, to)

EncodeSegment ==
  /\ PlainText /\ ~Contracted /\ SegmentEnd(offset) > offset
  /\ Encode(SegmentEnd(offset), SegmentEnd(offset))

Calling == pc' = "segment" /\ pc # "segment" /\ end' > offset'

\* encode_segment, if it was called, has returned true; the marker's token is appended.
SegmentEncoded ==
  /\ pc = "segment" /\ pc' = "encode" /\ offset' = next
  /\ parts' = parts \o (IF end = offset THEN << >> ELSE <<Part("segment", offset, end)>>)
                    \o (IF next = end THEN << >> ELSE <<Part("marker", end, next)>>)
  /\ token_ids' = token_ids \o (IF next = end THEN << >>
                                ELSE <<ids[SubSeq(text, end, next - 1)]>>)
  /\ UNCHANGED <<text, addBos, end, next>>

\* Nothing is kept: the array is freed and the outputs zeroed.
GiveUp(why) ==
  /\ pc' = why /\ parts' = << >> /\ token_ids' = << >>
  /\ offset' = 1 /\ end' = 1 /\ next' = 1
  /\ UNCHANGED <<text, addBos>>

NoBos        == pc = "start" /\ addBos /\ GiveUp("failed")   \* none, or no memory
NoSegment    == PlainText /\ ~Contracted /\ SegmentEnd(offset) <= offset /\ GiveUp("no_segment")
SegmentFails == pc = "segment" /\ GiveUp("failed")

Encoded == /\ pc = "encode" /\ offset > Len(text)
           /\ pc' = "done"
           /\ UNCHANGED <<text, addBos, offset, end, next, parts, token_ids>>

\* The caller has used and freed what it got.
Return == /\ pc \in {"done", "failed", "no_segment"} /\ pc' = "idle"
          /\ text' = << >> /\ addBos' = FALSE
          /\ offset' = 1 /\ end' = 1 /\ next' = 1
          /\ parts' = << >> /\ token_ids' = << >>

Step == \/ Start \/ EncodeMarker \/ EncodeToOpen \/ EncodeContraction \/ EncodeSegment
        \/ NoBos \/ NoSegment \/ Encoded
-----------------------------------------------------------------------------
\* Tokens that text can hold as markers.
Markers ==
  {t \in DOMAIN ids :
     /\ Len(t) > 3 /\ SubSeq(t, 1, 2) = <<"<", "|">>
     /\ {k \in 3 .. Len(t) - 1 : SubSeq(t, k, k + 1) = <<"|", ">">>} = {Len(t) - 1}}

\* A marker in the text that is not a part of another one becomes its one token,
\* whatever comes before it: also an unfinished or unknown "<|", if more than
\* punctuation stands between the two.  (Punctuation would take the marker's own
\* "<|" into its run.)  (tokenizer.c:598-645)
MarkersKept ==
  pc = "done" =>
    \A p \in Opens(1), m \in Markers :
      LET before == {q \in Opens(1) : q < p} IN
      /\ IsAt(m, p)
      /\ ~\E q \in before, t \in Markers : IsAt(t, q) /\ q + Len(t) > p
      /\ before # {} => \E k \in Max(before) + 2 .. p - 1 : text[k] \notin Others
      => /\ Contains(parts, Part("marker", p, p + Len(m)))
         /\ Contains(token_ids, ids[m])

\* A word is never divided, except by a contraction that ends in it or by a marker
\* that it belongs to.
WordsWhole ==
  \A p \in 2 .. offset - 1 :
    /\ {text[p - 1], text[p]} \subseteq Letters
    /\ ~\E q \in 1 .. p : p \in ContractionEnds(q)
    => ~\E n \in 1 .. Len(parts) : parts[n].from = p

\* Two words are in different segments.
WordsApart ==
  \A n \in 1 .. Len(parts) :
    LET inside == parts[n].from .. parts[n].to - 1 IN
    ~\E i, j, k \in inside : /\ i < j /\ j < k
                             /\ text[i] \in Letters /\ text[j] \in Spaces /\ text[k] \in Letters

\* Segments are words: none is divided, and where the text has no "<|" no two are
\* joined (tokenizer.c:477-545, 647-670).
WordsKept == WordsWhole /\ (Opens(1) = {} => WordsApart)

\* Text whose characters are all there always has a next segment, so that encoding
\* ends at the end of the text or where encode_segment fails (tokenizer.c:661-669).
CallsEnd == pc = "start" ~> (\/ pc \in {"done", "failed"}
                             \/ pc = "no_segment" /\ Contains(text, Cut))
=============================================================================
