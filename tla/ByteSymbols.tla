----------------------------- MODULE ByteSymbols -----------------------------
(***************************************************************************)
(* The byte alphabet of the tokenizer (src/tokenizer.c): encode_segment    *)
(* turns every byte of a text into a symbol, a code point in UTF-8, and    *)
(* mlmc_tokenizer_write_token turns the symbols of a token back.  Here one *)
(* segment becomes one token, as if all its pieces merged; tokens that no  *)
(* text encodes to are written too, for the vocabulary is the file's.      *)
(***************************************************************************)
EXTENDS Integers, SequencesExt

CONSTANTS Texts,   \* the segments to encode
          Tokens   \* strings of the vocabulary that are written as they are

Bytes == 0 .. 255

\* Strings of C end at the first 0.
StringsOfC == Texts \cup Tokens \subseteq Seq(Bytes \ {0})

VARIABLES pc,
          text, fed,         \* the segment, and how many of its bytes are encoded
          piece, offset,     \* the token's string, and how far it is written
          written            \* what went to the stream

vars == <<pc, text, fed, piece, offset, written>>
-----------------------------------------------------------------------------
\* Bytes that are their own symbol.
Printable == (33 .. 126) \cup (161 .. 172) \cup (174 .. 255)

CodepointForByte(byte) == IF byte \in Printable THEN byte ELSE 256 + byte

\* Mutant: one of the three bytes over 32 that have a case of their own is left
\* to the range before it.
ByteForCodepointShort(c) ==
  CASE c \in Printable  -> c
    [] c \in 256 .. 288 -> c - 256
    [] c = 383          -> 127
    [] c = 416          -> 160
    [] OTHER            -> -1

ByteForCodepoint(c) ==
  CASE c \in Printable  -> c
    [] c \in 256 .. 288 -> c - 256
    [] c = 383          -> 127
    [] c = 416          -> 160
    [] c = 429          -> 173
    [] OTHER            -> -1

\* encode_codepoint, for the code points that symbols have.
EncodeCodepoint(c) == IF c < 128 THEN <<c>> ELSE <<192 + (c \div 64), 128 + (c % 64)>>

Symbol(byte) == EncodeCodepoint(CodepointForByte(byte))

\* decode_codepoint on a string at offset: the width it returns, 0 when the
\* string ends too early or a continuation byte is missing, and the code point.
Width(s, at) ==
  LET first == s[at + 1]
      bytes == IF first < 128 THEN 1 ELSE IF first < 224 THEN 2
               ELSE IF first < 240 THEN 3 ELSE 4
  IN IF /\ at + bytes <= Len(s)
        /\ \A n \in 2 .. bytes : s[at + n] \in 128 .. 191
     THEN bytes ELSE 0

\* The bits of a continuation byte.
Rest(s, n) == s[n] % 64

CodepointAt(s, at) ==
  LET first == s[at + 1]
  IN CASE Width(s, at) = 1 -> first
       [] Width(s, at) = 2 -> (first % 32) * 64 + Rest(s, at + 2)
       [] Width(s, at) = 3 -> (first % 16) * 2^12 + Rest(s, at + 2) * 64 + Rest(s, at + 3)
       [] Width(s, at) = 4 -> (first % 8) * 2^18 + Rest(s, at + 2) * 2^12
                                + Rest(s, at + 3) * 64 + Rest(s, at + 4)
-----------------------------------------------------------------------------
Init == /\ pc = "idle" /\ text = << >> /\ fed = 0 /\ piece = << >> /\ offset = 0
        /\ written = << >>

\* A text to encode, or a token of the vocabulary to write.
Encode(t) == /\ pc = "idle"
             /\ pc' = "encode" /\ text' = t
             /\ UNCHANGED <<fed, piece, offset, written>>

Write(token) == /\ pc = "idle"
                /\ pc' = "write" /\ piece' = token
                /\ UNCHANGED <<text, fed, offset, written>>

Called == (\E t \in Texts : Encode(t)) \/ (\E s \in Tokens : Write(s))

\* One byte of the segment: the symbol is looked up, and joins the token.
EncodeByte ==
  /\ pc = "encode" /\ fed < Len(text)
  /\ piece' = piece \o Symbol(text[fed + 1])
  /\ fed' = fed + 1
  /\ UNCHANGED <<pc, text, offset, written>>

\* The symbol is not in the vocabulary, or memory runs out.
EncodeFails ==
  /\ pc = "encode" /\ fed < Len(text)
  /\ pc' = "failed"
  /\ UNCHANGED <<text, fed, piece, offset, written>>

Encoded ==
  /\ pc = "encode" /\ fed = Len(text)
  /\ pc' = "write"
  /\ UNCHANGED <<text, fed, piece, offset, written>>

\* Mutant: a code point that is no symbol is handed to fputc too.
WriteSymbolAlways ==
  /\ pc = "write" /\ offset < Len(piece) /\ Width(piece, offset) > 0
  /\ written' = Append(written, ByteForCodepoint(CodepointAt(piece, offset)) % 256)
  /\ offset' = offset + Width(piece, offset)
  /\ UNCHANGED <<pc, text, fed, piece>>

\* Mutant: every symbol is taken to be two bytes long.
WriteSymbolTwoBytes ==
  /\ pc = "write" /\ offset < Len(piece) /\ Width(piece, offset) > 0
  /\ written' = Append(written, ByteForCodepoint(CodepointAt(piece, offset)) % 256)
  /\ offset' = offset + 2
  /\ UNCHANGED <<pc, text, fed, piece>>

\* A symbol is written as its byte, any other code point as it stands.
WriteSymbol ==
  /\ pc = "write" /\ offset < Len(piece) /\ Width(piece, offset) > 0
  /\ LET byte == ByteForCodepoint(CodepointAt(piece, offset))
     IN written' = IF byte >= 0 THEN Append(written, byte)
                   ELSE written \o SubSeq(piece, offset + 1,
                                          offset + Width(piece, offset))
  /\ offset' = offset + Width(piece, offset)
  /\ UNCHANGED <<pc, text, fed, piece>>

\* The string is not UTF-8 there, or the stream refuses the bytes.
WriteFails ==
  /\ pc = "write" /\ offset < Len(piece)
  /\ pc' = "failed"
  /\ UNCHANGED <<text, fed, piece, offset, written>>

Written ==
  /\ pc = "write" /\ offset = Len(piece)
  /\ pc' = "done"
  /\ UNCHANGED <<text, fed, piece, offset, written>>

Step == \/ EncodeByte \/ EncodeFails \/ Encoded
        \/ WriteSymbol \/ WriteFails \/ Written
-----------------------------------------------------------------------------
TypeOK ==
  /\ pc \in {"idle", "encode", "write", "done", "failed"}
  /\ fed \in 0 .. Len(text) /\ offset \in 0 .. Len(piece)
  /\ text \in Seq(Bytes) /\ piece \in Seq(Bytes) /\ written \in Seq(Bytes)

\* "Writes one token as UTF-8, translating byte-level BPE symbols back to
\* bytes." (tokenizer.h:42): a text that was encoded is written as it was.
SymbolsTranslatedBack == pc = "done" /\ text # << >> => written = text

\* Where that does hold: for every text without bytes 128 to 159, whose symbols
\* write_token has no case for (tokenizer.c:283-289 against 316-335), what is
\* written is a prefix of the text at every symbol and all of it at the end.
SymbolsTranslatedBackOutsideGap ==
  (text # << >> /\ pc # "encode" /\ \A n \in 1 .. Len(text) : text[n] \notin 128 .. 159) =>
    /\ fed = Len(text) => IsPrefix(written, text)
    /\ pc = "done" => written = text

\* A token of plain ASCII, such as "<|im_start|>" or one that holds a space or
\* a newline and not their symbols, reaches the stream as it stands
\* (tokenizer.c:690-697).
AsciiUnchanged ==
  pc = "done" /\ (\A n \in 1 .. Len(piece) : piece[n] < 128) => written = piece
=============================================================================
