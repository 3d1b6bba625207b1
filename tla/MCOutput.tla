------------------------------ MODULE MCOutput ------------------------------
(***************************************************************************)
(* Up to four logits of four values, the last far enough below to weigh    *)
(* nothing, or none, or one of them not a number.  Every text of one byte, *)
(* so every symbol, and code points of each width.                         *)
(***************************************************************************)
EXTENDS Output

Rows(values, n) == UNION {[1 .. k -> values] : k \in 0 .. n}
MCLogitRows == Rows({0, 1, 2, 5}, 4)
                 \cup {<<NaN>>, <<1, NaN>>, <<NaN, 1, 2>>, <<2, 1, NaN>>}
OneLogit == {<<1>>}
MCWeight == [d \in 0 .. 5 |-> CASE d = 0 -> 3 [] d = 1 -> 2 [] d = 2 -> 1 [] OTHER -> 0]

MCTexts ==
  { <<b>> : b \in 1 .. 255 }
    \cup { <<a, b>> : a \in {32, 126, 194, 195}, b \in {33, 127, 160, 161, 173, 174, 191} }
    \cup { <<227, 161, 165>>, <<240, 175, 160, 174>>, <<97, 32, 98, 10>> }

\* Valid UTF-8 only: ASCII, and letters and a quotation mark of two and three bytes.
DocsTexts ==
  { <<b>> : b \in 1 .. 127 }
    \cup { <<195, 169>>, <<195, 160>>, <<195, 159>>, <<226, 128, 153>> }

\* "<|a|>", a space, a newline; U+0100, U+0120, U+017F, U+0180, U+01A0, U+01AD,
\* U+4E2D, U+1F600; and strings that are not UTF-8 or stop in a code point.
MCTokens ==
  { <<60, 124, 97, 124, 62>>, <<32, 97>>, <<10>>, <<127>>,
    <<196, 128>>, <<196, 160, 97>>, <<197, 191>>, <<198, 128>>, <<198, 160>>, <<198, 173>>,
    <<228, 184, 173>>, <<240, 159, 152, 128>>,
    <<97, 196>>, <<228, 184>>, <<240, 159, 152>>, <<196, 97>>, <<160, 161>>, <<255>>, << >> }
=============================================================================
