---------------------------- MODULE MCTokenizer ----------------------------
(***************************************************************************)
(* Three kinds of files.  Broken ones: chains of merges, repeated tokens,  *)
(* an empty token and one with a space in it; merges that are fine,        *)
(* repeated, unknown, have no or two spaces, or begin or end with one; all *)
(* metadata.  A language of letters, blanks, a digit, an apostrophe and    *)
(* markers.  And vocabularies of two symbols for byte pair encoding.       *)
(***************************************************************************)
EXTENDS Tokenizer

A == <<"a">>
E2 == <<"e">>
Pair(l, r) == l \o <<" ">> \o r
File(toks, joins) == [tokens |-> toks, merges |-> joins, string_arrays |-> TRUE,
                      bos |-> -1, eos |-> -1, add_bos |-> "false"]
Lists(chunks, n) == UNION {[1 .. k -> chunks] : k \in 0 .. n}

TokenArrays ==
  { << >>, <<A, E2>>, <<A, E2, A \o E2>>, <<A, E2, A>>, <<A, << >>, A \o A, A \o A \o A>>,
    <<E2, <<"e", " ", "a">>, <<"e", "e", " ", "a">>, A>> }

MergeArrays ==
  LET good == {Pair(A, E2), Pair(A, A), Pair(A \o A, A), Pair(A, A \o A), Pair(E2, <<"e", " ", "a">>)}
      bad  == {A, Pair(E2, A), Pair(A, << >>), Pair(<< >>, A), Pair(A, Pair(A, E2))}
  IN {<< >>} \cup {<<m>> : m \in good \cup bad} \cup {<<m, n>> : m, n \in good}
       \cup {<<Pair(A, A), Pair(A \o A, A), last>> : last \in {Pair(A, A \o A), Pair(A, A)}}

Small == File(<<A, E2, A \o E2>>, <<Pair(A, E2)>>)
Broken ==
  {File(t, m) : t \in TokenArrays, m \in MergeArrays}
    \cup [tokens : {Small.tokens}, merges : {Small.merges}, string_arrays : BOOLEAN,
          bos : {-2, -1, 0, 2, 3}, eos : {-2, -1, 0, 2, 3},
          add_bos : {"true", "false", "wrong type"}]

Characters == <<"s", "l", "m", "[space]", "[tab]", "[newline]", "1", "'", "<", "|", ">", "cut">>
Language ==
  [File([n \in 1 .. 12 |-> <<Characters[n]>>]
          \o << <<"<", "|", "m", "|", ">">>, <<"<", "|", "s", "|", ">">>,
                <<"s", "s">>, <<"[space]", "s">>, <<"<", "|">>, <<"[space]", "s", "s">>,
                <<"<", "|", "s", "<", "|", "m", "|", ">">> >>,
        << Pair(<<"s">>, <<"s">>), Pair(<<"[space]">>, <<"s">>), Pair(<<"<">>, <<"|">>),
           Pair(<<"[space]", "s">>, <<"s">>) >>)
   EXCEPT !.bos = 13, !.add_bos = "true"]

Chunks == {<<"s">>, <<"l">>, <<" ">>, <<"\t">>, <<"\n">>, <<"1">>, <<"'">>,
           <<"<", "|">>, <<"|", ">">>, <<"<", "|", "m", "|", ">">>}
Few    == {<<"s">>, <<" ">>, <<"<", "|">>, <<"|", ">">>, <<"m">>}
LanguageTexts ==
  {FlattenSeq(s) : s \in Lists(Chunks, 3) \cup Lists(Few, 5)}
    \cup {FlattenSeq(s) \o <<"cut">> \o t : s \in Lists(Chunks, 2), t \in {<< >>, <<"s">>, <<"<", "|">>}}

\* Lists of up to two merges of tokens of up to three symbols, and lists of three that
\* begin with one of two symbols and go on with what it made.
Words2 == UNION {[1 .. k -> {"a", "e"}] : k \in 1 .. 3}
Pairs  == {p \in Words2 \X Words2 : Len(p[1]) + Len(p[2]) <= 3}
Joins(p, q) == p[1] \o p[2] \in {q[1], q[2]}
MergeLists ==
  LET first == {p \in Pairs : Len(p[1]) + Len(p[2]) = 2} IN
  {<< >>} \cup {<<p>> : p \in Pairs} \cup {<<p, q>> : p, q \in Pairs}
    \cup {m \in {<<p, q, r>> : p, q \in first, r \in Pairs} : Joins(m[1], m[3]) \/ Joins(m[2], m[3])}
Numbered == FoldSet(LAMBDA w, s : Append(s, w), << >>, Words2)
Pairing == {File(Numbered, [n \in 1 .. Len(m) |-> Pair(m[n][1], m[n][2])]) :
              m \in {l \in MergeLists : IsInjective(l)}}
Runs == {s \in [1 .. 5 -> {"a", "e"}] : s[1] = "a"} \cup {<<"a", "m", "e">>}

MCFiles == Broken \cup {Language} \cup Pairing
MCTexts(f) == IF f = Language THEN LanguageTexts
              ELSE IF Len(f.tokens) = 14 THEN Runs ELSE {<<"a", "e", "a">>}
=============================================================================
