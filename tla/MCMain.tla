------------------------------- MODULE MCMain -------------------------------
(***************************************************************************)
(* chat: the first prompt takes 9 to 15 of 17 positions, a reply at most 3,*)
(* the next prompt 6 or more, so that replies are cut off or get no room   *)
(* and later prompts do not fit; lines that are empty, have no newline, or *)
(* fill or exceed the largest buffer.  generate: prompts from empty to one *)
(* more than the context, limits that reach and pass the room they leave.  *)
(* forward: up to one argument more than the context, "x" being no token.  *)
(***************************************************************************)
EXTENDS Main

Line(n) == [k \in 1 .. n |-> "a"] \o <<"\n">>
MCInputs == {<< >>, <<"\n">>, <<"/exit", "\n">>, <<"a">>, <<"b", "a", "\n">>,
             Line(1), Line(7), Line(8)}
MCPrompts == {<< >>, <<"a">>, <<"b", "a">>, <<"a", "b", "a">>,
              <<"a", "a", "b", "b">>, <<"a", "a", "b", "b", "a">>}
MCArguments == UNION {[1 .. n -> {"t0", "t1", "x"}] : n \in 1 .. 4}
=============================================================================
