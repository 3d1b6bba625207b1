------------------------------ MODULE Forward ------------------------------
(***************************************************************************)
(* The forward command (src/main.c, cmd_forward) over the decoder that     *)
(* KVCache implements: the token ids on the command line one after the     *)
(* other, and after each the token the logits make most likely.            *)
(***************************************************************************)
EXTENDS Naturals, SequencesExt, FiniteSets

CONSTANTS ContextLength,   \* model.config.context_length
          Tokens,          \* ids below vocab_size
          Arguments        \* what may be in argv[3] and on: tokens, or not

VARIABLES pc,
          held,                             \* model, state, logits
          result,                           \* the exit status
          argv, i,                          \* i counts the arguments that were run
          printed,                          \* per line that got out: the token,
                                            \* and the context its logits answer
          capacity, context, logits, ok

decoder == <<capacity, context, logits, ok>>
vars    == <<pc, held, result, argv, i, printed, decoder>>
D == INSTANCE Decoder

Init == /\ pc = "load" /\ held = {} /\ result = 0
        /\ argv \in Arguments /\ i = 0 /\ printed = << >>
        /\ D!Init

Acquired(resource, then) ==
  /\ pc' = then /\ held' = held \cup {resource}
  /\ UNCHANGED <<result, argv, i, printed>>
GivesUp(freed) ==
  /\ pc' = "exited" /\ held' = held \ freed /\ result' = 1
  /\ UNCHANGED <<argv, i, printed>>

LoadModel ==
  /\ pc = "load"
  /\ Acquired("model", "cache") \/ GivesUp({})
  /\ UNCHANGED decoder

\* Room for every argument; more than the context is refused.
InitState ==
  /\ pc = "cache"
  /\ \/ Acquired("state", "logits") /\ D!Open(Len(argv))
     \/ GivesUp({"model"}) /\ D!Refuse

\* The size may overflow, or malloc fail.
AllocateLogits ==
  /\ pc = "logits"
  /\ \/ Acquired("logits", "run") /\ UNCHANGED decoder
     \/ GivesUp({"state", "model"}) /\ D!Close

\* printf's result is not looked at: the line gets out, or is lost.
PrintLine(line) == printed' \in {printed, Append(printed, line)}

\* Mutant: an argument that is no token is passed over.
RunTokenContinues ==
  /\ pc = "run" /\ i < Len(argv)
  /\ i' = i + 1 /\ UNCHANGED <<pc, result>>
  /\ \/ /\ argv[i + 1] \in Tokens /\ D!Accept(argv[i + 1])
        /\ PrintLine([token |-> argv[i + 1], answers |-> logits'])
     \/ D!Refuse /\ UNCHANGED printed
  /\ UNCHANGED <<held, argv>>

\* An argument that is no number or no token ends the run, like a forward that
\* fails; otherwise its line is printed, and the run goes on if it was lost too.
RunToken ==
  /\ pc = "run" /\ i < Len(argv)
  /\ \/ /\ argv[i + 1] \in Tokens /\ D!Accept(argv[i + 1])
        /\ PrintLine([token |-> argv[i + 1], answers |-> logits'])
        /\ i' = i + 1 /\ UNCHANGED <<pc, result>>
     \/ D!Refuse /\ pc' = "cleanup" /\ result' = 1 /\ UNCHANGED <<i, printed>>
  /\ UNCHANGED <<held, argv>>

RunDone ==
  /\ pc = "run" /\ i = Len(argv)
  /\ pc' = "cleanup"
  /\ UNCHANGED <<held, result, argv, i, printed, decoder>>

Cleanup ==
  /\ pc = "cleanup"
  /\ pc' = "exited" /\ held' = held \ {"logits", "state", "model"}
  /\ D!Close
  /\ UNCHANGED <<result, argv, i, printed>>

Step == LoadModel \/ InitState \/ AllocateLogits \/ RunToken \/ RunDone \/ Cleanup
-----------------------------------------------------------------------------
\* Each line that got out answers all the arguments up to its own and nothing else, is
\* there only for a token that ran, and stands behind those of earlier arguments, though
\* any of the lines may be lost (main.c:516-527).
LinesAnswerPrefixes ==
  \A n \in 1 .. Len(printed) :
    LET k == Len(printed[n].answers) IN
    /\ k \in 1 .. i
    /\ printed[n] = [token |-> argv[k], answers |-> SubSeq(argv, 1, k)]
    /\ n > 1 => Len(printed[n - 1].answers) < k

\* The cache has room for the arguments still to come (main.c:491-493).
RoomForEveryToken == pc = "run" => Len(context) + (Len(argv) - i) <= capacity

\* Exit status 0 means that every argument ran, the last over all before it.  It does
\* not mean that their lines got out (main.c:515-532).
SuccessRanAll == pc = "exited" /\ result = 0 => logits = argv
=============================================================================
