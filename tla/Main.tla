-------------------------------- MODULE Main --------------------------------
(***************************************************************************)
(* The program (src/main.c): the commands that run the model, and the      *)
(* lines that chat reads.  A process runs one command, with its arguments  *)
(* parsed, and leaves the variables of the others alone.                   *)
(***************************************************************************)
EXTENDS Naturals, SequencesExt

CONSTANTS Commands,                 \* of "chat", "generate", "forward"
          Words, Sampled,           \* ordinary tokens; what mlmc_sample may return
          AddBos, HasEos,
          ChatContext, MaxTokens,   \* of chat: the model's context, its argument
          GenerateContext, Prompts, Limits,
          ForwardContext, Ids, Arguments,
          SizeMax, Initial,         \* of read_line
          Inputs                    \* what it may find on stdin

IsSequence(s) == s \in Seq(Range(s))

ASSUME MainAssumption ==
  /\ Commands \subseteq {"chat", "generate", "forward"}
  /\ {ChatContext, GenerateContext, ForwardContext, MaxTokens} \cup Limits \subseteq Nat \ {0}
  /\ \A s \in Inputs \cup Prompts \cup Arguments : IsSequence(s)
  /\ << >> \notin Arguments
  /\ SizeMax \in Nat /\ Initial \in 2 .. SizeMax
  /\ \A t \in Inputs : t = << >> \/ "\n" \notin {t[n] : n \in 1 .. Len(t) - 1}

VARIABLES command, pc, held, result,
          capacity, context, logits, ok,              \* the decoder
          i, next_token,
          first_turn, context_full, texts, feeding,   \* chat
          generation_limit, turns, said_full,
          read_pc, typed, input, ended, room, buffer, line,   \* its read_line
          prompt, max_tokens, fed, output,            \* generate
          argv, printed                               \* forward

common     == <<pc, held, result, capacity, context, logits, ok, i, next_token>>
ofChat     == <<first_turn, context_full, texts, feeding, generation_limit, turns, said_full>>
ofReadLine == <<read_pc, typed, input, ended, room, buffer, line>>
ofGenerate == <<prompt, max_tokens, fed, output>>
ofForward  == <<argv, printed>>
vars == <<command, common, ofChat, ofReadLine, ofGenerate, ofForward>>

C == INSTANCE Chat WITH ContextLength <- ChatContext
R == INSTANCE ReadLine WITH pc <- read_pc, capacity <- room
G == INSTANCE Generate WITH ContextLength <- GenerateContext
F == INSTANCE Forward WITH ContextLength <- ForwardContext, Tokens <- Ids
-----------------------------------------------------------------------------
\* argv has chosen the command and given it its own arguments.
Init == /\ command \in Commands
        /\ C!Init /\ R!Init /\ G!Init /\ F!Init
        /\ command # "generate" => /\ prompt = (CHOOSE p \in Prompts : TRUE)
                                   /\ max_tokens = (CHOOSE n \in Limits : TRUE)
        /\ command # "forward" => argv = (CHOOSE a \in Arguments : TRUE)

Chatting == command = "chat" /\ UNCHANGED <<command, ofGenerate, ofForward>>

\* At its prompt chat reads a line; the user types one or ends stdin.
CallReadLine(text) ==
  /\ Chatting /\ pc = "prompt"
  /\ R!Call(text) /\ UNCHANGED <<common, ofChat>>

InReadLine == Chatting /\ R!Step /\ UNCHANGED <<common, ofChat>>

Exit == <<"/exit">>

TakeLine ==
  /\ Chatting /\ R!Return
  /\ \/ /\ read_pc = "line"
        /\ LET text == Front(line)
           IN \/ text = << >> /\ C!ReadEmptyLine
              \/ text = Exit /\ C!ReadEnd
              \/ text \notin {<< >>, Exit} /\ C!ReadText(text)
     \/ read_pc = "end" /\ C!ReadEnd
     \/ read_pc = "error" /\ C!ReadFails

ChatStep == Chatting /\ (C!Startup \/ C!Turn) /\ UNCHANGED ofReadLine

GenerateStep ==
  /\ command = "generate" /\ G!Step
  /\ UNCHANGED <<command, ofChat, ofReadLine, ofForward>>

ForwardStep ==
  /\ command = "forward" /\ F!Step
  /\ UNCHANGED <<command, next_token, ofChat, ofReadLine, ofGenerate>>

Step   == InReadLine \/ TakeLine \/ ChatStep \/ GenerateStep \/ ForwardStep
Exited == pc = "exited" /\ UNCHANGED vars
Next   == Step \/ Exited \/ \E text \in Inputs : CallReadLine(text)

\* One thread that waits for nobody but the user, who need not type anything.
Spec == Init /\ [][Next]_vars /\ WF_vars(Step)
-----------------------------------------------------------------------------
\* Whenever chat asks the user or the model for more, the context is the whole
\* conversation the terminal shows; whenever generate samples, it is the prompt
\* and all that was printed (main.c:287-302, 323-343, 433-463).
TranscriptKept ==
  /\ command = "chat" => C!TranscriptKept
  /\ command = "generate" => G!SampleContinuesOutput

\* Sampling reads logits computed from the whole present context, never those of an
\* earlier token or the uninitialised buffer (main.c:251, 316, 334, 423, 444).
SampleUsesFreshLogits == pc = "sample" => context # << >> /\ logits = context

\* No command starts what its cache has no room for (main.c:172, 306-313, 340-343,
\* 390-404, 458-459, 491-493).
RoomForEveryToken ==
  /\ command = "chat" => C!RoomForEveryToken
  /\ command = "generate" => G!RoomForEveryToken
  /\ command = "forward" => F!RoomForEveryToken

\* forward's lines, as many as get out, answer what was given (main.c:516-527).
LinesAnswerPrefixes == F!LinesAnswerPrefixes

\* What exit status 0 means: of generate, that the reply was written up to its end; of
\* forward, which looks at no write, only that every argument ran (main.c:442-468,
\* 515-532).
SuccessIsEarned ==
  /\ command = "generate" => G!SuccessIsComplete
  /\ command = "forward" => F!SuccessRanAll

\* What is typed is what chat gets (main.c:125-160).
LineComplete == R!LineComplete

\* Whatever fails and whenever, the process gives back all it holds and closes the
\* cache; the one exception is a vocabulary of the wrong size (main.c:212-258,
\* 352-356, 375-430, 470-476, 485-513, 529-532).
ReleasedAtExit ==
  [][pc' = "exited" => \/ held' = {} /\ capacity' = 0 /\ room' = 0
                       \/ C!VocabularyMismatch \/ G!VocabularyMismatch]_vars

\* A command ends, or, if it is chat, comes back to waiting for the user.
EndsOrAsks == []<>(pc = "exited" \/ (command = "chat" /\ pc = "prompt" /\ read_pc = "idle"))

\* "Model context is full; restart chat for a new session." (main.c:348) is said only
\* of a context that is full.
SaysFullOnlyWhenFull == command = "chat" => C!SaysFullOnlyWhenFull
=============================================================================
