----------------------------- MODULE MainProofs -----------------------------
(***************************************************************************)
(* Proofs about the commands, for every context size, prompt, limit, list  *)
(* of arguments and typed line.  Inv says, for the command the process     *)
(* runs, where it is, what it has allocated there, and how the decoder's   *)
(* context relates to what was typed, fed and printed; it is inductive,    *)
(* and the properties of Main follow from it.                              *)
(***************************************************************************)
EXTENDS Main, SequenceLemmas

\* What may be typed, and what read_line's buffer may hold.

Characters == UNION {Range(s) : s \in Inputs}
Stored     == Characters \cup {"NUL"}

\* Only the last character can be a newline.
OneLine(t) == \A k \in 1 .. Len(t) - 1 : t[k] # "\n"

\* b is the beginning of t, with no newline in it, and r is the rest.
Splits(t, b, r) ==
  /\ Len(b) + Len(r) = Len(t)
  /\ \A k \in 1 .. Len(b) : b[k] = t[k] /\ t[k] # "\n"
  /\ \A k \in 1 .. Len(r) : r[k] = t[Len(b) + k]

\* What is stored is the beginning of what was typed and what is still to read is the rest;
\* only the last character can be a newline.
LineInv ==
  /\ read_pc \in {"idle", "allocate", "read", "line", "end", "error"}
  /\ typed \in Seq(Characters) /\ input \in Seq(Characters)
  /\ OneLine(typed)
  /\ buffer \in Seq(Stored) /\ line \in Seq(Stored)
  /\ room \in Nat
  /\ read_pc \in {"idle", "allocate"} => buffer = << >>
  /\ read_pc = "allocate" => input = typed
  /\ read_pc \in {"idle", "allocate", "end", "error"} => room = 0
  /\ read_pc = "end" => typed = << >>
  /\ read_pc = "read" =>
       /\ Splits(typed, buffer, input)
       /\ Len(buffer) < room /\ room <= SizeMax
  /\ read_pc = "line" =>
       /\ Front(line) = IF Last(typed) = "\n" THEN Front(typed) ELSE typed
       /\ Len(buffer) <= room /\ room <= SizeMax
       /\ line # << >>

\* A sequence lives in the sequences over any set that holds its elements.
LEMMA SequenceOver ==
  ASSUME NEW s, IsSequence(s), NEW S, Range(s) \subseteq S
  PROVE  s \in Seq(S)
BY SeqMonotonic DEF IsSequence

\* No line has been asked for.
LEMMA LineInit == R!Init => LineInv
BY DEF R!Init, LineInv, OneLine

\* The user may type any of Inputs.
LEMMA LineCall ==
  ASSUME LineInv, NEW text \in Inputs, R!Call(text)
  PROVE  LineInv'
<1>1. text \in Seq(Characters)
  <2>1. IsSequence(text) /\ Range(text) \subseteq Characters
    BY MainAssumption DEF Characters
  <2> QED
    BY <2>1, SequenceOver
<1>2. OneLine(text)
  <2>1. text = << >> \/ "\n" \notin {text[n] : n \in 1 .. Len(text) - 1}
    BY MainAssumption
  <2> QED
    BY <2>1 DEF OneLine
<1> QED
  BY <1>1, <1>2 DEF R!Call, LineInv

\* One character read and stored moves the split.
LEMMA SplitMoves ==
  ASSUME NEW S, NEW T, S \subseteq T, NEW t \in Seq(S), NEW b \in Seq(T), NEW r \in Seq(S),
         Splits(t, b, r), r # << >>, Head(r) # "\n"
  PROVE  Splits(t, Append(b, Head(r)), Tail(r))
<1>1. /\ Len(t) \in Nat /\ Len(b) \in Nat /\ Len(r) \in Nat /\ Len(r) >= 1
      /\ Head(r) = r[1] /\ Head(r) \in T
  OBVIOUS
<1>2. /\ Tail(r) \in Seq(S) /\ Len(Tail(r)) = Len(r) - 1
      /\ \A k \in 1 .. Len(r) - 1 : Tail(r)[k] = r[k + 1]
  OBVIOUS
<1> DEFINE a == Append(b, Head(r))
<1>3. /\ a \in Seq(T) /\ Len(a) = Len(b) + 1 /\ a[Len(b) + 1] = Head(r)
      /\ \A k \in 1 .. Len(b) : a[k] = b[k]
  BY <1>1
<1>4. Head(r) = t[Len(b) + 1]
  BY <1>1 DEF Splits
<1> HIDE DEF a
<1>5. \A k \in 1 .. Len(a) : a[k] = t[k] /\ t[k] # "\n"
  BY <1>1, <1>3, <1>4 DEF Splits
<1>6. ASSUME NEW k \in 1 .. Len(Tail(r)) PROVE Tail(r)[k] = t[Len(a) + k]
  <2>1. k + 1 \in 1 .. Len(r) /\ Len(b) + (k + 1) = Len(a) + k
    BY <1>1, <1>2, <1>3
  <2>2. Tail(r)[k] = r[k + 1]
    BY <1>1, <1>2
  <2>3. r[k + 1] = t[Len(b) + (k + 1)]
    BY <2>1 DEF Splits
  <2> QED
    BY <2>1, <2>2, <2>3
<1>7. Len(a) + Len(Tail(r)) = Len(t)
  BY <1>1, <1>2, <1>3 DEF Splits
<1>8. Splits(t, a, Tail(r))
  BY <1>5, <1>6, <1>7 DEF Splits
<1> QED
  BY <1>2, <1>3, <1>8 DEF a

\* With a newline next, all before it is stored, and with nothing left, all there was.
LEMMA SplitEnds ==
  ASSUME NEW S, NEW T, S \subseteq T, NEW t \in Seq(S), NEW b \in Seq(T), NEW r \in Seq(S),
         Splits(t, b, r), OneLine(t)
  PROVE  /\ r # << >> /\ Head(r) = "\n" => Last(t) = "\n" /\ b = Front(t)
         /\ r = << >> => b = t /\ (t # << >> => Last(t) # "\n")
<1>1. Len(t) \in Nat /\ Len(b) \in Nat /\ Len(r) \in Nat /\ Len(b) + Len(r) = Len(t)
      /\ t \in Seq(T)
  BY SeqMonotonic DEF Splits
<1>2. ASSUME r # << >>, Head(r) = "\n" PROVE Last(t) = "\n" /\ b = Front(t)
  <2>1. t[Len(b) + 1] = "\n" /\ Len(r) >= 1
    BY <1>1, <1>2 DEF Splits
  <2>2. Len(b) + 1 = Len(t)
    BY <1>1, <2>1 DEF OneLine
  <2>3. /\ Front(t) \in Seq(T) /\ Len(Front(t)) = Len(b)
        /\ \A k \in 1 .. Len(b) : Front(t)[k] = t[k]
    BY <1>1, <2>2 DEF Front
  <2>4. b = Front(t)
    BY <2>3, SeqEqual DEF Splits
  <2> QED
    BY <2>1, <2>2, <2>4 DEF Last
<1>3. ASSUME r = << >> PROVE b = t /\ (t # << >> => Last(t) # "\n")
  <2>1. Len(b) = Len(t)
    BY <1>1, <1>3
  <2>2. b = t
    BY <1>1, <2>1, SeqEqual DEF Splits
  <2>3. t # << >> => Len(t) \in 1 .. Len(b)
    BY <1>1, <2>1
  <2> QED
    BY <2>2, <2>3 DEF Splits, Last
<1> QED
  BY <1>2, <1>3

\* Every step of read_line keeps its invariant, whatever the buffer's size: the growth too
\* stores the character it was made for.
LEMMA LineStep ==
  ASSUME LineInv, R!Step
  PROVE  LineInv'
<1>1. CASE R!Allocate
  <2>1. Initial \in Nat /\ SizeMax \in Nat /\ Initial >= 2 /\ Initial <= SizeMax
    BY MainAssumption
  <2>2. /\ UNCHANGED <<typed, input, buffer, line>> /\ buffer = << >> /\ input = typed
        /\ \/ read_pc' = "read" /\ room' = Initial
           \/ read_pc' = "error" /\ room' = 0
    BY <1>1 DEF R!Allocate, R!Gives, R!stdin, LineInv
  <2>3. Splits(typed, << >>, typed)
    BY DEF Splits, LineInv
  <2> QED
    BY <2>1, <2>2, <2>3 DEF LineInv
<1>2. CASE R!GrowFails
  BY <1>2 DEF R!GrowFails, R!Reading, R!Gives, R!stdin, LineInv
<1>3. ASSUME read_pc = "read", R!Store \/ R!Grow \/ R!EndOfLine \/ R!EndOfInput
      PROVE  LineInv'
  <2>1. /\ Characters \subseteq Stored /\ "NUL" \in Stored
        /\ typed \in Seq(Characters) /\ input \in Seq(Characters) /\ OneLine(typed)
        /\ buffer \in Seq(Stored) /\ line \in Seq(Stored)
    BY DEF LineInv, Stored
  <2>2. /\ Splits(typed, buffer, input)
        /\ Len(buffer) \in Nat /\ Len(buffer) < room /\ room \in Nat /\ room <= SizeMax
    BY <1>3, <2>1 DEF LineInv
  <2>3. ASSUME input # << >>, Head(input) # "\n",
               buffer' = Append(buffer, Head(input)), input' = Tail(input),
               Len(buffer) + 1 < room', room' \in Nat, room' <= SizeMax,
               UNCHANGED <<read_pc, typed, line>>
        PROVE  LineInv'
    <3>1. /\ buffer' \in Seq(Stored) /\ Len(buffer') = Len(buffer) + 1
          /\ input' \in Seq(Characters)
          /\ Splits(typed, buffer', input')
      <4>1. Splits(typed, Append(buffer, Head(input)), Tail(input))
        BY <2>1, <2>2, <2>3, SplitMoves
      <4>2. Head(input) \in Stored /\ Tail(input) \in Seq(Characters)
        BY <2>1, <2>3
      <4>3. /\ Append(buffer, Head(input)) \in Seq(Stored)
            /\ Len(Append(buffer, Head(input))) = Len(buffer) + 1
        BY <2>1, <4>2
      <4> QED
        BY <2>3, <4>1, <4>2, <4>3
    <3> QED
      BY <1>3, <2>1, <2>3, <3>1 DEF LineInv
  <2>4. CASE R!Store
    <3>1. /\ input # << >> /\ Head(input) # "\n" /\ Len(buffer) + 1 < room
          /\ buffer' = Append(buffer, Head(input)) /\ input' = Tail(input)
          /\ UNCHANGED <<read_pc, typed, room, line>>
      BY <2>2, <2>4 DEF R!Store, R!Reading, R!Full, R!Consume, R!stdin
    <3> QED
      BY <2>2, <2>3, <3>1
  <2>5. CASE R!Grow
    <3>1. /\ input # << >> /\ Head(input) # "\n"
          /\ buffer' = Append(buffer, Head(input)) /\ input' = Tail(input)
          /\ UNCHANGED <<read_pc, typed, line>>
          /\ room <= SizeMax \div 2 /\ room' = room * 2
      BY <2>5 DEF R!Grow, R!Reading, R!Consume, R!stdin
    <3>2. SizeMax \in Nat
      BY MainAssumption
    <3>3. room' \in Nat /\ room' <= SizeMax /\ Len(buffer) + 1 < room'
      BY <2>2, <3>1, <3>2
    <3> QED
      BY <2>3, <3>1, <3>3
  <2>6. CASE R!EndOfLine
    <3>1. /\ input # << >> /\ Head(input) = "\n"
          /\ line' = Append(buffer, "NUL") /\ buffer' = Append(buffer, "NUL")
          /\ input' = Tail(input) /\ read_pc' = "line"
          /\ UNCHANGED <<typed, room>>
      BY <2>6 DEF R!EndOfLine, R!Consume, R!stdin
    <3>2. Last(typed) = "\n" /\ buffer = Front(typed)
      BY <2>1, <2>2, <3>1, SplitEnds
    <3>3. /\ buffer' \in Seq(Stored) /\ buffer' # << >> /\ Front(line') = buffer
          /\ Len(buffer') = Len(buffer) + 1
      BY <2>1, <3>1, FrontOfAppend
    <3>4. input' \in Seq(Characters)
      BY <2>1, <3>1
    <3> QED
      BY <2>1, <2>2, <3>1, <3>2, <3>3, <3>4 DEF LineInv
  <2>7. CASE R!EndOfInput
    <3>1. /\ input = << >> /\ UNCHANGED <<typed, input>>
          /\ \/ /\ buffer # << >> /\ read_pc' = "line" /\ UNCHANGED room
                /\ buffer' = Append(buffer, "NUL") /\ line' = Append(buffer, "NUL")
             \/ /\ (buffer = << >> /\ read_pc' = "end") \/ read_pc' = "error"
                /\ room' = 0 /\ UNCHANGED <<buffer, line>>
      BY <2>7 DEF R!EndOfInput, R!Gives, R!stdin
    <3>2. buffer = typed /\ (typed # << >> => Last(typed) # "\n")
      BY <2>1, <2>2, <3>1, SplitEnds
    <3>3. CASE read_pc' = "line"
      <4>1. /\ buffer # << >> /\ UNCHANGED room
            /\ buffer' = Append(buffer, "NUL") /\ line' = Append(buffer, "NUL")
        BY <3>1, <3>3
      <4>2. /\ buffer' \in Seq(Stored) /\ buffer' # << >> /\ Front(line') = buffer
            /\ Len(buffer') = Len(buffer) + 1
        BY <2>1, <4>1, FrontOfAppend
      <4> QED
        BY <2>1, <2>2, <3>1, <3>2, <3>3, <4>1, <4>2 DEF LineInv
    <3>4. CASE read_pc' # "line"
      BY <2>1, <3>1, <3>2, <3>4 DEF LineInv
    <3> QED
      BY <3>3, <3>4
  <2> QED
    BY <1>3, <2>4, <2>5, <2>6, <2>7
<1>4. R!Store \/ R!Grow \/ R!EndOfLine \/ R!EndOfInput => read_pc = "read"
  BY DEF R!Store, R!Grow, R!Reading, R!EndOfLine, R!EndOfInput
<1> QED
  BY <1>1, <1>2, <1>3, <1>4 DEF R!Step

\* The caller's end of it.
LEMMA LineReturn ==
  ASSUME LineInv, R!Return
  PROVE  LineInv' /\ read_pc' = "idle"
BY DEF R!Return, R!stdin, LineInv

\* What chat gets is what was typed.
LEMMA LineInvImplies == LineInv => LineComplete
BY DEF LineInv, LineComplete, R!LineComplete, R!Front, R!Last, Front, Last
-----------------------------------------------------------------------------
ArgumentTokens == UNION {Range(s) : s \in Arguments}
Lines          == [token : ArgumentTokens, answers : Seq(ArgumentTokens)]

\* The lines are those of arguments run so far.
ForwardLines ==
  /\ argv \in Arguments /\ i \in 0 .. Len(argv)
  /\ printed \in Seq(Lines) /\ F!LinesAnswerPrefixes

\* What the process holds, and the context: the arguments run so far.
ForwardState ==
  /\ pc \in {"load", "cache", "logits", "run", "cleanup", "exited"}
  /\ pc = "load" => held = {}
  /\ pc = "cache" => held = {"model"}
  /\ pc = "logits" => held = {"model", "state"}
  /\ pc \in {"run", "cleanup"} => held = {"model", "state", "logits"}
  /\ pc \in {"load", "cache", "logits"} => i = 0 /\ context = << >> /\ result = 0
  /\ pc \in {"load", "cache", "exited"} => capacity = 0
  /\ pc \in {"logits", "run", "cleanup"} => capacity = Len(argv)
  /\ pc = "run" => /\ context = SubSeq(argv, 1, i) /\ result = 0
                   /\ i > 0 => logits = context
  /\ pc \in {"cleanup", "exited"} /\ result = 0 => logits = argv

ForwardInv == ForwardLines /\ ForwardState
-----------------------------------------------------------------------------
PromptTokens == G!Tokens \cup UNION {Range(s) : s \in Prompts}

\* What was printed is the reply so far; a reply that ended with status 0 is complete.
NoEos    == HasEos => \A k \in 1 .. Len(output) : output[k] # G!Eos
Complete == /\ (HasEos /\ next_token = G!Eos) \/ Len(output) = max_tokens
            /\ NoEos

\* Where the process is, what it holds there and how large its cache is.
GenerateControl ==
  /\ pc \in {"load", "tokenizer", "encode", "cache", "logits", "prompt",
             "sample", "write", "forward", "flush", "cleanup", "exited"}
  /\ prompt \in Seq(PromptTokens) /\ max_tokens \in Nat \ {0}
  /\ pc = "load" => held = {}
  /\ pc = "tokenizer" => held = {"model"}
  /\ pc = "encode" => held = {"model", "tokenizer"}
  /\ pc = "cache" => held = {"model", "tokenizer", "prompt"}
  /\ pc = "logits" => held = {"model", "tokenizer", "prompt", "state"}
  /\ pc \in {"prompt", "sample", "write", "forward", "flush", "cleanup"} =>
       held = {"model", "tokenizer", "prompt", "state", "logits"}
  /\ pc \in {"load", "tokenizer", "encode", "cache", "exited"} => capacity = 0
  /\ pc \in {"logits", "prompt", "sample", "write", "forward", "flush", "cleanup"} =>
       capacity = Len(prompt) + max_tokens
  /\ pc \notin {"flush", "cleanup", "exited"} => result = 0
  /\ pc \in {"cache", "logits", "prompt"} => prompt # << >>

\* The context is what was fed of the prompt, and then prompt and output but for the last
\* token; what ended with status 0 is complete.
GenerateReply ==
  /\ fed \in 0 .. Len(prompt) /\ i \in Nat
  /\ output \in Seq(PromptTokens) /\ context \in Seq(PromptTokens)
  /\ pc \in {"load", "tokenizer", "encode", "cache", "logits"} => fed = 0 /\ context = << >>
  /\ pc \in {"load", "tokenizer", "encode", "cache", "logits", "prompt"} =>
       i = 0 /\ output = << >>
  /\ pc # "exited" => logits = context
  /\ pc = "prompt" => context = SubSeq(prompt, 1, fed)
  /\ pc \in {"sample", "write", "forward"} => context # << >> /\ NoEos
  /\ pc = "sample" => /\ i <= max_tokens /\ Len(output) = i
                      /\ i < max_tokens => context = prompt \o output
  /\ pc = "write" => /\ i < max_tokens /\ Len(output) = i
                     /\ context = prompt \o output
                     /\ next_token \in G!Tokens /\ ~ (HasEos /\ next_token = G!Eos)
  /\ pc = "forward" => /\ i < max_tokens /\ Len(output) = i + 1
                       /\ Append(context, next_token) = prompt \o output
                       /\ next_token \in G!Tokens
  /\ pc \in {"flush", "cleanup", "exited"} /\ result = 0 => Complete

GenerateInv == GenerateControl /\ GenerateReply
-----------------------------------------------------------------------------
ChatTokens == C!Tokens \cup Sampled \cup Characters
Turns      == [user : Seq(ChatTokens), reply : Seq(ChatTokens)]
AllHeld    == {"model", "tokenizer", "state", "logits"}

\* What is left of the texts of a prompt that is being fed.
Remaining(ts) == IF Len(ts) = 0 THEN << >>
                 ELSE IF Len(ts) = 1 THEN ts[1]
                 ELSE IF Len(ts) = 2 THEN ts[1] \o ts[2]
                 ELSE ts[1] \o ts[2] \o ts[3]

\* Where the process is and what it holds there.
ChatControl ==
  /\ pc \in {"load", "tokenizer", "markers", "cache", "logits", "prompt", "feed",
             "sample", "write", "forward", "turn_end", "cleanup", "exited"}
  /\ pc = "load" => held = {}
  /\ pc = "tokenizer" => held = {"model"}
  /\ pc \in {"markers", "cache"} => held = {"model", "tokenizer"}
  /\ pc = "logits" => held = {"model", "tokenizer", "state"}
  /\ pc \in {"prompt", "sample", "write", "forward", "turn_end", "cleanup"} => held = AllHeld
  /\ pc = "feed" => held = AllHeld \cup {"line"}
  /\ capacity \in Nat
  /\ pc \in {"load", "tokenizer", "markers", "cache", "exited"} => capacity = 0
  /\ pc \notin {"turn_end", "cleanup", "exited"} => result = 0
  /\ pc = "turn_end" /\ result # 0 => context_full
  /\ pc \in {"load", "tokenizer", "markers", "cache", "logits"} =>
       first_turn /\ turns = << >> /\ context = << >>
  /\ pc = "prompt" => (first_turn <=> turns = << >>)
  /\ pc \in {"sample", "write", "forward", "turn_end"} => ~ first_turn
  /\ pc \in {"feed", "sample", "write", "forward", "turn_end"} => turns # << >>
  /\ pc \notin {"feed", "cleanup", "exited"} => texts = << >> /\ feeding = << >>

\* The context and what is still to be fed of a prompt are the transcript; from the prompt's
\* end on the context alone is, or will be with the token that is to be forwarded.
ChatTalk ==
  /\ context \in Seq(ChatTokens) /\ turns \in Seq(Turns)
  /\ texts \in Seq(Seq(ChatTokens)) /\ feeding \in Seq(ChatTokens)
  /\ pc \in {"write", "forward"} => next_token \in ChatTokens
  /\ pc # "exited" => logits = context
  /\ pc = "feed" => /\ turns[Len(turns)].reply = << >> /\ Len(texts) <= 3
                    /\ context \o (feeding \o Remaining(texts)) = C!Transcript(turns)
  /\ pc = "forward" => Append(context, next_token) = C!Transcript(turns)
  /\ \/ pc \in {"prompt", "sample", "write"}
     \/ pc = "turn_end" /\ result = 0
     => context = C!Transcript(turns)

\* The rest of the prompt and of the reply have room.
ChatRoom ==
  /\ i \in Nat /\ generation_limit \in Nat
  /\ pc \in {"prompt", "turn_end"} => Len(context) <= capacity
  /\ pc = "feed" => Len(context) + Len(feeding) <= capacity
  /\ pc \in {"sample", "write", "forward"} =>
       i <= generation_limit /\ Len(context) + (generation_limit - i) <= capacity
  /\ pc \in {"write", "forward"} => i < generation_limit

ChatInv == ChatControl /\ ChatTalk /\ ChatRoom
-----------------------------------------------------------------------------
\* A process runs its own command and leaves the variables of the others alone.
Inv ==
  /\ command \in {"chat", "generate", "forward"}
  /\ LineInv
  /\ (command = "chat" => pc # "prompt") => read_pc = "idle"
  /\ command # "forward" => printed = << >>
  /\ command = "chat" => ChatInv
  /\ command = "generate" => GenerateInv
  /\ command = "forward" => ForwardInv
-----------------------------------------------------------------------------
\* Arguments are sequences over their own elements, and there is at least one.
LEMMA ArgumentType == \A s \in Arguments : s \in Seq(ArgumentTokens) /\ Len(s) \in Nat \ {0}
<1> SUFFICES ASSUME NEW s \in Arguments
             PROVE  s \in Seq(ArgumentTokens) /\ Len(s) \in Nat \ {0}
  OBVIOUS
<1>1. IsSequence(s) /\ Range(s) \subseteq ArgumentTokens /\ s # << >>
  BY MainAssumption DEF ArgumentTokens
<1>2. s \in Seq(ArgumentTokens)
  BY <1>1, SequenceOver
<1> QED
  BY <1>1, <1>2

\* forward starts in its invariant.
LEMMA ForwardInit ==
  ASSUME F!Init
  PROVE  ForwardInv
<1>1. argv \in Arguments /\ Len(argv) \in Nat
  BY ArgumentType DEF F!Init
<1> QED
  BY <1>1 DEF F!Init, F!D!Init, ForwardInv, ForwardLines, ForwardState, F!LinesAnswerPrefixes

\* A step that prints nothing keeps the lines.
LEMMA ForwardQuiet ==
  ASSUME ForwardLines, UNCHANGED <<argv, i, printed>>
  PROVE  ForwardLines'
BY DEF ForwardLines, F!LinesAnswerPrefixes

\* Every step of forward keeps its invariant.
LEMMA ForwardStepInv ==
  ASSUME ForwardInv, F!Step
  PROVE  ForwardInv'
<1>0. /\ argv \in Seq(ArgumentTokens) /\ Len(argv) \in Nat \ {0} /\ i \in 0 .. Len(argv)
      /\ ForwardLines /\ ForwardState
  BY ArgumentType DEF ForwardInv, ForwardLines
<1>1. CASE F!LoadModel
  <2>1. /\ pc = "load" /\ UNCHANGED <<argv, i, printed, context, capacity>>
        /\ \/ pc' = "cache" /\ held' = held \cup {"model"} /\ result' = result
           \/ pc' = "exited" /\ result' = 1
    BY <1>1 DEF F!LoadModel, F!Acquired, F!GivesUp, F!decoder
  <2>2. ForwardState'
    BY <1>0, <2>1 DEF ForwardState
  <2> QED
    BY <1>0, <2>1, <2>2, ForwardQuiet DEF ForwardInv
<1>2. CASE F!InitState
  <2>1. /\ pc = "cache" /\ UNCHANGED <<argv, i, printed>>
        /\ \/ /\ pc' = "logits" /\ held' = held \cup {"state"} /\ result' = result
              /\ capacity' = Len(argv) /\ context' = << >>
           \/ pc' = "exited" /\ result' = 1 /\ UNCHANGED capacity
    BY <1>2 DEF F!InitState, F!Acquired, F!GivesUp, F!D!Open, F!D!Refuse
  <2>2. ForwardState'
    BY <1>0, <2>1 DEF ForwardState
  <2> QED
    BY <1>0, <2>1, <2>2, ForwardQuiet DEF ForwardInv
<1>3. CASE F!AllocateLogits
  <2>1. /\ pc = "logits" /\ UNCHANGED <<argv, i, printed>>
        /\ \/ /\ pc' = "run" /\ held' = held \cup {"logits"} /\ result' = result
              /\ UNCHANGED <<capacity, context>>
           \/ pc' = "exited" /\ result' = 1 /\ capacity' = 0
    BY <1>3 DEF F!AllocateLogits, F!Acquired, F!GivesUp, F!decoder, F!D!Close
  <2>2. i = 0 /\ context = << >> /\ SubSeq(argv, 1, i) = << >>
    <3>1. i = 0 /\ context = << >>
      BY <1>0, <2>1 DEF ForwardState
    <3> QED
      BY <3>1, SubSeqEmpty
  <2>3. ASSUME pc' = "run" PROVE ForwardState'
    <3>1. /\ held' = {"model", "state", "logits"} /\ capacity' = Len(argv') /\ result' = 0
          /\ i' = 0 /\ context' = SubSeq(argv', 1, i')
      BY <1>0, <2>1, <2>2, <2>3 DEF ForwardState
    <3> QED
      BY <2>3, <3>1 DEF ForwardState
  <2>4. ASSUME pc' = "exited" PROVE ForwardState'
    BY <2>1, <2>4 DEF ForwardState
  <2>5. ForwardState'
    BY <2>1, <2>3, <2>4
  <2> QED
    BY <1>0, <2>1, <2>5, ForwardQuiet DEF ForwardInv
<1>4. CASE F!RunToken
  <2>1. CASE pc' = "cleanup" /\ result' = 1 /\ UNCHANGED <<held, argv, i, printed, capacity>>
    <3>1. ForwardState'
      BY <1>0, <1>4, <2>1 DEF F!RunToken, ForwardState
    <3> QED
      BY <1>0, <2>1, <3>1, ForwardQuiet DEF ForwardInv
  <2>2. CASE /\ context' = Append(context, argv[i + 1]) /\ i' = i + 1 /\ logits' = context'
             /\ F!PrintLine([token |-> argv[i + 1], answers |-> logits'])
             /\ UNCHANGED <<pc, result, held, argv, capacity>>
    <3>1. pc = "run" /\ i < Len(argv) /\ context = SubSeq(argv, 1, i)
      BY <1>0, <1>4 DEF F!RunToken, ForwardState
    <3>2. /\ i + 1 \in 1 .. Len(argv) /\ argv[i + 1] \in ArgumentTokens
          /\ context' = SubSeq(argv, 1, i + 1) /\ context' \in Seq(ArgumentTokens)
      BY <1>0, <2>2, <3>1, PrefixGrows
    <3>3. ForwardLines'
      <4> DEFINE new == [token |-> argv[i + 1], answers |-> SubSeq(argv, 1, i + 1)]
      <4>1. /\ new \in Lines /\ new.answers = SubSeq(argv, 1, i + 1) /\ Len(new.answers) = i + 1
            /\ printed' \in {printed, Append(printed, new)}
        <5>1. Len(SubSeq(argv, 1, i + 1)) = i + 1
          BY <1>0, <3>2
        <5> QED
          BY <2>2, <3>2, <5>1 DEF Lines, F!PrintLine
      <4>2. printed \in Seq(Lines) /\ F!LinesAnswerPrefixes /\ i \in Nat
        BY <1>0 DEF ForwardLines
      <4>3. argv' = argv /\ i' = i + 1 /\ i' \in 0 .. Len(argv')
        BY <1>0, <2>2, <3>2
      <4>4. CASE printed' = printed
        <5>1. ASSUME NEW n \in 1 .. Len(printed) PROVE Len(printed[n].answers) \in 1 .. i + 1
          <6>1. Len(printed[n].answers) \in 1 .. i
            BY <4>2 DEF F!LinesAnswerPrefixes
          <6> QED
            BY ONLY <4>2, <6>1
        <5>2. F!LinesAnswerPrefixes'
          BY <4>2, <4>3, <4>4, <5>1 DEF F!LinesAnswerPrefixes
        <5> QED
          BY <1>0, <4>2, <4>3, <4>4, <5>2 DEF ForwardLines
      <4>5. CASE printed' = Append(printed, new)
        <5> DEFINE top == Len(printed)
        <5>1. /\ top \in Nat /\ printed' \in Seq(Lines) /\ Len(printed') = top + 1
              /\ printed'[top + 1] = new /\ \A n \in 1 .. top : printed'[n] = printed[n]
          <6> HIDE DEF new
          <6> QED
            BY <4>1, <4>2, <4>5
        <5> HIDE DEF top
        <5>2. \A n \in 1 .. top :
                /\ Len(printed[n].answers) \in 1 .. i
                /\ printed[n] = [token |-> argv[Len(printed[n].answers)],
                                  answers |-> SubSeq(argv, 1, Len(printed[n].answers))]
                /\ n > 1 => Len(printed[n - 1].answers) < Len(printed[n].answers)
          BY <4>2 DEF F!LinesAnswerPrefixes, top
        <5>3. ASSUME NEW n \in 1 .. top + 1
              PROVE  /\ Len(printed'[n].answers) \in 1 .. i'
                     /\ printed'[n] = [token |-> argv'[Len(printed'[n].answers)],
                                        answers |-> SubSeq(argv', 1, Len(printed'[n].answers))]
                     /\ n > 1 => Len(printed'[n - 1].answers) < Len(printed'[n].answers)
          <6>1. CASE n \in 1 .. top
            <7>1. n > 1 => n - 1 \in 1 .. top
              BY <5>1, <6>1
            <7>2. printed'[n] = printed[n] /\ (n > 1 => printed'[n - 1] = printed[n - 1])
              BY <5>1, <6>1, <7>1
            <7>3. Len(printed[n].answers) \in 1 .. i + 1
              <8>1. Len(printed[n].answers) \in 1 .. i
                BY <5>2, <6>1
              <8> QED
                BY ONLY <4>2, <8>1
            <7> QED
              BY <4>3, <5>2, <6>1, <7>2, <7>3
          <6>2. CASE n = top + 1
            <7>1. n > 1 => n - 1 \in 1 .. top
              BY <5>1, <6>2
            <7>2. n > 1 => Len(printed'[n - 1].answers) \in 1 .. i
              BY <5>1, <5>2, <7>1
            <7>3. printed'[n] = new /\ Len(printed'[n].answers) = i + 1
              BY <4>1, <5>1, <6>2
            <7> QED
              BY <4>2, <4>3, <7>2, <7>3
          <6> QED
            BY <5>1, <6>1, <6>2
        <5>4. F!LinesAnswerPrefixes'
          BY <5>1, <5>3 DEF F!LinesAnswerPrefixes
        <5> QED
          BY <1>0, <4>3, <5>1, <5>4 DEF ForwardLines
      <4> QED
        BY <4>1, <4>4, <4>5
    <3>4. ForwardState'
      BY <1>0, <2>2, <3>1, <3>2 DEF ForwardState
    <3> QED
      BY <3>3, <3>4 DEF ForwardInv
  <2> QED
    BY <1>4, <2>1, <2>2 DEF F!RunToken, F!D!Accept, F!D!Refuse
<1>5. CASE F!RunDone
  <2>1. /\ pc = "run" /\ i = Len(argv) /\ pc' = "cleanup"
        /\ UNCHANGED <<held, result, argv, i, printed, capacity, logits>>
    BY <1>5 DEF F!RunDone, F!decoder
  <2>2. logits = argv
    <3>1. SubSeq(argv, 1, Len(argv)) = argv /\ i > 0
      BY <1>0, <2>1, SubSeqFull
    <3> QED
      BY <1>0, <2>1, <3>1 DEF ForwardState
  <2>3. ForwardState'
    BY <1>0, <2>1, <2>2 DEF ForwardState
  <2> QED
    BY <1>0, <2>1, <2>3, ForwardQuiet DEF ForwardInv
<1>6. CASE F!Cleanup
  <2>1. /\ pc = "cleanup" /\ pc' = "exited" /\ capacity' = 0
        /\ UNCHANGED <<result, argv, i, printed, logits>>
    BY <1>6 DEF F!Cleanup, F!D!Close
  <2>2. ForwardState'
    BY <1>0, <2>1 DEF ForwardState
  <2> QED
    BY <1>0, <2>1, <2>2, ForwardQuiet DEF ForwardInv
<1> QED
  BY <1>1, <1>2, <1>3, <1>4, <1>5, <1>6 DEF F!Step
-----------------------------------------------------------------------------
\* Prompts are sequences over their own elements.
LEMMA PromptType == \A s \in Prompts : s \in Seq(PromptTokens)
<1> SUFFICES ASSUME NEW s \in Prompts PROVE s \in Seq(PromptTokens)
  OBVIOUS
<1>1. IsSequence(s) /\ Range(s) \subseteq PromptTokens
  BY MainAssumption DEF PromptTokens
<1> QED
  BY <1>1, SequenceOver

\* generate starts in its invariant.
LEMMA GenerateInit ==
  ASSUME G!Init
  PROVE  GenerateInv
<1>1. prompt \in Seq(PromptTokens) /\ max_tokens \in Nat \ {0} /\ Len(prompt) \in Nat
  BY PromptType, MainAssumption DEF G!Init
<1> QED
  BY <1>1 DEF G!Init, G!D!Init, GenerateInv, GenerateControl, GenerateReply, NoEos

\* The steps before there is a cache, and its allocation.
LEMMA GenerateStarts ==
  ASSUME GenerateInv,
         \/ G!LoadModel \/ G!InitTokenizer \/ G!VocabularyMismatch
         \/ G!EncodePrompt \/ G!EncodeFails \/ G!RefusePrompt
         \/ G!InitState \/ G!AllocateLogits
  PROVE  GenerateInv'
<1>0. GenerateControl /\ GenerateReply
  BY DEF GenerateInv
<1>1. /\ pc \in {"load", "tokenizer", "encode", "cache", "logits"}
      /\ UNCHANGED <<prompt, max_tokens, fed, i, next_token, output, logits>>
      /\ context' \in {context, << >>}
      /\ \/ /\ pc = "load" /\ pc' = "tokenizer" /\ held' = held \cup {"model"}
            /\ UNCHANGED <<capacity, result>>
         \/ /\ pc = "tokenizer" /\ pc' = "encode" /\ held' = held \cup {"tokenizer"}
            /\ UNCHANGED <<capacity, result>>
         \/ /\ pc = "encode" /\ pc' = "cache" /\ held' = held \cup {"prompt"} /\ prompt # << >>
            /\ UNCHANGED <<capacity, result>>
         \/ /\ pc = "cache" /\ pc' = "logits" /\ held' = held \cup {"state"}
            /\ capacity' = Len(prompt) + max_tokens /\ UNCHANGED result
         \/ /\ pc = "logits" /\ pc' = "prompt" /\ held' = held \cup {"logits"}
            /\ UNCHANGED <<capacity, result>>
         \/ pc' = "exited" /\ result' = 1 /\ (pc = "logits" => capacity' = 0)
            /\ (pc # "logits" => UNCHANGED capacity)
  BY DEF G!LoadModel, G!InitTokenizer, G!VocabularyMismatch, G!EncodePrompt, G!EncodeFails,
         G!RefusePrompt, G!InitState, G!AllocateLogits, G!Acquired, G!GivesUp, G!Fits,
         G!D!Open, G!D!Refuse, G!D!Close, G!decoder, G!args, G!loop
<1>2. GenerateControl'
  BY <1>0, <1>1 DEF GenerateControl
<1>3. /\ fed = 0 /\ i = 0 /\ output = << >> /\ context = << >> /\ logits = << >>
      /\ SubSeq(prompt, 1, fed) = << >>
  <2>1. fed = 0 /\ i = 0 /\ output = << >> /\ context = << >> /\ logits = << >>
    BY <1>0, <1>1 DEF GenerateReply
  <2> QED
    BY <2>1, SubSeqEmpty
<1>4. /\ fed' = 0 /\ i' = 0 /\ output' = << >> /\ context' = << >> /\ logits' = context'
      /\ context' = SubSeq(prompt', 1, fed')
      /\ fed' \in 0 .. Len(prompt') /\ output' \in Seq(PromptTokens)
      /\ context' \in Seq(PromptTokens)
  BY <1>0, <1>1, <1>3 DEF GenerateReply
<1>5. pc' \in {"tokenizer", "encode", "cache", "logits", "prompt"}
      \/ (pc' = "exited" /\ result' = 1)
  BY <1>1
<1>6. GenerateReply'
  BY <1>4, <1>5 DEF GenerateReply
<1> QED
  BY <1>2, <1>6 DEF GenerateInv

\* A token that joins a context the cache has room for, and the logits that answer it.
LEMMA GeneratePrompt ==
  ASSUME GenerateInv, G!PromptToken \/ G!PromptDone
  PROVE  GenerateInv'
<1>0. GenerateControl /\ GenerateReply
  BY DEF GenerateInv
<1>1. /\ pc = "prompt" /\ prompt # << >> /\ prompt \in Seq(PromptTokens) /\ Len(prompt) \in Nat
      /\ fed \in 0 .. Len(prompt) /\ context = SubSeq(prompt, 1, fed) /\ logits = context
      /\ i = 0 /\ output = << >> /\ result = 0 /\ max_tokens \in Nat \ {0}
  BY <1>0 DEF G!PromptToken, G!PromptDone, GenerateControl, GenerateReply
<1>2. CASE /\ fed < Len(prompt) /\ pc' = pc /\ result' = result /\ fed' = fed + 1
           /\ context' = Append(context, prompt[fed + 1]) /\ logits' = context'
           /\ UNCHANGED <<prompt, max_tokens, held, i, next_token, output, capacity>>
  <2>1. /\ fed + 1 \in 1 .. Len(prompt)
        /\ context' = SubSeq(prompt, 1, fed + 1) /\ context' \in Seq(PromptTokens)
    BY <1>1, <1>2, PrefixGrows
  <2>2. GenerateControl'
    BY <1>0, <1>1, <1>2 DEF GenerateControl
  <2>3. GenerateReply'
    BY <1>0, <1>1, <1>2, <2>1 DEF GenerateReply
  <2> QED
    BY <2>2, <2>3 DEF GenerateInv
<1>3. CASE /\ pc' = "cleanup" /\ result' = 1
           /\ UNCHANGED <<prompt, max_tokens, held, fed, i, next_token, output, capacity,
                          context, logits>>
  <2>1. GenerateControl'
    BY <1>0, <1>1, <1>3 DEF GenerateControl
  <2>2. GenerateReply'
    BY <1>0, <1>1, <1>3 DEF GenerateReply
  <2> QED
    BY <2>1, <2>2 DEF GenerateInv
<1>4. CASE /\ fed = Len(prompt) /\ pc' = "sample" /\ result' = result
           /\ UNCHANGED <<prompt, max_tokens, held, fed, i, next_token, output, capacity,
                          context, logits>>
  <2>1. context = prompt /\ context = prompt \o output
    BY <1>1, <1>4, SubSeqFull, ConcatEmptySeq
  <2>2. GenerateControl'
    BY <1>0, <1>1, <1>4 DEF GenerateControl
  <2>3. NoEos'
    BY <1>1, <1>4 DEF NoEos
  <2>4. GenerateReply'
    BY <1>0, <1>1, <1>4, <2>1, <2>3 DEF GenerateReply
  <2> QED
    BY <2>2, <2>4 DEF GenerateInv
<1> QED
  BY <1>2, <1>3, <1>4
  DEF G!PromptToken, G!PromptDone, G!Fails, G!args, G!loop, G!decoder, G!D!Accept, G!D!Refuse

\* The loop: a token is sampled, printed and, unless it is the last, joins the context.
LEMMA GenerateLoops ==
  ASSUME GenerateInv,
         \/ \E t \in G!Tokens : G!Sample(t)
         \/ G!SampleFails \/ G!WriteToken \/ G!ForwardToken \/ G!LimitReached
  PROVE  GenerateInv'
<1>0. GenerateControl /\ GenerateReply
  BY DEF GenerateInv
<1>1. /\ pc \in {"sample", "write", "forward"}
      /\ UNCHANGED <<prompt, max_tokens, held, fed, capacity>>
      /\ context # << >> /\ logits = context /\ context \in Seq(PromptTokens)
      /\ prompt \in Seq(PromptTokens) /\ max_tokens \in Nat \ {0}
      /\ output \in Seq(PromptTokens) /\ i \in Nat /\ fed \in 0 .. Len(prompt)
      /\ held = {"model", "tokenizer", "prompt", "state", "logits"}
      /\ capacity = Len(prompt) + max_tokens /\ result = 0 /\ NoEos
  BY <1>0 DEF G!Sample, G!SampleFails, G!WriteToken, G!ForwardToken, G!LimitReached, G!Fails,
              G!NextIteration, G!args, G!loop, G!decoder, G!D!Accept, G!D!Refuse,
              GenerateControl, GenerateReply
<1>2. ASSUME pc' \in {"sample", "write", "forward", "flush"},
             pc' # "flush" => result' = 0
      PROVE  GenerateControl'
  BY <1>0, <1>1, <1>2 DEF GenerateControl
<1>3. ASSUME pc' = "flush", result' = 1 \/ (result' = 0 /\ Complete'),
             UNCHANGED <<i, output, context, logits>>
      PROVE  GenerateInv'
  <2>1. GenerateReply'
    BY <1>1, <1>3 DEF GenerateReply
  <2> QED
    BY <1>2, <1>3, <2>1 DEF GenerateInv
<1>4. CASE \E t \in G!Tokens : G!Sample(t)
  <2>1. PICK t \in G!Tokens : G!Sample(t)
    BY <1>4
  <2>2. /\ pc = "sample" /\ i < max_tokens /\ next_token' = t
        /\ pc' = IF HasEos /\ t = G!Eos THEN "flush" ELSE "write"
        /\ UNCHANGED <<result, i, output, context, logits>>
        /\ Len(output) = i /\ context = prompt \o output
    BY <1>0, <2>1 DEF G!Sample, G!args, G!decoder, GenerateReply
  <2>3. NoEos'
    BY <1>1, <2>2 DEF NoEos
  <2>4. CASE HasEos /\ t = G!Eos
    BY <1>1, <1>3, <2>2, <2>3, <2>4 DEF Complete
  <2>5. CASE ~ (HasEos /\ t = G!Eos)
    <3>1. GenerateReply'
      BY <1>1, <2>2, <2>3, <2>5 DEF GenerateReply
    <3> QED
      BY <1>1, <1>2, <2>2, <2>5, <3>1 DEF GenerateInv
  <2> QED
    BY <2>4, <2>5
<1>5. CASE G!SampleFails
  BY <1>3, <1>5 DEF G!SampleFails, G!Fails, G!args, G!loop, G!decoder
<1>6. CASE G!WriteToken
  <2>1. /\ pc = "write" /\ UNCHANGED <<i, next_token, context, logits>>
        /\ \/ pc' = "forward" /\ output' = Append(output, next_token) /\ UNCHANGED result
           \/ pc' = "flush" /\ result' = 1 /\ UNCHANGED output
    BY <1>6 DEF G!WriteToken, G!Fails, G!args, G!loop, G!decoder
  <2>2. /\ i < max_tokens /\ Len(output) = i /\ context = prompt \o output
        /\ next_token \in G!Tokens /\ ~ (HasEos /\ next_token = G!Eos)
        /\ next_token \in PromptTokens
    BY <1>0, <2>1 DEF GenerateReply, PromptTokens
  <2>3. CASE pc' = "forward"
    <3>1. /\ output' \in Seq(PromptTokens) /\ Len(output') = i + 1
          /\ output'[i + 1] = next_token
          /\ \A k \in 1 .. i : output'[k] = output[k]
      <4>1. output' = Append(output, next_token)
        BY <2>1, <2>3
      <4>2. output \in Seq(PromptTokens) /\ next_token \in PromptTokens /\ Len(output) = i
        BY <1>1, <2>2
      <4> QED
        BY <4>1, <4>2
    <3>2. NoEos'
      <4> SUFFICES ASSUME HasEos, NEW k \in 1 .. Len(output') PROVE output'[k] # G!Eos
        BY DEF NoEos
      <4>1. k \in 1 .. i \/ k = i + 1
        BY <1>1, <3>1
      <4>2. ASSUME k \in 1 .. i PROVE output'[k] # G!Eos
        BY <1>1, <2>2, <3>1, <4>2 DEF NoEos
      <4> QED
        BY <2>2, <3>1, <4>1, <4>2
    <3>3. Append(context, next_token) = prompt \o output'
      <4>1. Append(context, next_token) = (prompt \o output) \o << next_token >>
        BY <1>1, <2>2, AppendIsConcat
      <4>2. output' = output \o << next_token >>
        BY <1>1, <2>1, <2>2, <2>3, AppendIsConcat
      <4>3. << next_token >> \in Seq(PromptTokens)
        BY <2>2
      <4>4. (prompt \o output) \o << next_token >> = prompt \o (output \o << next_token >>)
        BY <1>1, <4>3, ConcatAssociative
      <4> QED
        BY <4>1, <4>2, <4>4
    <3>4. GenerateReply'
      BY <1>1, <2>1, <2>2, <2>3, <3>1, <3>2, <3>3 DEF GenerateReply
    <3> QED
      BY <1>1, <1>2, <2>1, <2>3, <3>4 DEF GenerateInv
  <2>4. CASE pc' = "flush"
    BY <1>3, <2>1, <2>4
  <2> QED
    BY <2>1, <2>3, <2>4
<1>7. CASE G!ForwardToken
  <2>1. /\ pc = "forward" /\ UNCHANGED <<next_token, output>>
        /\ \/ /\ pc' = "sample" /\ i' = i + 1 /\ UNCHANGED result
              /\ \/ i + 1 >= max_tokens /\ UNCHANGED <<context, logits>>
                 \/ context' = Append(context, next_token) /\ logits' = context'
           \/ pc' = "flush" /\ result' = 1 /\ UNCHANGED <<i, context, logits>>
    BY <1>7 DEF G!ForwardToken, G!NextIteration, G!Fails, G!args, G!loop, G!decoder,
                G!D!Accept, G!D!Refuse
  <2>2. /\ i < max_tokens /\ Len(output) = i + 1 /\ next_token \in PromptTokens
        /\ Append(context, next_token) = prompt \o output
    BY <1>0, <2>1 DEF GenerateReply, PromptTokens
  <2>3. CASE pc' = "sample"
    <3>1. /\ context' \in Seq(PromptTokens) /\ context' # << >> /\ logits' = context'
          /\ i' < max_tokens => context' = prompt \o output
          /\ i' = i + 1 /\ result' = 0
      <4>1. CASE i + 1 >= max_tokens /\ UNCHANGED <<context, logits>> /\ i' = i + 1
        BY <1>1, <2>1, <2>3, <4>1
      <4>2. CASE context' = Append(context, next_token) /\ logits' = context' /\ i' = i + 1
        <5>1. context' \in Seq(PromptTokens) /\ context' # << >>
          BY <1>1, <2>2, <4>2
        <5> QED
          BY <1>1, <2>1, <2>2, <2>3, <4>2, <5>1
      <4> QED
        BY <2>1, <2>3, <4>1, <4>2
    <3>2. NoEos'
      BY <1>1, <2>1 DEF NoEos
    <3>3. GenerateReply'
      BY <1>1, <2>1, <2>2, <2>3, <3>1, <3>2 DEF GenerateReply
    <3> QED
      BY <1>2, <2>3, <3>1, <3>3 DEF GenerateInv
  <2>4. CASE pc' = "flush"
    BY <1>3, <2>1, <2>4
  <2> QED
    BY <2>1, <2>3, <2>4
<1>8. CASE G!LimitReached
  <2>1. /\ pc = "sample" /\ i >= max_tokens /\ pc' = "flush"
        /\ UNCHANGED <<result, i, next_token, output, context, logits>>
    BY <1>8 DEF G!LimitReached, G!args, G!loop, G!decoder
  <2>2. i <= max_tokens /\ Len(output) = i
    BY <1>0, <2>1 DEF GenerateReply
  <2>3. Len(output) = max_tokens
    BY <1>1, <2>1, <2>2
  <2>4. Complete'
    BY <1>1, <2>1, <2>3 DEF Complete, NoEos
  <2> QED
    BY <1>1, <1>3, <2>1, <2>4
<1> QED
  BY <1>4, <1>5, <1>6, <1>7, <1>8

\* The end of the command.
LEMMA GenerateEnds ==
  ASSUME GenerateInv, G!Flush \/ G!Cleanup
  PROVE  GenerateInv'
<1>0. GenerateControl /\ GenerateReply
  BY DEF GenerateInv
<1>1. /\ pc \in {"flush", "cleanup"} /\ pc' \in {"cleanup", "exited"}
      /\ UNCHANGED <<prompt, max_tokens, fed, i, next_token, output>>
      /\ result' = result \/ result' = 1
      /\ pc' = "exited" => capacity' = 0 /\ context' = << >>
      /\ pc' = "cleanup" => UNCHANGED <<held, capacity, context, logits>>
  BY DEF G!Flush, G!Cleanup, G!args, G!loop, G!decoder, G!D!Close
<1>2. GenerateControl'
  BY <1>0, <1>1 DEF GenerateControl
<1>3. Complete => Complete'
  BY <1>1 DEF Complete, NoEos
<1>4. /\ fed' \in 0 .. Len(prompt') /\ i' \in Nat /\ output' \in Seq(PromptTokens)
      /\ context' \in Seq(PromptTokens) /\ (pc' # "exited" => logits' = context')
  <2>1. /\ fed \in 0 .. Len(prompt) /\ i \in Nat /\ output \in Seq(PromptTokens)
        /\ context \in Seq(PromptTokens) /\ logits = context
    BY <1>0, <1>1 DEF GenerateReply
  <2>2. context' = << >> \/ (context' = context /\ logits' = logits)
    BY <1>1
  <2>3. pc' # "exited" => context' = context /\ logits' = logits
    BY <1>1
  <2>4. context' \in Seq(PromptTokens)
    BY <2>1, <2>2, EmptySeq
  <2> QED
    BY <1>1, <2>1, <2>3, <2>4
<1>5. result' = 0 => Complete'
  BY <1>0, <1>1, <1>3 DEF GenerateReply
<1>6. GenerateReply'
  BY <1>1, <1>4, <1>5 DEF GenerateReply
<1> QED
  BY <1>2, <1>6 DEF GenerateInv

\* Every step of generate.
LEMMA GenerateStepInv ==
  ASSUME GenerateInv, G!Step
  PROVE  GenerateInv'
BY GenerateStarts, GeneratePrompt, GenerateLoops, GenerateEnds DEF G!Step
-----------------------------------------------------------------------------
\* The fixed texts are tokens.
LEMMA FixedTexts ==
  /\ C!BosPart \o C!FirstPrefix \in Seq(ChatTokens) /\ C!TurnPrefix \in Seq(ChatTokens)
  /\ C!Suffix \in Seq(ChatTokens) /\ C!Suffix # << >>
<1>1. {C!Bos, C!ImStart, C!ImEnd, "system", "user", "assistant"} \subseteq ChatTokens
  BY DEF C!Tokens, ChatTokens
<1>2. C!FirstPrefix \in Seq(ChatTokens) /\ C!TurnPrefix \in Seq(ChatTokens)
      /\ C!Suffix \in Seq(ChatTokens) /\ C!Suffix # << >>
  BY <1>1 DEF C!FirstPrefix, C!TurnPrefix, C!Suffix
<1>3. C!BosPart \in Seq(ChatTokens)
  BY <1>1 DEF C!BosPart
<1> QED
  BY <1>2, <1>3, ConcatProperties

\* What one turn adds to the transcript of those before it.
TurnText(ts, t) ==
  (IF ts = << >> THEN C!BosPart \o C!FirstPrefix ELSE C!TurnPrefix)
     \o t.user \o C!Suffix \o t.reply

\* It is a sequence of tokens.
LEMMA TurnTextType ==
  ASSUME NEW ts, NEW t \in Turns
  PROVE  TurnText(ts, t) \in Seq(ChatTokens)
<1> DEFINE P == IF ts = << >> THEN C!BosPart \o C!FirstPrefix ELSE C!TurnPrefix
<1>1. P \in Seq(ChatTokens) /\ C!Suffix \in Seq(ChatTokens)
      /\ t.user \in Seq(ChatTokens) /\ t.reply \in Seq(ChatTokens)
  BY FixedTexts DEF Turns
<1> HIDE DEF P
<1>2. P \o t.user \in Seq(ChatTokens)
  BY <1>1, ConcatProperties
<1>3. P \o t.user \o C!Suffix \in Seq(ChatTokens)
  BY <1>1, <1>2, ConcatProperties
<1>4. P \o t.user \o C!Suffix \o t.reply \in Seq(ChatTokens)
  BY <1>1, <1>3, ConcatProperties
<1> QED
  BY <1>4 DEF TurnText, P

\* A new turn's text is appended to the transcript, which stays as it was otherwise.
LEMMA TranscriptGrows ==
  ASSUME NEW ts \in Seq(Turns), NEW t \in Turns
  PROVE  /\ C!Transcript(ts) \in Seq(ChatTokens)
         /\ C!Transcript(Append(ts, t)) = C!Transcript(ts) \o TurnText(ts, t)
<1> DEFINE us == Append(ts, t)
           p == [n \in 1 .. Len(ts) |-> C!TurnTokens(ts, n)]
           q == [n \in 1 .. Len(us) |-> C!TurnTokens(us, n)]
<1>1. /\ Len(ts) \in Nat /\ Len(us) = Len(ts) + 1 /\ us[Len(ts) + 1] = t
      /\ \A n \in 1 .. Len(ts) : us[n] = ts[n] /\ ts[n] \in Turns
      /\ ts = << >> <=> Len(ts) = 0
  OBVIOUS
<1> HIDE DEF us
<1>2. ASSUME NEW n \in 1 .. Len(ts)
      PROVE  C!TurnTokens(ts, n) \in Seq(ChatTokens) /\ C!TurnTokens(us, n) = C!TurnTokens(ts, n)
  <2>1. C!TurnTokens(ts, n) = TurnText(IF n = 1 THEN << >> ELSE <<1>>, ts[n])
    BY DEF C!TurnTokens, TurnText
  <2>2. C!TurnTokens(us, n) = C!TurnTokens(ts, n)
    BY <1>1 DEF C!TurnTokens
  <2> QED
    BY <1>1, <2>1, <2>2, TurnTextType
<1>3. C!TurnTokens(us, Len(us)) = TurnText(ts, t) /\ TurnText(ts, t) \in Seq(ChatTokens)
  <2>1. Len(us) = 1 <=> ts = << >>
    BY <1>1
  <2>2. us[Len(us)] = t
    BY <1>1
  <2> QED
    BY <2>1, <2>2, TurnTextType DEF C!TurnTokens, TurnText
<1>4. p \in Seq(Seq(ChatTokens)) /\ Len(p) = Len(ts)
  BY <1>1, <1>2
<1>5. q = Append(p, TurnText(ts, t))
  <2> HIDE DEF p
  <2>1. /\ Append(p, TurnText(ts, t)) \in Seq(Seq(ChatTokens))
        /\ Len(Append(p, TurnText(ts, t))) = Len(us)
        /\ \A n \in 1 .. Len(ts) : Append(p, TurnText(ts, t))[n] = p[n]
        /\ Append(p, TurnText(ts, t))[Len(us)] = TurnText(ts, t)
    BY <1>1, <1>3, <1>4, AppendProperties
  <2>2. /\ q \in Seq(Seq(ChatTokens)) /\ Len(q) = Len(us)
        /\ \A n \in 1 .. Len(us) : q[n] = C!TurnTokens(us, n)
    <3>1. \A n \in 1 .. Len(us) : C!TurnTokens(us, n) \in Seq(ChatTokens)
      BY <1>1, <1>2, <1>3
    <3> QED
      BY <1>1, <3>1
  <2>3. \A n \in 1 .. Len(ts) : p[n] = C!TurnTokens(ts, n)
    BY DEF p
  <2> HIDE DEF q
  <2>4. \A n \in 1 .. Len(us) : q[n] = Append(p, TurnText(ts, t))[n]
    BY <1>1, <1>2, <1>3, <2>1, <2>2, <2>3
  <2> QED
    BY <2>1, <2>2, <2>4, SeqEqual
<1>6. C!Transcript(ts) = FlattenSeq(p) /\ C!Transcript(us) = FlattenSeq(q)
  BY DEF C!Transcript, C!FlattenSeq, FlattenSeq
<1> HIDE DEF p, q
<1> QED
  BY <1>3, <1>4, <1>5, <1>6, FlattenAppend DEF us
-----------------------------------------------------------------------------
\* No turn, no text.
LEMMA TranscriptEmpty == C!Transcript(<< >>) = << >>
<1>1. [n \in 1 .. Len(<< >>) |-> C!TurnTokens(<< >>, n)] = << >>
  OBVIOUS
<1> QED
  BY <1>1 DEF C!Transcript, C!FlattenSeq

\* A conversation that has begun has a context that is not empty.
LEMMA TranscriptType ==
  ASSUME NEW ts \in Seq(Turns)
  PROVE  C!Transcript(ts) \in Seq(ChatTokens) /\ (ts # << >> => C!Transcript(ts) # << >>)
<1>1. CASE ts = << >>
  BY <1>1, TranscriptEmpty, EmptySeq
<1>2. CASE ts # << >>
  <2> DEFINE f == Front(ts)
             t == Last(ts)
             P == IF f = << >> THEN C!BosPart \o C!FirstPrefix ELSE C!TurnPrefix
  <2>1. f \in Seq(Turns) /\ t \in Turns /\ ts = Append(f, t)
    BY <1>2, FrontAndLast
  <2> HIDE DEF f, t
  <2>2. /\ C!Transcript(f) \in Seq(ChatTokens)
        /\ C!Transcript(ts) = C!Transcript(f) \o TurnText(f, t)
    BY <2>1, TranscriptGrows
  <2>3. P \in Seq(ChatTokens) /\ C!Suffix \in Seq(ChatTokens) /\ C!Suffix # << >>
        /\ t.user \in Seq(ChatTokens) /\ t.reply \in Seq(ChatTokens)
    BY <2>1, FixedTexts DEF Turns
  <2>4. TurnText(f, t) = P \o t.user \o C!Suffix \o t.reply
    BY DEF TurnText
  <2> HIDE DEF P
  <2>5. P \o t.user \in Seq(ChatTokens) /\ P \o t.user \o C!Suffix \in Seq(ChatTokens)
    BY <2>3, ConcatProperties
  <2>6. P \o t.user \o C!Suffix # << >>
    BY <2>3, <2>5, ConcatEqualIffEmpty
  <2>7. TurnText(f, t) # << >> /\ TurnText(f, t) \in Seq(ChatTokens)
    BY <2>1, <2>3, <2>4, <2>5, <2>6, ConcatEqualIffEmpty, TurnTextType
  <2>8. C!Transcript(ts) # << >>
    BY <2>2, <2>7, ConcatEqualIffEmpty
  <2> QED
    BY <2>2, <2>7, <2>8, ConcatProperties
<1> QED
  BY <1>1, <1>2

\* A token printed joins the transcript at its end.
LEMMA TranscriptSays ==
  ASSUME NEW ts \in Seq(Turns), ts # << >>, NEW x \in ChatTokens
  PROVE  LET us == [ts EXCEPT ![Len(ts)].reply = Append(@, x)]
         IN  us \in Seq(Turns) /\ us # << >>
             /\ C!Transcript(us) = Append(C!Transcript(ts), x)
<1> DEFINE f == Front(ts)
           t == Last(ts)
           u == [t EXCEPT !.reply = Append(@, x)]
           us == [ts EXCEPT ![Len(ts)].reply = Append(@, x)]
           P == IF f = << >> THEN C!BosPart \o C!FirstPrefix ELSE C!TurnPrefix
           Q == P \o t.user \o C!Suffix
<1>1. f \in Seq(Turns) /\ t \in Turns /\ ts = Append(f, t) /\ Len(f) + 1 = Len(ts)
      /\ Len(ts) \in Nat \ {0} /\ t = ts[Len(ts)]
  BY FrontAndLast DEF Last
<1>2. u \in Turns /\ u.user = t.user /\ u.reply = Append(t.reply, x)
      /\ t.user \in Seq(ChatTokens) /\ t.reply \in Seq(ChatTokens)
  <2>1. t.user \in Seq(ChatTokens) /\ t.reply \in Seq(ChatTokens)
    BY <1>1 DEF Turns
  <2>2. Append(t.reply, x) \in Seq(ChatTokens)
    BY <2>1
  <2> HIDE DEF t
  <2> QED
    BY <1>1, <2>1, <2>2 DEF Turns
<1>3. us = [ts EXCEPT ![Len(ts)] = u]
  BY <1>1
<1>4. us \in Seq(Turns) /\ us = Append(f, u) /\ us # << >>
  <2> HIDE DEF us, u, f, t
  <2>1. us \in Seq(Turns) /\ Len(us) = Len(ts) /\ us[Len(ts)] = u
        /\ \A k \in 1 .. Len(f) : us[k] = ts[k]
    <3>1. Len(ts) \in 1 .. Len(ts) /\ \A k \in 1 .. Len(f) : k # Len(ts) /\ k \in 1 .. Len(ts)
      BY <1>1
    <3> QED
      <4> DEFINE e == [ts EXCEPT ![Len(ts)] = u]
      <4>1. e \in Seq(Turns) /\ Len(e) = Len(ts) /\ e[Len(ts)] = u
            /\ \A k \in 1 .. Len(ts) : k # Len(ts) => e[k] = ts[k]
        <5>1. ts \in [1 .. Len(ts) -> Turns] /\ Len(ts) \in 1 .. Len(ts) /\ u \in Turns
          BY <1>1, <1>2, <3>1, LenProperties
        <5>2. e \in [1 .. Len(ts) -> Turns]
          BY <5>1
        <5>3. e[Len(ts)] = u /\ \A k \in 1 .. Len(ts) : k # Len(ts) => e[k] = ts[k]
          BY <5>1
        <5> HIDE DEF e
        <5>4. e \in Seq(Turns) /\ Len(e) = Len(ts)
          BY <1>1, <5>2
        <5> QED
          BY <5>3, <5>4
      <4> HIDE DEF e
      <4>2. us = e
        BY <1>3 DEF e
      <4> QED
        BY <3>1, <4>1, <4>2
  <2>2. Append(f, u) \in Seq(Turns) /\ Len(Append(f, u)) = Len(ts) /\ Append(f, u)[Len(ts)] = u
        /\ \A k \in 1 .. Len(f) : Append(f, u)[k] = f[k]
    BY <1>1, <1>2
  <2>3. \A k \in 1 .. Len(f) : f[k] = ts[k]
    BY <1>1
  <2>4. \A k \in 1 .. Len(us) : us[k] = Append(f, u)[k]
    BY <1>1, <2>1, <2>2, <2>3
  <2> QED
    BY <1>1, <2>1, <2>2, <2>4, SeqEqual
<1> HIDE DEF us, u, f, t
<1>5. /\ C!Transcript(f) \in Seq(ChatTokens)
      /\ C!Transcript(ts) = C!Transcript(f) \o TurnText(f, t)
      /\ C!Transcript(us) = C!Transcript(f) \o TurnText(f, u)
  BY <1>1, <1>2, <1>4, TranscriptGrows
<1>6. Q \in Seq(ChatTokens) /\ TurnText(f, t) = Q \o t.reply /\ TurnText(f, u) = Q \o u.reply
  <2>1. P \in Seq(ChatTokens) /\ C!Suffix \in Seq(ChatTokens)
    BY FixedTexts
  <2>2. TurnText(f, t) = Q \o t.reply /\ TurnText(f, u) = Q \o u.reply
    BY <1>2 DEF TurnText
  <2> HIDE DEF P
  <2>3. P \o t.user \in Seq(ChatTokens)
    BY <1>2, <2>1, ConcatProperties
  <2>4. Q \in Seq(ChatTokens)
    BY <2>1, <2>3, ConcatProperties
  <2> QED
    BY <2>2, <2>4
<1> HIDE DEF Q
<1>7. << x >> \in Seq(ChatTokens)
  OBVIOUS
<1>8. TurnText(f, u) = TurnText(f, t) \o << x >>
  <2>1. u.reply = t.reply \o << x >>
    BY <1>2, AppendIsConcat
  <2>2. Q \o (t.reply \o << x >>) = (Q \o t.reply) \o << x >>
    <3> DEFINE r == t.reply
               z == << x >>
    <3>1. r \in Seq(ChatTokens) /\ Q \in Seq(ChatTokens) /\ z \in Seq(ChatTokens)
      BY <1>2, <1>6, <1>7
    <3> HIDE DEF r, z
    <3>2. Q \o (r \o z) = (Q \o r) \o z
      BY <3>1, ConcatAssociative
    <3> QED
      BY <3>2 DEF r, z
  <2> QED
    BY <1>6, <2>1, <2>2
<1>9. TurnText(f, t) \in Seq(ChatTokens)
  BY <1>1, TurnTextType
<1>10. C!Transcript(us) = C!Transcript(ts) \o << x >>
  BY <1>5, <1>7, <1>8, <1>9, ConcatAssociative
<1>11. C!Transcript(ts) \in Seq(ChatTokens)
  BY TranscriptType
<1>12. C!Transcript(us) = Append(C!Transcript(ts), x)
  BY <1>10, <1>11, AppendIsConcat
<1> QED
  BY <1>4, <1>12 DEF us
-----------------------------------------------------------------------------
\* chat starts in its invariant.
LEMMA ChatInit ==
  ASSUME C!Init
  PROVE  ChatInv
<1>1. << >> \in Seq(ChatTokens) /\ << >> \in Seq(Turns) /\ << >> \in Seq(Seq(ChatTokens))
  BY EmptySeq
<1> QED
  BY <1>1 DEF C!Init, C!D!Init, ChatInv, ChatControl, ChatTalk, ChatRoom

\* What no step of the start-up touches.
LEMMA ChatStarts ==
  ASSUME ChatInv, C!Startup
  PROVE  ChatInv'
<1>0. ChatControl /\ ChatTalk /\ ChatRoom
  BY DEF ChatInv
<1>1. /\ pc \in {"load", "tokenizer", "markers", "cache", "logits"}
      /\ UNCHANGED <<first_turn, context_full, texts, feeding, i, generation_limit,
                     next_token, turns, said_full, logits>>
      /\ context' \in {context, << >>}
      /\ \/ /\ pc = "load" /\ pc' = "tokenizer" /\ held' = held \cup {"model"}
            /\ UNCHANGED <<capacity, result>>
         \/ /\ pc = "tokenizer" /\ pc' = "markers" /\ held' = held \cup {"tokenizer"}
            /\ UNCHANGED <<capacity, result>>
         \/ /\ pc = "markers" /\ pc' = "cache"
            /\ UNCHANGED <<held, capacity, result>>
         \/ /\ pc = "cache" /\ pc' = "logits" /\ held' = held \cup {"state"}
            /\ capacity' \in Nat /\ UNCHANGED result
         \/ /\ pc = "logits" /\ pc' = "prompt" /\ held' = held \cup {"logits"}
            /\ UNCHANGED <<capacity, result>>
         \/ /\ pc' = "exited" /\ (pc = "logits" => capacity' = 0)
            /\ (pc # "logits" => UNCHANGED capacity)
  BY MainAssumption
  DEF C!Startup, C!LoadModel, C!InitTokenizer, C!VocabularyMismatch, C!FindMarkers, C!InitState,
      C!AllocateLogits, C!Acquired, C!GivesUp, C!D!Open, C!D!Refuse, C!D!Close, C!decoder, C!loop
<1>2. /\ first_turn /\ turns = << >> /\ context = << >> /\ logits = << >>
      /\ texts = << >> /\ feeding = << >> /\ result = 0
  BY <1>0, <1>1 DEF ChatControl, ChatTalk
<1>3. ChatControl'
  BY <1>0, <1>1, <1>2 DEF ChatControl, AllHeld
<1>4. /\ context' = << >> /\ turns' = << >> /\ texts' = << >> /\ feeding' = << >>
      /\ logits' = << >>
      /\ pc' \in {"tokenizer", "markers", "cache", "logits", "prompt", "exited"}
  BY <1>1, <1>2
<1>5. << >> \in Seq(ChatTokens) /\ << >> \in Seq(Turns) /\ << >> \in Seq(Seq(ChatTokens))
  BY EmptySeq
<1>6. ChatTalk'
  BY <1>4, <1>5, TranscriptEmpty DEF ChatTalk
<1>7. ChatRoom'
  <2>1. Len(context') <= capacity'
    <3>1. Len(context') = 0 /\ capacity' \in Nat
      BY <1>3, <1>4 DEF ChatControl
    <3> QED
      BY <3>1
  <2>2. i' \in Nat /\ generation_limit' \in Nat
    BY <1>0, <1>1 DEF ChatRoom
  <2>3. pc' \notin {"feed", "sample", "write", "forward", "turn_end"}
    BY <1>4
  <2> QED
    BY <2>1, <2>2, <2>3 DEF ChatRoom
<1> QED
  BY <1>3, <1>6, <1>7 DEF ChatInv

\* The text of a line is a sequence of characters.
LEMMA LineText ==
  ASSUME LineInv, read_pc = "line"
  PROVE  Front(line) \in Seq(Characters)
<1>1. typed \in Seq(Characters)
  BY DEF LineInv
<1>2. Front(typed) \in Seq(Characters)
  <2>1. CASE typed = << >>
    BY <2>1, SubSeqEmpty, EmptySeq DEF Front
  <2>2. CASE typed # << >>
    BY <1>1, <2>2, FrontAndLast
  <2> QED
    BY <2>1, <2>2
<1> QED
  BY <1>1, <1>2 DEF LineInv

\* A turn begins: its texts are what the transcript has of it so far.
LEMMA ChatReadsText ==
  ASSUME ChatInv, NEW u \in Seq(Characters), C!ReadText(u)
  PROVE  ChatInv'
<1>0. ChatControl /\ ChatTalk /\ ChatRoom
  BY DEF ChatInv
<1> DEFINE P == IF turns = << >> THEN C!BosPart \o C!FirstPrefix ELSE C!TurnPrefix
           t == [user |-> u, reply |-> << >>]
<1>1. /\ pc = "prompt" /\ pc' = "feed" /\ held' = held \cup {"line"}
      /\ texts' = <<P, u, C!Suffix>> /\ turns' = Append(turns, t)
      /\ UNCHANGED <<result, first_turn, feeding, i, generation_limit, next_token, capacity,
                     context, logits>>
  BY <1>0 DEF C!ReadText, C!decoder, C!Prefix, ChatControl
<1>2. /\ turns \in Seq(Turns) /\ feeding = << >> /\ context = C!Transcript(turns)
      /\ context \in Seq(ChatTokens) /\ logits = context /\ result = 0
      /\ held = AllHeld /\ capacity \in Nat
  BY <1>0, <1>1 DEF ChatControl, ChatTalk
<1>3. u \in Seq(ChatTokens) /\ P \in Seq(ChatTokens) /\ C!Suffix \in Seq(ChatTokens)
  <2>1. u \in Seq(ChatTokens)
    BY SeqMonotonic DEF ChatTokens
  <2> QED
    BY <2>1, FixedTexts
<1>4. t \in Turns /\ t.user = u /\ t.reply = << >>
  BY <1>3, EmptySeq DEF Turns
<1>5. TurnText(turns, t) = P \o u \o C!Suffix
  <2>1. TurnText(turns, t) = P \o u \o C!Suffix \o << >>
    BY <1>4 DEF TurnText
  <2> HIDE DEF P
  <2>2. P \o u \o C!Suffix \in Seq(ChatTokens)
    <3>1. P \o u \in Seq(ChatTokens)
      BY <1>3, ConcatProperties
    <3> QED
      BY <1>3, <3>1, ConcatProperties
  <2> QED
    BY <2>1, <2>2, ConcatEmptySeq
<1> HIDE DEF P, t
<1>6. Remaining(texts') = TurnText(turns, t) /\ Len(texts') = 3
      /\ texts' \in Seq(Seq(ChatTokens))
  BY <1>1, <1>3, <1>5 DEF Remaining
<1>7. turns' \in Seq(Turns) /\ turns' # << >> /\ turns'[Len(turns')] = t
  BY <1>1, <1>2, <1>4
<1>8. context' \o (feeding' \o Remaining(texts')) = C!Transcript(turns')
  <2>1. TurnText(turns, t) \in Seq(ChatTokens)
    BY <1>4, TurnTextType
  <2>2. << >> \o TurnText(turns, t) = TurnText(turns, t)
    BY <2>1, ConcatEmptySeq
  <2>3. C!Transcript(Append(turns, t)) = C!Transcript(turns) \o TurnText(turns, t)
    BY <1>2, <1>4, TranscriptGrows
  <2> QED
    BY <1>1, <1>2, <1>6, <2>2, <2>3
<1>9. ChatControl'
  BY <1>0, <1>1, <1>2, <1>7 DEF ChatControl
<1>10. ChatTalk'
  <2>1. /\ pc' = "feed" /\ context' \in Seq(ChatTokens) /\ feeding' \in Seq(ChatTokens)
        /\ logits' = context' /\ turns'[Len(turns')].reply = << >> /\ Len(texts') <= 3
    BY <1>1, <1>2, <1>4, <1>6, <1>7, EmptySeq
  <2> QED
    BY <1>6, <1>7, <1>8, <2>1 DEF ChatTalk
<1>11. Len(context) <= capacity
  BY <1>0, <1>1 DEF ChatRoom
<1>12. ChatRoom'
  BY <1>0, <1>1, <1>2, <1>11 DEF ChatRoom
<1> QED
  BY <1>9, <1>10, <1>12 DEF ChatInv

\* The other answers of read_line.
LEMMA ChatReadsElse ==
  ASSUME ChatInv, C!ReadEmptyLine \/ C!ReadEnd \/ C!ReadFails
  PROVE  ChatInv'
<1>0. ChatControl /\ ChatTalk /\ ChatRoom
  BY DEF ChatInv
<1>1. /\ pc = "prompt" /\ pc' \in {"prompt", "cleanup"} /\ held' \in {held, held \ {"line"}}
      /\ pc' = "prompt" => result' = result
      /\ UNCHANGED <<first_turn, texts, feeding, i, generation_limit, next_token, turns,
                     capacity, context, logits>>
  BY DEF C!ReadEmptyLine, C!ReadEnd, C!ReadFails, C!PromptFails, C!loop, C!vars, C!chat, C!decoder
<1>2. held' = AllHeld
  <2>1. held = AllHeld /\ AllHeld \ {"line"} = AllHeld
    BY <1>0, <1>1 DEF ChatControl, AllHeld
  <2> QED
    BY <1>1, <2>1
<1>3. ChatControl'
  BY <1>0, <1>1, <1>2 DEF ChatControl
<1>4. ChatTalk'
  BY <1>0, <1>1 DEF ChatTalk
<1>5. ChatRoom'
  BY <1>0, <1>1 DEF ChatRoom
<1> QED
  BY <1>3, <1>4, <1>5 DEF ChatInv

\* The first text of a prompt leaves the others.
LEMMA RemainingTakes ==
  ASSUME NEW S, NEW ts \in Seq(Seq(S)), ts # << >>, Len(ts) <= 3
  PROVE  /\ Head(ts) \in Seq(S) /\ Tail(ts) \in Seq(Seq(S)) /\ Len(Tail(ts)) <= 3
         /\ Remaining(ts) = Head(ts) \o Remaining(Tail(ts))
         /\ Remaining(Tail(ts)) \in Seq(S)
<1> DEFINE T == Seq(S)
           us == Tail(ts)
<1>1. /\ Len(ts) \in {1, 2, 3} /\ \A k \in 1 .. Len(ts) : ts[k] \in T
      /\ Head(ts) = ts[1] /\ us \in Seq(T) /\ Len(us) = Len(ts) - 1
      /\ \A k \in 1 .. Len(ts) - 1 : us[k] = ts[k + 1]
  <2>1. ts \in Seq(T)
    OBVIOUS
  <2> HIDE DEF T
  <2>2. Len(ts) \in {1, 2, 3}
    <3> DEFINE n == Len(ts)
    <3>1. n \in Nat \ {0} /\ n <= 3
      BY <2>1, EmptySeq
    <3> HIDE DEF n
    <3>2. n \in {1, 2, 3}
      BY ONLY <3>1
    <3> QED
      BY <3>2 DEF n
  <2>5. \A k \in 1 .. Len(ts) : ts[k] \in T
    BY ONLY <2>1
  <2>3. Head(ts) = ts[1] /\ us \in Seq(T) /\ Len(us) = Len(ts) - 1
    BY <2>1, HeadTailProperties
  <2>4. \A k \in 1 .. Len(ts) - 1 : us[k] = ts[k + 1]
    BY <2>1, HeadTailProperties
  <2> QED
    BY <2>2, <2>3, <2>4, <2>5
<1>2. ts[1] \in T
  BY <1>1
<1> HIDE DEF us
<1>3. Remaining(ts) = ts[1] \o Remaining(us) /\ Remaining(us) \in Seq(S)
  <2>1. CASE Len(ts) = 1
    <3>1. Remaining(ts) = ts[1] /\ Len(us) = 0
      BY <1>1, <2>1 DEF Remaining
    <3>2. Remaining(us) = << >>
      BY <3>1 DEF Remaining
    <3> QED
      BY <1>2, <3>1, <3>2, EmptySeq, ConcatEmptySeq
  <2>2. CASE Len(ts) = 2
    <3>1. Remaining(ts) = ts[1] \o ts[2] /\ Len(us) = 1 /\ us[1] = ts[2] /\ ts[2] \in T
      BY <1>1, <2>2 DEF Remaining
    <3>2. Remaining(us) = ts[2]
      BY <3>1 DEF Remaining
    <3> QED
      BY <3>1, <3>2
  <2>3. CASE Len(ts) = 3
    <3>1. /\ Remaining(ts) = ts[1] \o ts[2] \o ts[3] /\ Len(us) = 2
          /\ us[1] = ts[2] /\ us[2] = ts[3] /\ ts[2] \in T /\ ts[3] \in T
      BY <1>1, <2>3 DEF Remaining
    <3>2. Remaining(us) = ts[2] \o ts[3]
      <4>1. Len(us) = 2 /\ us[1] = ts[2] /\ us[2] = ts[3]
        BY <3>1
      <4>2. Remaining(us) = us[1] \o us[2]
        <5>1. us \in Seq(T) /\ \A k \in 1 .. Len(us) : us[k] \in T
          BY <1>1
        <5> HIDE DEF T
        <5> QED
          BY <5>1, <4>1 DEF Remaining
      <4> QED
        BY <4>1, <4>2
    <3> DEFINE x == ts[1]
               y == ts[2]
               z == ts[3]
    <3>3. x \in Seq(S) /\ y \in Seq(S) /\ z \in Seq(S)
      BY <1>2, <3>1
    <3> HIDE DEF x, y, z
    <3>4. x \o y \o z = x \o (y \o z)
      BY ONLY <3>3, ConcatAssociative
    <3>5. y \o z \in Seq(S)
      BY <3>3, ConcatProperties
    <3> QED
      BY <3>1, <3>2, <3>4, <3>5 DEF x, y, z
  <2> QED
    BY <1>1, <2>1, <2>2, <2>3
<1>4. Len(us) <= 3
  BY <1>1
<1> QED
  BY <1>1, <1>2, <1>3, <1>4 DEF us

\* A prompt that fails is not shown as fed: the loop ends.
LEMMA ChatPromptFails ==
  ASSUME ChatInv, pc = "feed", C!PromptFails, UNCHANGED <<capacity, context, logits>>
  PROVE  ChatInv'
<1>0. ChatControl /\ ChatTalk /\ ChatRoom
  BY DEF ChatInv
<1>1. /\ pc' = "cleanup" /\ held' = held \ {"line"}
      /\ UNCHANGED <<first_turn, texts, feeding, i, generation_limit, next_token, turns>>
  BY DEF C!PromptFails, C!loop
<1>2. held' = AllHeld
  <2>1. held = AllHeld \cup {"line"} /\ (AllHeld \cup {"line"}) \ {"line"} = AllHeld
    BY <1>0 DEF ChatControl, AllHeld
  <2> QED
    BY <1>1, <2>1
<1>3. ChatControl'
  BY <1>0, <1>1, <1>2 DEF ChatControl
<1>4. ChatTalk'
  BY <1>0, <1>1 DEF ChatTalk
<1>5. ChatRoom'
  BY <1>0, <1>1 DEF ChatRoom
<1> QED
  BY <1>3, <1>4, <1>5 DEF ChatInv

\* Feeding moves the texts of the prompt into the context, in order and whole.
LEMMA ChatFeeds ==
  ASSUME ChatInv, C!FeedText \/ C!FeedToken
  PROVE  ChatInv'
<1>0. ChatControl /\ ChatTalk /\ ChatRoom
  BY DEF ChatInv
<1>1. /\ pc = "feed" /\ result = 0 /\ turns # << >> /\ capacity \in Nat
      /\ context \in Seq(ChatTokens) /\ turns \in Seq(Turns) /\ logits = context
      /\ texts \in Seq(Seq(ChatTokens)) /\ feeding \in Seq(ChatTokens)
      /\ Len(texts) <= 3 /\ turns[Len(turns)].reply = << >>
      /\ context \o (feeding \o Remaining(texts)) = C!Transcript(turns)
      /\ Len(context) \in Nat /\ Len(feeding) \in Nat
      /\ Len(context) + Len(feeding) <= capacity
  <2>1. pc = "feed"
    BY DEF C!FeedText, C!FeedToken
  <2>2. result = 0 /\ turns # << >> /\ capacity \in Nat
    BY <1>0, <2>1 DEF ChatControl
  <2>3. /\ context \in Seq(ChatTokens) /\ turns \in Seq(Turns) /\ logits = context
        /\ texts \in Seq(Seq(ChatTokens)) /\ feeding \in Seq(ChatTokens)
        /\ Len(texts) <= 3 /\ turns[Len(turns)].reply = << >>
        /\ context \o (feeding \o Remaining(texts)) = C!Transcript(turns)
    BY <1>0, <2>1 DEF ChatTalk
  <2>4. Len(context) \in Nat /\ Len(feeding) \in Nat
    BY <2>3, LenProperties
  <2>5. Len(context) + Len(feeding) <= capacity
    BY <1>0, <2>1 DEF ChatRoom
  <2> QED
    BY <2>1, <2>2, <2>3, <2>4, <2>5
<1>2. ASSUME UNCHANGED <<pc, held, result, first_turn, i, generation_limit, next_token, turns,
                         capacity>>,
             context' \in Seq(ChatTokens), texts' \in Seq(Seq(ChatTokens)),
             feeding' \in Seq(ChatTokens), logits' = context', Len(texts') <= 3,
             context' \o (feeding' \o Remaining(texts')) = C!Transcript(turns),
             Len(context') + Len(feeding') <= capacity
      PROVE  ChatInv'
  <2>1. ChatControl'
    BY <1>0, <1>1, <1>2 DEF ChatControl
  <2>2. ChatTalk'
    BY <1>1, <1>2 DEF ChatTalk
  <2>3. ChatRoom'
    BY <1>0, <1>1, <1>2 DEF ChatRoom
  <2> QED
    BY <2>1, <2>2, <2>3 DEF ChatInv
<1>3. CASE C!FeedText /\ pc' = "feed"
  <2>1. /\ feeding = << >> /\ texts # << >> /\ Len(Head(texts)) <= capacity - Len(context)
        /\ feeding' = Head(texts) /\ texts' = Tail(texts)
        /\ UNCHANGED <<pc, held, result, first_turn, i, generation_limit, next_token, turns,
                       capacity, context, logits>>
    BY <1>3 DEF C!FeedText, C!PromptFails, C!decoder
  <2>2. /\ Head(texts) \in Seq(ChatTokens) /\ Tail(texts) \in Seq(Seq(ChatTokens))
        /\ Len(Tail(texts)) <= 3
        /\ Remaining(texts) = Head(texts) \o Remaining(Tail(texts))
        /\ Remaining(Tail(texts)) \in Seq(ChatTokens)
    BY <1>1, <2>1, RemainingTakes
  <2>3. Remaining(texts) \in Seq(ChatTokens)
    BY <2>2, ConcatProperties
  <2>4. feeding \o Remaining(texts) = feeding' \o Remaining(texts')
    BY <2>1, <2>2, <2>3, ConcatEmptySeq
  <2>5. Len(context) + Len(feeding') <= capacity
    BY <1>1, <2>1, <2>2
  <2> QED
    BY <1>1, <1>2, <2>1, <2>2, <2>4, <2>5
<1>4. CASE C!FeedToken /\ pc' = "feed"
  <2> DEFINE h == Head(feeding)
             t == Tail(feeding)
             r == Remaining(texts)
  <2>1. /\ feeding # << >> /\ context' = Append(context, h) /\ logits' = context'
        /\ feeding' = t
        /\ UNCHANGED <<pc, held, result, first_turn, i, generation_limit, next_token, turns,
                       texts, capacity>>
    BY <1>4 DEF C!FeedToken, C!PromptFails, C!D!Accept
  <2>2. /\ h \in ChatTokens /\ t \in Seq(ChatTokens) /\ Len(t) = Len(feeding) - 1
        /\ feeding = << h >> \o t /\ << h >> \in Seq(ChatTokens)
    <3>1. h \in ChatTokens /\ t \in Seq(ChatTokens) /\ Len(t) = Len(feeding) - 1
      BY <1>1, <2>1
    <3>2. << h >> \o t = feeding
      <4>1. << h >> \o t \in Seq(ChatTokens) /\ Len(<< h >> \o t) = Len(feeding)
            /\ \A k \in 1 .. Len(feeding) : (<< h >> \o t)[k] = feeding[k]
        BY <1>1, <2>1, <3>1
      <4> QED
        BY <1>1, <4>1, SeqEqual
    <3> QED
      BY <3>1, <3>2
  <2>3. r \in Seq(ChatTokens)
    <3>1. CASE texts = << >>
      <4>1. Remaining(<< >>) = << >>
        BY ONLY Len(<< >>) = 0 DEF Remaining
      <4> QED
        BY <3>1, <4>1, EmptySeq
    <3>2. CASE texts # << >>
      <4>1. /\ Head(texts) \in Seq(ChatTokens) /\ Remaining(Tail(texts)) \in Seq(ChatTokens)
            /\ Remaining(texts) = Head(texts) \o Remaining(Tail(texts))
        BY <1>1, <3>2, RemainingTakes
      <4> QED
        BY <4>1, ConcatProperties
    <3> QED
      BY <3>1, <3>2
  <2> HIDE DEF h, t, r
  <2>4. context' = context \o << h >> /\ context' \in Seq(ChatTokens)
        /\ Len(context') = Len(context) + 1
    BY <1>1, <2>1, <2>2, AppendIsConcat
  <2>5. context' \o (t \o r) = context \o (feeding \o r)
    <3>1. (context \o << h >>) \o (t \o r) = context \o (<< h >> \o (t \o r))
      <4>1. t \o r \in Seq(ChatTokens)
        BY <2>2, <2>3, ConcatProperties
      <4> DEFINE w == t \o r
                 c == context
                 z == << h >>
      <4>2. w \in Seq(ChatTokens) /\ c \in Seq(ChatTokens) /\ z \in Seq(ChatTokens)
        BY <1>1, <2>2, <4>1
      <4> HIDE DEF w, c, z
      <4>3. (c \o z) \o w = c \o (z \o w)
        BY ONLY <4>2, ConcatAssociative
      <4> QED
        BY <4>3 DEF w, c, z
    <3>2. (<< h >> \o t) \o r = << h >> \o (t \o r)
      BY <2>2, <2>3, ConcatAssociative
    <3> QED
      BY <2>2, <2>4, <3>1, <3>2
  <2>6. Len(context') + Len(feeding') <= capacity
    BY <1>1, <2>1, <2>2, <2>4
  <2> QED
    BY <1>1, <1>2, <2>1, <2>2, <2>4, <2>5, <2>6 DEF r
<1>5. CASE pc' # "feed"
  BY <1>1, <1>5, ChatPromptFails
  DEF C!FeedText, C!FeedToken, C!D!Accept, C!D!Refuse, C!decoder
<1> QED
  BY <1>3, <1>4, <1>5
-----------------------------------------------------------------------------
\* A reply that fails ends the turn, whatever of it was printed.
LEMMA ChatReplyFails ==
  ASSUME ChatInv, pc \in {"sample", "write", "forward"}, C!ReplyFails,
         UNCHANGED <<turns, capacity, context, logits>>
  PROVE  ChatInv'
<1>0. ChatControl /\ ChatTalk /\ ChatRoom
  BY DEF ChatInv
<1>1. /\ pc' = "turn_end" /\ result' = 1 /\ context_full'
      /\ UNCHANGED <<held, first_turn, texts, feeding, i, generation_limit, next_token>>
  BY DEF C!ReplyFails
<1>2. ChatControl'
  BY <1>0, <1>1 DEF ChatControl
<1>3. ChatTalk'
  BY <1>0, <1>1 DEF ChatTalk
<1>4. ChatRoom'
  <2>1. Len(context) \in Nat /\ capacity \in Nat
    BY <1>0, LenProperties DEF ChatTalk, ChatControl
  <2>2. /\ i \in Nat /\ generation_limit \in Nat /\ i <= generation_limit
        /\ Len(context) + (generation_limit - i) <= capacity
    BY <1>0 DEF ChatRoom
  <2>3. Len(context') <= capacity'
    BY <2>1, <2>2
  <2> QED
    BY <1>0, <1>1, <2>3 DEF ChatRoom
<1> QED
  BY <1>2, <1>3, <1>4 DEF ChatInv

\* All of the prompt is in: the context is the transcript, and the reply is limited to the
\* room that is left.
LEMMA ChatStartReply ==
  ASSUME ChatInv, C!StartReply
  PROVE  ChatInv'
<1>0. ChatControl /\ ChatTalk /\ ChatRoom
  BY DEF ChatInv
<1>1. /\ pc = "feed" /\ feeding = << >> /\ texts = << >>
      /\ ~ first_turn' /\ held' = held \ {"line"} /\ i' = 0
      /\ generation_limit' = IF capacity - Len(context) < MaxTokens
                             THEN capacity - Len(context) ELSE MaxTokens
      /\ pc' \in {"turn_end", "sample"} /\ (pc' = "turn_end" => context_full')
      /\ UNCHANGED <<result, texts, feeding, next_token, turns, capacity, context, logits>>
  BY DEF C!StartReply, C!decoder
<1>2. /\ result = 0 /\ turns # << >> /\ capacity \in Nat /\ context \in Seq(ChatTokens)
      /\ turns \in Seq(Turns) /\ logits = context /\ held = AllHeld \cup {"line"}
      /\ Len(context) \in Nat /\ Len(context) <= capacity
  <2>1. context \in Seq(ChatTokens) /\ turns \in Seq(Turns) /\ logits = context
    BY <1>0, <1>1 DEF ChatTalk
  <2>2. Len(context) + Len(feeding) <= capacity /\ Len(feeding) = 0
    BY <1>0, <1>1 DEF ChatRoom
  <2>3. Len(context) \in Nat
    BY <2>1, LenProperties
  <2> QED
    BY <1>0, <1>1, <2>1, <2>2, <2>3 DEF ChatControl
<1>3. context = C!Transcript(turns)
  <2>1. context \o (<< >> \o Remaining(<< >>)) = C!Transcript(turns)
    BY <1>0, <1>1 DEF ChatTalk
  <2>2. Remaining(<< >>) = << >>
    BY DEF Remaining
  <2>3. << >> \o << >> = << >>
    BY EmptySeq, ConcatEmptySeq
  <2> QED
    BY <1>2, <2>1, <2>2, <2>3, ConcatEmptySeq
<1>4. held' = AllHeld
  <2>1. (AllHeld \cup {"line"}) \ {"line"} = AllHeld
    BY DEF AllHeld
  <2> QED
    BY <1>1, <1>2, <2>1
<1>5. ChatControl'
  BY <1>0, <1>1, <1>2, <1>4 DEF ChatControl
<1>6. ChatTalk'
  BY <1>0, <1>1, <1>2, <1>3 DEF ChatTalk
<1>7. ChatRoom'
  <2>1. MaxTokens \in Nat
    BY MainAssumption
  <2>2. /\ i' = 0 /\ generation_limit' \in Nat
        /\ Len(context) + (generation_limit' - 0) <= capacity
    BY <1>1, <1>2, <2>1
  <2> QED
    BY <1>1, <1>2, <2>2 DEF ChatRoom
<1> QED
  BY <1>5, <1>6, <1>7 DEF ChatInv

\* A token is sampled, or the reply is as long as it may be.
LEMMA ChatSamples ==
  ASSUME ChatInv, (\E t \in Sampled : C!Sample(t)) \/ C!LimitReached
  PROVE  ChatInv'
<1>0. ChatControl /\ ChatTalk /\ ChatRoom
  BY DEF ChatInv
<1>1. /\ pc = "sample" /\ pc' \in {"turn_end", "write"}
      /\ pc' = "write" => i < generation_limit /\ next_token' \in Sampled
      /\ UNCHANGED <<held, result, first_turn, texts, feeding, i, generation_limit, turns,
                     capacity, context, logits>>
  BY DEF C!Sample, C!LimitReached, C!chat, C!decoder
<1>2. result = 0
  BY <1>0, <1>1 DEF ChatControl
<1>3. ChatControl'
  BY <1>0, <1>1, <1>2 DEF ChatControl
<1>4. ChatTalk'
  <2>1. pc' = "write" => next_token' \in ChatTokens
    BY <1>1 DEF ChatTokens
  <2> QED
    BY <1>0, <1>1, <2>1 DEF ChatTalk
<1>5. ChatRoom'
  <2>1. Len(context) \in Nat /\ capacity \in Nat
    BY <1>0, LenProperties DEF ChatTalk, ChatControl
  <2>2. /\ i \in Nat /\ generation_limit \in Nat /\ i <= generation_limit
        /\ Len(context) + (generation_limit - i) <= capacity
    BY <1>0, <1>1 DEF ChatRoom
  <2>3. Len(context') <= capacity'
    BY <1>1, <2>1, <2>2
  <2> QED
    BY <1>1, <2>2, <2>3 DEF ChatRoom
<1> QED
  BY <1>3, <1>4, <1>5 DEF ChatInv

\* The token that is printed is the one the context is to be extended with.
LEMMA ChatWrites ==
  ASSUME ChatInv, C!WriteToken
  PROVE  ChatInv'
<1>0. ChatControl /\ ChatTalk /\ ChatRoom
  BY DEF ChatInv
<1> DEFINE us == [turns EXCEPT ![Len(turns)].reply = Append(@, next_token)]
<1>1. /\ pc = "write" /\ UNCHANGED <<capacity, context, logits>>
      /\ \/ /\ pc' = "forward" /\ turns' = us
            /\ UNCHANGED <<held, result, first_turn, texts, feeding, i, generation_limit,
                           next_token>>
         \/ C!ReplyFails /\ UNCHANGED turns
  BY DEF C!WriteToken, C!decoder
<1>2. CASE pc' = "forward"
  <2>1. /\ turns' = us /\ UNCHANGED <<held, result, first_turn, texts, feeding, i,
                                     generation_limit, next_token>>
    BY <1>1, <1>2 DEF C!ReplyFails
  <2>2. /\ turns \in Seq(Turns) /\ turns # << >> /\ next_token \in ChatTokens
        /\ context = C!Transcript(turns) /\ result = 0
    BY <1>0, <1>1 DEF ChatControl, ChatTalk
  <2>3. us \in Seq(Turns) /\ us # << >>
        /\ C!Transcript(us) = Append(C!Transcript(turns), next_token)
    BY <2>2, TranscriptSays
  <2> HIDE DEF us
  <2>4. ChatControl'
    BY <1>0, <1>1, <1>2, <2>1, <2>2, <2>3 DEF ChatControl
  <2>5. ChatTalk'
    BY <1>0, <1>1, <1>2, <2>1, <2>2, <2>3 DEF ChatTalk
  <2>6. ChatRoom'
    BY <1>0, <1>1, <1>2, <2>1 DEF ChatRoom
  <2> QED
    BY <2>4, <2>5, <2>6 DEF ChatInv
<1>3. CASE pc' # "forward"
  BY <1>1, <1>3, ChatReplyFails
<1> QED
  BY <1>2, <1>3

\* The token that was printed joins the context.
LEMMA ChatForwards ==
  ASSUME ChatInv, C!ForwardToken
  PROVE  ChatInv'
<1>0. ChatControl /\ ChatTalk /\ ChatRoom
  BY DEF ChatInv
<1>1. /\ pc = "forward" /\ UNCHANGED <<turns, capacity>>
      /\ \/ /\ context' = Append(context, next_token) /\ logits' = context'
            /\ UNCHANGED <<held, result, first_turn, texts, feeding, generation_limit>>
            /\ \/ pc' = "turn_end" /\ UNCHANGED i
               \/ pc' = "sample" /\ i' = i + 1
         \/ C!ReplyFails /\ UNCHANGED <<context, logits>>
  BY DEF C!ForwardToken, C!D!Accept, C!D!Refuse
<1>2. CASE C!ReplyFails /\ UNCHANGED <<context, logits>>
  BY <1>1, <1>2, ChatReplyFails
<1>3. CASE /\ context' = Append(context, next_token) /\ logits' = context'
           /\ UNCHANGED <<held, result, first_turn, texts, feeding, generation_limit>>
           /\ \/ pc' = "turn_end" /\ UNCHANGED i
              \/ pc' = "sample" /\ i' = i + 1
  <2>1. /\ context \in Seq(ChatTokens) /\ turns \in Seq(Turns) /\ next_token \in ChatTokens
        /\ Append(context, next_token) = C!Transcript(turns)
    BY <1>0, <1>1 DEF ChatTalk
  <2>2. /\ turns # << >> /\ capacity \in Nat /\ result = 0
    BY <1>0, <1>1 DEF ChatControl
  <2>3. context' \in Seq(ChatTokens) /\ Len(context') = Len(context) + 1 /\ Len(context) \in Nat
    BY <1>3, <2>1, AppendProperties, LenProperties
  <2>4. /\ i \in Nat /\ generation_limit \in Nat /\ i < generation_limit
        /\ Len(context) + (generation_limit - i) <= capacity
    BY <1>0, <1>1 DEF ChatRoom
  <2>5. ChatControl'
    BY <1>0, <1>1, <1>3, <2>2 DEF ChatControl
  <2>6. ChatTalk'
    BY <1>0, <1>1, <1>3, <2>1, <2>3 DEF ChatTalk
  <2>7. Len(context') <= capacity /\ i' \in Nat
        /\ (pc' = "sample" => i' <= generation_limit
                              /\ Len(context') + (generation_limit - i') <= capacity)
    BY <1>3, <2>2, <2>3, <2>4
  <2>8. ChatRoom'
    BY <1>1, <1>3, <2>4, <2>7 DEF ChatRoom
  <2> QED
    BY <2>5, <2>6, <2>8 DEF ChatInv
<1> QED
  BY <1>1, <1>2, <1>3

\* A turn ends at the prompt or, in a full context, ends the command.
LEMMA ChatEnds ==
  ASSUME ChatInv, C!EndTurn \/ C!Cleanup
  PROVE  ChatInv'
<1>0. ChatControl /\ ChatTalk /\ ChatRoom
  BY DEF ChatInv
<1>1. /\ UNCHANGED <<result, first_turn, texts, feeding, i, generation_limit, turns>>
      /\ pc = "turn_end" /\ pc' = "prompt" => ~ context_full
      /\ \/ /\ pc = "turn_end" /\ pc' \in {"cleanup", "prompt"}
            /\ UNCHANGED <<held, capacity, context, logits>>
         \/ pc = "cleanup" /\ pc' = "exited" /\ capacity' = 0 /\ context' = << >>
  <2>1. CASE C!EndTurn
    <3>1. pc' \in {"cleanup", "prompt"} /\ (pc' = "prompt" => ~ context_full)
      BY <2>1 DEF C!EndTurn
    <3>2. /\ pc = "turn_end"
          /\ UNCHANGED <<held, result, first_turn, texts, feeding, i, generation_limit, turns,
                         capacity, context, logits>>
      BY <2>1 DEF C!EndTurn, C!decoder
    <3> QED
      BY <3>1, <3>2
  <2>2. CASE C!Cleanup
    BY <2>2 DEF C!Cleanup, C!D!Close, C!loop
  <2> QED
    BY <2>1, <2>2
<1>2. pc' = "prompt" => result = 0
  BY <1>0, <1>1 DEF ChatControl
<1>3. ChatControl'
  BY <1>0, <1>1, <1>2 DEF ChatControl
<1>4. ChatTalk'
  <2>1. << >> \in Seq(ChatTokens)
    BY EmptySeq
  <2> QED
    BY <1>0, <1>1, <1>2, <2>1 DEF ChatTalk
<1>5. ChatRoom'
  BY <1>0, <1>1 DEF ChatRoom
<1> QED
  BY <1>3, <1>4, <1>5 DEF ChatInv

\* Every step of chat.
LEMMA ChatStepInv ==
  ASSUME ChatInv, C!Startup \/ C!Turn
  PROVE  ChatInv'
<1>1. CASE C!SampleFails
  <2>1. pc = "sample" /\ C!ReplyFails /\ UNCHANGED <<turns, capacity, context, logits>>
    BY <1>1 DEF C!SampleFails, C!decoder
  <2> QED
    BY <2>1, ChatReplyFails
<1> QED
  BY <1>1, ChatStarts, ChatFeeds, ChatStartReply, ChatSamples, ChatWrites, ChatForwards, ChatEnds
  DEF C!Turn
-----------------------------------------------------------------------------
\* Every command starts in its invariant.
LEMMA InitInv == Init => Inv
<1> SUFFICES ASSUME Init PROVE Inv
  OBVIOUS
<1>1. command \in {"chat", "generate", "forward"}
  BY MainAssumption DEF Init
<1>2. LineInv /\ read_pc = "idle" /\ printed = << >>
  BY LineInit DEF Init, R!Init, F!Init
<1>3. ChatInv /\ GenerateInv /\ ForwardInv
  BY ChatInit, GenerateInit, ForwardInit DEF Init
<1> QED
  BY <1>1, <1>2, <1>3 DEF Inv

\* A step of read_line or of chat leaves the other commands' variables alone.
LEMMA OnlyChat ==
  ASSUME Inv, Chatting, LineInv', ChatInv', pc' = "prompt" \/ read_pc' = "idle"
  PROVE  Inv'
BY DEF Inv, Chatting, ofForward

\* chat's invariant says nothing of the variables of read_line.
LEMMA ChatWaits ==
  ASSUME ChatInv, UNCHANGED <<common, ofChat>>
  PROVE  ChatInv'
<1>1. UNCHANGED <<pc, held, result, capacity, context, logits, i, next_token, first_turn,
                  context_full, texts, feeding, generation_limit, turns>>
  BY DEF common, ofChat
<1>2. ChatControl' /\ ChatTalk' /\ ChatRoom'
  BY <1>1 DEF ChatInv, ChatControl, ChatTalk, ChatRoom
<1> QED
  BY <1>2 DEF ChatInv

\* read_line's invariant is about its own variables.
LEMMA LineWaits ==
  ASSUME LineInv, UNCHANGED ofReadLine
  PROVE  LineInv'
BY DEF LineInv, ofReadLine

\* What chat does with the answer of read_line.
LEMMA TakeLineInv ==
  ASSUME Inv, TakeLine
  PROVE  Inv'
<1>1. command = "chat" /\ LineInv /\ ChatInv /\ Chatting /\ R!Return
  BY DEF Inv, TakeLine, Chatting
<1>2. LineInv' /\ read_pc' = "idle"
  BY <1>1, LineReturn
<1>3. ChatInv'
  <2>1. CASE read_pc = "line" /\ C!ReadText(Front(line))
    BY <1>1, <2>1, LineText, ChatReadsText
  <2>2. CASE C!ReadEmptyLine \/ C!ReadEnd \/ C!ReadFails
    BY <1>1, <2>2, ChatReadsElse
  <2> QED
    BY <2>1, <2>2 DEF TakeLine
<1> QED
  BY <1>1, <1>2, <1>3, OnlyChat

\* The invariant is inductive.
LEMMA NextInv ==
  ASSUME Inv, [Next]_vars
  PROVE  Inv'
<1>1. CASE \E text \in Inputs : CallReadLine(text)
  <2>1. PICK text \in Inputs : CallReadLine(text)
    BY <1>1
  <2>2. Chatting /\ pc = "prompt" /\ R!Call(text) /\ UNCHANGED <<common, ofChat>>
    BY <2>1 DEF CallReadLine
  <2>3. LineInv /\ ChatInv
    BY <2>2 DEF Inv, Chatting
  <2>4. LineInv' /\ ChatInv' /\ pc' = "prompt"
    BY <2>2, <2>3, LineCall, ChatWaits DEF common
  <2> QED
    BY <2>2, <2>4, OnlyChat
<1>2. CASE InReadLine
  <2>1. Chatting /\ R!Step /\ UNCHANGED <<common, ofChat>>
    BY <1>2 DEF InReadLine
  <2>2. LineInv /\ ChatInv /\ (read_pc # "idle" => pc = "prompt")
    BY <2>1 DEF Inv, Chatting
  <2>3. read_pc # "idle"
    BY <2>1 DEF R!Step, R!Allocate, R!Store, R!Grow, R!GrowFails, R!Reading, R!EndOfLine,
                R!EndOfInput
  <2>4. LineInv' /\ ChatInv' /\ pc' = "prompt"
    BY <2>1, <2>2, <2>3, LineStep, ChatWaits DEF common
  <2> QED
    BY <2>1, <2>4, OnlyChat
<1>3. CASE TakeLine
  BY <1>3, TakeLineInv
<1>4. CASE ChatStep
  <2>1. Chatting /\ (C!Startup \/ C!Turn) /\ UNCHANGED ofReadLine
    BY <1>4 DEF ChatStep
  <2>2. LineInv /\ ChatInv /\ (pc # "prompt" => read_pc = "idle")
    BY <2>1 DEF Inv, Chatting
  <2>3. pc # "prompt"
    BY <2>1
    DEF C!Startup, C!LoadModel, C!InitTokenizer, C!VocabularyMismatch, C!FindMarkers,
        C!InitState, C!AllocateLogits, C!Turn, C!FeedText, C!FeedToken, C!StartReply, C!Sample,
        C!SampleFails, C!WriteToken, C!ForwardToken, C!LimitReached, C!EndTurn, C!Cleanup
  <2>4. LineInv' /\ ChatInv' /\ read_pc' = "idle"
    BY <2>1, <2>2, <2>3, LineWaits, ChatStepInv DEF ofReadLine
  <2> QED
    BY <2>1, <2>4, OnlyChat
<1>5. CASE GenerateStep
  <2>1. command = "generate" /\ G!Step /\ UNCHANGED <<command, ofChat, ofReadLine, ofForward>>
    BY <1>5 DEF GenerateStep
  <2>2. LineInv' /\ GenerateInv'
    BY <2>1, LineWaits, GenerateStepInv DEF Inv
  <2> QED
    BY <2>1, <2>2 DEF Inv, ofReadLine, ofForward
<1>6. CASE ForwardStep
  <2>1. command = "forward" /\ F!Step /\ UNCHANGED <<command, ofChat, ofReadLine, ofGenerate>>
    BY <1>6 DEF ForwardStep
  <2>2. LineInv' /\ ForwardInv'
    BY <2>1, LineWaits, ForwardStepInv DEF Inv
  <2> QED
    BY <2>1, <2>2 DEF Inv, ofReadLine
<1>7. CASE UNCHANGED vars
  <2>1. /\ UNCHANGED <<command, common, ofChat, ofReadLine, ofGenerate, ofForward>>
    BY <1>7 DEF vars
  <2>2. LineInv' /\ (ChatInv => ChatInv')
    BY <2>1, LineWaits, ChatWaits DEF Inv
  <2>3. GenerateInv => GenerateInv'
    BY <2>1 DEF GenerateInv, GenerateControl, GenerateReply, Complete, NoEos, common, ofGenerate
  <2>4. ForwardInv => ForwardInv'
    BY <2>1 DEF ForwardInv, ForwardLines, ForwardState, F!LinesAnswerPrefixes, common, ofForward
  <2> QED
    BY <2>1, <2>2, <2>3, <2>4 DEF Inv, ofReadLine, ofForward, common
<1> QED
  BY <1>1, <1>2, <1>3, <1>4, <1>5, <1>6, <1>7 DEF Next, Step, Exited

\* What the commands are proved correct from: a process is always where its program is, holds
\* what it has allocated there, and has the context and output of the tokens so far.
THEOREM CommandsInv == Spec => []Inv
<1>1. Init => Inv
  BY InitInv
<1>2. Inv /\ [Next]_vars => Inv'
  BY NextInv
<1> QED
  BY <1>1, <1>2, PTL DEF Spec
-----------------------------------------------------------------------------
\* What chat and generate ask the model with is the conversation shown.
LEMMA InvTranscript == Inv => TranscriptKept
<1> SUFFICES ASSUME Inv PROVE TranscriptKept
  OBVIOUS
<1>1. ChatInv => C!TranscriptKept
  BY DEF ChatInv, ChatTalk, C!TranscriptKept
<1>2. GenerateInv => G!SampleContinuesOutput
  BY DEF GenerateInv, GenerateReply, G!SampleContinuesOutput
<1> QED
  BY <1>1, <1>2 DEF Inv, TranscriptKept

\* The logits that are sampled answer the whole context, which is not empty.
LEMMA InvFresh == Inv => SampleUsesFreshLogits
<1> SUFFICES ASSUME Inv, pc = "sample" PROVE context # << >> /\ logits = context
  BY DEF SampleUsesFreshLogits
<1>1. CASE command = "chat"
  <2>1. /\ turns \in Seq(Turns) /\ turns # << >> /\ context = C!Transcript(turns)
        /\ logits = context
    BY <1>1 DEF Inv, ChatInv, ChatControl, ChatTalk
  <2> QED
    BY <2>1, TranscriptType
<1>2. CASE command = "generate"
  BY <1>2 DEF Inv, GenerateInv, GenerateReply
<1>3. CASE command = "forward"
  BY <1>3 DEF Inv, ForwardInv, ForwardState
<1> QED
  BY <1>1, <1>2, <1>3 DEF Inv

\* Every command has room for what it still has to run.
LEMMA InvRoom == Inv => RoomForEveryToken
<1> SUFFICES ASSUME Inv PROVE RoomForEveryToken
  OBVIOUS
<1>1. ChatInv => C!RoomForEveryToken
  <2> SUFFICES ASSUME ChatInv PROVE C!RoomForEveryToken
    OBVIOUS
  <2>1. capacity \in Nat /\ context \in Seq(ChatTokens)
    BY DEF ChatInv, ChatControl, ChatTalk
  <2>2. Len(context) \in Nat
    BY <2>1, LenProperties
  <2>3. /\ i \in Nat /\ generation_limit \in Nat
        /\ pc = "feed" => Len(context) + Len(feeding) <= capacity
        /\ pc \in {"sample", "write", "forward"} =>
             Len(context) + (generation_limit - i) <= capacity
        /\ pc = "forward" => i < generation_limit
    BY DEF ChatInv, ChatRoom
  <2>4. pc = "forward" => Len(context) < capacity
    BY <2>1, <2>2, <2>3
  <2> QED
    BY <2>3, <2>4 DEF C!RoomForEveryToken
<1>2. GenerateInv => G!RoomForEveryToken
  <2> SUFFICES ASSUME GenerateInv PROVE G!RoomForEveryToken
    OBVIOUS
  <2>1. /\ prompt \in Seq(PromptTokens) /\ max_tokens \in Nat /\ fed \in 0 .. Len(prompt)
        /\ context \in Seq(PromptTokens) /\ output \in Seq(PromptTokens) /\ i \in Nat
        /\ Len(prompt) \in Nat /\ Len(context) \in Nat
        /\ pc \in {"prompt", "forward"} => capacity = Len(prompt) + max_tokens
    BY LenProperties DEF GenerateInv, GenerateControl, GenerateReply
  <2>2. CASE pc = "prompt"
    <3>1. context = SubSeq(prompt, 1, fed)
      BY <2>2 DEF GenerateInv, GenerateReply
    <3>2. Len(context) = fed
      BY <2>1, <3>1
    <3> QED
      BY <2>1, <2>2, <3>2 DEF G!RoomForEveryToken
  <2>3. CASE pc = "forward"
    <3>1. /\ Len(output) = i + 1 /\ next_token \in PromptTokens
          /\ Append(context, next_token) = prompt \o output
      BY <2>3 DEF GenerateInv, GenerateReply, PromptTokens
    <3>2. Len(Append(context, next_token)) = Len(context) + 1
      BY <2>1, <3>1, AppendProperties
    <3>3. Len(prompt \o output) = Len(prompt) + Len(output)
      BY <2>1, ConcatProperties
    <3>4. Len(context) + 1 = Len(prompt) + (i + 1)
      BY <3>1, <3>2, <3>3
    <3> QED
      BY <2>1, <2>3, <3>4 DEF G!RoomForEveryToken
  <2> QED
    BY <2>2, <2>3 DEF G!RoomForEveryToken
<1>3. ForwardInv => F!RoomForEveryToken
  <2> SUFFICES ASSUME ForwardInv, pc = "run" PROVE Len(context) + (Len(argv) - i) <= capacity
    BY DEF F!RoomForEveryToken
  <2>1. /\ argv \in Seq(ArgumentTokens) /\ Len(argv) \in Nat /\ i \in 0 .. Len(argv)
        /\ context = SubSeq(argv, 1, i) /\ capacity = Len(argv)
    BY ArgumentType DEF ForwardInv, ForwardLines, ForwardState
  <2>2. Len(context) = i
    BY <2>1
  <2> QED
    BY <2>1, <2>2
<1> QED
  BY <1>1, <1>2, <1>3 DEF Inv, RoomForEveryToken

\* forward's lines are part of its invariant.
LEMMA InvLines == Inv => LinesAnswerPrefixes
BY DEF Inv, ForwardInv, ForwardLines, LinesAnswerPrefixes, F!LinesAnswerPrefixes

\* generate left with status 0 had written all, forward had run all.
LEMMA InvSuccess == Inv => SuccessIsEarned
<1> SUFFICES ASSUME Inv PROVE SuccessIsEarned
  OBVIOUS
<1>1. GenerateInv => G!SuccessIsComplete
  BY DEF GenerateInv, GenerateReply, Complete, NoEos, G!SuccessIsComplete
<1>2. ForwardInv => F!SuccessRanAll
  BY DEF ForwardInv, ForwardLines, ForwardState, F!SuccessRanAll
<1> QED
  BY <1>1, <1>2 DEF Inv, SuccessIsEarned

\* What the command held when it left is nothing: every way out frees what its place holds.
LEMMA InvReleased ==
  ASSUME Inv, Next, pc' = "exited", ~ UNCHANGED vars
  PROVE  \/ held' = {} /\ capacity' = 0 /\ room' = 0
         \/ C!VocabularyMismatch \/ G!VocabularyMismatch
<1>1. LineInv /\ (read_pc # "idle" => command = "chat" /\ pc = "prompt")
  BY DEF Inv
<1>2. CASE \E text \in Inputs : CallReadLine(text)
  BY <1>2 DEF CallReadLine, common
<1>3. CASE InReadLine
  <2>1. read_pc # "idle"
    BY <1>3 DEF InReadLine, R!Step, R!Allocate, R!Store, R!Grow, R!GrowFails, R!Reading,
                R!EndOfLine, R!EndOfInput
  <2> QED
    BY <1>1, <1>3, <2>1 DEF InReadLine, common
<1>4. CASE TakeLine
  <2>1. read_pc # "idle"
    BY <1>4 DEF TakeLine, R!Return
  <2>2. pc' # "exited"
    BY <1>1, <1>4, <2>1
    DEF TakeLine, C!ReadText, C!ReadEmptyLine, C!ReadEnd, C!ReadFails, C!PromptFails, C!vars
  <2> QED
    BY <2>2
<1>5. CASE ChatStep
  <2>1. ChatControl /\ ChatControl' /\ Chatting /\ (C!Startup \/ C!Turn) /\ UNCHANGED ofReadLine
    <3>1. ChatInv /\ Chatting /\ (C!Startup \/ C!Turn) /\ UNCHANGED ofReadLine
      BY <1>5 DEF Inv, ChatStep, Chatting
    <3>2. ChatInv'
      BY <3>1, ChatStepInv
    <3> QED
      BY <3>1, <3>2 DEF ChatInv
  <2>2. capacity' = 0
    BY <2>1 DEF ChatControl
  <2>3. pc # "prompt"
    BY <2>1
    DEF C!Startup, C!LoadModel, C!InitTokenizer, C!VocabularyMismatch, C!FindMarkers,
        C!InitState, C!AllocateLogits, C!Turn, C!FeedText, C!FeedToken, C!StartReply, C!Sample,
        C!SampleFails, C!WriteToken, C!ForwardToken, C!LimitReached, C!EndTurn, C!Cleanup
  <2>4. room' = 0
    BY <1>1, <2>1, <2>3 DEF LineInv, ofReadLine
  <2>5. C!VocabularyMismatch \/ held' = {}
    <3>1. CASE C!Startup
      BY <2>1, <3>1
      DEF ChatControl, C!Startup, C!LoadModel, C!InitTokenizer, C!FindMarkers, C!InitState,
          C!AllocateLogits, C!Acquired, C!GivesUp
    <3>2. CASE C!Turn
      <4>1. C!Cleanup
        BY <3>2
        DEF C!Turn, C!FeedText, C!FeedToken, C!StartReply, C!Sample, C!SampleFails,
            C!WriteToken, C!ForwardToken, C!LimitReached, C!EndTurn, C!PromptFails, C!ReplyFails
      <4> QED
        BY <2>1, <4>1 DEF ChatControl, C!Cleanup, AllHeld
    <3> QED
      BY <2>1, <3>1, <3>2
  <2> QED
    BY <2>2, <2>4, <2>5
<1>6. CASE GenerateStep
  <2>1. GenerateControl /\ GenerateControl' /\ command = "generate" /\ G!Step
        /\ UNCHANGED ofReadLine
    <3>1. GenerateInv /\ command = "generate" /\ G!Step /\ UNCHANGED ofReadLine
      BY <1>6 DEF Inv, GenerateStep
    <3>2. GenerateInv'
      BY <3>1, GenerateStepInv
    <3> QED
      BY <3>1, <3>2 DEF GenerateInv
  <2>2. capacity' = 0 /\ room' = 0
    BY <1>1, <2>1 DEF GenerateControl, LineInv, ofReadLine
  <2>3. G!VocabularyMismatch \/ held' = {}
    BY <2>1
    DEF GenerateControl, G!Step, G!LoadModel, G!InitTokenizer, G!EncodePrompt, G!EncodeFails,
        G!RefusePrompt, G!InitState, G!AllocateLogits, G!PromptToken, G!PromptDone, G!Sample,
        G!SampleFails, G!WriteToken, G!ForwardToken, G!NextIteration, G!LimitReached, G!Flush,
        G!Cleanup, G!Fails, G!Acquired, G!GivesUp
  <2> QED
    BY <2>2, <2>3
<1>7. CASE ForwardStep
  <2>1. ForwardState /\ ForwardState' /\ command = "forward" /\ F!Step /\ UNCHANGED ofReadLine
    <3>1. ForwardInv /\ command = "forward" /\ F!Step /\ UNCHANGED ofReadLine
      BY <1>7 DEF Inv, ForwardStep
    <3>2. ForwardInv'
      BY <3>1, ForwardStepInv
    <3> QED
      BY <3>1, <3>2 DEF ForwardInv
  <2>2. capacity' = 0 /\ room' = 0
    BY <1>1, <2>1 DEF ForwardState, LineInv, ofReadLine
  <2>3. held' = {}
    BY <2>1
    DEF ForwardState, F!Step, F!LoadModel, F!InitState, F!AllocateLogits, F!RunToken, F!RunDone,
        F!Cleanup, F!Acquired, F!GivesUp
  <2> QED
    BY <2>2, <2>3
<1> QED
  BY <1>2, <1>3, <1>4, <1>5, <1>6, <1>7 DEF Next, Step, Exited
-----------------------------------------------------------------------------
\* The context that chat and generate sample from is the whole conversation the terminal
\* shows, whatever was fed, failed or was cut short before (main.c:287-302, 323-343, 433-463).
THEOREM ConversationKept == Spec => []TranscriptKept
BY CommandsInv, InvTranscript, PTL

\* Every token is sampled from logits of the whole present context (main.c:316, 334, 444).
THEOREM SampledFresh == Spec => []SampleUsesFreshLogits
BY CommandsInv, InvFresh, PTL

\* No command forwards what its cache has no room for, whatever the sizes of the context, of
\* the prompt and of the reply (main.c:172, 306-313, 390-404, 491-493).
THEOREM RoomKept == Spec => []RoomForEveryToken
BY CommandsInv, InvRoom, PTL

\* forward's lines, whichever get out, are those of its arguments, in order, each over all
\* the earlier ones (main.c:516-527).
THEOREM LinesExact == Spec => []LinesAnswerPrefixes
BY CommandsInv, InvLines, PTL

\* generate gives exit status 0 only to a complete reply, whatever fails; forward, only when
\* every argument ran, whether or not their lines got out (main.c:442-468, 515-532).
THEOREM StatusTrue == Spec => []SuccessIsEarned
BY CommandsInv, InvSuccess, PTL

\* A line read is what was typed, whatever its length, in a buffer it never overruns, even
\* where the doubling of the buffer reaches the largest size (main.c:125-160).
THEOREM LineExact == Spec => []LineComplete
<1>1. Inv => LineComplete
  BY LineInvImplies DEF Inv
<1> QED
  BY <1>1, CommandsInv, PTL

\* Whatever fails, at the exit everything is given back (main.c:212-258, 352-356, 375-430,
\* 470-476, 485-513, 529-532).
THEOREM AllGivenBack == Spec => ReleasedAtExit
<1>1. Inv /\ [Next]_vars =>
        [pc' = "exited" => \/ held' = {} /\ capacity' = 0 /\ room' = 0
                           \/ C!VocabularyMismatch \/ G!VocabularyMismatch]_vars
  BY InvReleased
<1> QED
  BY <1>1, CommandsInv, PTL DEF Spec, ReleasedAtExit
=============================================================================
