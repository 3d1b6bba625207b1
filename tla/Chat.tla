-------------------------------- MODULE Chat --------------------------------
(***************************************************************************)
(* The chat command (src/main.c, cmd_chat and feed_text) over the decoder  *)
(* that KVCache implements.  Text is abstracted to the tokens it encodes   *)
(* to; a turn is a user text and the reply printed for it.  Main composes  *)
(* this with the other commands and with the reading of lines.             *)
(***************************************************************************)
EXTENDS Naturals, Sequences, SequencesExt

CONSTANTS ContextLength,   \* model.config.context_length
          MaxTokens,       \* max_tokens
          AddBos, HasEos,  \* tokenizer.add_bos_token, .has_eos_token
          Words,           \* ordinary tokens
          Sampled          \* the tokens mlmc_sample may return

Bos     == "bos"
Eos     == "eos"
ImStart == "<|im_start|>"
ImEnd   == "<|im_end|>"
Tokens  == Words \cup {Bos, Eos, ImStart, ImEnd, "system", "user", "assistant"}

VARIABLES pc,
          held,           \* what is allocated: model, tokenizer, state, logits, line
          result,         \* the exit status
          first_turn, context_full,
          texts,          \* the texts of this prompt still to feed
          feeding,        \* tokens of the text being fed, still to forward
          i, generation_limit, next_token,
          turns,          \* what the terminal shows: user texts and replies
          said_full,      \* the "Model context is full" message was printed
          capacity, context, logits, ok

chat == <<held, result, first_turn, context_full, texts, feeding, i,
          generation_limit, next_token, turns, said_full>>
decoder == <<capacity, context, logits, ok>>
D == INSTANCE Decoder
vars == <<pc, chat, decoder>>
-----------------------------------------------------------------------------
\* The fixed texts, as tokens, and the turns as the model is to read them.
FirstPrefix == <<ImStart, "system", ImEnd, ImStart, "user">>
TurnPrefix  == <<ImEnd, ImStart, "user">>
Suffix      == <<ImStart, "assistant">>
BosPart     == IF AddBos THEN <<Bos>> ELSE << >>
Prefix      == IF first_turn THEN BosPart \o FirstPrefix ELSE TurnPrefix

TurnTokens(ts, n) == (IF n = 1 THEN BosPart \o FirstPrefix ELSE TurnPrefix)
                     \o ts[n].user \o Suffix \o ts[n].reply
Transcript(ts) == FlattenSeq([n \in 1 .. Len(ts) |-> TurnTokens(ts, n)])

EndMarkers == {ImEnd} \cup (IF HasEos THEN {Eos} ELSE {})
-----------------------------------------------------------------------------
Init == /\ pc = "load" /\ held = {} /\ result = 0
        /\ first_turn = TRUE /\ context_full = FALSE
        /\ texts = << >> /\ feeding = << >>
        /\ i = 0 /\ generation_limit = 0 /\ next_token = "none"
        /\ turns = << >> /\ said_full = FALSE
        /\ D!Init

loop == <<first_turn, context_full, texts, feeding, i, generation_limit,
          next_token, turns, said_full>>

\* A start-up step succeeds with its resource, or frees the earlier ones.
Acquired(resource, then) ==
  /\ pc' = then /\ held' = held \cup {resource}
  /\ UNCHANGED <<result, loop>>
GivesUp(freed) ==
  /\ pc' = "exited" /\ held' = held \ freed /\ result' = 1
  /\ UNCHANGED loop

LoadModel ==
  /\ pc = "load"
  /\ Acquired("model", "tokenizer") \/ GivesUp({})
  /\ UNCHANGED decoder

InitTokenizer ==
  /\ pc = "tokenizer"
  /\ Acquired("tokenizer", "markers") \/ GivesUp({"model"})
  /\ UNCHANGED decoder

\* The tables were built but their size is not vocab_size: main.c:219-224
\* frees the model and not the tables.
VocabularyMismatch ==
  /\ pc = "tokenizer"
  /\ pc' = "exited" /\ held' = {"tokenizer"} /\ result' = 1
  /\ UNCHANGED <<loop, decoder>>

FindMarkers ==
  /\ pc = "markers"
  /\ \/ pc' = "cache" /\ UNCHANGED <<held, result, loop>>
     \/ GivesUp({"tokenizer", "model"})
  /\ UNCHANGED decoder

InitState ==
  /\ pc = "cache"
  /\ \/ Acquired("state", "logits") /\ D!Open(ContextLength)
     \/ GivesUp({"tokenizer", "model"}) /\ D!Refuse

AllocateLogits ==
  /\ pc = "logits"
  /\ \/ Acquired("logits", "prompt") /\ UNCHANGED decoder
     \/ GivesUp({"state", "tokenizer", "model"}) /\ D!Close
-----------------------------------------------------------------------------
\* What read_line gave: a text, an empty line, /exit or end of input, an error.
ReadText(u) ==
  /\ pc = "prompt"
  /\ pc' = "feed" /\ held' = held \cup {"line"}
  /\ texts' = <<Prefix, u, Suffix>>
  /\ turns' = Append(turns, [user |-> u, reply |-> << >>])
  /\ UNCHANGED <<result, first_turn, context_full, feeding, i,
                 generation_limit, next_token, said_full, decoder>>

ReadEmptyLine == pc = "prompt" /\ UNCHANGED vars

ReadEnd == pc = "prompt" /\ pc' = "cleanup" /\ UNCHANGED <<chat, decoder>>

\* Mutant: the line is freed only after a prompt that was fed.
PromptFailsLeaks ==
  /\ pc' = "cleanup" /\ result' = 1
  /\ UNCHANGED <<held, loop>>

\* The line is freed before the outcome is looked at.
PromptFails ==
  /\ pc' = "cleanup" /\ result' = 1 /\ held' = held \ {"line"}
  /\ UNCHANGED loop

ReadFails == pc = "prompt" /\ PromptFails /\ UNCHANGED decoder

\* feed_text up to its loop: encode, then check the whole text fits.
FeedText ==
  /\ pc = "feed" /\ feeding = << >> /\ texts # << >>
  /\ \/ /\ Len(Head(texts)) <= capacity - Len(context)
        /\ feeding' = Head(texts) /\ texts' = Tail(texts)
        /\ UNCHANGED <<pc, held, result, first_turn, context_full, i,
                       generation_limit, next_token, turns, said_full>>
     \/ PromptFails   \* does not fit, or cannot be encoded
  /\ UNCHANGED decoder

\* One iteration of its loop.
FeedToken ==
  /\ pc = "feed" /\ feeding # << >>
  /\ \/ /\ D!Accept(Head(feeding))
        /\ feeding' = Tail(feeding)
        /\ UNCHANGED <<pc, held, result, first_turn, context_full, texts, i,
                       generation_limit, next_token, turns, said_full>>
     \/ D!Refuse /\ PromptFails

\* Mutant: the reply is limited by max_tokens alone.
StartReplyUncapped ==
  /\ pc = "feed" /\ feeding = << >> /\ texts = << >>
  /\ first_turn' = FALSE
  /\ i' = 0 /\ generation_limit' = MaxTokens
  /\ pc' = "sample"
  /\ UNCHANGED <<held, result, context_full, texts, feeding, next_token, turns,
                 said_full, decoder>>

\* Mutant: a full cache is reset to make room for the reply.
StartReplyResets ==
  /\ pc = "feed" /\ feeding = << >> /\ texts = << >>
  /\ first_turn' = FALSE
  /\ i' = 0
  /\ IF Len(context) = capacity
     THEN D!Clear /\ generation_limit' = MaxTokens
     ELSE /\ generation_limit' = IF capacity - Len(context) < MaxTokens
                                 THEN capacity - Len(context) ELSE MaxTokens
          /\ UNCHANGED decoder
  /\ pc' = "sample"
  /\ UNCHANGED <<held, result, context_full, texts, feeding, next_token, turns,
                 said_full>>

\* The prompt is in: the reply is limited to the room that is left.
StartReply ==
  /\ pc = "feed" /\ feeding = << >> /\ texts = << >>
  /\ first_turn' = FALSE /\ held' = held \ {"line"}
  /\ i' = 0
  /\ generation_limit' = IF capacity - Len(context) < MaxTokens
                         THEN capacity - Len(context) ELSE MaxTokens
  /\ context_full' = (generation_limit' = 0)
  /\ pc' = IF generation_limit' = 0 THEN "turn_end" ELSE "sample"
  /\ UNCHANGED <<result, texts, feeding, next_token, turns, said_full,
                 decoder>>

ReplyFails ==
  /\ pc' = "turn_end" /\ result' = 1 /\ context_full' = TRUE
  /\ UNCHANGED <<held, first_turn, texts, feeding, i, generation_limit,
                 next_token, said_full>>

\* Mutant: an end marker is skipped, uncounted, instead of ending the reply.
SampleSkipsMarkers(t) ==
  /\ pc = "sample" /\ i < generation_limit
  /\ next_token' = t
  /\ pc' = IF t \in EndMarkers THEN "sample" ELSE "write"
  /\ UNCHANGED <<held, result, first_turn, context_full, texts, feeding, i,
                 generation_limit, turns, said_full, decoder>>

Sample(t) ==
  /\ pc = "sample" /\ i < generation_limit
  /\ next_token' = t
  /\ pc' = IF t \in EndMarkers THEN "turn_end" ELSE "write"
  /\ UNCHANGED <<held, result, first_turn, context_full, texts, feeding, i,
                 generation_limit, turns, said_full, decoder>>

SampleFails ==
  /\ pc = "sample" /\ i < generation_limit
  /\ ReplyFails /\ UNCHANGED <<turns, decoder>>

WriteToken ==
  /\ pc = "write"
  /\ \/ /\ pc' = "forward"
        /\ turns' = [turns EXCEPT ![Len(turns)].reply = Append(@, next_token)]
        /\ UNCHANGED <<held, result, first_turn, context_full, texts, feeding,
                       i, generation_limit, next_token, said_full>>
     \/ ReplyFails /\ UNCHANGED turns
  /\ UNCHANGED decoder

\* Mutant: the reply's last token is not forwarded, as generate may do.
ForwardTokenSkipsLast ==
  /\ pc = "forward"
  /\ \/ /\ IF i + 1 < generation_limit THEN D!Accept(next_token)
           ELSE UNCHANGED decoder
        /\ i' = i + 1 /\ pc' = "sample"
        /\ UNCHANGED <<held, result, first_turn, context_full, texts, feeding,
                       generation_limit, next_token, turns, said_full>>
     \/ D!Refuse /\ ReplyFails /\ UNCHANGED turns

\* The token joins the context; the loop ends when that filled it.
ForwardToken ==
  /\ pc = "forward"
  /\ \/ /\ D!Accept(next_token)
        /\ IF Len(context') = capacity
           THEN context_full' = TRUE /\ pc' = "turn_end" /\ UNCHANGED i
           ELSE i' = i + 1 /\ pc' = "sample" /\ UNCHANGED context_full
        /\ UNCHANGED <<held, result, first_turn, texts, feeding,
                       generation_limit, next_token, turns, said_full>>
     \/ D!Refuse /\ ReplyFails /\ UNCHANGED turns

LimitReached ==
  /\ pc = "sample" /\ i >= generation_limit
  /\ pc' = "turn_end"
  /\ UNCHANGED <<chat, decoder>>

EndTurn ==
  /\ pc = "turn_end"
  /\ said_full' = context_full
  /\ pc' = IF context_full THEN "cleanup" ELSE "prompt"
  /\ UNCHANGED <<held, result, first_turn, context_full, texts, feeding, i,
                 generation_limit, next_token, turns, decoder>>

Cleanup ==
  /\ pc = "cleanup"
  /\ pc' = "exited" /\ held' = held \ {"logits", "state", "tokenizer", "model"}
  /\ D!Close
  /\ UNCHANGED <<result, loop>>

Startup == \/ LoadModel \/ InitTokenizer \/ VocabularyMismatch \/ FindMarkers
           \/ InitState \/ AllocateLogits
Turn == \/ FeedText \/ FeedToken \/ StartReply
        \/ \E t \in Sampled : Sample(t)
        \/ SampleFails \/ WriteToken \/ ForwardToken \/ LimitReached
        \/ EndTurn \/ Cleanup
-----------------------------------------------------------------------------
\* Whenever the program asks the user or the model for more, the context is
\* the conversation the terminal shows, every turn between its markers:
\* nothing fed twice, left out, or fed from a turn that failed half way
\* (main.c:287-302, 323-343).
TranscriptKept ==
  \/ pc \in {"prompt", "sample"}
  \/ pc = "turn_end" /\ result = 0
  => context = Transcript(turns)

\* Sampling always reads logits computed from the whole present context,
\* never those of an earlier token or the uninitialised buffer (main.c:251,
\* 316, 334).
SampleUsesFreshLogits == pc = "sample" => context # << >> /\ logits = context

\* The program never starts what the cache has no room for: the rest of the
\* reply, the token to forward and the text being fed all fit
\* (main.c:172, 306-313, 340-343).
RoomForEveryToken ==
  /\ pc = "sample" => Len(context) + (generation_limit - i) <= capacity
  /\ pc = "forward" => Len(context) < capacity
  /\ pc = "feed" => Len(context) + Len(feeding) <= capacity

\* "Model context is full; restart chat for a new session." (main.c:348) is
\* said only of a context that is full.
SaysFullOnlyWhenFull ==
  said_full /\ pc = "cleanup" => Len(context) = capacity
=============================================================================
