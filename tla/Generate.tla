------------------------------ MODULE Generate ------------------------------
(***************************************************************************)
(* The generate command (src/main.c, cmd_generate) over the decoder that   *)
(* KVCache implements: one prompt, at most max_tokens sampled tokens.      *)
(***************************************************************************)
EXTENDS Naturals, Sequences

CONSTANTS ContextLength,   \* model.config.context_length
          HasEos,          \* tokenizer.has_eos_token
          Words,           \* ordinary tokens
          Prompts,         \* what argv[3] may encode to
          Limits           \* the values of max_tokens

Eos    == "eos"
Tokens == Words \cup {Eos}

VARIABLES pc,
          held,                    \* model, tokenizer, prompt, state, logits
          result,                  \* the exit status
          prompt, max_tokens,      \* the arguments
          fed,                     \* prompt tokens forwarded so far
          i, next_token,
          output,                  \* tokens written to stdout
          capacity, context, logits, ok

args    == <<prompt, max_tokens>>
loop    == <<fed, i, next_token, output>>
decoder == <<capacity, context, logits, ok>>
vars    == <<pc, held, result, args, loop, decoder>>
D == INSTANCE Decoder
-----------------------------------------------------------------------------
Init == /\ pc = "load" /\ held = {} /\ result = 0
        /\ prompt \in Prompts /\ max_tokens \in Limits
        /\ fed = 0 /\ i = 0 /\ next_token = "none" /\ output = << >>
        /\ D!Init

\* A start-up step succeeds with its resource, or frees the earlier ones.
Acquired(resource, then) ==
  /\ pc' = then /\ held' = held \cup {resource}
  /\ UNCHANGED <<result, args, loop>>
GivesUp(freed) ==
  /\ pc' = "exited" /\ held' = held \ freed /\ result' = 1
  /\ UNCHANGED <<args, loop>>

LoadModel ==
  /\ pc = "load"
  /\ Acquired("model", "tokenizer") \/ GivesUp({})
  /\ UNCHANGED decoder

InitTokenizer ==
  /\ pc = "tokenizer"
  /\ Acquired("tokenizer", "encode") \/ GivesUp({"model"})
  /\ UNCHANGED decoder

\* As in chat: the tables of a vocabulary of the wrong size are not freed.
VocabularyMismatch ==
  /\ pc = "tokenizer"
  /\ pc' = "exited" /\ held' = {"tokenizer"} /\ result' = 1
  /\ UNCHANGED <<args, loop, decoder>>

\* The prompt and all of max_tokens must fit the context.
Fits == /\ prompt # << >>
        /\ Len(prompt) <= ContextLength
        /\ max_tokens <= ContextLength - Len(prompt)

EncodePrompt ==
  /\ pc = "encode"
  /\ Fits /\ Acquired("prompt", "cache")
  /\ UNCHANGED decoder

EncodeFails ==
  /\ pc = "encode"
  /\ GivesUp({"tokenizer", "model"})
  /\ UNCHANGED decoder

RefusePrompt ==
  /\ pc = "encode"
  /\ ~ Fits /\ GivesUp({"prompt", "tokenizer", "model"})
  /\ UNCHANGED decoder

InitState ==
  /\ pc = "cache"
  /\ \/ Acquired("state", "logits") /\ D!Open(Len(prompt) + max_tokens)
     \/ GivesUp({"prompt", "tokenizer", "model"}) /\ D!Refuse

AllocateLogits ==
  /\ pc = "logits"
  /\ \/ Acquired("logits", "prompt") /\ UNCHANGED decoder
     \/ GivesUp({"state", "prompt", "tokenizer", "model"}) /\ D!Close
-----------------------------------------------------------------------------
Fails(then) ==
  /\ pc' = then /\ result' = 1
  /\ UNCHANGED <<held, args, loop>>

PromptToken ==
  /\ pc = "prompt" /\ fed < Len(prompt)
  /\ \/ /\ D!Accept(prompt[fed + 1])
        /\ fed' = fed + 1
        /\ UNCHANGED <<pc, held, result, args, i, next_token, output>>
     \/ D!Refuse /\ Fails("cleanup")

PromptDone ==
  /\ pc = "prompt" /\ fed = Len(prompt)
  /\ pc' = "sample"
  /\ UNCHANGED <<held, result, args, loop, decoder>>

Sample(t) ==
  /\ pc = "sample" /\ i < max_tokens
  /\ next_token' = t
  /\ pc' = IF HasEos /\ t = Eos THEN "flush" ELSE "write"
  /\ UNCHANGED <<held, result, args, fed, i, output, decoder>>

SampleFails ==
  /\ pc = "sample" /\ i < max_tokens
  /\ Fails("flush") /\ UNCHANGED decoder

WriteToken ==
  /\ pc = "write"
  /\ \/ /\ output' = Append(output, next_token)
        /\ pc' = "forward"
        /\ UNCHANGED <<held, result, args, fed, i, next_token>>
     \/ Fails("flush")
  /\ UNCHANGED decoder

NextIteration ==
  /\ i' = i + 1 /\ pc' = "sample"
  /\ UNCHANGED <<held, result, args, fed, next_token, output>>

\* Mutant: the last two tokens are not forwarded.
ForwardTokenSkipsTwo ==
  /\ pc = "forward"
  /\ \/ i + 2 >= max_tokens /\ NextIteration /\ UNCHANGED decoder
     \/ i + 2 < max_tokens /\ D!Accept(next_token) /\ NextIteration
     \/ i + 2 < max_tokens /\ D!Refuse /\ Fails("flush")

\* The last token is not forwarded: no logits are needed after it.
ForwardToken ==
  /\ pc = "forward"
  /\ \/ i + 1 >= max_tokens /\ NextIteration /\ UNCHANGED decoder
     \/ i + 1 < max_tokens /\ D!Accept(next_token) /\ NextIteration
     \/ i + 1 < max_tokens /\ D!Refuse /\ Fails("flush")

LimitReached ==
  /\ pc = "sample" /\ i >= max_tokens
  /\ pc' = "flush"
  /\ UNCHANGED <<held, result, args, loop, decoder>>

\* Mutant: the flush decides the exit status alone.
FlushOverwrites ==
  /\ pc = "flush"
  /\ pc' = "cleanup"
  /\ result' \in {0, 1}
  /\ UNCHANGED <<held, args, loop, decoder>>

Flush ==
  /\ pc = "flush"
  /\ pc' = "cleanup"
  /\ result' \in {result, 1}
  /\ UNCHANGED <<held, args, loop, decoder>>

Cleanup ==
  /\ pc = "cleanup"
  /\ pc' = "exited"
  /\ held' = held \ {"logits", "state", "prompt", "tokenizer", "model"}
  /\ D!Close
  /\ UNCHANGED <<result, args, loop>>

Step == \/ LoadModel \/ InitTokenizer \/ VocabularyMismatch
        \/ EncodePrompt \/ EncodeFails \/ RefusePrompt
        \/ InitState \/ AllocateLogits
        \/ PromptToken \/ PromptDone
        \/ \E t \in Tokens : Sample(t)
        \/ SampleFails \/ WriteToken \/ ForwardToken \/ LimitReached
        \/ Flush \/ Cleanup
-----------------------------------------------------------------------------
\* Every sampled token continues the prompt and everything printed so far: what is
\* printed is what was fed (main.c:433-463).
SampleContinuesOutput ==
  pc = "sample" /\ i < max_tokens => context = prompt \o output

\* The cache sized up front is never too small for the forward that is next
\* (main.c:390-404, 434, 458-459).
RoomForEveryToken ==
  /\ pc = "prompt" => Len(context) + (Len(prompt) - fed) <= capacity
  /\ pc = "forward" /\ i + 1 < max_tokens => Len(context) < capacity

\* Exit status 0 means the whole reply was written: it ended at EOS or has
\* max_tokens tokens, none of them EOS (main.c:442-468).
SuccessIsComplete ==
  pc = "exited" /\ result = 0 =>
    /\ (HasEos /\ next_token = Eos) \/ Len(output) = max_tokens
    /\ HasEos => \A k \in 1 .. Len(output) : output[k] # Eos
=============================================================================
