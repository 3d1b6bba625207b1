------------------------------- MODULE KVCache -------------------------------
(***************************************************************************)
(* The key/value cache of a Qwen2 decoder and the forward pass that fills  *)
(* and reads it (src/model.c).  One unit of an array is the head_dim       *)
(* floats of one key/value head; the arrays are flat and addressed with    *)
(* cache_position's arithmetic.                                            *)
(*                                                                         *)
(* A vector of floats is abstracted to what it was computed from: the      *)
(* layer, position and head it belongs to and the tokens it depends on.    *)
(* Reading a row that is not the one the formula calls for gives a vector  *)
(* that depends on no well-formed context, written << >>.                  *)
(***************************************************************************)
EXTENDS Integers, Sequences

CONSTANTS VocabSize, BlockCount, ContextLength,   \* mlmc_qwen2_config_t
          HeadCount, HeadCountKV,
          HeadBytes,     \* head_dim * sizeof(float)
          SizeMax,       \* SIZE_MAX
          TokenIds       \* the ids callers pass, valid or not

\* What load_config accepts (model.c:83-93) of these fields.
ASSUME ConfigAssumption ==
  /\ VocabSize \in Nat \ {0}
  /\ BlockCount \in Nat \ {0}
  /\ ContextLength \in Nat \ {0}
  /\ HeadCountKV \in Nat \ {0}
  /\ HeadCount \in Nat \ {0}
  /\ HeadCount % HeadCountKV = 0
  /\ HeadBytes \in Nat \ {0}
  /\ SizeMax \in Nat
  /\ TokenIds \subseteq Nat

VARIABLES keys, values,   \* state->keys, state->values; no cells when NULL
          capacity,       \* state->capacity
          token_count,    \* state->token_count
          pc,             \* "idle", or inside mlmc_qwen2_forward
          token,          \* its token_id
          layer,          \* the layer loop's index
          hidden,         \* workspace.hidden: the tokens it depends on
          logits,         \* the caller's logits: the context they answer
          ok              \* what the last state_init or forward returned

state  == <<keys, values, capacity, token_count>>
flight == <<pc, token, layer, hidden>>
vars   == <<state, flight, logits, ok>>

Tokens    == {t \in TokenIds : t < VocabSize}
Layers    == 0 .. BlockCount - 1
KVHeads   == 0 .. HeadCountKV - 1
Positions == 0 .. ContextLength - 1

Cell == [layer : Layers, position : Positions, head : KVHeads,
         context : Seq(Tokens)]
Zero == [layer |-> -1, position |-> -1, head |-> -1, context |-> << >>]
Null == << >>
-----------------------------------------------------------------------------
IsNull(cache) == DOMAIN cache = {}

\* A cache of c positions: its cells, its bytes as multiply_size checks them,
\* and the cells that calloc returns for that byte count in a size_t.
CellCount(c) == BlockCount * c * HeadCountKV
\* Mutant: the elements are checked, not the bytes.
OverflowsUnscaled(c) == CellCount(c) > SizeMax

Overflows(c) == CellCount(c) * HeadBytes > SizeMax
Calloc(c) == [i \in 0 .. ((CellCount(c) * HeadBytes) % (SizeMax + 1))
                          \div HeadBytes - 1 |-> Zero]

\* Mutant: the layer stride leaves out the width of a position.
CachePositionNarrowStride(l, p) == l * capacity + p * HeadCountKV

CachePosition(l, p) == l * capacity * HeadCountKV + p * HeadCountKV

\* A read outside the allocation finds nothing that can be relied on.
At(cache, i) == IF i \in DOMAIN cache THEN cache[i] ELSE Zero

KVHeadOf(h) == h \div (HeadCount \div HeadCountKV)

\* The row of layer l, position p for the tokens toks.  Layer 0 projects the
\* embedding of one token, deeper layers a mix of every token so far.
Row(l, p, g, toks) ==
  [layer |-> l, position |-> p, head |-> g,
   context |-> IF l = 0 THEN <<toks[p + 1]>> ELSE SubSeq(toks, 1, p + 1)]

TokenOf(cell) == IF cell.context = << >> THEN -1
                 ELSE cell.context[Len(cell.context)]

\* The two memcpys: every kv head of this layer and position.
Stored(cache, l, p) ==
  [i \in DOMAIN cache |->
     IF i - CachePosition(l, p) \in KVHeads
     THEN [layer |-> l, position |-> p, head |-> i - CachePosition(l, p),
           context |-> hidden]
     ELSE cache[i]]

\* attention(): every query head reads its kv head's rows 0..p.  The result
\* depends on the tokens of those rows when they are the rows of one context.
Attended(ks, vs, l, p) ==
  LET seen == [q \in 1 .. p + 1 |-> TokenOf(At(ks, CachePosition(l, q - 1)))]
      Good(cache, q, h) == At(cache, CachePosition(l, q) + KVHeadOf(h))
                             = Row(l, q, KVHeadOf(h), seen)
  IN IF \A h \in 0 .. HeadCount - 1, q \in 0 .. p :
          Good(ks, q, h) /\ Good(vs, q, h)
     THEN seen
     ELSE << >>
-----------------------------------------------------------------------------
Init == /\ keys = Null /\ values = Null
        /\ capacity = 0 /\ token_count = 0
        /\ pc = "idle" /\ token = 0 /\ layer = 0 /\ hidden = << >>
        /\ logits = << >>
        /\ ok = FALSE

\* mlmc_qwen2_state_init on a zeroed state, as every caller passes it.
StateInit(c) ==
  /\ pc = "idle" /\ IsNull(keys)
  /\ c \in 1 .. ContextLength
  /\ ~ Overflows(c)
  /\ keys' = Calloc(c) /\ values' = Calloc(c)
  /\ capacity' = c /\ token_count' = 0
  /\ ok' = TRUE
  /\ UNCHANGED <<flight, logits>>

\* It refuses the capacity or cannot size it (state untouched), or a calloc
\* fails, whereupon state_free clears the state.
StateInitFails(c) ==
  /\ pc = "idle" /\ IsNull(keys)
  /\ \/ /\ c = 0 \/ c > ContextLength \/ Overflows(c)
        /\ UNCHANGED state
     \/ /\ c \in 1 .. ContextLength /\ ~ Overflows(c)
        /\ keys' = Null /\ values' = Null
        /\ capacity' = 0 /\ token_count' = 0
  /\ ok' = FALSE
  /\ UNCHANGED <<flight, logits>>

StateReset ==
  /\ pc = "idle"
  /\ keys' = [i \in DOMAIN keys |-> Zero]
  /\ values' = [i \in DOMAIN values |-> Zero]
  /\ token_count' = 0
  /\ UNCHANGED <<capacity, flight, logits, ok>>

\* Mutant: the arrays go, the size stays.
StateFreeKeepsSize ==
  /\ pc = "idle"
  /\ keys' = Null /\ values' = Null
  /\ token_count' = 0
  /\ UNCHANGED <<capacity, flight, logits, ok>>

StateFree ==
  /\ pc = "idle"
  /\ keys' = Null /\ values' = Null
  /\ capacity' = 0 /\ token_count' = 0
  /\ UNCHANGED <<flight, logits, ok>>

\* Mutant: one token too many.
AcceptsOneMore == /\ ~ IsNull(keys) /\ ~ IsNull(values)
                  /\ token_count <= capacity

\* The guards of mlmc_qwen2_forward.  block_count and key_value_length are
\* copied from the one model when keys and values are allocated, so the two
\* comparisons with its config only repeat that they are.
Accepts == /\ ~ IsNull(keys) /\ ~ IsNull(values)
           /\ token_count < capacity

\* Past the guards, with the workspace allocated and the embedding copied.
ForwardBegins(t) ==
  /\ pc = "idle"
  /\ Accepts /\ t < VocabSize
  /\ pc' = "layers" /\ token' = t /\ layer' = 0 /\ hidden' = <<t>>
  /\ UNCHANGED <<state, logits, ok>>

\* Refused by a guard, by copy_embedding, or for lack of memory.
ForwardRefused ==
  /\ pc = "idle"
  /\ ok' = FALSE
  /\ UNCHANGED <<state, flight, logits>>

ForwardReturns(result) ==
  /\ pc' = "idle" /\ token' = 0 /\ layer' = 0 /\ hidden' = << >>
  /\ ok' = result

\* Mutant: attention before this position's key and value are stored.
RunLayerAttendsFirst ==
  /\ pc = "layers" /\ layer < BlockCount
  /\ keys' = Stored(keys, layer, token_count)
  /\ values' = Stored(values, layer, token_count)
  /\ hidden' = Attended(keys, values, layer, token_count)
  /\ layer' = layer + 1
  /\ UNCHANGED <<capacity, token_count, pc, token, logits, ok>>

RunLayer ==
  /\ pc = "layers" /\ layer < BlockCount
  /\ keys' = Stored(keys, layer, token_count)
  /\ values' = Stored(values, layer, token_count)
  /\ hidden' = Attended(keys', values', layer, token_count)
  /\ layer' = layer + 1
  /\ UNCHANGED <<capacity, token_count, pc, token, logits, ok>>

\* Mutant: a failing layer wipes the cache and keeps the count.
LayerFailsWipes ==
  /\ pc = "layers" /\ layer < BlockCount
  /\ keys' = [i \in DOMAIN keys |-> Zero]
  /\ values' = [i \in DOMAIN values |-> Zero]
  /\ ForwardReturns(FALSE)
  /\ UNCHANGED <<capacity, token_count, logits>>

\* run_layer returns false: before the memcpys or after them.
LayerFails ==
  /\ pc = "layers" /\ layer < BlockCount
  /\ \/ UNCHANGED state
     \/ /\ keys' = Stored(keys, layer, token_count)
        /\ values' = Stored(values, layer, token_count)
        /\ UNCHANGED <<capacity, token_count>>
  /\ ForwardReturns(FALSE)
  /\ UNCHANGED logits

\* The output norm and projection; the token counts only if they succeed.
ForwardSucceeds ==
  /\ pc = "layers" /\ layer = BlockCount
  /\ logits' = hidden
  /\ token_count' = token_count + 1
  /\ ForwardReturns(TRUE)
  /\ UNCHANGED <<keys, values, capacity>>

\* Mutant: the token is counted although its projection failed.
OutputFailsCounted ==
  /\ pc = "layers" /\ layer = BlockCount
  /\ token_count' = token_count + 1
  /\ ForwardReturns(FALSE)
  /\ UNCHANGED <<keys, values, capacity, logits>>

OutputFails ==
  /\ pc = "layers" /\ layer = BlockCount
  /\ ForwardReturns(FALSE)
  /\ UNCHANGED <<state, logits>>

Next == \/ \E c \in 0 .. ContextLength + 1 : StateInit(c) \/ StateInitFails(c)
        \/ StateReset
        \/ StateFree
        \/ \E t \in TokenIds : ForwardBegins(t)
        \/ ForwardRefused
        \/ RunLayer \/ LayerFails
        \/ ForwardSucceeds \/ OutputFails

Spec == Init /\ [][Next]_vars
-----------------------------------------------------------------------------
\* The context as the cache itself records it: layer 0's row of each counted
\* position names its token.
Context == [q \in 1 .. token_count |-> TokenOf(At(keys, CachePosition(0, q - 1)))]

CacheType == [0 .. CellCount(capacity) - 1 -> Cell \cup {Zero}]

\* Types, and that the arrays are allocated together with the size capacity
\* says (model.c:261-271, 290-297).
TypeOK ==
  /\ capacity \in 0 .. ContextLength
  /\ token_count \in 0 .. capacity
  /\ IF capacity = 0 THEN keys = Null /\ values = Null
     ELSE keys \in CacheType /\ values \in CacheType
  /\ pc \in {"idle", "layers"}
  /\ token \in Nat
  /\ layer \in 0 .. BlockCount
  /\ hidden \in Seq(Tokens)
  /\ logits \in Seq(Tokens)
  /\ ok \in BOOLEAN

\* Every counted position holds, in every layer and head of both arrays, the
\* row computed from the context up to that position: nothing left by a
\* failed forward, an earlier conversation or another layer is ever read as
\* part of this one (model.c:392-398, 510-514, 577-579).
CacheMatchesContext ==
  \A l \in Layers, q \in 0 .. token_count - 1, g \in KVHeads :
    /\ At(keys, CachePosition(l, q) + g) = Row(l, q, g, Context)
    /\ At(values, CachePosition(l, q) + g) = Row(l, q, g, Context)

\* While a pass is in flight its rows lie inside both allocations and its
\* position inside scores, which workspace_init sizes by context_length while
\* the pass is admitted by capacity (model.c:217, 246, 422, 512).
InFlightInBounds ==
  pc = "layers" =>
    /\ token_count < ContextLength
    /\ \A l \in Layers, q \in 0 .. token_count, g \in KVHeads :
         /\ CachePosition(l, q) + g \in DOMAIN keys
         /\ CachePosition(l, q) + g \in DOMAIN values

\* At every layer the residual stream of a pass depends on the context and
\* the new token and on nothing else, and the rows it leaves behind at its
\* own position are the ones the next pass will expect (model.c:400-445,
\* 510-536, 559-566).
PassFollowsContext ==
  pc = "layers" =>
    LET toks == Append(Context, token)
    IN /\ token_count < capacity
       /\ token \in Tokens
       /\ hidden = IF layer = 0 THEN <<token>> ELSE toks
       /\ \A l \in 0 .. layer - 1, g \in KVHeads :
            /\ At(keys, CachePosition(l, token_count) + g)
                 = Row(l, token_count, g, toks)
            /\ At(values, CachePosition(l, token_count) + g)
                 = Row(l, token_count, g, toks)

\* A forward pass, whether it succeeds or fails at any point, never writes a
\* row of a position already counted (model.c:510-514).
CountedRowsKept ==
  [][(pc = "layers") =>
        \A l \in Layers, q \in 0 .. token_count - 1, g \in KVHeads :
          LET i == CachePosition(l, q) + g
          IN At(keys', i) = At(keys, i) /\ At(values', i) = At(values, i)]_vars

\* The promise to the callers: a call that returns true adds exactly its
\* token and leaves logits for the whole context, one that returns false
\* changes nothing they can see (model.h, model.c:540-582).
D == INSTANCE Decoder WITH context <- Context
ImplementsDecoder == D!Spec
=============================================================================
