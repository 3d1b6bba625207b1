----------------------------- MODULE Qwen2Model -----------------------------
(***************************************************************************)
(* Loading and validating a Qwen2 model, and the tensor checks a forward   *)
(* pass makes again at every use (src/model.c).  A file is its metadata    *)
(* and a table of tensor descriptors that GgufLoad has accepted; a layer's *)
(* tensors are named <<layer, suffix>>, the three global ones <<-1, name>>. *)
(***************************************************************************)
EXTENDS Integers, Sequences

CONSTANTS UInt32Max,
          Metadata,     \* the metadata records a file may have
          Tables(_),    \* the tensor tables of a file with that metadata
          BlockSize     \* elements per block of each type, q8_0 being 32

NoTensor == [n_dims |-> 0, dims |-> << >>, type |-> "none"]

\* mlmc_type_is_supported.
SupportedTypes == {"F32", "F16", "BF16", "Q8_0"}

\* The counts load_config reads.
Sizes == {"context_length", "block_count", "embedding_length", "feed_forward_length",
          "head_count", "head_count_kv"}

\* ggml_tensor_storage_size, as gguf_load calls it: a row is whole blocks.
WholeBlocks(t) ==
  t.type \in SupportedTypes /\ t.n_dims > 0 => t.dims[1] % BlockSize[t.type] = 0

\* The metadata of a file fit their types, and the table is one that gguf_load accepts.
FilesAccepted ==
  /\ UInt32Max \in Nat
  /\ \A type \in SupportedTypes : BlockSize[type] \in Nat \ {0}
  /\ \A m \in Metadata : \A k \in Sizes : m[k] \in 0 .. UInt32Max
  /\ \A m \in Metadata : \A file \in Tables(m) : \A n \in DOMAIN file : WholeBlocks(file[n])

VARIABLES pc, metadata, table,   \* the file
          config,                \* model->config
          layer                  \* the layer loop of validation and of a pass

vars == <<pc, metadata, table, config, layer>>
-----------------------------------------------------------------------------
\* gguf_find_tensor and layer_tensor.
Tensor(l, name) == IF <<l, name>> \in DOMAIN table THEN table[<<l, name>>]
                   ELSE NoTensor

IsF32Vector(t, length) ==
  t.n_dims = 1 /\ t.dims[1] = length /\ t.type = "F32"
IsMatrix(t, columns, rows) ==
  /\ t.n_dims = 2 /\ t.dims[1] = columns /\ t.dims[2] = rows
  /\ t.type \in SupportedTypes

\* Mutant: query heads need not share the kv heads evenly.
ConfigValidUnshared(m) ==
  /\ m.architecture = "qwen2"
  /\ \A k \in Sizes : m[k] > 0
  /\ m.embedding_length % m.head_count = 0
  /\ (m.embedding_length \div m.head_count) % 2 = 0
  /\ m.rope_freq_base > 0 /\ m.rms_epsilon > 0

\* load_config: every key present with its type, and the divisibility rules.
ConfigValid(m) ==
  /\ m.architecture = "qwen2"
  /\ \A k \in Sizes : m[k] > 0
  /\ m.embedding_length % m.head_count = 0
  /\ m.head_count % m.head_count_kv = 0
  /\ (m.embedding_length \div m.head_count) % 2 = 0
  /\ m.rope_freq_base > 0 /\ m.rms_epsilon > 0

Hidden == config.embedding_length
Ffn    == config.feed_forward_length
KeyValueLength == (Hidden \div config.head_count) * config.head_count_kv

EmbeddingValid ==
  LET e == Tensor(-1, "token_embd.weight")
  IN /\ e.n_dims = 2 /\ e.dims[1] = Hidden
     /\ e.dims[2] \in 1 .. UInt32Max
     /\ e.type \in SupportedTypes

\* Mutant: the tensors of the feed-forward block go unvalidated.
LayerValidAttentionOnly(l) ==
  /\ IsF32Vector(Tensor(l, "attn_norm.weight"), Hidden)
  /\ IsMatrix(Tensor(l, "attn_q.weight"), Hidden, Hidden)
  /\ IsF32Vector(Tensor(l, "attn_q.bias"), Hidden)
  /\ IsMatrix(Tensor(l, "attn_k.weight"), Hidden, KeyValueLength)
  /\ IsF32Vector(Tensor(l, "attn_k.bias"), KeyValueLength)
  /\ IsMatrix(Tensor(l, "attn_v.weight"), Hidden, KeyValueLength)
  /\ IsF32Vector(Tensor(l, "attn_v.bias"), KeyValueLength)
  /\ IsMatrix(Tensor(l, "attn_output.weight"), Hidden, Hidden)

LayerValid(l) ==
  /\ IsF32Vector(Tensor(l, "attn_norm.weight"), Hidden)
  /\ IsMatrix(Tensor(l, "attn_q.weight"), Hidden, Hidden)
  /\ IsF32Vector(Tensor(l, "attn_q.bias"), Hidden)
  /\ IsMatrix(Tensor(l, "attn_k.weight"), Hidden, KeyValueLength)
  /\ IsF32Vector(Tensor(l, "attn_k.bias"), KeyValueLength)
  /\ IsMatrix(Tensor(l, "attn_v.weight"), Hidden, KeyValueLength)
  /\ IsF32Vector(Tensor(l, "attn_v.bias"), KeyValueLength)
  /\ IsMatrix(Tensor(l, "attn_output.weight"), Hidden, Hidden)
  /\ IsF32Vector(Tensor(l, "ffn_norm.weight"), Hidden)
  /\ IsMatrix(Tensor(l, "ffn_gate.weight"), Hidden, Ffn)
  /\ IsMatrix(Tensor(l, "ffn_up.weight"), Hidden, Ffn)
  /\ IsMatrix(Tensor(l, "ffn_down.weight"), Ffn, Hidden)
-----------------------------------------------------------------------------
\* The operations of a pass, each refusing a tensor that is not what it needs.
RmsNormOk(t) == IsF32Vector(t, Hidden)
AddBiasOk(t, length) == IsF32Vector(t, length)
\* mlmc_gemv also needs a kernel for the type and whole blocks in a row.
MatrixGemvOk(t, columns, rows) ==
  /\ IsMatrix(t, columns, rows)
  /\ columns % BlockSize[t.type] = 0

CopyEmbeddingOk ==
  LET e == Tensor(-1, "token_embd.weight")
  IN IsMatrix(e, Hidden, config.vocab_size) /\ Hidden % BlockSize[e.type] = 0

ProjectionsOk(l) ==
  /\ RmsNormOk(Tensor(l, "attn_norm.weight"))
  /\ MatrixGemvOk(Tensor(l, "attn_q.weight"), Hidden, Hidden)
  /\ MatrixGemvOk(Tensor(l, "attn_k.weight"), Hidden, KeyValueLength)
  /\ MatrixGemvOk(Tensor(l, "attn_v.weight"), Hidden, KeyValueLength)
  /\ AddBiasOk(Tensor(l, "attn_q.bias"), Hidden)
  /\ AddBiasOk(Tensor(l, "attn_k.bias"), KeyValueLength)
  /\ AddBiasOk(Tensor(l, "attn_v.bias"), KeyValueLength)

FeedForwardOk(l) ==
  /\ MatrixGemvOk(Tensor(l, "attn_output.weight"), Hidden, Hidden)
  /\ RmsNormOk(Tensor(l, "ffn_norm.weight"))
  /\ MatrixGemvOk(Tensor(l, "ffn_gate.weight"), Hidden, Ffn)
  /\ MatrixGemvOk(Tensor(l, "ffn_up.weight"), Hidden, Ffn)
  /\ MatrixGemvOk(Tensor(l, "ffn_down.weight"), Ffn, Hidden)

OutputOk ==
  /\ RmsNormOk(Tensor(-1, "output_norm.weight"))
  /\ MatrixGemvOk(Tensor(-1, "output.weight"), Hidden, config.vocab_size)
-----------------------------------------------------------------------------
NoConfig == [context_length |-> 0, block_count |-> 0, embedding_length |-> 0,
             feed_forward_length |-> 0, head_count |-> 0, head_count_kv |-> 0,
             vocab_size |-> 0]

Init == /\ metadata = NoConfig /\ table = << >>
        /\ pc = "closed" /\ config = NoConfig /\ layer = 0

\* gguf_load.
Open ==
  /\ pc = "closed" /\ pc' = "load"
  /\ metadata' \in Metadata /\ table' \in Tables(metadata')
  /\ UNCHANGED <<config, layer>>

\* mlmc_qwen2_model_free on every failure.
LoadFails == pc' = "refused" /\ config' = NoConfig /\ layer' = 0

LoadConfig ==
  /\ pc = "load"
  /\ IF ConfigValid(metadata)
     THEN /\ config' = [k \in DOMAIN NoConfig |->
                          IF k = "vocab_size" THEN 0 ELSE metadata[k]]
          /\ pc' = "globals" /\ UNCHANGED layer
     ELSE LoadFails
  /\ UNCHANGED <<metadata, table>>

ValidateGlobals ==
  /\ pc = "globals"
  /\ LET vocab == Tensor(-1, "token_embd.weight").dims[2]
     IN IF /\ EmbeddingValid
           /\ IsMatrix(Tensor(-1, "output.weight"), Hidden, vocab)
           /\ IsF32Vector(Tensor(-1, "output_norm.weight"), Hidden)
        THEN /\ config' = [config EXCEPT !.vocab_size = vocab]
             /\ pc' = "validate" /\ UNCHANGED layer
        ELSE LoadFails
  /\ UNCHANGED <<metadata, table>>

ValidateLayer ==
  /\ pc = "validate" /\ layer < config.block_count
  /\ IF LayerValid(layer) THEN layer' = layer + 1 /\ UNCHANGED <<pc, config>>
     ELSE LoadFails
  /\ UNCHANGED <<metadata, table>>

Loaded ==
  /\ pc = "validate" /\ layer = config.block_count
  /\ pc' = "embed" /\ layer' = 0
  /\ UNCHANGED <<metadata, table, config>>

Check(passes, then) ==
  /\ pc' = IF passes THEN then ELSE "failed"
  /\ UNCHANGED <<metadata, table, config>>

CopyEmbedding ==
  pc = "embed" /\ Check(CopyEmbeddingOk, "projections") /\ UNCHANGED layer

Projections ==
  /\ pc = "projections" /\ layer < config.block_count
  /\ Check(ProjectionsOk(layer), "feed_forward") /\ UNCHANGED layer

FeedForward ==
  /\ pc = "feed_forward"
  /\ Check(FeedForwardOk(layer), "projections") /\ layer' = layer + 1

Output ==
  /\ pc = "projections" /\ layer = config.block_count
  /\ Check(OutputOk, "done") /\ UNCHANGED layer

Step == \/ Open \/ LoadConfig \/ ValidateGlobals \/ ValidateLayer \/ Loaded
        \/ CopyEmbedding \/ Projections \/ FeedForward \/ Output
-----------------------------------------------------------------------------
\* No tensor check of a forward pass fails on a model that loaded: what
\* model_load accepts is all a pass needs, for every layer (model.c:121-175
\* against 299-372, 488-575).  A pass then fails only for a full cache, a bad
\* token or lack of memory, and never half way through its layers.
LoadedModelRuns == pc # "failed"

\* The dimensions a pass computes with agree with each other: whole heads of
\* even size for RoPE, kv heads that the query heads share evenly, and a kv
\* row no longer than the residual stream it is projected from.
DimensionsAgree ==
  pc \in {"embed", "projections", "feed_forward", "done"} =>
    /\ config.vocab_size > 0
    /\ \E head_dim \in 2 .. Hidden :
         /\ head_dim % 2 = 0
         /\ Hidden = config.head_count * head_dim
         /\ KeyValueLength = config.head_count_kv * head_dim
         /\ KeyValueLength <= Hidden
    /\ config.head_count =
         (config.head_count \div config.head_count_kv) * config.head_count_kv
=============================================================================
