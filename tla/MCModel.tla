------------------------------ MODULE MCModel ------------------------------
(***************************************************************************)
(* The layouts of F32, F16, Q8_0 and of Q4_K, which has no kernel; shapes  *)
(* around the sizes of a block and around SIZE_MAX.  Models: a good file   *)
(* for each metadata, and every file with one tensor, or an entry of the   *)
(* metadata, that is not what it should be.                                *)
(***************************************************************************)
EXTENDS Model

MCTypes == [F32  |-> [block |-> 1,   bytes |-> 4],  F16  |-> [block |-> 1,   bytes |-> 2],
            Q8_0 |-> [block |-> 32,  bytes |-> 34], Q4_K |-> [block |-> 256, bytes |-> 144]]

Lists(ns, k) == UNION {[1 .. n -> ns] : n \in 1 .. k}
MCShapes == Lists({1, 2, 3, 31, 32, 33, 64, 255, 256, 257, 511, 512, 1023}, 2)
              \cup Lists({1, 2, 32, 256, 1023}, 4)

AllHalves == 0 .. 2^16 - 1
-----------------------------------------------------------------------------
MCBlockSize == [F32 |-> 1, F16 |-> 1, BF16 |-> 1, Q8_0 |-> 2, Q4_0 |-> 2]

MCMetadata ==
  [architecture : {"qwen2"}, context_length : {1}, block_count : {1, 2},
   embedding_length : {4, 6}, feed_forward_length : {6}, head_count : {0, 2, 3},
   head_count_kv : {1, 2}, rope_freq_base : {1}, rms_epsilon : {0, 1}]
  \cup
  [architecture : {"llama"}, context_length : {1}, block_count : {1},
   embedding_length : {4}, feed_forward_length : {6}, head_count : {2},
   head_count_kv : {1}, rope_freq_base : {1}, rms_epsilon : {1}]

Vector(n, kind) == [n_dims |-> 1, dims |-> <<n>>, type |-> kind]
Matrix(c, r, kind) == [n_dims |-> 2, dims |-> <<c, r>>, type |-> kind]

\* A descriptor gguf_load accepts has whole blocks in its rows.
Stored(t) == t.n_dims = 0 \/ t.dims[1] % MCBlockSize[t.type] = 0

GoodTable(m) ==
  LET h  == m.embedding_length
      f  == m.feed_forward_length
      kv == IF m.head_count = 0 THEN h ELSE (h \div m.head_count) * m.head_count_kv
      Shape(name) ==
        CASE name \in {"attn_norm.weight", "attn_q.bias", "ffn_norm.weight"} ->
               Vector(h, "F32")
          [] name \in {"attn_k.bias", "attn_v.bias"} -> Vector(kv, "F32")
          [] name \in {"attn_q.weight", "attn_output.weight"} -> Matrix(h, h, "Q8_0")
          [] name \in {"attn_k.weight", "attn_v.weight"} -> Matrix(h, kv, "F16")
          [] name \in {"ffn_gate.weight", "ffn_up.weight"} -> Matrix(h, f, "F32")
          [] name = "ffn_down.weight" -> Matrix(f, h, "BF16")
          [] name \in {"token_embd.weight", "output.weight"} -> Matrix(h, 3, "Q8_0")
          [] name = "output_norm.weight" -> Vector(h, "F32")
      PerLayer == {"attn_norm.weight", "attn_q.weight", "attn_q.bias",
                   "attn_k.weight", "attn_k.bias", "attn_v.weight", "attn_v.bias",
                   "attn_output.weight", "ffn_norm.weight", "ffn_gate.weight",
                   "ffn_up.weight", "ffn_down.weight"}
      Global == {"token_embd.weight", "output.weight", "output_norm.weight"}
  IN [n \in ((0 .. m.block_count - 1) \X PerLayer) \cup ({-1} \X Global) |->
        Shape(n[2])]

Wrong(t) ==
  {u \in {M!NoTensor,
          [t EXCEPT !.dims[1] = @ + 2],
          [t EXCEPT !.dims[t.n_dims] = @ + 1],
          [t EXCEPT !.type = "F16"], [t EXCEPT !.type = "Q4_0"],
          Vector(t.dims[1], "F32"), Matrix(t.dims[1], t.dims[1], "F32")}
   : Stored(u)}

MCTables(m) ==
  LET good == GoodTable(m)
  IN {good} \cup UNION {{[good EXCEPT ![n] = u] : u \in Wrong(good[n])} :
                          n \in DOMAIN good}
=============================================================================
