------------------------------- MODULE Decoder -------------------------------
(***************************************************************************)
(* What mlmc_qwen2_state_t promises its callers (include/model.h,          *)
(* src/model.c), whatever cache it keeps: a context of tokens that grows   *)
(* by one token per successful mlmc_qwen2_forward, and logits that answer  *)
(* exactly the context they were computed from.  KVCache implements it;    *)
(* Chat and Generate are written over it.                                  *)
(***************************************************************************)
EXTENDS Naturals, Sequences

CONSTANTS Tokens,         \* the token ids below vocab_size
          ContextLength   \* config.context_length

VARIABLES capacity,   \* state->capacity, 0 while no cache is allocated
          context,    \* the tokens accepted since state_init or state_reset
          logits,     \* the context the caller's logits answer, << >> before
          ok          \* what the last init or forward call returned

dvars == <<capacity, context, logits, ok>>

Init == capacity = 0 /\ context = << >> /\ logits = << >> /\ ok = FALSE

\* mlmc_qwen2_state_init succeeds; only a closed state is initialised.
Open(c) == /\ capacity = 0
           /\ c \in 1..ContextLength
           /\ capacity' = c
           /\ context' = << >>
           /\ ok' = TRUE
           /\ UNCHANGED logits

\* mlmc_qwen2_forward succeeds.
Accept(t) == /\ Len(context) < capacity
             /\ context' = Append(context, t)
             /\ logits' = context'
             /\ ok' = TRUE
             /\ UNCHANGED capacity

\* Either call returns false, and nothing else has changed.
Refuse == /\ ok' = FALSE
          /\ UNCHANGED <<capacity, context, logits>>

\* mlmc_qwen2_state_reset: the allocation stays, the context is dropped.
Clear == /\ context' = << >>
         /\ UNCHANGED <<capacity, logits, ok>>

\* mlmc_qwen2_state_free.
Close == /\ capacity' = 0
         /\ context' = << >>
         /\ UNCHANGED <<logits, ok>>

Next == \/ \E c \in 1..ContextLength : Open(c)
        \/ \E t \in Tokens : Accept(t)
        \/ Refuse
        \/ Clear
        \/ Close

Spec == Init /\ [][Next]_dvars
=============================================================================
