----------------------------- MODULE Dictionary -----------------------------
(***************************************************************************)
(* What a hash table of the tokenizer promises: it numbers distinct keys   *)
(* in the order they are added, and a lookup answers the number of its key *)
(* or that there is none.  ProbeTable implements it; Vocabulary and Bpe    *)
(* look tokens and merges up in it.                                        *)
(***************************************************************************)
EXTENDS Integers, FiniteSets

CONSTANTS Keys, Hidden   \* keys, and those that no lookup finds
None == -1

VARIABLES entries,   \* a function from the keys present to their numbers
          asked,     \* the key being looked up, as a set
          answer     \* of the last lookup

Init == entries = [k \in {} |-> 0] /\ asked = {} /\ answer = None

\* Answers of lookup_token and lookup_merge.
Find(k) == IF k \in DOMAIN entries \ Hidden THEN entries[k] ELSE None

Insert(k) ==
  /\ asked = {} /\ k \notin DOMAIN entries
  /\ entries' = [j \in DOMAIN entries \cup {k} |->
                   IF j = k THEN Cardinality(DOMAIN entries) ELSE entries[j]]
  /\ UNCHANGED <<asked, answer>>

Ask(k) == asked = {} /\ asked' = {k} /\ UNCHANGED <<entries, answer>>

Reply(k) ==
  /\ asked = {k} /\ asked' = {}
  /\ answer' = Find(k)
  /\ UNCHANGED entries

\* The table is freed.
Discard ==
  /\ asked = {} /\ entries' = [k \in {} |-> 0]
  /\ UNCHANGED <<asked, answer>>

Next == Discard \/ \E k \in Keys : Insert(k) \/ Ask(k) \/ Reply(k)

Spec == Init /\ [][Next]_<<entries, asked, answer>>
=============================================================================
