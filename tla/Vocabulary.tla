----------------------------- MODULE Vocabulary -----------------------------
(***************************************************************************)
(* mlmc_tokenizer_init and mlmc_tokenizer_free (src/tokenizer.c) over the  *)
(* dictionaries that ProbeTable implements: ids are the tokens' places in  *)
(* the file, ranks the merges'.  A text is a sequence of characters, and   *)
(* all that is looked at in one is where its first space is.               *)
(***************************************************************************)
EXTENDS Integers, SequencesExt, FiniteSets

CONSTANT Files   \* what of the metadata is read: records of the fields below

Absent    == -1   \* the file has no such entry
WrongType == -2   \* it has, but not of the type it should be

VARIABLES pc,
          file,
          ids,       \* the token table: texts to ids
          merges,    \* the merges read, by rank
          pairs,     \* the merge table: pairs of ids to ranks
          current,   \* left and right of the merge being read
          heap

tables  == <<ids, merges, pairs>>
vars    == <<pc, file, tables, current, heap>>

tokens        == file.tokens
merge_texts   == file.merges
string_arrays == file.string_arrays   \* both are arrays of strings
bos           == file.bos
eos           == file.eos
add_bos       == file.add_bos

NoEntries == [k \in {} |-> 0]
AllTexts == UNION {Range(f.tokens) : f \in Files}
T == INSTANCE Dictionary WITH Keys <- AllTexts, Hidden <- {<< >>},
                              entries <- ids, asked <- {}, answer <- 0
P == INSTANCE Dictionary WITH Keys <- Nat \X Nat, Hidden <- {},
                              entries <- pairs, asked <- {}, answer <- 0
-----------------------------------------------------------------------------
Init == /\ pc = "check"
        /\ file \in Files
        /\ ids = NoEntries /\ merges = << >> /\ pairs = NoEntries
        /\ current = << >> /\ heap = {}

\* mlmc_tokenizer_free and return false.
FreeAndFail ==
  /\ pc' = "closed" /\ heap' = heap \ {"token_slots", "merges", "merge_slots"}
  /\ ids' = NoEntries /\ merges' = << >> /\ pairs' = NoEntries
  /\ UNCHANGED <<file, current>>

\* Not two arrays of strings, or no tokens: nothing has been allocated.
RefuseArrays ==
  /\ pc = "check" /\ (~ string_arrays \/ tokens = << >>)
  /\ pc' = "closed" /\ UNCHANGED <<file, tables, current, heap>>

\* Any of the allocations may fail; no merges need no merge array.
Wanted == {"token_slots", "merge_slots"} \cup IF merge_texts = << >> THEN {} ELSE {"merges"}
Allocate ==
  /\ pc = "check" /\ string_arrays /\ tokens # << >>
  /\ \E got \in SUBSET Wanted :
       /\ heap' = got /\ pc' = IF got = Wanted THEN "tokens" ELSE "free"
  /\ UNCHANGED <<file, tables, current>>

AllocateFails == pc = "free" /\ FreeAndFail

InsertToken ==
  /\ pc = "tokens" /\ Cardinality(DOMAIN ids) < Len(tokens)
  /\ LET text == tokens[Cardinality(DOMAIN ids) + 1]
     IN IF text \in DOMAIN ids THEN FreeAndFail
        ELSE /\ T!Insert(text)
             /\ UNCHANGED <<pc, file, merges, pairs, current, heap>>

TokensDone ==
  /\ pc = "tokens" /\ Cardinality(DOMAIN ids) = Len(tokens)
  /\ pc' = "merges" /\ UNCHANGED <<file, tables, current, heap>>

\* Where the first space is; 0 when there is none.
Separator(text) ==
  LET spaces == {n \in 1 .. Len(text) : text[n] = " "}
  IN IF spaces = {} THEN 0 ELSE CHOOSE n \in spaces : \A m \in spaces : n <= m

\* Both halves of the next merge are tokens, and the room to join them is there.
SplitMerge ==
  /\ pc = "merges" /\ Len(merges) < Len(merge_texts)
  /\ LET text  == merge_texts[Len(merges) + 1]
         at    == Separator(text)
         left  == T!Find(SubSeq(text, 1, at - 1))
         right == T!Find(SubSeq(text, at + 1, Len(text)))
     IN /\ at > 0 /\ left # T!None /\ right # T!None
        /\ current' = <<left, right>>
  /\ heap' = heap \cup {"combined"} /\ pc' = "join"
  /\ UNCHANGED <<file, tables>>

SplitFails ==
  /\ pc = "merges" /\ Len(merges) < Len(merge_texts) /\ FreeAndFail

Joined == tokens[current[1] + 1] \o tokens[current[2] + 1]

\* Mutant: an unknown joined text leaves the buffer behind.
JoinFailsLeaks ==
  /\ pc = "join" /\ T!Find(Joined) = T!None /\ FreeAndFail

\* The joined text is no token; its buffer is freed before anything else is.
JoinFails ==
  /\ pc = "join" /\ T!Find(Joined) = T!None
  /\ heap' = heap \ {"combined"} /\ pc' = "free"
  /\ UNCHANGED <<file, tables, current>>

\* Mutant: a repeated pair is stored once more.
JoinRepeats ==
  /\ pc = "join" /\ T!Find(Joined) # T!None
  /\ merges' = Append(merges, [left |-> current[1], right |-> current[2],
                               merged |-> T!Find(Joined), rank |-> Len(merges)])
  /\ pairs' = [p \in DOMAIN pairs \cup {current} |->
                 IF p = current THEN Len(merges) ELSE pairs[p]]
  /\ pc' = "merges" /\ heap' = heap \ {"combined"}
  /\ UNCHANGED <<file, ids, current>>

\* The merge is recorded, and its pair goes into the table unless it is there.
Join ==
  /\ pc = "join" /\ T!Find(Joined) # T!None
  /\ merges' = Append(merges, [left |-> current[1], right |-> current[2],
                               merged |-> T!Find(Joined), rank |-> Len(merges)])
  /\ \/ P!Insert(current) /\ pc' = "merges"
     \/ current \in DOMAIN pairs /\ pc' = "free" /\ UNCHANGED pairs
  /\ heap' = heap \ {"combined"}
  /\ UNCHANGED <<file, ids, current>>

MergesDone ==
  /\ pc = "merges" /\ Len(merges) = Len(merge_texts)
  /\ pc' = "metadata" /\ UNCHANGED <<file, tables, current, heap>>

\* Mutant: one id too many.
IdsUsableOneMore ==
  /\ WrongType \notin {bos, eos} /\ add_bos # "wrong type"
  /\ {bos, eos} \ {Absent} \subseteq 0 .. Len(tokens)
  /\ add_bos = "true" => bos # Absent

\* An id that is there is one of a token, and bos can be added when it must be.
IdsUsable ==
  /\ WrongType \notin {bos, eos} /\ add_bos # "wrong type"
  /\ {bos, eos} \ {Absent} \subseteq 0 .. Len(tokens) - 1
  /\ add_bos = "true" => bos # Absent

ReadIds ==
  /\ pc = "metadata"
  /\ \/ IdsUsable /\ pc' = "ready" /\ UNCHANGED <<file, tables, current, heap>>
     \/ ~ IdsUsable /\ FreeAndFail

\* The owner is done with it.
Free == pc = "ready" /\ FreeAndFail

Step == \/ RefuseArrays \/ Allocate \/ AllocateFails
        \/ InsertToken \/ TokensDone
        \/ SplitMerge \/ SplitFails \/ JoinFails \/ Join \/ MergesDone
        \/ ReadIds
-----------------------------------------------------------------------------
\* Every failure and the owner's free leave no memory and empty tables, which
\* the callers rely on: they do not free a tokenizer that failed to initialise
\* (tokenizer.c:136, 150, 168-217, 233-258; main.c:218-224, 381-387).
NothingLeft == pc = "closed" => heap = {} /\ ids = NoEntries /\ pairs = NoEntries

\* A vocabulary that is ready has read the whole file: every token is found
\* under its own id, and each merge, found under its pair and only there, joins
\* the two texts written in the file; no id of the metadata is beyond the tokens, nor
\* is bos missing when it must be added (tokenizer.c:160-246, 585-594).
TablesMatchFile ==
  pc = "ready" =>
    /\ \A n \in 1 .. Len(tokens) : ids[tokens[n]] = n - 1
    /\ Len(merges) = Len(merge_texts)
    /\ \A r \in 1 .. Len(merges) :
         LET m == merges[r]
         IN /\ tokens[m.left + 1] \o <<" ">> \o tokens[m.right + 1] = merge_texts[r]
            /\ tokens[m.left + 1] \o tokens[m.right + 1] = tokens[m.merged + 1]
            /\ pairs[<<m.left, m.right>>] = r - 1
    /\ {bos, eos} \ {Absent} \subseteq 0 .. Len(tokens) - 1
    /\ bos = Absent => add_bos # "true"
=============================================================================
