-------------------------- MODULE TokenizerProofs --------------------------
(***************************************************************************)
(* A tokenizer's tables, what encoding a text with them gives, and the     *)
(* tokens that merging makes, for every vocabulary and every text.         *)
(***************************************************************************)
EXTENDS Tokenizer, SequenceLemmas

\* Tokens count from 1 in the file and from 0 as ids.
TokenIds == 0 .. Len(file.tokens) - 1
Text(id) == file.tokens[id + 1]
Loaded   == Cardinality(DOMAIN ids)

FileInv ==
  /\ file \in Files
  /\ pc \in {"check", "free", "tokens", "merges", "join", "metadata", "ready", "closed"}
  /\ pc = "check" => ids = V!NoEntries /\ pairs = V!NoEntries
  /\ pc \in {"check", "tokens"} => merges = << >>
  /\ pc \in {"merges", "join", "metadata", "ready"} => Loaded = Len(file.tokens)
  /\ pc \in {"metadata", "ready"} => Len(merges) = Len(file.merges)
  /\ pc = "ready" => V!IdsUsable

\* The token table numbers the first tokens of the file, which are all different.
IdsInv ==
  /\ IsFiniteSet(DOMAIN ids) /\ Loaded \in 0 .. Len(file.tokens)
  /\ DOMAIN ids = {file.tokens[n] : n \in 1 .. Loaded}
  /\ \A n \in 1 .. Loaded : ids[file.tokens[n]] = n - 1

\* What stands between the two texts of a merge.
Blank == " "

\* A merge that was read joins the two texts that the file writes.
Reads(m, r) ==
  /\ {m.left, m.right, m.merged} \subseteq TokenIds
  /\ Text(m.left) \o <<Blank>> \o Text(m.right) = file.merges[r]
  /\ Text(m.left) \o Text(m.right) = Text(m.merged)

Merge == [left : Nat, right : Nat, merged : Nat, rank : Nat]
MergesInv ==
  /\ merges \in Seq(Merge) /\ Len(merges) <= Len(file.merges)
  /\ \A r \in 1 .. Len(merges) : Reads(merges[r], r)

\* The merge table has the pairs of the merges, each under its rank.
PairsInv ==
  /\ IsFiniteSet(DOMAIN pairs)
  /\ pc # "free" =>
       /\ Cardinality(DOMAIN pairs) = Len(merges)
       /\ \A r \in 1 .. Len(merges) :
            /\ <<merges[r].left, merges[r].right>> \in DOMAIN pairs
            /\ pairs[<<merges[r].left, merges[r].right>>] = r - 1
       /\ \A p \in DOMAIN pairs :
            /\ pairs[p] \in 0 .. Len(merges) - 1
            /\ p = <<merges[pairs[p] + 1].left, merges[pairs[p] + 1].right>>

CurrentInv ==
  pc = "join" =>
    /\ Len(merges) < Len(file.merges)
    /\ current \in TokenIds \X TokenIds
    /\ Text(current[1]) \o <<Blank>> \o Text(current[2]) = file.merges[Len(merges) + 1]

HeapInv ==
  /\ heap \subseteq {"token_slots", "merges", "merge_slots", "combined"}
  /\ "combined" \in heap => pc = "join"
  /\ pc = "check" => heap = {}
  /\ V!NothingLeft

VInv == FileInv /\ IdsInv /\ MergesInv /\ PairsInv /\ CurrentInv /\ HeapInv
-----------------------------------------------------------------------------
\* Sizes of sets are the same ones in the modules that this one instantiates.
LEMMA SameCardinality ==
  ASSUME NEW S
  PROVE  /\ V!Cardinality(S) = Cardinality(S) /\ V!T!Cardinality(S) = Cardinality(S)
         /\ V!P!Cardinality(S) = Cardinality(S)
BY DEF Cardinality, V!Cardinality, V!T!Cardinality, V!P!Cardinality

\* What the files hold.
LEMMA FileTypes ==
  ASSUME FileInv
  PROVE  /\ file.tokens \in Seq(Seq(STRING)) /\ file.merges \in Seq(Seq(STRING))
         /\ Len(file.tokens) \in Nat /\ Len(file.merges) \in Nat
         /\ \A n \in 1 .. Len(file.tokens) : file.tokens[n] \in Seq(STRING)
         /\ \A n \in 1 .. Len(file.merges) : file.merges[n] \in Seq(STRING)
         /\ file.bos \in Int /\ file.eos \in Int
<1>1. /\ {file.tokens, file.merges} \subseteq Seq(Seq(STRING)) /\ {file.bos, file.eos} \subseteq Int
  BY TokenizerAssumption DEF FileInv
<1>2. \A s \in Seq(Seq(STRING)) : Len(s) \in Nat /\ \A n \in 1 .. Len(s) : s[n] \in Seq(STRING)
  OBVIOUS
<1> QED
  BY <1>1, <1>2

\* A token that the table finds is the one of its id.
LEMMA FoundToken ==
  ASSUME VInv, NEW t, V!T!Find(t) # V!T!None
  PROVE  /\ t \in DOMAIN ids /\ V!T!Find(t) = ids[t] /\ ids[t] \in TokenIds
         /\ Text(ids[t]) = t
<1>1. t \in DOMAIN ids /\ V!T!Find(t) = ids[t]
  BY DEF V!T!Find
<1>2. PICK n \in 1 .. Loaded : t = file.tokens[n]
  BY <1>1 DEF VInv, IdsInv
<1>3. ids[t] = n - 1 /\ Loaded \in 0 .. Len(file.tokens) /\ Len(file.tokens) \in Nat
  BY <1>2, FileTypes DEF VInv, IdsInv
<1>4. n \in Nat /\ n <= Len(file.tokens) /\ 1 <= n /\ n - 1 \in TokenIds /\ (n - 1) + 1 = n
  BY <1>3 DEF TokenIds
<1> QED
  BY <1>1, <1>2, <1>3, <1>4 DEF Text

\* The text of a merge is what stands before its first space, the space, and the rest.
LEMMA Separated ==
  ASSUME NEW t \in Seq(STRING), V!Separator(t) > 0
  PROVE  LET at == V!Separator(t)
         IN  t = SubSeq(t, 1, at - 1) \o <<Blank>> \o SubSeq(t, at + 1, Len(t))
<1> DEFINE spaces == {n \in 1 .. Len(t) : t[n] = Blank}
           at == V!Separator(t)
<1>1. spaces # {} /\ at = CHOOSE n \in spaces : \A m \in spaces : n <= m
  <2>1. at = IF spaces = {} THEN 0 ELSE CHOOSE n \in spaces : \A m \in spaces : n <= m
    BY Zenon DEF V!Separator, Blank
  <2>2. at > 0
    OBVIOUS
  <2> HIDE DEF at, spaces
  <2> QED
    BY <2>1, <2>2
<1>2. \E n \in spaces : \A m \in spaces : n <= m
  <2>1. spaces \in SUBSET Nat
    <3>1. \A n \in 1 .. Len(t) : n \in Nat
      OBVIOUS
    <3> QED
      BY <3>1
  <2> HIDE DEF spaces
  <2> QED
    BY <1>1, <2>1, LeastExists
<1>3. at \in spaces
  <2> HIDE DEF at, spaces
  <2> QED
    BY <1>1, <1>2
<1>4. at \in 1 .. Len(t) /\ t[at] = Blank /\ Len(t) \in Nat
  BY <1>3
<1> HIDE DEF at
<1>5. 1 \in 1 .. Len(t) + 1 /\ 1 \in 1 .. Len(t) /\ at \in 1 - 1 .. Len(t)
      /\ Len(t) \in at .. Len(t) /\ at \in 1 .. at
  BY <1>4
<1>6. SubSeq(t, 1, at) \o SubSeq(t, at + 1, Len(t)) = t
  BY <1>5, ConcatAdjacentSubSeq, SubSeqFull
<1>7. SubSeq(t, 1, at) = SubSeq(t, 1, at - 1) \o <<Blank>>
  BY <1>4, <1>5, SubSeqRecursiveSecond
<1> QED
  BY <1>6, <1>7 DEF at
-----------------------------------------------------------------------------
\* Nothing that is freed stays, whatever state the tables were in.
LEMMA FreedAll ==
  ASSUME VInv, V!FreeAndFail, pc # "join", pc # "check"
  PROVE  VInv'
<1>1. /\ pc' = "closed" /\ heap' = heap \ {"token_slots", "merges", "merge_slots"}
      /\ ids' = V!NoEntries /\ merges' = << >> /\ pairs' = V!NoEntries
      /\ file' = file /\ current' = current
  BY DEF V!FreeAndFail
<1>2. DOMAIN ids' = {} /\ DOMAIN pairs' = {} /\ Cardinality({}) = 0 /\ IsFiniteSet({})
  BY <1>1, FS_EmptySet DEF V!NoEntries
<1>3. FileInv'
  BY <1>1 DEF VInv, FileInv
<1>4. Len(file.tokens) \in Nat /\ Len(file.merges) \in Nat
  BY FileTypes DEF VInv
<1>5. IdsInv'
  BY <1>1, <1>2, <1>4 DEF IdsInv, Loaded
<1>6. MergesInv'
  BY <1>1, <1>4 DEF MergesInv
<1>7. PairsInv'
  BY <1>1, <1>2 DEF PairsInv
<1>8. CurrentInv' /\ HeapInv'
  BY <1>1 DEF VInv, CurrentInv, HeapInv, V!NothingLeft
<1> QED
  BY <1>3, <1>5, <1>6, <1>7, <1>8 DEF VInv

\* Steps that change no table; where they lead, what was promised is there.
LEMMA TablesStay ==
  ASSUME VInv, file' = file, ids' = ids, merges' = merges, pairs' = pairs,
         FileInv', CurrentInv', HeapInv', pc = "free" => pc' = "free"
  PROVE  VInv'
<1>1. IdsInv'
  BY DEF VInv, IdsInv, Loaded
<1>2. MergesInv'
  BY DEF VInv, MergesInv, Reads, TokenIds, Text
<1>3. PairsInv'
  BY DEF VInv, PairsInv
<1> QED
  BY <1>1, <1>2, <1>3 DEF VInv

\* One more token gets the number of those before it.
LEMMA InsertTokenKeeps ==
  ASSUME VInv, V!InsertToken
  PROVE  VInv'
<1> DEFINE word == file.tokens[Loaded + 1]
<1>1. /\ pc = "tokens" /\ Loaded < Len(file.tokens)
      /\ IF word \in DOMAIN ids THEN V!FreeAndFail
         ELSE /\ ids' = [j \in DOMAIN ids \cup {word} |-> IF j = word THEN Loaded ELSE ids[j]]
              /\ pc' = pc /\ file' = file /\ merges' = merges /\ pairs' = pairs
              /\ current' = current /\ heap' = heap
  BY SameCardinality DEF V!InsertToken, V!T!Insert, Loaded, V!tokens
<1>2. CASE word \in DOMAIN ids
  BY <1>1, <1>2, FreedAll
<1>3. CASE word \notin DOMAIN ids
  <2>1. /\ ids' = [j \in DOMAIN ids \cup {word} |-> IF j = word THEN Loaded ELSE ids[j]]
        /\ pc' = pc /\ file' = file /\ merges' = merges /\ pairs' = pairs
        /\ current' = current /\ heap' = heap /\ DOMAIN ids' = DOMAIN ids \cup {word}
    BY <1>1, <1>3
  <2>2. IsFiniteSet(DOMAIN ids') /\ Loaded' = Loaded + 1
    BY <1>3, <2>1, FS_AddElement DEF VInv, IdsInv, Loaded
  <2>3. Len(file.tokens) \in Nat /\ Loaded \in 0 .. Len(file.tokens)
    BY FileTypes DEF VInv, IdsInv
  <2>4. FileInv'
    BY <1>1, <2>1 DEF VInv, FileInv
  <2>5. 1 .. Loaded' = (1 .. Loaded) \cup {Loaded + 1} /\ Loaded' \in 0 .. Len(file.tokens)'
    BY <2>1, <2>2, <2>3, <1>1
  <2>6. DOMAIN ids' = {file.tokens[n] : n \in 1 .. Loaded'}
    BY <2>1, <2>5 DEF VInv, IdsInv
  <2>7. ASSUME NEW n \in 1 .. Loaded' PROVE ids'[file.tokens[n]] = n - 1
    <3>1. CASE n = Loaded + 1
      BY <2>1, <2>3, <3>1
    <3>2. CASE n # Loaded + 1
      <4>1. n \in 1 .. Loaded
        BY <2>5, <3>2
      <4>2. file.tokens[n] \in DOMAIN ids /\ ids[file.tokens[n]] = n - 1
        BY <4>1 DEF VInv, IdsInv
      <4> QED
        BY <4>2, <2>1, <1>3
    <3> QED
      BY <3>1, <3>2
  <2>8. IdsInv'
    <3>1. \A n \in 1 .. Loaded' : ids'[file'.tokens[n]] = n - 1
      BY <2>1, <2>7
    <3>2. DOMAIN ids' = {file'.tokens[n] : n \in 1 .. Loaded'}
      BY <2>1, <2>6
    <3> QED
      BY <2>2, <2>5, <3>1, <3>2 DEF IdsInv
  <2>9. MergesInv' /\ PairsInv'
    BY <2>1 DEF VInv, MergesInv, PairsInv, Reads, TokenIds, Text
  <2>10. CurrentInv' /\ HeapInv'
    BY <1>1, <2>1 DEF VInv, CurrentInv, HeapInv, V!NothingLeft
  <2> QED
    BY <2>4, <2>8, <2>9, <2>10 DEF VInv
<1> QED
  BY <1>2, <1>3

\* The halves of the next merge are found, or everything is freed.
LEMMA SplitMergeKeeps ==
  ASSUME VInv, V!SplitMerge
  PROVE  VInv'
<1> DEFINE word  == file.merges[Len(merges) + 1]
           at    == V!Separator(word)
           left  == V!T!Find(SubSeq(word, 1, at - 1))
           right == V!T!Find(SubSeq(word, at + 1, Len(word)))
<1>1. /\ pc = "merges" /\ Len(merges) < Len(file.merges)
      /\ at > 0 /\ left # V!T!None /\ right # V!T!None
      /\ current' = <<left, right>> /\ heap' = heap \cup {"combined"} /\ pc' = "join"
      /\ file' = file /\ ids' = ids /\ merges' = merges /\ pairs' = pairs
  BY DEF V!SplitMerge, V!merge_texts, V!tables
<1>2. word \in Seq(STRING)
  <2>1. Len(merges) \in Nat /\ Len(file.merges) \in Nat
    BY FileTypes DEF VInv, MergesInv
  <2>2. Len(merges) + 1 \in 1 .. Len(file.merges)
    BY <1>1, <2>1
  <2> QED
    BY <2>2, FileTypes DEF VInv
<1>3. word = SubSeq(word, 1, at - 1) \o <<Blank>> \o SubSeq(word, at + 1, Len(word))
  <2> HIDE DEF word
  <2> QED
    BY <1>1, <1>2, Separated
<1>4. /\ left \in TokenIds /\ Text(left) = SubSeq(word, 1, at - 1)
      /\ right \in TokenIds /\ Text(right) = SubSeq(word, at + 1, Len(word))
  <2> HIDE DEF word, at
  <2> QED
    BY <1>1, FoundToken
<1> HIDE DEF word, at, left, right
<1>5. CurrentInv'
  BY <1>1, <1>3, <1>4 DEF CurrentInv, TokenIds, Text, word
<1>6. FileInv' /\ HeapInv'
  BY <1>1 DEF VInv, FileInv, HeapInv, Loaded, V!NothingLeft
<1> QED
  BY <1>1, <1>5, <1>6, TablesStay

\* The joined text is a token: the merge is recorded, and numbered unless its pair was.
LEMMA JoinKeeps ==
  ASSUME VInv, V!Join
  PROVE  VInv'
<1> DEFINE merged == V!T!Find(V!Joined)
           new == [left |-> current[1], right |-> current[2],
                   merged |-> merged, rank |-> Len(merges)]
<1>1. /\ pc = "join" /\ merged # V!T!None
      /\ merges' = Append(merges, new) /\ heap' = heap \ {"combined"}
      /\ file' = file /\ ids' = ids /\ current' = current
  BY DEF V!Join
<1>2. \/ /\ pc' = "merges" /\ current \notin DOMAIN pairs
         /\ pairs' = [p \in DOMAIN pairs \cup {current} |->
                        IF p = current THEN Cardinality(DOMAIN pairs) ELSE pairs[p]]
      \/ pc' = "free" /\ pairs' = pairs
  BY SameCardinality DEF V!Join, V!P!Insert
<1>3. V!Joined = Text(current[1]) \o Text(current[2])
  BY DEF V!Joined, V!tokens, Text
<1>4. merged \in TokenIds /\ Text(merged) = V!Joined
  BY <1>1, FoundToken
<1>5. /\ current \in TokenIds \X TokenIds /\ Len(merges) < Len(file.merges)
      /\ Text(current[1]) \o <<Blank>> \o Text(current[2]) = file.merges[Len(merges) + 1]
  BY <1>1 DEF VInv, CurrentInv
<1> HIDE DEF merged
<1>6. Len(file.tokens) \in Nat /\ Len(file.merges) \in Nat /\ TokenIds \subseteq Nat
      /\ merges \in Seq(Merge) /\ Len(merges) \in Nat
  BY FileTypes DEF VInv, MergesInv, TokenIds
<1>7. new \in Merge /\ Reads(new, Len(merges) + 1)
      /\ <<new.left, new.right>> = current
  <2>1. current[1] \in TokenIds /\ current[2] \in TokenIds /\ current = <<current[1], current[2]>>
    BY <1>5
  <2>2. /\ new.left = current[1] /\ new.right = current[2] /\ new.merged = merged
        /\ new \in Merge
    BY <2>1, <1>4, <1>6 DEF Merge
  <2> HIDE DEF new
  <2> QED
    BY <2>1, <2>2, <1>3, <1>4, <1>5 DEF Reads
<1> HIDE DEF new
<1>8. /\ merges' \in Seq(Merge) /\ Len(merges') = Len(merges) + 1
      /\ merges'[Len(merges) + 1] = new
      /\ \A r \in 1 .. Len(merges) : merges'[r] = merges[r]
  BY <1>1, <1>6, <1>7
<1>9. 1 .. Len(merges') = (1 .. Len(merges)) \cup {Len(merges) + 1}
      /\ Len(merges) + 1 \notin 1 .. Len(merges)
  BY <1>6, <1>8
<1>10. MergesInv'
  <2>2. \A r \in 1 .. Len(merges) : Reads(merges'[r], r)
    BY <1>8 DEF VInv, MergesInv
  <2>3. Reads(merges'[Len(merges) + 1], Len(merges) + 1)
    BY <1>7, <1>8
  <2>4. \A r \in 1 .. Len(merges') : Reads(merges'[r], r)
    BY <1>9, <2>2, <2>3
  <2>5. Len(merges') <= Len(file'.merges)
    BY <1>1, <1>5, <1>6, <1>8
  <2> QED
    BY <1>1, <1>8, <2>4, <2>5 DEF MergesInv, Reads, TokenIds, Text
<1>11. PairsInv'
  <2>1. CASE pc' = "free" /\ pairs' = pairs
    BY <2>1 DEF VInv, PairsInv
  <2>2. CASE /\ pc' = "merges" /\ current \notin DOMAIN pairs
             /\ pairs' = [p \in DOMAIN pairs \cup {current} |->
                            IF p = current THEN Cardinality(DOMAIN pairs) ELSE pairs[p]]
    <3>1. /\ IsFiniteSet(DOMAIN pairs) /\ Cardinality(DOMAIN pairs) = Len(merges)
          /\ \A r \in 1 .. Len(merges) :
               /\ <<merges[r].left, merges[r].right>> \in DOMAIN pairs
               /\ pairs[<<merges[r].left, merges[r].right>>] = r - 1
          /\ \A p \in DOMAIN pairs :
               /\ pairs[p] \in 0 .. Len(merges) - 1
               /\ p = <<merges[pairs[p] + 1].left, merges[pairs[p] + 1].right>>
      BY <1>1 DEF VInv, PairsInv
    <3>2. /\ DOMAIN pairs' = DOMAIN pairs \cup {current} /\ pairs'[current] = Len(merges)
          /\ \A p \in DOMAIN pairs : pairs'[p] = pairs[p]
      BY <2>2, <3>1
    <3>3. IsFiniteSet(DOMAIN pairs') /\ Cardinality(DOMAIN pairs') = Len(merges')
      BY <2>2, <3>1, <3>2, <1>8, FS_AddElement
    <3>4. ASSUME NEW r \in 1 .. Len(merges')
          PROVE  /\ <<merges'[r].left, merges'[r].right>> \in DOMAIN pairs'
                 /\ pairs'[<<merges'[r].left, merges'[r].right>>] = r - 1
      <4>1. CASE r \in 1 .. Len(merges)
        BY <4>1, <3>1, <3>2, <1>8
      <4>2. CASE r = Len(merges) + 1
        <5>1. <<merges'[r].left, merges'[r].right>> = current
          BY <4>2, <1>7, <1>8
        <5>2. r - 1 = Len(merges)
          BY <4>2, <1>6
        <5> QED
          BY <5>1, <5>2, <3>2
      <4> QED
        BY <4>1, <4>2, <1>9
    <3>5. ASSUME NEW p \in DOMAIN pairs'
          PROVE  /\ pairs'[p] \in 0 .. Len(merges') - 1
                 /\ p = <<merges'[pairs'[p] + 1].left, merges'[pairs'[p] + 1].right>>
      <4>1. CASE p \in DOMAIN pairs
        <5>1. pairs'[p] = pairs[p] /\ pairs[p] \in 0 .. Len(merges) - 1
          BY <4>1, <3>1, <3>2
        <5>2. pairs[p] + 1 \in 1 .. Len(merges) /\ pairs[p] \in 0 .. Len(merges') - 1
          BY <5>1, <1>6, <1>8
        <5>3. merges'[pairs[p] + 1] = merges[pairs[p] + 1]
          BY <5>2, <1>8
        <5> QED
          BY <4>1, <5>1, <5>2, <5>3, <3>1
      <4>2. CASE p = current
        <5>1. pairs'[p] = Len(merges) /\ Len(merges) \in 0 .. Len(merges') - 1
          BY <4>2, <3>2, <1>6, <1>8
        <5>2. merges'[pairs'[p] + 1] = new
          BY <5>1, <1>8
        <5> QED
          BY <4>2, <5>1, <5>2, <1>7
      <4> QED
        BY <4>1, <4>2, <3>2
    <3> QED
      BY <3>3, <3>4, <3>5 DEF PairsInv
  <2> QED
    BY <1>2, <2>1, <2>2
<1>12. IdsInv'
  BY <1>1 DEF VInv, IdsInv, Loaded
<1>13. FileInv'
  BY <1>1, <1>2 DEF VInv, FileInv, Loaded
<1>14. CurrentInv' /\ HeapInv'
  BY <1>1, <1>2 DEF VInv, CurrentInv, HeapInv, V!NothingLeft
<1> QED
  BY <1>10, <1>11, <1>12, <1>13, <1>14 DEF VInv

\* Ids that are usable make the tokenizer ready.
LEMMA ReadIdsKeeps ==
  ASSUME VInv, V!ReadIds
  PROVE  VInv'
<1>1. CASE ~V!IdsUsable
  BY <1>1, FreedAll DEF V!ReadIds
<1>2. CASE V!IdsUsable
  <2>1. /\ pc = "metadata" /\ pc' = "ready" /\ file' = file /\ ids' = ids
        /\ merges' = merges /\ pairs' = pairs /\ current' = current /\ heap' = heap
    BY <1>2 DEF V!ReadIds, V!tables
  <2>2. V!IdsUsable'
    BY Zenon, <1>2, <2>1 DEF V!IdsUsable, V!bos, V!eos, V!add_bos, V!tokens
  <2>3. FileInv'
    BY <2>1, <2>2 DEF VInv, FileInv, Loaded
  <2>4. CurrentInv' /\ HeapInv'
    BY <2>1 DEF VInv, CurrentInv, HeapInv, V!NothingLeft
  <2> QED
    BY <2>1, <2>3, <2>4, TablesStay
<1> QED
  BY <1>1, <1>2

\* Each step of reading the vocabulary, and freeing it.
LEMMA VocabularyStepKeeps ==
  ASSUME VInv, V!Step \/ V!Free
  PROVE  VInv'
<1>1. CASE V!RefuseArrays
  <2>1. /\ pc = "check" /\ pc' = "closed" /\ file' = file /\ ids' = ids
        /\ merges' = merges /\ pairs' = pairs /\ current' = current /\ heap' = heap
    BY <1>1 DEF V!RefuseArrays, V!tables
  <2>2. FileInv' /\ CurrentInv' /\ HeapInv'
    BY <2>1 DEF VInv, FileInv, CurrentInv, HeapInv, V!NothingLeft, Loaded
  <2> QED
    BY <2>1, <2>2, TablesStay
<1>2. CASE V!Allocate
  <2>1. /\ pc = "check" /\ pc' \in {"tokens", "free"} /\ file' = file /\ ids' = ids
        /\ merges' = merges /\ pairs' = pairs /\ current' = current
        /\ heap' \subseteq {"token_slots", "merges", "merge_slots"}
    BY <1>2 DEF V!Allocate, V!tables, V!Wanted
  <2>2. FileInv' /\ CurrentInv' /\ HeapInv'
    BY <2>1 DEF VInv, FileInv, CurrentInv, HeapInv, V!NothingLeft, Loaded
  <2> QED
    BY <2>1, <2>2, TablesStay
<1>3. CASE V!TokensDone \/ V!MergesDone
  <2>1. /\ \/ pc = "tokens" /\ Loaded = Len(file.tokens) /\ pc' = "merges"
           \/ pc = "merges" /\ Len(merges) = Len(file.merges) /\ pc' = "metadata"
        /\ file' = file /\ ids' = ids /\ merges' = merges /\ pairs' = pairs
        /\ current' = current /\ heap' = heap
    BY <1>3, SameCardinality DEF V!TokensDone, V!MergesDone, V!tables, V!tokens,
       V!merge_texts, Loaded
  <2>2. FileInv' /\ CurrentInv' /\ HeapInv'
    BY <2>1 DEF VInv, FileInv, CurrentInv, HeapInv, V!NothingLeft, Loaded
  <2> QED
    BY <2>1, <2>2, TablesStay
<1>4. CASE V!JoinFails
  <2>1. /\ pc = "join" /\ pc' = "free" /\ heap' = heap \ {"combined"} /\ file' = file
        /\ ids' = ids /\ merges' = merges /\ pairs' = pairs /\ current' = current
    BY <1>4 DEF V!JoinFails, V!tables
  <2>2. FileInv' /\ CurrentInv' /\ HeapInv'
    BY <2>1 DEF VInv, FileInv, CurrentInv, HeapInv, V!NothingLeft, Loaded
  <2> QED
    BY <2>1, <2>2, TablesStay
<1>5. CASE V!AllocateFails \/ V!SplitFails \/ V!Free
  BY <1>5, FreedAll DEF V!AllocateFails, V!SplitFails, V!Free
<1> QED
  BY <1>1, <1>2, <1>3, <1>4, <1>5, InsertTokenKeeps, SplitMergeKeeps, JoinKeeps, ReadIdsKeeps
     DEF V!Step

\* What happens to a text changes nothing of the vocabulary.
LEMMA VocabularyStays ==
  ASSUME VInv, UNCHANGED vocabulary
  PROVE  VInv'
<1>1. /\ pc' = pc /\ file' = file /\ ids' = ids /\ merges' = merges /\ pairs' = pairs
      /\ current' = current /\ heap' = heap
  BY DEF vocabulary
<1>2. V!IdsUsable' = V!IdsUsable
  BY Zenon, <1>1 DEF V!IdsUsable, V!bos, V!eos, V!add_bos, V!tokens
<1>3. FileInv' /\ CurrentInv' /\ HeapInv'
  BY <1>1, <1>2 DEF VInv, FileInv, CurrentInv, HeapInv, V!NothingLeft, Loaded, TokenIds, Text
<1> QED
  BY <1>1, <1>3, TablesStay

\* No token has been read in the beginning.
LEMMA VocabularyInit ==
  ASSUME V!Init
  PROVE  VInv
<1>1. /\ pc = "check" /\ file \in Files /\ ids = V!NoEntries /\ merges = << >>
      /\ pairs = V!NoEntries /\ heap = {}
  BY DEF V!Init
<1>2. DOMAIN ids = {} /\ DOMAIN pairs = {} /\ Cardinality({}) = 0 /\ IsFiniteSet({})
  BY <1>1, FS_EmptySet DEF V!NoEntries
<1>3. FileInv
  BY <1>1 DEF FileInv
<1>4. Len(file.tokens) \in Nat /\ Len(file.merges) \in Nat
  BY <1>3, FileTypes
<1>5. IdsInv /\ MergesInv /\ PairsInv
  BY <1>1, <1>2, <1>4 DEF IdsInv, MergesInv, PairsInv, Loaded
<1>6. CurrentInv /\ HeapInv
  BY <1>1 DEF CurrentInv, HeapInv, V!NothingLeft
<1> QED
  BY <1>3, <1>5, <1>6 DEF VInv

\* The inductive invariant of the vocabulary's tables.
THEOREM VocabularyInv == Spec => []VInv
<1>1. Init => VInv
  BY VocabularyInit DEF Init
<1>2. ASSUME VInv, [Next]_vars PROVE VInv'
  <2>1. V!Step \/ V!Free \/ UNCHANGED vocabulary
    BY <1>2 DEF Next, Step, BuildVocabulary, EncodeStep, SegmentStep, SegmentEncoded,
       SegmentFails, ReturnIds, CallEncode, FreeVocabulary, Freed, vars, vocabulary
  <2> QED
    BY <1>2, <2>1, VocabularyStepKeeps, VocabularyStays
<1> QED
  BY <1>1, <1>2, PTL DEF Spec

\* A failed or freed tokenizer leaves no memory and empty tables: every way out of the
\* initialisation frees what it has got, and the buffer of a join before that
\* (tokenizer.c:136, 150, 168-217, 233-258).
THEOREM NothingStays == Spec => []NothingLeft
<1>1. VInv => NothingLeft
  BY DEF VInv, HeapInv, NothingLeft
<1> QED
  BY <1>1, VocabularyInv, PTL

\* A tokenizer that is ready has every token under its own id and every merge of the
\* file under its pair, whatever the file holds (tokenizer.c:160-246).
THEOREM TablesRight == Spec => []TablesMatchFile
<1>1. ASSUME VInv PROVE TablesMatchFile
  <2> SUFFICES ASSUME pc = "ready" PROVE TablesMatchFile
    BY DEF TablesMatchFile, V!TablesMatchFile
  <2>1. /\ Loaded = Len(file.tokens) /\ Len(merges) = Len(file.merges) /\ V!IdsUsable
    BY <1>1 DEF VInv, FileInv
  <2>2. \A n \in 1 .. Len(V!tokens) : ids[V!tokens[n]] = n - 1
    BY <1>1, <2>1 DEF VInv, IdsInv, V!tokens
  <2>3. ASSUME NEW r \in 1 .. Len(merges)
        PROVE  LET m == merges[r]
               IN /\ V!tokens[m.left + 1] \o <<" ">> \o V!tokens[m.right + 1] = V!merge_texts[r]
                  /\ V!tokens[m.left + 1] \o V!tokens[m.right + 1] = V!tokens[m.merged + 1]
                  /\ pairs[<<m.left, m.right>>] = r - 1
    <3>1. Reads(merges[r], r) /\ pairs[<<merges[r].left, merges[r].right>>] = r - 1
      BY <1>1 DEF VInv, MergesInv, PairsInv
    <3> QED
      BY Zenon, <3>1 DEF Reads, Text, Blank, V!tokens, V!merge_texts
  <2>4. {V!bos, V!eos} \ {V!Absent} \subseteq 0 .. Len(V!tokens) - 1
    BY Zenon, <2>1 DEF V!IdsUsable
  <2>5. V!bos = V!Absent => V!add_bos # "true"
    BY Zenon, <2>1 DEF V!IdsUsable
  <2>6. Len(merges) = Len(V!merge_texts)
    BY <2>1 DEF V!merge_texts
  <2> QED
    BY Zenon, <2>2, <2>3, <2>4, <2>5, <2>6 DEF TablesMatchFile, V!TablesMatchFile
<1> QED
  BY <1>1, VocabularyInv, PTL
----------------------------------------------------------------------------
\* Whatever a text or a token is made of; the provers know of no string that it is one.
Symbols == {"[space]", "[tab]", "[newline]"}
Chars   == STRING \ Symbols
Signs   == STRING \cup Symbols \cup {Blank, "\t", "\n"}

\* A sign's symbol is a sign.
LEMMA SymbolsAreSigns == \A c \in Signs : SymbolOf(c) \in Signs
<1>1. ASSUME NEW c \in Signs PROVE SymbolOf(c) \in Signs
  <2>1. SymbolOf(c) \in {c, "[space]", "[tab]", "[newline]"}
    BY Zenon DEF SymbolOf
  <2> QED
    BY <2>1 DEF Signs, Symbols
<1> QED
  BY <1>1

\* The tokens' strings one behind the other.
Strings(s)  == [n \in 1 .. Len(s) |-> Text(s[n])]
Spelling(s) == FlattenSeq(Strings(s))

\* A token's string is made of signs.
LEMMA TextType ==
  ASSUME VInv, NEW id \in TokenIds
  PROVE  Text(id) \in Seq(Signs) /\ Len(Text(id)) \in Nat
<1>1. id + 1 \in 1 .. Len(file.tokens)
  BY FileTypes DEF VInv, TokenIds
<1>2. Text(id) \in Seq(Signs)
  <2>1. Text(id) \in Seq(STRING) /\ STRING \subseteq Signs
    BY <1>1, FileTypes DEF VInv, Text, Signs
  <2> QED
    BY <2>1, SeqMonotonic
<1> HIDE DEF Text
<1> QED
  BY <1>2

\* Spelling goes through concatenation,
LEMMA SpellingConcat ==
  ASSUME VInv, NEW s \in Seq(TokenIds), NEW t \in Seq(TokenIds)
  PROVE  /\ Spelling(s) \in Seq(Signs) /\ Spelling(t) \in Seq(Signs)
         /\ Spelling(s \o t) = Spelling(s) \o Spelling(t)
<1>1. ASSUME NEW u \in Seq(TokenIds)
      PROVE  /\ Strings(u) \in Seq(Seq(Signs)) /\ Len(Strings(u)) = Len(u)
             /\ \A n \in 1 .. Len(u) : Strings(u)[n] = Text(u[n])
  <2>1. Len(u) \in Nat /\ \A n \in 1 .. Len(u) : Text(u[n]) \in Seq(Signs)
    <3>1. Len(u) \in Nat /\ \A n \in 1 .. Len(u) : u[n] \in TokenIds
      OBVIOUS
    <3> QED
      BY <3>1, TextType
  <2>2. Strings(u) \in [1 .. Len(u) -> Seq(Signs)]
    BY <2>1 DEF Strings
  <2>3. \A n \in Nat : \A f \in [1 .. n -> Seq(Signs)] : f \in Seq(Seq(Signs)) /\ Len(f) = n
    OBVIOUS
  <2> QED
    BY <2>1, <2>2, <2>3 DEF Strings
<1> DEFINE a == Strings(s)
           b == Strings(t)
           c == Strings(s \o t)
<1>2. s \o t \in Seq(TokenIds) /\ Len(s) \in Nat /\ Len(t) \in Nat
      /\ Len(s \o t) = Len(s) + Len(t)
      /\ \A i \in 1 .. Len(s) + Len(t) :
           (s \o t)[i] = IF i <= Len(s) THEN s[i] ELSE t[i - Len(s)]
  BY ConcatProperties, LenProperties
<1>3. /\ a \in Seq(Seq(Signs)) /\ Len(a) = Len(s)
      /\ \A n \in 1 .. Len(s) : a[n] = Text(s[n])
  BY <1>1
<1>4. /\ b \in Seq(Seq(Signs)) /\ Len(b) = Len(t)
      /\ \A n \in 1 .. Len(t) : b[n] = Text(t[n])
  BY <1>1
<1>5. /\ c \in Seq(Seq(Signs)) /\ Len(c) = Len(s) + Len(t)
      /\ \A n \in 1 .. Len(s) + Len(t) : c[n] = Text((s \o t)[n])
  BY <1>1, <1>2
<1> HIDE DEF a, b, c
<1>6. /\ a \o b \in Seq(Seq(Signs)) /\ Len(a \o b) = Len(s) + Len(t)
      /\ \A i \in 1 .. Len(s) + Len(t) :
           (a \o b)[i] = IF i <= Len(s) THEN a[i] ELSE b[i - Len(s)]
  <2>1. /\ a \o b \in Seq(Seq(Signs)) /\ Len(a \o b) = Len(a) + Len(b)
        /\ \A i \in 1 .. Len(a) + Len(b) :
             (a \o b)[i] = IF i <= Len(a) THEN a[i] ELSE b[i - Len(a)]
    <3>1. a \in Seq(Seq(Signs)) /\ b \in Seq(Seq(Signs))
      BY <1>3, <1>4
    <3> QED
      BY ONLY <3>1, ConcatProperties
  <2> QED
    BY <2>1, <1>3, <1>4
<1>7. ASSUME NEW i \in 1 .. Len(s) + Len(t) PROVE c[i] = (a \o b)[i]
  <2>1. CASE i <= Len(s)
    <3>1. i \in 1 .. Len(s)
      BY <2>1, <1>2
    <3>2. c[i] = Text(s[i])
      BY <2>1, <1>2, <1>5
    <3>3. (a \o b)[i] = a[i]
      BY <2>1, <1>6
    <3> QED
      BY <3>1, <3>2, <3>3, <1>3
  <2>2. CASE ~(i <= Len(s))
    <3>1. i - Len(s) \in 1 .. Len(t)
      BY <2>2, <1>2
    <3>2. c[i] = Text(t[i - Len(s)])
      BY <2>2, <1>2, <1>5
    <3>3. (a \o b)[i] = b[i - Len(s)]
      BY <2>2, <1>6
    <3> QED
      BY <3>1, <3>2, <3>3, <1>4
  <2> QED
    BY <2>1, <2>2
<1>8. c = a \o b
  BY <1>5, <1>6, <1>7, SeqEqual
<1>9. /\ FlattenSeq(a) \in Seq(Signs) /\ FlattenSeq(b) \in Seq(Signs)
      /\ FlattenSeq(a \o b) = FlattenSeq(a) \o FlattenSeq(b)
  BY <1>3, <1>4, FlattenConcat
<1> QED
  BY <1>8, <1>9 DEF Spelling, a, b, c

\* one token is spelt as its string, and none as nothing.
LEMMA SpellingOne ==
  ASSUME VInv, NEW id \in TokenIds
  PROVE  Spelling(<<id>>) = Text(id) /\ Spelling(<< >>) = << >>
<1>1. Text(id) \in Seq(Signs)
  BY TextType
<1>2. Strings(<<id>>) = <<Text(id)>>
  BY DEF Strings
<1>3. Strings(<< >>) = << >> /\ FlattenSeq(<< >>) = << >>
  BY DEF Strings, FlattenSeq
<1>4. << >> \in Seq(Seq(Signs)) /\ << >> \in Seq(Signs)
      /\ Append(<< >>, Text(id)) = <<Text(id)>>
  BY <1>1
<1>5. FlattenSeq(<<Text(id)>>) = << >> \o Text(id)
  BY <1>1, <1>3, <1>4, FlattenAppend
<1>6. << >> \o Text(id) = Text(id)
  BY <1>1, ConcatEmptySeq
<1> QED
  BY <1>2, <1>3, <1>5, <1>6 DEF Spelling
-----------------------------------------------------------------------------
\* The classes of characters that runs are made of.
LEMMA Classes ==
  /\ E!Spaces \cap E!Letters = {} /\ E!Digits \cap E!Letters = {}
  /\ E!Others \cap E!Letters = {} /\ E!Newlines \cap E!Letters = {}
  /\ E!Others \cap E!Newlines = {} /\ E!Newlines \subseteq E!Spaces
  /\ "<" \in E!Others /\ "<" \notin E!Spaces \cup E!Digits \cup E!Letters /\ "<" # E!Cut
  /\ Blank \in E!Spaces /\ "<" # Blank /\ "'" \notin E!Letters
  /\ E!Spaces \cap {"'", "s", "t", "r", "e", "v", "m", "l", "d"} = {}
  /\ "<" \notin E!Newlines /\ ">" \notin E!Letters
<1>1. E!Spaces = {Blank, "\t", "\n"} /\ Blank \notin E!Letters
  BY Zenon DEF E!Spaces, E!Letters, Blank
<1>2. Blank \notin {"<", "'", "s", "t", "r", "e", "v", "m", "l", "d"}
  BY Zenon DEF Blank
<1> QED
  BY <1>1, <1>2 DEF E!Letters, E!Digits, E!Others, E!Newlines, E!Cut

\* The least and the greatest of some numbers.
LEMMA MinOf ==
  ASSUME NEW S \in SUBSET Nat, S # {}
  PROVE  E!Min(S) \in S /\ \A y \in S : E!Min(S) <= y
<1>1. \E x \in S : \A y \in S : x <= y
  BY LeastExists
<1>2. E!Min(S) = CHOOSE x \in S : \A y \in S : x <= y
  BY DEF E!Min
<1> QED
  BY <1>1, <1>2

TextInv == text \in Seq(Chars)

\* Lengths of texts and their characters.
LEMMA TextTypes ==
  ASSUME TextInv
  PROVE  Len(text) \in Nat /\ \A p \in 1 .. Len(text) : text[p] \in Chars
BY DEF TextInv

\* A run of a class goes as far as the class does.
LEMMA PastIs ==
  ASSUME TextInv, NEW class, NEW p \in 1 .. Len(text) + 1
  PROVE  LET e == E!Past(class, p)
         IN  /\ e \in p .. Len(text) + 1
             /\ \A k \in p .. e - 1 : text[k] \in class
             /\ e <= Len(text) => text[e] \notin class
             /\ \A k \in p .. Len(text) : text[k] \notin class => e <= k
<1> DEFINE S == {k \in p .. Len(text) : text[k] \notin class} \cup {Len(text) + 1}
           e == E!Past(class, p)
<1>1. Len(text) \in Nat
  BY TextTypes
<1>2. S \in SUBSET Nat /\ S # {} /\ \A y \in S : y \in p .. Len(text) + 1
  BY <1>1
<1>3. e = E!Min(S)
  BY DEF E!Past
<1> HIDE DEF e
<1>4. e \in S /\ \A y \in S : e <= y
  <2> HIDE DEF S
  <2> QED
    BY <1>2, <1>3, MinOf
<1>5. e \in p .. Len(text) + 1
  BY <1>2, <1>4
<1>6. ASSUME NEW k \in p .. e - 1 PROVE text[k] \in class
  <2>1. k \in p .. Len(text) /\ ~(e <= k)
    BY <1>1, <1>5
  <2> QED
    BY <2>1, <1>4
<1>7. e <= Len(text) => text[e] \notin class
  BY <1>1, <1>4
<1>8. \A k \in p .. Len(text) : text[k] \notin class => e <= k
  BY <1>4
<1> QED
  BY <1>5, <1>6, <1>7, <1>8 DEF e

\* Blanks are a run of blanks, whether or not it ends at a newline.
LEMMA SpacesEndIs ==
  ASSUME TextInv, NEW p \in 1 .. Len(text), text[p] \in E!Spaces
  PROVE  LET e == E!SpacesEnd(p)
         IN  /\ e \in p .. Len(text) + 1
             /\ \A k \in p .. e - 1 : text[k] \in E!Spaces
<1> DEFINE past == E!Past(E!Spaces, p)
           S == {k + 1 : k \in {n \in p + 1 .. past - 1 : text[n] \in E!Newlines}} \cup {past}
           e == E!SpacesEnd(p)
<1>1. Len(text) \in Nat /\ p \in 1 .. Len(text) + 1
  BY TextTypes
<1>2. past \in p .. Len(text) + 1 /\ \A k \in p .. past - 1 : text[k] \in E!Spaces
  BY <1>1, PastIs
<1>3. e = E!Min(S)
  BY DEF E!SpacesEnd
<1> HIDE DEF past, e
<1>4. S \in SUBSET Nat /\ S # {} /\ \A y \in S : y \in p .. past
  BY <1>1, <1>2
<1>5. e \in S
  <2> HIDE DEF S
  <2> QED
    BY <1>3, <1>4, MinOf
<1>6. e \in p .. past
  BY <1>4, <1>5
<1>7. e \in p .. Len(text) + 1 /\ \A k \in p .. e - 1 : k \in p .. past - 1
  BY <1>1, <1>2, <1>6
<1> QED
  BY <1>2, <1>7 DEF e

\* What segment_end does at each class of character.
LEMMA RunEndCases ==
  ASSUME NEW p
  PROVE  /\ text[p] = E!Cut => E!RunEnd(p) = p
         /\ text[p] # E!Cut /\ text[p] \in E!Spaces => E!RunEnd(p) = E!SpacesEnd(p)
         /\ text[p] # E!Cut /\ text[p] \notin E!Spaces /\ text[p] \in E!Digits
              => E!RunEnd(p) = E!Min({E!Past(E!Digits, p), p + 3})
         /\ text[p] # E!Cut /\ text[p] \notin E!Spaces \cup E!Digits /\ text[p] \in E!Letters
              => E!RunEnd(p) = E!Past(E!Letters, p)
         /\ text[p] # E!Cut /\ text[p] \notin E!Spaces \cup E!Digits \cup E!Letters
              => E!RunEnd(p) = E!Past(E!Newlines, E!Past(E!Others, p))
BY DEF E!RunEnd, E!Cut, E!Spaces, E!Digits, E!Letters

\* No letters, or a whole run of them from p to e.
OneKind(p, e) ==
  \/ \A k \in p .. e - 1 : text[k] \notin E!Letters
  \/ /\ \A k \in p .. e - 1 : text[k] \in E!Letters
     /\ e <= Len(text) => text[e] \notin E!Letters

\* A run is within the text and of one kind, and punctuation with the newlines behind it
\* ends before what is neither.
LEMMA RunEndIs ==
  ASSUME TextInv, NEW p \in 1 .. Len(text)
  PROVE  LET e == E!RunEnd(p)
         IN  /\ e \in p .. Len(text) + 1 /\ OneKind(p, e)
             /\ text[p] = "<" =>
                  \A k \in p .. Len(text), q \in p .. Len(text) :
                    k < q /\ text[k] \notin E!Others /\ text[q] \notin E!Newlines => e <= q
<1> DEFINE e == E!RunEnd(p)
<1>1. Len(text) \in Nat /\ p \in Nat /\ p \in 1 .. Len(text) + 1 /\ p <= Len(text)
  BY TextTypes
<1>2. CASE text[p] = E!Cut
  <2>1. e = p /\ text[p] # "<"
    BY <1>2, RunEndCases, Classes
  <2>2. p .. p - 1 = {}
    BY <1>1
  <2> HIDE DEF e
  <2> QED
    BY <1>1, <2>1, <2>2 DEF OneKind, e
<1>3. CASE text[p] # E!Cut /\ text[p] \in E!Spaces
  <2>1. e = E!SpacesEnd(p) /\ text[p] # "<"
    BY <1>3, RunEndCases, Classes
  <2>2. e \in p .. Len(text) + 1 /\ \A k \in p .. e - 1 : text[k] \in E!Spaces
    BY <1>3, <2>1, SpacesEndIs
  <2> HIDE DEF e
  <2> QED
    BY <2>1, <2>2, Classes DEF OneKind, e
<1>4. CASE text[p] # E!Cut /\ text[p] \notin E!Spaces /\ text[p] \in E!Digits
  <2> DEFINE past == E!Past(E!Digits, p)
             S == {past, p + 3}
  <2>1. e = E!Min(S) /\ text[p] # "<"
    BY <1>4, RunEndCases, Classes
  <2>2. past \in p .. Len(text) + 1 /\ \A k \in p .. past - 1 : text[k] \in E!Digits
    BY <1>1, PastIs
  <2> HIDE DEF e, past
  <2>3. S \in SUBSET Nat /\ S # {} /\ past \in S /\ \A y \in S : y >= p
    BY <1>1, <2>2
  <2>4. e \in S /\ e <= past /\ e >= p /\ e \in Nat
    <3> HIDE DEF S
    <3>1. e \in S /\ e <= past
      BY <2>1, <2>3, MinOf
    <3> QED
      BY <3>1, <2>3
  <2>5. e \in p .. Len(text) + 1 /\ \A k \in p .. e - 1 : k \in p .. past - 1
    BY <1>1, <2>2, <2>4
  <2>6. \A k \in p .. e - 1 : text[k] \notin E!Letters
    BY <2>2, <2>5, Classes
  <2> QED
    BY <2>1, <2>5, <2>6 DEF OneKind, e
<1>5. CASE text[p] # E!Cut /\ text[p] \notin E!Spaces \cup E!Digits /\ text[p] \in E!Letters
  <2>1. e = E!Past(E!Letters, p) /\ text[p] # "<"
    BY <1>5, RunEndCases, Classes
  <2>2. /\ e \in p .. Len(text) + 1 /\ \A k \in p .. e - 1 : text[k] \in E!Letters
        /\ e <= Len(text) => text[e] \notin E!Letters
    BY <1>1, <2>1, PastIs
  <2> HIDE DEF e
  <2> QED
    BY <2>1, <2>2 DEF OneKind, e
<1>6. CASE text[p] # E!Cut /\ text[p] \notin E!Spaces \cup E!Digits \cup E!Letters
  <2> DEFINE past == E!Past(E!Others, p)
  <2>1. e = E!Past(E!Newlines, past)
    BY <1>6, RunEndCases
  <2>2. /\ past \in p .. Len(text) + 1 /\ \A k \in p .. past - 1 : text[k] \in E!Others
        /\ \A k \in p .. Len(text) : text[k] \notin E!Others => past <= k
    BY <1>1, PastIs
  <2> HIDE DEF past, e
  <2>3. past \in 1 .. Len(text) + 1
    BY <1>1, <2>2
  <2>4. /\ e \in past .. Len(text) + 1 /\ \A k \in past .. e - 1 : text[k] \in E!Newlines
        /\ \A k \in past .. Len(text) : text[k] \notin E!Newlines => e <= k
    BY <2>1, <2>3, PastIs
  <2>5. e \in p .. Len(text) + 1
    BY <1>1, <2>2, <2>4
  <2>6. ASSUME NEW k \in p .. e - 1 PROVE text[k] \notin E!Letters
    <3>1. k \in p .. past - 1 \/ k \in past .. e - 1
      BY <2>2, <2>4
    <3> QED
      BY <3>1, <2>2, <2>4, Classes
  <2>7. ASSUME NEW k \in p .. Len(text), NEW q \in p .. Len(text), k < q,
               text[k] \notin E!Others, text[q] \notin E!Newlines
        PROVE  e <= q
    <3>1. past <= k
      BY <2>2, <2>7
    <3>2. q \in past .. Len(text)
      BY <3>1, <2>2, <2>7
    <3> QED
      BY <3>2, <2>4, <2>7
  <2> QED
    BY <2>5, <2>6, <2>7 DEF OneKind, e
<1> QED
  BY <1>2, <1>3, <1>4, <1>5, <1>6

\* No segment goes from a word over a blank to a word.
Apart(p, e) ==
  ~\E i, j, k \in p .. e - 1 : /\ i < j /\ j < k
                               /\ text[i] \in E!Letters /\ text[j] \in E!Spaces
                               /\ text[k] \in E!Letters

\* Where a segment that begins at p can end: not inside a word.
LEMMA SegmentEndIs ==
  ASSUME TextInv, NEW p \in 1 .. Len(text)
  PROVE  LET e == E!SegmentEnd(p)
         IN  /\ e \in p .. Len(text) + 1 /\ Apart(p, e)
             /\ p < e /\ e <= Len(text) => ~({text[e - 1], text[e]} \subseteq E!Letters)
             /\ text[p] = "<" =>
                  \A k \in p .. Len(text), q \in p .. Len(text) :
                    k < q /\ text[k] \notin E!Others /\ text[q] \notin E!Newlines => e <= q
<1> DEFINE e == E!SegmentEnd(p)
<1>1. Len(text) \in Nat /\ p \in Nat /\ p <= Len(text)
  BY TextTypes
<1>2. e = IF E!LeadingSpace(p) THEN E!RunEnd(p + 1) ELSE E!RunEnd(p)
  BY DEF E!SegmentEnd
<1>3. E!LeadingSpace(p) => text[p] = Blank /\ p < Len(text)
  BY Zenon DEF E!LeadingSpace, Blank
<1>4. CASE ~E!LeadingSpace(p)
  <2>1. e = E!RunEnd(p)
    BY <1>2, <1>4
  <2>2. /\ e \in p .. Len(text) + 1 /\ OneKind(p, e)
        /\ text[p] = "<" =>
             \A k \in p .. Len(text), q \in p .. Len(text) :
               k < q /\ text[k] \notin E!Others /\ text[q] \notin E!Newlines => e <= q
    BY <2>1, RunEndIs
  <2> HIDE DEF e
  <2>3. p < e => e - 1 \in p .. e - 1
    BY <2>2
  <2>4. p < e /\ e <= Len(text) => ~({text[e - 1], text[e]} \subseteq E!Letters)
    BY <2>2, <2>3 DEF OneKind
  <2>5. Apart(p, e)
    BY <2>2, Classes DEF OneKind, Apart
  <2> QED
    BY <2>2, <2>4, <2>5 DEF e
<1>5. CASE E!LeadingSpace(p)
  <2> DEFINE q == p + 1
  <2>1. e = E!RunEnd(q) /\ q \in 1 .. Len(text) /\ text[p] # "<" /\ text[p] \notin E!Letters
    BY <1>1, <1>2, <1>3, <1>5, Classes
  <2> HIDE DEF e, q
  <2>2. e \in q .. Len(text) + 1 /\ OneKind(q, e)
    BY <2>1, RunEndIs DEF e
  <2>3. e \in p .. Len(text) + 1
    BY <1>1, <2>2 DEF q
  <2>4. e - 1 = p \/ e - 1 \in q .. e - 1
    BY <1>1, <2>2 DEF q
  <2>5. e <= Len(text) => ~({text[e - 1], text[e]} \subseteq E!Letters)
    BY <2>1, <2>2, <2>4 DEF OneKind
  <2>6. ASSUME NEW i \in p .. e - 1, NEW j \in p .. e - 1, NEW k \in p .. e - 1, i < j, j < k,
               text[i] \in E!Letters, text[j] \in E!Spaces, text[k] \in E!Letters
        PROVE  FALSE
    <3>1. i \in q .. e - 1 /\ j \in q .. e - 1
      <4>1. i # p
        BY <2>1, <2>6
      <4> QED
        BY <4>1, <1>1, <2>3, <2>6 DEF q
    <3> QED
      BY <3>1, <2>2, <2>6, Classes DEF OneKind
  <2> QED
    BY <2>1, <2>3, <2>5, <2>6 DEF e, Apart
<1> QED
  BY <1>4, <1>5
-----------------------------------------------------------------------------
\* A part of the text, and its characters.
LEMMA PartOfText ==
  ASSUME TextInv, NEW p \in 1 .. Len(text) + 1, NEW q \in p .. Len(text) + 1
  PROVE  /\ SubSeq(text, p, q - 1) \in Seq(Chars) /\ Len(SubSeq(text, p, q - 1)) = q - p
         /\ \A n \in 1 .. q - p : SubSeq(text, p, q - 1)[n] = text[p + n - 1]
<1> DEFINE r == q - 1
<1>1. Len(text) \in Nat /\ p \in Int /\ r \in Int /\ \A k \in p .. r : text[k] \in Chars
  BY TextTypes
<1>2. (p <= r => r - p + 1 = q - p) /\ (~(p <= r) => q - p = 0) /\ r - p + 1 = q - p
  BY <1>1
<1> HIDE DEF r
<1>3. /\ SubSeq(text, p, r) \in Seq(Chars)
      /\ Len(SubSeq(text, p, r)) = IF p <= r THEN r - p + 1 ELSE 0
      /\ \A i \in 1 .. r - p + 1 : SubSeq(text, p, r)[i] = text[p + i - 1]
  BY <1>1, SubSeqProperties
<1> QED
  BY <1>2, <1>3 DEF r

\* A word that is found at p has the text's characters from there on.
LEMMA FoundAt ==
  ASSUME TextInv, NEW S, NEW w \in Seq(S), NEW p \in 1 .. Len(text), E!IsAt(w, p)
  PROVE  /\ p + Len(w) \in p .. Len(text) + 1 /\ SubSeq(text, p, p + Len(w) - 1) = w
         /\ \A n \in 1 .. Len(w) : text[p + n - 1] = w[n]
<1>1. p + Len(w) <= Len(text) + 1 /\ SubSeq(text, p, p + Len(w) - 1) = w /\ Len(w) \in Nat
      /\ Len(text) \in Nat
  BY TextTypes DEF E!IsAt
<1> DEFINE q == p + Len(w)
<1>2. p \in 1 .. Len(text) + 1 /\ q \in p .. Len(text) + 1 /\ q - p = Len(w)
  BY <1>1
<1> HIDE DEF q
<1>3. \A n \in 1 .. q - p : SubSeq(text, p, q - 1)[n] = text[p + n - 1]
  BY <1>2, PartOfText
<1>4. p + Len(w) \in p .. Len(text) + 1
  BY <1>2 DEF q
<1>5. SubSeq(text, p, q - 1) = w
  BY <1>1 DEF q
<1>6. \A n \in 1 .. Len(w) : text[p + n - 1] = w[n]
  BY <1>2, <1>3, <1>5
<1> QED
  BY <1>1, <1>4, <1>6

\* A contraction has no blank in it.
LEMMA ContractionIs ==
  ASSUME TextInv, NEW p \in 1 .. Len(text), NEW to \in E!ContractionEnds(p)
  PROVE  /\ to \in p + 1 .. Len(text) + 1
         /\ \A k \in p .. to - 1 : text[k] \notin E!Spaces
<1>1. PICK c \in E!Contractions : to = p + Len(c) /\ E!IsAt(c, p)
  BY DEF E!ContractionEnds
<1> DEFINE S == {"'", "s", "t", "r", "e", "v", "m", "l", "d"}
<1>2. c \in Seq(S) /\ Len(c) \in {2, 3} /\ \A n \in 1 .. Len(c) : c[n] \in S
  <2>0. \/ \E x, y \in S : c = <<x, y>>
        \/ \E x, y, z \in S : c = <<x, y, z>>
    BY <1>1 DEF E!Contractions
  <2>1. c \in Seq(S) /\ Len(c) \in {2, 3}
    <3> HIDE DEF S
    <3>1. \A x, y \in S : <<x, y>> \in Seq(S) /\ Len(<<x, y>>) = 2
      OBVIOUS
    <3>2. \A x, y, z \in S : <<x, y, z>> \in Seq(S) /\ Len(<<x, y, z>>) = 3
      OBVIOUS
    <3> QED
      BY <2>0, <3>1, <3>2
  <2> HIDE DEF S
  <2>2. \A n \in 1 .. Len(c) : c[n] \in S
    BY <2>1
  <2> QED
    BY <2>1, <2>2
<1>3. E!Spaces \cap S = {}
  BY Classes
<1> HIDE DEF S
<1>4. p + Len(c) \in p .. Len(text) + 1 /\ \A n \in 1 .. Len(c) : text[p + n - 1] = c[n]
  BY <1>1, <1>2, FoundAt
<1>5. ASSUME NEW k \in p .. to - 1 PROVE text[k] \notin E!Spaces
  <2> DEFINE n == k - p + 1
  <2>1. n \in 1 .. Len(c) /\ p + n - 1 = k
    BY <1>1, <1>2
  <2> HIDE DEF n
  <2>2. text[p + n - 1] = c[n] /\ c[n] \in S
    BY <2>1, <1>2, <1>4
  <2> QED
    BY <2>1, <2>2, <1>3
<1>6. to \in p + 1 .. Len(text) + 1
  <2>1. Len(text) \in Nat
    BY TextTypes
  <2>2. Len(c) \in Nat /\ Len(c) >= 1
    <3>1. Len(c) \in {2, 3}
      BY <1>2
    <3> QED
      BY <3>1
  <2>3. to = p + Len(c) /\ to \in p .. Len(text) + 1
    <3>1. to = p + Len(c)
      BY <1>1
    <3> QED
      BY <1>4, <3>1
  <2> HIDE DEF S
  <2> QED
    BY ONLY <2>1, <2>2, <2>3, p \in 1 .. Len(text)
<1> QED
  BY <1>5, <1>6

\* Where a marker may open and close.
LEMMA OpensIs ==
  ASSUME TextInv, NEW p \in 1 .. Len(text) + 1
  PROVE  /\ \A k \in E!Opens(p) : k \in p .. Len(text) - 1 /\ text[k] = "<" /\ k \in E!Opens(1)
         /\ \A k \in E!Opens(1) : p <= k => k \in E!Opens(p)
         /\ \A k \in E!Closes(p) : k \in p .. Len(text) - 1 /\ text[k + 1] = ">"
         /\ \A q \in 1 .. p : \A k \in E!Closes(p) : k \in E!Closes(q)
         /\ E!Opens(p) # {} => /\ E!Min(E!Opens(p)) \in E!Opens(p)
                               /\ \A k \in E!Opens(p) : E!Min(E!Opens(p)) <= k
<1>1. Len(text) \in Nat /\ p \in Nat
  BY TextTypes
<1>2. ASSUME NEW k \in E!Opens(p)
      PROVE  k \in p .. Len(text) - 1 /\ text[k] = "<" /\ k \in E!Opens(1)
  <2>1. k \in p .. Len(text) - 1 /\ E!IsAt(<<"<", "|">>, k)
    BY DEF E!Opens
  <2>2. k \in 1 .. Len(text) /\ k \in 1 .. Len(text) - 1
    BY <1>1, <2>1
  <2>3. <<"<", "|">> \in Seq({"<", "|"}) /\ Len(<<"<", "|">>) = 2 /\ <<"<", "|">>[1] = "<"
    OBVIOUS
  <2>4. \A n \in 1 .. Len(<<"<", "|">>) : text[k + n - 1] = <<"<", "|">>[n]
    BY <2>1, <2>2, <2>3, FoundAt
  <2>5. text[k + 1 - 1] = <<"<", "|">>[1]
    BY <2>3, <2>4
  <2>6. k + 1 - 1 = k
    BY <2>2
  <2> QED
    BY <2>1, <2>2, <2>3, <2>5, <2>6 DEF E!Opens
<1>3. \A k \in E!Opens(1) : p <= k => k \in E!Opens(p)
  BY <1>1 DEF E!Opens
<1>4. ASSUME NEW k \in E!Closes(p) PROVE k \in p .. Len(text) - 1 /\ text[k + 1] = ">"
  <2>1. k \in p .. Len(text) - 1 /\ E!IsAt(<<"|", ">">>, k)
    BY DEF E!Closes
  <2>2. k \in 1 .. Len(text)
    BY <1>1, <2>1
  <2>3. <<"|", ">">> \in Seq({"|", ">"}) /\ Len(<<"|", ">">>) = 2 /\ <<"|", ">">>[2] = ">"
    OBVIOUS
  <2>4. \A n \in 1 .. Len(<<"|", ">">>) : text[k + n - 1] = <<"|", ">">>[n]
    BY <2>1, <2>2, <2>3, FoundAt
  <2>5. text[k + 2 - 1] = <<"|", ">">>[2]
    BY <2>3, <2>4
  <2>6. k + 2 - 1 = k + 1
    BY <2>2
  <2> QED
    BY <2>1, <2>3, <2>5, <2>6
<1>7. \A q \in 1 .. p : \A k \in E!Closes(p) : k \in E!Closes(q)
  BY <1>1 DEF E!Closes
<1>5. E!Opens(p) \in SUBSET Nat
  BY <1>1 DEF E!Opens
<1>6. E!Opens(p) # {} => /\ E!Min(E!Opens(p)) \in E!Opens(p)
                         /\ \A k \in E!Opens(p) : E!Min(E!Opens(p)) <= k
  BY <1>5, MinOf
<1> QED
  BY <1>2, <1>3, <1>4, <1>6, <1>7

\* What encode takes for a marker: from the first "<|" to the first "|>" behind it.
LEMMA MarkerIs ==
  ASSUME TextInv, offset \in 1 .. Len(text) + 1, E!HasMarker, NEW m \in E!Marker
  PROVE  /\ m = <<m[1], m[2]>> /\ m[1] = E!Min(E!Opens(offset)) /\ m[1] \in E!Opens(offset)
         /\ m[1] \in offset .. Len(text) /\ m[2] \in m[1] + 4 .. Len(text) + 1
         /\ SubSeq(text, m[1], m[2] - 1) \in DOMAIN ids
         /\ m[2] - 2 \in E!Closes(m[1] + 2)
         /\ \A k \in E!Closes(m[1] + 2) : m[2] <= k + 2
<1> DEFINE open == E!Min(E!Opens(offset))
<1>1. Len(text) \in Nat /\ open \in E!Opens(offset) /\ open \in offset .. Len(text) - 1
  BY TextTypes, OpensIs DEF E!HasMarker
<1>2. PICK close \in E!Closes(open + 2) : m = <<open, close + 2>>
  BY DEF E!Marker
<1>3. /\ \A k \in E!Closes(open + 2) : m[2] <= k + 2
      /\ SubSeq(text, m[1], m[2] - 1) \in DOMAIN ids
  BY DEF E!Marker
<1> HIDE DEF open
<1>4. open + 2 \in 1 .. Len(text) + 1
  BY <1>1
<1>5. close \in open + 2 .. Len(text) - 1
  BY <1>4, OpensIs
<1>6. m[1] = open /\ m[2] = close + 2 /\ m[2] - 2 = close
  BY <1>2, <1>5
<1>7. m[1] \in offset .. Len(text) /\ m[2] \in m[1] + 4 .. Len(text) + 1
  BY <1>1, <1>5, <1>6
<1> QED
  BY <1>1, <1>2, <1>3, <1>6, <1>7 DEF open
-----------------------------------------------------------------------------
\* The ends of markers within a part of the text are those of the text.
LEMMA CloseInside ==
  ASSUME TextInv, NEW q \in 1 .. Len(text), NEW e \in q + 4 .. Len(text) + 1
  PROVE  LET t == SubSeq(text, q, e - 1)
         IN  /\ Len(t) = e - q /\ SubSeq(t, 1, 2) = SubSeq(text, q, q + 1)
             /\ \A k \in 3 .. e - q - 1 :
                  SubSeq(t, k, k + 1) = <<"|", ">">> <=> q + k - 1 \in E!Closes(q + 2)
<1> DEFINE r == e - 1
           t == SubSeq(text, q, r)
<1>1. /\ Len(text) \in Nat /\ q \in Nat /\ r \in 1 .. Len(text) /\ q \in 1 .. Len(text) + 1
      /\ e \in q .. Len(text) + 1
  BY TextTypes
<1>2. t \in Seq(Chars) /\ Len(t) = e - q
  BY <1>1, PartOfText
<1>3. ASSUME NEW k \in 1 .. r - q PROVE SubSeq(t, k, k + 1) = SubSeq(text, q + k - 1, q + k)
  <2>1. k \in 1 .. r - q + 1 /\ k + 1 \in 1 .. r - q + 1 /\ q + (k + 1) - 1 = q + k
    BY <1>1
  <2> DEFINE l == k + 1
  <2> HIDE DEF r, l
  <2>2. SubSeq(SubSeq(text, q, r), k, l) = SubSeq(text, q + k - 1, q + l - 1)
    BY <2>1, <1>1, SubSeqOfSubSeq DEF TextInv, l
  <2> QED
    BY <2>1, <2>2 DEF l
<1>4. 1 \in 1 .. r - q /\ q + 1 - 1 = q /\ 1 + 1 = 2
  BY <1>1
<1>5. SubSeq(t, 1, 2) = SubSeq(text, q, q + 1)
  BY <1>3, <1>4
<1>6. ASSUME NEW k \in 3 .. e - q - 1
      PROVE  SubSeq(t, k, k + 1) = <<"|", ">">> <=> q + k - 1 \in E!Closes(q + 2)
  <2> DEFINE K == q + k - 1
  <2>1. k \in 1 .. r - q /\ K \in q + 2 .. Len(text) - 1 /\ K + 2 - 1 = q + k
        /\ K + 2 <= Len(text) + 1
    BY <1>1
  <2>2. SubSeq(t, k, k + 1) = SubSeq(text, K, K + 2 - 1)
    BY <1>3, <2>1
  <2> HIDE DEF K, t
  <2>3. Len(<<"|", ">">>) = 2
    OBVIOUS
  <2>4. K \in E!Closes(q + 2) <=> SubSeq(text, K, K + 2 - 1) = <<"|", ">">>
    BY <2>1, <2>3 DEF E!Closes, E!IsAt
  <2> QED
    BY <2>2, <2>4 DEF K
<1> QED
  BY <1>2, <1>5, <1>6

\* A marker that encode takes is one of the tokens that text can hold as markers.
LEMMA MarkerTaken ==
  ASSUME TextInv, offset \in 1 .. Len(text) + 1, E!HasMarker, NEW m \in E!Marker
  PROVE  LET t == SubSeq(text, m[1], m[2] - 1)
         IN  t \in E!Markers /\ E!IsAt(t, m[1]) /\ m[1] + Len(t) = m[2]
<1> DEFINE q == m[1]
           e == m[2]
           t == SubSeq(text, q, e - 1)
<1>1. /\ q \in E!Opens(offset) /\ q \in offset .. Len(text) /\ e \in q + 4 .. Len(text) + 1
      /\ t \in DOMAIN ids /\ e - 2 \in E!Closes(q + 2)
      /\ \A k \in E!Closes(q + 2) : e <= k + 2
  BY MarkerIs
<1> HIDE DEF q, e
<1>2. Len(text) \in Nat /\ q \in 1 .. Len(text) /\ q \in Nat /\ e \in Nat /\ q + 4 <= e
      /\ e <= Len(text) + 1
  BY <1>1, TextTypes
<1>3. /\ Len(t) = e - q /\ SubSeq(t, 1, 2) = SubSeq(text, q, q + 1)
      /\ \A k \in 3 .. e - q - 1 :
           SubSeq(t, k, k + 1) = <<"|", ">">> <=> q + k - 1 \in E!Closes(q + 2)
  BY <1>1, <1>2, CloseInside
<1> HIDE DEF t
<1>4. SubSeq(text, q, q + 1) = <<"<", "|">>
  <2>1. E!IsAt(<<"<", "|">>, q)
    BY <1>1 DEF E!Opens
  <2>2. Len(<<"<", "|">>) = 2 /\ q + 2 - 1 = q + 1
    BY <1>2
  <2> QED
    BY <2>1, <2>2 DEF E!IsAt
<1>5. ASSUME NEW k \in 3 .. Len(t) - 1
      PROVE  SubSeq(t, k, k + 1) = <<"|", ">">> <=> k = Len(t) - 1
  <2>1. k \in 3 .. e - q - 1 /\ Len(t) = e - q
    BY <1>3
  <2>2. k = Len(t) - 1 => q + k - 1 = e - 2
    BY <1>2, <2>1
  <2>3. q + k - 1 \in E!Closes(q + 2) => e <= (q + k - 1) + 2
    BY <1>1
  <2>4. q + k - 1 \in E!Closes(q + 2) => k = Len(t) - 1
    BY <1>2, <2>1, <2>3
  <2> QED
    BY <1>1, <1>3, <2>1, <2>2, <2>4
<1>6. Len(t) - 1 \in 3 .. Len(t) - 1 /\ Len(t) > 3
  BY <1>2, <1>3
<1>7. {k \in 3 .. Len(t) - 1 : SubSeq(t, k, k + 1) = <<"|", ">">>} = {Len(t) - 1}
  BY <1>5, <1>6
<1>8. t \in E!Markers
  BY <1>1, <1>3, <1>4, <1>6, <1>7 DEF E!Markers
<1>9. q + Len(t) = e /\ E!IsAt(t, q)
  <2>1. q + Len(t) = e
    BY <1>2, <1>3
  <2> QED
    BY <2>1, <1>2 DEF E!IsAt, t
<1> QED
  BY <1>8, <1>9 DEF q, e, t

\* A token that stands at the first "<|" is what encode takes.
LEMMA MarkerThere ==
  ASSUME VInv, TextInv, offset \in 1 .. Len(text) + 1, NEW m \in E!Markers,
         E!Opens(offset) # {}, E!IsAt(m, E!Min(E!Opens(offset)))
  PROVE  /\ E!HasMarker
         /\ \A x \in E!Marker : x[2] = E!Min(E!Opens(offset)) + Len(m)
<1> DEFINE q == E!Min(E!Opens(offset))
           e == q + Len(m)
           close == e - 2
<1>1. Len(text) \in Nat /\ q \in E!Opens(offset) /\ q \in offset .. Len(text) - 1
  BY TextTypes, OpensIs
<1>2. q \in 1 .. Len(text) /\ q \in Nat
  BY <1>1
<1>3. m \in DOMAIN ids /\ Len(m) > 3
      /\ {k \in 3 .. Len(m) - 1 : SubSeq(m, k, k + 1) = <<"|", ">">>} = {Len(m) - 1}
  BY DEF E!Markers
<1>4. m \in Seq(STRING)
  <2>1. PICK n \in 1 .. Loaded : m = file.tokens[n]
    BY <1>3 DEF VInv, IdsInv
  <2>2. n \in 1 .. Len(file.tokens)
    BY FileTypes DEF VInv, IdsInv
  <2> QED
    BY <2>1, <2>2, FileTypes DEF VInv
<1> HIDE DEF q
<1>5. e \in q .. Len(text) + 1 /\ SubSeq(text, q, e - 1) = m /\ Len(m) \in Nat
  BY <1>2, <1>4, FoundAt DEF q
<1>6. e \in q + 4 .. Len(text) + 1 /\ Len(m) = e - q
  BY <1>2, <1>3, <1>5
<1> HIDE DEF e
<1>7. \A k \in 3 .. e - q - 1 :
        SubSeq(m, k, k + 1) = <<"|", ">">> <=> q + k - 1 \in E!Closes(q + 2)
  BY <1>2, <1>5, <1>6, CloseInside
<1>8. close \in E!Closes(q + 2)
  <2>1. Len(m) - 1 \in 3 .. e - q - 1 /\ q + (Len(m) - 1) - 1 = close
    BY <1>2, <1>6
  <2>2. SubSeq(m, Len(m) - 1, (Len(m) - 1) + 1) = <<"|", ">">>
    BY <1>3
  <2> QED
    BY <1>7, <2>1, <2>2
<1>9. q + 2 \in 1 .. Len(text) + 1
  BY <1>2, <1>6
<1>10. ASSUME NEW k \in E!Closes(q + 2) PROVE e <= k + 2
  <2> SUFFICES ASSUME ~(e <= k + 2) PROVE FALSE
    OBVIOUS
  <2>1. k \in q + 2 .. Len(text) - 1
    BY <1>9, OpensIs
  <2> DEFINE j == k - q + 1
  <2>2. j \in 3 .. e - q - 1 /\ q + j - 1 = k /\ j # Len(m) - 1 /\ j \in 3 .. Len(m) - 1
    BY <1>2, <1>6, <2>1
  <2> HIDE DEF j
  <2>3. SubSeq(m, j, j + 1) = <<"|", ">">>
    BY <1>7, <2>2
  <2> QED
    BY <1>3, <2>2, <2>3
<1>11. close + 2 = e
  BY <1>6, <1>2
<1>12. <<q, e>> \in E!Marker
  <2>1. <<q, close + 2>> \in {<<q, k + 2>> : k \in E!Closes(q + 2)}
    BY <1>8
  <2>2. <<q, e>> \in {<<q, k + 2>> : k \in E!Closes(q + 2)}
    BY <2>1, <1>11
  <2> HIDE DEF close
  <2>3. <<q, e>>[1] = q /\ <<q, e>>[2] = e
    OBVIOUS
  <2> QED
    BY <2>2, <2>3, <1>3, <1>5, <1>10 DEF E!Marker, q
<1>13. E!HasMarker
  BY <1>12 DEF E!HasMarker
<1>14. ASSUME NEW x \in E!Marker PROVE x[2] = e
  <2>1. /\ x[1] = q /\ x[2] \in x[1] + 4 .. Len(text) + 1 /\ x[2] - 2 \in E!Closes(q + 2)
        /\ \A k \in E!Closes(q + 2) : x[2] <= k + 2
    BY <1>13, MarkerIs DEF q
  <2>2. x[2] <= e
    BY <1>8, <1>11, <2>1
  <2>3. e <= (x[2] - 2) + 2
    BY <1>10, <2>1
  <2> HIDE DEF close
  <2> QED
    BY <1>2, <1>6, <2>1, <2>2, <2>3
<1> QED
  BY <1>13, <1>14 DEF q, e
-----------------------------------------------------------------------------
\* The greatest of numbers that have a bound.
LEMMA MaxOf ==
  ASSUME NEW n \in Nat, NEW S \in SUBSET (0 .. n), S # {}
  PROVE  E!Max(S) \in S /\ \A y \in S : y <= E!Max(S)
<1> DEFINE T == {n - x : x \in S}
<1>1. T \in SUBSET Nat /\ T # {}
  <2>1. \A x \in S : n - x \in Nat
    OBVIOUS
  <2> QED
    BY <2>1
<1>2. PICK y \in T : \A z \in T : y <= z
  <2> HIDE DEF T
  <2> QED
    BY <1>1, LeastExists
<1>3. PICK x \in S : y = n - x
  BY <1>2
<1>4. ASSUME NEW z \in S PROVE x >= z
  <2>1. n - z \in T /\ x \in 0 .. n /\ z \in 0 .. n
    OBVIOUS
  <2>2. n - x <= n - z
    BY <2>1, <1>2, <1>3
  <2> QED
    BY <2>1, <2>2
<1>5. E!Max(S) = CHOOSE g \in S : \A z \in S : g >= z
  BY DEF E!Max
<1>6. E!Max(S) \in S /\ \A z \in S : E!Max(S) >= z
  BY <1>4, <1>5
<1>7. \A z \in S : z \in Int
  OBVIOUS
<1> QED
  BY <1>6, <1>7

\* A letter on both sides is divided by a contraction only.
Boundary(e) ==
  e \in 2 .. Len(text) /\ {text[e - 1], text[e]} \subseteq E!Letters
    => \E q \in 1 .. e : e \in E!ContractionEnds(q)

\* Which markers are kept: those that nothing before them can take with it.
Before(p)   == {q \in E!Opens(1) : q < p}
Keeps(p, m) ==
  /\ E!IsAt(m, p)
  /\ ~\E q \in Before(p), t \in E!Markers : E!IsAt(t, q) /\ q + Len(t) > p
  /\ Before(p) # {} => \E k \in E!Max(Before(p)) + 2 .. p - 1 : text[k] \notin E!Others

\* The next segment and marker end at e and n, as far as the text is concerned.
Cuts(e, n) ==
  /\ e \in offset .. Len(text) + 1 /\ n \in e .. Len(text) + 1 /\ offset < n
  /\ e < n => SubSeq(text, e, n - 1) \in DOMAIN ids
  /\ Boundary(e) /\ Boundary(n)
  /\ E!Opens(1) = {} => e = n /\ Apart(offset, e)
  /\ \A p \in E!Opens(1), m \in E!Markers :
       Keeps(p, m) /\ offset <= p => n <= p \/ (e = p /\ n = p + Len(m))

\* A marker is cut out where the first "<|" begins one.
LEMMA MarkerCuts ==
  ASSUME VInv, TextInv, offset \in 1 .. Len(text) + 1, E!HasMarker, NEW x \in E!Marker
  PROVE  Cuts(x[1], x[2])
<1> DEFINE e == x[1]
           n == x[2]
<1>1. /\ e = E!Min(E!Opens(offset)) /\ e \in E!Opens(offset) /\ e \in offset .. Len(text)
      /\ n \in e + 4 .. Len(text) + 1 /\ SubSeq(text, e, n - 1) \in DOMAIN ids
      /\ n - 2 \in E!Closes(e + 2)
  BY MarkerIs
<1>2. LET t == SubSeq(text, e, n - 1)
      IN  t \in E!Markers /\ E!IsAt(t, e) /\ e + Len(t) = n
  BY MarkerTaken
<1> HIDE DEF e, n
<1>3. Len(text) \in Nat /\ e \in Nat /\ n \in Nat /\ e + 4 <= n /\ n <= Len(text) + 1
      /\ offset \in Nat /\ offset <= e
  BY <1>1, TextTypes
<1>4. e \in offset .. Len(text) + 1 /\ n \in e .. Len(text) + 1 /\ offset < n
  BY <1>3
<1>5. Boundary(e)
  <2>1. text[e] = "<"
    BY <1>1, OpensIs
  <2> QED
    BY <2>1, Classes DEF Boundary
<1>6. Boundary(n)
  <2>1. e + 2 \in 1 .. Len(text) + 1 /\ (n - 2) + 1 = n - 1
    BY <1>3
  <2>2. n - 2 \in E!Closes(e + 2)
    BY <1>1
  <2>3. text[(n - 2) + 1] = ">"
    BY <2>1, <2>2, OpensIs
  <2> QED
    BY <2>1, <2>3, Classes DEF Boundary
<1>7. E!Opens(1) # {} /\ e \in E!Opens(1)
  BY <1>1, OpensIs
<1>8. ASSUME NEW p \in E!Opens(1), NEW m \in E!Markers, Keeps(p, m), offset <= p
      PROVE  n <= p \/ (e = p /\ n = p + Len(m))
  <2>1. 1 \in 1 .. Len(text) + 1
    BY <1>3
  <2>2. p \in E!Opens(offset) /\ p \in 1 .. Len(text) - 1 /\ e <= p
    BY <1>1, <1>8, <2>1, OpensIs
  <2>3. CASE e = p
    <3>1. E!IsAt(m, E!Min(E!Opens(offset)))
      BY <1>1, <1>8, <2>3 DEF Keeps
    <3>2. \A y \in E!Marker : y[2] = E!Min(E!Opens(offset)) + Len(m)
      BY <2>2, <3>1, MarkerThere
    <3>3. n = p + Len(m)
      BY <1>1, <2>3, <3>2 DEF n
    <3> QED
      BY <2>3, <3>3
  <2>4. CASE e # p
    <3>1. e \in Before(p)
      BY <1>3, <1>7, <2>2, <2>4 DEF Before
    <3>2. ~(e + Len(SubSeq(text, e, n - 1)) > p)
      BY <1>2, <1>8, <3>1 DEF Keeps
    <3>3. n <= p
      BY <1>2, <1>3, <2>2, <3>2
    <3> QED
      BY <3>3
  <2> QED
    BY <2>3, <2>4
<1>9. Cuts(e, n)
  BY <1>1, <1>4, <1>5, <1>6, <1>7, <1>8 DEF Cuts
<1> QED
  BY <1>9 DEF e, n

\* What comes before a "<|" that begins no marker is cut out.
LEMMA OpenCuts ==
  ASSUME TextInv, offset \in 1 .. Len(text) + 1, E!Opens(offset) # {},
         offset \notin E!Opens(offset)
  PROVE  Cuts(E!Min(E!Opens(offset)), E!Min(E!Opens(offset)))
<1> DEFINE e == E!Min(E!Opens(offset))
<1>1. /\ e \in E!Opens(offset) /\ \A k \in E!Opens(offset) : e <= k
      /\ e \in offset .. Len(text) - 1 /\ text[e] = "<" /\ e \in E!Opens(1)
  BY OpensIs
<1> HIDE DEF e
<1>2. Len(text) \in Nat /\ offset \in Nat /\ e \in Nat /\ offset # e
  BY <1>1, TextTypes
<1>3. e \in offset .. Len(text) + 1 /\ e \in e .. Len(text) + 1 /\ offset < e /\ ~(e < e)
  BY <1>1, <1>2
<1>4. Boundary(e)
  BY <1>1, Classes DEF Boundary
<1>5. ASSUME NEW p \in E!Opens(1), offset <= p PROVE e <= p
  BY <1>1, <1>5, OpensIs
<1>6. Cuts(e, e)
  BY <1>1, <1>3, <1>4, <1>5 DEF Cuts
<1> QED
  BY <1>6 DEF e

\* Text with no marker in front is cut out up to e, if e is such an end.
LEMMA PlainCuts ==
  ASSUME VInv, TextInv, offset \in 1 .. Len(text), ~E!HasMarker,
         E!Opens(offset) = {} \/ offset \in E!Opens(offset),
         NEW e \in offset + 1 .. Len(text) + 1, Boundary(e), Apart(offset, e),
         text[offset] = "<" =>
           \A k \in offset .. Len(text), q \in offset .. Len(text) :
             k < q /\ text[k] \notin E!Others /\ text[q] \notin E!Newlines => e <= q
  PROVE  Cuts(e, e)
<1>1. Len(text) \in Nat /\ offset \in Nat /\ e \in Nat /\ offset < e /\ e <= Len(text) + 1
      /\ offset \in 1 .. Len(text) + 1
  BY TextTypes
<1>2. e \in offset .. Len(text) + 1 /\ e \in e .. Len(text) + 1 /\ ~(e < e)
  BY <1>1
<1>3. ASSUME NEW p \in E!Opens(1), NEW m \in E!Markers, Keeps(p, m), offset <= p
      PROVE  e <= p
  <2>1. 1 \in 1 .. Len(text) + 1
    BY <1>1
  <2>2. p \in E!Opens(offset) /\ p \in 1 .. Len(text) - 1 /\ text[p] = "<"
    BY <1>1, <1>3, <2>1, OpensIs
  <2>3. /\ offset \in E!Opens(offset) /\ text[offset] = "<" /\ offset \in E!Opens(1)
        /\ E!Min(E!Opens(offset)) = offset
    <3>1. offset \in E!Opens(offset)
      BY <2>2
    <3>2. /\ text[offset] = "<" /\ offset \in E!Opens(1)
          /\ E!Min(E!Opens(offset)) <= offset
          /\ E!Min(E!Opens(offset)) \in offset .. Len(text) - 1
      BY <1>1, <3>1, OpensIs
    <3> QED
      BY <1>1, <3>1, <3>2
  <2>4. offset # p
    <3> SUFFICES ASSUME offset = p PROVE FALSE
      OBVIOUS
    <3>1. E!IsAt(m, E!Min(E!Opens(offset)))
      BY <1>3, <2>3 DEF Keeps
    <3> QED
      BY <1>1, <2>2, <3>1, MarkerThere
  <2>5. offset \in Before(p)
    BY <1>1, <1>3, <2>2, <2>3, <2>4 DEF Before
  <2>6. Before(p) \in SUBSET (0 .. p)
    <3>1. ASSUME NEW k \in Before(p) PROVE k \in 0 .. p
      <4>1. k \in E!Opens(1) /\ k < p
        BY DEF Before
      <4>2. k \in 1 .. Len(text) - 1
        BY <4>1, <2>1, OpensIs
      <4> QED
        BY <4>1, <4>2, <2>2
    <3> QED
      BY <3>1
  <2>7. E!Max(Before(p)) \in 0 .. p /\ offset <= E!Max(Before(p))
    <3>1. p \in Nat /\ Before(p) # {}
      BY <2>2, <2>5
    <3>2. E!Max(Before(p)) \in Before(p) /\ \A y \in Before(p) : y <= E!Max(Before(p))
      BY <2>6, <3>1, MaxOf
    <3> QED
      BY <2>5, <2>6, <3>2
  <2>8. PICK k \in E!Max(Before(p)) + 2 .. p - 1 : text[k] \notin E!Others
    BY <1>3, <2>5 DEF Keeps
  <2>9. k \in offset .. Len(text) /\ p \in offset .. Len(text) /\ k < p
    BY <1>1, <1>3, <2>2, <2>7
  <2> QED
    BY <2>2, <2>3, <2>8, <2>9, Classes
<1> QED
  BY <1>1, <1>2, <1>3 DEF Cuts
-----------------------------------------------------------------------------
\* Nothing has been encoded, or nothing of it was kept.
Resting == /\ enc_pc \in {"idle", "start", "failed", "no_segment"} /\ seg_pc = "idle"
           /\ offset = 1 /\ parts = << >> /\ token_ids = << >>

\* Segments are encoded one after the other, by a call in progress exactly while there
\* is something between offset and end, and with a vocabulary that is ready.
PlacesInv ==
  /\ (enc_pc \in {"encode", "segment", "done"} \/ Resting)
  /\ enc_pc # "idle" => pc = "ready"
  /\ offset \in 1 .. Len(text) + 1
  /\ enc_pc = "done" => offset = Len(text) + 1
  /\ enc_pc = "segment" => /\ end \in offset .. Len(text) + 1 /\ next \in end .. Len(text) + 1
                           /\ offset < next
                           /\ end < next => SubSeq(text, end, next - 1) \in DOMAIN ids
  /\ seg_pc \in {"idle", "symbols", "merge", "append"}
  /\ seg_pc # "idle" <=> enc_pc = "segment" /\ offset < end

\* What the steps of Tokenizer do to a text.  It comes to rest:
Rests == Resting' /\ (enc_pc' = "idle" \/ pc' = "ready") /\ TextInv' /\ VInv'

\* encode begins with bos, if it is wanted and there is one,
Starts ==
  /\ enc_pc = "start" /\ enc_pc' = "encode" /\ offset' = offset /\ parts' = parts
  /\ seg_pc' = seg_pc /\ token_ids' = IF addBos THEN <<file.bos>> ELSE << >>
  /\ addBos => file.bos \in TokenIds

\* it cuts a segment and calls encode_segment, if there is anything to encode,
CutsOff ==
  /\ enc_pc = "encode" /\ enc_pc' = "segment" /\ offset' = offset /\ parts' = parts
  /\ token_ids' = token_ids /\ Cuts(end', next')
  /\ IF offset < end'
     THEN /\ seg_pc' = "symbols" /\ base' = Len(token_ids) /\ pieces' = << >>
          /\ segment' = [n \in 1 .. end' - offset |-> SymbolOf(text[offset + n - 1])]
     ELSE seg_pc' = seg_pc

\* encode_segment works,
Works == B!Step /\ UNCHANGED <<enc_pc, offset, end, next, parts>>

\* it returns, and what it has encoded and the marker behind it are done,
Advances ==
  /\ enc_pc = "segment" /\ enc_pc' = "encode" /\ offset' = next /\ seg_pc' = "idle"
  /\ parts' = parts \o (IF end = offset THEN << >> ELSE <<E!Part("segment", offset, end)>>)
                    \o (IF next = end THEN << >> ELSE <<E!Part("marker", end, next)>>)
  /\ token_ids' = token_ids \o (IF next = end THEN << >>
                                ELSE <<ids[SubSeq(text, end, next - 1)]>>)
  /\ offset < end => seg_pc = "append" /\ Len(token_ids) = base + Len(pieces)

\* or everything is encoded.
Ends ==
  /\ enc_pc = "encode" /\ enc_pc' = "done" /\ offset = Len(text) + 1 /\ seg_pc' = seg_pc
  /\ UNCHANGED <<offset, parts, token_ids>>

\* Texts of a file are sequences of characters that are not names of symbols.
LEMMA TextsAreTexts ==
  ASSUME VInv, NEW t \in Texts(file)
  PROVE  t \in Seq(Chars)
BY TokenizerAssumption DEF VInv, FileInv, Chars, Symbols

\* Texts in the token table are those of their ids.
LEMMA IdsTyped ==
  ASSUME VInv, NEW t \in DOMAIN ids
  PROVE  ids[t] \in TokenIds /\ Text(ids[t]) = t
<1>1. PICK n \in 1 .. Loaded : t = file.tokens[n]
  BY DEF VInv, IdsInv
<1>2. ids[t] = n - 1 /\ Loaded \in 0 .. Len(file.tokens) /\ Len(file.tokens) \in Nat
  BY <1>1, FileTypes DEF VInv, IdsInv
<1>3. n - 1 \in TokenIds /\ (n - 1) + 1 = n
  BY <1>2 DEF TokenIds
<1> QED
  BY <1>1, <1>2, <1>3 DEF Text

\* The one element of a set as a sequence.
LEMMA OneToSeq ==
  ASSUME NEW x
  PROVE  E!SetToSeq({x}) = <<x>>
<1>1. E!Cardinality({x}) = 1
  <2>1. E!Cardinality({x}) = Cardinality({x})
    BY DEF E!Cardinality, Cardinality
  <2> QED
    BY <2>1, FS_Singleton
<1>2. <<x>> \in [1 .. 1 -> {x}] /\ \A f \in [1 .. 1 -> {x}] : f = <<x>>
  OBVIOUS
<1>3. E!IsInjective(<<x>>)
  BY DEF E!IsInjective
<1>4. E!SetToSeq({x}) = CHOOSE f \in [1 .. 1 -> {x}] : E!IsInjective(f)
  BY <1>1 DEF E!SetToSeq
<1> QED
  BY <1>2, <1>3, <1>4

\* Each of the four ways to cut a segment.
LEMMA CutIs ==
  ASSUME VInv, TextInv, PlacesInv,
         E!EncodeMarker \/ E!EncodeToOpen \/ E!EncodeContraction \/ E!EncodeSegment
  PROVE  /\ enc_pc = "encode" /\ enc_pc' = "segment" /\ offset' = offset /\ parts' = parts
         /\ token_ids' = token_ids /\ text' = text /\ addBos' = addBos
         /\ Cuts(end', next')
<1>1. enc_pc = "encode" /\ offset <= Len(text) /\ offset \in 1 .. Len(text) + 1
  BY DEF E!EncodeMarker, E!EncodeToOpen, E!EncodeContraction, E!EncodeSegment, E!Encoding,
     E!PlainText, PlacesInv
<1>2. offset \in 1 .. Len(text) /\ Len(text) \in Nat
  BY <1>1, TextTypes
<1>3. \E e, n : E!Encode(e, n) /\ Cuts(e, n)
  <2>1. CASE E!EncodeMarker
    <3>1. E!HasMarker /\ \E m \in E!Marker : E!Encode(m[1], m[2])
      BY <2>1 DEF E!EncodeMarker
    <3> QED
      BY <1>1, <3>1, MarkerCuts
  <2>2. CASE E!EncodeToOpen
    <3>1. /\ E!Opens(offset) # {} /\ offset \notin E!Opens(offset)
          /\ E!Encode(E!Min(E!Opens(offset)), E!Min(E!Opens(offset)))
      BY <2>2 DEF E!EncodeToOpen
    <3> QED
      BY <1>1, <3>1, OpenCuts
  <2>3. CASE E!EncodeContraction
    <3>1. PICK to \in E!ContractionEnds(offset) : E!Encode(to, to)
      BY <2>3 DEF E!EncodeContraction
    <3>2. /\ ~E!HasMarker /\ (E!Opens(offset) = {} \/ offset \in E!Opens(offset))
          /\ text[offset] = "'"
      BY <2>3 DEF E!EncodeContraction, E!PlainText, E!Contracted
    <3>3. /\ to \in offset + 1 .. Len(text) + 1
          /\ \A k \in offset .. to - 1 : text[k] \notin E!Spaces
      BY <1>2, ContractionIs
    <3>4. offset \in 1 .. to /\ Boundary(to)
      BY <1>2, <3>1, <3>3 DEF Boundary
    <3>5. Apart(offset, to)
      BY <3>3 DEF Apart
    <3> QED
      BY <1>2, <3>1, <3>2, <3>3, <3>4, <3>5, PlainCuts
  <2>4. CASE E!EncodeSegment
    <3> DEFINE e == E!SegmentEnd(offset)
    <3>1. /\ ~E!HasMarker /\ (E!Opens(offset) = {} \/ offset \in E!Opens(offset))
          /\ e > offset /\ E!Encode(e, e)
      BY <2>4 DEF E!EncodeSegment, E!PlainText
    <3>2. /\ e \in offset .. Len(text) + 1 /\ Apart(offset, e)
          /\ offset < e /\ e <= Len(text) => ~({text[e - 1], text[e]} \subseteq E!Letters)
          /\ text[offset] = "<" =>
               \A k \in offset .. Len(text), q \in offset .. Len(text) :
                 k < q /\ text[k] \notin E!Others /\ text[q] \notin E!Newlines => e <= q
      BY <1>2, SegmentEndIs
    <3> HIDE DEF e
    <3>3. e \in offset + 1 .. Len(text) + 1
      BY <1>2, <3>1, <3>2
    <3>4. Boundary(e)
      BY <1>2, <3>2, <3>3 DEF Boundary
    <3>5. Cuts(e, e)
      BY <1>2, <3>1, <3>2, <3>3, <3>4, PlainCuts
    <3> QED
      BY <3>1, <3>5
  <2> QED
    BY <2>1, <2>2, <2>3, <2>4
<1>4. PICK e, n : E!Encode(e, n) /\ Cuts(e, n)
  BY <1>3
<1>5. /\ enc_pc' = "segment" /\ end' = e /\ next' = n /\ text' = text /\ addBos' = addBos
      /\ offset' = offset /\ parts' = parts /\ token_ids' = token_ids
  BY <1>4 DEF E!Encode
<1> QED
  BY <1>1, <1>4, <1>5

\* Each step of encode itself.
LEMMA EncodeStepIs ==
  ASSUME VInv, TextInv, PlacesInv, EncodeStep
  PROVE  \/ Rests
         \/ /\ UNCHANGED <<vocabulary, text, addBos>>
            /\ (Starts \/ CutsOff \/ Ends)
<1>1. UNCHANGED vocabulary
  BY DEF EncodeStep
<1>2. /\ pc' = pc /\ file' = file /\ ids' = ids /\ VInv'
  BY <1>1, VocabularyStays DEF vocabulary
<1>3. CASE E!Start
  <2>1. /\ enc_pc = "start" /\ enc_pc' = "encode" /\ text' = text /\ addBos' = addBos
        /\ offset' = offset /\ parts' = parts /\ end' = end
        /\ addBos => {file.bos} \ {V!Absent} # {}
        /\ token_ids' = IF addBos THEN E!SetToSeq({file.bos} \ {V!Absent}) ELSE << >>
    BY <1>3 DEF E!Start
  <2>2. seg_pc' = seg_pc
    BY <2>1 DEF EncodeStep, E!Calling, segmenting
  <2>3. ASSUME addBos PROVE file.bos # V!Absent /\ {file.bos} \ {V!Absent} = {file.bos}
    BY <2>1, <2>3
  <2>4. pc = "ready"
    BY <2>1 DEF PlacesInv
  <2>5. V!IdsUsable
    BY <2>4 DEF VInv, FileInv
  <2>6. {file.bos, file.eos} \ {V!Absent} \subseteq TokenIds
    BY Zenon, <2>5 DEF V!IdsUsable, V!bos, V!eos, V!tokens, TokenIds
  <2>7. Starts
    BY <2>1, <2>2, <2>3, <2>6, OneToSeq DEF Starts
  <2> QED
    BY <1>1, <2>1, <2>7
<1>4. CASE E!EncodeMarker \/ E!EncodeToOpen \/ E!EncodeContraction \/ E!EncodeSegment
  <2>1. /\ enc_pc = "encode" /\ enc_pc' = "segment" /\ offset' = offset /\ parts' = parts
        /\ token_ids' = token_ids /\ text' = text /\ addBos' = addBos
        /\ Cuts(end', next')
    BY <1>4, CutIs
  <2>2. offset \in Nat /\ end' \in Nat
    <3>1. Len(text) \in Nat
      BY TextTypes
    <3> QED
      BY <2>1, <3>1 DEF Cuts, PlacesInv
  <2>3. CASE offset < end'
    <3>1. B!Call([n \in 1 .. end' - offset' |-> SymbolOf(text[offset' + n - 1])])
      <4>1. E!Calling
        BY <2>1, <2>2, <2>3 DEF E!Calling
      <4> QED
        BY <4>1 DEF EncodeStep
    <3>2. /\ seg_pc' = "symbols" /\ base' = Len(token_ids) /\ pieces' = << >>
          /\ segment' = [n \in 1 .. end' - offset |-> SymbolOf(text[offset + n - 1])]
      BY <2>1, <3>1 DEF B!Call
    <3>3. CutsOff
      BY <2>1, <2>3, <3>2 DEF CutsOff
    <3> QED
      BY <1>1, <2>1, <3>3
  <2>4. CASE ~(offset < end')
    <3>1. ~E!Calling
      BY <2>1, <2>2, <2>4 DEF E!Calling
    <3>2. seg_pc' = seg_pc
      BY <3>1 DEF EncodeStep, segmenting
    <3>3. CutsOff
      BY <2>1, <2>4, <3>2 DEF CutsOff
    <3> QED
      BY <1>1, <2>1, <3>3
  <2> QED
    BY <2>3, <2>4
<1>5. CASE E!NoBos \/ E!NoSegment
  <2>1. /\ enc_pc' \in {"failed", "no_segment"} /\ parts' = << >> /\ token_ids' = << >>
        /\ offset' = 1 /\ text' = text /\ enc_pc \in {"start", "encode"}
    BY <1>5 DEF E!NoBos, E!NoSegment, E!GiveUp, E!PlainText, E!Encoding
  <2>2. seg_pc' = "idle"
    BY <2>1 DEF EncodeStep, E!Calling, segmenting, PlacesInv
  <2>3. pc' = "ready" /\ TextInv'
    BY <1>2, <2>1 DEF PlacesInv, TextInv
  <2> QED
    BY <1>2, <2>1, <2>2, <2>3 DEF Rests, Resting
<1>6. CASE E!Encoded
  <2>1. /\ enc_pc = "encode" /\ offset > Len(text) /\ enc_pc' = "done"
        /\ UNCHANGED <<text, addBos, offset, end, next, parts, token_ids>>
    BY <1>6 DEF E!Encoded
  <2>2. seg_pc' = seg_pc
    BY <2>1 DEF EncodeStep, E!Calling, segmenting
  <2>3. offset = Len(text) + 1
    <3>1. Len(text) \in Nat /\ offset \in 1 .. Len(text) + 1
      BY TextTypes DEF PlacesInv
    <3> QED
      BY <2>1, <3>1
  <2>4. Ends
    BY <2>1, <2>2, <2>3 DEF Ends
  <2> QED
    BY <1>1, <2>1, <2>4
<1> QED
  BY <1>3, <1>4, <1>5, <1>6 DEF EncodeStep, E!Step

\* Each step of a tokenizer that is in use is one of those above.
LEMMA StepIs ==
  ASSUME VInv, TextInv, PlacesInv, [Next]_vars
  PROVE  \/ Rests
         \/ /\ UNCHANGED <<vocabulary, text, addBos>>
            /\ (Starts \/ CutsOff \/ Works \/ Advances \/ Ends)
         \/ UNCHANGED vars
<1>1. CASE BuildVocabulary \/ FreeVocabulary
  <2>1. /\ (V!Step \/ V!Free)
        /\ UNCHANGED <<encoding, segmenting, token_ids>>
    BY <1>1 DEF BuildVocabulary, FreeVocabulary
  <2>2. enc_pc = "idle"
    <3>1. CASE FreeVocabulary
      BY <3>1 DEF FreeVocabulary, Idle
    <3>2. CASE V!Step
      <4>1. pc # "ready"
        BY <3>2 DEF V!Step, V!RefuseArrays, V!Allocate, V!AllocateFails, V!InsertToken,
           V!TokensDone, V!SplitMerge, V!SplitFails, V!JoinFails, V!Join, V!MergesDone,
           V!ReadIds
      <4> QED
        BY <4>1 DEF PlacesInv
    <3> QED
      BY <1>1, <3>1, <3>2 DEF BuildVocabulary
  <2>3. Resting /\ Resting' /\ enc_pc' = "idle" /\ TextInv'
    BY <2>1, <2>2 DEF PlacesInv, Resting, TextInv, encoding, segmenting
  <2> QED
    BY <2>1, <2>3, VocabularyStepKeeps DEF Rests
<1>2. CASE CallEncode
  <2>1. PICK t \in Texts(file), b \in BOOLEAN : E!Call(t, b)
    BY <1>2 DEF CallEncode
  <2>2. /\ enc_pc = "idle" /\ enc_pc' = "start" /\ text' = t /\ offset' = offset
        /\ parts' = parts /\ token_ids' = token_ids
    BY <2>1 DEF E!Call
  <2>3. /\ pc = "ready" /\ pc' = "ready" /\ seg_pc' = seg_pc /\ VInv'
    BY <1>2, VocabularyStays DEF CallEncode, Idle, vocabulary, segmenting
  <2>4. TextInv'
    BY <2>2, TextsAreTexts DEF TextInv
  <2> QED
    BY <2>2, <2>3, <2>4 DEF Rests, Resting, PlacesInv
<1>3. CASE SegmentStep
  BY <1>3 DEF SegmentStep, Works, encoding
<1>4. CASE SegmentEncoded
  <2>1. /\ enc_pc = "segment" /\ enc_pc' = "encode" /\ offset' = next
        /\ parts' = parts \o (IF end = offset THEN << >>
                               ELSE <<E!Part("segment", offset, end)>>)
                          \o (IF next = end THEN << >> ELSE <<E!Part("marker", end, next)>>)
        /\ token_ids' = token_ids \o (IF next = end THEN << >>
                                      ELSE <<ids[SubSeq(text, end, next - 1)]>>)
        /\ UNCHANGED <<text, addBos>>
    BY <1>4 DEF SegmentEncoded, E!SegmentEncoded
  <2>2. offset \in Nat /\ end \in Nat /\ UNCHANGED vocabulary
    <3>1. Len(text) \in Nat
      BY TextTypes
    <3> QED
      BY <1>4, <2>1, <3>1 DEF PlacesInv, SegmentEncoded
  <2>3. CASE offset < end
    <3>1. B!Return
      BY <1>4, <2>2, <2>3 DEF SegmentEncoded
    <3>2. seg_pc = "append" /\ Len(token_ids) = base + Len(pieces) /\ seg_pc' = "idle"
      BY <3>1 DEF B!Return, B!Appended, B!Clear
    <3> QED
      BY <2>1, <2>2, <3>2 DEF Advances
  <2>4. CASE ~(offset < end)
    <3>1. seg_pc' = seg_pc /\ seg_pc = "idle"
      BY <1>4, <2>2, <2>4 DEF SegmentEncoded, segmenting, PlacesInv
    <3> QED
      BY <2>1, <2>2, <2>4, <3>1 DEF Advances
  <2> QED
    BY <2>3, <2>4
<1>5. CASE SegmentFails
  <2>1. /\ enc_pc = "segment" /\ enc_pc' = "failed" /\ parts' = << >> /\ token_ids' = << >>
        /\ offset' = 1 /\ text' = text
    BY <1>5 DEF SegmentFails, E!SegmentFails, E!GiveUp
  <2>2. seg_pc' = "idle"
    <3>1. B!Fail \/ B!Return => seg_pc' = "idle"
      BY DEF B!Fail, B!Return, B!Clear
    <3>2. UNCHANGED segmenting /\ ~(end > offset) => seg_pc' = "idle"
      <4>1. Len(text) \in Nat
        BY TextTypes
      <4>2. offset \in Int /\ end \in Int
        BY <2>1, <4>1 DEF PlacesInv
      <4> QED
        BY <4>2 DEF segmenting, PlacesInv
    <3> QED
      BY <1>5, <3>1, <3>2 DEF SegmentFails
  <2>3. VInv' /\ pc' = "ready" /\ TextInv'
    <3>1. UNCHANGED vocabulary
      BY <1>5 DEF SegmentFails
    <3> QED
      BY <2>1, <3>1, VocabularyStays DEF PlacesInv, TextInv, vocabulary
  <2> QED
    BY <2>1, <2>2, <2>3 DEF Rests, Resting
<1>6. CASE ReturnIds
  <2>1. /\ enc_pc \in {"done", "failed", "no_segment"} /\ enc_pc' = "idle" /\ text' = << >>
        /\ offset' = 1 /\ parts' = << >> /\ token_ids' = << >>
    BY <1>6 DEF ReturnIds, E!Return
  <2>2. seg_pc' = seg_pc /\ VInv'
    BY <1>6, VocabularyStays DEF ReturnIds, segmenting
  <2>3. TextInv'
    BY <2>1 DEF TextInv
  <2> QED
    BY <2>1, <2>2, <2>3 DEF Rests, Resting, PlacesInv
<1>7. CASE Freed
  BY <1>7 DEF Freed
<1> QED
  BY <1>1, <1>2, <1>3, <1>4, <1>5, <1>6, <1>7, EncodeStepIs DEF Next, Step
-----------------------------------------------------------------------------
\* What the invariants say of a text depends on the text and the tokens only.
LEMMA SameText ==
  ASSUME text' = text, ids' = ids
  PROVE  /\ \A e : Boundary(e)' <=> Boundary(e)
         /\ \A q : E!ContractionEnds(q)' = E!ContractionEnds(q)
         /\ \A p, e : Apart(p, e)' <=> Apart(p, e)
         /\ E!Opens(1)' = E!Opens(1) /\ E!Markers' = E!Markers
         /\ \A p, m : Keeps(p, m)' <=> Keeps(p, m)
<1>1. \A w, q : E!IsAt(w, q)' <=> E!IsAt(w, q)
  BY DEF E!IsAt
<1>2. \A q : E!ContractionEnds(q)' = E!ContractionEnds(q)
  BY <1>1 DEF E!ContractionEnds
<1>3. \A e : Boundary(e)' <=> Boundary(e)
  BY <1>2 DEF Boundary
<1>4. \A p, e : Apart(p, e)' <=> Apart(p, e)
  BY DEF Apart
<1>5. E!Opens(1)' = E!Opens(1) /\ E!Markers' = E!Markers
  BY <1>1 DEF E!Opens, E!Markers
<1>6. \A p : Before(p)' = Before(p)
  BY <1>5 DEF Before
<1>7. \A p, m : Keeps(p, m)' <=> Keeps(p, m)
  BY <1>1, <1>5, <1>6 DEF Keeps
<1> QED
  BY <1>2, <1>3, <1>4, <1>5, <1>7

\* encode_segment neither starts nor ends by itself.
LEMMA WorkIs ==
  ASSUME Works, PlacesInv
  PROVE  /\ enc_pc = "segment" /\ enc_pc' = enc_pc /\ offset' = offset /\ end' = end
         /\ next' = next /\ parts' = parts /\ offset < end
         /\ seg_pc # "idle" /\ seg_pc' \in {"symbols", "merge", "append"}
<1>1. /\ enc_pc' = enc_pc /\ offset' = offset /\ end' = end /\ next' = next /\ parts' = parts
      /\ B!Step
  BY DEF Works
<1>2. seg_pc # "idle" /\ seg_pc' \in {"symbols", "merge", "append"}
  BY <1>1 DEF B!Step, B!AddSymbol, B!SymbolsDone, B!MergesDone, B!AppendId, B!Merge, B!locals
<1> QED
  BY <1>1, <1>2 DEF PlacesInv

\* Segments are encoded one after the other.
LEMMA PlacesKept ==
  ASSUME VInv, TextInv, PlacesInv, [Next]_vars
  PROVE  VInv' /\ TextInv' /\ PlacesInv'
<1>1. CASE Rests
  <2>1. Resting' /\ (enc_pc' = "idle" \/ pc' = "ready") /\ TextInv' /\ VInv'
    BY <1>1 DEF Rests
  <2>2. Len(text') \in Nat
    BY <2>1 DEF TextInv
  <2>3. offset' = 1 /\ 1 \in 1 .. Len(text') + 1 /\ seg_pc' = "idle"
        /\ enc_pc' \in {"idle", "start", "failed", "no_segment"}
    BY <2>1, <2>2 DEF Resting
  <2>4. PlacesInv'
    BY <2>1, <2>3 DEF PlacesInv
  <2> QED
    BY <2>1, <2>4
<1>2. CASE /\ UNCHANGED <<vocabulary, text, addBos>>
           /\ (Starts \/ CutsOff \/ Works \/ Advances \/ Ends)
  <2>1. text' = text /\ pc' = pc /\ ids' = ids /\ VInv' /\ TextInv'
    BY <1>2, VocabularyStays DEF vocabulary, TextInv
  <2>2. Len(text) \in Nat
    BY TextTypes
  <2>3. CASE Starts
    BY <2>1, <2>3 DEF Starts, PlacesInv, Resting
  <2>4. CASE CutsOff
    <3>1. /\ enc_pc = "encode" /\ enc_pc' = "segment" /\ offset' = offset /\ Cuts(end', next')
          /\ IF offset < end' THEN seg_pc' = "symbols" ELSE seg_pc' = seg_pc
      BY <2>4 DEF CutsOff
    <3>2. /\ end' \in offset .. Len(text) + 1 /\ next' \in end' .. Len(text) + 1
          /\ offset < next' /\ (end' < next' => SubSeq(text, end', next' - 1) \in DOMAIN ids)
      BY <3>1 DEF Cuts
    <3>3. seg_pc = "idle" /\ pc = "ready" /\ offset \in 1 .. Len(text) + 1
      BY <3>1 DEF PlacesInv
    <3>4. PlacesInv'
      BY <2>1, <3>1, <3>2, <3>3 DEF PlacesInv
    <3> QED
      BY <2>1, <3>4
  <2>5. CASE Works
    <3>1. /\ enc_pc = "segment" /\ enc_pc' = enc_pc /\ offset' = offset /\ end' = end
          /\ next' = next /\ parts' = parts /\ offset < end
          /\ seg_pc # "idle" /\ seg_pc' \in {"symbols", "merge", "append"}
      BY <2>5, WorkIs
    <3>2. PlacesInv'
      BY <2>1, <3>1 DEF PlacesInv
    <3> QED
      BY <2>1, <3>2
  <2>6. CASE Advances
    <3>1. enc_pc = "segment" /\ enc_pc' = "encode" /\ offset' = next /\ seg_pc' = "idle"
      BY <2>6 DEF Advances
    <3>2. next \in 1 .. Len(text) + 1 /\ pc = "ready"
      BY <3>1, <2>2 DEF PlacesInv
    <3>3. PlacesInv'
      BY <2>1, <3>1, <3>2 DEF PlacesInv
    <3> QED
      BY <2>1, <3>3
  <2>7. CASE Ends
    BY <2>1, <2>7 DEF Ends, PlacesInv
  <2> QED
    BY <1>2, <2>3, <2>4, <2>5, <2>6, <2>7
<1>3. CASE UNCHANGED vars
  <2>1. /\ enc_pc' = enc_pc /\ offset' = offset /\ end' = end /\ next' = next /\ parts' = parts
        /\ seg_pc' = seg_pc /\ token_ids' = token_ids /\ text' = text /\ pc' = pc /\ ids' = ids
        /\ UNCHANGED vocabulary
    BY <1>3 DEF vars, encoding, segmenting, vocabulary
  <2>2. VInv' /\ TextInv'
    BY <2>1, VocabularyStays DEF TextInv
  <2>3. PlacesInv'
    BY <2>1 DEF PlacesInv, Resting
  <2> QED
    BY <2>2, <2>3
<1> QED
  BY <1>1, <1>2, <1>3, StepIs
-----------------------------------------------------------------------------
Part == [kind : {"segment", "marker"}, from : Nat, to : Nat]

\* Parts, and what is to become one, begin and end where words do, and where the text has
\* no "<|" none goes over a blank from one word to the next.
WordsInv ==
  /\ parts \in Seq(Part)
  /\ Boundary(offset)
  /\ enc_pc = "segment" => Boundary(end) /\ Boundary(next)
  /\ \A n \in 1 .. Len(parts) : Boundary(parts[n].from)
  /\ E!Opens(1) = {} =>
       /\ enc_pc = "segment" => end = next /\ Apart(offset, end)
       /\ \A n \in 1 .. Len(parts) : Apart(parts[n].from, parts[n].to)

\* The parts that become done when a segment has been encoded.
LEMMA PartsGrow ==
  ASSUME TextInv, PlacesInv, parts \in Seq(Part), Advances
  PROVE  /\ parts' \in Seq(Part)
         /\ \A n \in 1 .. Len(parts) : n \in 1 .. Len(parts') /\ parts'[n] = parts[n]
         /\ \A n \in 1 .. Len(parts') :
              \/ n \in 1 .. Len(parts)
              \/ offset < end /\ parts'[n] = E!Part("segment", offset, end)
              \/ end < next /\ parts'[n] = E!Part("marker", end, next)
         /\ end < next =>
              \E n \in 1 .. Len(parts') : parts'[n] = E!Part("marker", end, next)
<1> DEFINE a == IF end = offset THEN << >> ELSE <<E!Part("segment", offset, end)>>
           b == IF next = end THEN << >> ELSE <<E!Part("marker", end, next)>>
<1>1. parts' = (parts \o a) \o b /\ enc_pc = "segment"
  BY DEF Advances
<1>2. offset \in Nat /\ end \in Nat /\ next \in Nat /\ offset <= end /\ end <= next
  <2>1. Len(text) \in Nat
    BY TextTypes
  <2> QED
    BY <1>1, <2>1 DEF PlacesInv
<1>3. E!Part("segment", offset, end) \in Part /\ E!Part("marker", end, next) \in Part
  BY <1>2 DEF E!Part, Part
<1>4. /\ a \in Seq(Part) /\ Len(a) \in {0, 1}
      /\ \A n \in 1 .. Len(a) : offset < end /\ a[n] = E!Part("segment", offset, end)
  <2>1. CASE end = offset
    <3>1. a = << >>
      BY <2>1
    <3> HIDE DEF a
    <3> QED
      BY <3>1
  <2>2. CASE end # offset
    <3>1. a = <<E!Part("segment", offset, end)>> /\ offset < end
      BY <1>2, <2>2
    <3> HIDE DEF a
    <3> QED
      BY <1>3, <3>1
  <2> QED
    BY <2>1, <2>2
<1>5. /\ b \in Seq(Part) /\ Len(b) \in {0, 1}
      /\ \A n \in 1 .. Len(b) : end < next /\ b[n] = E!Part("marker", end, next)
      /\ end < next => Len(b) = 1
  <2>1. CASE next = end
    <3>1. b = << >> /\ ~(end < next)
      BY <1>2, <2>1
    <3> HIDE DEF b
    <3> QED
      BY <3>1
  <2>2. CASE next # end
    <3>1. b = <<E!Part("marker", end, next)>> /\ end < next
      BY <1>2, <2>2
    <3> HIDE DEF b
    <3> QED
      BY <1>3, <3>1
  <2> QED
    BY <2>1, <2>2
<1> HIDE DEF a, b
<1> DEFINE c == parts \o a
<1>6. /\ c \in Seq(Part) /\ Len(c) = Len(parts) + Len(a) /\ Len(parts) \in Nat
      /\ \A n \in 1 .. Len(parts) + Len(a) :
           c[n] = IF n <= Len(parts) THEN parts[n] ELSE a[n - Len(parts)]
  BY <1>4, ConcatProperties, LenProperties
<1> HIDE DEF c
<1>7. /\ parts' \in Seq(Part) /\ Len(parts') = Len(c) + Len(b) /\ Len(c) \in Nat
      /\ \A n \in 1 .. Len(c) + Len(b) :
           parts'[n] = IF n <= Len(c) THEN c[n] ELSE b[n - Len(c)]
  <2>1. parts' = c \o b /\ Len(c) \in Nat
    BY <1>1, <1>6 DEF c
  <2>2. c \in Seq(Part) /\ b \in Seq(Part)
    BY <1>5, <1>6
  <2>3. /\ c \o b \in Seq(Part) /\ Len(c \o b) = Len(c) + Len(b)
        /\ \A n \in 1 .. Len(c) + Len(b) :
             (c \o b)[n] = IF n <= Len(c) THEN c[n] ELSE b[n - Len(c)]
    BY ONLY <2>2, ConcatProperties
  <2> QED
    BY <2>1, <2>3
<1>8. ASSUME NEW n \in 1 .. Len(parts) PROVE n \in 1 .. Len(parts') /\ parts'[n] = parts[n]
  <2>1. n \in 1 .. Len(parts) + Len(a) /\ n <= Len(parts) /\ n <= Len(c)
        /\ n \in 1 .. Len(c) + Len(b)
    BY <1>4, <1>5, <1>6
  <2>2. c[n] = parts[n] /\ parts'[n] = c[n]
    BY <1>6, <1>7, <2>1
  <2> QED
    BY <1>7, <2>1, <2>2
<1>9. ASSUME NEW n \in 1 .. Len(parts'), n \notin 1 .. Len(parts)
      PROVE  \/ offset < end /\ parts'[n] = E!Part("segment", offset, end)
             \/ end < next /\ parts'[n] = E!Part("marker", end, next)
  <2>1. CASE n <= Len(c)
    <3>1. Len(a) \in Nat /\ n \in Nat /\ ~(n <= Len(parts)) /\ n <= Len(parts) + Len(a)
      BY <1>4, <1>5, <1>6, <1>7, <1>9, <2>1
    <3>2. /\ n - Len(parts) \in 1 .. Len(a) /\ n \in 1 .. Len(parts) + Len(a)
          /\ n \in 1 .. Len(c) + Len(b)
      BY <1>6, <1>7, <3>1
    <3>3. parts'[n] = a[n - Len(parts)]
      BY <1>6, <1>7, <2>1, <3>1, <3>2
    <3> QED
      BY <1>4, <3>2, <3>3
  <2>2. CASE ~(n <= Len(c))
    <3>1. n - Len(c) \in 1 .. Len(b) /\ parts'[n] = b[n - Len(c)]
      BY <1>5, <1>7, <2>2
    <3> QED
      BY <1>5, <3>1
  <2> QED
    BY <2>1, <2>2
<1>10. ASSUME end < next
       PROVE  \E n \in 1 .. Len(parts') : parts'[n] = E!Part("marker", end, next)
  <2>1. Len(b) = 1 /\ Len(c) + 1 \in 1 .. Len(parts') /\ (Len(c) + 1) - Len(c) = 1
    BY <1>5, <1>7, <1>10
  <2>2. parts'[Len(c) + 1] = b[1] /\ b[1] = E!Part("marker", end, next)
    BY <1>5, <1>7, <2>1
  <2> QED
    BY <2>1, <2>2
<1> QED
  BY <1>7, <1>8, <1>9, <1>10

\* No step divides a word.
LEMMA WordsStay ==
  ASSUME VInv, TextInv, PlacesInv, WordsInv, [Next]_vars
  PROVE  WordsInv'
<1>1. CASE Rests
  <2>1. offset' = 1 /\ parts' = << >> /\ enc_pc' # "segment"
    BY <1>1 DEF Rests, Resting
  <2>2. Boundary(offset)'
    BY <2>1 DEF Boundary
  <2> QED
    BY <2>1, <2>2 DEF WordsInv
<1>2. CASE /\ UNCHANGED <<vocabulary, text, addBos>>
           /\ (Starts \/ CutsOff \/ Works \/ Advances \/ Ends)
  <2>1. text' = text /\ ids' = ids
    BY <1>2 DEF vocabulary
  <2>2. /\ \A e : Boundary(e)' <=> Boundary(e)
        /\ \A q : E!ContractionEnds(q)' = E!ContractionEnds(q)
        /\ \A p, e : Apart(p, e)' <=> Apart(p, e)
        /\ E!Opens(1)' = E!Opens(1)
    BY <2>1, SameText
  <2>3. ASSUME Starts \/ Works \/ Ends
        PROVE  offset' = offset /\ parts' = parts /\ (enc_pc' # "segment" \/
               (enc_pc = "segment" /\ end' = end /\ next' = next))
    BY <2>3, WorkIs DEF Starts, Ends
  <2>4. CASE Starts \/ Works \/ Ends
    <3>1. /\ offset' = offset /\ parts' = parts
          /\ (enc_pc' # "segment" \/ (enc_pc = "segment" /\ end' = end /\ next' = next))
      BY <2>3, <2>4
    <3> QED
      BY <2>1, <2>2, <3>1 DEF WordsInv, Boundary, Apart
  <2>5. CASE CutsOff
    <3>1. /\ offset' = offset /\ parts' = parts /\ Boundary(end') /\ Boundary(next')
          /\ E!Opens(1) = {} => end' = next' /\ Apart(offset, end')
      BY <2>5 DEF CutsOff, Cuts
    <3> QED
      BY <2>1, <2>2, <3>1 DEF WordsInv, Boundary, Apart
  <2>6. CASE Advances
    <3>1. enc_pc = "segment" /\ enc_pc' = "encode" /\ offset' = next
      BY <2>6 DEF Advances
    <3>2. /\ parts' \in Seq(Part)
          /\ \A n \in 1 .. Len(parts) : n \in 1 .. Len(parts') /\ parts'[n] = parts[n]
          /\ \A n \in 1 .. Len(parts') :
               \/ n \in 1 .. Len(parts)
               \/ offset < end /\ parts'[n] = E!Part("segment", offset, end)
               \/ end < next /\ parts'[n] = E!Part("marker", end, next)
      BY <2>6, PartsGrow DEF WordsInv
    <3>3. Boundary(offset) /\ Boundary(end) /\ Boundary(next)
      BY <3>1 DEF WordsInv
    <3>4. ASSUME NEW n \in 1 .. Len(parts') PROVE Boundary(parts'[n].from)
      <4>1. CASE n \in 1 .. Len(parts)
        BY <3>2, <4>1 DEF WordsInv
      <4>2. CASE parts'[n] = E!Part("segment", offset, end)
        <5>1. parts'[n].from = offset
          BY <4>2 DEF E!Part
        <5> QED
          BY <3>3, <5>1
      <4>3. CASE parts'[n] = E!Part("marker", end, next)
        <5>1. parts'[n].from = end
          BY <4>3 DEF E!Part
        <5> QED
          BY <3>3, <5>1
      <4> QED
        BY <3>2, <4>1, <4>2, <4>3
    <3>5. ASSUME E!Opens(1) = {}, NEW n \in 1 .. Len(parts')
          PROVE  Apart(parts'[n].from, parts'[n].to)
      <4>1. end = next /\ Apart(offset, end) /\ ~(end < next)
        <5>1. end \in Nat
          <6>1. Len(text) \in Nat
            BY TextTypes
          <6> QED
            BY <3>1, <6>1 DEF PlacesInv
        <5> QED
          BY <3>1, <3>5, <5>1 DEF WordsInv
      <4>2. CASE n \in 1 .. Len(parts)
        BY <3>2, <3>5, <4>2 DEF WordsInv
      <4>3. CASE parts'[n] = E!Part("segment", offset, end)
        <5>1. parts'[n].from = offset /\ parts'[n].to = end
          BY <4>3 DEF E!Part
        <5> QED
          BY <4>1, <5>1
      <4> QED
        BY <3>2, <4>1, <4>2, <4>3
    <3>6. Boundary(offset)'
      BY <2>1, <2>2, <3>1, <3>3 DEF Boundary
    <3>7. \A n \in 1 .. Len(parts') : Boundary(parts[n].from)'
      BY <2>1, <2>2, <3>4 DEF Boundary
    <3>8. E!Opens(1)' = {} => \A n \in 1 .. Len(parts') : Apart(parts[n].from, parts[n].to)'
      BY <2>1, <2>2, <3>5 DEF Apart
    <3> QED
      BY <3>1, <3>2, <3>6, <3>7, <3>8 DEF WordsInv
  <2> QED
    BY <1>2, <2>4, <2>5, <2>6
<1>3. CASE UNCHANGED vars
  <2>1. /\ enc_pc' = enc_pc /\ offset' = offset /\ end' = end /\ next' = next /\ parts' = parts
        /\ text' = text /\ ids' = ids
    BY <1>3 DEF vars, encoding, vocabulary
  <2>2. /\ \A e : Boundary(e)' <=> Boundary(e)
        /\ \A q : E!ContractionEnds(q)' = E!ContractionEnds(q)
        /\ E!Opens(1)' = E!Opens(1)
    BY <2>1, SameText
  <2> QED
    BY <2>1, <2>2 DEF WordsInv, Boundary, Apart
<1> QED
  BY <1>1, <1>2, <1>3, StepIs
-----------------------------------------------------------------------------
\* A marker in the text has its part and its token.
Kept(p, m) ==
  /\ \E n \in 1 .. Len(parts) : parts[n] = E!Part("marker", p, p + Len(m))
  /\ \E n \in 1 .. Len(token_ids) : token_ids[n] = ids[m]

\* It is kept, or encode has not come to it, and will not cut into it.
MarkersInv ==
  /\ token_ids \in Seq(TokenIds)
  /\ \A p \in E!Opens(1), m \in E!Markers : Keeps(p, m) =>
       \/ /\ offset <= p
          /\ enc_pc = "segment" => (next <= p \/ (end = p /\ next = p + Len(m)))
       \/ Kept(p, m)

\* The ids of a segment are tokens, which are what is appended.
SegmentInv ==
  /\ seg_pc # "idle" => pieces \in Seq(TokenIds) /\ base \in Nat /\ base <= Len(token_ids)
  /\ seg_pc \in {"symbols", "merge"} => Len(token_ids) = base

\* A merge replaces two neighbours, found under their pair, by the token that joins them.
LEMMA MergeIs ==
  ASSUME VInv, pc = "ready", pieces \in Seq(TokenIds), NEW i \in B!Mergeable, B!Merge(i)
  PROVE  LET l == SubSeq(pieces, 1, i - 1)
             r == SubSeq(pieces, i + 2, Len(pieces))
         IN  /\ l \in Seq(TokenIds) /\ r \in Seq(TokenIds)
             /\ \E x, y, z \in TokenIds :
                  /\ pieces = l \o <<x, y>> \o r /\ pieces' = l \o <<z>> \o r
                  /\ Text(x) \o Text(y) = Text(z)
<1> DEFINE l == SubSeq(pieces, 1, i - 1)
           r == SubSeq(pieces, i + 2, Len(pieces))
           x == pieces[i]
           y == pieces[i + 1]
           rank == pairs[<<x, y>>]
           z == merges[rank + 1].merged
<1>1. /\ Len(pieces) \in Nat /\ i \in 1 .. Len(pieces) - 1 /\ <<x, y>> \in DOMAIN pairs
      /\ pieces' = l \o <<z>> \o r
  BY DEF B!Mergeable, B!Merge, B!Rank
<1>2. x \in TokenIds /\ y \in TokenIds
  <2>1. i \in 1 .. Len(pieces) /\ i + 1 \in 1 .. Len(pieces)
    BY <1>1
  <2> QED
    BY <2>1
<1>3. rank \in 0 .. Len(merges) - 1 /\ <<x, y>> = <<merges[rank + 1].left, merges[rank + 1].right>>
  BY <1>1 DEF VInv, PairsInv
<1>4. z \in TokenIds /\ Text(x) \o Text(y) = Text(z)
  <2>1. Len(merges) \in Nat
    BY DEF VInv, MergesInv
  <2> HIDE DEF x, y, rank
  <2>2. rank + 1 \in 1 .. Len(merges)
    BY <1>3, <2>1
  <2>3. Reads(merges[rank + 1], rank + 1)
    BY <2>2 DEF VInv, MergesInv
  <2>4. x = merges[rank + 1].left /\ y = merges[rank + 1].right
    BY <1>3
  <2> QED
    BY <2>3, <2>4 DEF Reads
<1> HIDE DEF z, rank
<1>5. /\ SubSeq(pieces, 1, i - 1) \o SubSeq(pieces, (i - 1) + 1, Len(pieces)) = pieces
      /\ SubSeq(pieces, i, Len(pieces)) = <<pieces[i]>> \o SubSeq(pieces, i + 1, Len(pieces))
      /\ SubSeq(pieces, i + 1, Len(pieces))
           = <<pieces[i + 1]>> \o SubSeq(pieces, (i + 1) + 1, Len(pieces))
  <2>1. 1 \in 1 .. Len(pieces) + 1 /\ i - 1 \in 1 - 1 .. Len(pieces)
        /\ Len(pieces) \in i - 1 .. Len(pieces)
    BY <1>1
  <2>2. i \in 1 .. Len(pieces) /\ i + 1 \in 1 .. Len(pieces) /\ Len(pieces) \in i .. Len(pieces)
        /\ Len(pieces) \in i + 1 .. Len(pieces)
    BY <1>1
  <2>3. SubSeq(pieces, 1, i - 1) \o SubSeq(pieces, (i - 1) + 1, Len(pieces)) = pieces
    BY <2>1, ConcatAdjacentSubSeq, SubSeqFull
  <2>4. SubSeq(pieces, i, Len(pieces)) = <<pieces[i]>> \o SubSeq(pieces, i + 1, Len(pieces))
    BY <2>2, SubSeqRecursiveFirst
  <2>5. SubSeq(pieces, i + 1, Len(pieces))
           = <<pieces[i + 1]>> \o SubSeq(pieces, (i + 1) + 1, Len(pieces))
    BY <2>2, SubSeqRecursiveFirst
  <2> QED
    BY Zenon, <2>3, <2>4, <2>5
<1>6. l \in Seq(TokenIds) /\ r \in Seq(TokenIds)
  <2>1. /\ \A k \in 1 .. i - 1 : pieces[k] \in TokenIds
        /\ \A k \in i + 2 .. Len(pieces) : pieces[k] \in TokenIds
        /\ i - 1 \in Int /\ i + 2 \in Int
    <3>1. \A k \in 1 .. Len(pieces) : pieces[k] \in TokenIds
      OBVIOUS
    <3> QED
      BY <1>1, <3>1
  <2> QED
    BY <1>1, <2>1, SubSeqProperties
<1>7. pieces = l \o <<x, y>> \o r
  <2>1. (i - 1) + 1 = i /\ (i + 1) + 1 = i + 2
    BY <1>1
  <2>2. pieces = l \o (<<x>> \o (<<y>> \o r))
    BY <1>5, <2>1
  <2> HIDE DEF l, r, x, y
  <2>3. <<x>> \in Seq(TokenIds) /\ <<y>> \in Seq(TokenIds) /\ <<x, y>> \in Seq(TokenIds)
        /\ <<x>> \o <<y>> = <<x, y>>
    BY <1>2, TwoAsConcat
  <2>4. <<x>> \o (<<y>> \o r) = (<<x>> \o <<y>>) \o r
    <3>1. <<x>> \in Seq(TokenIds) /\ <<y>> \in Seq(TokenIds) /\ r \in Seq(TokenIds)
      BY <1>6, <2>3
    <3> QED
      BY ONLY <3>1, ConcatAssociative
  <2>5. l \o (<<x, y>> \o r) = (l \o <<x, y>>) \o r
    <3>1. l \in Seq(TokenIds) /\ <<x, y>> \in Seq(TokenIds) /\ r \in Seq(TokenIds)
      BY <1>6, <2>3
    <3> QED
      BY ONLY <3>1, ConcatAssociative
  <2> QED
    BY <2>2, <2>3, <2>4, <2>5
<1> QED
  <2> HIDE DEF l, r, x, y
  <2>1. \E a, b, c \in TokenIds :
          /\ pieces = l \o <<a, b>> \o r /\ pieces' = l \o <<c>> \o r
          /\ Text(a) \o Text(b) = Text(c)
    BY <1>1, <1>2, <1>4, <1>7
  <2> QED
    BY Zenon, <1>6, <2>1 DEF l, r

\* What encode_segment does to the ids, step by step.
LEMMA WorkDoes ==
  ASSUME VInv, pc = "ready", token_ids \in Seq(TokenIds), SegmentInv, Works
  PROVE  /\ base' = base /\ segment' = segment
         /\ \/ /\ seg_pc = "symbols" /\ seg_pc' = "symbols" /\ token_ids' = token_ids
               /\ Len(pieces) < Len(segment) /\ <<segment[Len(pieces) + 1]>> \in DOMAIN ids
               /\ pieces' = Append(pieces, ids[<<segment[Len(pieces) + 1]>>])
            \/ /\ seg_pc = "symbols" /\ seg_pc' = "merge" /\ token_ids' = token_ids
               /\ Len(pieces) = Len(segment) /\ pieces' = pieces
            \/ /\ seg_pc = "merge" /\ seg_pc' = "merge" /\ token_ids' = token_ids
               /\ \E i \in B!Mergeable : B!Merge(i)
            \/ /\ seg_pc = "merge" /\ seg_pc' = "append" /\ token_ids' = token_ids
               /\ pieces' = pieces
            \/ /\ seg_pc = "append" /\ seg_pc' = "append" /\ pieces' = pieces
               /\ Len(token_ids) - base + 1 \in 1 .. Len(pieces)
               /\ token_ids' = Append(token_ids, pieces[Len(token_ids) - base + 1])
<1>1. B!Step
  BY DEF Works
<1>2. CASE B!AddSymbol
  BY <1>2 DEF B!AddSymbol
<1>3. CASE B!SymbolsDone
  BY <1>3 DEF B!SymbolsDone
<1>4. CASE \E i \in B!Mergeable : B!Merge(i)
  BY <1>4 DEF B!Merge
<1>5. CASE B!MergesDone
  BY <1>5 DEF B!MergesDone
<1>6. CASE B!AppendId
  <2>1. /\ seg_pc = "append" /\ Len(token_ids) < base + Len(pieces)
        /\ token_ids' = Append(token_ids, pieces[Len(token_ids) - base + 1])
        /\ seg_pc' = seg_pc /\ segment' = segment /\ base' = base /\ pieces' = pieces
    BY <1>6 DEF B!AppendId, B!locals
  <2>2. pieces \in Seq(TokenIds) /\ base \in Nat /\ base <= Len(token_ids)
    BY <2>1 DEF SegmentInv
  <2>3. Len(pieces) \in Nat /\ Len(token_ids) \in Nat
    BY <2>2
  <2>4. Len(token_ids) - base + 1 \in 1 .. Len(pieces)
    BY <2>1, <2>2, <2>3
  <2> QED
    BY <2>1, <2>4
<1> QED
  BY <1>1, <1>2, <1>3, <1>4, <1>5, <1>6 DEF B!Step

\* Its ids are tokens all along.
LEMMA WorkTyped ==
  ASSUME VInv, pc = "ready", token_ids \in Seq(TokenIds), SegmentInv, Works
  PROVE  /\ token_ids' \in Seq(TokenIds) /\ pieces' \in Seq(TokenIds)
         /\ Len(token_ids) \in Nat /\ Len(token_ids) <= Len(token_ids')
         /\ \A n \in 1 .. Len(token_ids) :
              n \in 1 .. Len(token_ids') /\ token_ids'[n] = token_ids[n]
<1>1. pieces \in Seq(TokenIds) /\ Len(token_ids) \in Nat /\ Len(pieces) \in Nat
  <2>1. seg_pc # "idle"
    BY WorkDoes
  <2> QED
    BY <2>1 DEF SegmentInv
<1>2. CASE token_ids' = token_ids /\ pieces' = pieces
  BY <1>1, <1>2
<1>3. CASE /\ token_ids' = token_ids /\ <<segment[Len(pieces) + 1]>> \in DOMAIN ids
           /\ pieces' = Append(pieces, ids[<<segment[Len(pieces) + 1]>>])
  <2>1. ids[<<segment[Len(pieces) + 1]>>] \in TokenIds
    BY <1>3, IdsTyped
  <2>2. pieces' \in Seq(TokenIds)
    BY <1>1, <1>3, <2>1, AppendProperties
  <2> QED
    BY <1>1, <1>3, <2>2
<1>4. CASE token_ids' = token_ids /\ \E i \in B!Mergeable : B!Merge(i)
  <2>1. PICK i \in B!Mergeable : B!Merge(i)
    BY <1>4
  <2> DEFINE l == SubSeq(pieces, 1, i - 1)
             r == SubSeq(pieces, i + 2, Len(pieces))
  <2>2. /\ l \in Seq(TokenIds) /\ r \in Seq(TokenIds)
        /\ \E z \in TokenIds : pieces' = l \o <<z>> \o r
    BY <1>1, <2>1, MergeIs
  <2> HIDE DEF l, r
  <2>3. PICK z \in TokenIds : pieces' = (l \o <<z>>) \o r
    BY <2>2
  <2>4. <<z>> \in Seq(TokenIds)
    OBVIOUS
  <2>5. l \o <<z>> \in Seq(TokenIds)
    BY <2>2, <2>4, ConcatProperties
  <2>6. pieces' \in Seq(TokenIds)
    BY <2>2, <2>3, <2>5, ConcatProperties
  <2> QED
    BY <1>1, <1>4, <2>6
<1>5. CASE /\ pieces' = pieces /\ Len(token_ids) - base + 1 \in 1 .. Len(pieces)
           /\ token_ids' = Append(token_ids, pieces[Len(token_ids) - base + 1])
  <2>1. pieces[Len(token_ids) - base + 1] \in TokenIds
    BY <1>1, <1>5
  <2>2. /\ token_ids' \in Seq(TokenIds) /\ Len(token_ids') = Len(token_ids) + 1
        /\ \A n \in 1 .. Len(token_ids) : token_ids'[n] = token_ids[n]
    BY <1>5, <2>1, AppendProperties
  <2> QED
    BY <1>1, <1>5, <2>2
<1> QED
  BY <1>2, <1>3, <1>4, <1>5, WorkDoes

\* What is kept stays when parts and tokens are appended.
LEMMA KeptStays ==
  ASSUME ids' = ids, NEW p, NEW m, Kept(p, m),
         \A n \in 1 .. Len(parts) : n \in 1 .. Len(parts') /\ parts'[n] = parts[n],
         \A n \in 1 .. Len(token_ids) :
           n \in 1 .. Len(token_ids') /\ token_ids'[n] = token_ids[n]
  PROVE  Kept(p, m)'
<1>1. PICK n \in 1 .. Len(parts) : parts[n] = E!Part("marker", p, p + Len(m))
  BY DEF Kept
<1>2. PICK k \in 1 .. Len(token_ids) : token_ids[k] = ids[m]
  BY DEF Kept
<1>3. n \in 1 .. Len(parts') /\ parts'[n] = E!Part("marker", p, p + Len(m))
  BY <1>1
<1>4. k \in 1 .. Len(token_ids') /\ token_ids'[k] = ids'[m]
  BY <1>2
<1> QED
  BY <1>3, <1>4 DEF Kept, E!Part

\* A marker's token is appended with its part.
LEMMA TokensGrow ==
  ASSUME VInv, TextInv, PlacesInv, token_ids \in Seq(TokenIds), Advances
  PROVE  /\ token_ids' \in Seq(TokenIds)
         /\ \A n \in 1 .. Len(token_ids) :
              n \in 1 .. Len(token_ids') /\ token_ids'[n] = token_ids[n]
         /\ ~(end < next) => next = end /\ token_ids' = token_ids
         /\ end < next =>
              LET id == ids[SubSeq(text, end, next - 1)]
              IN  /\ id \in TokenIds /\ Text(id) = SubSeq(text, end, next - 1)
                  /\ token_ids' = Append(token_ids, id)
                  /\ \E n \in 1 .. Len(token_ids') : token_ids'[n] = id
<1>1. /\ enc_pc = "segment"
      /\ token_ids' = token_ids \o (IF next = end THEN << >>
                                    ELSE <<ids[SubSeq(text, end, next - 1)]>>)
  BY DEF Advances
<1>2. end \in Nat /\ next \in Nat /\ end <= next /\ Len(token_ids) \in Nat
      /\ (end < next => SubSeq(text, end, next - 1) \in DOMAIN ids)
  <2>1. Len(text) \in Nat /\ Len(token_ids) \in Nat
    BY TextTypes
  <2> QED
    BY <1>1, <2>1 DEF PlacesInv
<1>3. CASE next = end
  <2>1. token_ids' = token_ids
    BY <1>1, <1>3, ConcatEmptySeq
  <2> QED
    BY <1>2, <1>3, <2>1
<1>4. CASE next # end
  <2> DEFINE word == SubSeq(text, end, next - 1)
             id == ids[word]
  <2>0. end < next /\ word \in DOMAIN ids
    <3>1. end < next
      BY <1>2, <1>4
    <3> QED
      BY <1>2, <3>1
  <2> HIDE DEF word
  <2>1. id \in TokenIds /\ Text(id) = word /\ end < next
    BY <2>0, IdsTyped
  <2> USE DEF word
  <2>2. token_ids' = token_ids \o <<id>>
    BY <1>1, <1>4
  <2> HIDE DEF id
  <2>3. token_ids' = Append(token_ids, id)
    BY <2>1, <2>2, AppendIsConcat
  <2>4. /\ token_ids' \in Seq(TokenIds) /\ Len(token_ids') = Len(token_ids) + 1
        /\ \A n \in 1 .. Len(token_ids) : token_ids'[n] = token_ids[n]
        /\ token_ids'[Len(token_ids) + 1] = id
    BY <2>1, <2>3, AppendProperties
  <2>5. Len(token_ids) + 1 \in 1 .. Len(token_ids')
        /\ \A n \in 1 .. Len(token_ids) : n \in 1 .. Len(token_ids')
    BY <1>2, <2>4
  <2>6. \E n \in 1 .. Len(token_ids') : token_ids'[n] = id
    BY <2>4, <2>5
  <2> QED
    BY <1>4, <2>1, <2>3, <2>4, <2>5, <2>6 DEF id
<1> QED
  BY <1>3, <1>4

\* No step passes a marker over.
LEMMA MarkersStay ==
  ASSUME VInv, TextInv, PlacesInv, WordsInv, MarkersInv, SegmentInv, [Next]_vars
  PROVE  MarkersInv' /\ SegmentInv'
<1>1. CASE Rests
  <2>1. /\ offset' = 1 /\ token_ids' = << >> /\ enc_pc' # "segment" /\ seg_pc' = "idle"
        /\ TextInv'
    BY <1>1 DEF Rests, Resting
  <2>2. \A p \in E!Opens(1)' : 1 <= p
    <3>1. Len(text') \in Nat
      BY <2>1 DEF TextInv
    <3> QED
      BY <3>1 DEF E!Opens
  <2>3. token_ids' \in Seq(TokenIds')
    BY <2>1
  <2> QED
    BY <2>1, <2>2, <2>3 DEF MarkersInv, SegmentInv
<1>2. CASE /\ UNCHANGED <<vocabulary, text, addBos>>
           /\ (Starts \/ CutsOff \/ Works \/ Advances \/ Ends)
  <2>1. text' = text /\ ids' = ids /\ pc' = pc /\ TokenIds' = TokenIds
    BY <1>2 DEF vocabulary, TokenIds
  <2>2. /\ E!Opens(1)' = E!Opens(1) /\ E!Markers' = E!Markers
        /\ \A p, m : Keeps(p, m)' <=> Keeps(p, m)
    BY <2>1, SameText
  <2>3. Len(text) \in Nat /\ token_ids \in Seq(TokenIds) /\ Len(token_ids) \in Nat
        /\ offset \in Nat
    <3>1. token_ids \in Seq(TokenIds)
      BY DEF MarkersInv
    <3> QED
      BY <3>1, TextTypes DEF PlacesInv
  <2>4. CASE Starts
    <3>1. /\ offset' = 1 /\ seg_pc' = "idle" /\ enc_pc' = "encode"
      BY <2>4 DEF Starts, PlacesInv, Resting
    <3>2. token_ids' \in Seq(TokenIds)
      <4>1. addBos => <<file.bos>> \in Seq(TokenIds)
        BY <2>4 DEF Starts
      <4> QED
        BY <2>4, <4>1 DEF Starts
    <3>3. \A p \in E!Opens(1) : 1 <= p
      BY <2>3 DEF E!Opens
    <3> QED
      BY <2>1, <2>2, <3>1, <3>2, <3>3 DEF MarkersInv, SegmentInv
  <2>5. CASE CutsOff
    <3>1. /\ enc_pc = "encode" /\ offset' = offset /\ parts' = parts /\ token_ids' = token_ids
          /\ Cuts(end', next')
          /\ \/ /\ seg_pc' = "symbols" /\ base' = Len(token_ids) /\ pieces' = << >>
             \/ seg_pc' = seg_pc
      BY <2>5 DEF CutsOff
    <3>2. seg_pc = "idle"
      BY <3>1 DEF PlacesInv
    <3>3. SegmentInv'
      <4>1. CASE seg_pc' = seg_pc
        BY <3>2, <4>1 DEF SegmentInv
      <4>2. CASE seg_pc' = "symbols" /\ base' = Len(token_ids) /\ pieces' = << >>
        <5>1. pieces' \in Seq(TokenIds')
          BY <4>2
        <5>2. base' \in Nat /\ base' = Len(token_ids') /\ base' <= Len(token_ids')
          BY <2>3, <3>1, <4>2
        <5> QED
          BY <5>1, <5>2 DEF SegmentInv
      <4> QED
        BY <3>1, <4>1, <4>2
    <3>4. ASSUME NEW p \in E!Opens(1), NEW m \in E!Markers, Keeps(p, m)
          PROVE  \/ offset' <= p /\ (next' <= p \/ (end' = p /\ next' = p + Len(m)))
                 \/ Kept(p, m)'
      <4>1. CASE offset <= p
        BY <3>1, <3>4, <4>1 DEF Cuts
      <4>2. CASE Kept(p, m)
        BY <2>1, <3>1, <4>2, KeptStays
      <4> QED
        BY <3>4, <4>1, <4>2 DEF MarkersInv
    <3>5. token_ids' \in Seq(TokenIds)'
      BY <2>1, <2>3, <3>1
    <3>6. MarkersInv'
      BY <2>2, <3>4, <3>5 DEF MarkersInv
    <3> QED
      BY <3>3, <3>6
  <2>6. CASE Works
    <3>1. /\ enc_pc = "segment" /\ enc_pc' = enc_pc /\ offset' = offset /\ end' = end
          /\ next' = next /\ parts' = parts /\ seg_pc # "idle"
      BY <2>6, WorkIs
    <3>2. pc = "ready"
      BY <3>1 DEF PlacesInv
    <3>3. /\ token_ids' \in Seq(TokenIds) /\ pieces' \in Seq(TokenIds)
          /\ Len(token_ids) <= Len(token_ids')
          /\ \A n \in 1 .. Len(token_ids) :
               n \in 1 .. Len(token_ids') /\ token_ids'[n] = token_ids[n]
      BY <2>3, <2>6, <3>2, WorkTyped
    <3>4. /\ base' = base
          /\ seg_pc' \in {"symbols", "merge"} =>
               seg_pc \in {"symbols", "merge"} /\ token_ids' = token_ids
      BY <2>3, <2>6, <3>2, WorkDoes
    <3>5. base \in Nat /\ base <= Len(token_ids) /\ Len(token_ids') \in Nat
      BY <3>1, <3>3 DEF SegmentInv
    <3>6. SegmentInv'
      BY <2>1, <2>3, <3>3, <3>4, <3>5 DEF SegmentInv
    <3>7. \A p, m : Kept(p, m) => Kept(p, m)'
      BY <2>1, <3>1, <3>3, KeptStays
    <3>8. MarkersInv'
      BY <2>1, <2>2, <3>1, <3>3, <3>7 DEF MarkersInv
    <3> QED
      BY <3>6, <3>8
  <2>7. CASE Advances
    <3>1. enc_pc = "segment" /\ enc_pc' = "encode" /\ offset' = next /\ seg_pc' = "idle"
      BY <2>7 DEF Advances
    <3>2. /\ \A n \in 1 .. Len(parts) : n \in 1 .. Len(parts') /\ parts'[n] = parts[n]
          /\ end < next =>
               \E n \in 1 .. Len(parts') : parts'[n] = E!Part("marker", end, next)
      BY <2>7, PartsGrow DEF WordsInv
    <3>3. /\ token_ids' \in Seq(TokenIds)
          /\ \A n \in 1 .. Len(token_ids) :
               n \in 1 .. Len(token_ids') /\ token_ids'[n] = token_ids[n]
          /\ end < next =>
               \E n \in 1 .. Len(token_ids') : token_ids'[n] = ids[SubSeq(text, end, next - 1)]
      BY <2>3, <2>7, TokensGrow
    <3>4. ASSUME NEW p \in E!Opens(1), NEW m \in E!Markers, Keeps(p, m)
          PROVE  offset' <= p \/ Kept(p, m)'
      <4>1. CASE Kept(p, m)
        BY <2>1, <3>2, <3>3, <4>1, KeptStays
      <4>2. CASE end = p /\ next = p + Len(m)
        <5>0. Len(m) > 3 /\ Len(m) \in Nat /\ p \in Nat
          <6>1. Len(m) > 3 /\ m \in DOMAIN ids
            BY DEF E!Markers
          <6>2. Text(ids[m]) = m /\ ids[m] \in TokenIds
            BY <6>1, IdsTyped
          <6>3. Len(m) \in Nat
            BY <6>2, TextType
          <6> QED
            BY <2>3, <6>1, <6>3 DEF E!Opens
        <5>1. SubSeq(text, end, next - 1) = m
          <6>1. SubSeq(text, p, p + Len(m) - 1) = m
            BY <3>4 DEF Keeps, E!IsAt
          <6>2. next - 1 = p + Len(m) - 1 /\ end = p
            BY <4>2, <5>0
          <6> QED
            BY <6>1, <6>2
        <5>2. end < next
          BY <4>2, <5>0
        <5>3. Kept(p, m)'
          BY <2>1, <3>2, <3>3, <4>2, <5>1, <5>2 DEF Kept, E!Part
        <5> QED
          BY <5>3
      <4> QED
        BY <3>1, <3>4, <4>1, <4>2 DEF MarkersInv
    <3>5. MarkersInv'
      BY <2>1, <2>2, <3>1, <3>3, <3>4 DEF MarkersInv
    <3>6. SegmentInv'
      BY <3>1 DEF SegmentInv
    <3> QED
      BY <3>5, <3>6
  <2>8. CASE Ends
    <3>1. /\ enc_pc = "encode" /\ enc_pc' = "done" /\ offset' = offset /\ parts' = parts
          /\ token_ids' = token_ids /\ seg_pc' = seg_pc /\ seg_pc = "idle"
      BY <2>8 DEF Ends, PlacesInv
    <3>2. \A p, m : Kept(p, m)' <=> Kept(p, m)
      BY <2>1, <3>1 DEF Kept, E!Part
    <3> QED
      BY <2>1, <2>2, <3>1, <3>2 DEF MarkersInv, SegmentInv
  <2> QED
    BY <1>2, <2>4, <2>5, <2>6, <2>7, <2>8
<1>3. CASE UNCHANGED vars
  <2>1. /\ enc_pc' = enc_pc /\ offset' = offset /\ end' = end /\ next' = next /\ parts' = parts
        /\ text' = text /\ ids' = ids /\ token_ids' = token_ids /\ file' = file
        /\ seg_pc' = seg_pc /\ base' = base /\ pieces' = pieces
    BY <1>3 DEF vars, encoding, vocabulary, segmenting
  <2>2. /\ E!Opens(1)' = E!Opens(1) /\ E!Markers' = E!Markers
        /\ \A p, m : Keeps(p, m)' <=> Keeps(p, m)
    BY <2>1, SameText
  <2>3. \A p, m : Kept(p, m)' <=> Kept(p, m)
    BY <2>1 DEF Kept, E!Part
  <2>4. TokenIds' = TokenIds
    BY <2>1 DEF TokenIds
  <2> QED
    BY <2>1, <2>2, <2>3, <2>4 DEF MarkersInv, SegmentInv
<1> QED
  BY <1>1, <1>2, <1>3, StepIs
-----------------------------------------------------------------------------
EncodingInv == VInv /\ TextInv /\ PlacesInv /\ WordsInv /\ MarkersInv /\ SegmentInv

\* Nothing is encoded in the beginning.
LEMMA EncodingInit ==
  ASSUME Init
  PROVE  EncodingInv
<1>1. /\ enc_pc = "idle" /\ text = << >> /\ offset = 1 /\ parts = << >> /\ token_ids = << >>
      /\ seg_pc = "idle" /\ VInv
  BY VocabularyInit DEF Init, E!Init, B!Init
<1>2. text \in Seq(Chars) /\ Len(text) = 0 /\ parts \in Seq(Part) /\ Len(parts) = 0
      /\ token_ids \in Seq(TokenIds)
  BY <1>1
<1>3. TextInv /\ PlacesInv
  BY <1>1, <1>2 DEF TextInv, PlacesInv, Resting
<1>4. WordsInv
  BY <1>1, <1>2 DEF WordsInv, Boundary
<1>5. MarkersInv /\ SegmentInv
  BY <1>1, <1>2 DEF MarkersInv, SegmentInv, E!Opens
<1> QED
  BY <1>1, <1>3, <1>4, <1>5 DEF EncodingInv

\* The inductive invariant of encoding: where the segments and the markers may lie.
THEOREM EncodingHolds == Spec => []EncodingInv
<1>1. Init => EncodingInv
  BY EncodingInit
<1>2. EncodingInv /\ [Next]_vars => EncodingInv'
  BY PlacesKept, WordsStay, MarkersStay DEF EncodingInv
<1> QED
  BY <1>1, <1>2, PTL DEF Spec

\* Segments are words: none is divided, except by a contraction that ends in it or by a
\* marker, and without a "<|" in the text no segment goes over a blank from one word to
\* the next, whatever the text is (tokenizer.c:477-545, 647-670).
THEOREM WordsAreKept == Spec => []WordsKept
<1>1. ASSUME EncodingInv PROVE WordsKept
  <2>1. /\ \A n \in 1 .. Len(parts) : Boundary(parts[n].from)
        /\ E!Opens(1) = {} => \A n \in 1 .. Len(parts) : Apart(parts[n].from, parts[n].to)
        /\ Len(text) \in Nat /\ offset \in 1 .. Len(text) + 1
    BY <1>1, TextTypes DEF EncodingInv, WordsInv, PlacesInv
  <2>2. E!WordsWhole
    <3> SUFFICES ASSUME NEW p \in 2 .. offset - 1, {text[p - 1], text[p]} \subseteq E!Letters,
                        ~\E q \in 1 .. p : p \in E!ContractionEnds(q),
                        NEW n \in 1 .. Len(parts), parts[n].from = p
                 PROVE  FALSE
      BY DEF E!WordsWhole
    <3>1. Boundary(p) /\ p \in 2 .. Len(text)
      BY <2>1
    <3> QED
      BY <3>1 DEF Boundary
  <2>3. E!Opens(1) = {} => E!WordsApart
    BY <2>1 DEF E!WordsApart, Apart
  <2> QED
    BY <2>2, <2>3 DEF WordsKept, E!WordsKept
<1> QED
  BY <1>1, EncodingHolds, PTL

\* A marker that no other marker and no run of punctuation can take with it becomes its
\* part and its token, whatever text and whatever vocabulary (tokenizer.c:598-645).
THEOREM MarkersAreKept == Spec => []MarkersKept
<1>1. ASSUME EncodingInv PROVE MarkersKept
  <2> SUFFICES ASSUME enc_pc = "done", NEW p \in E!Opens(1), NEW m \in E!Markers, Keeps(p, m)
               PROVE  /\ E!Contains(parts, E!Part("marker", p, p + Len(m)))
                      /\ E!Contains(token_ids, ids[m])
    BY DEF MarkersKept, E!MarkersKept, Keeps, Before
  <2>1. p \in 1 .. Len(text) - 1 /\ Len(text) \in Nat /\ offset = Len(text) + 1
    BY <1>1, TextTypes DEF E!Opens, EncodingInv, PlacesInv
  <2>2. Kept(p, m)
    BY <1>1, <2>1 DEF EncodingInv, MarkersInv
  <2> QED
    BY <2>2 DEF Kept, E!Contains
<1> QED
  BY <1>1, EncodingHolds, PTL
-----------------------------------------------------------------------------
\* The bos, if the caller wants it.
Lead == IF addBos THEN <<file.bos>> ELSE << >>

\* The text as the tokens have it: symbols, but for the markers found.
Shown    == [p \in 1 .. Len(text) |-> SignAt(p)]
\* What encode_segment is called for is symbols throughout.
Symbolic == [p \in 1 .. Len(text) |-> SymbolOf(text[p])]

\* Behind the bos, s spells the first n signs of x.
Encodes(s, x, n) ==
  /\ Lead \in Seq(TokenIds)
  /\ \E t \in Seq(TokenIds) : s = Lead \o t /\ Spelling(t) = SubSeq(x, 1, n)

\* Every part that is done ends where encoding is or before.
PartsBehind == \A n \in 1 .. Len(parts) : parts[n].to <= offset

\* What has been encoded is spelt as the text is shown, and what encode_segment has made
\* of its segment as the segment's symbols, merged or not.
CoverInv ==
  /\ PartsBehind
  /\ enc_pc \in {"encode", "segment", "done"} /\ seg_pc # "append"
       => Encodes(token_ids, Shown, offset - 1)
  /\ seg_pc = "symbols" =>
       /\ segment = [n \in 1 .. end - offset |-> SymbolOf(text[offset + n - 1])]
       /\ Len(pieces) <= end - offset
       /\ Spelling(pieces) = SubSeq(Symbolic, offset, offset + Len(pieces) - 1)
  /\ seg_pc \in {"merge", "append"} => Spelling(pieces) = SubSeq(Symbolic, offset, end - 1)
  /\ seg_pc = "append" =>
       \E s \in Seq(TokenIds) :
         /\ Len(s) = base /\ Len(token_ids) <= base + Len(pieces)
         /\ token_ids = s \o SubSeq(pieces, 1, Len(token_ids) - base)
         /\ Encodes(s, Shown, offset - 1)

\* Both are sequences of signs as long as the text.
LEMMA ShownType ==
  ASSUME TextInv
  PROVE  /\ Shown \in Seq(Signs) /\ Len(Shown) = Len(text) /\ Len(text) \in Nat
         /\ Symbolic \in Seq(Signs) /\ Len(Symbolic) = Len(text)
<1>1. Len(text) \in Nat /\ \A p \in 1 .. Len(text) : text[p] \in Signs
  BY TextTypes DEF Chars, Signs
<1>2. \A p \in 1 .. Len(text) : SymbolOf(text[p]) \in Signs /\ SignAt(p) \in Signs
  BY <1>1, SymbolsAreSigns DEF SignAt
<1>3. Shown \in [1 .. Len(text) -> Signs] /\ Symbolic \in [1 .. Len(text) -> Signs]
  BY <1>2 DEF Shown, Symbolic
<1>4. \A n \in Nat : \A f \in [1 .. n -> Signs] : f \in Seq(Signs) /\ Len(f) = n
  OBVIOUS
<1> QED
  BY <1>1, <1>3, <1>4

\* Ids are joined in any order of grouping.
LEMMA Regrouped ==
  ASSUME NEW x \in Seq(TokenIds), NEW y \in Seq(TokenIds), NEW z \in Seq(TokenIds)
  PROVE  (x \o y) \o z = x \o (y \o z)
BY ConcatAssociative

\* What spells the next signs goes behind what spells those before.
LEMMA EncodesMore ==
  ASSUME VInv, NEW x \in Seq(Signs), NEW s \in Seq(TokenIds), NEW t \in Seq(TokenIds),
         NEW a \in 1 .. Len(x) + 1, NEW b \in a .. Len(x) + 1,
         Encodes(s, x, a - 1), Spelling(t) = SubSeq(x, a, b - 1)
  PROVE  Encodes(s \o t, x, b - 1)
<1>1. PICK u \in Seq(TokenIds) : s = Lead \o u /\ Spelling(u) = SubSeq(x, 1, a - 1)
  BY DEF Encodes
<1>2. Lead \in Seq(TokenIds)
  BY DEF Encodes
<1>3. (Lead \o u) \o t = Lead \o (u \o t)
  BY <1>2, Regrouped
<1>4. u \o t \in Seq(TokenIds)
  BY ConcatProperties
<1>5. Spelling(u \o t) = Spelling(u) \o Spelling(t)
  BY SpellingConcat
<1>6. SubSeq(x, 1, a - 1) \o SubSeq(x, a, b - 1) = SubSeq(x, 1, b - 1)
  <2> DEFINE c == a - 1
             d == b - 1
  <2>1. 1 \in 1 .. Len(x) + 1 /\ c \in 1 - 1 .. Len(x) /\ d \in c .. Len(x)
        /\ c + 1 = a
    OBVIOUS
  <2> HIDE DEF c, d
  <2>2. SubSeq(x, 1, c) \o SubSeq(x, c + 1, d) = SubSeq(x, 1, d)
    BY <2>1, ConcatAdjacentSubSeq
  <2> QED
    BY <2>1, <2>2 DEF c, d
<1> QED
  BY <1>1, <1>2, <1>3, <1>4, <1>5, <1>6 DEF Encodes

\* The next symbol's token.
LEMMA SymbolAdded ==
  ASSUME VInv, TextInv, pieces \in Seq(TokenIds), NEW k \in 1 .. Len(text),
         <<SymbolOf(text[k])>> \in DOMAIN ids, NEW o \in 1 .. k,
         Spelling(pieces) = SubSeq(Symbolic, o, k - 1)
  PROVE  Spelling(Append(pieces, ids[<<SymbolOf(text[k])>>])) = SubSeq(Symbolic, o, k)
<1> DEFINE symbol == SymbolOf(text[k])
           id == ids[<<symbol>>]
<1>1. Symbolic \in Seq(Signs) /\ Len(Symbolic) = Len(text) /\ Len(text) \in Nat
      /\ Symbolic[k] = symbol
  BY ShownType DEF Symbolic
<1> HIDE DEF symbol
<1>2. id \in TokenIds /\ Text(id) = <<symbol>>
  BY IdsTyped DEF symbol
<1> HIDE DEF id
<1>3. Append(pieces, id) = pieces \o <<id>> /\ <<id>> \in Seq(TokenIds)
  BY <1>2, AppendIsConcat
<1>4. Spelling(pieces \o <<id>>) = Spelling(pieces) \o Spelling(<<id>>)
  BY <1>3, SpellingConcat
<1>5. Spelling(<<id>>) = <<symbol>>
  BY <1>2, SpellingOne
<1>6. SubSeq(Symbolic, o, k) = SubSeq(Symbolic, o, k - 1) \o <<Symbolic[k]>>
  <2>1. o \in 1 .. Len(Symbolic) /\ k \in o .. Len(Symbolic)
    BY <1>1
  <2> QED
    BY <1>1, <2>1, SubSeqRecursiveSecond
<1> QED
  BY <1>1, <1>3, <1>4, <1>5, <1>6 DEF id, symbol

\* Two tokens are spelt as the one that a merge makes of them,
LEMMA PairSpells ==
  ASSUME VInv, NEW x \in TokenIds, NEW y \in TokenIds, NEW z \in TokenIds,
         Text(x) \o Text(y) = Text(z)
  PROVE  Spelling(<<x, y>>) = Spelling(<<z>>)
<1>1. /\ <<x>> \in Seq(TokenIds) /\ <<y>> \in Seq(TokenIds) /\ <<x>> \o <<y>> = <<x, y>>
  BY TwoAsConcat
<1>2. Spelling(<<x, y>>) = Spelling(<<x>>) \o Spelling(<<y>>)
  BY <1>1, SpellingConcat
<1>3. /\ Spelling(<<x>>) = Text(x) /\ Spelling(<<y>>) = Text(y)
      /\ Spelling(<<z>>) = Text(z)
  BY SpellingOne
<1> QED
  BY <1>2, <1>3

\* and so are the tokens around them.
LEMMA MergeSpells ==
  ASSUME VInv, NEW l \in Seq(TokenIds), NEW r \in Seq(TokenIds),
         NEW a \in Seq(TokenIds), NEW b \in Seq(TokenIds), Spelling(a) = Spelling(b)
  PROVE  Spelling((l \o a) \o r) = Spelling((l \o b) \o r)
<1>1. ASSUME NEW s \in Seq(TokenIds), NEW t \in Seq(TokenIds)
      PROVE  Spelling(s \o t) = Spelling(s) \o Spelling(t)
  BY SpellingConcat
<1> DEFINE c == l \o a
           d == l \o b
<1>2. c \in Seq(TokenIds) /\ d \in Seq(TokenIds)
  BY ConcatProperties
<1>3. Spelling(c) = Spelling(d)
  <2>1. Spelling(c) = Spelling(l) \o Spelling(a)
    BY Zenon, <1>1
  <2>2. Spelling(d) = Spelling(l) \o Spelling(b)
    BY Zenon, <1>1
  <2> QED
    BY <2>1, <2>2
<1> HIDE DEF c, d
<1>4. Spelling(c \o r) = Spelling(c) \o Spelling(r)
  BY Zenon, <1>1, <1>2
<1>5. Spelling(d \o r) = Spelling(d) \o Spelling(r)
  BY Zenon, <1>1, <1>2
<1>6. Spelling(c \o r) = Spelling(d \o r)
  BY <1>3, <1>4, <1>5
<1> QED
  BY <1>6 DEF c, d

\* What is spelt depends on the text, the tokens, the bos and the parts only.
LEMMA SameEncoding ==
  ASSUME text' = text, file' = file, addBos' = addBos
  PROVE  /\ \A s, x, n : Encodes(s, x, n)' <=> Encodes(s, x, n)
         /\ \A s : Spelling(s)' = Spelling(s)
         /\ Symbolic' = Symbolic
         /\ parts' = parts => Shown' = Shown
<1>1. Lead' = Lead /\ TokenIds' = TokenIds
  BY DEF Lead, TokenIds
<1>2. \A s : Strings(s)' = Strings(s)
  BY DEF Strings, Text
<1>3. \A s : Spelling(s)' = Spelling(s)
  BY <1>2 DEF Spelling
<1>4. ASSUME NEW s, NEW x, NEW n PROVE Encodes(s, x, n)' <=> Encodes(s, x, n)
  BY <1>1, <1>3 DEF Encodes
<1>5. Symbolic' = Symbolic
  BY DEF Symbolic
<1>6. parts' = parts => Shown' = Shown
  BY DEF Shown, SignAt, InMarker
<1> QED
  BY <1>3, <1>4, <1>5, <1>6

\* encode_segment turns its segment into symbols, and these into tokens, for good.
LEMMA WorkCovers ==
  ASSUME VInv, TextInv, PlacesInv, MarkersInv, SegmentInv, CoverInv, Works,
         text' = text, file' = file, addBos' = addBos
  PROVE  CoverInv'
<1>1. /\ enc_pc = "segment" /\ enc_pc' = enc_pc /\ offset' = offset /\ end' = end
      /\ offset < end /\ seg_pc # "idle"
  BY WorkIs
<1>2. pc = "ready" /\ token_ids \in Seq(TokenIds) /\ pieces \in Seq(TokenIds)
      /\ base \in Nat /\ base <= Len(token_ids)
  BY <1>1 DEF PlacesInv, MarkersInv, SegmentInv
<1>3. /\ Len(text) \in Nat /\ Len(pieces) \in Nat /\ Len(token_ids) \in Nat
      /\ offset \in 1 .. Len(text) + 1 /\ end \in offset .. Len(text) + 1
  BY <1>1, <1>2, TextTypes DEF PlacesInv
<1>4. /\ \A s, x, n : Encodes(s, x, n)' <=> Encodes(s, x, n)
      /\ \A s : Spelling(s)' = Spelling(s)
      /\ Symbolic' = Symbolic /\ Shown' = Shown /\ PartsBehind'
  <2>1. parts' = parts
    BY WorkIs
  <2>2. PartsBehind'
    BY <1>1, <2>1 DEF CoverInv, PartsBehind
  <2> QED
    BY <2>1, <2>2, SameEncoding
<1>5. base' = base /\ segment' = segment
  BY <1>2, WorkDoes
<1>6. TokenIds' = TokenIds
  BY DEF TokenIds
<1>7. ASSUME token_ids' = token_ids, Encodes(token_ids, Shown, offset - 1)
       PROVE  Encodes(token_ids, Shown, offset - 1)'
  <2>1. offset' - 1 = offset - 1 /\ Shown' = Shown
    BY <1>1, <1>4
  <2>2. Encodes(token_ids, Shown, offset - 1) /\ token_ids' = token_ids
    BY <1>7
  <2>3. Lead' = Lead
    BY DEF Lead
  <2> QED
    BY <1>4, <1>6, <2>1, <2>2, <2>3 DEF Encodes
<1>8. CASE seg_pc = "symbols" /\ seg_pc' = "symbols"
  <2>1. /\ token_ids' = token_ids /\ Len(pieces) < Len(segment)
        /\ <<segment[Len(pieces) + 1]>> \in DOMAIN ids
        /\ pieces' = Append(pieces, ids[<<segment[Len(pieces) + 1]>>])
    BY <1>2, <1>8, WorkDoes
  <2>2. /\ segment = [n \in 1 .. end - offset |-> SymbolOf(text[offset + n - 1])]
        /\ Spelling(pieces) = SubSeq(Symbolic, offset, offset + Len(pieces) - 1)
        /\ Encodes(token_ids, Shown, offset - 1)
    BY <1>1, <1>8 DEF CoverInv
  <2> DEFINE k == offset + Len(pieces)
  <2>3. Len(segment) = end - offset
    <3>1. end - offset \in Nat
      BY <1>3
    <3> QED
      BY <2>2, <3>1
  <2>4. /\ Len(pieces) + 1 \in 1 .. end - offset /\ offset + (Len(pieces) + 1) - 1 = k
        /\ k \in 1 .. Len(text) /\ offset \in 1 .. k
    BY <1>3, <2>1, <2>3
  <2>5. segment[Len(pieces) + 1] = SymbolOf(text[k])
    BY <2>2, <2>4
  <2>6. Spelling(pieces) = SubSeq(Symbolic, offset, k - 1)
    BY <1>3, <2>2
  <2> HIDE DEF k
  <2>7. Spelling(pieces') = SubSeq(Symbolic, offset, k)
    BY <1>2, <2>1, <2>4, <2>5, <2>6, SymbolAdded
  <2>8. Len(pieces') = Len(pieces) + 1
    BY <1>2, <2>1
  <2>9. Len(pieces') <= end - offset /\ k = offset + Len(pieces') - 1
    BY <1>3, <2>1, <2>3, <2>8 DEF k
  <2>10. Spelling(pieces)' = SubSeq(Symbolic, offset, offset + Len(pieces') - 1)
    BY <1>4, <2>7, <2>9
  <2>11. segment' = [n \in 1 .. end' - offset' |-> SymbolOf(text'[offset' + n - 1])]
    BY <1>1, <1>5, <2>2
  <2>12. Encodes(token_ids, Shown, offset - 1)'
    BY <1>7, <2>1, <2>2
  <2> QED
    BY <1>1, <1>8, <1>4, <2>9, <2>10, <2>11, <2>12 DEF CoverInv
<1>9. CASE seg_pc = "symbols" /\ seg_pc' = "merge"
  <2>1. token_ids' = token_ids /\ Len(pieces) = Len(segment) /\ pieces' = pieces
    BY <1>2, <1>9, WorkDoes
  <2>2. /\ segment = [n \in 1 .. end - offset |-> SymbolOf(text[offset + n - 1])]
        /\ Spelling(pieces) = SubSeq(Symbolic, offset, offset + Len(pieces) - 1)
        /\ Encodes(token_ids, Shown, offset - 1)
    BY <1>1, <1>9 DEF CoverInv
  <2>3. Len(segment) = end - offset
    <3>1. end - offset \in Nat
      BY <1>3
    <3> QED
      BY <2>2, <3>1
  <2>4. offset + Len(pieces) - 1 = end - 1
    BY <1>3, <2>1, <2>3
  <2>5. Spelling(pieces)' = SubSeq(Symbolic, offset, end - 1)'
    BY <1>1, <1>4, <2>1, <2>2, <2>4
  <2>6. Encodes(token_ids, Shown, offset - 1)'
    BY <1>7, <2>1, <2>2
  <2> QED
    BY <1>4, <1>9, <2>5, <2>6 DEF CoverInv
<1>10. CASE seg_pc = "merge" /\ seg_pc' = "merge"
  <2>1. token_ids' = token_ids /\ \E i \in B!Mergeable : B!Merge(i)
    BY <1>2, <1>10, WorkDoes
  <2>2. Spelling(pieces) = SubSeq(Symbolic, offset, end - 1) /\ Encodes(token_ids, Shown, offset - 1)
    BY <1>1, <1>10 DEF CoverInv
  <2>3. Spelling(pieces') = Spelling(pieces)
    <3>1. PICK i \in B!Mergeable : B!Merge(i)
      BY <2>1
    <3> DEFINE l == SubSeq(pieces, 1, i - 1)
               r == SubSeq(pieces, i + 2, Len(pieces))
    <3>2. /\ l \in Seq(TokenIds) /\ r \in Seq(TokenIds)
          /\ \E x, y, z \in TokenIds :
               /\ pieces = l \o <<x, y>> \o r /\ pieces' = l \o <<z>> \o r
               /\ Text(x) \o Text(y) = Text(z)
      BY <1>2, <3>1, MergeIs
    <3> HIDE DEF l, r
    <3>3. PICK x, y, z \in TokenIds :
            /\ pieces = (l \o <<x, y>>) \o r /\ pieces' = (l \o <<z>>) \o r
            /\ Text(x) \o Text(y) = Text(z)
      BY <3>2
    <3>4. l \in Seq(TokenIds) /\ r \in Seq(TokenIds)
      BY <3>2
    <3>5. <<x, y>> \in Seq(TokenIds) /\ <<z>> \in Seq(TokenIds)
      BY TwoAsConcat
    <3>6. Spelling(<<x, y>>) = Spelling(<<z>>)
      <4>1. x \in TokenIds /\ y \in TokenIds /\ z \in TokenIds /\ Text(x) \o Text(y) = Text(z)
        BY <3>3
      <4> QED
        BY Zenon, <4>1, PairSpells
    <3>7. Spelling((l \o <<x, y>>) \o r) = Spelling((l \o <<z>>) \o r)
      BY ZenonT(30), <3>4, <3>5, <3>6, MergeSpells
    <3> QED
      BY <3>3, <3>7
  <2>4. Spelling(pieces)' = SubSeq(Symbolic, offset, end - 1)'
    BY <1>1, <1>4, <2>2, <2>3
  <2>5. Encodes(token_ids, Shown, offset - 1)'
    BY <1>7, <2>1, <2>2
  <2> QED
    BY <1>4, <1>10, <2>4, <2>5 DEF CoverInv
<1>11. CASE seg_pc = "merge" /\ seg_pc' = "append"
  <2>1. token_ids' = token_ids /\ pieces' = pieces /\ Len(token_ids) = base
    BY <1>2, <1>11, WorkDoes DEF SegmentInv
  <2>2. Spelling(pieces) = SubSeq(Symbolic, offset, end - 1) /\ Encodes(token_ids, Shown, offset - 1)
    BY <1>1, <1>11 DEF CoverInv
  <2>3. Spelling(pieces)' = SubSeq(Symbolic, offset, end - 1)'
    BY <1>1, <1>4, <2>1, <2>2
  <2>4. Encodes(token_ids, Shown, offset - 1)'
    BY <1>7, <2>1, <2>2
  <2>5. token_ids = token_ids \o SubSeq(pieces, 1, Len(token_ids) - base)
    <3>1. Len(token_ids) - base = 0
      BY <1>3, <2>1
    <3>2. SubSeq(pieces, 1, 0) = << >>
      BY SubSeqEmpty
    <3>3. token_ids = token_ids \o << >>
      BY <1>2, ConcatEmptySeq
    <3> QED
      BY <3>1, <3>2, <3>3
  <2>6. Len(token_ids) <= base + Len(pieces)
    BY <1>3, <2>1
  <2>7. \E s \in Seq(TokenIds)' :
          /\ Len(s) = base' /\ Len(token_ids') <= base' + Len(pieces')
          /\ token_ids' = s \o SubSeq(pieces', 1, Len(token_ids') - base')
          /\ Encodes(s, Shown, offset - 1)'
    BY <1>1, <1>2, <1>4, <1>5, <1>6, <2>1, <2>2, <2>5, <2>6
  <2> QED
    BY <1>4, <1>11, <2>3, <2>7 DEF CoverInv
<1>12. CASE seg_pc = "append" /\ seg_pc' = "append"
  <2> DEFINE j == Len(token_ids) - base
  <2>1. /\ pieces' = pieces /\ j + 1 \in 1 .. Len(pieces)
        /\ token_ids' = Append(token_ids, pieces[j + 1])
    BY <1>2, <1>12, WorkDoes
  <2>2. Spelling(pieces) = SubSeq(Symbolic, offset, end - 1)
    BY <1>12 DEF CoverInv
  <2>3. PICK s \in Seq(TokenIds) :
          /\ Len(s) = base /\ token_ids = s \o SubSeq(pieces, 1, j) /\ Encodes(s, Shown, offset - 1)
    BY <1>12 DEF CoverInv
  <2>4. /\ Len(token_ids') = Len(token_ids) + 1 /\ pieces[j + 1] \in TokenIds
        /\ token_ids' = token_ids \o <<pieces[j + 1]>>
    <3>1. pieces[j + 1] \in TokenIds
      BY <1>2, <2>1
    <3> QED
      BY <1>2, <2>1, <3>1, AppendProperties, AppendIsConcat
  <2>5. Len(token_ids') - base' = j + 1 /\ Len(token_ids') <= base' + Len(pieces')
    BY <1>2, <1>3, <1>5, <2>1, <2>4
  <2> HIDE DEF j
  <2>6. SubSeq(pieces, 1, j + 1) = SubSeq(pieces, 1, j) \o <<pieces[j + 1]>>
        /\ SubSeq(pieces, 1, j) \in Seq(TokenIds)
    <3>1. j \in Nat /\ Len(pieces) \in Nat
      BY <1>2, <1>3 DEF j
    <3>2. 1 \in 1 .. Len(pieces) /\ j + 1 \in 1 .. Len(pieces) /\ (j + 1) - 1 = j
      BY <2>1, <3>1
    <3>3. SubSeq(pieces, 1, j + 1) = SubSeq(pieces, 1, (j + 1) - 1) \o <<pieces[j + 1]>>
      BY <1>2, <3>2, SubSeqRecursiveSecond
    <3>4. \A n \in 1 .. j : pieces[n] \in TokenIds
      BY <1>2, <3>1, <3>2
    <3> QED
      BY <3>1, <3>2, <3>3, <3>4, SubSeqProperties
  <2>7. token_ids' = s \o SubSeq(pieces, 1, j + 1)
    <3>1. <<pieces[j + 1]>> \in Seq(TokenIds)
      BY <2>4
    <3> DEFINE a == SubSeq(pieces, 1, j)
               b == <<pieces[j + 1]>>
    <3>2. a \in Seq(TokenIds) /\ b \in Seq(TokenIds) /\ s \in Seq(TokenIds)
      BY <2>6, <3>1
    <3> HIDE DEF a, b
    <3>3. (s \o a) \o b = s \o (a \o b)
      BY <3>2, Regrouped
    <3>4. token_ids = s \o a /\ token_ids' = token_ids \o b /\ SubSeq(pieces, 1, j + 1) = a \o b
      BY <2>3, <2>4, <2>6 DEF a, b
    <3> QED
      BY <3>3, <3>4
  <2>8. Spelling(pieces)' = SubSeq(Symbolic, offset, end - 1)'
    BY <1>1, <1>4, <2>1, <2>2
  <2>9. /\ Len(s) = base' /\ Len(token_ids') <= base' + Len(pieces')
        /\ token_ids' = s \o SubSeq(pieces', 1, Len(token_ids') - base')
        /\ Encodes(s, Shown', offset' - 1)
    BY <1>1, <1>4, <1>5, <2>1, <2>3, <2>5, <2>7
  <2>10. \E u \in Seq(TokenIds)' :
          /\ Len(u) = base' /\ Len(token_ids') <= base' + Len(pieces')
          /\ token_ids' = u \o SubSeq(pieces', 1, Len(token_ids') - base')
          /\ Encodes(u, Shown, offset - 1)'
    BY <1>1, <1>4, <1>6, <2>9
  <2> QED
    BY <1>4, <1>12, <2>8, <2>10 DEF CoverInv
<1> QED
  BY <1>2, <1>8, <1>9, <1>10, <1>11, <1>12, WorkDoes

\* No token is spelt as nothing.
LEMMA SpellingNone == Spelling(<< >>) = << >>
<1>1. Strings(<< >>) = << >> /\ FlattenSeq(<< >>) = << >>
  BY DEF Strings, FlattenSeq
<1> QED
  BY <1>1 DEF Spelling

\* Sequences that agree from a place to another have the same part there.
LEMMA SameParts ==
  ASSUME NEW x \in Seq(Signs), NEW y \in Seq(Signs), NEW a \in Int, NEW b \in Int,
         \A p \in a .. b : x[p] \in Signs /\ y[p] = x[p]
  PROVE  SubSeq(y, a, b) = SubSeq(x, a, b)
<1> DEFINE u == SubSeq(x, a, b)
           v == SubSeq(y, a, b)
           n == b - a + 1
<1>1. /\ u \in Seq(Signs) /\ Len(u) = (IF a <= b THEN n ELSE 0)
      /\ \A i \in 1 .. n : u[i] = x[a + i - 1]
  BY SubSeqProperties
<1>2. \A p \in a .. b : y[p] \in Signs
  OBVIOUS
<1>3. /\ v \in Seq(Signs) /\ Len(v) = (IF a <= b THEN n ELSE 0)
      /\ \A i \in 1 .. n : v[i] = y[a + i - 1]
  BY <1>2, SubSeqProperties
<1> HIDE DEF u, v
<1>4. ASSUME NEW i \in 1 .. Len(u) PROVE v[i] = u[i]
  <2>1. i \in 1 .. n /\ a + i - 1 \in a .. b
    BY <1>1
  <2> QED
    BY <1>1, <1>3, <2>1
<1>5. v = u
  BY <1>1, <1>3, <1>4, SeqEqual
<1> QED
  BY <1>5 DEF u, v

\* The beginning of a sequence, place by place.
LEMMA PrefixIs ==
  ASSUME NEW x \in Seq(Signs), NEW n \in 0 .. Len(x)
  PROVE  SubSeq(x, 1, n) = [p \in 1 .. n |-> x[p]]
<1> DEFINE u == SubSeq(x, 1, n)
           v == [p \in 1 .. n |-> x[p]]
<1>1. n \in Nat /\ \A p \in 1 .. n : x[p] \in Signs
  OBVIOUS
<1>2. u \in Seq(Signs) /\ Len(u) = n /\ \A i \in 1 .. n : u[i] = x[i]
  <2>1. /\ SubSeq(x, 1, n) \in Seq(Signs) /\ Len(SubSeq(x, 1, n)) = IF 1 <= n THEN n - 1 + 1 ELSE 0
        /\ \A i \in 1 .. n - 1 + 1 : SubSeq(x, 1, n)[i] = x[1 + i - 1]
    BY <1>1, SubSeqProperties
  <2> QED
    BY <1>1, <2>1
<1>3. v \in Seq(Signs) /\ Len(v) = n /\ \A i \in 1 .. n : v[i] = x[i]
  BY <1>1
<1> HIDE DEF u, v
<1>4. u = v
  BY <1>2, <1>3, SeqEqual
<1> QED
  BY <1>4 DEF u, v

\* What becomes done is shown as symbols, and a marker as it stands, and nothing else changes.
LEMMA ShownGrows ==
  ASSUME TextInv, PlacesInv, parts \in Seq(Part), PartsBehind, Advances, text' = text
  PROVE  /\ PartsBehind'
         /\ Shown' \in Seq(Signs) /\ Len(Shown') = Len(text)
         /\ SubSeq(Shown', 1, offset - 1) = SubSeq(Shown, 1, offset - 1)
         /\ SubSeq(Shown', offset, end - 1) = SubSeq(Symbolic, offset, end - 1)
         /\ SubSeq(Shown', end, next - 1) = SubSeq(text, end, next - 1)
<1>1. /\ offset \in 1 .. Len(text) + 1 /\ end \in offset .. Len(text) + 1
      /\ next \in end .. Len(text) + 1 /\ Len(text) \in Nat /\ offset' = next
  BY TextTypes DEF PlacesInv, Advances
<1>2. /\ \A n \in 1 .. Len(parts) : n \in 1 .. Len(parts') /\ parts'[n] = parts[n]
      /\ \A n \in 1 .. Len(parts') :
           \/ n \in 1 .. Len(parts)
           \/ offset < end /\ parts'[n] = E!Part("segment", offset, end)
           \/ end < next /\ parts'[n] = E!Part("marker", end, next)
      /\ end < next => \E n \in 1 .. Len(parts') : parts'[n] = E!Part("marker", end, next)
  BY PartsGrow
<1>3. \A n \in 1 .. Len(parts) : /\ parts[n].from \in Nat /\ parts[n].to \in Nat
                                 /\ parts[n].to <= offset
  <2>1. ASSUME NEW n \in 1 .. Len(parts) PROVE parts[n] \in Part
    OBVIOUS
  <2> QED
    BY <2>1 DEF PartsBehind, Part
<1>4. PartsBehind'
  <2>1. ASSUME NEW n \in 1 .. Len(parts') PROVE parts'[n].to <= next
    <3>1. CASE n \in 1 .. Len(parts)
      BY <1>1, <1>2, <1>3, <3>1
    <3>2. CASE parts'[n] = E!Part("segment", offset, end)
      BY <1>1, <3>2 DEF E!Part
    <3>3. CASE parts'[n] = E!Part("marker", end, next)
      BY <1>1, <3>3 DEF E!Part
    <3> QED
      BY <1>2, <3>1, <3>2, <3>3
  <2> QED
    BY <1>1, <2>1 DEF PartsBehind
<1>5. ASSUME NEW p \in 1 .. Len(text), InMarker(p) PROVE p < offset /\ InMarker(p)'
  <2>1. PICK n \in 1 .. Len(parts) :
          parts[n].kind = "marker" /\ p \in parts[n].from .. parts[n].to - 1
    BY <1>5 DEF InMarker
  <2>2. p < offset
    BY <1>1, <1>3, <2>1
  <2>3. n \in 1 .. Len(parts') /\ parts'[n] = parts[n]
    BY <1>2
  <2>4. InMarker(p)'
    BY <2>1, <2>3 DEF InMarker
  <2> QED
    BY <2>2, <2>4
<1>6. ASSUME NEW p \in 1 .. Len(text), InMarker(p)' PROVE InMarker(p) \/ p \in end .. next - 1
  <2>1. PICK n \in 1 .. Len(parts') :
          parts'[n].kind = "marker" /\ p \in parts'[n].from .. parts'[n].to - 1
    BY <1>6 DEF InMarker
  <2>2. CASE n \in 1 .. Len(parts)
    BY <1>2, <2>1, <2>2 DEF InMarker
  <2>3. CASE parts'[n] = E!Part("segment", offset, end)
    <3>1. parts'[n].kind = "segment"
      BY <2>3 DEF E!Part
    <3> QED
      BY Zenon, <2>1, <3>1
  <2>4. CASE parts'[n] = E!Part("marker", end, next)
    <3>1. parts'[n].from = end /\ parts'[n].to = next
      BY <2>4 DEF E!Part
    <3> QED
      BY <2>1, <3>1
  <2> QED
    BY <1>2, <2>2, <2>3, <2>4
<1>7. ASSUME NEW p \in end .. next - 1 PROVE InMarker(p)'
  <2>1. end < next
    BY <1>1
  <2>2. PICK n \in 1 .. Len(parts') : parts'[n] = E!Part("marker", end, next)
    BY <1>2, <2>1
  <2>3. parts'[n].kind = "marker" /\ parts'[n].from = end /\ parts'[n].to = next
    BY <2>2 DEF E!Part
  <2> QED
    BY <2>3 DEF InMarker
<1>8. /\ Shown' = [p \in 1 .. Len(text) |-> SignAt(p)']
      /\ \A p \in 1 .. Len(text) : SignAt(p)' = IF InMarker(p)' THEN text[p] ELSE SymbolOf(text[p])
  BY DEF Shown, SignAt
<1>9. \A p \in 1 .. Len(text) : text[p] \in Signs /\ SymbolOf(text[p]) \in Signs
  BY TextTypes, SymbolsAreSigns DEF Chars, Signs
<1>10. Shown' \in Seq(Signs) /\ Len(Shown') = Len(text)
  <2>1. Shown' \in [1 .. Len(text) -> Signs]
    BY <1>8, <1>9
  <2>2. \A n \in Nat : \A f \in [1 .. n -> Signs] : f \in Seq(Signs) /\ Len(f) = n
    OBVIOUS
  <2> QED
    BY <1>1, <2>1, <2>2
<1>11. /\ Shown \in Seq(Signs) /\ Symbolic \in Seq(Signs) /\ text \in Seq(Signs)
  <2>1. Chars \subseteq Signs
    BY DEF Chars, Signs
  <2> QED
    BY <2>1, ShownType, SeqMonotonic DEF TextInv
<1>12. SubSeq(Shown', 1, offset - 1) = SubSeq(Shown, 1, offset - 1)
  <2>1. ASSUME NEW p \in 1 .. offset - 1 PROVE Shown[p] \in Signs /\ Shown'[p] = Shown[p]
    <3>1. p \in 1 .. Len(text) /\ p \notin end .. next - 1
      BY <1>1
    <3>2. InMarker(p)' <=> InMarker(p)
      BY <1>5, <1>6, <3>1
    <3>3. Shown[p] = IF InMarker(p) THEN text[p] ELSE SymbolOf(text[p])
      BY <3>1 DEF Shown, SignAt
    <3>4. Shown'[p] = IF InMarker(p)' THEN text[p] ELSE SymbolOf(text[p])
      BY <1>8, <3>1
    <3> QED
      BY <1>9, <3>1, <3>2, <3>3, <3>4
  <2>2. offset - 1 \in Int
    BY <1>1
  <2> QED
    BY <1>10, <1>11, <2>1, <2>2, SameParts
<1>13. SubSeq(Shown', offset, end - 1) = SubSeq(Symbolic, offset, end - 1)
  <2>1. ASSUME NEW p \in offset .. end - 1 PROVE Symbolic[p] \in Signs /\ Shown'[p] = Symbolic[p]
    <3>1. p \in 1 .. Len(text) /\ p \notin end .. next - 1 /\ ~(p < offset)
      BY <1>1
    <3>2. ~InMarker(p)'
      BY <1>5, <1>6, <3>1
    <3>3. Shown'[p] = IF InMarker(p)' THEN text[p] ELSE SymbolOf(text[p])
      BY <1>8, <3>1
    <3>4. Symbolic[p] = SymbolOf(text[p])
      BY <3>1 DEF Symbolic
    <3> QED
      BY <1>9, <3>1, <3>2, <3>3, <3>4
  <2>2. offset \in Int /\ end - 1 \in Int
    BY <1>1
  <2> QED
    BY <1>10, <1>11, <2>1, <2>2, SameParts
<1>14. SubSeq(Shown', end, next - 1) = SubSeq(text, end, next - 1)
  <2>1. ASSUME NEW p \in end .. next - 1 PROVE text[p] \in Signs /\ Shown'[p] = text[p]
    <3>1. p \in 1 .. Len(text)
      BY <1>1
    <3>2. Shown'[p] = IF InMarker(p)' THEN text[p] ELSE SymbolOf(text[p])
      BY <1>8, <3>1
    <3> QED
      BY <1>7, <1>9, <3>1, <3>2
  <2>2. end \in Int /\ next - 1 \in Int
    BY <1>1
  <2> QED
    BY <1>10, <1>11, <2>1, <2>2, SameParts
<1> QED
  BY <1>4, <1>10, <1>12, <1>13, <1>14

\* A segment and the marker behind it, if there are any, are encoded when encode goes on.
LEMMA AdvanceCovers ==
  ASSUME VInv, TextInv, PlacesInv, parts \in Seq(Part), MarkersInv, SegmentInv, CoverInv,
         Advances, text' = text
  PROVE  Encodes(token_ids', Shown', next - 1)
<1>1. enc_pc = "segment" /\ (offset < end => seg_pc = "append" /\ Len(token_ids) = base + Len(pieces))
  BY DEF Advances
<1>2. /\ Len(text) \in Nat /\ offset \in 1 .. Len(text) + 1
      /\ end \in offset .. Len(text) + 1 /\ next \in end .. Len(text) + 1
      /\ token_ids \in Seq(TokenIds)
  BY <1>1, TextTypes DEF PlacesInv, MarkersInv
<1> DEFINE x == Shown'
<1>3. /\ x \in Seq(Signs) /\ Len(x) = Len(text)
      /\ SubSeq(x, 1, offset - 1) = SubSeq(Shown, 1, offset - 1)
      /\ SubSeq(x, offset, end - 1) = SubSeq(Symbolic, offset, end - 1)
      /\ SubSeq(x, end, next - 1) = SubSeq(text, end, next - 1)
  BY ShownGrows DEF CoverInv
<1> HIDE DEF x
<1>4. \A u : Encodes(u, Shown, offset - 1) => Encodes(u, x, offset - 1)
  BY <1>3 DEF Encodes
<1>5. /\ offset \in 1 .. Len(x) + 1 /\ end \in offset .. Len(x) + 1 /\ end \in 1 .. Len(x) + 1
      /\ next \in end .. Len(x) + 1
  BY <1>2, <1>3
<1>6. Encodes(token_ids, x, end - 1)
  <2>1. CASE offset < end
    <3>1. /\ seg_pc = "append" /\ pieces \in Seq(TokenIds) /\ base \in Nat
          /\ Len(token_ids) = base + Len(pieces) /\ Len(pieces) \in Nat
      BY <1>1, <2>1 DEF SegmentInv
    <3>2. PICK s \in Seq(TokenIds) :
            /\ token_ids = s \o SubSeq(pieces, 1, Len(token_ids) - base)
            /\ Encodes(s, Shown, offset - 1)
      BY <3>1 DEF CoverInv
    <3>3. Len(token_ids) - base = Len(pieces)
      BY <3>1
    <3>4. token_ids = s \o pieces
      BY <3>1, <3>2, <3>3, SubSeqFull
    <3>5. Spelling(pieces) = SubSeq(Symbolic, offset, end - 1)
      BY <3>1 DEF CoverInv
    <3> QED
      BY <1>3, <1>4, <1>5, <3>1, <3>2, <3>4, <3>5, EncodesMore
  <2>2. CASE ~(offset < end)
    <3>1. end = offset
      BY <1>2, <2>2
    <3>2. seg_pc = "idle"
      BY <2>2 DEF PlacesInv
    <3> QED
      BY <1>1, <1>4, <3>1, <3>2 DEF CoverInv
  <2> QED
    BY <2>1, <2>2
<1>7. CASE end < next
  <2> DEFINE word == SubSeq(text, end, next - 1)
             id == ids[word]
  <2>1. id \in TokenIds /\ Text(id) = word /\ token_ids' = Append(token_ids, id)
    BY <1>2, <1>7, TokensGrow
  <2> HIDE DEF id, word
  <2>3. Spelling(<<id>>) = word
    BY <2>1, SpellingOne
  <2>4. token_ids' = token_ids \o <<id>> /\ <<id>> \in Seq(TokenIds)
    BY <1>2, <2>1, AppendIsConcat
  <2>5. Spelling(<<id>>) = SubSeq(x, end, next - 1)
    BY <1>3, <2>3 DEF word
  <2>6. Encodes(token_ids', x, next - 1)
    BY <1>2, <1>3, <1>5, <1>6, <2>4, <2>5, EncodesMore
  <2> QED
    BY <2>6 DEF x
<1>8. CASE ~(end < next)
  <2>1. next = end /\ token_ids' = token_ids
    BY <1>2, <1>8, TokensGrow
  <2> QED
    BY <1>6, <2>1 DEF x
<1> QED
  BY <1>7, <1>8

\* No step loses or adds a sign.
LEMMA CoverStays ==
  ASSUME VInv, TextInv, PlacesInv, WordsInv, MarkersInv, SegmentInv, CoverInv, [Next]_vars
  PROVE  CoverInv'
<1>1. CASE Rests
  <2>1. enc_pc' \notin {"encode", "segment", "done"} /\ seg_pc' = "idle" /\ parts' = << >>
    BY <1>1 DEF Rests, Resting
  <2>2. PartsBehind'
    BY <2>1 DEF PartsBehind
  <2> QED
    BY <2>1, <2>2 DEF CoverInv
<1>2. CASE /\ UNCHANGED <<vocabulary, text, addBos>>
           /\ (Starts \/ CutsOff \/ Works \/ Advances \/ Ends)
  <2>1. text' = text /\ file' = file /\ addBos' = addBos /\ TokenIds' = TokenIds
    BY <1>2 DEF vocabulary, TokenIds
  <2>2. /\ \A s, x, n : Encodes(s, x, n)' <=> Encodes(s, x, n)
        /\ \A s : Spelling(s)' = Spelling(s)
        /\ Symbolic' = Symbolic /\ (parts' = parts => Shown' = Shown)
    BY <2>1, SameEncoding
  <2>3. ASSUME Encodes(token_ids', Shown', offset' - 1)
        PROVE  Encodes(token_ids, Shown, offset - 1)'
    <3>1. Lead' = Lead /\ TokenIds' = TokenIds
      BY <2>1 DEF Lead
    <3> QED
      BY <2>2, <2>3, <3>1 DEF Encodes
  <2>4. CASE Starts
    <3>1. /\ offset' = 1 /\ seg_pc' = "idle" /\ token_ids' = Lead /\ PartsBehind'
          /\ addBos => file.bos \in TokenIds
      BY <2>4 DEF Starts, PlacesInv, Resting, Lead, PartsBehind
    <3>2. Lead \in Seq(TokenIds)
      <4>1. addBos => <<file.bos>> \in Seq(TokenIds)
        BY <3>1
      <4> QED
        BY <4>1 DEF Lead
    <3>3. SubSeq(Shown', 1, 1 - 1) = << >> /\ << >> \in Seq(TokenIds) /\ Lead = Lead \o << >>
      <4>1. SubSeq(Shown', 1, 0) = << >>
        BY SubSeqEmpty
      <4> QED
        BY <3>2, <4>1, ConcatEmptySeq
    <3>4. Encodes(token_ids', Shown', offset' - 1)
      BY <3>1, <3>2, <3>3, SpellingNone DEF Encodes
    <3>5. Encodes(token_ids, Shown, offset - 1)'
      BY <2>3, <3>4
    <3> QED
      BY <3>1, <3>5 DEF CoverInv
  <2>5. CASE CutsOff
    <3>0. Shown' = Shown /\ PartsBehind'
      BY <2>2, <2>5 DEF CutsOff, CoverInv, PartsBehind
    <3>1. /\ enc_pc = "encode" /\ offset' = offset /\ token_ids' = token_ids
          /\ end' \in offset .. Len(text) + 1
          /\ IF offset < end'
             THEN /\ seg_pc' = "symbols" /\ base' = Len(token_ids) /\ pieces' = << >>
                  /\ segment' = [n \in 1 .. end' - offset |-> SymbolOf(text[offset + n - 1])]
             ELSE seg_pc' = seg_pc
      BY <2>5 DEF CutsOff, Cuts
    <3>2. seg_pc = "idle" /\ offset \in Nat /\ Len(text) \in Nat
      <4>1. Len(text) \in Nat
        BY TextTypes
      <4> QED
        BY <3>1, <4>1 DEF PlacesInv
    <3>3. Encodes(token_ids, Shown, offset - 1)
      BY <3>1, <3>2 DEF CoverInv
    <3>4. Encodes(token_ids, Shown, offset - 1)'
      BY <2>3, <3>0, <3>1, <3>3
    <3>5. CASE offset < end'
      <4>1. /\ seg_pc' = "symbols" /\ pieces' = << >> /\ Len(pieces') = 0
            /\ segment' = [n \in 1 .. end' - offset |-> SymbolOf(text[offset + n - 1])]
        BY <3>1, <3>5
      <4>2. Len(pieces') <= end' - offset' /\ offset' + Len(pieces') - 1 = offset - 1
        <5>1. end' \in Nat /\ offset \in Nat /\ offset < end'
          BY <3>1, <3>2, <3>5
        <5>2. 0 <= end' - offset
          <6>1. \A e \in Nat : offset < e => 0 <= e - offset
            BY <5>1
          <6> QED
            BY <5>1, <6>1
        <5>3. offset + 0 - 1 = offset - 1
          BY <3>2
        <5> QED
          BY <3>1, <4>1, <5>2, <5>3
      <4>3. SubSeq(Symbolic, offset, offset - 1) = << >>
        <5>1. offset - 1 \in Int /\ offset \in Int /\ offset - 1 < offset
          BY <3>2
        <5> QED
          BY <5>1, SubSeqEmpty
      <4>4. Spelling(pieces)' = SubSeq(Symbolic', offset', offset' + Len(pieces') - 1)
        BY <2>1, <2>2, <3>1, <4>1, <4>2, <4>3, SpellingNone
      <4>5. segment' = [n \in 1 .. end' - offset' |-> SymbolOf(text'[offset' + n - 1])]
        BY <2>1, <3>1, <4>1
      <4> QED
        BY <3>0, <3>4, <4>1, <4>2, <4>4, <4>5 DEF CoverInv
    <3>6. CASE ~(offset < end')
      <4>1. seg_pc' = "idle"
        BY <3>1, <3>2, <3>6
      <4> QED
        BY <3>0, <3>4, <4>1 DEF CoverInv
    <3> QED
      BY <3>5, <3>6
  <2>6. CASE Works
    BY <2>1, <2>6, WorkCovers
  <2>7. CASE Advances
    <3>1. offset' = next /\ seg_pc' = "idle" /\ PartsBehind'
      BY <2>1, <2>7, ShownGrows DEF Advances, WordsInv, CoverInv
    <3>2. Encodes(token_ids', Shown', offset' - 1)
      BY <2>1, <2>7, <3>1, AdvanceCovers DEF WordsInv
    <3>3. Encodes(token_ids, Shown, offset - 1)'
      BY <2>3, <3>2
    <3> QED
      BY <3>1, <3>3 DEF CoverInv
  <2>8. CASE Ends
    <3>1. /\ enc_pc = "encode" /\ offset' = offset /\ token_ids' = token_ids
          /\ seg_pc = "idle" /\ seg_pc' = "idle" /\ parts' = parts
      BY <2>8 DEF Ends, PlacesInv
    <3>2. Encodes(token_ids, Shown, offset - 1)
      BY <3>1 DEF CoverInv
    <3>3. Encodes(token_ids, Shown, offset - 1)'
      BY <2>2, <2>3, <3>1, <3>2
    <3>4. PartsBehind'
      BY <3>1 DEF CoverInv, PartsBehind
    <3> QED
      BY <3>1, <3>3, <3>4 DEF CoverInv
  <2> QED
    BY <1>2, <2>4, <2>5, <2>6, <2>7, <2>8
<1>3. CASE UNCHANGED vars
  <2>1. /\ enc_pc' = enc_pc /\ offset' = offset /\ end' = end /\ text' = text
        /\ addBos' = addBos /\ token_ids' = token_ids /\ file' = file /\ seg_pc' = seg_pc
        /\ segment' = segment /\ base' = base /\ pieces' = pieces /\ parts' = parts
    BY <1>3 DEF vars, encoding, vocabulary, segmenting
  <2>2. /\ \A s, x, n : Encodes(s, x, n)' <=> Encodes(s, x, n)
        /\ \A s : Spelling(s)' = Spelling(s)
        /\ Symbolic' = Symbolic /\ (parts' = parts => Shown' = Shown)
    BY <2>1, SameEncoding
  <2>3. TokenIds' = TokenIds /\ Lead' = Lead /\ Shown' = Shown
    BY <2>1, <2>2 DEF TokenIds, Lead
  <2>4. Encodes(token_ids, Shown, offset - 1)' <=> Encodes(token_ids, Shown, offset - 1)
    BY <2>1, <2>2, <2>3 DEF Encodes
  <2>5. Spelling(pieces)' = Spelling(pieces)
    BY <2>1, <2>2
  <2>6. \A s : Encodes(s, Shown, offset - 1)' <=> Encodes(s, Shown, offset - 1)
    BY <2>1, <2>2, <2>3 DEF Encodes
  <2>7. PartsBehind' <=> PartsBehind
    BY <2>1 DEF PartsBehind
  <2> QED
    BY <2>1, <2>2, <2>3, <2>4, <2>5, <2>6, <2>7 DEF CoverInv
<1> QED
  BY <1>1, <1>2, <1>3, StepIs

\* The inductive invariant of encoding together with what the ids spell.
THEOREM CoverHolds == Spec => [](EncodingInv /\ CoverInv)
<1>1. Init => CoverInv
  BY DEF Init, E!Init, B!Init, CoverInv, PartsBehind
<1>2. EncodingInv /\ CoverInv /\ [Next]_vars => CoverInv'
  BY CoverStays DEF EncodingInv
<1> QED
  BY <1>1, <1>2, EncodingHolds, PTL DEF Spec

\* The tokens' strings behind the bos, joined, are the symbols of the text up to where it
\* was encoded, in the end of all of it, markers as they stand, for every vocabulary and
\* text and whatever was cut and merged; a call that failed gives no ids
\* (tokenizer.c:355-404, 576-672).
THEOREM TextCovered == Spec => []IdsCoverText
<1>1. ASSUME EncodingInv, CoverInv PROVE IdsCoverText
  <2>1. ASSUME enc_pc \in {"encode", "done"}
        PROVE  /\ addBos => token_ids # << >> /\ Head(token_ids) = file.bos
               /\ [n \in 1 .. Len(token_ids) - (IF addBos THEN 1 ELSE 0) |->
                     file.tokens[token_ids[IF addBos THEN n + 1 ELSE n] + 1]] \in {Strings(t) :
                       t \in {u \in Seq(TokenIds) : Spelling(u) = SubSeq(Shown, 1, offset - 1)}}
    <3>1. seg_pc = "idle" /\ VInv
      BY <1>1, <2>1 DEF EncodingInv, PlacesInv
    <3>2. PICK t \in Seq(TokenIds) :
            token_ids = Lead \o t /\ Spelling(t) = SubSeq(Shown, 1, offset - 1)
      BY <1>1, <2>1, <3>1 DEF CoverInv, Encodes
    <3>3. Lead \in Seq(TokenIds) /\ Len(t) \in Nat
      BY <1>1, <2>1, <3>1 DEF CoverInv, Encodes
    <3> DEFINE k == IF addBos THEN 1 ELSE 0
    <3>4. k \in {0, 1} /\ Len(Lead) = k /\ (addBos => Lead[1] = file.bos)
      BY DEF Lead
    <3>5. /\ Len(token_ids) = Len(Lead) + Len(t)
          /\ \A i \in 1 .. Len(Lead) + Len(t) :
               token_ids[i] = IF i <= Len(Lead) THEN Lead[i] ELSE t[i - Len(Lead)]
      BY <3>2, <3>3, ConcatProperties
    <3>6. Len(token_ids) - k = Len(t)
      BY <3>3, <3>4, <3>5
    <3>7. ASSUME NEW n \in 1 .. Len(t)
          PROVE  token_ids[IF addBos THEN n + 1 ELSE n] = t[n]
      <4>1. (IF addBos THEN n + 1 ELSE n) = n + k
        OBVIOUS
      <4>2. n + k \in 1 .. Len(Lead) + Len(t) /\ ~(n + k <= Len(Lead)) /\ (n + k) - Len(Lead) = n
        BY <3>3, <3>4
      <4> QED
        BY <3>5, <4>1, <4>2
    <3>8. ASSUME addBos PROVE token_ids # << >> /\ Head(token_ids) = file.bos
      <4>1. k = 1 /\ 1 \in 1 .. Len(Lead) + Len(t) /\ Len(token_ids) >= 1
        BY <3>3, <3>4, <3>5, <3>8
      <4>2. token_ids[1] = file.bos
        BY <3>4, <3>5, <3>8, <4>1
      <4>3. token_ids \in Seq(TokenIds)
        BY <3>2, <3>3, ConcatProperties
      <4> QED
        BY <4>1, <4>2, <4>3
    <3>9. [n \in 1 .. Len(token_ids) - k |->
             file.tokens[token_ids[IF addBos THEN n + 1 ELSE n] + 1]] = Strings(t)
      BY <3>6, <3>7 DEF Strings, Text
    <3> QED
      BY <3>2, <3>8, <3>9
  <2>2. enc_pc \in {"encode", "done"} =>
          /\ addBos => token_ids # << >> /\ Head(token_ids) = file.bos
          /\ FlattenSeq([n \in 1 .. Len(token_ids) - (IF addBos THEN 1 ELSE 0) |->
                           file.tokens[token_ids[IF addBos THEN n + 1 ELSE n] + 1]])
               = [p \in 1 .. offset - 1 |-> SignAt(p)]
    <3>1. enc_pc \in {"encode", "done"} =>
            SubSeq(Shown, 1, offset - 1) = [p \in 1 .. offset - 1 |-> SignAt(p)]
      <4>1. offset \in 1 .. Len(text) + 1 /\ Len(text) \in Nat /\ Shown \in Seq(Signs)
        BY <1>1, TextTypes, ShownType DEF EncodingInv, PlacesInv
      <4>2. \A p \in 1 .. offset - 1 : p \in 1 .. Len(text) /\ Shown[p] = SignAt(p)
        BY <4>1 DEF Shown
      <4>3. SubSeq(Shown, 1, offset - 1) = [p \in 1 .. offset - 1 |-> Shown[p]]
        BY <4>1, PrefixIs, ShownType, <1>1 DEF EncodingInv
      <4> QED
        BY <4>2, <4>3
    <3> QED
      BY <2>1, <3>1 DEF Spelling
  <2>3. enc_pc = "done" => offset = Len(text) + 1
    BY <1>1 DEF EncodingInv, PlacesInv
  <2>4. enc_pc \in {"failed", "no_segment"} => token_ids = << >>
    BY <1>1 DEF EncodingInv, PlacesInv, Resting
  <2> QED
    BY <2>2, <2>3, <2>4 DEF IdsCoverText
<1> QED
  BY <1>1, CoverHolds, PTL
----------------------------------------------------------------------------
\* What sweeping over a sequence has come to, token after token.
SweepRuns(o, p, m) ==
  /\ o \in [0 .. Len(p) -> Seq(Nat)] /\ o[0] = << >>
  /\ \A k \in 1 .. Len(p) : o[k] = B!Joined(o[k - 1], p[k], m)

\* One token more is one token more, or the last one merged.
LEMMA JoinedIs ==
  ASSUME NEW m \in Merge, NEW out \in Seq(Nat), NEW id \in Nat
  PROVE  /\ B!Joined(out, id, m) \in Seq(Nat)
         /\ (out = << >> \/ out[Len(out)] # m.left \/ id # m.right) => B!Joined(out, id, m) = Append(out, id)
         /\ (out # << >> /\ out[Len(out)] = m.left /\ id = m.right)
              => B!Joined(out, id, m) = Append(SubSeq(out, 1, Len(out) - 1), m.merged)
<1>1. m.merged \in Nat
  BY DEF Merge
<1>2. ASSUME out # << >>
      PROVE  SubSeq(out, 1, Len(out) - 1) \in Seq(Nat)
  <2>1. Len(out) \in Nat /\ \A k \in 1 .. Len(out) - 1 : out[k] \in Nat
    BY <1>2
  <2> QED
    BY <2>1, SubSeqProperties
<1>3. Append(out, id) \in Seq(Nat)
  BY AppendProperties
<1>4. out # << >> => Append(SubSeq(out, 1, Len(out) - 1), m.merged) \in Seq(Nat)
  BY <1>1, <1>2, AppendProperties
<1> QED
  BY <1>3, <1>4 DEF B!Joined, B!Last, B!Front

LEMMA SweepTrace ==
  ASSUME NEW p \in Seq(Nat), NEW m \in Merge
  PROVE  \E o : SweepRuns(o, p, m) /\ B!Sweep(p, m) = o[Len(p)]
<1> DEFINE n == Len(p)
           Z == Seq(Nat)
           b == << >>
           g == [q \in (1 .. n) \X Z |-> B!Joined(q[2], p[q[1]], m)]
           Iter(f) == f = [S \in SUBSET DOMAIN p |->
                             IF S = {} THEN b ELSE B!Joined(f[S \ {Max(S)}], p[Max(S)], m)]
           c == CHOOSE f : Iter(f)
<1>1. n \in Nat /\ DOMAIN p = 1 .. n /\ b \in Z /\ \A k \in 1 .. n : p[k] \in Nat
  OBVIOUS
<1>2. \A k \in 1 .. n, v \in Z : B!Joined(v, p[k], m) \in Z
  BY <1>1, JoinedIs
<1>3. /\ g \in [(1 .. n) \X Z -> Z]
      /\ \A k \in 1 .. n, v \in Z : g[<<k, v>>] = B!Joined(v, p[k], m)
  BY <1>2
<1> HIDE DEF n, g, Z, b
<1>4. \A S \in SUBSET (1 .. n) : S # {} => Max(S) \in 1 .. n
  BY <1>1, MaxUpTo
<1>5. PICK f \in [SUBSET (1 .. n) -> Z] : Folds(n, b, g, f)
  BY <1>1, <1>3, FoldExists
<1>6. Iter(f)
  <2>1. ASSUME NEW S \in SUBSET (1 .. n)
        PROVE  (IF S = {} THEN b ELSE g[<<Max(S), f[S \ {Max(S)}]>>])
                 = IF S = {} THEN b ELSE B!Joined(f[S \ {Max(S)}], p[Max(S)], m)
    <3>1. S # {} => Max(S) \in 1 .. n /\ f[S \ {Max(S)}] \in Z
      BY <1>4, <1>5
    <3> QED
      BY <1>3, <3>1
  <2>2. f = [S \in SUBSET (1 .. n) |-> IF S = {} THEN b ELSE g[<<Max(S), f[S \ {Max(S)}]>>]]
    BY <1>5 DEF Folds
  <2> QED
    BY <1>1, <2>1, <2>2
<1>7. Iter(c)
  BY <1>6
<1> HIDE DEF c
<1>8. c[{}] = b
  BY <1>1, <1>7
<1>9. ASSUME NEW S \in SUBSET (1 .. n), S # {}, c[S \ {Max(S)}] \in Z
      PROVE  c[S] = g[<<Max(S), c[S \ {Max(S)}]>>]
  <2>1. c[S] = B!Joined(c[S \ {Max(S)}], p[Max(S)], m)
    BY <1>1, <1>7, <1>9
  <2> QED
    BY <1>3, <1>4, <1>9, <2>1
<1>10. Traced(n, Z, b, g, c)
  <2>1. \A S \in SUBSET (1 .. n) : S # {} /\ c[S \ {Max(S)}] \in Z =>
          c[S] = g[<<Max(S), c[S \ {Max(S)}]>>]
    BY <1>9
  <2>2. FoldsInto(n, Z, b, g, c)
    BY <1>8, <2>1 DEF FoldsInto
  <2>3. n \in Nat /\ b \in Z /\ g \in [(1 .. n) \X Z -> Z]
    BY <1>1, <1>3
  <2> QED
    BY <2>2, <2>3, FoldRuns, Zenon
<1>11. B!Sweep(p, m) = c[1 .. n]
  <2>1. B!Sweep(p, m) = c[DOMAIN p]
    BY DEF B!Sweep, B!FoldLeft, B!MapThenFoldSet, B!Max, Max, c, b
  <2> QED
    BY <1>1, <2>1
<1> DEFINE h == [k \in 0 .. n |-> c[1 .. k]]
<1>12. h \in [0 .. n -> Z] /\ h[0] = b /\ h[n] = c[1 .. n]
  BY <1>1, <1>10 DEF Traced
<1>13. ASSUME NEW k \in 1 .. n PROVE h[k] = B!Joined(h[k - 1], p[k], m)
  <2>1. k \in 0 .. n /\ k - 1 \in 0 .. n
    BY <1>1
  <2> QED
    BY <1>3, <1>10, <2>1 DEF Traced
<1> HIDE DEF h
<1>14. SweepRuns(h, p, m)
  BY <1>12, <1>13 DEF SweepRuns, n, Z, b
<1> QED
  BY <1>11, <1>12, <1>14 DEF n

\* The merges' traces, one merge after the other.
MergeRuns(t, p) ==
  /\ t \in [0 .. Len(merges) -> Seq(Nat)] /\ t[0] = p
  /\ \A k \in 1 .. Len(merges) : t[k] = B!Sweep(t[k - 1], merges[k])

LEMMA SweepTyped ==
  ASSUME NEW p \in Seq(Nat), NEW m \in Merge
  PROVE  B!Sweep(p, m) \in Seq(Nat)
<1>1. PICK o : SweepRuns(o, p, m) /\ B!Sweep(p, m) = o[Len(p)]
  BY SweepTrace
<1>2. Len(p) \in 0 .. Len(p)
  OBVIOUS
<1> QED
  BY <1>1, <1>2 DEF SweepRuns

LEMMA MergeTrace ==
  ASSUME NEW p \in Seq(Nat), merges \in Seq(Merge)
  PROVE  \E t : MergeRuns(t, p) /\ B!Encoded(p) = t[Len(merges)]
<1> DEFINE n == Len(merges)
           Z == Seq(Nat)
           b == p
           g == [q \in (1 .. n) \X Z |-> B!Sweep(q[2], merges[q[1]])]
           Iter(f) == f = [S \in SUBSET DOMAIN merges |->
                             IF S = {} THEN b ELSE B!Sweep(f[S \ {Max(S)}], merges[Max(S)])]
           c == CHOOSE f : Iter(f)
<1>1. n \in Nat /\ DOMAIN merges = 1 .. n /\ b \in Z /\ \A k \in 1 .. n : merges[k] \in Merge
  OBVIOUS
<1>2. \A k \in 1 .. n, v \in Z : B!Sweep(v, merges[k]) \in Z
  BY <1>1, SweepTyped
<1>3. /\ g \in [(1 .. n) \X Z -> Z]
      /\ \A k \in 1 .. n, v \in Z : g[<<k, v>>] = B!Sweep(v, merges[k])
  BY <1>2
<1> HIDE DEF n, g, Z, b
<1>4. \A S \in SUBSET (1 .. n) : S # {} => Max(S) \in 1 .. n
  BY <1>1, MaxUpTo
<1>5. PICK f \in [SUBSET (1 .. n) -> Z] : Folds(n, b, g, f)
  BY <1>1, <1>3, FoldExists
<1>6. Iter(f)
  <2>1. ASSUME NEW S \in SUBSET (1 .. n)
        PROVE  (IF S = {} THEN b ELSE g[<<Max(S), f[S \ {Max(S)}]>>])
                 = IF S = {} THEN b ELSE B!Sweep(f[S \ {Max(S)}], merges[Max(S)])
    <3>1. S # {} => Max(S) \in 1 .. n /\ f[S \ {Max(S)}] \in Z
      BY <1>4, <1>5
    <3> QED
      BY <1>3, <3>1
  <2>2. f = [S \in SUBSET (1 .. n) |-> IF S = {} THEN b ELSE g[<<Max(S), f[S \ {Max(S)}]>>]]
    BY <1>5 DEF Folds
  <2> QED
    BY <1>1, <2>1, <2>2
<1>7. Iter(c)
  BY <1>6
<1> HIDE DEF c
<1>8. c[{}] = b
  BY <1>1, <1>7
<1>9. ASSUME NEW S \in SUBSET (1 .. n), S # {}, c[S \ {Max(S)}] \in Z
      PROVE  c[S] = g[<<Max(S), c[S \ {Max(S)}]>>]
  <2>1. c[S] = B!Sweep(c[S \ {Max(S)}], merges[Max(S)])
    BY <1>1, <1>7, <1>9
  <2> QED
    BY <1>3, <1>4, <1>9, <2>1
<1>10. Traced(n, Z, b, g, c)
  <2>1. \A S \in SUBSET (1 .. n) : S # {} /\ c[S \ {Max(S)}] \in Z =>
          c[S] = g[<<Max(S), c[S \ {Max(S)}]>>]
    BY <1>9
  <2>2. FoldsInto(n, Z, b, g, c)
    BY <1>8, <2>1 DEF FoldsInto
  <2>3. n \in Nat /\ b \in Z /\ g \in [(1 .. n) \X Z -> Z]
    BY <1>1, <1>3
  <2> QED
    BY <2>2, <2>3, FoldRuns, Zenon
<1>11. B!Encoded(p) = c[1 .. n]
  <2>1. B!Encoded(p) = c[DOMAIN merges]
    BY DEF B!Encoded, B!FoldLeft, B!MapThenFoldSet, B!Max, Max, c, b
  <2> QED
    BY <1>1, <2>1
<1> DEFINE h == [k \in 0 .. n |-> c[1 .. k]]
<1>12. h \in [0 .. n -> Z] /\ h[0] = b /\ h[n] = c[1 .. n]
  BY <1>1, <1>10 DEF Traced
<1>13. ASSUME NEW k \in 1 .. n PROVE h[k] = B!Sweep(h[k - 1], merges[k])
  <2>1. k \in 0 .. n /\ k - 1 \in 0 .. n
    BY <1>1
  <2> QED
    BY <1>3, <1>10, <2>1 DEF Traced
<1> HIDE DEF h
<1>14. MergeRuns(h, p)
  BY <1>12, <1>13 DEF MergeRuns, n, Z, b
<1> QED
  BY <1>11, <1>12, <1>14 DEF n

\* A sequence without the pair, up to some place, is swept over unchanged up to there.
Without(p, m, j) == \A i \in 1 .. j - 1 : p[i] # m.left \/ p[i + 1] # m.right

LEMMA PrefixStays ==
  ASSUME NEW p \in Seq(Nat), NEW m \in Merge, NEW o, SweepRuns(o, p, m),
         NEW j \in 0 .. Len(p), Without(p, m, j)
  PROVE  \A k \in 0 .. j : o[k] = SubSeq(p, 1, k)
<1> DEFINE T == {k \in Nat : k <= j => o[k] = SubSeq(p, 1, k)}
<1>1. j \in Nat /\ Len(p) \in Nat /\ j <= Len(p)
  OBVIOUS
<1>2. 0 \in T
  <2>1. 0 \in Int /\ 1 \in Int /\ 0 < 1
    OBVIOUS
  <2>2. SubSeq(p, 1, 0) = << >>
    BY <2>1, SubSeqEmpty
  <2>3. o[0] = << >>
    BY DEF SweepRuns
  <2> QED
    BY <2>2, <2>3
<1>3. ASSUME NEW k \in Nat, k \in T PROVE k + 1 \in T
  <2> SUFFICES ASSUME k + 1 <= j PROVE o[k + 1] = SubSeq(p, 1, k + 1)
    OBVIOUS
  <2>1. o[k] = SubSeq(p, 1, k)
    BY <1>1, <1>3
  <2> DEFINE q == SubSeq(p, 1, k)  id == p[k + 1]
  <2>2. /\ k + 1 \in 1 .. Len(p) /\ (k + 1) - 1 = k /\ 1 \in 1 .. Len(p)
        /\ k + 1 \in 1 .. Len(p)
    BY <1>1
  <2>3. o[k + 1] = B!Joined(q, id, m)
    BY <2>1, <2>2 DEF SweepRuns
  <2>4. id \in Nat
    BY <2>2
  <2>5. q \in Seq(Nat) /\ Len(q) = k /\ \A i \in 1 .. k : q[i] = p[i]
    <3>1. k \in 0 .. Len(p)
      BY <2>2
    <3> QED
      BY <3>1, PartIs
  <2>6. q = << >> \/ q[Len(q)] # m.left \/ id # m.right
    <3>1. CASE k = 0
      BY <2>5, <3>1, EmptySeq
    <3>2. CASE k # 0
      <4>1. k \in 1 .. j - 1 /\ k \in 1 .. k
        BY <1>1, <3>2
      <4> QED
        BY <2>5, <4>1 DEF Without
    <3> QED
      BY <3>1, <3>2
  <2> HIDE DEF q, id
  <2>7. o[k + 1] = Append(q, id)
    BY <2>3, <2>4, <2>5, <2>6, JoinedIs
  <2>8. SubSeq(p, 1, k + 1) = SubSeq(p, 1, (k + 1) - 1) \o <<p[k + 1]>>
    <3>1. 1 \in 1 .. Len(p) /\ k + 1 \in 1 .. Len(p)
      BY <2>2
    <3> QED
      BY <3>1, SubSeqRecursiveSecond
  <2>9. Append(q, id) = q \o <<id>>
    BY <2>4, <2>5, AppendIsConcat
  <2> QED
    BY <2>2, <2>7, <2>8, <2>9 DEF q, id
<1>4. Nat \subseteq T
  <2> HIDE DEF T
  <2> QED
    BY <1>2, <1>3, NatSetInduction
<1> QED
  BY <1>1, <1>4

\* A sequence without the pair is swept over unchanged.
LEMMA WithoutStays ==
  ASSUME NEW p \in Seq(Nat), NEW m \in Merge, Without(p, m, Len(p))
  PROVE  B!Sweep(p, m) = p
<1>1. PICK o : SweepRuns(o, p, m) /\ B!Sweep(p, m) = o[Len(p)]
  BY SweepTrace
<1>2. Len(p) \in 0 .. Len(p)
  OBVIOUS
<1>3. o[Len(p)] = SubSeq(p, 1, Len(p))
  BY <1>1, <1>2, PrefixStays
<1> QED
  BY <1>1, <1>3, SubSeqFull

\* Where the merge that a sweep makes first has been made already, it comes to the same.
LEMMA SweepSame ==
  ASSUME NEW p \in Seq(Nat), NEW q \in Seq(Nat), NEW m \in Merge, NEW i \in 1 .. Len(p) - 1,
         Without(p, m, i), p[i] = m.left, p[i + 1] = m.right, m.merged \notin {m.left, m.right},
         Len(q) = Len(p) - 1, q[i] = m.merged,
         \A k \in 1 .. i - 1 : q[k] = p[k],
         \A k \in i + 1 .. Len(q) : q[k] = p[k + 1]
  PROVE  B!Sweep(p, m) = B!Sweep(q, m)
<1>1. PICK o : SweepRuns(o, p, m) /\ B!Sweep(p, m) = o[Len(p)]
  BY SweepTrace
<1>2. PICK u : SweepRuns(u, q, m) /\ B!Sweep(q, m) = u[Len(q)]
  BY SweepTrace
<1>3. /\ Len(p) \in Nat /\ i \in Nat /\ 1 <= i /\ i < Len(p)
      /\ Len(q) \in Nat /\ Len(q) = Len(p) - 1
  OBVIOUS
<1>4. i \in 0 .. Len(p) /\ i - 1 \in 0 .. i /\ i \in 0 .. i
  BY <1>3
<1>5. o[i] = SubSeq(p, 1, i)
  BY <1>1, <1>4, PrefixStays
<1>6. u[i - 1] = SubSeq(p, 1, i - 1)
  <2>1. i - 1 \in 0 .. Len(q) /\ i - 1 \in 0 .. i - 1
    BY <1>3
  <2>2. Without(q, m, i - 1)
    <3> SUFFICES ASSUME NEW k \in 1 .. (i - 1) - 1 PROVE q[k] # m.left \/ q[k + 1] # m.right
      BY DEF Without
    <3>1. k \in 1 .. i - 1 /\ k + 1 \in 1 .. i - 1
      BY <1>3
    <3> QED
      BY <3>1 DEF Without
  <2>3. u[i - 1] = SubSeq(q, 1, i - 1)
    BY <1>2, <2>1, <2>2, PrefixStays
  <2>4. SubSeq(q, 1, i - 1) = SubSeq(p, 1, i - 1)
    <3> DEFINE a == SubSeq(q, 1, i - 1)  b == SubSeq(p, 1, i - 1)
    <3>1. i - 1 \in 0 .. Len(q) /\ i - 1 \in 0 .. Len(p)
      BY <1>3
    <3>2. a \in Seq(Nat) /\ Len(a) = i - 1 /\ \A k \in 1 .. i - 1 : a[k] = q[k]
      BY <3>1, PartIs
    <3>3. b \in Seq(Nat) /\ Len(b) = i - 1 /\ \A k \in 1 .. i - 1 : b[k] = p[k]
      BY <3>1, PartIs
    <3> HIDE DEF a, b
    <3>4. \A k \in 1 .. i - 1 : a[k] = b[k]
      BY <3>2, <3>3
    <3>6. a = b
      BY <3>2, <3>3, <3>4, SeqEqual
    <3> QED
      BY <3>6 DEF a, b
  <2> QED
    BY <2>3, <2>4
<1> DEFINE w == SubSeq(p, 1, i)  v == SubSeq(p, 1, i - 1)
<1>7. /\ w \in Seq(Nat) /\ Len(w) = i /\ w[i] = p[i] /\ w # << >> /\ v \in Seq(Nat)
      /\ SubSeq(w, 1, i - 1) = v
  <2>1. i \in 0 .. Len(p) /\ i - 1 \in 0 .. Len(p)
    BY <1>3
  <2>2. w \in Seq(Nat) /\ Len(w) = i /\ \A k \in 1 .. i : w[k] = p[k]
    BY <2>1, PartIs
  <2>3. v \in Seq(Nat) /\ Len(v) = i - 1 /\ \A k \in 1 .. i - 1 : v[k] = p[k]
    BY <2>1, PartIs
  <2> DEFINE x == SubSeq(w, 1, i - 1)
  <2> HIDE DEF w, v
  <2>4. i \in 1 .. i /\ i - 1 \in 0 .. Len(w) /\ \A k \in 1 .. i - 1 : k \in 1 .. i
    BY <1>3, <2>2
  <2>5. x \in Seq(Nat) /\ Len(x) = i - 1 /\ \A k \in 1 .. i - 1 : x[k] = w[k]
    BY <2>2, <2>4, PartIs
  <2> HIDE DEF x
  <2>6. \A k \in 1 .. i - 1 : x[k] = v[k]
    BY <2>2, <2>3, <2>4, <2>5
  <2>7. x = v
    BY <2>3, <2>5, <2>6, SeqEqual
  <2>8. w[i] = p[i]
    BY <2>2, <2>4
  <2>9. Len(w) # 0
    BY <1>3, <2>2
  <2>10. w # << >>
    BY <2>9
  <2> QED
    BY <2>2, <2>3, <2>7, <2>8, <2>10 DEF x
<1> HIDE DEF w, v
<1>8. m.left \in Nat /\ m.right \in Nat /\ m.merged \in Nat
  BY DEF Merge
<1>9. o[i + 1] = Append(v, m.merged)
  <2>1. i + 1 \in 1 .. Len(p) /\ (i + 1) - 1 = i
    BY ONLY <1>3
  <2>2. o[i + 1] = B!Joined(w, p[i + 1], m)
    BY <1>1, <1>5, <2>1 DEF SweepRuns, w
  <2>3. B!Joined(w, m.right, m) = Append(SubSeq(w, 1, Len(w) - 1), m.merged)
    <3>1. w # << >> /\ w[Len(w)] = m.left
      BY <1>7
    <3> QED
      BY <1>7, <1>8, <3>1, JoinedIs
  <2> QED
    BY <1>7, <2>2, <2>3
<1>10. u[i] = Append(v, m.merged)
  <2>1. i \in 1 .. Len(q)
    BY ONLY <1>3
  <2>2. u[i] = B!Joined(v, m.merged, m)
    BY <1>2, <1>6, <2>1 DEF SweepRuns, v
  <2>3. m.merged # m.right
    OBVIOUS
  <2>4. B!Joined(v, m.merged, m) = Append(v, m.merged)
    BY <1>7, <1>8, <2>3, JoinedIs
  <2> QED
    BY <2>2, <2>4
<1> DEFINE T == {k \in Nat : i + k <= Len(q) => o[(i + k) + 1] = u[i + k]}
<1>11. Nat \subseteq T
  <2>1. 0 \in T
    <3>1. i + 0 = i
      BY ONLY <1>3
    <3> QED
      BY <1>9, <1>10, <3>1
  <2>2. ASSUME NEW k \in Nat, k \in T PROVE k + 1 \in T
    <3> SUFFICES ASSUME i + (k + 1) <= Len(q) PROVE o[(i + (k + 1)) + 1] = u[i + (k + 1)]
      OBVIOUS
    <3> DEFINE j == i + (k + 1)
    <3>1. k \in Nat /\ i + k <= Len(q) /\ j - 1 = i + k /\ (j + 1) - 1 = (i + k) + 1
      BY <1>3
    <3>2. j \in i + 1 .. Len(q) /\ j \in 1 .. Len(q) /\ j + 1 \in 1 .. Len(p)
      BY <1>3
    <3>3. o[(i + k) + 1] = u[i + k]
      BY <2>2, <3>1
    <3> HIDE DEF j, T
    <3>4. o[j + 1] = B!Joined(o[(i + k) + 1], p[j + 1], m)
      BY <1>1, <3>1, <3>2 DEF SweepRuns
    <3>5. u[j] = B!Joined(u[i + k], q[j], m)
      BY <1>2, <3>1, <3>2 DEF SweepRuns
    <3>6. q[j] = p[j + 1]
      BY <3>2
    <3>7. o[j + 1] = u[j]
      BY <3>3, <3>4, <3>5, <3>6
    <3> QED
      BY <3>7 DEF j
  <2> HIDE DEF T
  <2> QED
    BY <2>1, <2>2, NatSetInduction
<1>12. o[Len(p)] = u[Len(q)]
  <2> HIDE DEF T
  <2> DEFINE k == Len(q) - i
  <2>1. k \in Nat /\ i + k = Len(q) /\ (i + k) + 1 = Len(p)
    BY <1>3
  <2> HIDE DEF k
  <2>2. k \in T
    BY <1>11, <2>1
  <2>3. i + k <= Len(q)
    BY <1>3, <2>1
  <2>4. o[(i + k) + 1] = u[i + k]
    BY <2>2, <2>3 DEF T
  <2> QED
    BY <2>1, <2>4
<1> QED
  BY <1>1, <1>2, <1>12

LEMMA OfNats ==
  ASSUME NEW S, S \subseteq Nat, NEW p \in Seq(S)
  PROVE  p \in Seq(Nat)
<1>1. Len(p) \in Nat /\ p \in [1 .. Len(p) -> S]
  BY LenProperties
<1>2. p \in [1 .. Len(p) -> Nat]
  BY <1>1
<1> QED
  BY <1>1, <1>2, SeqDef

\* A pair that is not mergeable yet is not there, and merging the best one makes none of
\* a lower rank: the order in which a sweep would have come to it does not matter.
LEMMA MergeKeepsEncoding ==
  ASSUME VInv, pc = "ready", B!Trained, pieces \in Seq(TokenIds), merges' = merges,
         NEW i \in B!Mergeable, B!Merge(i)
  PROVE  B!Encoded(pieces)' = B!Encoded(pieces)
<1> DEFINE p == pieces  q == pieces'  n == Len(merges)
           K == B!Rank(i) + 1
           m == merges[K]
<1>1. merges \in Seq(Merge) /\ n \in Nat
  BY DEF VInv, MergesInv
<1>2. /\ i \in 1 .. Len(p) - 1 /\ <<p[i], p[i + 1]>> \in DOMAIN pairs
      /\ \A j \in B!Mergeable : B!Rank(i) < B!Rank(j) \/ (B!Rank(i) = B!Rank(j) /\ i <= j)
      /\ q = SubSeq(p, 1, i - 1) \o <<m.merged>> \o SubSeq(p, i + 2, Len(p))
  BY DEF B!Merge, B!IsBest, B!Mergeable
<1>3. /\ K \in 1 .. n /\ m \in Merge /\ p[i] = m.left /\ p[i + 1] = m.right
  <2>1. /\ pairs[<<p[i], p[i + 1]>>] \in 0 .. n - 1
        /\ <<p[i], p[i + 1]>> = <<merges[pairs[<<p[i], p[i + 1]>>] + 1].left,
                                merges[pairs[<<p[i], p[i + 1]>>] + 1].right>>
    BY <1>2 DEF VInv, PairsInv
  <2>2. K \in 1 .. n
    BY <1>1, <2>1 DEF B!Rank
  <2> QED
    BY <1>1, <2>1, <2>2 DEF B!Rank
<1>4. /\ p \in Seq(Nat) /\ Len(p) \in Nat /\ q \in Seq(Nat) /\ Len(q) = Len(p) - 1 /\ q[i] = m.merged
      /\ \A k \in 1 .. i - 1 : q[k] = p[k]
      /\ \A k \in i + 1 .. Len(q) : q[k] = p[k + 1]
  <2> DEFINE l == SubSeq(p, 1, i - 1)  r == SubSeq(p, i + 2, Len(p))  c == <<m.merged>>  d == l \o c
  <2>1. Len(p) \in Nat /\ p \in Seq(Nat)
    <3>1. TokenIds \subseteq Nat
      BY FileTypes DEF TokenIds, VInv
    <3> HIDE DEF q, p
    <3>2. pieces \in Seq(TokenIds)
      OBVIOUS
    <3>3. pieces \in Seq(Nat)
      BY <3>1, <3>2, OfNats, Zenon
    <3> QED
      BY <3>3 DEF p
  <2>2. i \in Nat /\ 1 <= i /\ i + 1 <= Len(p) /\ 1 \in Int /\ i - 1 \in Int /\ i + 2 \in Int
    BY <1>2, <2>1
  <2>3. /\ \A k \in 1 .. i - 1 : p[k] \in Nat
        /\ \A k \in i + 2 .. Len(p) : p[k] \in Nat
    BY <2>1, <2>2
  <2>4. /\ l \in Seq(Nat) /\ Len(l) = i - 1 /\ \A k \in 1 .. i - 1 : l[k] = p[k]
    <3>1. /\ l \in Seq(Nat) /\ Len(l) = (IF 1 <= i - 1 THEN (i - 1) - 1 + 1 ELSE 0)
          /\ \A k \in 1 .. (i - 1) - 1 + 1 : l[k] = p[1 + k - 1]
      BY <2>2, <2>3, SubSeqProperties
    <3> HIDE DEF l
    <3>2. ASSUME NEW k \in 1 .. i - 1 PROVE l[k] = p[k]
      <4>1. k \in 1 .. (i - 1) - 1 + 1 /\ 1 + k - 1 = k
        BY <2>2
      <4> QED
        BY <3>1, <4>1
    <3> QED
      BY <2>2, <3>1, <3>2
  <2>5. /\ r \in Seq(Nat) /\ Len(r) = Len(p) - i - 1
        /\ \A k \in 1 .. Len(p) - i - 1 : r[k] = p[i + 1 + k]
    <3>1. /\ r \in Seq(Nat) /\ Len(r) = (IF i + 2 <= Len(p) THEN Len(p) - (i + 2) + 1 ELSE 0)
          /\ \A k \in 1 .. Len(p) - (i + 2) + 1 : r[k] = p[i + 2 + k - 1]
      BY <2>1, <2>2, <2>3, SubSeqProperties
    <3> HIDE DEF r
    <3>2. ASSUME NEW k \in 1 .. Len(p) - i - 1 PROVE r[k] = p[i + 1 + k]
      <4>1. k \in 1 .. Len(p) - (i + 2) + 1 /\ i + 2 + k - 1 = i + 1 + k
        BY <2>1, <2>2
      <4> QED
        BY <3>1, <4>1
    <3> QED
      BY <2>1, <2>2, <3>1, <3>2
  <2>6. c \in Seq(Nat) /\ Len(c) = 1 /\ c[1] = m.merged
    BY <1>3 DEF Merge
  <2> HIDE DEF l, r, c
  <2>7. /\ d \in Seq(Nat) /\ Len(d) = Len(l) + Len(c)
        /\ \A k \in 1 .. Len(l) + Len(c) : d[k] = IF k <= Len(l) THEN l[k] ELSE c[k - Len(l)]
    BY <2>4, <2>6, ConcatProperties
  <2>8. q = d \o r
    BY <1>2 DEF d, l, c, r
  <2> HIDE DEF d, q
  <2>9. /\ q \in Seq(Nat) /\ Len(q) = Len(d) + Len(r)
        /\ \A k \in 1 .. Len(d) + Len(r) : q[k] = IF k <= Len(d) THEN d[k] ELSE r[k - Len(d)]
    <3>1. d \in Seq(Nat) /\ r \in Seq(Nat)
      BY <2>5, <2>7
    <3>2. /\ d \o r \in Seq(Nat) /\ Len(d \o r) = Len(d) + Len(r)
          /\ \A k \in 1 .. Len(d) + Len(r) :
               (d \o r)[k] = IF k <= Len(d) THEN d[k] ELSE r[k - Len(d)]
      BY <3>1, ConcatProperties
    <3> QED
      BY <2>8, <3>2
  <2>10. Len(d) = i /\ Len(q) = Len(p) - 1
    BY <2>1, <2>2, <2>4, <2>5, <2>6, <2>7, <2>9
  <2>11. q[i] = m.merged
    <3>1. i \in 1 .. Len(d) + Len(r) /\ i \in 1 .. Len(l) + Len(c) /\ ~ (i <= Len(l)) /\ i - Len(l) = 1
      BY <2>1, <2>2, <2>4, <2>5, <2>6, <2>10
    <3> QED
      BY <2>6, <2>7, <2>9, <2>10, <3>1
  <2>12. ASSUME NEW k \in 1 .. i - 1 PROVE q[k] = p[k]
    <3>1. /\ k \in 1 .. Len(d) + Len(r) /\ k <= Len(d) /\ k \in 1 .. Len(l) + Len(c)
          /\ k <= Len(l)
      BY <2>1, <2>2, <2>4, <2>5, <2>6, <2>10
    <3> QED
      BY <2>4, <2>7, <2>9, <3>1
  <2>13. ASSUME NEW k \in i + 1 .. Len(q) PROVE q[k] = p[k + 1]
    <3>1. /\ k \in 1 .. Len(d) + Len(r) /\ ~ (k <= Len(d)) /\ k - Len(d) \in 1 .. Len(p) - i - 1
          /\ i + 1 + (k - Len(d)) = k + 1
      BY <2>1, <2>2, <2>5, <2>10
    <3> QED
      BY <2>5, <2>9, <3>1
  <2> QED
    BY <2>1, <2>9, <2>10, <2>11, <2>12, <2>13
<1>5. m.merged \notin {m.left, m.right}
  BY <1>1, <1>3 DEF B!Trained
<1>6. ASSUME NEW j \in 1 .. n, NEW k \in 1 .. Len(p) - 1,
             p[k] = merges[j].left, p[k + 1] = merges[j].right
      PROVE  K < j \/ (K = j /\ i <= k)
  <2>1. <<p[k], p[k + 1]>> \in DOMAIN pairs /\ pairs[<<p[k], p[k + 1]>>] = j - 1
    BY <1>6 DEF VInv, PairsInv
  <2>2. k \in B!Mergeable /\ B!Rank(k) = j - 1
    BY <2>1 DEF B!Mergeable, B!Rank
  <2>3. B!Rank(i) < j - 1 \/ (B!Rank(i) = j - 1 /\ i <= k)
    BY <1>2, <2>2
  <2> DEFINE s == B!Rank(i)
  <2>4. s + 1 \in 1 .. n /\ s \in Int
    <3>1. s \in Int
      BY <1>2 DEF VInv, PairsInv, B!Rank
    <3> QED
      BY <1>3, <3>1
  <2> HIDE DEF s
  <2>5. s + 1 < j \/ (s + 1 = j /\ i <= k)
    BY <2>3, <2>4 DEF s
  <2> QED
    BY <2>5 DEF s
<1>16. i \in 1 .. Len(p) - 1
  BY <1>2
<1> HIDE DEF K, m, p, q
<1>17. i \in Nat /\ 1 <= i /\ i <= Len(p) - 1 /\ Len(p) \in Nat /\ Len(q) = Len(p) - 1
  <2>1. Len(p) \in Nat /\ Len(q) = Len(p) - 1
    BY <1>4
  <2> QED
    BY <1>16, <2>1
<1>7. ASSUME NEW j \in 1 .. n, j < K PROVE Without(p, merges[j], Len(p)) /\ Without(q, merges[j], Len(q))
  <2>1. Without(p, merges[j], Len(p))
    <3> SUFFICES ASSUME NEW k \in 1 .. Len(p) - 1, p[k] = merges[j].left, p[k + 1] = merges[j].right
                 PROVE  FALSE
      BY DEF Without
    <3>1. K < j \/ K = j
      BY <1>6
    <3> QED
      BY <1>1, <1>3, <1>7, <3>1
  <2>2. m.merged \notin {merges[j].left, merges[j].right}
    <3>1. m.merged \in {merges[j].left, merges[j].right} => K < j
      BY <1>3 DEF B!Trained, m
    <3> QED
      BY <1>1, <1>3, <1>7, <3>1
  <2>3. Without(q, merges[j], Len(q))
    <3> SUFFICES ASSUME NEW k \in 1 .. Len(q) - 1, q[k] = merges[j].left, q[k + 1] = merges[j].right
                 PROVE  FALSE
      BY DEF Without
    <3>1. k # i /\ k + 1 # i
      BY <1>4, <2>2
    <3>2. i \in Nat /\ 1 <= i /\ k \in Nat /\ 1 <= k /\ k <= Len(p) - 2
      BY <1>17
    <3>3. CASE k + 1 < i
      <4>1. k \in 1 .. i - 1 /\ k + 1 \in 1 .. i - 1 /\ k \in 1 .. Len(p) - 1
        BY <1>4, <3>2, <3>3
      <4>2. p[k] = merges[j].left /\ p[k + 1] = merges[j].right
        BY <1>4, <4>1
      <4> QED
        BY <2>1, <4>1, <4>2 DEF Without
    <3>4. CASE i < k
      <4>1. /\ k \in i + 1 .. Len(q) /\ k + 1 \in i + 1 .. Len(q) /\ k + 1 \in 1 .. Len(p) - 1
        BY <1>4, <3>2, <3>4
      <4>2. p[k + 1] = merges[j].left /\ p[(k + 1) + 1] = merges[j].right
        BY <1>4, <4>1
      <4> QED
        BY <2>1, <4>1, <4>2 DEF Without
    <3> QED
      BY <3>1, <3>2, <3>3, <3>4
  <2> QED
    BY <2>1, <2>3
<1>8. Without(p, m, i)
  <2> SUFFICES ASSUME NEW k \in 1 .. i - 1, p[k] = m.left, p[k + 1] = m.right PROVE FALSE
    BY DEF Without
  <2>1. k \in 1 .. Len(p) - 1
    <3>1. i \in Nat /\ 1 <= i /\ i <= Len(p) - 1
      BY <1>4, <1>16
    <3> QED
      BY <1>4, <3>1
  <2>2. K < K \/ i <= k
    BY <1>3, <1>6, <2>1 DEF m
  <2> QED
    BY <1>1, <1>2, <1>3, <1>4, <2>2
<1>9. B!Sweep(p, m) = B!Sweep(q, m)
  BY <1>2, <1>3, <1>4, <1>5, <1>8, SweepSame
<1>10. PICK t : MergeRuns(t, p) /\ B!Encoded(p) = t[n]
  BY <1>1, <1>4, MergeTrace
<1>11. PICK u : MergeRuns(u, q) /\ B!Encoded(q) = u[n]
  BY <1>1, <1>4, MergeTrace
<1>12. \A k \in Nat : k < K => t[k] = p /\ u[k] = q
  <2> DEFINE T == {k \in Nat : k < K => t[k] = p /\ u[k] = q}
  <2>1. 0 \in T
    BY <1>10, <1>11 DEF MergeRuns
  <2>2. ASSUME NEW k \in Nat, k \in T PROVE k + 1 \in T
    <3> SUFFICES ASSUME k + 1 < K PROVE t[k + 1] = p /\ u[k + 1] = q
      OBVIOUS
    <3>1. k < K /\ k + 1 \in 1 .. n /\ (k + 1) - 1 = k
      BY <1>1, <1>3
    <3>2. t[k] = p /\ u[k] = q
      BY <2>2, <3>1
    <3>3. t[k + 1] = B!Sweep(p, merges[k + 1]) /\ u[k + 1] = B!Sweep(q, merges[k + 1])
      BY <1>10, <1>11, <3>1, <3>2 DEF MergeRuns
    <3>4. merges[k + 1] \in Merge
      BY <1>1, <3>1
    <3>5. Without(p, merges[k + 1], Len(p)) /\ Without(q, merges[k + 1], Len(q))
      BY <1>7, <3>1
    <3> QED
      BY <1>4, <3>3, <3>4, <3>5, WithoutStays
  <2>3. Nat \subseteq T
    <3> HIDE DEF T
    <3> QED
      BY <2>1, <2>2, NatSetInduction
  <2> QED
    BY <2>3
<1>13. \A k \in Nat : K <= k /\ k <= n => t[k] = u[k]
  <2> DEFINE T == {k \in Nat : K <= k /\ k <= n => t[k] = u[k]}
  <2>1. 0 \in T
    BY <1>1, <1>3
  <2>2. ASSUME NEW k \in Nat, k \in T PROVE k + 1 \in T
    <3> SUFFICES ASSUME K <= k + 1, k + 1 <= n PROVE t[k + 1] = u[k + 1]
      OBVIOUS
    <3>1. k + 1 \in 1 .. n /\ (k + 1) - 1 = k /\ (k + 1 = K \/ K <= k) /\ k <= n
      BY <1>1, <1>3
    <3>2. t[k + 1] = B!Sweep(t[k], merges[k + 1]) /\ u[k + 1] = B!Sweep(u[k], merges[k + 1])
      BY <1>10, <1>11, <3>1 DEF MergeRuns
    <3>3. CASE k + 1 = K
      <4>1. t[k] = p /\ u[k] = q
        BY <1>1, <1>3, <1>12, <3>3
      <4> QED
        BY <1>9, <3>2, <3>3, <4>1 DEF m
    <3>4. CASE K <= k
      <4>1. t[k] = u[k]
        BY <2>2, <3>1, <3>4
      <4> QED
        BY <3>2, <4>1
    <3> QED
      BY <3>1, <3>3, <3>4
  <2>3. Nat \subseteq T
    <3> HIDE DEF T
    <3> QED
      BY <2>1, <2>2, NatSetInduction
  <2> QED
    BY <2>3
<1>14. B!Encoded(q) = B!Encoded(p)
  BY <1>1, <1>3, <1>10, <1>11, <1>13
<1>15. B!Encoded(pieces)' = B!Encoded(q)
  BY DEF B!Encoded, q
<1> QED
  BY <1>14, <1>15 DEF p

\* Where nothing can be merged the definition has nothing to do either.
LEMMA DoneStays ==
  ASSUME VInv, pc = "ready", pieces \in Seq(TokenIds), B!Mergeable = {}
  PROVE  B!Encoded(pieces) = pieces
<1> DEFINE p == pieces
           n == Len(merges)
<1>1. merges \in Seq(Merge) /\ n \in Nat
  BY DEF VInv, MergesInv
<1>2. p \in Seq(Nat)
  <2>1. TokenIds \subseteq Nat
    BY FileTypes DEF TokenIds, VInv
  <2>2. pieces \in Seq(TokenIds)
    OBVIOUS
  <2> QED
    BY <2>1, <2>2, OfNats, Zenon
<1>3. ASSUME NEW j \in 1 .. n PROVE Without(p, merges[j], Len(p))
  <2> SUFFICES ASSUME NEW k \in 1 .. Len(p) - 1, p[k] = merges[j].left, p[k + 1] = merges[j].right
               PROVE  FALSE
    BY DEF Without
  <2>1. <<p[k], p[k + 1]>> \in DOMAIN pairs
    BY DEF VInv, PairsInv
  <2> QED
    BY <2>1 DEF B!Mergeable
<1> HIDE DEF p
<1>4. PICK t : MergeRuns(t, p) /\ B!Encoded(p) = t[n]
  BY <1>1, <1>2, MergeTrace
<1> DEFINE T == {k \in Nat : k <= n => t[k] = p}
<1>5. 0 \in T
  BY <1>4 DEF MergeRuns
<1>6. ASSUME NEW k \in Nat, k \in T PROVE k + 1 \in T
  <2> SUFFICES ASSUME k + 1 <= n PROVE t[k + 1] = p
    OBVIOUS
  <2>1. k <= n /\ k + 1 \in 1 .. n /\ (k + 1) - 1 = k
    BY <1>1
  <2>2. t[k + 1] = B!Sweep(p, merges[k + 1])
    BY <1>4, <1>6, <2>1 DEF MergeRuns
  <2>3. merges[k + 1] \in Merge /\ Without(p, merges[k + 1], Len(p))
    BY <1>1, <1>3, <2>1
  <2> QED
    BY <1>2, <2>2, <2>3, WithoutStays
<1>7. Nat \subseteq T
  <2> HIDE DEF T
  <2> QED
    BY <1>5, <1>6, NatSetInduction
<1>8. t[n] = p
  BY <1>1, <1>7
<1> QED
  BY <1>4, <1>8 DEF p

\* Symbols are looked up one after the other, and merging them comes to what the
\* definition makes of them, all the time and in the end.
BpeInv ==
  /\ seg_pc = "symbols" => /\ Len(pieces) <= Len(segment) /\ Len(segment) \in Nat
                           /\ \A n \in 1 .. Len(pieces) : pieces[n] = ids[<<segment[n]>>]
  /\ seg_pc \in {"merge", "append"} => (B!Trained => B!Encoded(pieces) = B!Reference)
  /\ seg_pc = "append" => B!Mergeable = {}

\* Merging ends where nothing can be merged.
LEMMA WorkEnds ==
  ASSUME Works, seg_pc = "merge", seg_pc' = "append"
  PROVE  B!Mergeable = {}
BY DEF Works, B!Step, B!AddSymbol, B!SymbolsDone, B!MergesDone, B!AppendId, B!Merge, B!locals

\* The definition is about the segment and the tables alone.
LEMMA SameReference ==
  ASSUME ids' = ids, merges' = merges, segment' = segment
  PROVE  B!Trained' = B!Trained /\ B!Reference' = B!Reference
BY DEF B!Trained, B!Reference, B!Encoded

\* encode_segment does as the definition does.
LEMMA WorkMatches ==
  ASSUME VInv, PlacesInv, MarkersInv, SegmentInv, BpeInv, Works, UNCHANGED vocabulary
  PROVE  BpeInv'
<1>1. enc_pc = "segment" /\ seg_pc # "idle"
  BY WorkIs
<1>2. pc = "ready" /\ token_ids \in Seq(TokenIds) /\ pieces \in Seq(TokenIds)
  BY <1>1 DEF PlacesInv, MarkersInv, SegmentInv
<1>3. segment' = segment
  BY <1>2, WorkDoes
<1>4. ids' = ids /\ merges' = merges /\ pairs' = pairs
  BY DEF vocabulary
<1>5. B!Trained' = B!Trained /\ B!Reference' = B!Reference
  BY <1>3, <1>4, SameReference
<1>6. CASE /\ seg_pc = "symbols" /\ seg_pc' = "symbols"
           /\ Len(pieces) < Len(segment) /\ <<segment[Len(pieces) + 1]>> \in DOMAIN ids
           /\ pieces' = Append(pieces, ids[<<segment[Len(pieces) + 1]>>])
  <2> DEFINE x == ids[<<segment[Len(pieces) + 1]>>]
  <2>1. Len(segment) \in Nat /\ \A n \in 1 .. Len(pieces) : pieces[n] = ids[<<segment[n]>>]
    BY <1>6 DEF BpeInv
  <2>2. x \in TokenIds
    BY <1>6, IdsTyped
  <2>3. /\ Len(pieces') = Len(pieces) + 1 /\ pieces'[Len(pieces) + 1] = x
        /\ \A n \in 1 .. Len(pieces) : pieces'[n] = pieces[n]
    BY <1>2, <1>6, <2>2, AppendProperties
  <2>4. Len(pieces) \in Nat
    BY <1>2
  <2>5. ASSUME NEW n \in 1 .. Len(pieces) + 1 PROVE pieces'[n] = ids[<<segment[n]>>]
    <3>1. n = Len(pieces) + 1 \/ n \in 1 .. Len(pieces)
      BY <2>4
    <3> QED
      BY <2>1, <2>3, <3>1
  <2>6. Len(pieces) + 1 <= Len(segment)
    BY <1>6, <2>1, <2>4
  <2>7. \A n \in 1 .. Len(pieces') : pieces'[n] = ids'[<<segment'[n]>>]
    BY <1>3, <1>4, <2>3, <2>5
  <2> QED
    BY <1>3, <1>6, <2>1, <2>3, <2>6, <2>7 DEF BpeInv
<1>7. CASE /\ seg_pc = "symbols" /\ seg_pc' = "merge"
           /\ Len(pieces) = Len(segment) /\ pieces' = pieces
  <2>1. pieces = [n \in 1 .. Len(segment) |-> ids[<<segment[n]>>]]
    <3>1. \A n \in 1 .. Len(pieces) : pieces[n] = ids[<<segment[n]>>]
      BY <1>7 DEF BpeInv
    <3>2. DOMAIN pieces = 1 .. Len(pieces) /\ pieces = [n \in DOMAIN pieces |-> pieces[n]]
      BY <1>2
    <3> QED
      BY <1>7, <3>1, <3>2
  <2>2. B!Encoded(pieces) = B!Reference
    BY <2>1 DEF B!Reference
  <2>3. B!Encoded(pieces)' = B!Encoded(pieces)
    BY <1>4, <1>7 DEF B!Encoded
  <2> QED
    BY <1>5, <1>7, <2>2, <2>3 DEF BpeInv
<1>8. CASE seg_pc = "merge" /\ seg_pc' = "merge" /\ \E i \in B!Mergeable : B!Merge(i)
  <2>1. PICK i \in B!Mergeable : B!Merge(i)
    BY <1>8
  <2>2. B!Trained => B!Encoded(pieces) = B!Reference
    BY <1>8 DEF BpeInv
  <2>3. B!Trained => B!Encoded(pieces)' = B!Encoded(pieces)
    BY <1>2, <1>4, <2>1, MergeKeepsEncoding
  <2> QED
    BY <1>5, <1>8, <2>2, <2>3 DEF BpeInv
<1>9. CASE seg_pc = "merge" /\ seg_pc' = "append" /\ pieces' = pieces
  <2>1. B!Trained => B!Encoded(pieces) = B!Reference
    BY <1>9 DEF BpeInv
  <2>2. B!Mergeable = {}
    BY <1>9, WorkEnds
  <2>3. B!Encoded(pieces)' = B!Encoded(pieces) /\ B!Mergeable' = B!Mergeable
    BY <1>4, <1>9 DEF B!Encoded, B!Mergeable
  <2> QED
    BY <1>5, <1>9, <2>1, <2>2, <2>3 DEF BpeInv
<1>10. CASE seg_pc = "append" /\ seg_pc' = "append" /\ pieces' = pieces
  <2>1. (B!Trained => B!Encoded(pieces) = B!Reference) /\ B!Mergeable = {}
    BY <1>10 DEF BpeInv
  <2>2. B!Encoded(pieces)' = B!Encoded(pieces) /\ B!Mergeable' = B!Mergeable
    BY <1>4, <1>10 DEF B!Encoded, B!Mergeable
  <2> QED
    BY <1>5, <1>10, <2>1, <2>2 DEF BpeInv
<1> QED
  BY <1>2, <1>6, <1>7, <1>8, <1>9, <1>10, WorkDoes

LEMMA MatchingStays ==
  ASSUME EncodingInv, BpeInv, [Next]_vars
  PROVE  BpeInv'
<1>0. VInv /\ TextInv /\ PlacesInv /\ WordsInv /\ MarkersInv /\ SegmentInv
  BY DEF EncodingInv
<1>1. ASSUME seg_pc' = "idle" PROVE BpeInv'
  BY <1>1 DEF BpeInv
<1>2. CASE Rests
  BY <1>1, <1>2 DEF Rests, Resting
<1>3. CASE /\ UNCHANGED <<vocabulary, text, addBos>>
           /\ (Starts \/ CutsOff \/ Works \/ Advances \/ Ends)
  <2>1. CASE Starts \/ Ends \/ Advances
    <3>1. seg_pc' = "idle"
      BY <1>0, <2>1 DEF Starts, Ends, Advances, PlacesInv, Resting
    <3> QED
      BY <1>1, <3>1
  <2>2. CASE CutsOff
    <3>1. CASE offset < end'
      <4>1. /\ seg_pc' = "symbols" /\ pieces' = << >> /\ end' \in offset .. Len(text) + 1
            /\ segment' = [n \in 1 .. end' - offset |-> SymbolOf(text[offset + n - 1])]
        BY <2>2, <3>1 DEF CutsOff, Cuts
      <4>2. offset \in Nat /\ Len(text) \in Nat
        BY <1>0, <2>2, TextTypes DEF PlacesInv
      <4>3. end' - offset \in Nat
        <5>1. \A e \in offset .. Len(text) + 1 : e - offset \in Nat
          BY <4>2
        <5> QED
          BY <4>1, <5>1
      <4>4. Len(segment') = end' - offset
        BY <4>1, <4>3
      <4>5. Len(pieces') = 0 /\ Len(segment') \in Nat
        BY <4>1, <4>3, <4>4
      <4>6. \A k \in Nat : 0 <= k
        OBVIOUS
      <4>7. Len(pieces') <= Len(segment')
        BY <4>5, <4>6
      <4>8. 1 .. Len(pieces') = {}
        BY <4>5
      <4> QED
        BY <4>1, <4>5, <4>7, <4>8 DEF BpeInv
    <3>2. CASE ~(offset < end')
      <4>1. seg_pc' = "idle"
        BY <1>0, <2>2, <3>2 DEF CutsOff, PlacesInv
      <4> QED
        BY <1>1, <4>1
    <3> QED
      BY <3>1, <3>2
  <2>3. CASE Works
    BY <1>0, <1>3, <2>3, WorkMatches
  <2> QED
    BY <1>3, <2>1, <2>2, <2>3
<1>4. CASE UNCHANGED vars
  <2>1. /\ seg_pc' = seg_pc /\ segment' = segment /\ pieces' = pieces
        /\ ids' = ids /\ merges' = merges /\ pairs' = pairs
    BY <1>4 DEF vars, vocabulary, segmenting
  <2>2. B!Trained' = B!Trained /\ B!Reference' = B!Reference
    BY <2>1, SameReference
  <2>3. B!Encoded(pieces)' = B!Encoded(pieces) /\ B!Mergeable' = B!Mergeable
    BY <2>1 DEF B!Encoded, B!Mergeable
  <2> QED
    BY <2>1, <2>2, <2>3 DEF BpeInv
<1> QED
  BY <1>0, <1>2, <1>3, <1>4, StepIs

\* Each segment becomes the tokens that byte pair encoding defines and has nothing left to
\* merge: for every vocabulary whose merges are in an order that training gives, looking
\* for the best pair again after each merge comes to the same as going through the merges
\* once, by rank (tokenizer.c:373-401).
THEOREM ReferenceMatched == Spec => []MatchesReference
<1>1. Init => BpeInv
  BY DEF Init, B!Init, BpeInv
<1>2. EncodingInv /\ BpeInv /\ [Next]_vars => BpeInv'
  BY MatchingStays
<1>3. ASSUME EncodingInv, CoverInv, BpeInv PROVE MatchesReference
  <2> SUFFICES ASSUME seg_pc = "append", Len(token_ids) = base + Len(pieces)
               PROVE  /\ B!Mergeable = {}
                      /\ B!Trained => SubSeq(token_ids, base + 1, Len(token_ids)) = B!Reference
    BY DEF MatchesReference, B!MatchesReference, B!Appended
  <2>1. VInv /\ PlacesInv /\ SegmentInv /\ B!Mergeable = {}
    BY <1>3 DEF EncodingInv, BpeInv
  <2>2. pc = "ready" /\ pieces \in Seq(TokenIds) /\ base \in Nat
    BY <2>1 DEF PlacesInv, SegmentInv
  <2>3. B!Trained => pieces = B!Reference
    BY <1>3, <2>1, <2>2, DoneStays DEF BpeInv
  <2>4. PICK s \in Seq(TokenIds) :
          Len(s) = base /\ token_ids = s \o SubSeq(pieces, 1, Len(token_ids) - base)
    BY <1>3 DEF CoverInv
  <2>5. Len(pieces) \in Nat /\ Len(token_ids) - base = Len(pieces)
    BY <2>2
  <2>6. token_ids = s \o pieces
    <3>1. SubSeq(pieces, 1, Len(pieces)) = pieces
      BY <2>2, SubSeqFull
    <3> QED
      BY <2>4, <2>5, <3>1
  <2>7. SubSeq(token_ids, base + 1, Len(token_ids)) = pieces
    <3>1. /\ token_ids \in Seq(TokenIds) /\ Len(token_ids) = Len(s) + Len(pieces)
          /\ \A k \in 1 .. Len(s) + Len(pieces) :
               token_ids[k] = IF k <= Len(s) THEN s[k] ELSE pieces[k - Len(s)]
      BY <2>2, <2>6, ConcatProperties
    <3> DEFINE r == SubSeq(token_ids, base + 1, Len(token_ids))
               b == base
               l == Len(token_ids)
    <3>2. b + 1 \in Int /\ l \in Int /\ l = b + Len(pieces)
      BY <2>2, <2>5
    <3>3. \A k \in b + 1 .. l : token_ids[k] \in TokenIds
      <4>1. \A k \in b + 1 .. l : k \in 1 .. Len(token_ids)
        BY <2>2, <3>2
      <4> QED
        BY <3>1, <4>1, ElementOfSeq
    <3>4. /\ r \in Seq(TokenIds) /\ Len(r) = (IF b + 1 <= l THEN l - (b + 1) + 1 ELSE 0)
          /\ \A k \in 1 .. l - (b + 1) + 1 : r[k] = token_ids[b + 1 + k - 1]
      BY <3>2, <3>3, SubSeqProperties
    <3> HIDE DEF r, b, l
    <3>5. Len(r) = Len(pieces)
      BY <2>2, <2>5, <3>2, <3>4 DEF b
    <3>6. ASSUME NEW k \in 1 .. Len(pieces) PROVE r[k] = pieces[k]
      <4>1. /\ k \in 1 .. l - (b + 1) + 1 /\ b + 1 + k - 1 = b + k /\ b + k \in 1 .. Len(s) + Len(pieces)
            /\ ~(b + k <= Len(s)) /\ (b + k) - Len(s) = k
        BY <2>2, <2>4, <2>5, <3>2 DEF b
      <4>2. r[k] = token_ids[b + k]
        BY <3>4, <4>1
      <4> QED
        BY <3>1, <4>1, <4>2
    <3>7. r = pieces
      BY <2>2, <3>4, <3>5, <3>6, SeqEqual
    <3> QED
      BY <3>7 DEF r
  <2> QED
    BY <2>1, <2>3, <2>7
<1> QED
  BY <1>1, <1>2, <1>3, EncodingHolds, CoverHolds, PTL DEF Spec
=============================================================================
