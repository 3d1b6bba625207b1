----------------------------- MODULE ProbeTable -----------------------------
(***************************************************************************)
(* The open-addressing tables of the tokenizer (src/tokenizer.c): token    *)
(* texts to ids and pairs of ids to merges.  Both are built once from an   *)
(* array of the file and then only looked up, by linear probing.  A key is *)
(* a text or a pair; its hash is arbitrary, and masking it with the slot   *)
(* count less one, a power of two, is the remainder.                       *)
(***************************************************************************)
EXTENDS Integers, Sequences, FiniteSets

CONSTANTS Keys,
          Hidden,      \* {""} for texts: lookup_token refuses a length of 0
          Items,       \* the arrays a file may hold
          Hashes,      \* the hash functions
          Extra,       \* 0 for tokens, 1 for merges: slots asked for beyond twice
          Sentinel,    \* UINT32_MAX, the number no key gets
          SizeMax,     \* SIZE_MAX
          SlotBytes    \* size of a slot

ASSUME TableAssumption ==
  /\ Items \subseteq Seq(Keys) /\ Hashes \subseteq [Keys -> Nat]
  /\ Hidden \subseteq Keys /\ Extra \in {0, 1}
  /\ \A items \in Items : Extra = 0 => items # << >>
  /\ Sentinel \in Nat /\ SizeMax \in Nat \ {0} /\ SlotBytes \in Nat \ {0}

VARIABLES pc,
          items, hash,
          slot_count, slots,
          id,              \* items inserted so far
          key, slot,       \* the key being inserted or looked up, and where
          probes, answer

input == <<items, hash>>
table == <<slot_count, slots, id>>
probe == <<key, slot, probes>>
vars  == <<pc, input, table, probe, answer>>

None    == -1
Empty   == Sentinel
Slots   == 0 .. slot_count - 1
Home(k) == hash[k] % slot_count
\* Mutant: the mask without the step.
NextSlotStays(s) == s % slot_count
NextSlot(s) == (s + 1) % slot_count
-----------------------------------------------------------------------------
Init == /\ pc = "size"
        /\ items \in Items /\ hash \in Hashes
        /\ slot_count = 1 /\ slots = << >> /\ id = 0
        /\ key = (CHOOSE k \in Keys : TRUE) /\ slot = 0 /\ probes = 0 /\ answer = None

Fail == /\ pc' = "failed"
        /\ UNCHANGED <<input, table, probe, answer>>

\* Mutant: as many slots as keys.
WantedTight == Len(items)
Wanted == 2 * Len(items) + Extra

\* The array's length is checked before anything is computed from it.
TooLong == Len(items) > Sentinel \/ Len(items) > (SizeMax - Extra) \div 2

\* next_power_of_two, one doubling at a time.
Double ==
  /\ pc = "size" /\ ~ TooLong /\ slot_count < Wanted
  /\ slot_count <= SizeMax \div 2
  /\ slot_count' = 2 * slot_count
  /\ UNCHANGED <<pc, input, slots, id, probe, answer>>

Allocate ==
  /\ pc = "size" /\ ~ TooLong /\ slot_count >= Wanted
  /\ slot_count <= SizeMax \div SlotBytes
  /\ slots' = [s \in Slots |-> Empty]
  /\ pc' = "insert"
  /\ UNCHANGED <<input, slot_count, id, probe, answer>>

\* The array is too long, the slot count or its bytes exceed SIZE_MAX, or
\* memory runs out.
AllocateFails ==
  /\ pc = "size"
  /\ TooLong \/ slot_count >= Wanted \/ slot_count > SizeMax \div 2
  /\ Fail

StartInsert ==
  /\ pc = "insert" /\ id < Len(items)
  /\ key' = items[id + 1] /\ slot' = Home(key')
  /\ pc' = "probe"
  /\ UNCHANGED <<input, table, probes, answer>>

Taken == slots[slot] # Empty
SameKey == Taken /\ items[slots[slot] + 1] = key

\* Mutant: the probe stops one slot too late.
ProbeOccupiedSkips ==
  /\ pc = "probe" /\ Taken /\ ~ SameKey
  /\ slot' = NextSlot(NextSlot(slot))
  /\ UNCHANGED <<pc, input, table, key, probes, answer>>

ProbeOccupied ==
  /\ pc = "probe" /\ Taken /\ ~ SameKey
  /\ slot' = NextSlot(slot)
  /\ UNCHANGED <<pc, input, table, key, probes, answer>>

\* A key that is there already makes the whole file unusable.
Duplicate == pc = "probe" /\ SameKey /\ Fail

Store ==
  /\ pc = "probe" /\ ~ Taken
  /\ slots' = [slots EXCEPT ![slot] = id]
  /\ id' = id + 1 /\ pc' = "insert"
  /\ UNCHANGED <<input, slot_count, probe, answer>>

Built ==
  /\ pc = "insert" /\ id = Len(items)
  /\ pc' = "ready"
  /\ UNCHANGED <<input, table, probe, answer>>
-----------------------------------------------------------------------------
Ask(k) ==
  /\ pc = "ready"
  /\ key' = k /\ slot' = Home(k) /\ probes' = 0
  /\ pc' = "seek"
  /\ UNCHANGED <<input, table, answer>>

Answer(a) == /\ answer' = a /\ pc' = "ready"
             /\ UNCHANGED <<input, table, probe>>

\* The text is empty, every slot has been seen, the slot is free or has the key.
SeekEnds ==
  /\ pc = "seek"
  /\ \/ (key \in Hidden \/ probes = slot_count \/ ~ Taken) /\ Answer(None)
     \/ key \notin Hidden /\ probes < slot_count /\ SameKey /\ Answer(slots[slot])

\* Mutant: the first occupied slot decides.
SeekNextGivesUp ==
  /\ pc = "seek" /\ key \notin Hidden /\ probes < slot_count /\ Taken /\ ~ SameKey
  /\ Answer(None)

SeekNext ==
  /\ pc = "seek" /\ key \notin Hidden /\ probes < slot_count /\ Taken /\ ~ SameKey
  /\ slot' = NextSlot(slot) /\ probes' = probes + 1
  /\ UNCHANGED <<pc, input, table, key, answer>>

Stopped == pc = "failed" /\ UNCHANGED vars

Build == Double \/ Allocate \/ AllocateFails \/ StartInsert
           \/ ProbeOccupied \/ Duplicate \/ Store \/ Built
Seek  == SeekEnds \/ SeekNext
Next  == Build \/ Seek \/ Stopped \/ \E k \in Keys : Ask(k)

\* One thread: what has been called runs on, but nobody has to ask.
Spec == Init /\ [][Next]_vars /\ WF_vars(Build \/ Seek)
-----------------------------------------------------------------------------
Allocated == pc \in {"insert", "probe", "ready", "seek"}

\* The slots a probe passes from h until it gets to s.
Path(h, s) == IF h <= s THEN h .. s - 1 ELSE (h .. slot_count - 1) \cup (0 .. s - 1)

\* Every number below id is in exactly one slot, and no probe for its key meets
\* an empty slot or its key before it: what lookup_token and lookup_merge rely
\* on when they stop at the first empty slot (tokenizer.c:63-73, 84-94).
PathsFull ==
  Allocated =>
    /\ \A s, t \in Slots : slots[s] # Empty /\ slots[s] = slots[t] => s = t
    /\ \A n \in 0 .. id - 1 : \E s \in Slots :
         /\ slots[s] = n
         /\ \A t \in Path(Home(items[n + 1]), s) : slots[t] # Empty

\* Some slot stays free, so that insertion's loop, which has no
\* bound of its own, and every lookup end at one (tokenizer.c:129-137, 165-173).
FreeSlotLeft == Allocated => \E s \in Slots : slots[s] = Empty

\* The table is a dictionary of the items inserted so far.
Entries == [k \in {items[n] : n \in 1 .. IF pc = "failed" THEN 0 ELSE id} |->
              CHOOSE n \in 0 .. id - 1 : items[n + 1] = k]
D == INSTANCE Dictionary WITH entries <- Entries,
                              asked <- IF pc = "seek" THEN {key} ELSE {}

\* Inserting keeps keys distinct, failing leaves nothing, and a lookup answers
\* the number of its key exactly when it was inserted (tokenizer.c:56-96,
\* 160-175, 210-221).
ImplementsDictionary == D!Spec

\* Building ends whatever the hashes and the array are (tokenizer.c:30-40,
\* 165-173, 212-220: none of these loops has another bound).
BuildEnds == <>(pc \in {"ready", "failed"})
=============================================================================
