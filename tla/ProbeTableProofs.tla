-------------------------- MODULE ProbeTableProofs --------------------------
(***************************************************************************)
(* Proofs about ProbeTable for every array, every hash function and every  *)
(* table size: the probe for an item never meets an empty slot before it,  *)
(* some slot is always empty, and the table implements Dictionary.  The    *)
(* strengthening says what the probe under way has passed already, and     *)
(* that the items inserted so far are distinct.                            *)
(***************************************************************************)
EXTENDS ProbeTable, TLAPS, FiniteSetTheorems

\* The slot a walk of j steps from h ends in.
SlotAfter(h, j) == IF h + j < slot_count THEN h + j ELSE h + j - slot_count

TypeOK ==
  /\ pc \in {"size", "insert", "probe", "ready", "seek", "failed"}
  /\ items \in Items /\ hash \in Hashes
  /\ slot_count \in Nat \ {0}
  /\ id \in 0 .. Len(items) /\ probes \in Nat
  /\ pc = "size" => id = 0
  /\ Allocated => /\ slots \in [Slots -> (0 .. id - 1) \cup {Empty}]
                  /\ slot_count >= Wanted /\ Len(items) <= Sentinel
  /\ pc \in {"probe", "seek"} => slot \in Slots /\ key \in Keys
  /\ pc = "probe" => id < Len(items) /\ key = items[id + 1]

\* The walk from the key's home to slot met neither an empty slot nor the key.
WalkPassed ==
  pc \in {"probe", "seek"} =>
    \A s \in Path(Home(key), slot) : slots[s] # Empty /\ items[slots[s] + 1] # key

\* A lookup that saw as many slots as there are saw all of them.
WalkCounted ==
  pc = "seek" =>
    /\ probes \in 0 .. slot_count
    /\ slot = SlotAfter(Home(key), probes)
    /\ \A j \in 0 .. probes - 1 : slots[SlotAfter(Home(key), j)] # Empty

ItemsDistinct ==
  Allocated => \A m, n \in 0 .. id - 1 : items[m + 1] = items[n + 1] => m = n

IInv == TypeOK /\ PathsFull /\ WalkPassed /\ WalkCounted /\ ItemsDistinct
-----------------------------------------------------------------------------
\* The masked successor of a slot is the next one, or the first after the last.
LEMMA NextSlotWraps ==
  ASSUME NEW n \in Nat \ {0}, NEW s \in 0 .. n - 1
  PROVE  (s + 1) % n = IF s + 1 = n THEN 0 ELSE s + 1
OBVIOUS

\* A masked hash is the number of a slot.
LEMMA MaskRange ==
  ASSUME NEW n \in Nat \ {0}, NEW h \in Nat
  PROVE  h % n \in 0 .. n - 1
OBVIOUS

\* Every key has a home among the slots.
LEMMA HomeIsASlot ==
  ASSUME TypeOK, NEW k \in Keys
  PROVE  Home(k) \in Slots
<1>1. hash[k] \in Nat
  BY TableAssumption DEF TypeOK
<1> QED
  BY <1>1, MaskRange DEF TypeOK, Home, Slots

\* What has been inserted are keys.
LEMMA ItemsAreKeys ==
  ASSUME TypeOK, NEW n \in 0 .. id - 1
  PROVE  items[n + 1] \in Keys
<1>1. items \in Seq(Keys)
  BY TableAssumption DEF TypeOK
<1>2. Len(items) \in Nat /\ n + 1 \in 1 .. Len(items)
  BY <1>1 DEF TypeOK
<1> QED
  BY <1>1, <1>2

\* A probe passes slots of the table only.
LEMMA PathIsOfSlots ==
  ASSUME slot_count \in Nat \ {0}, NEW h \in Slots, NEW s \in Slots
  PROVE  Path(h, s) \subseteq Slots
BY DEF Path, Slots

\* One step of a probe adds the slot it leaves to those it has passed.
LEMMA PathGrows ==
  ASSUME slot_count \in Nat \ {0}, NEW h \in Slots, NEW s \in Slots
  PROVE  /\ NextSlot(s) \in Slots
         /\ Path(h, NextSlot(s)) \subseteq Path(h, s) \cup {s}
<1>1. NextSlot(s) = IF s + 1 = slot_count THEN 0 ELSE s + 1
  BY NextSlotWraps DEF NextSlot, Slots
<1> QED
  BY <1>1 DEF Path, Slots

\* Of two slots, the probe from h passes one on its way to the other.
LEMMA PathsMeet ==
  ASSUME slot_count \in Nat \ {0}, NEW h \in Slots, NEW s \in Slots, NEW t \in Slots,
         s \notin Path(h, t), t \notin Path(h, s)
  PROVE  s = t
BY DEF Path, Slots

\* A probe that comes to an empty slot without having met its key proves that
\* the key is absent.
LEMMA AbsentKey ==
  ASSUME IInv, pc \in {"probe", "seek"}, ~ Taken
  PROVE  \A n \in 0 .. id - 1 : items[n + 1] # key
<1> SUFFICES ASSUME NEW n \in 0 .. id - 1, items[n + 1] = key
             PROVE  FALSE
  OBVIOUS
<1>1. Allocated /\ slot_count \in Nat \ {0} /\ slot \in Slots /\ key \in Keys
  BY DEF IInv, TypeOK, Allocated
<1>2. Home(key) \in Slots
  BY <1>1, HomeIsASlot DEF IInv
<1>3. PICK s \in Slots : /\ slots[s] = n
                         /\ \A t \in Path(Home(key), s) : slots[t] # Empty
  BY <1>1 DEF IInv, PathsFull
<1>4. slot \notin Path(Home(key), s)
  BY <1>3 DEF Taken
<1>5. s \notin Path(Home(key), slot)
  BY <1>3 DEF IInv, WalkPassed
<1>6. s = slot
  BY <1>1, <1>2, <1>4, <1>5, PathsMeet
<1>7. n # Empty
  BY <1>1 DEF IInv, TypeOK, Empty
<1> QED
  BY <1>3, <1>6, <1>7 DEF Taken

\* The pigeonhole: fewer numbers than slots, and none in two slots.
LEMMA SomeSlotFree ==
  ASSUME TypeOK, PathsFull
  PROVE  FreeSlotLeft
<1> SUFFICES ASSUME Allocated, \A s \in Slots : slots[s] # Empty
             PROVE  FALSE
  BY DEF FreeSlotLeft
<1>1. slots \in [Slots -> 0 .. id - 1]
  BY DEF TypeOK
<1>2. Len(items) \in Nat /\ (Extra = 0 => Len(items) > 0)
  <2>1. items \in Seq(Keys) /\ (Extra = 0 => items # << >>)
    BY TableAssumption DEF TypeOK
  <2> QED
    BY <2>1
<1>3. id \in Nat /\ id < slot_count
  BY <1>2, TableAssumption DEF TypeOK, Wanted
<1>4. IsFiniteSet(Slots) /\ Cardinality(Slots) = slot_count
  BY <1>3, FS_Interval DEF TypeOK, Slots
<1>5. IsFiniteSet(0 .. id - 1) /\ Cardinality(0 .. id - 1) = id
  BY <1>3, FS_Interval
<1>6. PICK s, t \in Slots : s # t /\ slots[s] = slots[t]
  BY <1>1, <1>3, <1>4, <1>5, FS_PigeonHole
<1> QED
  BY <1>6 DEF PathsFull
-----------------------------------------------------------------------------
\* Nothing is allocated at first.
LEMMA InitEstablishes == Init => IInv
<1> SUFFICES ASSUME Init PROVE IInv
  OBVIOUS
<1>1. Len(items) \in Nat
  BY TableAssumption DEF Init
<1> QED
  BY <1>1 DEF Init, IInv, TypeOK, PathsFull, WalkPassed, WalkCounted, ItemsDistinct, Allocated

\* The types of what the sizes are compared with.
LEMMA WantedTypes ==
  ASSUME TypeOK
  PROVE  Len(items) \in Nat /\ Wanted \in Nat /\ Sentinel \in Nat
<1>1. items \in Seq(Keys)
  BY TableAssumption DEF TypeOK
<1> QED
  BY <1>1, TableAssumption DEF Wanted

\* A walk that starts at h has passed nothing.
LEMMA PathStarts ==
  ASSUME NEW h \in Int
  PROVE  Path(h, h) = {}
BY DEF Path

\* The walk of one step more ends in the next slot.
LEMMA SlotAfterNext ==
  ASSUME slot_count \in Nat \ {0}, NEW h \in Slots, NEW j \in 0 .. slot_count - 1
  PROVE  /\ SlotAfter(h, 0) = h
         /\ SlotAfter(h, j) \in Slots
         /\ SlotAfter(h, j + 1) = NextSlot(SlotAfter(h, j))
<1>1. SlotAfter(h, j) \in Slots
  BY DEF SlotAfter, Slots
<1>2. NextSlot(SlotAfter(h, j)) =
        IF SlotAfter(h, j) + 1 = slot_count THEN 0 ELSE SlotAfter(h, j) + 1
  BY <1>1, NextSlotWraps DEF NextSlot, Slots
<1> QED
  BY <1>1, <1>2 DEF SlotAfter, Slots

\* After as many steps as there are slots a walk has been in each of them.
LEMMA WalkIsComplete ==
  ASSUME slot_count \in Nat \ {0}, NEW h \in Slots, NEW s \in Slots
  PROVE  \E j \in 0 .. slot_count - 1 : s = SlotAfter(h, j)
<1>1. CASE h <= s
  <2>1. s - h \in 0 .. slot_count - 1 /\ s = SlotAfter(h, s - h)
    BY <1>1 DEF SlotAfter, Slots
  <2> QED
    BY <2>1
<1>2. CASE s < h
  <2>1. /\ s - h + slot_count \in 0 .. slot_count - 1
        /\ s = SlotAfter(h, s - h + slot_count)
    BY <1>2 DEF SlotAfter, Slots
  <2> QED
    BY <2>1
<1> QED
  BY <1>1, <1>2 DEF Slots

\* A new table is empty, and has at least the slots wanted.
LEMMA AllocateKeeps ==
  ASSUME IInv, Double \/ Allocate
  PROVE  IInv'
<1>1. Len(items) \in Nat /\ Wanted \in Nat /\ Sentinel \in Nat /\ slot_count \in Nat \ {0}
  BY WantedTypes DEF IInv, TypeOK
<1>2. CASE Double
  <2>1. slot_count' \in Nat \ {0}
    BY <1>1, <1>2 DEF Double
  <2> QED
    BY <1>2, <2>1 DEF Double, IInv, TypeOK, PathsFull, WalkPassed, WalkCounted,
       ItemsDistinct, Allocated, input, probe
<1>3. CASE Allocate
  <2>1. id = 0 /\ id' = 0 /\ slots' = [s \in Slots |-> Empty]
    BY <1>3 DEF Allocate, IInv, TypeOK
  <2>2. TypeOK'
    BY <1>1, <1>3, <2>1 DEF Allocate, IInv, TypeOK, TooLong, Wanted, Slots, Allocated,
       input, probe, Empty
  <2>3. PathsFull'
    BY <1>1, <1>3, <2>1 DEF Allocate, PathsFull, Slots
  <2> QED
    BY <1>3, <2>1, <2>2, <2>3 DEF Allocate, IInv, WalkPassed, WalkCounted, ItemsDistinct
<1> QED
  BY <1>2, <1>3

\* What a step that leaves the table alone need not show again.
LEMMA TableStays ==
  ASSUME IInv, UNCHANGED <<input, table>>, Allocated, Allocated'
  PROVE  PathsFull' /\ ItemsDistinct'
BY DEF IInv, PathsFull, ItemsDistinct, input, table, Slots, Path, Home, Empty

\* Turning to the next item, or to a lookup, starts a walk at the key's home.
LEMMA WalkStarts ==
  ASSUME IInv, StartInsert \/ Built \/ \E k \in Keys : Ask(k)
  PROVE  IInv'
<1> USE DEF input, table, probe
<1>1. CASE StartInsert
  <2>1. id \in 0 .. Len(items) - 1 /\ key' \in Keys
    <3>1. id \in 0 .. Len(items) - 1 /\ items \in Seq(Keys)
      BY <1>1, WantedTypes, TableAssumption DEF StartInsert, IInv, TypeOK
    <3> QED
      BY <1>1, <3>1 DEF StartInsert
  <2>2. Home(key') \in Slots
    BY <2>1, HomeIsASlot DEF IInv
  <2>3. TypeOK'
    BY <1>1, <2>1, <2>2, WantedTypes
       DEF StartInsert, IInv, TypeOK, Slots, Allocated, Wanted, Empty
  <2>4. PathsFull' /\ ItemsDistinct'
    BY <1>1, TableStays DEF StartInsert, Allocated
  <2>5. WalkPassed'
    <3>1. (Path(Home(key), slot))' = {}
      BY <1>1, <2>2, PathStarts DEF StartInsert, Path, Home, Slots
    <3> QED
      BY <3>1 DEF WalkPassed
  <2> QED
    BY <1>1, <2>3, <2>4, <2>5 DEF StartInsert, IInv, WalkCounted
<1>2. CASE Built
  <2>1. PathsFull' /\ ItemsDistinct'
    BY <1>2, TableStays DEF Built, Allocated
  <2>2. TypeOK'
    BY <1>2 DEF Built, IInv, TypeOK, Slots, Allocated, Wanted, Empty
  <2> QED
    BY <1>2, <2>1, <2>2 DEF Built, IInv, WalkPassed, WalkCounted
<1>3. CASE \E k \in Keys : Ask(k)
  <2> PICK k \in Keys : Ask(k)
    BY <1>3
  <2>1. Home(k) \in Slots
    BY HomeIsASlot DEF IInv
  <2>2. TypeOK'
    BY <2>1 DEF Ask, IInv, TypeOK, Slots, Allocated, Wanted, Empty
  <2>3. PathsFull' /\ ItemsDistinct'
    BY TableStays DEF Ask, Allocated
  <2>4. WalkPassed'
    <3>1. (Path(Home(key), slot))' = {}
      BY <2>1, PathStarts DEF Ask, Path, Home, Slots
    <3> QED
      BY <3>1 DEF WalkPassed
  <2>5. WalkCounted'
    BY <2>1 DEF Ask, IInv, TypeOK, WalkCounted, SlotAfter, Home, Slots
  <2> QED
    BY <2>2, <2>3, <2>4, <2>5 DEF IInv
<1> QED
  BY <1>1, <1>2, <1>3

\* A walk goes on only from a taken slot of another key.
LEMMA WalkContinues ==
  ASSUME IInv, ProbeOccupied \/ SeekNext
  PROVE  IInv'
<1> USE DEF input, table
<1>1. /\ pc \in {"probe", "seek"} /\ pc' = pc /\ key' = key /\ slot' = NextSlot(slot)
      /\ UNCHANGED <<input, table>> /\ Taken /\ ~ SameKey
  BY DEF ProbeOccupied, SeekNext
<1>2. slot_count \in Nat \ {0} /\ slot \in Slots /\ key \in Keys
  BY <1>1 DEF IInv, TypeOK
<1>3. Home(key) \in Slots
  BY <1>2, HomeIsASlot DEF IInv
<1>4. /\ NextSlot(slot) \in Slots
      /\ Path(Home(key), NextSlot(slot)) \subseteq Path(Home(key), slot) \cup {slot}
  BY <1>2, <1>3, PathGrows
<1>5. TypeOK'
  <2>1. probes' \in Nat
    BY DEF ProbeOccupied, SeekNext, IInv, TypeOK
  <2> QED
    BY <1>1, <1>2, <1>4, <2>1 DEF IInv, TypeOK, Slots, Allocated, Wanted, Empty
<1>6. PathsFull' /\ ItemsDistinct'
  BY <1>1, TableStays DEF Allocated
<1>7. WalkPassed'
  <2>1. \A s \in Path(Home(key), slot) \cup {slot} : slots[s] # Empty /\ items[slots[s] + 1] # key
    BY <1>1 DEF IInv, WalkPassed, Taken, SameKey
  <2>2. (Path(Home(key), slot))' = Path(Home(key), NextSlot(slot))
    BY <1>1 DEF Path, Home
  <2> QED
    BY <1>1, <1>4, <2>1, <2>2 DEF WalkPassed, Empty
<1>8. WalkCounted'
  <2> SUFFICES ASSUME pc = "seek" PROVE WalkCounted'
    BY <1>1 DEF WalkCounted
  <2>1. /\ probes' = probes + 1 /\ probes \in 0 .. slot_count - 1
        /\ slot = SlotAfter(Home(key), probes)
    BY <1>2 DEF ProbeOccupied, SeekNext, IInv, WalkCounted
  <2>2. slot' = SlotAfter(Home(key), probes + 1)
    BY <1>1, <1>2, <1>3, <2>1, SlotAfterNext
  <2>3. \A j \in 0 .. probes : slots[SlotAfter(Home(key), j)] # Empty
    BY <1>1, <2>1 DEF IInv, WalkCounted, Taken
  <2>4. Home(key)' = Home(key) /\ \A h, j : SlotAfter(h, j)' = SlotAfter(h, j)
    BY <1>1 DEF Home, SlotAfter
  <2> QED
    BY <1>1, <1>2, <2>1, <2>2, <2>3, <2>4 DEF WalkCounted, Empty, Home, SlotAfter
<1> QED
  BY <1>5, <1>6, <1>7, <1>8 DEF IInv

\* An item goes into the slot where its walk ended.
LEMMA StoreKeeps ==
  ASSUME IInv, Store
  PROVE  IInv'
<1> USE DEF input, probe
<1>1. /\ pc = "probe" /\ pc' = "insert" /\ id' = id + 1 /\ slots' = [slots EXCEPT ![slot] = id]
      /\ UNCHANGED <<items, hash, slot_count>> /\ slots[slot] = Empty
  BY DEF Store, Taken
<1>2. /\ slot_count \in Nat \ {0} /\ slot \in Slots /\ key \in Keys /\ key = items[id + 1]
      /\ slots \in [Slots -> (0 .. id - 1) \cup {Empty}]
      /\ id \in Nat /\ id < Len(items) /\ Len(items) \in Nat
      /\ Len(items) <= Sentinel /\ Sentinel \in Nat /\ id # Empty
  BY <1>1, WantedTypes DEF IInv, TypeOK, Allocated, Empty
<1>3. Home(key) \in Slots
  BY <1>2, HomeIsASlot DEF IInv
<1>4. TypeOK'
  BY <1>1, <1>2 DEF Store, IInv, TypeOK, Slots, Allocated, Wanted, Empty
<1>5. \A s \in Slots : slots'[s] = IF s = slot THEN id ELSE slots[s]
  BY <1>1, <1>2
<1>6. PathsFull'
  <2>1. ASSUME NEW s \in Slots, NEW t \in Slots, slots'[s] # Empty, slots'[s] = slots'[t]
        PROVE  s = t
    <3>1. \A u \in Slots : slots[u] # id
      BY <1>2
    <3> QED
      BY <1>1, <1>5, <2>1, <3>1 DEF IInv, PathsFull, Allocated
  <2>2. ASSUME NEW n \in 0 .. id
        PROVE  \E s \in Slots : /\ slots'[s] = n
                                /\ \A t \in Path(Home(items[n + 1]), s) : slots'[t] # Empty
    <3>1. CASE n = id
      <4>1. Path(Home(key), slot) \subseteq Slots
        BY <1>2, <1>3, PathIsOfSlots
      <4>2. \A t \in Path(Home(key), slot) : slots'[t] # Empty
        BY <1>1, <1>2, <1>5, <4>1 DEF IInv, WalkPassed
      <4> QED
        BY <1>2, <1>5, <3>1, <4>2
    <3>2. CASE n \in 0 .. id - 1
      <4>1. PICK s \in Slots : /\ slots[s] = n
                               /\ \A t \in Path(Home(items[n + 1]), s) : slots[t] # Empty
        BY <1>1, <3>2 DEF IInv, PathsFull, Allocated
      <4>2. Home(items[n + 1]) \in Slots
        BY <3>2, ItemsAreKeys, HomeIsASlot DEF IInv
      <4>3. Path(Home(items[n + 1]), s) \subseteq Slots
        BY <1>2, <4>2, PathIsOfSlots
      <4>4. slots'[s] = n /\ \A t \in Path(Home(items[n + 1]), s) : slots'[t] # Empty
        BY <1>1, <1>2, <1>5, <3>2, <4>1, <4>3 DEF Empty
      <4> QED
        BY <4>4
    <3> QED
      BY <1>2, <3>1, <3>2
  <2>3. Slots' = Slots /\ 0 .. id' - 1 = 0 .. id
    BY <1>1, <1>2 DEF Slots
  <2>4. ASSUME NEW n \in (0 .. id - 1)'
        PROVE  \E s \in Slots' : /\ slots'[s] = n
                                 /\ \A t \in (Path(Home(items[n + 1]), s))' : slots'[t] # Empty
    <3>1. PICK s \in Slots : /\ slots'[s] = n
                             /\ \A t \in Path(Home(items[n + 1]), s) : slots'[t] # Empty
      BY <2>2, <2>3
    <3>2. (Path(Home(items[n + 1]), s))' = Path(Home(items[n + 1]), s)
      BY <1>1 DEF Path, Home
    <3> QED
      BY <2>3, <3>1, <3>2
  <2>5. \A s, t \in Slots' : slots'[s] # Empty /\ slots'[s] = slots'[t] => s = t
    BY <2>1, <2>3
  <2> QED
    BY <2>4, <2>5 DEF PathsFull, Empty
<1>7. ItemsDistinct'
  <2>1. \A n \in 0 .. id - 1 : items[n + 1] # items[id + 1]
    BY <1>1, <1>2, AbsentKey DEF Taken
  <2> QED
    BY <1>1, <1>2, <2>1 DEF IInv, ItemsDistinct, Allocated
<1> QED
  BY <1>1, <1>4, <1>6, <1>7 DEF IInv, WalkPassed, WalkCounted

\* Every step keeps the strengthening.
LEMMA StepKeeps == IInv /\ [Next]_vars => IInv'
<1> USE DEF input, table, probe
<1> SUFFICES ASSUME IInv, [Next]_vars PROVE IInv'
  OBVIOUS
<1>1. CASE Double \/ Allocate
  BY <1>1, AllocateKeeps
<1>2. CASE AllocateFails \/ Duplicate
  BY <1>2 DEF AllocateFails, Duplicate, Fail, IInv, TypeOK, PathsFull, WalkPassed, WalkCounted,
     ItemsDistinct, Allocated
<1>3. CASE StartInsert \/ Built \/ \E k \in Keys : Ask(k)
  BY <1>3, WalkStarts
<1>4. CASE ProbeOccupied \/ SeekNext
  BY <1>4, WalkContinues
<1>5. CASE Store
  BY <1>5, StoreKeeps
<1>6. CASE SeekEnds
  <2>1. PathsFull' /\ ItemsDistinct'
    BY <1>6, TableStays DEF SeekEnds, Answer, Allocated
  <2>2. TypeOK'
    BY <1>6 DEF SeekEnds, Answer, IInv, TypeOK, Slots, Allocated, Wanted, Empty
  <2> QED
    BY <1>6, <2>1, <2>2 DEF SeekEnds, Answer, IInv, WalkPassed, WalkCounted
<1>7. CASE UNCHANGED vars
  BY <1>7 DEF vars, IInv, TypeOK, PathsFull, WalkPassed, WalkCounted, ItemsDistinct, Allocated,
     Slots, Wanted, Empty, Path, Home, SlotAfter
<1> QED
  BY <1>1, <1>2, <1>3, <1>4, <1>5, <1>6, <1>7 DEF Next, Build, Seek, Stopped

\* The strengthening holds throughout.
THEOREM Invariance == Spec => []IInv
BY InitEstablishes, StepKeeps, PTL DEF Spec

\* Each item inserted is found by its probe: no empty slot comes before it.
THEOREM PathsStayFull == Spec => []PathsFull
<1>1. IInv => PathsFull
  BY DEF IInv
<1> QED
  BY Invariance, <1>1, PTL

\* Whatever the array and the hash function, some slot is empty, at which the
\* loops of insertion and lookup end.
THEOREM SlotStaysFree == Spec => []FreeSlotLeft
<1>1. IInv => FreeSlotLeft
  BY SomeSlotFree DEF IInv
<1> QED
  BY Invariance, <1>1, PTL
-----------------------------------------------------------------------------
\* Among distinct items the number of an item is the one CHOOSE finds.
LEMMA NumberOf ==
  ASSUME NEW c \in Nat, NEW f, \A m, n \in 0 .. c - 1 : f[m + 1] = f[n + 1] => m = n,
         NEW n \in 0 .. c - 1
  PROVE  (CHOOSE m \in 0 .. c - 1 : f[m + 1] = f[n + 1]) = n
OBVIOUS

\* The entries are the items inserted so far, under their numbers.
LEMMA EntryOf ==
  ASSUME IInv, Allocated
  PROVE  /\ DOMAIN Entries = {items[n + 1] : n \in 0 .. id - 1}
         /\ \A n \in 0 .. id - 1 : Entries[items[n + 1]] = n
<1>1. id \in Nat /\ pc # "failed"
  BY WantedTypes DEF IInv, TypeOK, Allocated
<1>2. {items[n] : n \in 1 .. id} = {items[n + 1] : n \in 0 .. id - 1}
  <2>1. ASSUME NEW n \in 1 .. id
        PROVE  items[n] \in {items[m + 1] : m \in 0 .. id - 1}
    <3>1. n - 1 \in 0 .. id - 1 /\ (n - 1) + 1 = n
      BY <1>1
    <3> QED
      BY <3>1
  <2>2. \A n \in 0 .. id - 1 : n + 1 \in 1 .. id
    BY <1>1
  <2> QED
    BY <2>1, <2>2
<1>3. Entries = [k \in {items[n + 1] : n \in 0 .. id - 1} |->
                   CHOOSE n \in 0 .. id - 1 : items[n + 1] = k]
  BY <1>1, <1>2 DEF Entries
<1>4. ASSUME NEW n \in 0 .. id - 1
      PROVE  Entries[items[n + 1]] = n
  <2>1. (CHOOSE m \in 0 .. id - 1 : items[m + 1] = items[n + 1]) = n
    BY <1>1, NumberOf DEF IInv, ItemsDistinct
  <2> QED
    BY <1>3, <2>1
<1> QED
  BY <1>3, <1>4

\* As many entries as items inserted.
LEMMA EntryCount ==
  ASSUME IInv, Allocated
  PROVE  Cardinality(DOMAIN Entries) = id
<1> DEFINE f == [n \in 0 .. id - 1 |-> items[n + 1]]
<1>1. id \in Nat
  BY WantedTypes DEF IInv, TypeOK
<1>2. f \in Surjection(0 .. id - 1, DOMAIN Entries)
  BY EntryOf DEF Surjection
<1>3. f \in Injection(0 .. id - 1, DOMAIN Entries)
  BY EntryOf DEF IInv, ItemsDistinct, Injection, IsInjective
<1>4. IsFiniteSet(0 .. id - 1) /\ Cardinality(0 .. id - 1) = id
  BY <1>1, FS_Interval
<1> HIDE DEF f
<1> QED
  BY <1>2, <1>3, <1>4, FS_Surjection

\* A lookup that has seen as many slots as there are cannot happen: one is free.
LEMMA WalkNeverComplete ==
  ASSUME IInv, pc = "seek"
  PROVE  probes < slot_count
<1> SUFFICES ASSUME probes = slot_count PROVE FALSE
  BY DEF IInv, TypeOK, WalkCounted
<1>1. slot_count \in Nat \ {0} /\ key \in Keys /\ Allocated
  BY DEF IInv, TypeOK, Allocated
<1>2. PICK s \in Slots : slots[s] = Empty
  BY <1>1, SomeSlotFree DEF IInv, FreeSlotLeft
<1>3. PICK j \in 0 .. slot_count - 1 : s = SlotAfter(Home(key), j)
  BY <1>1, HomeIsASlot, WalkIsComplete DEF IInv
<1> QED
  BY <1>2, <1>3 DEF IInv, WalkCounted

\* The refinement's step for storing an item.
LEMMA StoreInserts ==
  ASSUME IInv, Store
  PROVE  D!Insert(key)
<1>1. /\ pc = "probe" /\ pc' = "insert" /\ id' = id + 1 /\ items' = items /\ answer' = answer
      /\ ~ Taken /\ key = items[id + 1] /\ id \in Nat /\ Allocated
  BY WantedTypes DEF Store, IInv, TypeOK, input, Allocated
<1>2. \A n \in 0 .. id - 1 : items[n + 1] # key
  BY <1>1, AbsentKey
<1>3. \A m, n \in 0 .. (id + 1) - 1 : items[m + 1] = items[n + 1] => m = n
  BY <1>1, <1>2 DEF IInv, ItemsDistinct
<1> DEFINE After == [k \in {items[n] : n \in 1 .. id + 1} |->
                       CHOOSE n \in 0 .. (id + 1) - 1 : items[n + 1] = k]
<1>4. Entries' = After
  BY <1>1 DEF Entries
<1>5. DOMAIN After = DOMAIN Entries \cup {key}
  <2>1. DOMAIN Entries = {items[n] : n \in 1 .. id}
    BY <1>1 DEF Entries
  <2>2. 1 .. id + 1 = (1 .. id) \cup {id + 1}
    BY <1>1
  <2> QED
    BY <1>1, <2>1, <2>2
<1>6. \A n \in 0 .. id : After[items[n + 1]] = n
  <2> SUFFICES ASSUME NEW n \in 0 .. id PROVE After[items[n + 1]] = n
    OBVIOUS
  <2>1. n + 1 \in 1 .. id + 1 /\ id + 1 \in Nat /\ n \in 0 .. (id + 1) - 1
    BY <1>1
  <2>2. (CHOOSE m \in 0 .. (id + 1) - 1 : items[m + 1] = items[n + 1]) = n
    BY <1>3, <2>1, NumberOf
  <2> QED
    BY <2>1, <2>2
<1>7. ASSUME NEW k \in DOMAIN Entries \cup {key}
      PROVE  After[k] = IF k = key THEN Cardinality(DOMAIN Entries) ELSE Entries[k]
  <2>1. CASE k = key
    <3>1. id \in 0 .. id /\ key = items[id + 1]
      BY <1>1
    <3> HIDE DEF After
    <3> QED
      BY <1>1, <1>6, <2>1, <3>1, EntryCount
  <2>2. CASE k # key
    <3>1. PICK n \in 0 .. id - 1 : k = items[n + 1]
      BY <1>1, <1>7, <2>2, EntryOf
    <3>2. n \in 0 .. id
      BY <1>1
    <3> HIDE DEF After
    <3> QED
      BY <1>1, <1>6, <2>2, <3>1, <3>2, EntryOf
  <2> QED
    BY <2>1, <2>2
<1>8. key \notin DOMAIN Entries
  BY <1>1, <1>2, EntryOf
<1>9. After = [k \in DOMAIN Entries \cup {key} |->
                 IF k = key THEN Cardinality(DOMAIN Entries) ELSE Entries[k]]
  BY <1>5, <1>7
<1>10. D!Cardinality(DOMAIN Entries) = Cardinality(DOMAIN Entries)
  BY DEF D!Cardinality, Cardinality
<1> HIDE DEF After
<1> QED
  BY <1>1, <1>4, <1>8, <1>9, <1>10 DEF D!Insert

\* And for the answer of a lookup.
LEMMA SeekReplies ==
  ASSUME IInv, SeekEnds
  PROVE  D!Reply(key)
<1>1. pc = "seek" /\ pc' = "ready" /\ Entries' = Entries /\ Allocated
  BY DEF SeekEnds, Answer, Entries, input, table, Allocated
<1>2. answer' = D!Find(key)
  <2>1. CASE key \in Hidden
    BY <2>1 DEF SeekEnds, Answer, D!Find, D!None, None
  <2>2. CASE key \notin Hidden /\ ~ Taken
    <3>1. key \notin DOMAIN Entries
      BY <1>1, <2>2, AbsentKey, EntryOf
    <3> QED
      BY <2>2, <3>1 DEF SeekEnds, Answer, SameKey, D!Find, D!None, None
  <2>3. CASE key \notin Hidden /\ SameKey
    <3>1. probes < slot_count /\ slot \in Slots /\ Taken
      BY <1>1, <2>3, WalkNeverComplete DEF IInv, TypeOK, SameKey
    <3>2. slots[slot] \in 0 .. id - 1 /\ items[slots[slot] + 1] = key
      BY <1>1, <2>3, <3>1 DEF IInv, TypeOK, Taken, SameKey
    <3>3. key \in DOMAIN Entries /\ Entries[key] = slots[slot]
      BY <1>1, <3>2, EntryOf
    <3>4. answer' = slots[slot]
      BY <2>3, <3>1, WantedTypes DEF SeekEnds, Answer, IInv, TypeOK
    <3> QED
      BY <2>3, <3>3, <3>4 DEF D!Find
  <2>4. probes \in Nat /\ slot_count \in Nat /\ probes < slot_count
    BY <1>1, WalkNeverComplete DEF IInv, TypeOK
  <2> QED
    BY <2>1, <2>2, <2>3, <2>4 DEF SeekEnds
<1> QED
  BY <1>1, <1>2 DEF D!Reply

\* Each step of the table is one of the dictionary, or leaves it alone.
LEMMA StepRefines ==
  ASSUME IInv, [Next]_vars
  PROVE  \/ D!Next
         \/ UNCHANGED <<Entries, IF pc = "seek" THEN {key} ELSE {}, answer>>
<1> USE DEF input, table, probe
<1>1. CASE Store
  <2>1. key \in Keys
    BY <1>1 DEF Store, IInv, TypeOK
  <2> QED
    BY <1>1, <2>1, StoreInserts DEF D!Next
<1>2. CASE SeekEnds
  <2>1. key \in Keys
    BY <1>2 DEF SeekEnds, IInv, TypeOK
  <2> QED
    BY <1>2, <2>1, SeekReplies DEF D!Next
<1>3. CASE \E k \in Keys : Ask(k)
  BY <1>3 DEF Ask, Entries, D!Next, D!Ask
<1>4. CASE AllocateFails \/ Duplicate
  <2>1. 1 .. 0 = {}
    OBVIOUS
  <2>2. Entries' = [k \in {} |-> 0]
    BY <1>4, <2>1 DEF AllocateFails, Duplicate, Fail, Entries
  <2> QED
    BY <1>4, <2>2 DEF AllocateFails, Duplicate, Fail, D!Next, D!Discard
<1>5. CASE Double \/ Allocate \/ StartInsert \/ ProbeOccupied \/ Built \/ SeekNext \/ UNCHANGED vars
  <2>1. /\ UNCHANGED <<items, id, answer>>
        /\ pc' = "failed" <=> pc = "failed"
        /\ pc' = "seek" <=> pc = "seek"
        /\ pc = "seek" => key' = key
    BY <1>5 DEF Double, Allocate, StartInsert, ProbeOccupied, Built, SeekNext, vars
  <2>2. Entries' = Entries
    BY <2>1 DEF Entries
  <2> QED
    BY <2>1, <2>2
<1> QED
  BY <1>1, <1>2, <1>3, <1>4, <1>5 DEF Next, Build, Seek, Stopped

\* For every array and hash function the table is a dictionary: it numbers
\* distinct keys in order, and a lookup answers exactly what was inserted.
THEOREM Implementation == Spec => ImplementsDictionary
<1>1. Init => D!Init
  <2> SUFFICES ASSUME Init PROVE D!Init
    OBVIOUS
  <2>1. 1 .. 0 = {}
    OBVIOUS
  <2>2. Entries = [k \in {} |-> 0]
    BY <2>1 DEF Init, Entries
  <2> QED
    BY <2>2 DEF Init, D!Init, D!None, None
<1>2. IInv /\ [Next]_vars => [D!Next]_<<Entries, IF pc = "seek" THEN {key} ELSE {}, answer>>
  BY StepRefines
<1> QED
  BY <1>1, <1>2, Invariance, PTL DEF Spec, ImplementsDictionary, D!Spec
=============================================================================
