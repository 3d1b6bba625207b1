SPECIFICATION Spec
CONSTANTS
  Keys = {"empty", "a", "b", "c"}
  Hidden = {"empty"}
  Items <- MCItems
  Hashes <- MCHashes
  Extra = 0
  Sentinel = 3
  SizeMax = 63
  SlotBytes = 4
INVARIANTS PathsFull FreeSlotLeft
PROPERTIES ImplementsDictionary BuildEnds
