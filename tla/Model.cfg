\* size_t as wide as uint64_t; all bit patterns of a half.
SPECIFICATION Spec
CONSTANTS
  SizeMax = 1023
  Types <- MCTypes
  Kernels = {"F32", "F16", "Q8_0"}
  Shapes <- MCShapes
  Halves <- AllHalves
  UInt32Max = 6
  Metadata <- MCMetadata
  Tables <- MCTables
  BlockSize <- MCBlockSize
INVARIANTS SizeExact RowsExact SameValue LoadedModelRuns DimensionsAgree
