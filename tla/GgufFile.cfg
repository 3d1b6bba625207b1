\* Up to two entries and two tensors, arrays of arrays of up to two items, in
\* files that end early, in the data section, or after all of it.
CONSTANTS
  Platforms = {"posix", "windows"}
  SizeMax = 255
  FileSizes = {60, 128, 250}
  MaxKv = 2
  MaxTensors = 2
  MaxLen = 2
  MaxDepth = 2
  AlignmentValues = {0, 12, 24}
  Offsets = {0, 4, 24, 192, 300}
  StorageSizes = {8, 96}
SPECIFICATION Spec
INVARIANTS AllReleased PointersExact TensorsMapped
