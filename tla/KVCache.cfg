\* Two layers, two kv heads shared by four query heads, two valid token ids and a bad
\* one; caches of up to three positions fit a size_t, one of four does not.
CONSTANTS
  VocabSize = 2
  BlockCount = 2
  ContextLength = 4
  HeadCount = 4
  HeadCountKV = 2
  HeadBytes = 10
  SizeMax = 127
  TokenIds = {0, 1, 2}
SPECIFICATION Spec
INVARIANTS TypeOK CacheMatchesContext InFlightInBounds PassFollowsContext
PROPERTIES CountedRowsKept ImplementsDecoder
