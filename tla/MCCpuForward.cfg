\* The cache: two layers and five positions, so that it is filled by several calls and the
\* tiled path can pass the end of it.
\* The products: tiles of 4 with microtiles of 2, up to two threads, and two calls, so that a
\* workspace is used again.
CONSTANTS
  a = a
  b = b
  unknown = unknown
  Zero = Zero
  Token = {a, b, unknown}
  Vocab = {a, b}
  Batch <- MCBatch
  n_layers = 2
  max_seq = 5
  TILED_THRESHOLD = 3
  TILE_ROWS = 4
  MICRO = 2
  FewInputs = 1
  LongRead = 2
  ShortRead = 1
  ParallelFrom = 4
  MaxThreads = 2
  MaxCalls = 2
  None = None
  Shape <- MCShape
SPECIFICATION CpuSpec
INVARIANTS KvInv CacheHoldsHistory TiledInv SumsAreWhole StoredOnce
PROPERTIES PrefixIsImmutable EveryCellIsStored
CHECK_DEADLOCK FALSE
