\* Tiles of 4 with microtiles of 2; up to two threads; two calls, so that a workspace is used again.
CONSTANTS
  TILE_ROWS = 4
  MICRO = 2
  FewInputs = 1
  LongRead = 2
  ShortRead = 1
  ParallelFrom = 4
  MaxThreads = 2
  MaxCalls = 2
  None = None
  Shape <- MCShape
SPECIFICATION TiledSpec
INVARIANT BlockSumsAreTheInputs
CHECK_DEADLOCK FALSE
