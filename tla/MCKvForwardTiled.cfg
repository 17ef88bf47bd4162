\* Two layers and room for two tiled calls of three tokens.
CONSTANTS
  a = a
  b = b
  unknown = unknown
  Zero = Zero
  Token = {a, b, unknown}
  Vocab = {a, b}
  Batch <- MCBatch
  n_layers = 2
  max_seq = 12
  TILED_THRESHOLD = 3
SPECIFICATION Spec
INVARIANTS SeqLenCountsTokens
CHECK_DEADLOCK FALSE
