\* Dependency dispatch.  Two layers, two KV heads, a cache of three positions, two passes in
\* flight, up to four tokens in up to one conversation after the first.
CONSTANTS
  n_layers = 2
  n_kv_heads = 2
  max_seq = 3
  pipeline_depth = 2
  dependency_dispatch = TRUE
  CpuGemm <- MCCpuGemm
  PromptLen = {2}
  MaxFed = 4
  MaxConv = 1
SPECIFICATION Spec
INVARIANTS GpuInv AnswersInOrder PassesSeeTheirConversation StaleAnswersAreFew RotatedAsEncoded
PROPERTIES EveryCallReturns
CHECK_DEADLOCK FALSE
