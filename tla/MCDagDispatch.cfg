\* The executor and the GPU stop when the pass has ended.
CONSTANTS
  dispatch_modes = {TRUE, FALSE}
  Dags <- MCDags
  Configs <- MCConfigs
SPECIFICATION Spec
CHECK_DEADLOCK FALSE
INVARIANTS PassInv OrderIsTopological OrderIsComplete DataIsReady
PROPERTY EveryPassEnds
