\* A pool of one to three threads, two calls of parallel() and a drop.
CONSTANTS
  Caller = t0
  Thread = {t0, t1, t2}
  NoThread = none
  Wrap = 4
  MaxCalls = 2
  MaxSpurious = 1
SPECIFICATION Spec
INVARIANTS PoolInv CleanCallIsJoined
PROPERTIES SleepingPoolAnswers
CHECK_DEADLOCK FALSE
