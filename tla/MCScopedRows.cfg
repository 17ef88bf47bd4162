\* One to three threads and four outputs, so three waits between them; claims of two rows;
\* `passed` wraps at 2, the smallest width for which the barrier is claimed to work.
CONSTANTS
  MaxThreads = 3
  Thread <- MCThread
  MaxRounds = 4
  Wrap = 2
  OutSize <- MCOutSize
  chunk_size = 2
SPECIFICATION Spec
INVARIANTS ScopedInv WrittenOnce PhasesAreSeparate BarrierInv NobodyLeavesEarly
PROPERTIES EveryRowIsComputed EveryoneIsReleased ImplementsRendezvous
