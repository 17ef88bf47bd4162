\* Three requests in a batch of two: one always waits.
CONSTANTS
  Id = {r1, r2, r3}
  Absent = Absent
  VocabSize = 2
  Bos = 0
  max_batch_size = 2
  Submission <- MCSubmission
SPECIFICATION Spec
INVARIANTS TypeOK EachRequestInOnePlace CachesAreIsolated PanicNeedsMisuse
PROPERTIES ImplementsRequestLifecycle EveryRequestCompletes
CHECK_DEADLOCK FALSE
