\* Two requests of different priority and room for one of them.
CONSTANTS
  Id = {r1, r2}
  Absent = Absent
  VocabSize = 2
  Bos = 0
  max_batch_size = 1
  Submission <- MCSubmission
SPECIFICATION Spec
PROPERTY StartsByPriority
CHECK_DEADLOCK FALSE
