\* One ordinary request is enough.
CONSTANTS
  VocabSize = 2
  Bos = 0
  Preallocated = 4
  Submission <- MCSubmission
SPECIFICATION Spec
PROPERTIES RunGeneratesMaxTokens
CHECK_DEADLOCK FALSE
