\* All tables of up to three of six merges, and all texts of up to six characters out of two.
CONSTANTS
  MaxMerges = 3
  MaxText = 6
  None = None
  Table <- MCTable
  Text <- MCText
SPECIFICATION Spec
INVARIANTS MergeInv
PROPERTIES ImplementsGreedyMerge
CHECK_DEADLOCK FALSE
