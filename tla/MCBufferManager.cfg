\* Two ids that compete for two buffers on each device, and clients with two handles.
CONSTANTS
  Id = {i1, i2}
  Buffer = {b1, b2}
  None = None
  Outdated = Outdated
  MaxRefs = 2
SYMMETRY MCSymmetry
SPECIFICATION Spec
INVARIANTS BufferInv WrittenDataIsKept
CHECK_DEADLOCK FALSE
