\* A three-slot ring, wrapped around twice.
SPECIFICATION Spec
CONSTANTS
  NumRegs = 2
  ByteBits = 2
  MemSize = 4
  RobSize = 3
  NewInstrs <- MCNewInstrs
  Words <- MCWords
  MaxTag = 5
INVARIANTS RobTypeOK RobContiguous RobTagsInOrder
PROPERTY IsInOrderQueue
CHECK_DEADLOCK FALSE
