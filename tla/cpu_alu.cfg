SPECIFICATION FairSpec
CONSTANTS
  NumRegs = 3
  ByteBits = 2
  MemSize = 8
  RobSize = 3
  AluRsSize = 2
  LsRsSize = 1
  SbSize = 1
  DmemDelay = 1
  MaxToken = 4
  MaxTag = 60
  Image <- MCImage
  Programs <- AluPrograms
INVARIANTS CpuTypeOK RatNamesYoungestWriter ReadyAliasIsCurrent
  CheckpointsFollowBranches
PROPERTIES ResultsStick AssertionsHold UsesPredictorAsAllowed ImplementsIsa RunReturns
