SPECIFICATION FairSpec
CONSTANTS
  NumRegs = 3
  ByteBits = 2
  MemSize = 8
  RobSize = 4
  AluRsSize = 2
  LsRsSize = 3
  SbSize = 2
  DmemDelay = 3
  MaxToken = 5
  MaxTag = 20
  Image <- MCImage
  Programs <- TwoStorePrograms
PROPERTY ImplementsIsa
