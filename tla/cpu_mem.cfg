SPECIFICATION FairSpec
CONSTANTS
  NumRegs = 3
  ByteBits = 2
  MemSize = 8
  RobSize = 3
  AluRsSize = 2
  LsRsSize = 3
  SbSize = 2
  DmemDelay = 2
  MaxToken = 5
  MaxTag = 60
  Image <- MCImage
  Programs <- MemPrograms
INVARIANTS CpuTypeOK StoreBufferHoldsTheStores RequestsHaveOwners
  ForwardedIsMemoryValue StationsHoldTheWaiting NoLostWakeup PipelineInvariant
PROPERTIES ImplementsIsa RunReturns
