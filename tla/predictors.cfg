SPECIFICATION Spec
CONSTANTS
  NumRegs = 1
  ByteBits = 1
  MemSize = 1
  MaxToken = 3
  TABLE_SIZE = 2
  GLEN = 2
  NUM_TAGGED_TABLES = 2
  INDEX_BITS = 3
  BASE_TABLE_SIZE = 2
  MAX_HISTORY = 4
  PATH_BITS = 1
  HISTORY_LENGTHS <- MCLengths
  TAG_WIDTHS <- MCWidths
  AGE_PERIOD = 3
  PCs <- MCPCs
  MaxInFlight = 3
  Scripts <- MCScripts
  Kinds = {"naive", "bimodal", "gshare", "tournament", "tage"}
INVARIANTS
  PredictorTypeOK PredictorNeverAsserts FoldsMatchHistory SpeculationIsAChain
  ProvidersStayInPlace TablesIgnoreCallOrder PredictorInvariant
PROPERTIES ImplementsCheckpoints LearnsInOrder Learns
