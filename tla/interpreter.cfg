SPECIFICATION Spec
CONSTANTS
  NumRegs = 3
  ByteBits = 4
  MemSize = 24
  StartWords = {0}
  Texts <- MCTexts
INVARIANTS TypeOK StopsWhereIsaDoes DecodeInvertsEncode EncodeInvertsDecode
PROPERTIES LoadedAsMeant InterpreterIsIsa InterpreterReturns
