\* The registers start with whatever the stack held.
SPECIFICATION Spec
CONSTANTS
  NumRegs = 3
  ByteBits = 4
  MemSize = 24
  StartWords = {0, 1}
  Texts <- MCTexts
INVARIANT ZeroRegisterReadsZero
