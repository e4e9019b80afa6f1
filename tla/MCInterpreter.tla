--------------------------- MODULE MCInterpreter ---------------------------
(***************************************************************************)
(* Programs for the interpreter: one instruction of every type, assembled, *)
(* in words of 16 bits, which keep the sign of every immediate.            *)
(***************************************************************************)
EXTENDS RiscvEncoding

\* li rd, imm
Li(rd, imm) == Decoded("ADDI", rd, 0, 0, imm)
Halt == Custom("HALT")

Alphabet ==
  {Decoded(t, 1, 1, 2, 0) : t \in AluRTypes} \cup
  {Decoded(t, 2, 1, 0, 3) : t \in AluITypes} \cup
  {Decoded(t, 1, 2, 0, 20) : t \in LoadTypes} \cup
  {Decoded(t, 0, 2, 1, 1) : t \in StoreTypes} \cup
  {Decoded(t, 0, 1, 2, 8) : t \in CondTypes} \cup
  {Decoded("JAL", 1, 0, 0, 8), Decoded("JALR", 1, 0, 0, 13),
   Li(0, 5), Li(2, -3), Decoded("SUB", 2, 0, 1, 0),
   Decoded("LUI", 1, 0, 0, -12288), Decoded("AUIPC", 2, 0, 0, 4096), Custom("NOP"), Halt}

\* ecall, which the decoder does not know, and an addition with a wrong funct7.
Ecall == Packed(0, 0, 0, 0, 0, 115)
Garbled == Packed(1, 0, 0, 0, 0, 51)

At(a)  == [at |-> a, digits |-> << >>]
Digits(d) == [at |-> -1, digits |-> d]
Byte2(b) == Digits(<<b \div 16, b % 16>>)
Word4(w) == <<Byte2(w.lo % 256), Byte2(w.lo \div 256), Byte2(w.hi % 256), Byte2(w.hi \div 256)>>

\* Data behind the code, with a sign for every width.
Data == <<At(20), Byte2(13), Byte2(9), Byte2(2), Byte2(0)>>
Words(ws) == [k \in 1 .. 4 * Len(ws) |-> Word4(ws[(k - 1) \div 4 + 1])[((k - 1) % 4) + 1]]

\* Two instructions after one that sets x1 to -2; the jump through x1 (to
\* -2 + 15, made even: the first HALT) comes right after it.
Program(a, b) == <<Encode(Li(1, -2)), a, b, HaltWord, HaltWord>>
Programs ==
  LET words == {Encode(i) : i \in Alphabet} \cup {Ecall, Garbled}
  IN  {Program(a, b) : a \in words \cup {Encode(Decoded("JALR", 1, 1, 0, 15))}, b \in words}

\* The spellings of a file: metadata in front or between, data first, bytes of
\* one digit, code that is placed twice, a digit in lower case, an address
\* outside the memory.
Metadata == Digits(<<6, 0, 0>>)
Spellings(p) ==
  LET code == Words(p)
  IN  {<<Metadata>> \o code \o Data,
       SubSeq(code, 1, 2) \o <<Metadata>> \o SubSeq(code, 3, 20) \o Data,
       Data \o <<Metadata, At(0)>> \o code,
       code \o <<At(20), Digits(<<13>>), Digits(<<9>>), Digits(<<2>>), Digits(<<0>>)>>,
       <<At(8)>> \o SubSeq(code, 1, 8) \o Data \o <<At(0)>> \o code,
       code \o <<Digits(<<NoDigit, 3>>)>>,
       code \o <<At(MemSize)>>}

MCTexts ==
  {<<At(0)>> \o Words(p) \o Data : p \in Programs} \cup
  Spellings(Program(Encode(Decoded("LH", 1, 2, 0, 20)), Encode(Decoded("ADD", 1, 1, 2, 0))))
============================================================================
