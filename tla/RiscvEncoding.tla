--------------------------- MODULE RiscvEncoding ---------------------------
(***************************************************************************)
(* The encoding of the instruction set, as its manual gives it and as an   *)
(* assembler does it: the other direction of Decoder, and the reference    *)
(* for it.  Nothing here is code of the repository.                        *)
(***************************************************************************)
EXTENDS Interpreter

\* Bits hi .. lo of an immediate in two's complement.
Field(imm, hi, lo) == (imm \div 2 ^ lo) % 2 ^ (hi - lo + 1)

\* A word from its six fields.
Packed(funct7, rs2, rs1, funct3, rd, opcode) ==
  [lo |-> opcode + rd * 2 ^ 7 + funct3 * 2 ^ 12 + (rs1 % 2) * 2 ^ 15,
   hi |-> rs1 \div 2 + rs2 * 2 ^ 4 + funct7 * 2 ^ 9]

\* funct3 of every type that has one.
Funct3Of ==
  [ADD |-> 0, SUB |-> 0, SLL |-> 1, SLT |-> 2, SLTU |-> 3, XOR |-> 4, SRL |-> 5, SRA |-> 5,
   OR |-> 6, AND |-> 7,
   ADDI |-> 0, SLLI |-> 1, SLTI |-> 2, SLTIU |-> 3, XORI |-> 4, SRLI |-> 5, SRAI |-> 5,
   ORI |-> 6, ANDI |-> 7,
   LB |-> 0, LH |-> 1, LW |-> 2, LBU |-> 4, LHU |-> 5, SB |-> 0, SH |-> 1, SW |-> 2,
   BEQ |-> 0, BNE |-> 1, BLT |-> 4, BGE |-> 5, BLTU |-> 6, BGEU |-> 7, JALR |-> 0]

EncodeI(opcode, i) ==
  Packed(Field(i.imm, 11, 5), Field(i.imm, 4, 0), i.rs1, Funct3Of[i.type], i.rd, opcode)

EncodeU(opcode, i) ==
  Packed(Field(i.imm, 31, 25), Field(i.imm, 24, 20), Field(i.imm, 19, 15),
         Field(i.imm, 14, 12), i.rd, opcode)

Encode(i) ==
  CASE i.type \in AluRTypes ->
         Packed(IF i.type \in {"SUB", "SRA"} THEN 32 ELSE 0,
                i.rs2, i.rs1, Funct3Of[i.type], i.rd, 51)
    [] i.type \in {"SLLI", "SRLI", "SRAI"} ->
         Packed(IF i.type = "SRAI" THEN 32 ELSE 0, i.imm, i.rs1, Funct3Of[i.type], i.rd, 19)
    [] i.type \in AluITypes \ {"SLLI", "SRLI", "SRAI"} -> EncodeI(19, i)
    [] i.type \in LoadTypes -> EncodeI(3, i)
    [] i.type = "JALR" -> EncodeI(103, i)
    [] i.type \in StoreTypes ->
         Packed(Field(i.imm, 11, 5), i.rs2, i.rs1, Funct3Of[i.type], Field(i.imm, 4, 0), 35)
    [] i.type \in CondTypes ->
         Packed(2 ^ 6 * Field(i.imm, 12, 12) + Field(i.imm, 10, 5), i.rs2, i.rs1,
                Funct3Of[i.type], 2 * Field(i.imm, 4, 1) + Field(i.imm, 11, 11), 99)
    [] i.type = "JAL" ->
         Packed(2 ^ 6 * Field(i.imm, 20, 20) + Field(i.imm, 10, 5),
                2 * Field(i.imm, 4, 1) + Field(i.imm, 11, 11),
                Field(i.imm, 19, 15), Field(i.imm, 14, 12), i.rd, 111)
    [] i.type = "AUIPC" -> EncodeU(23, i)
    [] i.type = "LUI"   -> EncodeU(55, i)
    [] i.type = "NOP"   -> Packed(0, 0, 0, 0, 0, 19)
    [] i.type = "HALT"  -> HaltWord

----------------------------------------------------------------------------
(* Samples: registers with every bit set in one of them, immediates with   *)
(* every bit alone and the ends of their ranges, fields no format has.     *)

SampleRegs == {0, 1, 10, 21, 31}

\* Immediates of bits bits that are multiples of unit.
SampleImms(bits, unit) ==
  {k \in {2 ^ b : b \in 0 .. bits - 2} \cup {0, -unit, unit - 2 ^ (bits - 1),
                                             2 ^ (bits - 1) - unit, - (2 ^ (bits - 1))} :
     k % unit = 0}

Samples ==
  {Decoded(t, rd, rs1, rs2, 0) : t \in AluRTypes, rd, rs1, rs2 \in SampleRegs} \cup
  {Decoded(t, rd, rs1, 0, imm) : t \in (AluITypes \ {"SLLI", "SRLI", "SRAI"}) \cup LoadTypes \cup {"JALR"},
                                 rd, rs1 \in SampleRegs, imm \in SampleImms(12, 1)} \cup
  {Decoded(t, rd, rs1, 0, imm) : t \in {"SLLI", "SRLI", "SRAI"},
                                 rd, rs1 \in SampleRegs, imm \in 0 .. 31} \cup
  {Decoded(t, 0, rs1, rs2, imm) : t \in StoreTypes, rs1, rs2 \in SampleRegs, imm \in SampleImms(12, 1)} \cup
  {Decoded(t, 0, rs1, rs2, imm) : t \in CondTypes, rs1, rs2 \in SampleRegs, imm \in SampleImms(13, 2)} \cup
  {Decoded("JAL", rd, 0, 0, imm) : rd \in SampleRegs, imm \in SampleImms(21, 2)} \cup
  {Decoded(t, rd, 0, 0, imm * 2 ^ 12) : t \in UpperTypes, rd \in SampleRegs, imm \in SampleImms(20, 1)}

\* The words that this decoder takes for something else: its two own instructions.
Reserved == {Encode(Custom("NOP")), HaltWord}

\* The word the interpreter is about to run.
fetched == RawAt(pc)

\* Words that decode takes for an instruction.
Taken(w) == Decode(w).type \notin {"ILLEGAL", "UNKNOWN"}

ReadBack(i) == Encode(i) \in Reserved \/ Decode(Encode(i)) = i
Misread == {i \in Samples : ~ReadBack(i)}

\* What is assembled is decoded back, every register and every bit of every
\* immediate in its place (instr.cpp:86, 139, 168, 191, 229, 241, 246, 251),
\* in the samples and in whatever program runs.
DecodeInvertsEncode ==
  /\ Misread = {}
  /\ Taken(fetched) => ReadBack(Decode(fetched))

SampleWords ==
  {Packed(f7, rs2, rs1, f3, rd, op) :
     f7 \in {0, 1, 32, 33, 64, 127}, rs2, rs1, rd \in {0, 21, 31}, f3 \in 0 .. 7,
     op \in {0, 3, 19, 23, 35, 51, 55, 99, 103, 111, 115, 127}}

Mistaken(w) == Taken(w) /\ Encode(Decode(w)) # w
MistakenWords == {w \in SampleWords : Mistaken(w)}

\* No word is taken for an instruction it does not encode: whatever decode
\* neither asserts on nor passes over is assembled back to the same word.
EncodeInvertsDecode ==
  /\ MistakenWords = {}
  /\ ~Mistaken(fetched)
============================================================================
