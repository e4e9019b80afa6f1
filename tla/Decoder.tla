------------------------------ MODULE Decoder ------------------------------
(***************************************************************************)
(* Instr::decode, src/src/decoder/instr.cpp: from the 32 bits of a word to *)
(* a type, registers and a signed immediate.  A word is the pair of its    *)
(* halves, so that no number here is larger than TLC's integers.           *)
(***************************************************************************)
EXTENDS Isa

RawWord  == [lo: 0 .. 2 ^ 16 - 1, hi: 0 .. 2 ^ 16 - 1]
HaltWord == [lo |-> \h0513, hi |-> \h0ff0]      \* addi a0, x0, 255

Opcode(w) == w.lo % 2 ^ 7
Rd(w)     == (w.lo \div 2 ^ 7) % 2 ^ 5
Funct3(w) == (w.lo \div 2 ^ 12) % 2 ^ 3
Rs1(w)    == w.lo \div 2 ^ 15 + 2 * (w.hi % 2 ^ 4)
Rs2(w)    == (w.hi \div 2 ^ 4) % 2 ^ 5
Funct7(w) == w.hi \div 2 ^ 9

----------------------------------------------------------------------------
(* Immediates                                                              *)

SignExtended(v, bits) == IF v >= 2 ^ (bits - 1) THEN v - 2 ^ bits ELSE v

ImmI(w) == SignExtended(Funct7(w) * 2 ^ 5 + Rs2(w), 12)

ImmS(w) == SignExtended(Funct7(w) * 2 ^ 5 + Rd(w), 12)

\* Mutant of ImmB: the top bit is not the sign.
ImmBUnsigned(w) ==
  (Funct7(w) \div 2 ^ 6) * 2 ^ 12 + (Rd(w) % 2) * 2 ^ 11
    + (Funct7(w) % 2 ^ 6) * 2 ^ 5 + (Rd(w) \div 2) * 2

ImmB(w) ==
  SignExtended((Funct7(w) \div 2 ^ 6) * 2 ^ 12 + (Rd(w) % 2) * 2 ^ 11
                 + (Funct7(w) % 2 ^ 6) * 2 ^ 5 + (Rd(w) \div 2) * 2, 13)

ImmJ(w) ==
  SignExtended((Funct7(w) \div 2 ^ 6) * 2 ^ 20 + (Rs1(w) * 2 ^ 3 + Funct3(w)) * 2 ^ 12
                 + (Rs2(w) % 2) * 2 ^ 11
                 + (Funct7(w) % 2 ^ 6) * 2 ^ 5 + (Rs2(w) \div 2) * 2, 21)

ImmU(w) ==
  SignExtended(Funct7(w) * 2 ^ 13 + Rs2(w) * 2 ^ 8 + Rs1(w) * 2 ^ 3 + Funct3(w), 20) * 2 ^ 12

----------------------------------------------------------------------------
(* Types by their function fields; on ILLEGAL decode asserts.              *)

\* Mutant of RType: a funct7 that no instruction has is ignored.
RTypeLax(w) ==
  CASE Funct7(w) = 32 /\ Funct3(w) = 0 -> "SUB"
    [] Funct7(w) = 32 /\ Funct3(w) = 5 -> "SRA"
    [] OTHER -> <<"ADD", "SLL", "SLT", "SLTU", "XOR", "SRL", "OR", "AND">>[Funct3(w) + 1]

RType(w) ==
  CASE Funct7(w) = 0  -> <<"ADD", "SLL", "SLT", "SLTU", "XOR", "SRL", "OR", "AND">>[Funct3(w) + 1]
    [] Funct7(w) = 32 /\ Funct3(w) = 0 -> "SUB"
    [] Funct7(w) = 32 /\ Funct3(w) = 5 -> "SRA"
    [] OTHER -> "ILLEGAL"

IsShift(w) == Funct3(w) \in {1, 5}

IType(w) ==
  CASE Funct3(w) = 5 /\ Funct7(w) = 32 -> "SRAI"
    [] Funct3(w) = 5 /\ Funct7(w) \notin {0, 32} -> "ILLEGAL"
    [] Funct3(w) = 1 /\ Funct7(w) # 0 -> "ILLEGAL"
    [] Funct3(w) = 0 /\ Rd(w) = 0 /\ Rs1(w) = 0 /\ ImmI(w) = 0 -> "NOP"
    [] OTHER -> <<"ADDI", "SLLI", "SLTI", "SLTIU", "XORI", "SRLI", "ORI", "ANDI">>[Funct3(w) + 1]

LoadType(w) ==
  <<"LB", "LH", "LW", "ILLEGAL", "LBU", "LHU", "ILLEGAL", "ILLEGAL">>[Funct3(w) + 1]

StoreType(w) == IF Funct3(w) < 3 THEN <<"SB", "SH", "SW">>[Funct3(w) + 1] ELSE "ILLEGAL"

CondType(w) ==
  <<"BEQ", "BNE", "ILLEGAL", "ILLEGAL", "BLT", "BGE", "BLTU", "BGEU">>[Funct3(w) + 1]

----------------------------------------------------------------------------
Decoded(type, rd, rs1, rs2, imm) ==
  [type |-> type, rd |-> rd, rs1 |-> rs1, rs2 |-> rs2, imm |-> imm]

\* imm is signed; the fields a format does not have are zero, except that HALT's
\* 255 lands in rs2, where nothing reads it.
Decode(w) ==
  IF w = HaltWord THEN Decoded("HALT", 0, 0, 255, 0)
  ELSE CASE Opcode(w) = \b0110011 -> Decoded(RType(w), Rd(w), Rs1(w), Rs2(w), 0)
         [] Opcode(w) = \b0010011 ->
              Decoded(IType(w), Rd(w), Rs1(w), 0, IF IsShift(w) THEN Rs2(w) ELSE ImmI(w))
         [] Opcode(w) = \b0000011 -> Decoded(LoadType(w), Rd(w), Rs1(w), 0, ImmI(w))
         [] Opcode(w) = \b0100011 -> Decoded(StoreType(w), 0, Rs1(w), Rs2(w), ImmS(w))
         [] Opcode(w) = \b1100011 -> Decoded(CondType(w), 0, Rs1(w), Rs2(w), ImmB(w))
         [] Opcode(w) = \b1101111 -> Decoded("JAL", Rd(w), 0, 0, ImmJ(w))
         [] Opcode(w) = \b1100111 ->
              Decoded(IF Funct3(w) = 0 THEN "JALR" ELSE "ILLEGAL", Rd(w), Rs1(w), 0, ImmI(w))
         [] Opcode(w) = \b0010111 -> Decoded("AUIPC", Rd(w), 0, 0, ImmU(w))
         [] Opcode(w) = \b0110111 -> Decoded("LUI", Rd(w), 0, 0, ImmU(w))
         [] OTHER -> Decoded("UNKNOWN", Rd(w), Rs1(w), Rs2(w), 0)
============================================================================
