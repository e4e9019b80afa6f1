-------------------------------- MODULE Isa --------------------------------
(***************************************************************************)
(* The instruction set both machines of the repository run: the program    *)
(* interpreter (src/src/interpreter) and the out-of-order simulator        *)
(* (src/src/tomasulo).  Everything here is a pure operator.                *)
(*                                                                         *)
(* The word is scaled: a word is always four bytes, as in RV32I, but a     *)
(* byte has ByteBits bits instead of eight, so that wrap-around, sign      *)
(* extension and alignment all happen among small numbers.  ByteBits = 8   *)
(* is the real machine.  Words are naturals below WordBase; a decoded      *)
(* immediate is kept in two's complement, as the code uses it.             *)
(***************************************************************************)
EXTENDS Integers, Sequences

CONSTANTS
  NumRegs,    \* registers of the file (32 in the code)
  ByteBits,   \* bits of a byte (8 in the code)
  MemSize     \* bytes of simulated data memory (2^20 in the code)

WordBits == 4 * ByteBits
ByteBase == 2 ^ ByteBits
HalfBase == ByteBase * ByteBase
WordBase == HalfBase * HalfBase

\* There are registers and memory, and a word has a zero: the last conjunct
\* holds for every ByteBits in Nat, but exponents are beyond the provers.
ASSUME IsaAssumption ==
  /\ NumRegs \in Nat \ {0} /\ ByteBits \in Nat
  /\ MemSize \in Nat \ {0}
  /\ WordBase \in Nat \ {0}

Reg  == 0 .. NumRegs - 1
Word == 0 .. WordBase - 1
Byte == 0 .. ByteBase - 1
MemAddr == 0 .. MemSize - 1

Wrap(x)   == x % WordBase
Signed(w) == IF w < WordBase \div 2 THEN w ELSE w - WordBase

----------------------------------------------------------------------------
(* Instruction types, and the place that executes each of them.            *)

AluRTypes   == {"ADD", "SUB", "AND", "OR", "XOR", "SLL", "SRL", "SRA", "SLT", "SLTU"}
AluITypes   == {"ADDI", "ANDI", "ORI", "XORI", "SLLI", "SRLI", "SRAI", "SLTI", "SLTIU"}
LoadTypes   == {"LB", "LBU", "LH", "LHU", "LW"}
StoreTypes  == {"SB", "SH", "SW"}
CondTypes   == {"BEQ", "BGE", "BGEU", "BLT", "BLTU", "BNE"}
JumpTypes   == {"JAL", "JALR"}
UpperTypes  == {"AUIPC", "LUI"}
\* ILLEGAL stands for the words whose funct fields Instr::decode asserts on.
NoPlaceTypes == {"NOP", "HALT", "UNKNOWN", "ILLEGAL"}

BranchTypes == CondTypes \cup JumpTypes
LsTypes     == LoadTypes \cup StoreTypes
AluTypes    == AluRTypes \cup AluITypes \cup UpperTypes \cup BranchTypes
InstrType   == AluTypes \cup LsTypes \cup NoPlaceTypes

Instr == [type: InstrType, rd: Reg, rs1: Reg, rs2: Reg, imm: Word]

\* What decode leaves in the fields an instruction format does not have.
RForm(type, rd, rs1, rs2)  == [type |-> type, rd |-> rd, rs1 |-> rs1, rs2 |-> rs2, imm |-> 0]
IForm(type, rd, rs1, imm)  == [type |-> type, rd |-> rd, rs1 |-> rs1, rs2 |-> 0, imm |-> Wrap(imm)]
SForm(type, rs1, rs2, imm) == [type |-> type, rd |-> 0, rs1 |-> rs1, rs2 |-> rs2, imm |-> Wrap(imm)]
BForm(type, rs1, rs2, imm) == [type |-> type, rd |-> 0, rs1 |-> rs1, rs2 |-> rs2, imm |-> Wrap(imm)]
UForm(type, rd, imm)       == [type |-> type, rd |-> rd, rs1 |-> 0, rs2 |-> 0, imm |-> Wrap(imm)]
Custom(type)           == [type |-> type, rd |-> 0, rs1 |-> 0, rs2 |-> 0, imm |-> 0]

\* A program is the image of the instruction memory, one decoded word after
\* the other; the memory beyond it is zero, which decodes to UNKNOWN.
InstrAt(prog, pc) ==
  IF pc % 4 = 0 /\ pc \div 4 + 1 \in DOMAIN prog
  THEN prog[pc \div 4 + 1]
  ELSE Custom("UNKNOWN")

----------------------------------------------------------------------------
(* The arithmetic of the ALU.                                              *)

Bit(w, i) == (w \div 2 ^ i) % 2

\* The word whose bit i is F(bit i of a, bit i of b).
BitWise(F(_, _), a, b) ==
  LET upTo[i \in 0 .. WordBits] ==
        IF i = 0 THEN 0 ELSE upTo[i - 1] + F(Bit(a, i - 1), Bit(b, i - 1)) * 2 ^ (i - 1)
  IN  upTo[WordBits]

AndBit(x, y) == x * y
OrBit(x, y)  == x + y - x * y
XorBit(x, y) == (x + y) % 2

\* A shift by the width or more is undefined in C++; the shift instructions of
\* the machines this is built for keep the low bits of the amount.
ShiftAmount(w) == w % WordBits

\* alu_comp and alu_compi: the I forms take the immediate as second source.
AluOp(type, s1, s2) ==
  CASE type \in {"ADD", "ADDI"}   -> Wrap(s1 + s2)
    [] type = "SUB"               -> Wrap(s1 - s2)
    [] type \in {"AND", "ANDI"}   -> BitWise(AndBit, s1, s2)
    [] type \in {"OR", "ORI"}     -> BitWise(OrBit, s1, s2)
    [] type \in {"XOR", "XORI"}   -> BitWise(XorBit, s1, s2)
    [] type \in {"SLL", "SLLI"}   -> Wrap(s1 * 2 ^ ShiftAmount(s2))
    [] type \in {"SRL", "SRLI"}   -> s1 \div 2 ^ ShiftAmount(s2)
    [] type \in {"SRA", "SRAI"}   -> Wrap(Signed(s1) \div 2 ^ ShiftAmount(s2))
    [] type \in {"SLT", "SLTI"}   -> IF Signed(s1) < Signed(s2) THEN 1 ELSE 0
    [] type \in {"SLTU", "SLTIU"} -> IF s1 < s2 THEN 1 ELSE 0

CondTaken(type, s1, s2) ==
  CASE type = "BEQ"  -> s1 = s2
    [] type = "BNE"  -> s1 # s2
    [] type = "BLT"  -> Signed(s1) < Signed(s2)
    [] type = "BGE"  -> Signed(s1) >= Signed(s2)
    [] type = "BLTU" -> s1 < s2
    [] type = "BGEU" -> s1 >= s2

\* Mutant of JalrTarget: the sum is kept in a wider integer.
JalrTargetWide(s1, imm) == (s1 + imm) - ((s1 + imm) % 2)

JalrTarget(s1, imm) == LET t == Wrap(s1 + imm) IN t - (t % 2)

----------------------------------------------------------------------------
(* Data memory: SimMemory's bounds, DataMemory's widths and alignment.     *)

Memory == [MemAddr -> Byte]

ByteAt(m, a) == IF a \in MemAddr THEN m[a] ELSE 0

SizeOf(type) ==
  CASE type \in {"LB", "LBU", "SB"} -> 1
    [] type \in {"LH", "LHU", "SH"} -> 2
    [] type \in {"LW", "SW"}        -> 4

\* read_half and read_word assert the alignment; the writes do not check it.
Misaligned(type, a) == type \in {"LH", "LHU", "LW"} /\ a % SizeOf(type) # 0

\* Mutant of Extend: the sign is not carried into the upper bytes.
ExtendSigned(type, v) ==
  LET base == CASE SizeOf(type) = 1 -> ByteBase [] SizeOf(type) = 2 -> HalfBase [] OTHER -> WordBase
      low  == v % base
  IN  IF type \in {"LB", "LH"} /\ low >= base \div 2 THEN low - base ELSE low

\* What a load of this type makes of a value whose low bytes it takes.
Extend(type, v) ==
  LET base == CASE SizeOf(type) = 1 -> ByteBase [] SizeOf(type) = 2 -> HalfBase [] OTHER -> WordBase
      low  == v % base
  IN  IF type \in {"LB", "LH"} /\ low >= base \div 2 THEN low + (WordBase - base) ELSE low

ReadMem(m, type, a) ==
  Extend(type, ByteAt(m, a) + ByteAt(m, a + 1) * ByteBase
               + ByteAt(m, a + 2) * HalfBase + ByteAt(m, a + 3) * HalfBase * ByteBase)

WriteMem(m, type, a, v) ==
  [b \in MemAddr |-> IF b \in a .. a + SizeOf(type) - 1
                     THEN (v \div ByteBase ^ (b - a)) % ByteBase
                     ELSE m[b]]
============================================================================
