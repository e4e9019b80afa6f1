----------------------------- MODULE Interpreter -----------------------------
(***************************************************************************)
(* The sequential interpreter, src/src/interpreter/interpreter.cpp: step() *)
(* fetches, decodes and executes one instruction.  Each of the places the  *)
(* switch of step() tells apart is an action.                              *)
(*                                                                         *)
(* The program is loaded from its text into an instruction and a data      *)
(* memory; instructions are read from the one and decoded.                 *)
(*                                                                         *)
(* The registers are an array without an initialiser (regfile.hpp:12 of    *)
(* the interpreter): they start with anything.                             *)
(***************************************************************************)
EXTENDS Decoder, HexImage

LOCAL INSTANCE FiniteSetsExt

CONSTANTS
  Texts,       \* the program files load_program may read
  StartWords   \* what an uninitialised register may hold

ASSUME InterpreterAssumption ==
  /\ Texts \subseteq Seq(Token)
  /\ StartWords \subseteq Word

VARIABLES text, loaded, imem, mem, pc, regs, halted, aborted

vars == <<text, loaded, imem, mem, pc, regs, halted, aborted>>

Init ==
  /\ text \in Texts
  /\ loaded = FALSE
  /\ imem = NoImage
  /\ mem = NoImage
  /\ pc = 0
  /\ regs \in [Reg -> StartWords]
  /\ halted = FALSE
  /\ aborted = FALSE

\* The data memory gets the same bytes, of which its narrower ones keep the
\* low bits.
Narrowed(image) == [a \in MemAddr |-> image[a] % ByteBase]

\* load_program; the registers stay what they are.
LoadProgram ==
  /\ ~loaded /\ ~aborted
  /\ LET image == LoadHexData(text)
     IN  IF image.failed
         THEN aborted' = TRUE /\ UNCHANGED <<loaded, imem, mem, pc, halted>>
         ELSE /\ loaded' = TRUE
              /\ imem' = image.mem
              /\ mem' = Narrowed(image.mem)
              /\ pc' = 0
              /\ halted' = FALSE
              /\ UNCHANGED aborted
  /\ UNCHANGED <<text, regs>>

\* read_instr: what is beyond the memory reads as zero.
ImemByte(at) == IF at \in MemAddr THEN imem[at] ELSE 0
RawAt(at) == [lo |-> ImemByte(at) + 256 * ImemByte(at + 1),
              hi |-> ImemByte(at + 2) + 256 * ImemByte(at + 3)]

\* The immediate is added to words, and wraps as they do.
AsWord(i) == [i EXCEPT !.imm = Wrap(@)]
ins  == AsWord(Decode(RawAt(pc)))
src1 == regs[ins.rs1]
src2 == regs[ins.rs2]
addr == Wrap(ins.imm + src1)

Runs == loaded /\ ~halted /\ ~aborted

\* write_reg, and the reset of x0 at the end of step(): the array as step()
\* leaves it.  A store or a branch only resets x0.
Writes(r, val) == regs' = [[regs EXCEPT ![r] = val] EXCEPT ![0] = 0]
WritesNothing  == regs' = [regs EXCEPT ![0] = 0]

GoesOn == pc' = Wrap(pc + 4)

StepHalt ==
  /\ Runs /\ ins.type = "HALT"
  /\ halted' = TRUE
  /\ UNCHANGED <<text, loaded, imem, pc, regs, mem, aborted>>

StepAlu ==
  /\ Runs /\ ins.type \in AluRTypes \cup AluITypes
  /\ Writes(ins.rd, AluOp(ins.type, src1, IF ins.type \in AluITypes THEN ins.imm ELSE src2))
  /\ GoesOn
  /\ UNCHANGED <<text, loaded, imem, mem, halted, aborted>>

StepLoad ==
  /\ Runs /\ ins.type \in LoadTypes
  /\ ~Misaligned(ins.type, addr)
  /\ Writes(ins.rd, ReadMem(mem, ins.type, addr))
  /\ GoesOn
  /\ UNCHANGED <<text, loaded, imem, mem, halted, aborted>>

StepStore ==
  /\ Runs /\ ins.type \in StoreTypes
  /\ mem' = WriteMem(mem, ins.type, addr, src2)
  /\ WritesNothing
  /\ GoesOn
  /\ UNCHANGED <<text, loaded, imem, halted, aborted>>

StepUpper ==
  /\ Runs /\ ins.type \in UpperTypes
  /\ Writes(ins.rd, IF ins.type = "AUIPC" THEN Wrap(pc + ins.imm) ELSE ins.imm)
  /\ GoesOn
  /\ UNCHANGED <<text, loaded, imem, mem, halted, aborted>>

\* Mutant of StepBranch: JALR writes the link register before it reads its base.
StepBranchLinksFirst ==
  /\ Runs /\ ins.type \in BranchTypes
  /\ IF ins.type \in JumpTypes THEN Writes(ins.rd, Wrap(pc + 4)) ELSE WritesNothing
  /\ pc' = CASE ins.type = "JALR" -> JalrTarget(regs'[ins.rs1], ins.imm)
             [] ins.type = "JAL"  -> Wrap(pc + ins.imm)
             [] OTHER -> IF CondTaken(ins.type, src1, src2) THEN Wrap(pc + ins.imm)
                                                            ELSE Wrap(pc + 4)
  /\ UNCHANGED <<text, loaded, imem, mem, halted, aborted>>

\* Mutant of StepBranch: a branch that is not taken does not move pc either.
StepBranchStays ==
  /\ Runs /\ ins.type \in BranchTypes
  /\ IF ins.type \in JumpTypes THEN Writes(ins.rd, Wrap(pc + 4)) ELSE WritesNothing
  /\ pc' = CASE ins.type = "JALR" -> JalrTarget(src1, ins.imm)
             [] ins.type = "JAL"  -> Wrap(pc + ins.imm)
             [] OTHER -> IF CondTaken(ins.type, src1, src2) THEN Wrap(pc + ins.imm) ELSE pc
  /\ UNCHANGED <<text, loaded, imem, mem, halted, aborted>>

StepBranch ==
  /\ Runs /\ ins.type \in BranchTypes
  /\ IF ins.type \in JumpTypes THEN Writes(ins.rd, Wrap(pc + 4)) ELSE WritesNothing
  /\ pc' = CASE ins.type = "JALR" -> JalrTarget(src1, ins.imm)
             [] ins.type = "JAL"  -> Wrap(pc + ins.imm)
             [] OTHER -> IF CondTaken(ins.type, src1, src2) THEN Wrap(pc + ins.imm)
                                                            ELSE Wrap(pc + 4)
  /\ UNCHANGED <<text, loaded, imem, mem, halted, aborted>>

StepNop ==
  /\ Runs /\ ins.type \in {"NOP", "UNKNOWN"}
  /\ WritesNothing
  /\ GoesOn
  /\ UNCHANGED <<text, loaded, imem, mem, halted, aborted>>

\* Mutant of StepAborts: an unknown word is taken for an illegal one.
StepAbortsOnUnknown ==
  /\ Runs
  /\ ins.type \in {"ILLEGAL", "UNKNOWN"}
  /\ aborted' = TRUE
  /\ UNCHANGED <<text, loaded, imem, pc, regs, mem, halted>>

\* An assertion of decode or of the data memory ends the process.
StepAborts ==
  /\ Runs
  /\ \/ ins.type = "ILLEGAL"
     \/ Misaligned(ins.type, addr)
  /\ aborted' = TRUE
  /\ UNCHANGED <<text, loaded, imem, pc, regs, mem, halted>>

\* run() has returned, or the process has ended.
Stopped == (halted \/ aborted) /\ UNCHANGED vars

Step == \/ StepHalt \/ StepAlu \/ StepLoad \/ StepStore
        \/ StepUpper \/ StepBranch \/ StepNop \/ StepAborts

Next == LoadProgram \/ Step \/ Stopped

\* run() calls step() again and again.
Spec == Init /\ [][Next]_vars /\ WF_vars(Step)

----------------------------------------------------------------------------
\* Type invariant of the interpreter: pc and registers stay words, whatever is
\* added to them.
TypeOK ==
  /\ text \in Seq(Token) /\ loaded \in BOOLEAN
  /\ imem \in [MemAddr -> 0 .. 255] /\ mem \in Memory
  /\ pc \in Word /\ regs \in [Reg -> Word]
  /\ halted \in BOOLEAN /\ aborted \in BOOLEAN

\* What a text means: each byte stands as far behind the address before it as
\* there are bytes in between, and the last one of an address counts.
PlaceOf(t, k) ==
  LET a == Max({0} \cup {j \in 1 .. k - 1 : IsAddress(t[j])})
  IN  (IF a = 0 THEN 0 ELSE t[a].at) + Cardinality({j \in a + 1 .. k - 1 : IsByte(t[j])})
Meant(t) ==
  LET place == [k \in DOMAIN t |-> PlaceOf(t, k)]
      At(a) == {k \in DOMAIN t : IsByte(t[k]) /\ place[k] = a}
  IN  [a \in MemAddr |-> IF At(a) = {} THEN 0 ELSE ByteOf(t[Max(At(a))].digits)]
WellFormed(t) ==
  \A k \in DOMAIN t : /\ IsAddress(t[k]) => t[k].at < MemSize
                      /\ IsByte(t[k]) => \A i \in DOMAIN t[k].digits : t[k].digits[i] # NoDigit

\* The memory of a program is the one its text means: one metadata token more
\* or a byte of one digit does not shift what follows ("instead of
\* desynchronising the image", simmem.cpp:32-34).
LoadedAsMeant == [][loaded' # loaded => imem' = Meant(text)]_vars

\* Any program and any memory; fields of a word that is none may be anything.
Decodable ==
  Seq([type: InstrType, rd: 0 .. 31, rs1: 0 .. 31, rs2: 0 .. 31 \cup {255}, imm: Word])
program == [k \in 1 .. MemSize \div 4 |-> AsWord(Decode(RawAt(4 * k - 4)))]

Skip == INSTANCE ArchSpec WITH Programs <- Decodable, Images <- Memory, prog <- program
Arch == INSTANCE ArchSpec WITH Programs <- Decodable, Images <- Memory, prog <- program,
                               pc <- Skip!AfterNops(program, pc)

\* From load_program on the interpreter is the instruction set: no instruction
\* reads a source that an earlier part of its own step has changed
\* (interpreter.cpp:155-163), and what one writes to x0 is gone before the next
\* reads it (interpreter.cpp:186).
InterpreterIsIsa ==
  /\ [][~loaded /\ loaded' => Arch!Init']_vars
  /\ [][loaded => Arch!Step \/ UNCHANGED Arch!archvars]_vars

\* It stops only at the HALT, on an instruction the machine is not defined on,
\* or on a text that is none.
StopsWhereIsaDoes ==
  (halted => ins.type = "HALT") /\ (aborted => Arch!Undefined \/ ~WellFormed(text))

\* x0 is zero whenever an instruction computes with it: step() ends with "set zero
\* register to 0" (interpreter.cpp:186), but nothing does it before the first.
ZeroRegisterReadsZero ==
  /\ Runs
  /\ \/ ins.type \in AluITypes /\ ins.rs1 = 0
     \/ ins.type \in AluRTypes /\ 0 \in {ins.rs1, ins.rs2}
  => regs[0] = 0

\* Every run of a halting program that has been loaded returns.
InterpreterReturns == loaded ~> (halted \/ aborted)
============================================================================
