------------------------------ MODULE ArchSpec ------------------------------
(***************************************************************************)
(* The instruction set as a machine: one instruction after the other, each *)
(* with its whole effect at once.  This is what a programmer is promised,  *)
(* by the interpreter and by the out-of-order simulator alike.             *)
(*                                                                         *)
(* Instructions without effect (NOP, and the words that decode to UNKNOWN) *)
(* are not steps of their own: pc always stands at an instruction that     *)
(* does something.  HALT ends the run.                                     *)
(***************************************************************************)
EXTENDS Isa

CONSTANTS
  Programs,    \* the programs the machine may be loaded with
  Images       \* the data memories it may start with

VARIABLES prog, pc, regs, mem

archvars == <<prog, pc, regs, mem>>

\* The first instruction from at on that does something.  A program holds at
\* most Len(p) effectless words in a row that its run can meet.
Effectless(p, at) == InstrAt(p, at).type \in {"NOP", "UNKNOWN"}
AfterNops(p, at) ==
  LET skipped == CHOOSE k \in 0 .. Len(p) :
                   /\ k = Len(p) \/ ~Effectless(p, Wrap(at + 4 * k))
                   /\ \A j \in 0 .. k - 1 : Effectless(p, Wrap(at + 4 * j))
  IN  Wrap(at + 4 * skipped)

Src(r) == IF r = 0 THEN 0 ELSE regs[r]

\* Words on which the machine is not defined.
UndefinedOn(ins, s1) == ins.type = "ILLEGAL" \/ Misaligned(ins.type, Wrap(s1 + ins.imm))
Undefined == LET ins == InstrAt(prog, pc) IN UndefinedOn(ins, Src(ins.rs1))

\* What instruction ins at address at writes to its register, given its sources.
Result(ins, at, s1, s2) ==
  CASE ins.type \in AluRTypes  -> AluOp(ins.type, s1, s2)
    [] ins.type \in AluITypes  -> AluOp(ins.type, s1, ins.imm)
    [] ins.type \in LoadTypes  -> ReadMem(mem, ins.type, Wrap(s1 + ins.imm))
    [] ins.type \in JumpTypes  -> Wrap(at + 4)
    [] ins.type = "AUIPC"      -> Wrap(at + ins.imm)
    [] ins.type = "LUI"        -> ins.imm

\* Where it goes on.
Successor(ins, at, s1, s2) ==
  IF ins.type = "JALR" THEN JalrTarget(s1, ins.imm)
  ELSE IF ins.type = "JAL" \/ (ins.type \in CondTypes /\ CondTaken(ins.type, s1, s2))
       THEN Wrap(at + ins.imm)
  ELSE Wrap(at + 4)

Init ==
  /\ prog \in Programs
  /\ pc = AfterNops(prog, 0)
  /\ regs = [r \in Reg |-> 0]
  /\ mem \in Images

\* One instruction.
Step ==
  LET at  == pc
      ins == InstrAt(prog, at)
      s1  == Src(ins.rs1)
      s2  == Src(ins.rs2)
  IN  /\ ins.type # "HALT"
      /\ ~UndefinedOn(ins, s1)
      /\ regs' = IF ins.type \in StoreTypes \cup CondTypes \/ ins.rd = 0
                 THEN regs
                 ELSE [regs EXCEPT ![ins.rd] = Result(ins, at, s1, s2)]
      /\ mem' = IF ins.type \in StoreTypes
                THEN WriteMem(mem, ins.type, Wrap(s1 + ins.imm), s2)
                ELSE mem
      /\ pc' = AfterNops(prog, Successor(ins, at, s1, s2))
      /\ UNCHANGED prog

Spec == Init /\ [][Step]_archvars
============================================================================
