----------------------------- MODULE MCTomasulo -----------------------------
(***************************************************************************)
(* Instances of the simulator for TLC: three registers, a byte of two bits *)
(* (words 0 .. 255), and sets of short programs.  Every program ends with  *)
(* two HALTs, so that a branch over the last instruction finds one.        *)
(***************************************************************************)
EXTENDS PipelineInv

Halt == Custom("HALT")
Nop  == Custom("NOP")

\* All programs of n instructions from an alphabet.
ProgramsOf(alphabet, n) ==
  {p \in [1 .. n + 2 -> alphabet \cup {Halt}] :
     /\ \A k \in 1 .. n : p[k] \in alphabet
     /\ p[n + 1] = Halt /\ p[n + 2] = Halt}

\* Data memory: both words are multiples of four, a byte is negative.
MCImage == [a \in MemAddr |-> CASE a = 1 -> 3 [] a = 5 -> 1 [] OTHER -> 0]

----------------------------------------------------------------------------
(* Registers, branches and jumps                                           *)

AluAlphabet == {
  IForm("ADDI", 1, 1, 1),        \* x1 = x1 + 1
  RForm("ADD", 2, 1, 1),         \* x2 = x1 + x1
  RForm("SUB", 1, 1, 2),         \* x1 = x1 - x2
  BForm("BEQ", 1, 2, 8),         \* skip one instruction if x1 = x2
  BForm("BLT", 1, 0, 8),         \* skip one if x1 < 0
  UForm("JAL", 1, 8),            \* skip one, link
  IForm("JALR", 0, 0, 16),       \* go to the end
  Nop, Halt }

\* Loops: x2 sums x1, which counts down to zero.  Enough predictions for the
\* tokens, and enough instructions for the ring, to wrap around.
Loops == {<<IForm("ADDI", 1, 0, n), RForm("ADD", 2, 2, 1), IForm("ADDI", 1, 1, -1),
            BForm("BNE", 1, 0, -8), Halt, Halt>> : n \in 1 .. 3}

AluPrograms == ProgramsOf(AluAlphabet, 4) \cup Loops

----------------------------------------------------------------------------
(* Memory                                                                  *)

\* Stores take their base from x0, which is ready at issue, or from x1, which
\* a load or an addition may still be computing.
Accesses(load, store, at) == {
  IForm("ADDI", 1, 0, at),       \* x1 = at
  IForm(load, 1, 0, at),         \* x1 = memory at at
  IForm(load, 2, 1, 0),          \* x2 = memory at x1
  SForm(store, 0, 1, at),        \* memory at at = x1
  SForm(store, 1, 2, 0),         \* memory at x1 = x2
  BForm("BNE", 1, 2, 8) }        \* skip one if x1 # x2

\* A store whose base may still be missing at issue.
IsLate(ins) == ins.type \in StoreTypes /\ ins.rs1 # 0

\* Programs in which no store follows one with a late base.
LateStoreLast(p) ==
  \A j, k \in DOMAIN p : j < k /\ IsLate(p[j]) => p[k].type \notin StoreTypes

\* Two stores wait for the same load to learn their address; then a load.
TwoLateStores(load, store, at) ==
  {<<IForm(load, 1, 0, at), SForm(store, 1, 2, 0), SForm(store, 1, 1, 0),
     IForm(load, 2, base, 0), Halt, Halt>> : base \in {0, 1}}

\* Loops that add a word to itself in memory, through a base register.
StoreLoops == {<<IForm("ADDI", 1, 0, n), IForm("LW", 2, 0, 4), RForm("ADD", 2, 2, 1),
                 SForm("SW", 0, 2, 4), IForm("ADDI", 1, 1, -1), BForm("BNE", 1, 0, -16),
                 Halt, Halt>> : n \in 1 .. 3}

\* The same, closed by a jump that links.
JumpLoops == {<<IForm("ADDI", 1, 0, n), BForm("BEQ", 1, 0, 24), IForm("LW", 2, 0, 4),
                SForm("SW", 0, 1, 4), IForm("ADDI", 1, 1, -1), UForm("JAL", 2, -16),
                Halt, Halt>> : n \in 1 .. 2}

\* One width of access in a program.
MemPrograms ==
  {p \in ProgramsOf(Accesses("LW", "SW", 4), 4) \cup ProgramsOf(Accesses("LH", "SH", 6), 4)
         \cup ProgramsOf(Accesses("LB", "SB", 5), 4) :
     LateStoreLast(p)}
  \cup TwoLateStores("LW", "SW", 4) \cup TwoLateStores("LH", "SH", 6)
  \cup TwoLateStores("LB", "SB", 5) \cup StoreLoops \cup JumpLoops

----------------------------------------------------------------------------
(* Every kind of operation, for the order of the phases                    *)

PhaseAlphabet == {
  IForm("LW", 1, 0, 4), SForm("SW", 1, 1, 3), IForm("LB", 2, 0, 4),
  RForm("ADD", 1, 1, 2), BForm("BNE", 1, 2, 8), IForm("JALR", 2, 0, 16) }

PhasePrograms == ProgramsOf(PhaseAlphabet, 3)

----------------------------------------------------------------------------
(* Single programs                                                         *)

\* A jump that links and is predicted to fall through, to an instruction on
\* the wrong path that writes the same register.
LinkPrograms == { <<IForm("JALR", 1, 0, 16), IForm("ADDI", 1, 0, 7), Halt, Halt,
                    IForm("ADDI", 2, 1, 0), Halt>> }

\* A store whose base comes late, then one whose base is known at issue, to
\* the same word; then a load of it.
TwoStorePrograms == { <<IForm("LW", 1, 0, 4), SForm("SW", 1, 1, 0), SForm("SW", 0, 0, 4),
                        IForm("LW", 2, 0, 4), Halt>> }

\* A word read right after one of its bytes was written.
WidthPrograms == { <<IForm("ADDI", 2, 0, 1), IForm("LW", 1, 0, 4), SForm("SB", 1, 2, 0),
                     IForm("LW", 2, 1, 0), Halt>> }

\* A load of an odd address behind a branch that is taken, but late.
WrongPathPrograms == { <<IForm("LW", 1, 0, 4), RForm("ADD", 1, 1, 1), BForm("BEQ", 1, 1, 8),
                         IForm("LW", 1, 0, 1), Halt, Halt>> }
============================================================================
