---------------------------- MODULE RegAliasTab ----------------------------
(***************************************************************************)
(* The register alias table (src/src/tomasulo/regaliastab.cpp) and the     *)
(* architectural register file it shadows (src/src/tomasulo/regfile.cpp).  *)
(* A register is either ready, and then the table holds its value, or it   *)
(* waits for the reorder buffer entry whose tag the table holds.           *)
(* The parameter n is the next copy under construction, as in ReorderBuf.  *)
(***************************************************************************)
EXTENDS Isa

VARIABLES
  rat,     \* [Reg -> RatEntry]
  regs     \* [Reg -> Word]

RatEntry == [ready: BOOLEAN, val: Word, tag: Nat]

ReadyRat(val) == [ready |-> TRUE, val |-> val, tag |-> 0]

RatInit  == rat = [r \in Reg |-> ReadyRat(0)]
RegfInit == regs = [r \in Reg |-> 0]

----------------------------------------------------------------------------
(* ArchRegFile: x0 reads as zero and is never written.                     *)

ReadReg(r) == IF r = 0 THEN 0 ELSE regs[r]

WriteReg(n, r, val) == IF r = 0 THEN n ELSE [n EXCEPT ![r] = val]

FlushZero(n) == [n EXCEPT ![0] = 0]

----------------------------------------------------------------------------
(* RegAliasTab                                                             *)

\* Issue: the register now waits for rob_tag.
RatSetTag(n, r, rob_tag) ==
  IF r = 0 THEN n ELSE [n EXCEPT ![r] = [ready |-> FALSE, val |-> 0, tag |-> rob_tag]]

\* Mutant of RatCommitClear: clears the alias of a younger writer too.
RatCommitClearAny(n, r, rob_tag, val) ==
  IF r # 0 /\ ~n[r].ready THEN [n EXCEPT ![r] = ReadyRat(val)] ELSE n

\* Commit: ready again, unless a younger instruction has taken the register.
RatCommitClear(n, r, rob_tag, val) ==
  IF r # 0 /\ ~n[r].ready /\ n[r].tag = rob_tag
  THEN [n EXCEPT ![r] = ReadyRat(val)]
  ELSE n

\* Mutant of RatRestore: makes the alias ready with the value it has.
RatRestoreOwnValue(n, flush_tag) ==
  [r \in Reg |-> IF n[r].tag > flush_tag THEN ReadyRat(n[r].val) ELSE n[r]]

\* Recovery: every alias younger than flush_tag falls back to the register
\* file, as it was at the start of the cycle (read_reg, not read_next_reg).
RatRestore(n, flush_tag) ==
  [r \in Reg |-> IF r = 0 THEN ReadyRat(0)
                 ELSE IF n[r].tag > flush_tag THEN ReadyRat(ReadReg(r))
                 ELSE n[r]]

----------------------------------------------------------------------------
RatTypeOK == rat \in [Reg -> RatEntry] /\ regs \in [Reg -> Word]
============================================================================
