------------------------------- MODULE ALURS -------------------------------
(***************************************************************************)
(* The reservation station of the ALU, src/src/tomasulo/alurs.cpp.  The    *)
(* flags vj_ready and vk_ready are left out: execute tests only whether    *)
(* qj and qk are zero.  So is executing, which nothing reads.              *)
(***************************************************************************)
EXTENDS Isa

CONSTANT AluRsSize   \* slots of the station (ALURS_SIZE, 8 in the code)

ASSUME AluRsSizeAssumption == AluRsSize \in Nat \ {0}

VARIABLE alurs       \* [AluSlots -> AluEntry]

AluSlots == 1 .. AluRsSize

AluEntry ==
  [busy: BOOLEAN, type: InstrType, vj: Word, qj: Nat, vk: Word, qk: Nat, rob_tag: Nat,
   imm: Word, pc: Word, done: BOOLEAN, result: Word,
   branch_actual_taken: BOOLEAN, branch_target: Word]

ZeroAluEntry ==
  [busy |-> FALSE, type |-> "ADD", vj |-> 0, qj |-> 0, vk |-> 0, qk |-> 0, rob_tag |-> 0,
   imm |-> 0, pc |-> 0, done |-> FALSE, result |-> 0,
   branch_actual_taken |-> FALSE, branch_target |-> 0]

AluRsInit == alurs = [i \in AluSlots |-> ZeroAluEntry]

AluRsIsFull == \A i \in AluSlots : alurs[i].busy

\* The first slot free in the current copy takes the instruction; rj and rk
\* are the resolved operands.
AluRsAlloc(n, ins, rj, rk, rob_tag, pc) ==
  IF AluRsIsFull
  THEN n
  ELSE LET free == CHOOSE i \in AluSlots :
                     /\ ~alurs[i].busy
                     /\ \A j \in AluSlots : j < i => alurs[j].busy
       IN  [n EXCEPT ![free] =
              [ZeroAluEntry EXCEPT !.busy = TRUE, !.type = ins.type,
                 !.vj = rj.val, !.qj = rj.tag, !.vk = rk.val, !.qk = rk.tag,
                 !.rob_tag = rob_tag, !.imm = ins.imm, !.pc = pc]]

\* Mutant of AluRsListen: only the first operand listens.
AluRsListenFirst(n, bus) ==
  [i \in AluSlots |->
    IF bus.valid /\ alurs[i].busy /\ alurs[i].qj = bus.rob_tag
    THEN [n[i] EXCEPT !.vj = bus.val, !.qj = 0]
    ELSE n[i]]

\* Every waiting operand with the tag on the bus takes the value.
AluRsListen(n, bus) ==
  [i \in AluSlots |->
    IF ~(bus.valid /\ alurs[i].busy) THEN n[i]
    ELSE LET j == alurs[i].qj = bus.rob_tag
             k == alurs[i].qk = bus.rob_tag
         IN  [n[i] EXCEPT !.vj = IF j THEN bus.val ELSE @, !.qj = IF j THEN 0 ELSE @,
                          !.vk = IF k THEN bus.val ELSE @, !.qk = IF k THEN 0 ELSE @]]

\* The entry with its outcome computed.
AluComputed(e) ==
  LET done == [e EXCEPT !.done = TRUE]
      link == Wrap(e.pc + 4)
      there == Wrap(e.pc + e.imm)
  IN  CASE e.type \in CondTypes ->
             [done EXCEPT !.branch_actual_taken = CondTaken(e.type, e.vj, e.vk),
                          !.branch_target = there]
        [] e.type = "JAL" ->
             [done EXCEPT !.result = link, !.branch_actual_taken = TRUE, !.branch_target = there]
        [] e.type = "JALR" ->
             [done EXCEPT !.result = link, !.branch_actual_taken = TRUE,
                          !.branch_target = JalrTarget(e.vj, e.imm)]
        [] e.type \in AluRTypes -> [done EXCEPT !.result = AluOp(e.type, e.vj, e.vk)]
        [] e.type \in AluITypes -> [done EXCEPT !.result = AluOp(e.type, e.vj, e.imm)]
        [] e.type = "AUIPC"     -> [done EXCEPT !.result = there]
        [] e.type = "LUI"       -> [done EXCEPT !.result = e.imm]

\* Slots of the oldest of the entries satisfying a test: none or one, the
\* first of them should two have the same tag.
AluOldest(slots) ==
  {i \in slots : \A j \in slots \ {i} :
     \/ alurs[i].rob_tag < alurs[j].rob_tag
     \/ alurs[i].rob_tag = alurs[j].rob_tag /\ i < j}

\* One entry a cycle executes: the oldest with both operands.
AluRsReady == {i \in AluSlots : /\ alurs[i].busy /\ ~alurs[i].done
                                /\ alurs[i].qj = 0 /\ alurs[i].qk = 0}

AluRsExecute(n) ==
  [i \in AluSlots |->
    IF i \in AluOldest(AluRsReady) /\ n[i].busy /\ n[i].rob_tag = alurs[i].rob_tag
    THEN AluComputed(alurs[i])
    ELSE n[i]]

\* The slot whose result may go on the bus: the oldest finished entry.
AluRsFinished  == {i \in AluSlots : alurs[i].busy /\ alurs[i].done}
AluRsCandidate == AluOldest(AluRsFinished)

AluRsFree(n, rob_tag) ==
  [i \in AluSlots |->
    IF alurs[i].busy /\ alurs[i].rob_tag = rob_tag /\ n[i].rob_tag = rob_tag
    THEN [n[i] EXCEPT !.busy = FALSE, !.done = FALSE]
    ELSE n[i]]

\* Mutant of AluRsFlush: misses the entry issued in this cycle.
AluRsFlushCurrent(n) ==
  [i \in AluSlots |-> IF alurs[i].busy THEN [n[i] EXCEPT !.busy = FALSE, !.done = FALSE] ELSE n[i]]

AluRsFlush(n) == [i \in AluSlots |-> [n[i] EXCEPT !.busy = FALSE, !.done = FALSE]]

----------------------------------------------------------------------------
AluRsTypeOK == alurs \in [AluSlots -> AluEntry]
============================================================================
