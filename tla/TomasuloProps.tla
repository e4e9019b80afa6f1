--------------------------- MODULE TomasuloProps ---------------------------
(***************************************************************************)
(* What makes the out-of-order simulator correct.                          *)
(***************************************************************************)
EXTENDS TomasuloCPU, FiniteSets

RobBusy    == {i \in RobSlots : rob.slots[i].busy}
RobTags    == {rob.slots[i].tag : i \in RobBusy}
RobWaiting == {rob.slots[i].tag : i \in {j \in RobBusy : ~rob.slots[j].ready}}
AluBusy    == {i \in AluSlots : alurs[i].busy}
LsBusy     == {i \in LsSlots : lsrs[i].busy}
SbBusy     == {i \in SbSlots : sb[i].busy}

\* Type invariant of the whole machine.
CpuTypeOK ==
  /\ RobTypeOK /\ RatTypeOK /\ AluRsTypeOK /\ LsRsTypeOK /\ SbTypeOK /\ DmemTypeOK
  /\ BpTypeOK /\ CdbTypeOK
  /\ prog \in Programs /\ pc \in Word /\ fetched \in Fetched
  /\ ras_predicted_target \in Word
  /\ redirect \in BOOLEAN /\ halted \in BOOLEAN /\ cycle_count \in {0, 1} /\ aborted \in BOOLEAN

----------------------------------------------------------------------------
(* Agreement of the components                                             *)

\* The writers of a register that are in flight.
Writers(r) == {i \in RobBusy : ~rob.slots[i].is_store /\ rob.slots[i].dest_reg = r}

\* The alias table names, for every register, the youngest instruction in
\* flight that writes it, and is ready exactly when there is none.  Commit
\* (regaliastab.cpp:28), issue and recovery all write it in the same cycle.
RatNamesYoungestWriter ==
  \A r \in Reg \ {0} :
    IF rat[r].ready
    THEN Writers(r) = {}
    ELSE \E i \in Writers(r) : /\ rob.slots[i].tag = rat[r].tag
                               /\ \A j \in Writers(r) : rob.slots[j].tag <= rat[r].tag

\* A ready alias holds the value of the register file (regaliastab.hpp:11).
ReadyAliasIsCurrent == \A r \in Reg : rat[r].ready => rat[r].val = ReadReg(r)

\* The tags a busy station entry still waits for.
WaitsFor ==
  {<<alurs[i].rob_tag, alurs[i].qj>> : i \in AluBusy} \cup
  {<<alurs[i].rob_tag, alurs[i].qk>> : i \in AluBusy} \cup
  {<<lsrs[i].rob_tag, lsrs[i].qj>> : i \in LsBusy} \cup
  {<<lsrs[i].rob_tag, lsrs[i].qk>> : i \in LsBusy}

\* No wakeup is lost: an operand that waits, waits for an older instruction
\* whose result is still to come or is on the bus right now.  A result that
\* is written while a consumer is being issued would be missed for good.
NoLostWakeup ==
  \A w \in WaitsFor : w[2] # 0 =>
    /\ w[2] < w[1]
    /\ w[2] \in RobWaiting \/ (cdb.valid /\ cdb.rob_tag = w[2])

\* The instructions without a result are exactly those that sit in one slot
\* of one station: none is dropped, executed twice or left behind by a squash.
StationsHoldTheWaiting ==
  /\ {alurs[i].rob_tag : i \in AluBusy} \cup {lsrs[i].rob_tag : i \in LsBusy} = RobWaiting
  /\ Cardinality(AluBusy) + Cardinality(LsBusy) = Cardinality(RobWaiting)

\* The store buffer holds exactly the stores in flight; a store that may
\* commit has the same value in both places.
StoreBufferHoldsTheStores ==
  LET stores == {i \in RobBusy : rob.slots[i].is_store}
  IN  /\ {sb[b].rob_tag : b \in SbBusy} = {rob.slots[i].tag : i \in stores}
      /\ Cardinality(SbBusy) = Cardinality(stores)
      /\ \A i \in stores, b \in SbBusy :
           rob.slots[i].ready /\ sb[b].rob_tag = rob.slots[i].tag =>
             /\ sb[b].val_ready /\ sb[b].val = rob.slots[i].store_value
             /\ sb[b].addr_ready => sb[b].addr = rob.slots[i].store_addr

\* Every load that waits for memory owns the request in flight, so that its
\* answer will come and goes to nobody else: the request of a squashed load
\* stays in the memory and is answered to no one.
RequestsHaveOwners ==
  LET waiting == {i \in LsBusy : lsrs[i].mem_requested /\ ~lsrs[i].done}
  IN  /\ Cardinality(waiting) <= 1
      /\ \A i \in waiting :
           /\ rq.is_load /\ (rq.valid \/ rq.read_ready)
           /\ rq.rob_tag = lsrs[i].rob_tag /\ rq.addr = lsrs[i].addr /\ rq.type = lsrs[i].type
      /\ \A i \in LsBusy :
           rq.is_load /\ (rq.valid \/ rq.read_ready) /\ rq.rob_tag = lsrs[i].rob_tag => i \in waiting

\* The checkpoints of a branch in the buffer, and of one still in fetch.
CheckpointOfEntry(e) ==
  [token |-> e.branch_pred_context, pc |-> e.pc, final_prediction |-> e.branch_pred_taken]
CheckpointOfFetched(f) ==
  [token |-> f.pred_context, pc |-> f.pc, final_prediction |-> f.pred_taken]

RobConditional == {i \in RobBusy : rob.slots[i].type \in CondTypes}
InFetch(f) == f.valid /\ f.instr.type \in CondTypes

\* The predictor's checkpoints are those of the conditional branches in
\* flight, oldest first, then that of the branch still in fetch: the front
\* one always belongs to the next branch to commit (branchpred.cpp:511-513).
CheckpointsFollowBranches ==
  \E at \in [1 .. Cardinality(RobConditional) -> RobConditional] :
    /\ \A j, k \in DOMAIN at : j < k => rob.slots[at[j]].tag < rob.slots[at[k]].tag
    /\ bp.checkpoints = [k \in DOMAIN at |-> CheckpointOfEntry(rob.slots[at[k]])]
                        \o (IF InFetch(fetched) THEN << CheckpointOfFetched(fetched) >> ELSE << >>)

\* Memory with the committed store that is on its way in.
ArchMem == IF rq.valid /\ ~rq.is_load THEN WriteMem(mem, rq.type, rq.addr, rq.val) ELSE mem

\* The byte at a that a load with this tag should see: of the youngest older
\* store with a result that covers it, else of memory.
ByteFor(a, tag) ==
  LET covering == {i \in RobBusy : LET e == rob.slots[i] IN
                     /\ e.is_store /\ e.ready /\ e.tag < tag
                     /\ a \in e.store_addr .. e.store_addr + SizeOf(e.type) - 1}
      youngest == rob.slots[CHOOSE i \in covering :
                              \A j \in covering : rob.slots[j].tag <= rob.slots[i].tag]
  IN  IF covering = {} THEN ByteAt(ArchMem, a)
      ELSE (youngest.store_value \div ByteBase ^ (a - youngest.store_addr)) % ByteBase

\* A forwarded value is the one the memory would give, had the older stores
\* been written: "identical forwarded and memory-path values"
\* (test_single_cdb.cpp:285).
ForwardedIsMemoryValue ==
  \A i \in LsForwarded :
    LET e == lsrs[i]
        seen == [b \in MemAddr |-> ByteFor(b, e.rob_tag)]
    IN  Extend(e.type, SbForwardedValue(LsAddr(i), e.rob_tag)) = ReadMem(seen, e.type, LsAddr(i))

\* A result in the reorder buffer stays as it is until its entry leaves.
ResultsStick ==
  [][\A i, j \in RobSlots :
       LET e == rob.slots[i]
           f == rob'.slots[j]
       IN  (e.busy /\ e.ready /\ f.busy /\ f.tag = e.tag) => f = e]_vars

----------------------------------------------------------------------------
(* The instruction set                                                     *)

\* What a programmer sees: the oldest instruction that has not committed, the
\* register file, and ArchMem.
OldestPc == IF ~RobIsEmpty THEN rob.slots[rob.head].pc
            ELSE IF fetched.valid \/ halted THEN fetched.pc
            ELSE pc

Skip == INSTANCE ArchSpec WITH Images <- {Image}, pc <- pc, mem <- ArchMem
Arch == INSTANCE ArchSpec WITH Images <- {Image}, pc <- Skip!AfterNops(prog, OldestPc),
                               mem <- ArchMem

\* Whatever is executed out of order, on a wrong path or from a forwarded
\* value, registers, memory and program counter go through the states of the
\* machine that runs one instruction at a time (README.md:5).
ImplementsIsa == Arch!Spec

\* The simulator gives up only on an instruction on which the interpreter
\* would, never on one that should not have been executed.
AbortsOnlyAsInterpreter == aborted => Arch!Undefined

\* The simulator gives up only on what the program gives it, a word without a
\* meaning or a load of a misaligned address, never on its own records: no
\* branch commits without the front checkpoint of the predictor
\* (branchpred.cpp:511-517), no flush names an entry that is not a branch in the
\* buffer.
AssertionsHold ==
  [][aborted' => \/ aborted \/ DmemAborts
                 \/ Fetches /\ InstrAt(prog, pc).type = "ILLEGAL"]_vars

\* A cycle uses the predictor as its interface allows: it predicts only while a
\* token is free, and updates only while there is a checkpoint.
UsesPredictorAsAllowed == [][BpCycle({pc})]_bp

\* A program that halts makes run() return (cpu.cpp:456): the HALT is issued and
\* not squashed, and everything before it commits.
RunReturns == <>[]Finished

----------------------------------------------------------------------------
(* The order of the phases, which README.md:5 says may be exchanged.       *)

PhaseNames == {"fetch", "commit", "execute", "writeback", "issue"}

\* Listening to the bus belongs to writeback, which clears it.
ApplyPhase(name, n, taken) ==
  CASE name = "fetch"     -> Fetch(n, taken)
    [] name = "commit"    -> Commit(n)
    [] name = "execute"   -> Execute(n)
    [] name = "writeback" -> Writeback(CdbListen(n))
    [] name = "issue"     -> Issue(n)

InThisOrder(order, taken) ==
  LET after[k \in 0 .. 5] ==
        IF k = 0 THEN NextStates ELSE ApplyPhase(order[k], after[k - 1], taken)
  IN  Finalize(after[5])

PhaseOrders == {o \in [1 .. 5 -> PhaseNames] : \A j, k \in 1 .. 5 : j # k => o[j] # o[k]}

\* In every cycle, all orders of the five phases lead to the same next state.
PhaseOrderIrrelevant ==
  ~aborted /\ ~Finished =>
    \A taken \in (IF Predicts THEN BOOLEAN ELSE {FALSE}) :
      \A order \in PhaseOrders : InThisOrder(order, taken) = Phases(taken)
============================================================================
