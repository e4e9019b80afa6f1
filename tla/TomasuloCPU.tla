---------------------------- MODULE TomasuloCPU ----------------------------
(***************************************************************************)
(* The out-of-order simulator, src/src/tomasulo/cpu.cpp.                   *)
(*                                                                         *)
(* One step is one clock cycle.  cycle() starts from a next copy equal to  *)
(* the current state, lets the phases write to it one after the other, and *)
(* flips the copies at the end.  A phase is an operator from next copy to  *)
(* next copy, so that the order in which Cycle applies them is the order   *)
(* of the calls in the code; it reads the current state from the           *)
(* variables, as the code reads the current buffers.                       *)
(*                                                                         *)
(* A failed assertion, which ends the process, sets aborted.               *)
(***************************************************************************)
EXTENDS ReorderBuf, RegAliasTab, ALURS, LSRS, BranchPred, Cdb

CONSTANTS
  Programs,    \* the programs load_program may read, as sequences of Instr
  MaxTag       \* bound of the runs: no cycle starts once next_tag is above it

ASSUME ProgramsAssumption == Programs \subseteq Seq(Instr) /\ MaxTag \in Nat

\* The branches in flight, at most one of them in fetch, never use up the tokens
\* (32 entries in the buffer, 2^32 - 1 tokens in the code).
ASSUME TokensAssumption == RobSize < MaxToken

VARIABLES
  prog,                  \* instruction memory
  pc,
  fetched,               \* fetched_instr, fetched_pc, fetched_pred_*, fetch_valid
  ras_predicted_target,
  redirect,
  halted,
  cycle_count,           \* counted modulo 2: every cycle changes it
  aborted

vars == <<rob, rat, regs, alurs, lsrs, sb, rq, mem, bp, cdb,
          prog, pc, fetched, ras_predicted_target, redirect, halted, cycle_count, aborted>>

Fetched == [valid: BOOLEAN, instr: Instr, pc: Word, pred_taken: BOOLEAN,
            pred_target: Word, pred_context: Nat]

Init ==
  /\ prog \in Programs
  /\ pc = 0
  /\ fetched = [valid |-> FALSE, instr |-> RForm("ADD", 0, 0, 0), pc |-> 0,
                pred_taken |-> FALSE, pred_target |-> 0, pred_context |-> 0]
  /\ ras_predicted_target = 0
  /\ redirect = FALSE
  /\ halted = FALSE
  /\ cycle_count = 0
  /\ aborted = FALSE
  /\ RobInit /\ RatInit /\ RegfInit /\ AluRsInit /\ LsRsInit /\ SbInit
  /\ DmemInit /\ BpInit /\ CdbInit

NoSquash == [pending |-> FALSE, tag |-> 0, pc |-> 0]

\* init_next_states
NextStates ==
  [rob |-> rob, rat |-> rat, regs |-> regs, alurs |-> alurs, lsrs |-> lsrs, sb |-> sb,
   dmem |-> DmemNext, bp |-> bp, cdb |-> cdb,
   pc |-> pc, fetched |-> fetched, ras_predicted_target |-> ras_predicted_target,
   redirect |-> redirect, halted |-> halted, aborted |-> aborted, squash |-> NoSquash]

----------------------------------------------------------------------------
(* fetch                                                                   *)

Fetches == ~redirect /\ ~fetched.valid /\ ~halted

\* Is there a direction to predict in this cycle?
Predicts == Fetches /\ InstrAt(prog, pc).type \in CondTypes

\* taken is what the predictor says of a conditional branch.
Fetch(n, taken) ==
  LET ins  == InstrAt(prog, pc)
      next == Wrap(pc + 4)
      there == Wrap(pc + ins.imm)
      word == [valid |-> TRUE, instr |-> ins, pc |-> pc,
               pred_taken |-> FALSE, pred_target |-> next, pred_context |-> 0]
  IN  CASE redirect -> [n EXCEPT !.redirect = FALSE]
        [] ~redirect /\ ~Fetches -> n
        [] Fetches /\ ins.type = "ILLEGAL" -> [n EXCEPT !.aborted = TRUE]
        [] Fetches /\ ins.type = "JAL" -> [n EXCEPT !.fetched = word, !.pc = there]
        [] Fetches /\ ins.type = "JALR" ->
             [n EXCEPT !.fetched = word, !.pc = next, !.ras_predicted_target = next]
        [] Fetches /\ ins.type \in CondTypes ->
             LET target == IF taken THEN there ELSE next
             IN  [n EXCEPT !.fetched = [word EXCEPT !.pred_taken = taken,
                                                    !.pred_target = target,
                                                    !.pred_context = FreshToken(n.bp)],
                           !.bp = BpPredict(n.bp, pc, taken),
                           !.pc = target]
        [] OTHER -> [n EXCEPT !.fetched = word, !.pc = next]

----------------------------------------------------------------------------
(* commit                                                                  *)

\* The head of the buffer leaves, unless it is a store the memory does not
\* take in this cycle.
Commit(n) ==
  LET e == RobHeadEntry(n.rob)
      writes == ~e.is_store /\ e.dest_reg # 0
      conditional == e.is_branch /\ e.type \notin JumpTypes
      mis == RobMispredicted(e)
  IN  IF ~RobCanCommit(n.rob) \/ (e.is_store /\ ~DmemAcceptsWrite(n.dmem))
      THEN n
      ELSE [n EXCEPT
              !.dmem = IF e.is_store
                       THEN DmemIssueWrite(@, e.store_addr, e.store_value, e.type) ELSE @,
              !.regs = IF writes THEN WriteReg(@, e.dest_reg, e.val) ELSE @,
              !.rat  = IF writes THEN RatCommitClear(@, e.dest_reg, e.tag, e.val) ELSE @,
              !.bp   = IF conditional /\ BpUpdateAsserts(@, e.pc, e.branch_pred_context)
                       THEN BpUpdate(@) ELSE @,
              !.aborted = @ \/ (conditional /\ ~BpUpdateAsserts(n.bp, e.pc, e.branch_pred_context)),
              !.rob  = RobCommit(@),
              !.sb   = IF e.is_store THEN SbCommit(@, e.tag) ELSE @,
              !.squash = IF mis
                         THEN [pending |-> TRUE, tag |-> e.tag,
                               pc |-> IF e.branch_actual_taken THEN e.branch_target
                                      ELSE Wrap(e.pc + 4)]
                         ELSE @]

----------------------------------------------------------------------------
(* execute, cdb_listen and writeback                                       *)

Execute(n) ==
  [n EXCEPT !.aborted = @ \/ DmemAborts,
            !.dmem  = LsDmemExecute(DmemDecreaseLeftCycles(@)),
            !.alurs = AluRsExecute(@),
            !.lsrs  = LsRsExecute(@),
            !.sb    = LsSbExecute(@)]

CdbListen(n) == [n EXCEPT !.alurs = AluRsListen(@, n.cdb), !.lsrs = LsRsListen(@, n.cdb)]

\* The bus goes to the older of the two candidates.
AluTag == alurs[CHOOSE i \in AluRsCandidate : TRUE].rob_tag
LsTag  == lsrs[CHOOSE i \in LsRsCandidate : TRUE].rob_tag
AluWins == AluRsCandidate # {} /\ (LsRsCandidate = {} \/ AluTag < LsTag)

Winner ==
  IF AluWins
  THEN LET e == alurs[CHOOSE i \in AluRsCandidate : TRUE]
       IN  [valid |-> TRUE, rob_tag |-> e.rob_tag, val |-> e.result,
            is_branch |-> e.type \in BranchTypes,
            branch_actual_taken |-> e.branch_actual_taken, branch_target |-> e.branch_target]
  ELSE IF LsRsCandidate # {}
  THEN LET e == lsrs[CHOOSE i \in LsRsCandidate : TRUE]
       IN  [EmptyBus EXCEPT !.valid = TRUE, !.rob_tag = e.rob_tag, !.val = e.mem_result]
  ELSE EmptyBus

Writeback(n) ==
  LET stores == LsDoneStores
      doneTags == {lsrs[i].rob_tag : i \in stores}
      done == [t \in doneTags |->
                 LET i == CHOOSE s \in stores : lsrs[s].rob_tag = t
                 IN  [addr |-> lsrs[i].addr, val |-> lsrs[i].vk]]
      w == Winner
      withStores == RobWriteStoreResults(n.rob, done)
      withResult == IF w.valid THEN RobWriteResult(withStores, w.rob_tag, w.val) ELSE withStores
      withBranch == IF w.is_branch
                    THEN RobWriteBranchResult(withResult, w.rob_tag,
                                              w.branch_actual_taken, w.branch_target)
                    ELSE withResult
      freed == IF w.valid /\ ~AluWins THEN doneTags \cup {w.rob_tag} ELSE doneTags
  IN  [n EXCEPT !.cdb   = w,
                !.rob   = withBranch,
                !.alurs = IF AluWins THEN AluRsFree(@, w.rob_tag) ELSE @,
                !.lsrs  = LsRsFree(@, freed)]

----------------------------------------------------------------------------
(* issue                                                                   *)

\* A register's value, or the tag to wait for; a result that is already in
\* the buffer counts as a value.
ResolveOperand(r) ==
  LET operand == rat[r]
      results == RobReadyResults(operand.tag)
  IN  IF ~operand.ready /\ operand.tag # 0 /\ results # {}
      THEN ReadyRat(CHOOSE v \in results : TRUE)
      ELSE operand

Issue(n) ==
  LET ins == fetched.instr
      isBranch == ins.type \in BranchTypes
      isStore  == ins.type \in StoreTypes
      needsLs  == ins.type \in LsTypes
      needsAlu == ins.type \in AluTypes
      stalls == \/ RobIsFull
                \/ needsAlu /\ AluRsIsFull
                \/ needsLs /\ LsRsIsFull
                \/ isStore /\ SbIsFull
      predTarget == CASE ins.type = "JAL" -> Wrap(fetched.pc + ins.imm)
                      [] ins.type = "JALR" -> n.ras_predicted_target
                      [] ins.type \in CondTypes -> fetched.pred_target
                      [] OTHER -> 0
      args == [type |-> ins.type, dest_reg |-> ins.rd, pc |-> fetched.pc,
               is_branch |-> isBranch,
               branch_pred_taken |-> ins.type \in JumpTypes
                                       \/ (ins.type \in CondTypes /\ fetched.pred_taken),
               branch_target |-> IF isBranch THEN Wrap(fetched.pc + ins.imm) ELSE 0,
               is_store |-> isStore,
               pred_target |-> predTarget,
               branch_pred_context |-> IF isBranch THEN fetched.pred_context ELSE 0]
      tag == n.rob.next_tag
      rj == ResolveOperand(ins.rs1)
      rk == ResolveOperand(ins.rs2)
  IN  CASE ~fetched.valid \/ halted -> n
        [] fetched.valid /\ ~halted /\ ins.type = "HALT" ->
             [n EXCEPT !.halted = TRUE, !.fetched.valid = FALSE]
        [] fetched.valid /\ ~halted /\ ins.type \in {"NOP", "UNKNOWN"} ->
             [n EXCEPT !.fetched.valid = FALSE]
        [] fetched.valid /\ ~halted /\ (needsAlu \/ needsLs) ->
             IF stalls THEN n
             ELSE [n EXCEPT
                     !.rob   = RobAlloc(@, args),
                     !.rat   = IF isStore THEN @ ELSE RatSetTag(@, ins.rd, tag),
                     !.alurs = IF needsAlu THEN AluRsAlloc(@, ins, rj, rk, tag, fetched.pc) ELSE @,
                     !.lsrs  = IF needsLs THEN LsRsAlloc(@, ins, rj, rk, tag) ELSE @,
                     !.sb    = IF isStore THEN SbInsert(@, tag, ins.type) ELSE @,
                     !.fetched.valid = FALSE]

----------------------------------------------------------------------------
(* finalize, resolve_cycle_outputs and the memory's arbitration            *)

Finalize(n) == [n EXCEPT !.regs = FlushZero(@)]

\* Mutant of ResolveCycleOutputs: a squash starts with a predictor as new.
ResolveWithNewPredictor(n) ==
  IF ~n.squash.pending
  THEN n
  ELSE [n EXCEPT !.rob = RobFlushFrom(@, n.squash.tag),
                 !.alurs = AluRsFlush(@),
                 !.lsrs = LsRsFlush(@),
                 !.sb = SbFlushFrom(@, n.squash.tag),
                 !.rat = RatRestore(@, n.squash.tag),
                 !.bp = [checkpoints |-> << >>, next_token |-> 1],
                 !.cdb = CdbInvalidateSquashed(@, n.squash.tag),
                 !.pc = n.squash.pc,
                 !.fetched.valid = FALSE,
                 !.redirect = TRUE,
                 !.halted = FALSE]

\* A mispredicted branch has committed: everything younger goes.
ResolveCycleOutputs(n) ==
  IF ~n.squash.pending
  THEN n
  ELSE [n EXCEPT !.aborted = @ \/ ~RobFlushAsserts(n.squash.tag),
                 !.rob   = RobFlushFrom(@, n.squash.tag),
                 !.alurs = AluRsFlush(@),
                 !.lsrs  = LsRsFlush(@),
                 !.sb    = SbFlushFrom(@, n.squash.tag),
                 !.rat   = RatRestore(@, n.squash.tag),
                 !.bp    = BpRecover(@),
                 !.cdb   = CdbInvalidateSquashed(@, n.squash.tag),
                 !.pc    = n.squash.pc,
                 !.fetched.valid = FALSE,
                 !.redirect = TRUE,
                 !.halted = FALSE]

ResolveRequests(n) ==
  LET allow == ~n.squash.pending
  IN  [n EXCEPT !.dmem = DmemResolve(@, allow),
                !.lsrs = IF DmemAcceptsLoad(n.dmem, allow)
                         THEN LsRsMarkRequested(@, n.dmem.pending_load.rob_tag) ELSE @]

----------------------------------------------------------------------------
(* cycle and run                                                           *)

\* The order of the calls in cycle().
Phases(taken) ==
  Finalize(Issue(Writeback(CdbListen(Execute(Commit(Fetch(NextStates, taken)))))))

Update(n) ==
  /\ rob' = n.rob
  /\ rat' = n.rat
  /\ regs' = n.regs
  /\ alurs' = n.alurs
  /\ lsrs' = n.lsrs
  /\ sb' = n.sb
  /\ rq' = n.dmem.rq
  /\ mem' = n.dmem.mem
  /\ bp' = n.bp
  /\ cdb' = n.cdb
  /\ pc' = n.pc
  /\ fetched' = n.fetched
  /\ ras_predicted_target' = n.ras_predicted_target
  /\ redirect' = n.redirect
  /\ halted' = n.halted
  /\ aborted' = n.aborted
  /\ prog' = prog

\* The condition on which run() stops.
Finished == halted /\ ~fetched.valid /\ RobIsEmpty

CanCycle == ~aborted /\ ~Finished /\ rob.next_tag <= MaxTag

Tick == CanCycle /\ cycle_count' = (cycle_count + 1) % 2

Cycle ==
  /\ Tick
  /\ \E taken \in (IF Predicts THEN BOOLEAN ELSE {FALSE}) :
       Update(ResolveRequests(ResolveCycleOutputs(Phases(taken))))

\* run() has returned.
Stopped == Finished /\ UNCHANGED vars

Next == Cycle \/ Stopped

Spec == Init /\ [][Next]_vars

\* run() calls cycle() again and again.  Every Tick of Spec is a Cycle.
FairSpec == Spec /\ WF_cycle_count(Tick)
============================================================================
