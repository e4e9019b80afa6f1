------------------------------ MODULE CycleProofs ------------------------------
(***************************************************************************)
(* What one clock cycle of the processor does to each of its components.   *)
(*                                                                         *)
(* cycle() hands the next copy of the machine from phase to phase.  The    *)
(* lemmas here follow each component of the copy through the phases, and   *)
(* end with its next value in terms of the current state (CycleEffect).    *)
(* The proofs about the processor start from there.                        *)
(***************************************************************************)
EXTENDS PipelineInv

CopyFields == {"rob", "rat", "regs", "alurs", "lsrs", "sb", "dmem", "bp", "cdb", "pc", "fetched",
               "ras_predicted_target", "redirect", "halted", "aborted", "squash"}

\* The parts of a copy that the proofs follow, given one by one.
Holds(n, r, a, al, ls, s, d, c, f, q) ==
  /\ DOMAIN n = CopyFields
  /\ n.rob = r /\ n.rat = a /\ n.alurs = al /\ n.lsrs = ls /\ n.sb = s /\ n.dmem = d
  /\ n.cdb = c /\ n.fetched = f /\ n.squash = q

----------------------------------------------------------------------------
(* fetch                                                                   *)

\* What the instruction memory holds is a program.
LEMMA InstrAtType ==
  ASSUME prog \in Programs, NEW a
  PROVE  InstrAt(prog, a) \in Instr /\ InstrAt(prog, a) \in Programmed
<1>1. prog \in Seq(Instr)
  BY ProgramsAssumption
<1>2. Custom("UNKNOWN") \in Instr
  <2>1. 0 \in Reg /\ 0 \in Word
    BY IsaAssumption DEF Reg, Word
  <2> QED BY <2>1 DEF Custom, Instr, InstrType, NoPlaceTypes
<1> QED BY <1>1, <1>2 DEF InstrAt, Programmed

\* fetch fills the fetch latch when it is empty, and touches none of the other
\* parts followed here.
LEMMA FetchEffect ==
  ASSUME prog \in Programs, FetchedFits(fetched), NEW taken \in BOOLEAN
  PROVE  LET n == Fetch(NextStates, taken)
         IN  /\ Holds(n, rob, rat, alurs, lsrs, sb, DmemNext, cdb, n.fetched, NoSquash)
             /\ FetchedFits(n.fetched)
             /\ n.fetched = fetched \/ (Fetches /\ n.fetched.valid)
<1> DEFINE n == Fetch(NextStates, taken)
           ins == InstrAt(prog, pc)
           there == Wrap(pc + ins.imm)
           target == IF taken THEN there ELSE Wrap(pc + 4)
           word == [valid |-> TRUE, instr |-> ins, pc |-> pc,
                    pred_taken |-> FALSE, pred_target |-> Wrap(pc + 4), pred_context |-> 0]
<1>1. ins \in Instr /\ ins \in Programmed
  BY InstrAtType
<1> HIDE DEF ins
<1>2. DOMAIN NextStates = CopyFields
  BY DEF NextStates, CopyFields
<1>3. Holds(NextStates, rob, rat, alurs, lsrs, sb, DmemNext, cdb, fetched, NoSquash)
  BY <1>2 DEF NextStates, Holds
<1> DEFINE token == [word EXCEPT !.pred_taken = taken, !.pred_target = target,
                                 !.pred_context = FreshToken(NextStates.bp)]
<1>4. ins.type # "ILLEGAL" => FetchedFits(word) /\ word.valid
  BY <1>1 DEF FetchedFits, FetchedFields
<1>5. ins.type # "ILLEGAL" => FetchedFits(token) /\ token.valid
  BY <1>1 DEF FetchedFits, FetchedFields
<1>6. /\ DOMAIN n = CopyFields
      /\ n.rob = rob /\ n.rat = rat /\ n.alurs = alurs /\ n.lsrs = lsrs /\ n.sb = sb
      /\ n.dmem = DmemNext /\ n.cdb = cdb /\ n.squash = NoSquash
  BY DEF Fetch, NextStates, CopyFields
<1>7. n.fetched = fetched \/ (Fetches /\ ins.type # "ILLEGAL" /\ n.fetched \in {word, token})
  BY DEF Fetch, NextStates, Fetches, ins, CondTypes
<1>8. ASSUME Fetches, ins.type # "ILLEGAL", n.fetched \in {word, token}
      PROVE  FetchedFits(n.fetched) /\ n.fetched.valid
  BY <1>4, <1>5, <1>8
<1> HIDE DEF n, word, token
<1> QED BY <1>6, <1>7, <1>8 DEF Holds, n

----------------------------------------------------------------------------
(* commit                                                                  *)

Head1 == rob.slots[rob.head]

\* The head of the buffer leaves, ...
Commits == RobCanCommit(rob) /\ ~(Head1.is_store /\ DmemIsBusy)

\* ... and what it is then makes everything younger leave, too.
Squashes == Commits /\ RobMispredicted(Head1)

CommitsStore == Commits /\ Head1.is_store
CommitsReg   == Commits /\ ~Head1.is_store /\ Head1.dest_reg # 0

RatCommitted ==
  IF CommitsReg THEN RatCommitClear(rat, Head1.dest_reg, Head1.tag, Head1.val) ELSE rat
SbCommitted == IF CommitsStore THEN SbCommit(sb, Head1.tag) ELSE sb
DmemCommitted ==
  IF CommitsStore
  THEN DmemIssueWrite(DmemNext, Head1.store_addr, Head1.store_value, Head1.type)
  ELSE DmemNext
SquashOf(q) == (q.pending <=> Squashes) /\ (Squashes => q.tag = Head1.tag)

LEMMA CommitEffect ==
  ASSUME NEW n, NEW f, Holds(n, rob, rat, alurs, lsrs, sb, DmemNext, cdb, f, NoSquash)
  PROVE  LET m == Commit(n)
         IN  /\ Holds(m, Retired(Commits), RatCommitted, alurs, lsrs, SbCommitted,
                      DmemCommitted, cdb, f, m.squash)
             /\ SquashOf(m.squash)
<1> DEFINE m == Commit(n)
<1>1. DmemAcceptsWrite(n.dmem) <=> ~DmemIsBusy
  BY DEF Holds, DmemAcceptsWrite, DmemNext, NoRq
<1>2. /\ DOMAIN m = CopyFields
      /\ m.rob = Retired(Commits) /\ m.alurs = alurs /\ m.lsrs = lsrs
      /\ m.cdb = cdb /\ m.fetched = f
  BY <1>1 DEF Commit, Holds, Retired, Commits, Head1, CopyFields, RobHeadEntry
<1>3. m.sb = SbCommitted
  BY <1>1 DEF Commit, Holds, Commits, Head1, CopyFields, RobHeadEntry, SbCommitted, CommitsStore
<1>4. m.dmem = DmemCommitted
  BY <1>1 DEF Commit, Holds, Commits, Head1, CopyFields, RobHeadEntry, DmemCommitted, CommitsStore
<1>5. m.rat = RatCommitted
  BY <1>1 DEF Commit, Holds, Commits, Head1, CopyFields, RobHeadEntry, RatCommitted, CommitsReg
<1>6. SquashOf(m.squash)
  <2>1. CASE ~Squashes
    <3>1. m.squash = NoSquash
      BY <1>1, <2>1 DEF Commit, Holds, Commits, Head1, CopyFields, RobHeadEntry, Squashes
    <3> QED BY <2>1, <3>1 DEF SquashOf, NoSquash
  <2>2. CASE Squashes
    <3>1. m.squash = [pending |-> TRUE, tag |-> Head1.tag,
                      pc |-> IF Head1.branch_actual_taken THEN Head1.branch_target
                             ELSE Wrap(Head1.pc + 4)]
      BY <1>1, <2>2 DEF Commit, Holds, Commits, Head1, CopyFields, RobHeadEntry, Squashes
    <3> HIDE DEF m
    <3> QED BY <2>2, <3>1 DEF SquashOf
  <2> QED BY <2>1, <2>2
<1> HIDE DEF m
<1> QED BY <1>2, <1>3, <1>4, <1>5, <1>6 DEF Holds, m

----------------------------------------------------------------------------
(* execute, cdb_listen and writeback                                       *)

AluListened  == AluRsListen(AluRsExecute(alurs), cdb)
LsListened   == LsRsListen(LsRsExecute(lsrs), cdb)
SbExecuted   == LsSbExecute(SbCommitted)
DmemExecuted == LsDmemExecute(DmemDecreaseLeftCycles(DmemCommitted))

LEMMA ExecuteEffect ==
  ASSUME NEW n, NEW r, NEW a, NEW f, NEW q,
         Holds(n, r, a, alurs, lsrs, SbCommitted, DmemCommitted, cdb, f, q)
  PROVE  Holds(CdbListen(Execute(n)), r, a, AluListened, LsListened, SbExecuted, DmemExecuted,
               cdb, f, q)
<1> DEFINE m == Execute(n)
<1>1. /\ DOMAIN m = CopyFields
      /\ m.rob = r /\ m.rat = a /\ m.alurs = AluRsExecute(alurs) /\ m.lsrs = LsRsExecute(lsrs)
      /\ m.sb = SbExecuted /\ m.dmem = DmemExecuted /\ m.cdb = cdb /\ m.fetched = f
      /\ m.squash = q
  BY DEF Execute, Holds, CopyFields, SbExecuted, DmemExecuted
<1> HIDE DEF m
<1> QED BY <1>1 DEF CdbListen, Holds, CopyFields, AluListened, LsListened, m

\* The tags of the stores that finish, and what they write.
DoneTags == {lsrs[i].rob_tag : i \in LsDoneStores}
StoreResults == [t \in DoneTags |->
                   LET i == CHOOSE s \in LsDoneStores : lsrs[s].rob_tag = t
                   IN  [addr |-> lsrs[i].addr, val |-> lsrs[i].vk]]

\* The tags whose entries leave the load/store station.
FreedTags == IF Winner.valid /\ ~AluWins THEN DoneTags \cup {Winner.rob_tag} ELSE DoneTags

StoresWritten == RobWriteStoreResults(Retired(Commits), StoreResults)
ResultWritten ==
  IF Winner.valid THEN RobWriteResult(StoresWritten, Winner.rob_tag, Winner.val) ELSE StoresWritten
RobWritten ==
  IF Winner.is_branch
  THEN RobWriteBranchResult(ResultWritten, Winner.rob_tag,
                            Winner.branch_actual_taken, Winner.branch_target)
  ELSE ResultWritten
AluFreed == IF AluWins THEN AluRsFree(AluListened, Winner.rob_tag) ELSE AluListened
LsFreed  == LsRsFree(LsListened, FreedTags)

LEMMA WritebackEffect ==
  ASSUME NEW n, NEW a, NEW s, NEW d, NEW f, NEW q,
         Holds(n, Retired(Commits), a, AluListened, LsListened, s, d, cdb, f, q)
  PROVE  Holds(Writeback(n), RobWritten, a, AluFreed, LsFreed, s, d, Winner, f, q)
<1> DEFINE m == Writeback(n)
           w == Winner
<1> HIDE DEF w
<1>1. /\ DOMAIN m = CopyFields
      /\ m.rat = a /\ m.sb = s /\ m.dmem = d /\ m.fetched = f /\ m.squash = q
      /\ m.cdb = w
  BY DEF Writeback, Holds, CopyFields, w
<1>2. m.alurs = AluFreed
  BY DEF Writeback, Holds, CopyFields, AluFreed, w
<1>3. m.lsrs = LsFreed
  BY DEF Writeback, Holds, CopyFields, LsFreed, FreedTags, DoneTags, w
<1>4. m.rob = RobWritten
  BY DEF Writeback, Holds, CopyFields, RobWritten, ResultWritten, StoresWritten, StoreResults,
         DoneTags, w
<1> HIDE DEF m
<1> QED BY <1>1, <1>2, <1>3, <1>4 DEF Holds, m, w

----------------------------------------------------------------------------
(* issue                                                                   *)

Instr1 == fetched.instr

Stalls == \/ RobIsFull
          \/ Instr1.type \in AluTypes /\ AluRsIsFull
          \/ Instr1.type \in LsTypes /\ LsRsIsFull
          \/ Instr1.type \in StoreTypes /\ SbIsFull

Issues == fetched.valid /\ ~halted /\ Instr1.type \in AluTypes \cup LsTypes /\ ~Stalls

IssuesAlu   == Issues /\ Instr1.type \in AluTypes
IssuesLs    == Issues /\ Instr1.type \in LsTypes
IssuesStore == Issues /\ Instr1.type \in StoreTypes
IssuesReg   == Issues /\ Instr1.type \notin StoreTypes

\* What alloc's arguments, and then the new entry, say of the prediction.
PredictionOf(x) ==
  /\ x.pc = fetched.pc
  /\ x.branch_pred_taken = (Instr1.type \in JumpTypes
                              \/ (Instr1.type \in CondTypes /\ fetched.pred_taken))
  /\ Instr1.type \in BranchTypes => x.branch_pred_context = fetched.pred_context
  /\ Instr1.type = "JAL" => x.pred_target = Wrap(fetched.pc + Instr1.imm)

\* What alloc is told of the instruction.
ArgsOf(args) ==
  /\ args.type = Instr1.type /\ args.dest_reg = Instr1.rd
  /\ args.is_branch = (Instr1.type \in BranchTypes)
  /\ args.is_store = (Instr1.type \in StoreTypes)
  /\ PredictionOf(args)

Operand1 == ResolveOperand(Instr1.rs1)
Operand2 == ResolveOperand(Instr1.rs2)
NewTag   == RobWritten.next_tag

RobIssued(args) == IF Issues THEN RobAlloc(RobWritten, args) ELSE RobWritten
RatIssued == IF IssuesReg THEN RatSetTag(RatCommitted, Instr1.rd, NewTag) ELSE RatCommitted
AluIssued ==
  IF IssuesAlu THEN AluRsAlloc(AluFreed, Instr1, Operand1, Operand2, NewTag, fetched.pc)
  ELSE AluFreed
LsIssued ==
  IF IssuesLs THEN LsRsAlloc(LsFreed, Instr1, Operand1, Operand2, NewTag) ELSE LsFreed
SbIssued == IF IssuesStore THEN SbInsert(SbExecuted, NewTag, Instr1.type) ELSE SbExecuted

LEMMA IssueEffect ==
  ASSUME FetchedFits(fetched), NEW n, NEW f, NEW q,
         FetchedFits(f), fetched.valid => f = fetched,
         Holds(n, RobWritten, RatCommitted, AluFreed, LsFreed, SbExecuted, DmemExecuted,
               Winner, f, q)
  PROVE  LET m == Issue(n)
         IN  /\ \E args : ArgsOf(args)
                          /\ Holds(m, RobIssued(args), RatIssued, AluIssued, LsIssued, SbIssued,
                                   DmemExecuted, Winner, m.fetched, q)
             /\ FetchedFits(m.fetched)
<1> DEFINE m == Issue(n)
           ins == fetched.instr
           predTarget == CASE ins.type = "JAL" -> Wrap(fetched.pc + ins.imm)
                           [] ins.type = "JALR" -> n.ras_predicted_target
                           [] ins.type \in CondTypes -> fetched.pred_target
                           [] OTHER -> 0
           args == [type |-> ins.type, dest_reg |-> ins.rd, pc |-> fetched.pc,
                    is_branch |-> ins.type \in BranchTypes,
                    branch_pred_taken |-> ins.type \in JumpTypes
                                            \/ (ins.type \in CondTypes /\ fetched.pred_taken),
                    branch_target |-> IF ins.type \in BranchTypes
                                      THEN Wrap(fetched.pc + ins.imm) ELSE 0,
                    is_store |-> ins.type \in StoreTypes,
                    pred_target |-> predTarget,
                    branch_pred_context |-> IF ins.type \in BranchTypes
                                            THEN fetched.pred_context ELSE 0]
           cleared == [f EXCEPT !.valid = FALSE]
<1> HIDE DEF predTarget
<1>1. ArgsOf(args)
  <2>1. ins.type = "JAL" => predTarget = Wrap(fetched.pc + ins.imm)
    BY DEF predTarget, CondTypes
  <2>2. PredictionOf(args)
    BY <2>1 DEF PredictionOf, Instr1
  <2> QED BY <2>2 DEF ArgsOf, Instr1
<1>2. /\ FetchedFits(cleared)
      /\ fetched.valid => ins.type \in InstrType /\ ins.type # "ILLEGAL"
  BY DEF FetchedFits, FetchedFields, Instr
<1>3. fetched.valid /\ ~halted =>
        ins.type \in {"HALT", "NOP", "UNKNOWN"} \/ ins.type \in AluTypes \cup LsTypes
  BY <1>2 DEF InstrType, NoPlaceTypes
<1>4. ins.type \in AluTypes \cup LsTypes => ins.type \notin {"HALT", "NOP", "UNKNOWN"}
  BY DEF AluTypes, LsTypes, AluRTypes, AluITypes, UpperTypes, BranchTypes, CondTypes, JumpTypes,
         LoadTypes, StoreTypes
<1> HIDE DEF args
<1>5. CASE ~Issues
  <2>1. m = n \/ (/\ DOMAIN m = CopyFields
                  /\ m.rob = n.rob /\ m.rat = n.rat /\ m.alurs = n.alurs /\ m.lsrs = n.lsrs
                  /\ m.sb = n.sb /\ m.dmem = n.dmem /\ m.cdb = n.cdb /\ m.squash = n.squash
                  /\ m.fetched = cleared)
    BY <1>3, <1>4, <1>5 DEF Issue, Holds, CopyFields, Issues, Stalls, Instr1
  <2> HIDE DEF m, cleared
  <2>2. /\ RobIssued(args) = RobWritten /\ RatIssued = RatCommitted /\ AluIssued = AluFreed
        /\ LsIssued = LsFreed /\ SbIssued = SbExecuted
    BY <1>5 DEF RobIssued, RatIssued, AluIssued, LsIssued, SbIssued,
                IssuesReg, IssuesAlu, IssuesLs, IssuesStore
  <2>3. Holds(m, RobWritten, RatCommitted, AluFreed, LsFreed, SbExecuted, DmemExecuted, Winner,
              m.fetched, q)
    BY <2>1 DEF Holds
  <2>4. n.fetched = f
    BY DEF Holds
  <2>5. FetchedFits(m.fetched)
    BY <1>2, <2>1, <2>4
  <2> QED BY <1>1, <2>2, <2>3, <2>5 DEF m
<1>6. CASE Issues
  <2>1. /\ DOMAIN m = CopyFields
        /\ m.dmem = n.dmem /\ m.cdb = n.cdb /\ m.squash = n.squash /\ m.fetched = cleared
    <3>1. DOMAIN m = CopyFields /\ m.dmem = n.dmem /\ m.cdb = n.cdb /\ m.squash = n.squash
      BY <1>3, <1>4, <1>6 DEF Issue, Holds, CopyFields, Issues, Stalls, Instr1
    <3>2. m.fetched = cleared
      BY <1>3, <1>4, <1>6 DEF Issue, Holds, CopyFields, Issues, Stalls, Instr1
    <3> QED BY <3>1, <3>2
  <2>2. m.rob = RobAlloc(n.rob, args)
    BY <1>3, <1>4, <1>6 DEF Issue, Holds, CopyFields, Issues, Stalls, Instr1, args, predTarget
  <2>3. m.rat = RatIssued
    BY <1>3, <1>4, <1>6
    DEF Issue, Holds, CopyFields, Issues, Stalls, Instr1, RatIssued, IssuesReg, NewTag
  <2>4. m.alurs = AluIssued
    BY <1>3, <1>4, <1>6
    DEF Issue, Holds, CopyFields, Issues, Stalls, Instr1, AluIssued, IssuesAlu, NewTag,
        Operand1, Operand2
  <2>5. m.lsrs = LsIssued
    BY <1>3, <1>4, <1>6
    DEF Issue, Holds, CopyFields, Issues, Stalls, Instr1, LsIssued, IssuesLs, NewTag,
        Operand1, Operand2
  <2>6. m.sb = SbIssued
    BY <1>3, <1>4, <1>6
    DEF Issue, Holds, CopyFields, Issues, Stalls, Instr1, SbIssued, IssuesStore, NewTag
  <2> HIDE DEF m, cleared
  <2> QED BY <1>1, <1>2, <1>6, <2>1, <2>2, <2>3, <2>4, <2>5, <2>6 DEF Holds, RobIssued, m
<1> QED BY <1>5, <1>6

----------------------------------------------------------------------------
(* finalize, resolve_cycle_outputs and the requests to the memory          *)

RobResolved(args) ==
  IF Squashes THEN RobFlushFrom(RobIssued(args), Head1.tag) ELSE RobIssued(args)
RatResolved == IF Squashes THEN RatRestore(RatIssued, Head1.tag) ELSE RatIssued
AluResolved == IF Squashes THEN AluRsFlush(AluIssued) ELSE AluIssued
LsResolved  == IF Squashes THEN LsRsFlush(LsIssued) ELSE LsIssued
SbResolved  == IF Squashes THEN SbFlushFrom(SbIssued, Head1.tag) ELSE SbIssued
CdbResolved == IF Squashes THEN CdbInvalidateSquashed(Winner, Head1.tag) ELSE Winner

\* No load starts in the cycle of a squash.
StartsLoad == DmemAcceptsLoad(DmemExecuted, ~Squashes)

LsEnd == IF StartsLoad THEN LsRsMarkRequested(LsResolved, DmemExecuted.pending_load.rob_tag)
         ELSE LsResolved

LEMMA ResolveEffect ==
  ASSUME NEW n, NEW args, NEW f, NEW q, FetchedFits(f), SquashOf(q),
         Holds(n, RobIssued(args), RatIssued, AluIssued, LsIssued, SbIssued, DmemExecuted,
               Winner, f, q)
  PROVE  LET m == ResolveRequests(ResolveCycleOutputs(Finalize(n)))
         IN  /\ Holds(m, RobResolved(args), RatResolved, AluResolved, LsEnd, SbResolved,
                      DmemResolve(DmemExecuted, ~Squashes), CdbResolved, m.fetched, q)
             /\ FetchedFits(m.fetched)
<1> DEFINE x == Finalize(n)
           y == ResolveCycleOutputs(x)
           m == ResolveRequests(y)
<1>1. Holds(x, RobIssued(args), RatIssued, AluIssued, LsIssued, SbIssued, DmemExecuted,
            Winner, f, q)
  BY DEF Holds, Finalize, CopyFields
<1> HIDE DEF x
<1>2. /\ DOMAIN y = CopyFields
      /\ y.rob = RobResolved(args) /\ y.rat = RatResolved /\ y.alurs = AluResolved
      /\ y.lsrs = LsResolved /\ y.sb = SbResolved /\ y.dmem = DmemExecuted
      /\ y.cdb = CdbResolved /\ y.squash = q
      /\ y.fetched \in {f, [f EXCEPT !.valid = FALSE]}
  <2>1. CASE ~Squashes
    <3>1. y = x
      BY <1>1, <2>1 DEF ResolveCycleOutputs, Holds, SquashOf
    <3> HIDE DEF y
    <3> QED BY <1>1, <2>1, <3>1
        DEF Holds, RobResolved, RatResolved, AluResolved, LsResolved, SbResolved, CdbResolved
  <2>2. CASE Squashes
    <3>1. q.pending /\ q.tag = Head1.tag
      BY <2>2 DEF SquashOf
    <3>2. /\ DOMAIN y = CopyFields
          /\ y.rob = RobFlushFrom(x.rob, q.tag) /\ y.rat = RatRestore(x.rat, q.tag)
          /\ y.alurs = AluRsFlush(x.alurs) /\ y.lsrs = LsRsFlush(x.lsrs)
          /\ y.sb = SbFlushFrom(x.sb, q.tag) /\ y.dmem = x.dmem
          /\ y.cdb = CdbInvalidateSquashed(x.cdb, q.tag)
          /\ y.squash = q
          /\ y.fetched = [x.fetched EXCEPT !.valid = FALSE]
      BY <1>1, <3>1 DEF ResolveCycleOutputs, Holds, CopyFields
    <3> HIDE DEF y
    <3> QED BY <1>1, <2>2, <3>1, <3>2
        DEF Holds, RobResolved, RatResolved, AluResolved, LsResolved, SbResolved, CdbResolved
  <2> QED BY <2>1, <2>2
<1>3. FetchedFits(y.fetched)
  BY <1>2 DEF FetchedFits, FetchedFields
<1> HIDE DEF y
<1>4. /\ DOMAIN m = CopyFields
      /\ m.rob = y.rob /\ m.rat = y.rat /\ m.alurs = y.alurs /\ m.sb = y.sb
      /\ m.cdb = y.cdb /\ m.squash = y.squash /\ m.fetched = y.fetched
  BY <1>2 DEF ResolveRequests, CopyFields
<1>5. ~y.squash.pending <=> ~Squashes
  BY <1>2 DEF SquashOf
<1>6. m.dmem = DmemResolve(y.dmem, ~y.squash.pending)
  BY <1>2 DEF ResolveRequests, CopyFields
<1>7. m.lsrs = IF DmemAcceptsLoad(y.dmem, ~y.squash.pending)
               THEN LsRsMarkRequested(y.lsrs, y.dmem.pending_load.rob_tag) ELSE y.lsrs
  BY <1>2 DEF ResolveRequests, CopyFields
<1>8. m.dmem = DmemResolve(DmemExecuted, ~Squashes)
  BY <1>2, <1>5, <1>6 DEF DmemResolve, DmemAcceptsLoad
<1>9. m.lsrs = LsEnd
  BY <1>2, <1>5, <1>7 DEF LsEnd, StartsLoad, DmemAcceptsLoad
<1> HIDE DEF m
<1> QED BY <1>2, <1>3, <1>4, <1>8, <1>9 DEF Holds, m, y, x

----------------------------------------------------------------------------
(* The cycle                                                               *)

\* The next value of each of the components in terms of the current state.
Effect(args) ==
  /\ rob' = RobResolved(args) /\ rat' = RatResolved /\ alurs' = AluResolved
  /\ lsrs' = LsEnd /\ sb' = SbResolved /\ cdb' = CdbResolved
  /\ rq' = DmemResolve(DmemExecuted, ~Squashes).rq
  /\ FetchedFits(fetched') /\ prog' = prog

LEMMA CycleEffect ==
  ASSUME prog \in Programs, FetchedFits(fetched), Cycle
  PROVE  \E args : ArgsOf(args) /\ Effect(args)
<1>1. PICK taken \in BOOLEAN : Update(ResolveRequests(ResolveCycleOutputs(Phases(taken))))
  BY DEF Cycle
<1> DEFINE n1 == Fetch(NextStates, taken)
           n2 == Commit(n1)
           n3 == CdbListen(Execute(n2))
           n4 == Writeback(n3)
           n5 == Issue(n4)
           n6 == ResolveRequests(ResolveCycleOutputs(Finalize(n5)))
<1>2. Update(n6)
  BY <1>1 DEF Phases
<1>3. /\ Holds(n1, rob, rat, alurs, lsrs, sb, DmemNext, cdb, n1.fetched, NoSquash)
      /\ FetchedFits(n1.fetched)
      /\ fetched.valid => n1.fetched = fetched
  BY FetchEffect DEF Fetches
<1> HIDE DEF n1
<1>4. /\ Holds(n2, Retired(Commits), RatCommitted, alurs, lsrs, SbCommitted,
               DmemCommitted, cdb, n1.fetched, n2.squash)
      /\ SquashOf(n2.squash)
  BY <1>3, CommitEffect
<1> HIDE DEF n2
<1>5. Holds(n3, Retired(Commits), RatCommitted, AluListened, LsListened, SbExecuted, DmemExecuted,
            cdb, n1.fetched, n2.squash)
  BY <1>4, ExecuteEffect
<1> HIDE DEF n3
<1>6. Holds(n4, RobWritten, RatCommitted, AluFreed, LsFreed, SbExecuted, DmemExecuted, Winner,
            n1.fetched, n2.squash)
  BY <1>5, WritebackEffect
<1> HIDE DEF n4
<1>7. PICK args : /\ ArgsOf(args)
                  /\ Holds(n5, RobIssued(args), RatIssued, AluIssued, LsIssued, SbIssued,
                           DmemExecuted, Winner, n5.fetched, n2.squash)
                  /\ FetchedFits(n5.fetched)
  BY <1>3, <1>6, IssueEffect
<1> HIDE DEF n5
<1>8. /\ Holds(n6, RobResolved(args), RatResolved, AluResolved, LsEnd, SbResolved,
               DmemResolve(DmemExecuted, ~Squashes), CdbResolved, n6.fetched, n2.squash)
      /\ FetchedFits(n6.fetched)
  BY <1>4, <1>7, ResolveEffect
<1> HIDE DEF n6
<1>9. Effect(args)
  BY <1>2, <1>8 DEF Update, Holds, Effect
<1> QED BY <1>7, <1>9

----------------------------------------------------------------------------
(* The reorder buffer through the cycle                                    *)

\* An entry that is in the buffer and stays there.
Live(i) == rob.slots[i].busy /\ ~(Commits /\ i = rob.head)

\* The tags whose results are written in this cycle: the one on the bus and
\* those of the stores that finish.
Finishing == (IF Winner.valid THEN {Winner.rob_tag} ELSE {}) \cup DoneTags

\* Two entries of the same instruction, predicted the same way.
SamePrediction(e, f) ==
  /\ f.is_branch = e.is_branch /\ f.pc = e.pc
  /\ f.branch_pred_taken = e.branch_pred_taken /\ f.pred_target = e.pred_target
  /\ f.branch_pred_context = e.branch_pred_context

\* An entry e and what writeback makes of it.
Wrote(e, f) ==
  /\ f.busy /\ f.tag = e.tag /\ f.type = e.type /\ f.dest_reg = e.dest_reg
  /\ f.is_store = e.is_store /\ SamePrediction(e, f)
  /\ f.ready <=> e.ready \/ e.tag \in Finishing
  /\ e.tag \notin Finishing => f = e
  /\ e.tag \in DoneTags /\ e.is_store => /\ f.store_addr = StoreResults[e.tag].addr
                                         /\ f.store_value = StoreResults[e.tag].val
  /\ Winner.is_branch /\ e.is_branch /\ e.tag = Winner.rob_tag =>
       /\ f.branch_actual_taken = Winner.branch_actual_taken
       /\ f.branch_target = Winner.branch_target

\* The entry of the instruction that is issued.
IsNew(f) ==
  /\ Issues
  /\ f.tag = rob.next_tag /\ ~f.ready /\ f.type = Instr1.type /\ f.dest_reg = Instr1.rd
  /\ f.is_store <=> Instr1.type \in StoreTypes
  /\ f.is_branch = (Instr1.type \in BranchTypes) /\ PredictionOf(f)

\* The buffer before and after a cycle without a squash.
RobStep(n) ==
  /\ RingOK(n)
  /\ n.next_tag = IF Issues THEN rob.next_tag + 1 ELSE rob.next_tag
  /\ \A i \in RobSlots : Live(i) => Wrote(rob.slots[i], n.slots[i])
  /\ \A i \in RobSlots : ~Live(i) /\ n.slots[i].busy => IsNew(n.slots[i])
  /\ Issues => \E t \in RobSlots : ~Live(t) /\ n.slots[t].busy

\* commit() changes no entry that stays.
LEMMA RetiredIs ==
  ASSUME RingOK(rob), NEW i \in RobSlots
  PROVE  /\ Retired(Commits).slots[i].busy <=> Live(i)
         /\ Live(i) => Retired(Commits).slots[i] = rob.slots[i]
         /\ Retired(Commits).next_tag = rob.next_tag
<1>1. RingShape(rob) /\ EntryShape(rob.slots[i])
  BY DEF RingOK, RingShape
<1>2. CASE ~Commits
  BY <1>2 DEF Retired, Live
<1>3. CASE Commits
  BY <1>1, <1>3 DEF Retired, Live, RobCommit, RingShape, EntryShape, RobEntryFields
<1> QED BY <1>2, <1>3

\* After commit() the next copy is good for the rest of the cycle.
LEMMA RetiredMidCycle ==
  ASSUME RingOK(rob)
  PROVE  MidCycle(Retired(Commits), Commits) /\ RingShape(Retired(Commits))
<1>1. Commits \in BOOLEAN /\ (Commits => RobCanCommit(rob))
  BY DEF Commits
<1> HIDE DEF Commits
<1> QED BY <1>1, CommitMidCycle DEF MidCycle, RingOK

\* What writeback does to an entry that stays, given that the results are for
\* entries that wait: a store's for a store, another one for another.
LEMMA WrittenIs ==
  ASSUME RingOK(rob), NEW i \in RobSlots,
         rob.slots[i].busy /\ rob.slots[i].tag \in DoneTags => rob.slots[i].is_store,
         Winner.is_branch => Winner.valid
  PROVE  /\ MidCycle(RobWritten, Commits) /\ RingShape(RobWritten)
         /\ RobWritten.next_tag = rob.next_tag
         /\ Live(i) => Wrote(rob.slots[i], RobWritten.slots[i])
         /\ ~Live(i) => ~RobWritten.slots[i].busy
<1> DEFINE r == Retired(Commits)
           w == Winner
           tag == rob.slots[i].tag
<1>1. /\ RingShape(r) /\ MidCycle(r, Commits) /\ r.next_tag = rob.next_tag
      /\ r.slots[i].busy <=> Live(i)
      /\ Live(i) => r.slots[i] = rob.slots[i]
  BY RetiredIs, RetiredMidCycle
<1>2. RingShape(StoresWritten) /\ SameQueue(r, StoresWritten)
  BY <1>1, WriteStoreResultsShape DEF StoresWritten
<1>3. RingShape(ResultWritten) /\ SameQueue(StoresWritten, ResultWritten)
  BY <1>2, WriteResultShape DEF ResultWritten, SameQueue
<1>4. RingShape(RobWritten) /\ SameQueue(ResultWritten, RobWritten)
  BY <1>3, WriteBranchResultShape DEF RobWritten, SameQueue
<1>5. MidCycle(RobWritten, Commits)
  <2>1. Commits \in BOOLEAN
    BY DEF Commits
  <2> HIDE DEF Commits, r
  <2> QED BY <1>1, <1>2, <1>3, <1>4, <2>1, SameQueueMidCycle
<1>6. RobWritten.next_tag = rob.next_tag /\ (RobWritten.slots[i].busy <=> Live(i))
  BY <1>1, <1>2, <1>3, <1>4 DEF SameQueue
<1>7. ASSUME Live(i)
      PROVE  Wrote(rob.slots[i], RobWritten.slots[i])
  <2> DEFINE e == rob.slots[i]
             f == StoresWritten.slots[i]
             g == ResultWritten.slots[i]
             h == RobWritten.slots[i]
  <2>1. EntryShape(e) /\ EntryShape(f) /\ EntryShape(g) /\ EntryShape(h) /\ e.busy /\ r.slots[i] = e
    BY <1>1, <1>2, <1>3, <1>4, <1>7 DEF RingOK, RingShape, Live
  <2>2. f = IF e.tag \in DoneTags
            THEN [e EXCEPT !.ready = TRUE, !.store_addr = StoreResults[e.tag].addr,
                           !.store_value = StoreResults[e.tag].val]
            ELSE e
    <3>1. DOMAIN StoreResults = DoneTags
      BY DEF StoreResults
    <3>2. \A t : RobWritable(r, i, t) <=> t = e.tag
      BY <2>1 DEF RobWritable, RobHolds
    <3> QED BY <1>1, <2>1, <3>1, <3>2 DEF StoresWritten, RobWriteStoreResults, RingShape
  <2>3. g = IF w.valid /\ e.tag = w.rob_tag THEN [f EXCEPT !.ready = TRUE, !.val = w.val] ELSE f
    <3>1. RobWritable(StoresWritten, i, w.rob_tag) <=> e.tag = w.rob_tag
      BY <1>2, <2>1 DEF RobWritable, RobHolds, SameQueue
    <3> QED BY <1>2, <3>1 DEF ResultWritten, RobWriteResult, RingShape
  <2>4. h = IF w.is_branch /\ e.tag = w.rob_tag /\ e.is_branch
            THEN [g EXCEPT !.ready = TRUE, !.branch_actual_taken = w.branch_actual_taken,
                           !.branch_target = w.branch_target]
            ELSE g
    <3>1. RobWritable(ResultWritten, i, w.rob_tag) <=> e.tag = w.rob_tag
      BY <1>2, <1>3, <2>1 DEF RobWritable, RobHolds, SameQueue
    <3> QED BY <1>3, <3>1 DEF RobWritten, RobWriteBranchResult, RingShape
  <2> HIDE DEF e, f, g, h, w
  <2>5. e.tag \in Finishing <=> (w.valid /\ e.tag = w.rob_tag) \/ e.tag \in DoneTags
    BY DEF Finishing, w
  <2>6. /\ f.busy = e.busy /\ f.tag = e.tag /\ f.type = e.type /\ f.dest_reg = e.dest_reg
        /\ f.is_store = e.is_store
        /\ f.ready <=> e.ready \/ e.tag \in DoneTags
        /\ e.tag \in DoneTags => /\ f.store_addr = StoreResults[e.tag].addr
                                 /\ f.store_value = StoreResults[e.tag].val
    BY <2>1, <2>2 DEF EntryShape, RobEntryFields
  <2>7. SamePrediction(e, f)
    BY <2>1, <2>2 DEF EntryShape, RobEntryFields, SamePrediction
  <2>8. /\ g.busy = e.busy /\ g.tag = e.tag /\ g.type = e.type /\ g.dest_reg = e.dest_reg
        /\ g.is_store = e.is_store /\ g.store_addr = f.store_addr /\ g.store_value = f.store_value
        /\ g.ready <=> f.ready \/ (w.valid /\ e.tag = w.rob_tag)
    BY <2>1, <2>3, <2>6 DEF EntryShape, RobEntryFields
  <2>9. SamePrediction(f, g)
    BY <2>1, <2>3 DEF EntryShape, RobEntryFields, SamePrediction
  <2>10. /\ h.busy = e.busy /\ h.tag = e.tag /\ h.type = e.type /\ h.dest_reg = e.dest_reg
        /\ h.is_store = e.is_store /\ h.store_addr = f.store_addr /\ h.store_value = f.store_value
        /\ h.ready <=> g.ready \/ (w.is_branch /\ e.tag = w.rob_tag /\ e.is_branch)
    BY <2>1, <2>4, <2>8 DEF EntryShape, RobEntryFields
  <2>11. SamePrediction(g, h)
    BY <2>1, <2>4 DEF EntryShape, RobEntryFields, SamePrediction
  <2>12. SamePrediction(e, h)
    BY <2>7, <2>9, <2>11 DEF SamePrediction
  <2>13. w.is_branch => w.valid
    BY DEF w
  <2>14. e.tag \notin Finishing => h = e
    BY <2>2, <2>3, <2>4, <2>5, <2>13
  <2>15. w.is_branch /\ e.is_branch /\ e.tag = w.rob_tag =>
           h.branch_actual_taken = w.branch_actual_taken /\ h.branch_target = w.branch_target
    BY <2>1, <2>4 DEF EntryShape, RobEntryFields
  <2>16. Wrote(e, h)
    <3>1. Winner = w
      BY DEF w
    <3> QED BY <2>1, <2>5, <2>6, <2>8, <2>10, <2>12, <2>13, <2>14, <2>15, <3>1 DEF Wrote
  <2> QED BY <2>16 DEF e, h
<1> QED BY <1>4, <1>5, <1>6, <1>7

\* The buffer before the squash, if there is one.
LEMMA RobIssuedIs ==
  ASSUME RingOK(rob),
         \A i \in RobSlots :
           rob.slots[i].busy /\ rob.slots[i].tag \in DoneTags => rob.slots[i].is_store,
         Winner.is_branch => Winner.valid,
         NEW args, ArgsOf(args)
  PROVE  /\ RobStep(RobIssued(args))
         /\ Commits => Behind(RobIssued(args))
         /\ NewTag = rob.next_tag
<1> DEFINE w == RobWritten
           n == RobIssued(args)
           t == w.tail
<1>1. /\ MidCycle(w, Commits) /\ RingShape(w) /\ w.next_tag = rob.next_tag
      /\ \A i \in RobSlots : /\ Live(i) => Wrote(rob.slots[i], w.slots[i])
                             /\ ~Live(i) => ~w.slots[i].busy
  <2>1. 0 \in RobSlots
    BY RobSizeAssumption DEF RobSlots
  <2> QED BY <2>1, WrittenIs
<1>2. RingOK(w) /\ (Commits => Behind(w))
  BY <1>1 DEF MidCycle
<1>3. CASE ~Issues
  BY <1>1, <1>2, <1>3 DEF RobIssued, RobStep, NewTag
<1>4. CASE Issues
  <2>1. ~RobIsFull /\ RobCount(w) # RobSize /\ ArgsShape(args)
    BY <1>1, <1>4 DEF Issues, Stalls, MidCycle, ArgsShape, ArgsOf
  <2>2. n = RobAlloc(w, args)
    BY <1>4 DEF RobIssued
  <2>3. RingOK(n) /\ (Commits => Behind(n)) /\ ~w.slots[t].busy
    <3>1. Commits \in BOOLEAN
      BY DEF Commits
    <3> HIDE DEF Commits, w, n
    <3> QED BY <1>1, <1>2, <2>1, <2>2, <3>1, AllocEndsCycle, AllocKeepsRing
  <2>4. /\ t \in RobSlots /\ n.next_tag = w.next_tag + 1
        /\ n.slots[t] = NewEntry(w, args)
        /\ \A i \in RobSlots \ {t} : n.slots[i] = w.slots[i]
    BY <1>1, <2>1, <2>2, AllocEffect DEF RingShape
  <2>5. n.slots[t].busy /\ IsNew(n.slots[t]) /\ ~Live(t)
    <3>1. /\ NewEntry(w, args).busy /\ NewEntry(w, args).tag = w.next_tag
          /\ ~NewEntry(w, args).ready /\ NewEntry(w, args).type = Instr1.type
          /\ NewEntry(w, args).dest_reg = Instr1.rd
          /\ NewEntry(w, args).is_store = (Instr1.type \in StoreTypes)
          /\ NewEntry(w, args).is_branch = (Instr1.type \in BranchTypes)
      BY DEF NewEntry, ArgsOf
    <3>3. PredictionOf(NewEntry(w, args))
      BY DEF NewEntry, ArgsOf, PredictionOf
    <3>2. ~Live(t)
      BY <1>1, <2>3, <2>4 DEF Wrote
    <3> QED BY <1>1, <1>4, <2>4, <3>1, <3>2, <3>3 DEF IsNew
  <2> HIDE DEF n, w, t
  <2> QED BY <1>1, <1>4, <2>3, <2>4, <2>5 DEF RobStep, NewTag, w, n
<1> QED BY <1>3, <1>4
============================================================================
