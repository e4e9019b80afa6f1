---------------------------- MODULE StationProofs ----------------------------
(***************************************************************************)
(* The reorder buffer, the alias table, the reservation stations, the      *)
(* store buffer and the memory of the processor, from one cycle to the     *)
(* next.                                                                   *)
(***************************************************************************)
EXTENDS CycleProofs, WellFoundedInduction

----------------------------------------------------------------------------
(* The result on the bus                                                   *)

\* The bus carries the result of a finished entry of one of the stations.
LEMMA WinnerIs ==
  ASSUME StationShape(alurs, lsrs)
  PROVE  /\ Winner.is_branch => Winner.valid
         /\ Winner.valid \in BOOLEAN /\ Winner.rob_tag \in Nat
         /\ AluWins => /\ Winner.valid
                       /\ \E i \in AluSlots : alurs[i].busy /\ alurs[i].rob_tag = Winner.rob_tag
         /\ Winner.valid /\ ~AluWins =>
              \E i \in LsSlots : lsrs[i].busy /\ lsrs[i].is_load /\ lsrs[i].rob_tag = Winner.rob_tag
<1>1. CASE AluWins
  <2>1. PICK i \in AluRsCandidate : i = CHOOSE j \in AluRsCandidate : TRUE
    BY <1>1 DEF AluWins
  <2>2. i \in AluSlots /\ alurs[i].busy /\ alurs[i].rob_tag \in Nat
    BY DEF AluRsCandidate, AluOldest, AluRsFinished, StationShape, AluShape
  <2>3. Winner = [valid |-> TRUE, rob_tag |-> alurs[i].rob_tag, val |-> alurs[i].result,
                  is_branch |-> alurs[i].type \in BranchTypes,
                  branch_actual_taken |-> alurs[i].branch_actual_taken,
                  branch_target |-> alurs[i].branch_target]
    BY <1>1, <2>1 DEF Winner
  <2>4. Winner.valid /\ Winner.rob_tag = alurs[i].rob_tag
    BY <2>3
  <2> QED BY <1>1, <2>2, <2>4
<1>2. CASE ~AluWins /\ LsRsCandidate # {}
  <2>1. PICK i \in LsRsCandidate : i = CHOOSE j \in LsRsCandidate : TRUE
    BY <1>2
  <2>2. i \in LsSlots /\ lsrs[i].busy /\ lsrs[i].is_load /\ lsrs[i].rob_tag \in Nat
    BY DEF LsRsCandidate, LsOldest, StationShape, LsShape
  <2>3. Winner = [EmptyBus EXCEPT !.valid = TRUE, !.rob_tag = lsrs[i].rob_tag,
                                  !.val = lsrs[i].mem_result]
    BY <1>2, <2>1 DEF Winner
  <2>4. Winner.valid /\ Winner.rob_tag = lsrs[i].rob_tag
    BY <2>3 DEF EmptyBus
  <2> QED BY <1>2, <2>2, <2>4
<1>3. CASE ~AluWins /\ LsRsCandidate = {}
  BY <1>3 DEF Winner, EmptyBus
<1> QED BY <1>1, <1>2, <1>3

\* A load is not a store, and neither is what the ALU executes.
LEMMA KindsDisjoint ==
  /\ AluTypes \cap LsTypes = {} /\ LoadTypes \cap StoreTypes = {}
  /\ LoadTypes \subseteq LsTypes /\ StoreTypes \subseteq LsTypes
  BY DEF AluTypes, LsTypes, AluRTypes, AluITypes, UpperTypes, BranchTypes, CondTypes, JumpTypes,
         LoadTypes, StoreTypes

\* Whose results are written: entries that wait for them, a store's from the
\* station, another's from the bus.
LEMMA FinishingIs ==
  ASSUME RobKinds(rob), StationShape(alurs, lsrs), Paired(rob, alurs, lsrs)
  PROVE  /\ \A t \in DoneTags : \E s \in RobSlots :
              rob.slots[s].busy /\ ~rob.slots[s].ready /\ rob.slots[s].tag = t /\ rob.slots[s].is_store
         /\ Winner.valid => \E s \in RobSlots :
              /\ rob.slots[s].busy /\ ~rob.slots[s].ready /\ rob.slots[s].tag = Winner.rob_tag
              /\ ~rob.slots[s].is_store
<1>1. ASSUME NEW t \in DoneTags
      PROVE  \E s \in RobSlots : /\ rob.slots[s].busy /\ ~rob.slots[s].ready
                                 /\ rob.slots[s].tag = t /\ rob.slots[s].is_store
  <2>1. PICK i \in LsSlots : lsrs[i].busy /\ ~lsrs[i].is_load /\ lsrs[i].rob_tag = t
    BY DEF DoneTags, LsDoneStores
  <2>2. PICK s \in RobSlots : Awaits(rob, s, t, TRUE) /\ rob.slots[s].type = lsrs[i].type
    BY <2>1 DEF Paired
  <2>3. lsrs[i].type \in StoreTypes
    BY <2>1 DEF StationShape, LsShape, LsTypes
  <2> QED BY <2>2, <2>3 DEF Awaits, RobKinds, KindOK
<1>2. ASSUME Winner.valid
      PROVE  \E s \in RobSlots :
               /\ rob.slots[s].busy /\ ~rob.slots[s].ready /\ rob.slots[s].tag = Winner.rob_tag
               /\ ~rob.slots[s].is_store
  <2>1. CASE AluWins
    <3>1. PICK s \in RobSlots : Awaits(rob, s, Winner.rob_tag, FALSE)
      BY <2>1, WinnerIs DEF Paired
    <3> QED BY <3>1, KindsDisjoint DEF Awaits, RobKinds, KindOK
  <2>2. CASE ~AluWins
    <3>1. PICK i \in LsSlots : lsrs[i].busy /\ lsrs[i].is_load /\ lsrs[i].rob_tag = Winner.rob_tag
      BY <1>2, <2>2, WinnerIs
    <3>2. PICK s \in RobSlots : /\ Awaits(rob, s, Winner.rob_tag, TRUE)
                                /\ rob.slots[s].type = lsrs[i].type
      BY <3>1 DEF Paired
    <3>3. lsrs[i].type \in LoadTypes
      BY <3>1 DEF StationShape, LsShape
    <3> QED BY <3>2, <3>3, KindsDisjoint DEF Awaits, RobKinds, KindOK
  <2> QED BY <2>1, <2>2
<1> QED BY <1>1, <1>2

----------------------------------------------------------------------------
(* The reorder buffer                                                      *)

Inv1 == FrontInv /\ StationInv

\* The cycle keeps the ring good; what was in it stays, with its result when
\* that is written, or commits, and one entry may join.
LEMMA RobCycle ==
  ASSUME Inv1, NEW args, ArgsOf(args)
  PROVE  /\ RobStep(RobIssued(args))
         /\ Commits => Behind(RobIssued(args))
         /\ NewTag = rob.next_tag
<1>1. ASSUME NEW i \in RobSlots, rob.slots[i].busy, rob.slots[i].tag \in DoneTags
      PROVE  rob.slots[i].is_store
  <2>1. PICK s \in RobSlots : /\ rob.slots[s].busy /\ rob.slots[s].is_store
                              /\ rob.slots[s].tag = rob.slots[i].tag
    BY <1>1, FinishingIs DEF Inv1, FrontInv, StationInv
  <2>2. s = i
    BY <1>1, <2>1, TagsUnique DEF Inv1, FrontInv
  <2> QED BY <2>1, <2>2
<1> QED BY <1>1, WinnerIs, RobIssuedIs DEF Inv1, FrontInv, StationInv

\* A squash leaves no entry in the ring.
LEMMA RobSquash ==
  ASSUME Inv1, NEW args, ArgsOf(args), Squashes
  PROVE  /\ RingOK(RobResolved(args))
         /\ \A i \in RobSlots : ~RobResolved(args).slots[i].busy
<1>1. RingOK(rob) /\ RingOK(RobIssued(args)) /\ Behind(RobIssued(args))
  BY RobCycle DEF Inv1, FrontInv, RobStep, Squashes
<1> QED BY <1>1, FlushEmptiesRing DEF RobResolved, Head1

\* What is in the ring after a cycle was there before, or is the instruction
\* that was issued.
LEMMA RobStepKinds ==
  ASSUME Inv1, NEW n, RobStep(n), NEW i \in RobSlots, n.slots[i].busy
  PROVE  /\ KindOK(n.slots[i])
         /\ n.slots[i].tag < n.next_tag
         /\ Live(i) => /\ n.slots[i].tag = rob.slots[i].tag
                       /\ n.slots[i].tag < rob.next_tag
         /\ ~Live(i) => n.slots[i].tag = rob.next_tag
<1>1. /\ rob.next_tag \in Nat /\ n.next_tag \in Nat
      /\ n.slots[i].tag \in 1 .. n.next_tag - 1
      /\ rob.slots[i].busy => rob.slots[i].tag \in 1 .. rob.next_tag - 1
  BY DEF Inv1, FrontInv, RobStep, RingOK, RingShape, TagsInOrder
<1>2. CASE Live(i)
  <2>1. Wrote(rob.slots[i], n.slots[i]) /\ rob.slots[i].busy /\ KindOK(rob.slots[i])
    BY <1>2 DEF RobStep, Live, Inv1, FrontInv, RobKinds
  <2>2. KindOK(n.slots[i])
    BY <2>1 DEF Wrote, SamePrediction, KindOK
  <2> QED BY <1>1, <1>2, <2>1, <2>2 DEF Wrote
<1>3. CASE ~Live(i)
  <2>1. IsNew(n.slots[i])
    BY <1>3 DEF RobStep
  <2>2. Instr1 \in Programmed /\ Instr1.type \in AluTypes \cup LsTypes
    BY <2>1 DEF IsNew, Issues, Instr1, Inv1, FrontInv, FetchedFits
  <2>3. KindOK(n.slots[i])
    BY <2>1, <2>2 DEF IsNew, KindOK
  <2> QED BY <1>1, <1>3, <2>1, <2>3 DEF IsNew
<1> QED BY <1>2, <1>3

----------------------------------------------------------------------------
(* The alias table                                                         *)

\* commit() and issue, of one register.
LEMMA RatIssuedIs ==
  ASSUME Inv1, NewTag = rob.next_tag, NEW x \in Reg
  PROVE  LET t == RatIssued
             sets   == IssuesReg /\ x = Instr1.rd /\ x # 0
             clears == /\ CommitsReg /\ x = Head1.dest_reg
                       /\ ~rat[x].ready /\ rat[x].tag = Head1.tag
         IN  /\ DOMAIN t = Reg /\ t[x].ready \in BOOLEAN
             /\ sets => ~t[x].ready /\ t[x].tag = rob.next_tag
             /\ ~sets /\ clears => t[x] = ReadyRat(Head1.val)
             /\ ~sets /\ ~clears => t[x] = rat[x]
<1> DEFINE u == RatCommitted
           clears == /\ CommitsReg /\ x = Head1.dest_reg
                     /\ ~rat[x].ready /\ rat[x].tag = Head1.tag
<1>1. DOMAIN rat = Reg /\ rat[x].ready \in BOOLEAN
  BY DEF Inv1, FrontInv, RatShape
<1>2. /\ DOMAIN u = Reg /\ u[x].ready \in BOOLEAN
      /\ clears => u[x] = ReadyRat(Head1.val)
      /\ ~clears => u[x] = rat[x]
  BY <1>1 DEF RatCommitted, RatCommitClear, CommitsReg, ReadyRat
<1> HIDE DEF u, clears
<1>3. /\ DOMAIN RatIssued = Reg /\ RatIssued[x].ready \in BOOLEAN
      /\ IF IssuesReg /\ x = Instr1.rd /\ x # 0
         THEN ~RatIssued[x].ready /\ RatIssued[x].tag = rob.next_tag
         ELSE RatIssued[x] = u[x]
  BY <1>2 DEF RatIssued, RatSetTag, u
<1> QED BY <1>2, <1>3 DEF clears

\* Without a squash, the table names the youngest writers after the cycle.
LEMMA RatCycle ==
  ASSUME Inv1, NewTag = rob.next_tag, NEW n, RobStep(n)
  PROVE  RatShape(RatIssued) /\ NamesYoungest(n, RatIssued)
<1> DEFINE t == RatIssued
<1>0. LET e == ReadyRat(Head1.val) IN e.ready /\ e.tag = 0
  BY DEF ReadyRat
<1>1. rob.next_tag \in Nat \ {0} /\ 0 \in Reg /\ RingOK(rob) /\ RingShape(rob)
  BY IsaAssumption DEF Inv1, FrontInv, RingOK, RingShape, Reg
<1>2. RatShape(t)
  <2>1. DOMAIN t = Reg
    BY <1>1, RatIssuedIs
  <2>2. ASSUME NEW x \in Reg
        PROVE  t[x].ready \in BOOLEAN /\ t[x].tag \in Nat /\ (t[x].ready => t[x].tag = 0)
    BY <1>0, <1>1, RatIssuedIs DEF Inv1, FrontInv, RatShape
  <2>3. t[0].ready
    BY <1>0, <1>1, RatIssuedIs DEF Inv1, FrontInv, RatShape
  <2> QED BY <2>1, <2>2, <2>3 DEF RatShape
<1>3. ASSUME NEW x \in Reg \ {0}
      PROVE  IF t[x].ready
             THEN \A i \in RobSlots : ~Writes(n.slots[i], x)
             ELSE /\ \E i \in RobSlots : Writes(n.slots[i], x) /\ n.slots[i].tag = t[x].tag
                  /\ \A j \in RobSlots : Writes(n.slots[j], x) => n.slots[j].tag <= t[x].tag
  <2> DEFINE sets   == IssuesReg /\ x = Instr1.rd
             clears == /\ CommitsReg /\ x = Head1.dest_reg
                       /\ ~rat[x].ready /\ rat[x].tag = Head1.tag
  <2>1. /\ sets => ~t[x].ready /\ t[x].tag = rob.next_tag
        /\ ~sets /\ clears => t[x].ready /\ t[x].tag = 0
        /\ ~sets /\ ~clears => t[x] = rat[x]
    BY <1>0, RatIssuedIs
  <2>2. ASSUME NEW i \in RobSlots, Writes(n.slots[i], x)
        PROVE  /\ Live(i) => Writes(rob.slots[i], x) /\ n.slots[i].tag = rob.slots[i].tag
               /\ ~Live(i) => sets
               /\ n.slots[i].tag \in Nat /\ n.slots[i].tag <= rob.next_tag
    <3>1. n.slots[i].busy /\ n.slots[i].tag \in Nat
      BY <2>2 DEF Writes, RobStep, RingOK, RingShape, EntryShape
    <3>2. CASE Live(i)
      BY <1>1, <2>2, <3>1, <3>2, RobStepKinds DEF Writes, RobStep, Wrote, Live
    <3>3. CASE ~Live(i)
      BY <1>1, <2>2, <3>1, <3>3, RobStepKinds DEF Writes, RobStep, IsNew, IssuesReg
    <3> QED BY <3>2, <3>3
  <2> HIDE DEF t, clears
  <2>3. CASE sets
    <3>1. PICK i \in RobSlots : ~Live(i) /\ n.slots[i].busy
      BY <2>3 DEF IssuesReg, RobStep
    <3>2. Writes(n.slots[i], x) /\ n.slots[i].tag = rob.next_tag
      BY <2>3, <3>1 DEF RobStep, IsNew, Writes, IssuesReg
    <3> QED BY <2>1, <2>2, <2>3, <3>2
  <2>4. CASE ~sets /\ clears
    <3>1. ASSUME NEW i \in RobSlots, Writes(n.slots[i], x)
          PROVE  FALSE
      <4>1. Live(i) /\ Writes(rob.slots[i], x)
        BY <2>2, <2>4, <3>1
      <4>2. rob.slots[i].tag <= Head1.tag
        BY <2>4, <4>1 DEF clears, Inv1, FrontInv, NamesYoungest
      <4>3. Commits /\ rob.slots[rob.head].busy /\ i # rob.head
        BY <2>4, <4>1 DEF clears, CommitsReg, Commits, RobCanCommit, Live
      <4>4. Head1.tag < rob.slots[i].tag
        BY <1>1, <4>1, <4>3, HeadIsOldest DEF Head1, Writes
      <4>5. Head1.tag \in Nat /\ rob.slots[i].tag \in Nat
        BY <1>1 DEF Head1, RingShape, EntryShape
      <4> QED BY <4>2, <4>4, <4>5
    <3> QED BY <2>1, <2>4, <3>1
  <2>5. CASE ~sets /\ ~clears /\ rat[x].ready
    BY <2>1, <2>2, <2>5 DEF Inv1, FrontInv, NamesYoungest
  <2>6. CASE ~sets /\ ~clears /\ ~rat[x].ready
    <3>1. PICK i \in RobSlots : Writes(rob.slots[i], x) /\ rob.slots[i].tag = rat[x].tag
      BY <2>6 DEF Inv1, FrontInv, NamesYoungest
    <3>2. Live(i)
      BY <2>6, <3>1 DEF Live, Writes, clears, CommitsReg, Head1
    <3>3. Writes(n.slots[i], x) /\ n.slots[i].tag = rat[x].tag
      BY <3>1, <3>2 DEF RobStep, Wrote, Writes
    <3>4. ASSUME NEW j \in RobSlots, Writes(n.slots[j], x)
          PROVE  n.slots[j].tag <= rat[x].tag
      BY <2>2, <2>6, <3>4 DEF Inv1, FrontInv, NamesYoungest
    <3> QED BY <2>1, <2>6, <3>3, <3>4
  <2> QED BY <2>3, <2>4, <2>5, <2>6
<1> QED BY <1>2, <1>3 DEF NamesYoungest

\* After a squash every register is ready.
LEMMA RatSquash ==
  ASSUME Inv1, NEW args, ArgsOf(args), Squashes
  PROVE  /\ RatShape(RatResolved)
         /\ \A x \in Reg : RatResolved[x].ready
<1> DEFINE n == RobIssued(args)
           t == RatIssued
<1>1. RobStep(n) /\ Behind(n) /\ NewTag = rob.next_tag
  BY RobCycle DEF Squashes
<1>2. RatShape(t) /\ NamesYoungest(n, t)
  BY <1>1, RatCycle
<1>3. Head1.tag \in Nat /\ 0 \in Reg
  BY IsaAssumption DEF Inv1, FrontInv, RingOK, RingShape, EntryShape, Head1, Reg
<1>4. RatResolved = [x \in Reg |-> IF x = 0 THEN ReadyRat(0)
                                   ELSE IF t[x].tag > Head1.tag THEN ReadyRat(ReadReg(x))
                                   ELSE t[x]]
  BY DEF RatResolved, RatRestore
<1>5. ASSUME NEW x \in Reg
      PROVE  RatResolved[x].ready /\ RatResolved[x].ready \in BOOLEAN /\ RatResolved[x].tag = 0
  <2>1. CASE x = 0 \/ t[x].tag > Head1.tag
    <3>1. RatResolved[x] = ReadyRat(0) \/ RatResolved[x] = ReadyRat(ReadReg(x))
      BY <1>4, <2>1
    <3>2. \A v : ReadyRat(v).ready /\ ReadyRat(v).ready \in BOOLEAN /\ ReadyRat(v).tag = 0
      BY DEF ReadyRat
    <3> QED BY <3>1, <3>2
  <2>2. CASE x # 0 /\ ~(t[x].tag > Head1.tag)
    <3>1. RatResolved[x] = t[x]
      BY <1>4, <2>2
    <3>2. t[x].ready
      BY <1>1, <1>2, <2>2 DEF NamesYoungest, Writes, Behind, Head1
    <3> QED BY <1>2, <3>1, <3>2 DEF RatShape
  <2> QED BY <2>1, <2>2
<1>6. DOMAIN RatResolved = Reg
  BY <1>4
<1> HIDE DEF t
<1> QED BY <1>3, <1>5, <1>6 DEF RatShape

\* Fetch, the ring and the alias table after a cycle.
LEMMA FrontStep ==
  ASSUME Inv1, NEW args, ArgsOf(args), Effect(args)
  PROVE  FrontInv'
<1>1. prog' \in Programs /\ FetchedFits(fetched')
  BY DEF Effect, Inv1, FrontInv
<1>2. RingOK(rob') /\ RobKinds(rob') /\ RatShape(rat') /\ NamesYoungest(rob', rat')
  <2>1. CASE Squashes
    <3>1. RingOK(rob') /\ \A i \in RobSlots : ~rob'.slots[i].busy
      BY <2>1, RobSquash DEF Effect
    <3>2. RatShape(rat') /\ \A x \in Reg : rat'[x].ready
      BY <2>1, RatSquash DEF Effect
    <3> QED BY <3>1, <3>2 DEF RobKinds, NamesYoungest, Writes
  <2>2. CASE ~Squashes
    <3>1. RobStep(rob') /\ NewTag = rob.next_tag /\ rat' = RatIssued
      BY <2>2, RobCycle DEF Effect, RobResolved, RatResolved
    <3> QED BY <3>1, RobStepKinds, RatCycle DEF RobStep, RobKinds
  <2> QED BY <2>1, <2>2
<1>3. Programmed' = Programmed
  BY DEF Effect, Programmed
<1>4. FetchedFits(fetched)' /\ RobKinds(rob)'
  BY <1>1, <1>2, <1>3 DEF FetchedFits, RobKinds, KindOK
<1> QED BY <1>1, <1>2, <1>4 DEF FrontInv

----------------------------------------------------------------------------
(* The station of the ALU                                                  *)

\* A set of numbers that is not empty has a least element.
LEMMA LeastElement ==
  ASSUME NEW S \in SUBSET Nat, S # {}
  PROVE  \E i \in S : \A j \in S : i <= j
<1>1. IsWellFoundedOn(OpToRel(<, Nat), Nat)
  BY NatLessThanWellFounded
<1>2. PICK i \in S : \A j \in S : ~(<<j, i>> \in OpToRel(<, Nat))
  BY <1>1, WFMin
<1>3. \A j \in S : ~(j < i)
  BY <1>2 DEF OpToRel
<1> QED BY <1>3

\* So a station that is not full has a first free slot.
LEMMA FirstFree ==
  ASSUME NEW N \in Nat, NEW s, \E i \in 1 .. N : ~s[i].busy
  PROVE  \E i \in 1 .. N : ~s[i].busy /\ \A j \in 1 .. N : j < i => s[j].busy
<1> DEFINE S == {i \in 1 .. N : ~s[i].busy}
<1>1. S \in SUBSET Nat /\ S # {}
  OBVIOUS
<1>2. PICK i \in S : \A j \in S : i <= j
  BY <1>1, LeastElement
<1> QED BY <1>2

\* An operand is on the bus, and the station hears it.
Heard(q)  == cdb.valid /\ q = cdb.rob_tag
After(q)  == IF Heard(q) THEN 0 ELSE q

\* Executing an entry leaves what the station needs to know of it alone.
LEMMA AluComputedKeeps ==
  ASSUME NEW e, AluShape(e), e.busy
  PROVE  LET f == AluComputed(e)
         IN  /\ AluShape(f) /\ f.busy /\ f.type = e.type /\ f.rob_tag = e.rob_tag
             /\ f.qj = e.qj /\ f.qk = e.qk /\ f.pc = e.pc /\ f.imm = e.imm
<1> DEFINE f == AluComputed(e)
<1>1. e.type \in AluTypes /\ DOMAIN e = AluFields
  BY DEF AluShape
<1>2. /\ DOMAIN f = AluFields
      /\ f.busy = e.busy /\ f.type = e.type /\ f.rob_tag = e.rob_tag
      /\ f.qj = e.qj /\ f.qk = e.qk /\ f.done = TRUE
      /\ f.pc = e.pc /\ f.imm = e.imm
  <2>1. CASE e.type \in CondTypes
    BY <1>1, <2>1 DEF AluComputed, AluFields
  <2>2. CASE e.type \in {"JAL", "JALR"}
    BY <1>1, <2>2 DEF AluComputed, AluFields, CondTypes
  <2>3. CASE e.type \in AluRTypes
    BY <1>1, <2>3 DEF AluComputed, AluFields, CondTypes, AluRTypes
  <2>4. CASE e.type \in AluITypes
    BY <1>1, <2>4 DEF AluComputed, AluFields, CondTypes, AluRTypes, AluITypes
  <2>5. CASE e.type \in {"AUIPC", "LUI"}
    BY <1>1, <2>5 DEF AluComputed, AluFields, CondTypes, AluRTypes, AluITypes
  <2> QED BY <1>1, <2>1, <2>2, <2>3, <2>4, <2>5 DEF AluTypes, UpperTypes, BranchTypes, JumpTypes
<1>3. ASSUME e.type = "JAL"
      PROVE  f.branch_actual_taken = TRUE /\ f.branch_target = Wrap(e.pc + e.imm)
  <2>1. f = [[e EXCEPT !.done = TRUE] EXCEPT !.result = Wrap(e.pc + 4),
                                             !.branch_actual_taken = TRUE,
                                             !.branch_target = Wrap(e.pc + e.imm)]
    BY <1>3 DEF AluComputed, CondTypes, AluRTypes, AluITypes
  <2> DEFINE g == [[e EXCEPT !.done = TRUE] EXCEPT !.result = Wrap(e.pc + 4)]
             h == [g EXCEPT !.branch_actual_taken = TRUE]
             there == Wrap(e.pc + e.imm)
  <2>2. f = [h EXCEPT !.branch_target = there]
    BY <2>1
  <2>3. DOMAIN g = AluFields
    BY <1>1
  <2> HIDE DEF f, g, there
  <2>4. DOMAIN h = AluFields /\ h.branch_actual_taken = TRUE
    BY <2>3 DEF AluFields
  <2> HIDE DEF h
  <2>5. f.branch_target = there /\ f.branch_actual_taken = h.branch_actual_taken
    BY <2>2, <2>4 DEF AluFields
  <2> QED BY <2>4, <2>5 DEF there
<1> HIDE DEF f
<1>4. Jumped(f)
  BY <1>2, <1>3 DEF Jumped
<1> QED BY <1>1, <1>2, <1>4 DEF AluShape, f

\* Executing and listening, of one slot.
LEMMA AluListenedIs ==
  ASSUME StationShape(alurs, lsrs), NEW i \in AluSlots
  PROVE  LET e == alurs[i]
             f == AluListened[i]
         IN  /\ DOMAIN AluListened = AluSlots
             /\ AluShape(f) /\ f.busy = e.busy /\ f.rob_tag = e.rob_tag
             /\ e.busy => /\ f.type = e.type /\ f.qj = After(e.qj) /\ f.qk = After(e.qk)
                          /\ f.pc = e.pc /\ f.imm = e.imm
<1> DEFINE e == alurs[i]
           g == AluRsExecute(alurs)[i]
           f == AluListened[i]
<1>1. AluShape(e)
  BY DEF StationShape
<1>2. /\ AluShape(g) /\ g.busy = e.busy /\ g.rob_tag = e.rob_tag
      /\ e.busy => g.type = e.type
      /\ g.qj = e.qj /\ g.qk = e.qk /\ g.pc = e.pc /\ g.imm = e.imm
  <2>1. g = IF i \in AluOldest(AluRsReady) /\ e.busy /\ e.rob_tag = e.rob_tag
            THEN AluComputed(e) ELSE e
    BY DEF AluRsExecute
  <2> HIDE DEF g, e
  <2>2. CASE g = e
    BY <1>1, <2>2
  <2>3. CASE e.busy /\ g = AluComputed(e)
    <3>1. /\ AluShape(g) /\ g.busy /\ g.type = e.type /\ g.rob_tag = e.rob_tag
          /\ g.qj = e.qj /\ g.qk = e.qk /\ g.pc = e.pc /\ g.imm = e.imm
      BY <1>1, <2>3, AluComputedKeeps
    <3> QED BY <1>1, <2>3, <3>1 DEF AluShape
  <2> QED BY <2>1, <2>2, <2>3
<1> HIDE DEF g
<1>3. f = IF ~(cdb.valid /\ e.busy) THEN g
          ELSE [g EXCEPT !.vj = IF e.qj = cdb.rob_tag THEN cdb.val ELSE @,
                         !.qj = IF e.qj = cdb.rob_tag THEN 0 ELSE @,
                         !.vk = IF e.qk = cdb.rob_tag THEN cdb.val ELSE @,
                         !.qk = IF e.qk = cdb.rob_tag THEN 0 ELSE @]
  BY DEF AluListened, AluRsListen, g
<1>4. DOMAIN AluListened = AluSlots
  BY DEF AluListened, AluRsListen
<1> HIDE DEF f, e
<1>5. /\ DOMAIN f = AluFields /\ f.busy = g.busy /\ f.done = g.done /\ f.rob_tag = g.rob_tag
      /\ f.type = g.type /\ f.pc = g.pc /\ f.imm = g.imm
      /\ f.branch_actual_taken = g.branch_actual_taken /\ f.branch_target = g.branch_target
      /\ f.qj = (IF cdb.valid /\ e.busy /\ e.qj = cdb.rob_tag THEN 0 ELSE g.qj)
      /\ f.qk = (IF cdb.valid /\ e.busy /\ e.qk = cdb.rob_tag THEN 0 ELSE g.qk)
  BY <1>2, <1>3 DEF AluShape, AluFields
<1>6. Jumped(f)
  BY <1>2, <1>5 DEF AluShape, Jumped
<1> QED BY <1>1, <1>2, <1>4, <1>5, <1>6 DEF AluShape, After, Heard, e, f

----------------------------------------------------------------------------
(* A station through the cycle                                             *)

\* An entry that stays, and the entry of the instruction that is issued.
Stays(e) == e.busy /\ e.rob_tag \notin Finishing
Keeps(e, f) == /\ f.busy /\ f.type = e.type /\ f.rob_tag = e.rob_tag
               /\ f.qj = After(e.qj) /\ f.qk = After(e.qk)
Joins(f) == /\ f.type = Instr1.type /\ f.rob_tag = rob.next_tag
            /\ f.qj = Operand1.tag /\ f.qk = Operand2.tag

\* A station before and after a cycle without a squash; one entry joins if
\* there is an instruction for it.
StationStep(slots, old, new, joins) ==
  /\ \A i \in slots : Stays(old[i]) => Keeps(old[i], new[i])
  /\ \A i \in slots : ~Stays(old[i]) /\ new[i].busy => joins /\ Joins(new[i])
  /\ \A i, j \in slots : /\ ~Stays(old[i]) /\ ~Stays(old[j])
                         /\ new[i].busy /\ new[j].busy
                         => i = j
  /\ joins => \E i \in slots : ~Stays(old[i]) /\ new[i].busy

\* An entry of the ALU's station has the address and the immediate of its
\* instruction.
AluCarries(new) ==
  \A i \in AluSlots :
    /\ Stays(alurs[i]) => new[i].pc = alurs[i].pc /\ new[i].imm = alurs[i].imm
    /\ ~Stays(alurs[i]) /\ new[i].busy => new[i].pc = fetched.pc /\ new[i].imm = Instr1.imm

\* The entries of the two stations have different tags.
LEMMA StationsDisjoint ==
  ASSUME Inv1, NEW i \in AluSlots, NEW j \in LsSlots, alurs[i].busy, lsrs[j].busy
  PROVE  alurs[i].rob_tag # lsrs[j].rob_tag
<1>1. PICK s \in RobSlots : Awaits(rob, s, alurs[i].rob_tag, FALSE)
  BY DEF Inv1, StationInv, Paired
<1>2. PICK t \in RobSlots : Awaits(rob, t, lsrs[j].rob_tag, TRUE)
  BY DEF Inv1, StationInv, Paired
<1>3. s # t
  BY <1>1, <1>2 DEF Awaits
<1> QED BY <1>1, <1>2, <1>3, TagsUnique DEF Awaits, Inv1, FrontInv

\* An entry leaves its station when its result is written.
LEMMA FinishingLeaves ==
  ASSUME Inv1
  PROVE  /\ \A i \in AluSlots : alurs[i].busy =>
              (alurs[i].rob_tag \in Finishing <=> AluWins /\ alurs[i].rob_tag = Winner.rob_tag)
         /\ \A i \in LsSlots : lsrs[i].busy =>
              (lsrs[i].rob_tag \in Finishing <=> lsrs[i].rob_tag \in FreedTags)
<1>1. StationShape(alurs, lsrs)
  BY DEF Inv1, StationInv
<1>2. \A t \in DoneTags : \E j \in LsSlots : lsrs[j].busy /\ lsrs[j].rob_tag = t
  BY DEF DoneTags, LsDoneStores
<1>3. Winner.valid /\ ~AluWins =>
        \E j \in LsSlots : lsrs[j].busy /\ lsrs[j].rob_tag = Winner.rob_tag
  BY <1>1, WinnerIs
<1>4. AluWins => /\ Winner.valid
                 /\ \E i \in AluSlots : alurs[i].busy /\ alurs[i].rob_tag = Winner.rob_tag
  BY <1>1, WinnerIs
<1>5. ASSUME NEW i \in AluSlots, alurs[i].busy
      PROVE  alurs[i].rob_tag \in Finishing <=> AluWins /\ alurs[i].rob_tag = Winner.rob_tag
  BY <1>2, <1>3, <1>4, <1>5, StationsDisjoint DEF Finishing
<1>6. ASSUME NEW i \in LsSlots, lsrs[i].busy
      PROVE  lsrs[i].rob_tag \in Finishing <=> lsrs[i].rob_tag \in FreedTags
  BY <1>4, <1>6, StationsDisjoint DEF Finishing, FreedTags
<1> QED BY <1>5, <1>6

\* The station of the ALU after issue.
LEMMA AluStep ==
  ASSUME Inv1, NewTag = rob.next_tag, FetchedFits(fetched),
         Issues => Operand1.tag \in Nat /\ Operand2.tag \in Nat
  PROVE  /\ StationStep(AluSlots, alurs, AluIssued, IssuesAlu) /\ AluCarries(AluIssued)
         /\ DOMAIN AluIssued = AluSlots /\ \A i \in AluSlots : AluShape(AluIssued[i])
<1>1. StationShape(alurs, lsrs) /\ rob.next_tag \in Nat
  BY DEF Inv1, StationInv, FrontInv, RingOK, RingShape
<1>2. /\ DOMAIN AluFreed = AluSlots
      /\ \A i \in AluSlots :
           LET e == alurs[i]
               f == AluFreed[i]
           IN  /\ AluShape(f)
               /\ Stays(e) => Keeps(e, f) /\ f.pc = e.pc /\ f.imm = e.imm
               /\ ~Stays(e) => ~f.busy
  <2>1. DOMAIN AluFreed = AluSlots
    <3>1. 1 \in AluSlots
      BY AluRsSizeAssumption DEF AluSlots
    <3>2. DOMAIN AluListened = AluSlots
      BY <1>1, <3>1, AluListenedIs
    <3> QED BY <3>2 DEF AluFreed, AluRsFree
  <2>2. ASSUME NEW i \in AluSlots
        PROVE  LET e == alurs[i]
                   f == AluFreed[i]
               IN  /\ AluShape(f)
                   /\ Stays(e) => Keeps(e, f) /\ f.pc = e.pc /\ f.imm = e.imm
                   /\ ~Stays(e) => ~f.busy
    <3> DEFINE e == alurs[i]
               g == AluListened[i]
               f == AluFreed[i]
               out == AluWins /\ e.busy /\ e.rob_tag = Winner.rob_tag
    <3>1. /\ AluShape(e)
          /\ AluShape(g) /\ g.busy = e.busy /\ g.rob_tag = e.rob_tag
          /\ e.busy => /\ g.type = e.type /\ g.qj = After(e.qj) /\ g.qk = After(e.qk)
                       /\ g.pc = e.pc /\ g.imm = e.imm
      BY <1>1, AluListenedIs DEF StationShape
    <3>2. f = IF out THEN [g EXCEPT !.busy = FALSE, !.done = FALSE] ELSE g
      BY <3>1 DEF AluFreed, AluRsFree
    <3>3. Stays(e) <=> e.busy /\ ~out
      BY FinishingLeaves DEF Stays
    <3> HIDE DEF out, e, f, g
    <3>4. CASE out
      BY <3>1, <3>2, <3>3, <3>4 DEF AluShape, AluFields, Jumped, e, f
    <3>5. CASE ~out
      BY <3>1, <3>2, <3>3, <3>5 DEF Keeps, Stays, e, f
    <3> QED BY <3>4, <3>5
  <2> QED BY <2>1, <2>2
<1>3. CASE ~IssuesAlu
  BY <1>2, <1>3 DEF AluIssued, StationStep, AluCarries
<1>4. CASE IssuesAlu
  <2> DEFINE new == [ZeroAluEntry EXCEPT !.busy = TRUE, !.type = Instr1.type,
                       !.vj = Operand1.val, !.qj = Operand1.tag,
                       !.vk = Operand2.val, !.qk = Operand2.tag,
                       !.rob_tag = NewTag, !.imm = Instr1.imm, !.pc = fetched.pc]
             isFree(i) == ~alurs[i].busy /\ \A j \in AluSlots : j < i => alurs[j].busy
             free == CHOOSE i \in AluSlots : isFree(i)
  <2>1. ~AluRsIsFull
    BY <1>4 DEF IssuesAlu, Issues, Stalls
  <2>2. free \in AluSlots /\ ~alurs[free].busy
    <3>1. \E i \in AluSlots : isFree(i)
      BY <2>1, FirstFree, AluRsSizeAssumption DEF AluRsIsFull, AluSlots
    <3> QED BY <3>1
  <2>3. AluIssued = [AluFreed EXCEPT ![free] = new]
    BY <1>4, <2>1 DEF AluIssued, AluRsAlloc
  <2>4. /\ AluShape(new) /\ new.busy /\ Joins(new)
        /\ new.pc = fetched.pc /\ new.imm = Instr1.imm
    <3>1. /\ DOMAIN new = AluFields /\ new.busy = TRUE /\ new.done = FALSE
          /\ new.rob_tag = NewTag /\ new.qj = Operand1.tag /\ new.qk = Operand2.tag
          /\ new.type = Instr1.type /\ new.pc = fetched.pc /\ new.imm = Instr1.imm
      BY DEF ZeroAluEntry, AluFields
    <3> HIDE DEF new
    <3> QED BY <1>1, <1>4, <3>1 DEF AluShape, Joins, IssuesAlu, Jumped
  <2>5. ~Stays(alurs[free])
    BY <2>2 DEF Stays
  <2> HIDE DEF new, free
  <2>6. /\ DOMAIN AluIssued = AluSlots
        /\ AluIssued[free] = new
        /\ \A i \in AluSlots \ {free} : AluIssued[i] = AluFreed[i]
    BY <1>2, <2>2, <2>3
  <2>7. AluCarries(AluIssued)
    BY <1>2, <2>4, <2>5, <2>6 DEF AluCarries
  <2> QED BY <1>2, <1>4, <2>2, <2>4, <2>5, <2>6, <2>7 DEF StationStep
<1> QED BY <1>3, <1>4

----------------------------------------------------------------------------
(* The station of the loads and stores                                     *)

\* Executing, of one slot.
LEMMA LsExecutedIs ==
  ASSUME StationShape(alurs, lsrs), NEW i \in LsSlots
  PROVE  LET e == lsrs[i]
             g == LsRsExecute(lsrs)[i]
         IN  /\ LsShape(g) /\ g.busy = e.busy /\ g.type = e.type /\ g.is_load = e.is_load
             /\ g.rob_tag = e.rob_tag /\ g.qj = e.qj /\ g.qk = e.qk /\ g.vk = e.vk
             /\ e.busy => /\ g.addr_ready = LsHasAddr(i) /\ g.addr = LsAddr(i)
                          /\ g.done = \/ e.done \/ i \in LsAnswered
                                      \/ i \in LsCompletes \/ i \in LsForwarded
                          /\ g.mem_requested = (e.mem_requested /\ i \notin LsAnswered)
<1> DEFINE e == lsrs[i]
           g == LsRsExecute(lsrs)[i]
           live == e.busy /\ e.rob_tag = e.rob_tag
           computes == i \in LsComputesAddr
           answered == i \in LsAnswered
           completes == i \in LsCompletes
           forwarded == i \in LsForwarded
           a == LsAddr(i)
           loaded == Extend(e.type, SbForwardedValue(LsAddr(i), e.rob_tag))
           addressed == IF computes /\ live THEN [e EXCEPT !.addr = a, !.addr_ready = TRUE] ELSE e
<1>1. LsShape(e)
  BY DEF StationShape
<1>2. g = IF answered
          THEN [addressed EXCEPT !.mem_result = rq.val, !.done = TRUE, !.mem_requested = FALSE]
          ELSE IF live /\ completes THEN [addressed EXCEPT !.done = TRUE]
          ELSE IF live /\ forwarded
          THEN [addressed EXCEPT !.mem_result = loaded, !.done = TRUE]
          ELSE addressed
  BY DEF LsRsExecute
<1>3. /\ computes => e.busy /\ ~e.addr_ready
      /\ LsHasAddr(i) = (e.addr_ready \/ computes)
      /\ ~computes => a = e.addr
  BY DEF LsComputesAddr, LsUndone, LsHasAddr, LsAddr
<1> HIDE DEF computes, answered, completes, forwarded, a, loaded
<1>4. /\ DOMAIN addressed = LsFields
      /\ addressed.addr_ready = IF computes /\ e.busy THEN TRUE ELSE e.addr_ready
      /\ addressed.addr = IF computes /\ e.busy THEN a ELSE e.addr
      /\ \A x \in LsFields \ {"addr", "addr_ready"} : addressed[x] = e[x]
  BY <1>1 DEF LsShape, LsFields
<1> HIDE DEF e, addressed, g
<1>5. /\ DOMAIN g = LsFields
      /\ \A x \in LsFields \ {"mem_result", "done", "mem_requested"} : g[x] = addressed[x]
      /\ g.done = (IF answered \/ (e.busy /\ (completes \/ forwarded)) THEN TRUE ELSE e.done)
      /\ g.mem_requested = (IF answered THEN FALSE ELSE e.mem_requested)
  <2>1. addressed.done = e.done /\ addressed.mem_requested = e.mem_requested
    BY <1>4 DEF LsFields
  <2> QED BY <1>2, <1>4, <2>1 DEF LsFields
<1>6. /\ g.busy = e.busy /\ g.type = e.type /\ g.is_load = e.is_load /\ g.rob_tag = e.rob_tag
      /\ g.qj = e.qj /\ g.qk = e.qk /\ g.vk = e.vk
      /\ g.addr_ready = addressed.addr_ready /\ g.addr = addressed.addr
  BY <1>4, <1>5 DEF LsFields
<1>7. e.busy => /\ g.addr_ready = LsHasAddr(i) /\ g.addr = a
                /\ g.done = (e.done \/ answered \/ completes \/ forwarded)
                /\ g.mem_requested = (e.mem_requested /\ ~answered)
  BY <1>1, <1>3, <1>4, <1>5, <1>6 DEF LsShape
<1>8. LsShape(g)
  <2>1. g.done \in BOOLEAN /\ g.mem_requested \in BOOLEAN /\ g.addr_ready \in BOOLEAN
    BY <1>1, <1>4, <1>5, <1>6 DEF LsShape
  <2> QED BY <1>1, <1>5, <1>6, <2>1 DEF LsShape
<1> QED BY <1>6, <1>7, <1>8 DEF e, g, a, answered, completes, forwarded

\* Executing and listening, of one slot.
LEMMA LsListenedIs ==
  ASSUME StationShape(alurs, lsrs), NEW i \in LsSlots
  PROVE  LET e == lsrs[i]
             f == LsListened[i]
         IN  /\ DOMAIN LsListened = LsSlots
             /\ LsShape(f) /\ f.busy = e.busy /\ f.rob_tag = e.rob_tag
             /\ e.busy =>
                  /\ f.type = e.type /\ f.is_load = e.is_load
                  /\ f.qj = After(e.qj) /\ f.qk = After(e.qk)
                  /\ ~Heard(e.qk) => f.vk = e.vk
                  /\ f.addr_ready = LsHasAddr(i) /\ f.addr = LsAddr(i)
                  /\ f.done = (e.done \/ i \in LsAnswered \/ i \in LsCompletes \/ i \in LsForwarded)
                  /\ f.mem_requested = (e.mem_requested /\ i \notin LsAnswered)
<1> DEFINE e == lsrs[i]
           g == LsRsExecute(lsrs)[i]
           f == LsListened[i]
<1>1. LsShape(e)
  BY DEF StationShape
<1>2. /\ LsShape(g) /\ g.busy = e.busy /\ g.type = e.type /\ g.is_load = e.is_load
      /\ g.rob_tag = e.rob_tag /\ g.qj = e.qj /\ g.qk = e.qk /\ g.vk = e.vk
      /\ e.busy => /\ g.addr_ready = LsHasAddr(i) /\ g.addr = LsAddr(i)
                   /\ g.done = (e.done \/ i \in LsAnswered
                                \/ i \in LsCompletes \/ i \in LsForwarded)
                   /\ g.mem_requested = (e.mem_requested /\ i \notin LsAnswered)
  BY LsExecutedIs
<1> HIDE DEF g
<1>3. f = IF ~(cdb.valid /\ e.busy) THEN g
          ELSE [g EXCEPT !.vj = IF e.qj = cdb.rob_tag THEN cdb.val ELSE @,
                         !.qj = IF e.qj = cdb.rob_tag THEN 0 ELSE @,
                         !.vk = IF e.qk = cdb.rob_tag THEN cdb.val ELSE @,
                         !.qk = IF e.qk = cdb.rob_tag THEN 0 ELSE @]
  BY DEF LsListened, LsRsListen, g
<1>4. DOMAIN LsListened = LsSlots
  BY DEF LsListened, LsRsListen
<1> HIDE DEF f, e
<1>5. /\ DOMAIN f = LsFields
      /\ f.busy = g.busy /\ f.done = g.done /\ f.rob_tag = g.rob_tag /\ f.type = g.type
      /\ f.is_load = g.is_load /\ f.addr_ready = g.addr_ready /\ f.addr = g.addr
      /\ f.mem_requested = g.mem_requested
      /\ f.qj = (IF cdb.valid /\ e.busy /\ e.qj = cdb.rob_tag THEN 0 ELSE g.qj)
      /\ f.qk = (IF cdb.valid /\ e.busy /\ e.qk = cdb.rob_tag THEN 0 ELSE g.qk)
      /\ f.vk = (IF cdb.valid /\ e.busy /\ e.qk = cdb.rob_tag THEN cdb.val ELSE g.vk)
  BY <1>2, <1>3 DEF LsShape, LsFields
<1>6. LsShape(f)
  BY <1>1, <1>2, <1>5 DEF LsShape
<1> QED BY <1>2, <1>4, <1>5, <1>6 DEF After, Heard, e, f

\* The station of the loads and stores after issue.
LEMMA LsStep ==
  ASSUME Inv1, NewTag = rob.next_tag, FetchedFits(fetched),
         Issues => /\ Operand1.tag \in Nat /\ Operand2.tag \in Nat
                   /\ Operand1.ready \in BOOLEAN
  PROVE  /\ StationStep(LsSlots, lsrs, LsIssued, IssuesLs)
         /\ DOMAIN LsIssued = LsSlots /\ \A i \in LsSlots : LsShape(LsIssued[i])
         /\ \A i \in LsSlots : Stays(lsrs[i]) => LsIssued[i] = LsListened[i]
         /\ \A i \in LsSlots : ~Stays(lsrs[i]) /\ LsIssued[i].busy =>
              ~LsIssued[i].done /\ ~LsIssued[i].mem_requested
<1>1. StationShape(alurs, lsrs) /\ rob.next_tag \in Nat
  BY DEF Inv1, StationInv, FrontInv, RingOK, RingShape
<1>2. /\ DOMAIN LsFreed = LsSlots
      /\ \A i \in LsSlots :
           LET e == lsrs[i]
               f == LsFreed[i]
           IN  /\ LsShape(f)
               /\ Stays(e) => Keeps(e, f) /\ f = LsListened[i]
               /\ ~Stays(e) => ~f.busy
  <2>1. DOMAIN LsFreed = LsSlots
    BY DEF LsFreed, LsRsFree
  <2>2. ASSUME NEW i \in LsSlots
        PROVE  LET e == lsrs[i]
                   f == LsFreed[i]
               IN  /\ LsShape(f)
                   /\ Stays(e) => Keeps(e, f) /\ f = LsListened[i]
                   /\ ~Stays(e) => ~f.busy
    <3> DEFINE e == lsrs[i]
               g == LsListened[i]
               f == LsFreed[i]
               out == e.busy /\ e.rob_tag \in FreedTags
    <3>1. /\ LsShape(e)
          /\ LsShape(g) /\ g.busy = e.busy /\ g.rob_tag = e.rob_tag
          /\ e.busy => g.type = e.type /\ g.qj = After(e.qj) /\ g.qk = After(e.qk)
      BY <1>1, LsListenedIs DEF StationShape
    <3>2. f = IF out THEN [g EXCEPT !.busy = FALSE, !.done = FALSE] ELSE g
      BY <3>1 DEF LsFreed, LsRsFree
    <3>3. Stays(e) <=> e.busy /\ ~out
      BY FinishingLeaves DEF Stays
    <3> HIDE DEF out, e, f, g
    <3> QED BY <3>1, <3>2, <3>3 DEF LsShape, LsFields, Keeps, e, f, g
  <2> QED BY <2>1, <2>2
<1>3. CASE ~IssuesLs
  BY <1>2, <1>3 DEF LsIssued, StationStep
<1>4. CASE IssuesLs
  <2> DEFINE isLoad == Instr1.type \in LoadTypes
             new == [ZeroLsEntry EXCEPT !.busy = TRUE, !.type = Instr1.type,
                       !.is_load = isLoad,
                       !.vj = Operand1.val, !.qj = Operand1.tag,
                       !.vk = Operand2.val, !.qk = Operand2.tag,
                       !.rob_tag = NewTag, !.imm = Instr1.imm,
                       !.addr_ready = Operand1.ready,
                       !.addr = IF Operand1.ready THEN Wrap(Operand1.val + Instr1.imm) ELSE 0]
             isFree(i) == ~lsrs[i].busy /\ \A j \in LsSlots : j < i => lsrs[j].busy
             free == CHOOSE i \in LsSlots : isFree(i)
  <2>1. ~LsRsIsFull
    BY <1>4, KindsDisjoint DEF IssuesLs, Issues, Stalls
  <2>2. free \in LsSlots /\ ~lsrs[free].busy
    <3>1. \E i \in LsSlots : isFree(i)
      BY <2>1, FirstFree, LsRsSizeAssumption DEF LsRsIsFull, LsSlots
    <3> QED BY <3>1
  <2>3. LsIssued = [LsFreed EXCEPT ![free] = new]
    BY <1>4, <2>1 DEF LsIssued, LsRsAlloc
  <2>4. LsShape(new) /\ new.busy /\ Joins(new) /\ ~new.done /\ ~new.mem_requested
    <3>1. isLoad \in BOOLEAN
      OBVIOUS
    <3> HIDE DEF isLoad
    <3>2. /\ DOMAIN new = LsFields /\ new.busy = TRUE /\ new.done = FALSE
          /\ new.mem_requested = FALSE /\ new.addr_ready = Operand1.ready
          /\ new.is_load = isLoad
          /\ new.rob_tag = NewTag /\ new.qj = Operand1.tag /\ new.qk = Operand2.tag
          /\ new.type = Instr1.type
      BY DEF ZeroLsEntry, LsFields
    <3> HIDE DEF new
    <3>3. (isLoad <=> new.type \in LoadTypes) /\ new.type \in LsTypes
      BY <1>4, <3>2 DEF isLoad, IssuesLs
    <3> QED BY <1>1, <1>4, <3>1, <3>2, <3>3 DEF LsShape, Joins, IssuesLs
  <2>5. ~Stays(lsrs[free])
    BY <2>2 DEF Stays
  <2> HIDE DEF new, free
  <2>6. /\ DOMAIN LsIssued = LsSlots
        /\ LsIssued[free] = new
        /\ \A i \in LsSlots \ {free} : LsIssued[i] = LsFreed[i]
    BY <1>2, <2>2, <2>3
  <2> QED BY <1>2, <1>4, <2>2, <2>4, <2>5, <2>6 DEF StationStep
<1> QED BY <1>3, <1>4

----------------------------------------------------------------------------
(* Waiting for operands                                                    *)

\* An instruction in flight will broadcast the result with this tag.
Pending(r, q) == \E s \in RobSlots : /\ r.slots[s].busy /\ ~r.slots[s].ready
                                     /\ ~r.slots[s].is_store /\ r.slots[s].tag = q

\* What issue finds for an operand: a value, or the tag of such an instruction.
LEMMA OperandIs ==
  ASSUME Inv1, NEW x \in Reg
  PROVE  LET o == ResolveOperand(x)
         IN  /\ o.ready \in BOOLEAN /\ o.tag \in Nat
             /\ o.tag # 0 => Pending(rob, o.tag) /\ o.tag < rob.next_tag
<1> DEFINE o == ResolveOperand(x)
<1>1. /\ rat[x].ready \in BOOLEAN /\ rat[x].tag \in Nat
      /\ rat[x].ready => rat[x].tag = 0
      /\ rat[0].ready
  BY DEF Inv1, FrontInv, RatShape
<1>2. \A v : ReadyRat(v).ready /\ ReadyRat(v).ready \in BOOLEAN /\ ReadyRat(v).tag = 0
  BY DEF ReadyRat
<1>3. CASE ~rat[x].ready /\ rat[x].tag # 0 /\ RobReadyResults(rat[x].tag) # {}
  <2>1. PICK v : o = ReadyRat(v)
    BY <1>3 DEF ResolveOperand
  <2> HIDE DEF o
  <2> QED BY <1>2, <2>1 DEF o
<1>4. CASE ~(~rat[x].ready /\ rat[x].tag # 0 /\ RobReadyResults(rat[x].tag) # {})
  <2>1. o = rat[x]
    BY <1>4 DEF ResolveOperand
  <2>2. ASSUME rat[x].tag # 0
        PROVE  Pending(rob, rat[x].tag) /\ rat[x].tag < rob.next_tag
    <3>1. ~rat[x].ready /\ x # 0
      BY <1>1, <2>2
    <3>2. PICK i \in RobSlots : Writes(rob.slots[i], x) /\ rob.slots[i].tag = rat[x].tag
      BY <3>1 DEF Inv1, FrontInv, NamesYoungest
    <3>3. ~rob.slots[i].ready
      <4>1. SUFFICES ASSUME rob.slots[i].ready PROVE FALSE
        OBVIOUS
      <4>2. rob.slots[i].val \in RobReadyResults(rat[x].tag)
        BY <3>2, <4>1 DEF RobReadyResults, RobHolds, Writes
      <4> QED BY <1>4, <2>2, <3>1, <4>2
    <3>4. rob.slots[i].tag \in 1 .. rob.next_tag - 1 /\ rob.next_tag \in Nat
      BY <3>2 DEF Writes, Inv1, FrontInv, RingOK, RingShape, TagsInOrder
    <3> QED BY <3>2, <3>3, <3>4 DEF Pending, Writes
  <2> HIDE DEF o
  <2> QED BY <1>1, <2>1, <2>2 DEF o
<1> QED BY <1>3, <1>4

\* So issue has operands for the stations.
LEMMA OperandsAre ==
  ASSUME Inv1, NEW args, ArgsOf(args)
  PROVE  /\ RobStep(RobIssued(args)) /\ NewTag = rob.next_tag
         /\ FetchedFits(fetched)
         /\ Issues => /\ Operand1.tag \in Nat /\ Operand2.tag \in Nat
                      /\ Operand1.ready \in BOOLEAN
<1>1. FetchedFits(fetched)
  BY DEF Inv1, FrontInv
<1>2. Issues => Instr1.rs1 \in Reg /\ Instr1.rs2 \in Reg
  BY <1>1 DEF Issues, FetchedFits, Instr1, Instr
<1> QED BY <1>1, <1>2, RobCycle, OperandIs DEF Operand1, Operand2

\* What is pending is so after the cycle, or is on the bus.
LEMMA StillComes ==
  ASSUME Inv1, NEW n, RobStep(n), NEW q, Pending(rob, q)
  PROVE  Pending(n, q) \/ (Winner.valid /\ Winner.rob_tag = q)
<1>1. PICK s \in RobSlots : /\ rob.slots[s].busy /\ ~rob.slots[s].ready
                            /\ ~rob.slots[s].is_store /\ rob.slots[s].tag = q
  BY DEF Pending
<1>2. Live(s)
  BY <1>1 DEF Live, Commits, RobCanCommit
<1>3. q \notin DoneTags
  <2>1. SUFFICES ASSUME q \in DoneTags PROVE FALSE
    OBVIOUS
  <2>2. PICK t \in RobSlots : rob.slots[t].busy /\ rob.slots[t].tag = q /\ rob.slots[t].is_store
    BY <2>1, FinishingIs DEF Inv1, FrontInv, StationInv
  <2>3. t = s
    BY <1>1, <2>2, TagsUnique DEF Inv1, FrontInv
  <2> QED BY <1>1, <2>2, <2>3
<1>4. CASE q \in Finishing
  BY <1>3, <1>4 DEF Finishing
<1>5. CASE q \notin Finishing
  <2>1. n.slots[s] = rob.slots[s]
    BY <1>1, <1>2, <1>5 DEF RobStep, Wrote
  <2> QED BY <1>1, <2>1 DEF Pending
<1> QED BY <1>4, <1>5

\* Of an entry of a station and its successor, ...
LEMMA KeptWakes ==
  ASSUME Inv1, NEW n, RobStep(n), NEW q \in Nat, NEW tag, WillCome(rob, cdb, q, tag)
  PROVE  WillCome(n, Winner, After(q), tag)
<1>1. CASE q = 0 \/ Heard(q)
  <2>1. After(q) = 0
    BY <1>1 DEF After
  <2> QED BY <2>1 DEF WillCome
<1>2. CASE q # 0 /\ ~Heard(q)
  <2>1. After(q) = q /\ q < tag /\ Pending(rob, q)
    BY <1>2 DEF After, Heard, WillCome, Pending
  <2>2. Pending(n, q) \/ (Winner.valid /\ Winner.rob_tag = q)
    BY <2>1, StillComes
  <2> QED BY <2>1, <2>2 DEF WillCome, Pending
<1> QED BY <1>1, <1>2

\* ... and of the entry that is new.
LEMMA NewWakes ==
  ASSUME Inv1, NEW n, RobStep(n), NEW x \in Reg
  PROVE  WillCome(n, Winner, ResolveOperand(x).tag, rob.next_tag)
<1> DEFINE q == ResolveOperand(x).tag
<1>1. CASE q = 0
  BY <1>1 DEF WillCome
<1>2. CASE q # 0
  <2>1. Pending(rob, q) /\ q < rob.next_tag
    BY <1>2, OperandIs
  <2> HIDE DEF q
  <2>2. Pending(n, q) \/ (Winner.valid /\ Winner.rob_tag = q)
    BY <2>1, StillComes
  <2> QED BY <2>1, <2>2 DEF WillCome, Pending, q
<1> QED BY <1>1, <1>2

----------------------------------------------------------------------------
(* The stations after the cycle                                            *)

\* The load whose request the memory takes.
Started(i) ==
  LET tag == DmemExecuted.pending_load.rob_tag
  IN  StartsLoad /\ lsrs[i].busy /\ lsrs[i].rob_tag = tag
                 /\ LsIssued[i].busy /\ LsIssued[i].rob_tag = tag

\* mark_mem_requested writes one flag.
LEMMA LsEndIs ==
  ASSUME ~Squashes, DOMAIN LsIssued = LsSlots, NEW i \in LsSlots, LsShape(LsIssued[i])
  PROVE  LET f == LsIssued[i]
             g == LsEnd[i]
         IN  /\ DOMAIN LsEnd = LsSlots
             /\ LsShape(g)
             /\ g.mem_requested <=> f.mem_requested \/ Started(i)
             /\ \A x \in LsFields \ {"mem_requested"} : g[x] = f[x]
<1> DEFINE f == LsIssued[i]
           g == LsEnd[i]
<1>1. LsResolved = LsIssued
  BY DEF LsResolved
<1>2. g = IF Started(i) THEN [f EXCEPT !.mem_requested = TRUE] ELSE f
  BY <1>1 DEF LsEnd, LsRsMarkRequested, Started
<1>3. DOMAIN LsEnd = LsSlots
  BY <1>1 DEF LsEnd, LsRsMarkRequested
<1> HIDE DEF f, g
<1> QED BY <1>2, <1>3 DEF LsShape, LsFields, f, g

\* Stations that made the step of a cycle without a squash, with a buffer that
\* did, name each other's entries.
LEMMA PairedStep ==
  ASSUME Inv1, NEW n, RobStep(n), NEW a, NEW l,
         StationStep(AluSlots, alurs, a, IssuesAlu), StationStep(LsSlots, lsrs, l, IssuesLs)
  PROVE  Paired(n, a, l)
<1>1. /\ Paired(rob, alurs, lsrs) /\ rob.next_tag \in Nat /\ RingOK(rob)
      /\ \A s \in RobSlots : rob.slots[s].busy => rob.slots[s].tag < rob.next_tag
      /\ \A s \in RobSlots : rob.slots[s].tag \in Nat
  BY DEF Inv1, StationInv, FrontInv, RingOK, RingShape, TagsInOrder, EntryShape
<1>2. Issues => (IssuesAlu <=> ~IssuesLs)
  BY KindsDisjoint DEF Issues, IssuesAlu, IssuesLs
<1>3. ASSUME NEW s \in RobSlots, NEW tag, NEW ls \in BOOLEAN, Awaits(rob, s, tag, ls),
             tag \notin Finishing
      PROVE  n.slots[s] = rob.slots[s] /\ Awaits(n, s, tag, ls)
  <2>1. Live(s)
    BY <1>3 DEF Awaits, Live, Commits, RobCanCommit
  <2>2. n.slots[s] = rob.slots[s]
    BY <1>3, <2>1 DEF RobStep, Wrote, Awaits
  <2> QED BY <1>3, <2>2 DEF Awaits
<1>4. ASSUME Issues
      PROVE  \E s \in RobSlots : Awaits(n, s, rob.next_tag, IssuesLs)
                                 /\ n.slots[s].type = Instr1.type
  <2>1. PICK s \in RobSlots : ~Live(s) /\ n.slots[s].busy
    BY <1>4 DEF RobStep
  <2>2. IsNew(n.slots[s])
    BY <2>1 DEF RobStep
  <2>3. IssuesLs <=> Instr1.type \in LsTypes
    BY <1>4 DEF IssuesLs
  <2> QED BY <2>1, <2>2, <2>3 DEF IsNew, Awaits
<1>5. ASSUME NEW i \in AluSlots, a[i].busy
      PROVE  \E s \in RobSlots : Awaits(n, s, a[i].rob_tag, FALSE)
  <2>1. CASE Stays(alurs[i])
    <3>1. PICK s \in RobSlots : Awaits(rob, s, alurs[i].rob_tag, FALSE)
      BY <1>1, <2>1 DEF Paired, Stays
    <3> QED BY <1>3, <2>1, <3>1 DEF Stays, StationStep, Keeps
  <2>2. CASE ~Stays(alurs[i])
    <3>1. IssuesAlu /\ Issues /\ a[i].rob_tag = rob.next_tag
      BY <1>5, <2>2 DEF StationStep, Joins, IssuesAlu
    <3>2. ~IssuesLs
      BY <1>2, <3>1
    <3> QED BY <1>4, <3>1, <3>2 DEF Awaits
  <2> QED BY <2>1, <2>2
<1>6. ASSUME NEW i \in LsSlots, l[i].busy
      PROVE  \E s \in RobSlots : Awaits(n, s, l[i].rob_tag, TRUE) /\ n.slots[s].type = l[i].type
  <2>1. CASE Stays(lsrs[i])
    <3>1. PICK s \in RobSlots : /\ Awaits(rob, s, lsrs[i].rob_tag, TRUE)
                                /\ rob.slots[s].type = lsrs[i].type
      BY <1>1, <2>1 DEF Paired, Stays
    <3>2. /\ lsrs[i].rob_tag \notin Finishing
          /\ l[i].rob_tag = lsrs[i].rob_tag /\ l[i].type = lsrs[i].type
      BY <2>1 DEF Stays, StationStep, Keeps
    <3>3. n.slots[s] = rob.slots[s] /\ Awaits(n, s, lsrs[i].rob_tag, TRUE)
      BY <1>3, <3>1, <3>2
    <3> QED BY <3>1, <3>2, <3>3
  <2>2. CASE ~Stays(lsrs[i])
    <3>1. IssuesLs /\ Issues /\ Joins(l[i])
      BY <1>6, <2>2 DEF StationStep, IssuesLs
    <3>2. PICK s \in RobSlots : /\ Awaits(n, s, rob.next_tag, IssuesLs)
                                /\ n.slots[s].type = Instr1.type
      BY <1>4, <3>1
    <3> QED BY <3>1, <3>2 DEF Awaits, Joins
  <2> QED BY <2>1, <2>2
<1>7. \A i \in AluSlots : alurs[i].busy => alurs[i].rob_tag < rob.next_tag
  BY <1>1 DEF Paired, Awaits
<1>8. \A i \in LsSlots : lsrs[i].busy => lsrs[i].rob_tag < rob.next_tag
  BY <1>1 DEF Paired, Awaits
<1>9. ASSUME NEW i \in AluSlots, NEW j \in AluSlots, a[i].busy, a[j].busy,
             a[i].rob_tag = a[j].rob_tag
      PROVE  i = j
  <2>1. CASE Stays(alurs[i]) /\ Stays(alurs[j])
    BY <1>1, <1>9, <2>1 DEF Paired, Stays, StationStep, Keeps
  <2>2. CASE ~Stays(alurs[i]) /\ ~Stays(alurs[j])
    BY <1>9, <2>2 DEF StationStep
  <2>3. CASE ~(Stays(alurs[i]) <=> Stays(alurs[j]))
    BY <1>1, <1>7, <1>9, <2>3 DEF StationStep, Keeps, Joins, Stays
  <2> QED BY <2>1, <2>2, <2>3
<1>10. ASSUME NEW i \in LsSlots, NEW j \in LsSlots, l[i].busy, l[j].busy,
              l[i].rob_tag = l[j].rob_tag
       PROVE  i = j
  <2>1. CASE Stays(lsrs[i]) /\ Stays(lsrs[j])
    BY <1>1, <1>10, <2>1 DEF Paired, Stays, StationStep, Keeps
  <2>2. CASE ~Stays(lsrs[i]) /\ ~Stays(lsrs[j])
    BY <1>10, <2>2 DEF StationStep
  <2>3. CASE ~(Stays(lsrs[i]) <=> Stays(lsrs[j]))
    BY <1>1, <1>8, <1>10, <2>3 DEF StationStep, Keeps, Joins, Stays
  <2> QED BY <2>1, <2>2, <2>3
<1>11. ASSUME NEW s \in RobSlots, n.slots[s].busy, ~n.slots[s].ready
       PROVE  \/ \E i \in AluSlots : a[i].busy /\ a[i].rob_tag = n.slots[s].tag
              \/ \E i \in LsSlots : l[i].busy /\ l[i].rob_tag = n.slots[s].tag
  <2>1. CASE Live(s)
    <3>1. /\ rob.slots[s].busy /\ ~rob.slots[s].ready /\ rob.slots[s].tag \notin Finishing
          /\ n.slots[s].tag = rob.slots[s].tag
      BY <1>11, <2>1 DEF RobStep, Wrote, Live
    <3>2. \/ \E i \in AluSlots : alurs[i].busy /\ alurs[i].rob_tag = rob.slots[s].tag
          \/ \E i \in LsSlots : lsrs[i].busy /\ lsrs[i].rob_tag = rob.slots[s].tag
      BY <1>1, <3>1 DEF Paired
    <3> QED BY <3>1, <3>2 DEF Stays, StationStep, Keeps
  <2>2. CASE ~Live(s)
    <3>1. IsNew(n.slots[s]) /\ (IssuesAlu \/ IssuesLs)
      BY <1>2, <1>11, <2>2 DEF RobStep, IsNew
    <3> QED BY <3>1 DEF StationStep, Joins, IsNew
  <2> QED BY <2>1, <2>2
<1> QED BY <1>5, <1>6, <1>9, <1>10, <1>11 DEF Paired

\* Their operands still wait for results that will come.
LEMMA WakeupsStep ==
  ASSUME Inv1, FetchedFits(fetched), NEW n, RobStep(n), NEW a, NEW l,
         StationStep(AluSlots, alurs, a, IssuesAlu), StationStep(LsSlots, lsrs, l, IssuesLs)
  PROVE  Wakeups(n, a, l, Winner)
<1>1. Issues => Instr1.rs1 \in Reg /\ Instr1.rs2 \in Reg
  BY DEF Issues, FetchedFits, Instr1, Instr
<1>2. Issues => /\ WillCome(n, Winner, Operand1.tag, rob.next_tag)
                /\ WillCome(n, Winner, Operand2.tag, rob.next_tag)
  BY <1>1, NewWakes DEF Operand1, Operand2
<1>3. StationShape(alurs, lsrs) /\ Wakeups(rob, alurs, lsrs, cdb)
  BY DEF Inv1, StationInv
<1>4. ASSUME NEW i \in AluSlots, a[i].busy
      PROVE  WillCome(n, Winner, a[i].qj, a[i].rob_tag) /\ WillCome(n, Winner, a[i].qk, a[i].rob_tag)
  <2>1. CASE Stays(alurs[i])
    <3>1. Keeps(alurs[i], a[i])
      BY <2>1 DEF StationStep
    <3>2. /\ WillCome(rob, cdb, alurs[i].qj, alurs[i].rob_tag) /\ alurs[i].qj \in Nat
          /\ WillCome(rob, cdb, alurs[i].qk, alurs[i].rob_tag) /\ alurs[i].qk \in Nat
      BY <1>3, <2>1 DEF Wakeups, Stays, StationShape, AluShape
    <3>3. /\ WillCome(n, Winner, After(alurs[i].qj), alurs[i].rob_tag)
          /\ WillCome(n, Winner, After(alurs[i].qk), alurs[i].rob_tag)
      BY <3>2, KeptWakes
    <3> QED BY <3>1, <3>3 DEF Keeps
  <2>2. CASE ~Stays(alurs[i])
    <3>1. Issues /\ Joins(a[i])
      BY <1>4, <2>2 DEF StationStep, IssuesAlu
    <3> QED BY <1>2, <3>1 DEF Joins
  <2> QED BY <2>1, <2>2
<1>5. ASSUME NEW i \in LsSlots, l[i].busy
      PROVE  WillCome(n, Winner, l[i].qj, l[i].rob_tag) /\ WillCome(n, Winner, l[i].qk, l[i].rob_tag)
  <2>1. CASE Stays(lsrs[i])
    <3>1. Keeps(lsrs[i], l[i])
      BY <2>1 DEF StationStep
    <3>2. /\ WillCome(rob, cdb, lsrs[i].qj, lsrs[i].rob_tag) /\ lsrs[i].qj \in Nat
          /\ WillCome(rob, cdb, lsrs[i].qk, lsrs[i].rob_tag) /\ lsrs[i].qk \in Nat
      BY <1>3, <2>1 DEF Wakeups, Stays, StationShape, LsShape
    <3>3. /\ WillCome(n, Winner, After(lsrs[i].qj), lsrs[i].rob_tag)
          /\ WillCome(n, Winner, After(lsrs[i].qk), lsrs[i].rob_tag)
      BY <3>2, KeptWakes
    <3> QED BY <3>1, <3>3 DEF Keeps
  <2>2. CASE ~Stays(lsrs[i])
    <3>1. Issues /\ Joins(l[i])
      BY <1>5, <2>2 DEF StationStep, IssuesLs
    <3> QED BY <1>2, <3>1 DEF Joins
  <2> QED BY <2>1, <2>2
<1> QED BY <1>4, <1>5 DEF Wakeups

\* The bus never carries the tag 0, which no instruction has.
LEMMA WinnerShape ==
  ASSUME Inv1
  PROVE  BusShape(Winner)
<1>1. Winner.valid \in BOOLEAN /\ Winner.rob_tag \in Nat
  BY WinnerIs DEF Inv1, StationInv
<1>2. ASSUME Winner.valid
      PROVE  Winner.rob_tag # 0
  <2>1. PICK s \in RobSlots : rob.slots[s].busy /\ rob.slots[s].tag = Winner.rob_tag
    BY <1>2, FinishingIs DEF Inv1, FrontInv, StationInv
  <2>2. rob.slots[s].tag \in 1 .. rob.next_tag - 1 /\ rob.next_tag \in Nat
    BY <2>1 DEF Inv1, FrontInv, RingOK, RingShape, TagsInOrder
  <2> QED BY <2>1, <2>2
<1> QED BY <1>1, <1>2 DEF BusShape

\* The stations and the bus after a cycle.
LEMMA StationsStep ==
  ASSUME Inv1, NEW args, ArgsOf(args), Effect(args)
  PROVE  StationInv'
<1>1. /\ RobStep(RobIssued(args)) /\ NewTag = rob.next_tag
      /\ FetchedFits(fetched)
      /\ Issues => /\ Operand1.tag \in Nat /\ Operand2.tag \in Nat
                   /\ Operand1.ready \in BOOLEAN
  BY OperandsAre
<1>2. /\ StationStep(AluSlots, alurs, AluIssued, IssuesAlu)
      /\ DOMAIN AluIssued = AluSlots /\ \A i \in AluSlots : AluShape(AluIssued[i])
  BY <1>1, AluStep
<1>3. /\ StationStep(LsSlots, lsrs, LsIssued, IssuesLs)
      /\ DOMAIN LsIssued = LsSlots /\ \A i \in LsSlots : LsShape(LsIssued[i])
  BY <1>1, LsStep
<1>4. BusShape(Winner)
  BY WinnerShape
<1>5. CASE Squashes
  <2>1. \A i \in RobSlots : ~rob'.slots[i].busy
    BY <1>5, RobSquash DEF Effect
  <2>2. /\ DOMAIN alurs' = AluSlots
        /\ \A i \in AluSlots : AluShape(alurs'[i]) /\ ~alurs'[i].busy
    <3>1. alurs' = AluRsFlush(AluIssued)
      BY <1>5 DEF Effect, AluResolved
    <3> QED BY <1>2, <3>1 DEF AluRsFlush, AluShape, AluFields, Jumped
  <2>3. /\ DOMAIN lsrs' = LsSlots
        /\ \A i \in LsSlots : LsShape(lsrs'[i]) /\ ~lsrs'[i].busy
    <3>1. lsrs' = LsRsFlush(LsIssued)
      BY <1>5 DEF Effect, LsEnd, LsResolved, StartsLoad, DmemAcceptsLoad
    <3> QED BY <1>3, <3>1 DEF LsRsFlush, LsShape, LsFields
  <2>4. BusShape(cdb')
    <3>1. cdb' = Winner \/ cdb' = EmptyBus
      BY <1>5 DEF Effect, CdbResolved, CdbInvalidateSquashed
    <3>2. BusShape(EmptyBus)
      BY DEF EmptyBus, BusShape
    <3> QED BY <1>4, <3>1, <3>2
  <2> QED BY <2>1, <2>2, <2>3, <2>4 DEF StationInv, StationShape, Paired, Wakeups
<1>6. CASE ~Squashes
  <2>1. rob' = RobIssued(args) /\ alurs' = AluIssued /\ lsrs' = LsEnd /\ cdb' = Winner
    BY <1>6 DEF Effect, RobResolved, AluResolved, CdbResolved
  <2>2. /\ DOMAIN LsEnd = LsSlots /\ \A i \in LsSlots : LsShape(LsEnd[i])
        /\ StationStep(LsSlots, lsrs, LsEnd, IssuesLs)
    <3>1. 1 \in LsSlots
      BY LsRsSizeAssumption DEF LsSlots
    <3>2. /\ DOMAIN LsEnd = LsSlots /\ \A i \in LsSlots : LsShape(LsEnd[i])
          /\ \A i \in LsSlots : /\ LsEnd[i].busy = LsIssued[i].busy
                                /\ LsEnd[i].type = LsIssued[i].type
                                /\ LsEnd[i].rob_tag = LsIssued[i].rob_tag
                                /\ LsEnd[i].qj = LsIssued[i].qj
                                /\ LsEnd[i].qk = LsIssued[i].qk
      BY <1>3, <1>6, <3>1, LsEndIs DEF LsFields
    <3> QED BY <1>3, <3>2 DEF StationStep, Keeps, Joins
  <2>3. Paired(rob', alurs', lsrs') /\ Wakeups(rob', alurs', lsrs', cdb')
    BY <1>1, <1>2, <2>1, <2>2, PairedStep, WakeupsStep
  <2>4. StationShape(alurs', lsrs')
    BY <1>2, <2>1, <2>2 DEF StationShape
  <2> QED BY <1>4, <2>1, <2>3, <2>4 DEF StationInv
<1> QED BY <1>5, <1>6

Inv2 == Inv1 /\ MemoryInv

----------------------------------------------------------------------------
(* The store buffer                                                        *)

\* A store stays in the buffer unless it commits.
SbStays(k) == sb[k].busy /\ ~(CommitsStore /\ sb[k].rob_tag = Head1.tag)

\* A station's entry gives its address, or its value, to this slot.
GivesAddr(i, k) == i \in LsPublishesAddr /\ lsrs[i].rob_tag = sb[k].rob_tag
GivesVal(i, k)  == i \in LsCompletes /\ lsrs[i].rob_tag = sb[k].rob_tag

\* A slot that stays.
SbKeeps(f, k) ==
  /\ f.busy /\ f.rob_tag = sb[k].rob_tag
  /\ f.addr_ready <=> sb[k].addr_ready \/ \E i \in LsSlots : GivesAddr(i, k)
  /\ f.val_ready <=> sb[k].val_ready \/ \E i \in LsSlots : GivesVal(i, k)
  /\ \A i \in LsSlots : GivesAddr(i, k) => f.addr = LsAddr(i)
  /\ \A i \in LsSlots : GivesVal(i, k) => f.val = lsrs[i].vk
  /\ (\A i \in LsSlots : ~GivesAddr(i, k)) => f.addr = sb[k].addr
  /\ (\A i \in LsSlots : ~GivesVal(i, k)) => f.val = sb[k].val

\* commit() and execute, of one slot.
LEMMA SbExecutedIs ==
  ASSUME Inv2, NEW k \in SbSlots
  PROVE  LET f == SbExecuted[k]
         IN  /\ DOMAIN f = SbFields
             /\ f.busy \in BOOLEAN /\ f.rob_tag \in Nat
             /\ f.addr_ready \in BOOLEAN /\ f.val_ready \in BOOLEAN
             /\ SbStays(k) => SbKeeps(f, k)
             /\ ~SbStays(k) => ~f.busy
<1> DEFINE e == sb[k]
           g == SbCommitted[k]
           f == SbExecuted[k]
           adds == {i \in LsPublishesAddr : SbHolds(SbCommitted, k, lsrs[i].rob_tag)}
           vals == {i \in LsCompletes : SbHolds(SbCommitted, k, lsrs[i].rob_tag)}
           a == CHOOSE i \in adds : TRUE
           v == CHOOSE i \in vals : TRUE
<1>1. /\ DOMAIN sb = SbSlots /\ DOMAIN e = SbFields
      /\ e.busy \in BOOLEAN /\ e.rob_tag \in Nat
      /\ e.addr_ready \in BOOLEAN /\ e.val_ready \in BOOLEAN
  BY DEF Inv2, MemoryInv, SbShape
<1>2. g = IF CommitsStore /\ e.busy /\ e.rob_tag = Head1.tag THEN [e EXCEPT !.busy = FALSE] ELSE e
  BY DEF SbCommitted, SbCommit
<1>3. /\ DOMAIN g = SbFields /\ g.busy \in BOOLEAN /\ (g.busy <=> SbStays(k))
      /\ g.rob_tag = e.rob_tag /\ g.addr = e.addr /\ g.val = e.val
      /\ g.addr_ready = e.addr_ready /\ g.val_ready = e.val_ready
  <2> HIDE DEF g
  <2> QED BY <1>1, <1>2 DEF SbFields, SbStays
<1>4. f = [g EXCEPT !.addr = IF adds # {} THEN LsAddr(a) ELSE @,
                    !.addr_ready = @ \/ adds # {},
                    !.val = IF vals # {} THEN lsrs[v].vk ELSE @,
                    !.val_ready = @ \/ vals # {}]
  BY DEF SbExecuted, LsSbExecute
<1>5. /\ DOMAIN f = SbFields /\ f.busy = g.busy /\ f.rob_tag = g.rob_tag
      /\ f.addr_ready = (g.addr_ready \/ adds # {}) /\ f.val_ready = (g.val_ready \/ vals # {})
      /\ f.addr = (IF adds # {} THEN LsAddr(a) ELSE g.addr)
      /\ f.val = (IF vals # {} THEN lsrs[v].vk ELSE g.val)
  <2> HIDE DEF g, adds, vals, a, v
  <2> QED BY <1>3, <1>4 DEF SbFields
<1>6. LsPublishesAddr \subseteq LsUndone /\ LsCompletes \subseteq LsUndone
  BY DEF LsPublishesAddr, LsComputesAddr, LsCompletes
<1>7. SbStays(k) => /\ adds = {i \in LsSlots : GivesAddr(i, k)}
                    /\ vals = {i \in LsSlots : GivesVal(i, k)}
  BY <1>3, <1>6 DEF SbHolds, SbStays, GivesAddr, GivesVal, LsUndone
<1>8. \A i, j \in LsUndone : lsrs[i].rob_tag = lsrs[j].rob_tag => i = j
  BY DEF LsUndone, Inv2, Inv1, StationInv, Paired
<1>9. ASSUME SbStays(k)
      PROVE  SbKeeps(f, k)
  <2>1. adds # {} => a \in adds
    OBVIOUS
  <2>2. vals # {} => v \in vals
    OBVIOUS
  <2>3. \A i \in LsSlots : GivesAddr(i, k) => adds # {} /\ i = a
    BY <1>6, <1>7, <1>8, <1>9, <2>1 DEF GivesAddr
  <2>4. \A i \in LsSlots : GivesVal(i, k) => vals # {} /\ i = v
    BY <1>6, <1>7, <1>8, <1>9, <2>2 DEF GivesVal
  <2>5. (\A i \in LsSlots : ~GivesAddr(i, k)) => adds = {}
    BY <1>7, <1>9
  <2>6. (\A i \in LsSlots : ~GivesVal(i, k)) => vals = {}
    BY <1>7, <1>9
  <2> HIDE DEF f, g, e, adds, vals, a, v
  <2> QED BY <1>3, <1>5, <1>9, <2>3, <2>4, <2>5, <2>6 DEF SbKeeps, e
<1> HIDE DEF f, g, e, adds, vals, a, v
<1> QED BY <1>1, <1>3, <1>5, <1>9 DEF f

\* The buffer before and after a cycle without a squash.
SbStep(b) ==
  /\ SbShape(b)
  /\ \A k \in SbSlots : SbStays(k) => SbKeeps(b[k], k)
  /\ \A k \in SbSlots : ~SbStays(k) /\ b[k].busy =>
       IssuesStore /\ b[k].rob_tag = rob.next_tag /\ ~b[k].addr_ready /\ ~b[k].val_ready
  /\ \A j, k \in SbSlots : ~SbStays(j) /\ ~SbStays(k) /\ b[j].busy /\ b[k].busy => j = k
  /\ IssuesStore => \E k \in SbSlots : ~SbStays(k) /\ b[k].busy

\* The buffer after issue.
LEMMA SbIssuedStep ==
  ASSUME Inv2, NewTag = rob.next_tag
  PROVE  SbStep(SbIssued)
<1>1. rob.next_tag \in Nat
  BY DEF Inv2, Inv1, FrontInv, RingOK, RingShape
<1>2. DOMAIN SbExecuted = SbSlots
  BY DEF SbExecuted, LsSbExecute
<1>3. SbShape(SbExecuted)
  BY <1>2, SbExecutedIs DEF SbShape
<1>4. CASE ~IssuesStore
  BY <1>3, <1>4, SbExecutedIs DEF SbIssued, SbStep
<1>5. CASE IssuesStore
  <2> DEFINE new == [ZeroSbEntry EXCEPT !.busy = TRUE, !.rob_tag = NewTag, !.type = Instr1.type]
             isFree(i) == ~sb[i].busy /\ \A j \in SbSlots : j < i => sb[j].busy
             free == CHOOSE i \in SbSlots : isFree(i)
  <2>1. ~SbIsFull
    BY <1>5 DEF IssuesStore, Issues, Stalls
  <2>2. free \in SbSlots /\ ~sb[free].busy
    <3>1. \E i \in SbSlots : isFree(i)
      BY <2>1, FirstFree, SbSizeAssumption DEF SbIsFull, SbSlots
    <3> QED BY <3>1
  <2>3. SbIssued = [SbExecuted EXCEPT ![free] = new]
    BY <1>5, <2>1 DEF SbIssued, SbInsert
  <2>4. /\ DOMAIN new = SbFields /\ new.busy = TRUE /\ new.rob_tag = rob.next_tag
        /\ new.addr_ready = FALSE /\ new.val_ready = FALSE
    BY DEF ZeroSbEntry, SbFields
  <2>5. ~SbStays(free)
    BY <2>2 DEF SbStays
  <2> HIDE DEF new, free
  <2>6. /\ DOMAIN SbIssued = SbSlots
        /\ SbIssued[free] = new
        /\ \A k \in SbSlots \ {free} : SbIssued[k] = SbExecuted[k]
    BY <1>2, <2>2, <2>3
  <2>7. SbShape(SbIssued)
    BY <1>1, <1>3, <2>4, <2>6 DEF SbShape
  <2>8. \A k \in SbSlots : /\ SbStays(k) => SbKeeps(SbExecuted[k], k)
                           /\ ~SbStays(k) => ~SbExecuted[k].busy
    BY SbExecutedIs
  <2> QED BY <1>5, <2>2, <2>4, <2>5, <2>6, <2>7, <2>8 DEF SbStep
<1> QED BY <1>4, <1>5

\* What is known of the tags of the stores in flight.
LEMMA StoreTags ==
  ASSUME Inv2
  PROVE  /\ rob.next_tag \in Nat
         /\ \A i \in RobSlots : rob.slots[i].busy => rob.slots[i].tag < rob.next_tag
         /\ \A k \in SbSlots : sb[k].busy =>
              \E i \in RobSlots : /\ rob.slots[i].busy /\ rob.slots[i].is_store
                                  /\ rob.slots[i].tag = sb[k].rob_tag
         /\ \A k \in SbSlots : sb[k].busy => sb[k].rob_tag < rob.next_tag
         /\ \A i \in LsSlots : lsrs[i].busy => lsrs[i].rob_tag < rob.next_tag
<1>1. /\ rob.next_tag \in Nat
      /\ \A i \in RobSlots : rob.slots[i].busy => rob.slots[i].tag < rob.next_tag
  BY DEF Inv2, Inv1, FrontInv, RingOK, RingShape, TagsInOrder
<1>2. \A k \in SbSlots : sb[k].busy =>
        \E i \in RobSlots : /\ rob.slots[i].busy /\ rob.slots[i].is_store
                            /\ rob.slots[i].tag = sb[k].rob_tag
  BY DEF Inv2, MemoryInv, StoresPaired
<1>3. \A i \in LsSlots : lsrs[i].busy =>
        \E s \in RobSlots : rob.slots[s].busy /\ rob.slots[s].tag = lsrs[i].rob_tag
  BY DEF Inv2, Inv1, StationInv, Paired, Awaits
<1> QED BY <1>1, <1>2, <1>3

\* A store stays in the store buffer as long as in the reorder buffer.
LEMMA StoreStays ==
  ASSUME Inv2, NEW i \in RobSlots, NEW k \in SbSlots,
         rob.slots[i].busy, rob.slots[i].is_store, sb[k].busy, sb[k].rob_tag = rob.slots[i].tag
  PROVE  SbStays(k) <=> Live(i)
<1>1. RingOK(rob) /\ RingShape(rob) /\ rob.head \in RobSlots
  BY DEF Inv2, Inv1, FrontInv, RingOK, RingShape
<1>2. CASE i = rob.head
  BY <1>2 DEF SbStays, Live, CommitsStore, Head1
<1>3. CASE i # rob.head
  <2>1. Commits => rob.slots[rob.head].busy
    BY DEF Commits, RobCanCommit
  <2>2. Commits => rob.slots[rob.head].tag # rob.slots[i].tag
    BY <1>1, <1>3, <2>1, TagsUnique
  <2> QED BY <1>3, <2>2 DEF SbStays, Live, CommitsStore, Head1
<1> QED BY <1>2, <1>3

\* The two buffers name the same stores after the cycle.
LEMMA StoresPairedStep ==
  ASSUME Inv2, NEW n, RobStep(n), NEW b, SbStep(b)
  PROVE  StoresPaired(n, b)
<1>1. ASSUME NEW k \in SbSlots, b[k].busy
      PROVE  \E i \in RobSlots : /\ n.slots[i].busy /\ n.slots[i].is_store
                                 /\ n.slots[i].tag = b[k].rob_tag
  <2>1. CASE SbStays(k)
    <3>1. PICK i \in RobSlots : /\ rob.slots[i].busy /\ rob.slots[i].is_store
                                /\ rob.slots[i].tag = sb[k].rob_tag
      BY <2>1, StoreTags DEF SbStays
    <3>2. Live(i)
      BY <2>1, <3>1, StoreStays DEF SbStays
    <3> QED BY <2>1, <3>1, <3>2 DEF SbStep, SbKeeps, RobStep, Wrote
  <2>2. CASE ~SbStays(k)
    <3>1. IssuesStore /\ b[k].rob_tag = rob.next_tag
      BY <1>1, <2>2 DEF SbStep
    <3>2. PICK i \in RobSlots : ~Live(i) /\ n.slots[i].busy
      BY <3>1 DEF RobStep, IssuesStore
    <3> QED BY <3>1, <3>2 DEF RobStep, IsNew, IssuesStore
  <2> QED BY <2>1, <2>2
<1>2. ASSUME NEW i \in RobSlots, n.slots[i].busy, n.slots[i].is_store
      PROVE  \E k \in SbSlots : b[k].busy /\ b[k].rob_tag = n.slots[i].tag
  <2>1. CASE Live(i)
    <3>1. /\ rob.slots[i].busy /\ rob.slots[i].is_store
          /\ n.slots[i].tag = rob.slots[i].tag
      BY <1>2, <2>1 DEF RobStep, Wrote, Live
    <3>2. PICK k \in SbSlots : sb[k].busy /\ sb[k].rob_tag = rob.slots[i].tag
      BY <3>1 DEF Inv2, MemoryInv, StoresPaired
    <3>3. SbStays(k)
      BY <2>1, <3>1, <3>2, StoreStays
    <3> QED BY <3>1, <3>2, <3>3 DEF SbStep, SbKeeps
  <2>2. CASE ~Live(i)
    <3>1. IssuesStore /\ n.slots[i].tag = rob.next_tag
      BY <1>2, <2>2 DEF RobStep, IsNew, IssuesStore
    <3> QED BY <3>1 DEF SbStep
  <2> QED BY <2>1, <2>2
<1>3. ASSUME NEW j \in SbSlots, NEW k \in SbSlots, b[j].busy, b[k].busy, b[j].rob_tag = b[k].rob_tag
      PROVE  j = k
  <2>1. CASE SbStays(j) /\ SbStays(k)
    BY <1>3, <2>1 DEF SbStep, SbKeeps, SbStays, Inv2, MemoryInv, StoresPaired
  <2>2. CASE ~SbStays(j) /\ ~SbStays(k)
    BY <1>3, <2>2 DEF SbStep
  <2>3. CASE ~(SbStays(j) <=> SbStays(k))
    BY <1>3, <2>3, StoreTags DEF SbStep, SbKeeps, SbStays
  <2> QED BY <2>1, <2>2, <2>3
<1> QED BY <1>1, <1>2, <1>3 DEF StoresPaired

----------------------------------------------------------------------------
(* The values of stores and loads                                          *)

\* The memory takes the request of this entry.
Takes(i) == StartsLoad /\ lsrs[i].rob_tag = DmemExecuted.pending_load.rob_tag

\* An entry of the load/store station that stays.
LsKeeps(f, i) ==
  LET e == lsrs[i]
  IN  /\ f.busy /\ f.rob_tag = e.rob_tag /\ f.type = e.type /\ f.is_load = e.is_load
      /\ f.qk = After(e.qk) /\ (~Heard(e.qk) => f.vk = e.vk)
      /\ f.addr_ready = LsHasAddr(i) /\ f.addr = LsAddr(i)
      /\ f.done = (e.done \/ i \in LsAnswered \/ i \in LsCompletes \/ i \in LsForwarded)
      /\ f.mem_requested <=> (e.mem_requested /\ i \notin LsAnswered) \/ Takes(i)

\* The station before and after a cycle without a squash.
LsMemStep(l) ==
  /\ \A i \in LsSlots : Stays(lsrs[i]) => LsKeeps(l[i], i)
  /\ \A i \in LsSlots : ~Stays(lsrs[i]) /\ l[i].busy =>
       l[i].rob_tag = rob.next_tag /\ ~l[i].done /\ ~l[i].mem_requested

LEMMA LsEndStep ==
  ASSUME Inv2, ~Squashes, NewTag = rob.next_tag
  PROVE  LsMemStep(LsEnd)
<1>1. /\ FetchedFits(fetched)
      /\ Issues => /\ Operand1.tag \in Nat /\ Operand2.tag \in Nat
                   /\ Operand1.ready \in BOOLEAN
  <2>1. FetchedFits(fetched)
    BY DEF Inv2, Inv1, FrontInv
  <2>2. Issues => Instr1.rs1 \in Reg /\ Instr1.rs2 \in Reg
    BY <2>1 DEF Issues, FetchedFits, Instr1, Instr
  <2> QED BY <2>1, <2>2, OperandIs DEF Operand1, Operand2, Inv2
<1>2. /\ StationStep(LsSlots, lsrs, LsIssued, IssuesLs)
      /\ DOMAIN LsIssued = LsSlots /\ \A i \in LsSlots : LsShape(LsIssued[i])
      /\ \A i \in LsSlots : Stays(lsrs[i]) => LsIssued[i] = LsListened[i]
      /\ \A i \in LsSlots : ~Stays(lsrs[i]) /\ LsIssued[i].busy =>
           ~LsIssued[i].done /\ ~LsIssued[i].mem_requested
  BY <1>1, LsStep DEF Inv2
<1>3. ASSUME NEW i \in LsSlots
      PROVE  LET f == LsIssued[i]
                 g == LsEnd[i]
             IN  /\ g.busy = f.busy /\ g.rob_tag = f.rob_tag /\ g.type = f.type
                 /\ g.is_load = f.is_load /\ g.qk = f.qk /\ g.vk = f.vk
                 /\ g.addr_ready = f.addr_ready /\ g.addr = f.addr /\ g.done = f.done
                 /\ g.mem_requested <=> f.mem_requested \/ Started(i)
  BY <1>2, LsEndIs DEF LsFields
<1>4. ASSUME NEW i \in LsSlots, Stays(lsrs[i])
      PROVE  LsKeeps(LsEnd[i], i)
  <2> DEFINE f == LsListened[i]
             e == lsrs[i]
  <2>1. /\ f.busy = e.busy /\ f.rob_tag = e.rob_tag /\ e.busy
        /\ f.type = e.type /\ f.is_load = e.is_load
        /\ f.qk = After(e.qk) /\ (~Heard(e.qk) => f.vk = e.vk)
        /\ f.addr_ready = LsHasAddr(i) /\ f.addr = LsAddr(i)
        /\ f.done = (e.done \/ i \in LsAnswered \/ i \in LsCompletes \/ i \in LsForwarded)
        /\ f.mem_requested = (e.mem_requested /\ i \notin LsAnswered)
    BY <1>4, LsListenedIs DEF Stays, Inv2, Inv1, StationInv
  <2>2. LsIssued[i] = f
    BY <1>2, <1>4
  <2>3. Started(i) <=> Takes(i)
    BY <2>1, <2>2 DEF Started, Takes
  <2> HIDE DEF f
  <2> QED BY <1>3, <2>1, <2>2, <2>3 DEF LsKeeps
<1>5. ASSUME NEW i \in LsSlots, ~Stays(lsrs[i]), LsEnd[i].busy
      PROVE  LsEnd[i].rob_tag = rob.next_tag /\ ~LsEnd[i].done /\ ~LsEnd[i].mem_requested
  <2>1. LsIssued[i].busy /\ LsIssued[i].rob_tag = rob.next_tag
    BY <1>2, <1>3, <1>5 DEF StationStep, Joins
  <2>2. ~Started(i)
    BY <2>1, StoreTags DEF Started
  <2> QED BY <1>2, <1>3, <1>5, <2>1, <2>2
<1> QED BY <1>4, <1>5 DEF LsMemStep

\* A store that is finished after the cycle and still in the station has
\* completed in this one.
LEMMA DoneStore ==
  ASSUME Inv2, NEW l, LsMemStep(l), NEW i \in LsSlots, l[i].busy, l[i].done, ~l[i].is_load
  PROVE  /\ Stays(lsrs[i]) /\ LsKeeps(l[i], i) /\ i \in LsCompletes
         /\ l[i].vk = lsrs[i].vk /\ l[i].qk = 0
<1>1. Stays(lsrs[i]) /\ LsKeeps(l[i], i)
  BY DEF LsMemStep
<1>2. i \notin LsAnswered /\ i \notin LsForwarded
  BY <1>1 DEF LsKeeps, LsAnswered, LsForwarded, LsOldest, LsServed, LsFreeLoads
<1>3. ~lsrs[i].done
  <2>1. SUFFICES ASSUME lsrs[i].done PROVE FALSE
    OBVIOUS
  <2>2. i \in LsDoneStores
    BY <1>1, <2>1 DEF LsDoneStores, LsKeeps, Stays
  <2>3. lsrs[i].rob_tag \in Finishing
    BY <2>2 DEF Finishing, DoneTags
  <2> QED BY <1>1, <2>3 DEF Stays
<1>4. i \in LsCompletes /\ lsrs[i].qk = 0
  BY <1>1, <1>2, <1>3 DEF LsKeeps, LsCompletes
<1>5. ~Heard(0)
  BY DEF Heard, Inv2, Inv1, StationInv, BusShape
<1> QED BY <1>1, <1>4, <1>5 DEF LsKeeps, After

\* A store has the same value and address everywhere after the cycle.
LEMMA ValuesStep ==
  ASSUME Inv2, NEW n, RobStep(n), NEW l, LsMemStep(l), NEW b, SbStep(b)
  PROVE  ValuesAgree(n, l, b)
<1>1. ValuesAgree(rob, lsrs, sb) /\ SbShape(sb)
  BY DEF Inv2, MemoryInv
<1>2. ASSUME NEW i \in LsSlots, NEW j \in LsSlots, lsrs[i].busy, lsrs[j].busy,
             lsrs[i].rob_tag = lsrs[j].rob_tag
      PROVE  i = j
  BY <1>2 DEF Inv2, Inv1, StationInv, Paired
<1>3. LsPublishesAddr \subseteq LsUndone /\ LsCompletes \subseteq LsUndone
  BY DEF LsPublishesAddr, LsComputesAddr, LsCompletes
<1>4. ASSUME NEW i \in LsSlots, l[i].busy, l[i].done, ~l[i].is_load
      PROVE  l[i].addr_ready /\ l[i].qk = 0
  <2>1. LsKeeps(l[i], i) /\ i \in LsCompletes /\ l[i].qk = 0
    BY <1>4, DoneStore
  <2> QED BY <2>1 DEF LsKeeps, LsCompletes
<1>5. ASSUME NEW i \in LsSlots, NEW k \in SbSlots, l[i].busy, ~l[i].is_load, b[k].busy,
             b[k].rob_tag = l[i].rob_tag
      PROVE  /\ l[i].done => b[k].val_ready /\ b[k].val = l[i].vk
             /\ b[k].addr_ready => l[i].addr_ready /\ b[k].addr = l[i].addr
  <2>1. CASE Stays(lsrs[i]) /\ SbStays(k)
    <3>1. /\ LsKeeps(l[i], i) /\ SbKeeps(b[k], k) /\ lsrs[i].busy /\ ~lsrs[i].is_load
          /\ sb[k].busy /\ sb[k].rob_tag = lsrs[i].rob_tag
      BY <1>5, <2>1 DEF LsMemStep, SbStep, LsKeeps, SbKeeps, Stays, SbStays
    <3>2. ASSUME l[i].done
          PROVE  b[k].val_ready /\ b[k].val = l[i].vk
      <4>1. i \in LsCompletes /\ l[i].vk = lsrs[i].vk
        BY <1>5, <3>2, DoneStore
      <4>2. GivesVal(i, k)
        BY <3>1, <4>1 DEF GivesVal
      <4> QED BY <3>1, <4>1, <4>2 DEF SbKeeps
    <3>3. ASSUME b[k].addr_ready
          PROVE  l[i].addr_ready /\ b[k].addr = l[i].addr
      <4>1. CASE \E j \in LsSlots : GivesAddr(j, k)
        <5>1. GivesAddr(i, k)
          BY <1>2, <1>3, <3>1, <4>1 DEF GivesAddr, LsUndone
        <5>2. i \in LsComputesAddr
          BY <5>1 DEF GivesAddr, LsPublishesAddr
        <5> QED BY <3>1, <5>1, <5>2 DEF LsKeeps, SbKeeps, LsHasAddr
      <4>2. CASE \A j \in LsSlots : ~GivesAddr(j, k)
        <5>1. sb[k].addr_ready /\ b[k].addr = sb[k].addr
          BY <3>1, <3>3, <4>2 DEF SbKeeps
        <5>2. lsrs[i].addr_ready /\ sb[k].addr = lsrs[i].addr
          BY <1>1, <3>1, <5>1 DEF ValuesAgree
        <5>3. LsHasAddr(i) /\ LsAddr(i) = lsrs[i].addr
          BY <5>2 DEF LsHasAddr, LsAddr, LsComputesAddr
        <5> QED BY <3>1, <5>1, <5>2, <5>3 DEF LsKeeps
      <4> QED BY <4>1, <4>2
    <3> QED BY <3>2, <3>3
  <2>2. CASE ~Stays(lsrs[i]) /\ ~SbStays(k)
    BY <1>5, <2>2 DEF LsMemStep, SbStep
  <2>3. CASE ~(Stays(lsrs[i]) <=> SbStays(k))
    BY <1>5, <2>3, StoreTags DEF LsMemStep, SbStep, LsKeeps, SbKeeps, Stays, SbStays
  <2> QED BY <2>1, <2>2, <2>3
<1>6. ASSUME NEW i \in RobSlots, NEW k \in SbSlots,
             n.slots[i].busy, n.slots[i].is_store, n.slots[i].ready,
             b[k].busy, b[k].rob_tag = n.slots[i].tag
      PROVE  /\ b[k].val_ready /\ b[k].val = n.slots[i].store_value
             /\ b[k].addr_ready => b[k].addr = n.slots[i].store_addr
  <2> DEFINE tag == rob.slots[i].tag
  <2>1. /\ Live(i) /\ Wrote(rob.slots[i], n.slots[i])
        /\ rob.slots[i].busy /\ rob.slots[i].is_store /\ n.slots[i].tag = tag
    BY <1>6 DEF RobStep, IsNew, Wrote, Live
  <2>2. SbStays(k) /\ SbKeeps(b[k], k) /\ sb[k].busy /\ sb[k].rob_tag = tag
    BY <1>6, <2>1, StoreTags DEF SbStep, SbKeeps, SbStays
  <2>3. RingOK(rob) /\ Paired(rob, alurs, lsrs) /\ StationShape(alurs, lsrs) /\ RobKinds(rob)
    BY DEF Inv2, Inv1, FrontInv, StationInv
  <2>4. CASE rob.slots[i].ready
    <3>1. ASSUME NEW t \in Finishing PROVE t # tag
      <4>1. PICK s \in RobSlots : /\ rob.slots[s].busy /\ ~rob.slots[s].ready
                                  /\ rob.slots[s].tag = t
        BY <2>3, FinishingIs DEF Finishing
      <4> QED BY <2>1, <2>3, <2>4, <4>1, TagsUnique
    <3>2. n.slots[i] = rob.slots[i]
      BY <2>1, <3>1 DEF Wrote
    <3>3. ASSUME NEW j \in LsSlots, lsrs[j].busy PROVE lsrs[j].rob_tag # tag
      <4>1. PICK s \in RobSlots : Awaits(rob, s, lsrs[j].rob_tag, TRUE)
        BY <2>3, <3>3 DEF Paired
      <4> QED BY <2>1, <2>3, <2>4, <4>1, TagsUnique DEF Awaits
    <3>4. \A j \in LsSlots : ~GivesAddr(j, k) /\ ~GivesVal(j, k)
      BY <1>3, <2>2, <3>3 DEF GivesAddr, GivesVal, LsUndone
    <3>5. /\ sb[k].val_ready /\ sb[k].val = rob.slots[i].store_value
          /\ sb[k].addr_ready => sb[k].addr = rob.slots[i].store_addr
      BY <1>1, <2>1, <2>2, <2>4 DEF ValuesAgree
    <3> QED BY <2>2, <3>2, <3>4, <3>5 DEF SbKeeps
  <2>5. CASE ~rob.slots[i].ready
    <3>1. tag \in DoneTags
      <4>1. tag \in Finishing
        BY <1>6, <2>1, <2>5 DEF Wrote
      <4>2. ASSUME Winner.valid PROVE Winner.rob_tag # tag
        <5>1. PICK s \in RobSlots : /\ rob.slots[s].busy /\ rob.slots[s].tag = Winner.rob_tag
                                    /\ ~rob.slots[s].is_store
          BY <2>3, <4>2, FinishingIs
        <5> QED BY <2>1, <2>3, <5>1, TagsUnique
      <4> QED BY <4>1, <4>2 DEF Finishing
    <3>2. PICK j \in LsDoneStores : lsrs[j].rob_tag = tag
      BY <3>1 DEF DoneTags
    <3>3. lsrs[j].busy /\ lsrs[j].done /\ ~lsrs[j].is_load /\ j \in LsSlots
      BY DEF LsDoneStores
    <3>4. StoreResults[tag].addr = lsrs[j].addr /\ StoreResults[tag].val = lsrs[j].vk
      <4>1. \A s \in LsDoneStores : lsrs[s].rob_tag = tag => s = j
        BY <1>2, <3>2 DEF LsDoneStores
      <4>2. (CHOOSE s \in LsDoneStores : lsrs[s].rob_tag = tag) = j
        BY <3>2, <4>1
      <4>3. StoreResults[tag] = [addr |-> lsrs[j].addr, val |-> lsrs[j].vk]
        BY <3>1, <4>2 DEF StoreResults
      <4> QED BY <4>3
    <3>5. /\ n.slots[i].store_addr = lsrs[j].addr
          /\ n.slots[i].store_value = lsrs[j].vk
      BY <2>1, <3>1, <3>4 DEF Wrote
    <3>6. \A s \in LsSlots : ~GivesAddr(s, k) /\ ~GivesVal(s, k)
      BY <1>2, <1>3, <2>2, <3>2, <3>3 DEF GivesAddr, GivesVal, LsUndone
    <3>7. /\ sb[k].val_ready /\ sb[k].val = lsrs[j].vk
          /\ sb[k].addr_ready => sb[k].addr = lsrs[j].addr
      BY <1>1, <2>2, <3>2, <3>3 DEF ValuesAgree
    <3> QED BY <2>2, <3>5, <3>6, <3>7 DEF SbKeeps
  <2> QED BY <2>4, <2>5
<1> QED BY <1>4, <1>5, <1>6 DEF ValuesAgree

----------------------------------------------------------------------------
(* The request of the memory                                               *)

\* The load that asks for the memory in this cycle.
Asks == CHOOSE l \in LsOldest(LsForMemory) : TRUE
Request(i) == [valid |-> TRUE, is_load |-> TRUE, read_ready |-> FALSE, type |-> lsrs[i].type,
               addr |-> LsAddr(i), val |-> 0, cycles_left |-> DmemDelay,
               rob_tag |-> lsrs[i].rob_tag]

\* The request of the next cycle.
NextRq == DmemResolve(DmemExecuted, ~Squashes).rq

\* The copy of the memory after the phases.
LEMMA DmemExecutedIs ==
  ASSUME RqShape(rq)
  PROVE  LET d == DmemExecuted
         IN  /\ DOMAIN d = {"rq", "mem", "pending_load", "pending_store"}
             /\ RqShape(d.rq)
             /\ d.rq.is_load = rq.is_load /\ d.rq.rob_tag = rq.rob_tag
             /\ d.rq.addr = rq.addr /\ d.rq.type = rq.type
             /\ rq.valid /\ rq.is_load => d.rq.valid \/ d.rq.read_ready
             /\ ~rq.valid => ~d.rq.valid /\ ~d.rq.read_ready
             /\ d.pending_load = NoRq
                \/ /\ ~DmemIsBusy /\ LsOldest(LsForMemory) # {}
                   /\ d.pending_load = Request(Asks)
             /\ d.pending_store = NoRq
                \/ /\ RqShape(d.pending_store) /\ ~d.pending_store.is_load
<1> DEFINE d1 == DmemCommitted
           d2 == DmemDecreaseLeftCycles(d1)
           d3 == DmemConsumeRead(d2)
           d4 == DmemExecuted
           Parts == {"rq", "mem", "pending_load", "pending_store"}
           store == [valid |-> TRUE, is_load |-> FALSE, read_ready |-> FALSE,
                     type |-> Head1.type, addr |-> Head1.store_addr,
                     val |-> Head1.store_value, cycles_left |-> 0, rob_tag |-> 0]
           StoreOK(s) == s = NoRq \/ (RqShape(s) /\ ~s.is_load)
<1>1. RqShape(store) /\ ~store.is_load
  BY DEF RqShape, RqFields
<1>2. /\ DOMAIN d1 = Parts /\ d1.rq = rq /\ d1.pending_load = NoRq
      /\ d1.pending_store = NoRq \/ d1.pending_store = store
  BY DEF DmemCommitted, DmemIssueWrite, DmemNext
<1>3. StoreOK(d1.pending_store)
  BY <1>1, <1>2
<1> HIDE DEF d1, store
<1>4. /\ DOMAIN d2 = Parts /\ d2.pending_load = NoRq /\ d2.pending_store = d1.pending_store
      /\ RqShape(d2.rq)
      /\ d2.rq.is_load = rq.is_load /\ d2.rq.rob_tag = rq.rob_tag
      /\ d2.rq.addr = rq.addr /\ d2.rq.type = rq.type
      /\ rq.valid /\ rq.is_load => d2.rq.valid \/ d2.rq.read_ready
      /\ ~rq.valid => d2.rq = rq
  <2>1. CASE ~rq.valid
    BY <1>2, <2>1 DEF DmemDecreaseLeftCycles
  <2>2. CASE rq.valid /\ rq.cycles_left > 0
    BY <1>2, <2>2 DEF DmemDecreaseLeftCycles, RqShape, RqFields
  <2>3. CASE rq.valid /\ ~(rq.cycles_left > 0) /\ rq.is_load
    BY <1>2, <2>3 DEF DmemDecreaseLeftCycles, RqShape, RqFields
  <2>4. CASE rq.valid /\ ~(rq.cycles_left > 0) /\ ~rq.is_load
    BY <1>2, <2>4 DEF DmemDecreaseLeftCycles, RqShape, RqFields
  <2> QED BY <2>1, <2>2, <2>3, <2>4 DEF RqShape
<1> HIDE DEF d2
<1>5. /\ DOMAIN d3 = Parts /\ d3.pending_load = NoRq /\ d3.pending_store = d1.pending_store
      /\ RqShape(d3.rq)
      /\ d3.rq.is_load = rq.is_load /\ d3.rq.rob_tag = rq.rob_tag
      /\ d3.rq.addr = rq.addr /\ d3.rq.type = rq.type
      /\ rq.valid /\ rq.is_load => d3.rq.valid \/ d3.rq.read_ready
      /\ ~rq.valid => ~d3.rq.valid /\ ~d3.rq.read_ready
  BY <1>4 DEF DmemConsumeRead, RqShape, RqFields
<1>6. d4 = IF LsOldest(LsForMemory) = {} THEN d3
           ELSE IF DmemIsBusy \/ d3.pending_load.valid THEN d3
           ELSE [d3 EXCEPT !.pending_load = Request(Asks)]
  BY DEF DmemExecuted, LsDmemExecute, DmemIssueRead, Asks, Request, d1, d2
<1> HIDE DEF d3, d4
<1>7. /\ DOMAIN d4 = Parts /\ d4.rq = d3.rq /\ d4.pending_store = d1.pending_store
      /\ d4.pending_load = NoRq
         \/ /\ ~DmemIsBusy /\ LsOldest(LsForMemory) # {}
            /\ d4.pending_load = Request(Asks)
  BY <1>5, <1>6
<1> QED BY <1>3, <1>5, <1>7 DEF d4

\* One request at a time: a load's is kept until it is answered, its answer
\* for one cycle, and another one is taken only when there is none.
LEMMA NextRqIs ==
  ASSUME Inv2
  PROVE  /\ RqShape(NextRq)
         /\ rq.valid \/ rq.read_ready => ~StartsLoad
         /\ rq.valid /\ rq.is_load =>
              /\ NextRq.is_load /\ (NextRq.valid \/ NextRq.read_ready)
              /\ NextRq.rob_tag = rq.rob_tag /\ NextRq.addr = rq.addr /\ NextRq.type = rq.type
         /\ ~(rq.valid /\ rq.is_load) /\ ~StartsLoad =>
              ~(NextRq.is_load /\ (NextRq.valid \/ NextRq.read_ready))
         /\ StartsLoad => \E i \in LsForMemory :
              /\ NextRq = Request(i)
              /\ DmemExecuted.pending_load.rob_tag = lsrs[i].rob_tag
<1> DEFINE d == DmemExecuted
<1>1. RqShape(rq)
  BY DEF Inv2, MemoryInv
<1>2. /\ DOMAIN d = {"rq", "mem", "pending_load", "pending_store"}
      /\ RqShape(d.rq)
      /\ d.rq.is_load = rq.is_load /\ d.rq.rob_tag = rq.rob_tag
      /\ d.rq.addr = rq.addr /\ d.rq.type = rq.type
      /\ rq.valid /\ rq.is_load => d.rq.valid \/ d.rq.read_ready
      /\ ~rq.valid => ~d.rq.valid /\ ~d.rq.read_ready
      /\ d.pending_load = NoRq
         \/ /\ ~DmemIsBusy /\ LsOldest(LsForMemory) # {}
            /\ d.pending_load = Request(Asks)
      /\ d.pending_store = NoRq
         \/ /\ RqShape(d.pending_store) /\ ~d.pending_store.is_load
  BY <1>1, DmemExecutedIs
<1> HIDE DEF d
<1>3. NextRq = IF ~DmemIsBusy /\ d.pending_store.valid THEN d.pending_store
               ELSE IF StartsLoad THEN d.pending_load ELSE d.rq
  BY <1>2 DEF NextRq, DmemResolve, DmemAcceptsStore, DmemAcceptsLoad, StartsLoad, d
<1>4. StartsLoad => ~DmemIsBusy /\ ~d.pending_store.valid /\ d.pending_load.valid
  BY DEF StartsLoad, DmemAcceptsLoad, d
<1>5. ~NoRq.valid /\ NoRq.valid \in BOOLEAN
  BY DEF NoRq
<1>6. ASSUME StartsLoad
      PROVE  \E i \in LsForMemory : /\ NextRq = Request(i)
                                    /\ DmemExecuted.pending_load.rob_tag = lsrs[i].rob_tag
  <2>1. d.pending_load = Request(Asks) /\ LsOldest(LsForMemory) # {}
    BY <1>2, <1>4, <1>5, <1>6
  <2>2. Asks \in LsForMemory
    BY <2>1 DEF Asks, LsOldest
  <2>3. NextRq = Request(Asks)
    BY <1>3, <1>4, <1>6, <2>1
  <2>4. Request(Asks).rob_tag = lsrs[Asks].rob_tag
    BY DEF Request
  <2> QED BY <2>1, <2>2, <2>3, <2>4 DEF d
<1>7. \A i \in LsForMemory : RqShape(Request(i))
  BY DEF LsForMemory, LsFreeLoads, LsUndone, Request, RqShape, RqFields, Inv2, Inv1, StationInv,
         StationShape, LsShape
<1>8. RqShape(NextRq)
  <2>1. CASE StartsLoad
    BY <1>6, <1>7, <2>1
  <2>2. CASE ~StartsLoad
    BY <1>2, <1>3, <1>5, <2>2
  <2> QED BY <2>1, <2>2
<1>9. rq.valid \/ rq.read_ready => ~StartsLoad /\ NextRq = d.rq
  BY <1>3, <1>4 DEF DmemIsBusy
<1>10. ASSUME ~(rq.valid /\ rq.is_load), ~StartsLoad
       PROVE  ~(NextRq.is_load /\ (NextRq.valid \/ NextRq.read_ready))
  BY <1>2, <1>3, <1>5, <1>10
<1> QED BY <1>2, <1>6, <1>8, <1>9, <1>10

\* The loads that wait for memory are those it works for, after the cycle.
LEMMA ServedStep ==
  ASSUME Inv2, NEW n, RobStep(n), NEW l, LsMemStep(l)
  PROVE  Served(n, l, NextRq)
<1>1. Served(rob, lsrs, rq) /\ RqShape(rq) /\ StationShape(alurs, lsrs)
  BY DEF Inv2, MemoryInv, Inv1, StationInv
<1>2. ASSUME NEW i \in LsSlots, NEW j \in LsSlots, lsrs[i].busy, lsrs[j].busy,
             lsrs[i].rob_tag = lsrs[j].rob_tag
      PROVE  i = j
  BY <1>2 DEF Inv2, Inv1, StationInv, Paired
<1>3. /\ rob.next_tag \in Nat
      /\ n.next_tag \in {rob.next_tag, rob.next_tag + 1}
      /\ \A i \in LsSlots : lsrs[i].busy => lsrs[i].rob_tag < rob.next_tag
  BY StoreTags DEF RobStep
<1>4. ASSUME NEW i \in LsForMemory
      PROVE  /\ i \in LsSlots /\ lsrs[i].busy /\ ~lsrs[i].done /\ lsrs[i].is_load /\ LsHasAddr(i)
             /\ i \notin LsCompletes /\ i \notin LsForwarded
  BY DEF LsForMemory, LsFreeLoads, LsUndone, LsCompletes, LsForwarded, LsOldest
<1>5. StartsLoad => \E i \in LsForMemory :
        /\ NextRq.is_load /\ NextRq.valid /\ NextRq.rob_tag = lsrs[i].rob_tag
        /\ NextRq.addr = LsAddr(i) /\ NextRq.type = lsrs[i].type
        /\ DmemExecuted.pending_load.rob_tag = lsrs[i].rob_tag
  BY NextRqIs DEF Request
<1>6. ASSUME NEW i \in LsSlots, Requested(l[i])
      PROVE  /\ l[i].is_load /\ l[i].addr_ready
             /\ Serves(NextRq, l[i].rob_tag)
             /\ NextRq.addr = l[i].addr /\ NextRq.type = l[i].type
  <2>1. Stays(lsrs[i]) /\ LsKeeps(l[i], i) /\ lsrs[i].busy
    BY <1>6 DEF LsMemStep, Requested, Stays
  <2>2. CASE Takes(i)
    <3>1. PICK j \in LsForMemory :
            /\ NextRq.is_load /\ NextRq.valid /\ NextRq.rob_tag = lsrs[j].rob_tag
            /\ NextRq.addr = LsAddr(j) /\ NextRq.type = lsrs[j].type
            /\ DmemExecuted.pending_load.rob_tag = lsrs[j].rob_tag
      BY <1>5, <2>2 DEF Takes
    <3>2. i = j
      BY <1>2, <1>4, <2>1, <2>2, <3>1 DEF Takes
    <3> QED BY <1>4, <2>1, <3>1, <3>2 DEF LsKeeps, Serves
  <2>3. CASE ~Takes(i)
    <3>1. lsrs[i].mem_requested /\ i \notin LsAnswered /\ ~lsrs[i].done
      BY <1>6, <2>1, <2>3 DEF LsKeeps, Requested
    <3>2. /\ lsrs[i].is_load /\ lsrs[i].addr_ready /\ Serves(rq, lsrs[i].rob_tag)
          /\ rq.addr = lsrs[i].addr /\ rq.type = lsrs[i].type
      BY <1>1, <2>1, <3>1 DEF Served, Requested
    <3>3. rq.valid
      BY <2>1, <3>1, <3>2 DEF LsAnswered, DmemReadReady, Serves
    <3>4. LsHasAddr(i) /\ LsAddr(i) = lsrs[i].addr
      BY <3>2 DEF LsHasAddr, LsAddr, LsComputesAddr
    <3> QED BY <2>1, <3>2, <3>3, <3>4, NextRqIs DEF LsKeeps, Serves
  <2> QED BY <2>2, <2>3
<1>7. ASSUME NEW t, Serves(NextRq, t)
      PROVE  \/ Serves(rq, t) /\ rq.valid /\ ~rq.read_ready
             \/ StartsLoad /\ \E i \in LsForMemory :
                  lsrs[i].rob_tag = t /\ DmemExecuted.pending_load.rob_tag = t
  <2>1. CASE StartsLoad
    BY <1>5, <1>7, <2>1 DEF Serves
  <2>2. CASE ~StartsLoad
    <3>1. rq.valid /\ rq.is_load
      BY <1>7, <2>2, NextRqIs DEF Serves
    <3> QED BY <1>1, <1>7, <3>1, NextRqIs DEF Serves, RqShape
  <2> QED BY <2>1, <2>2
<1>8. ASSUME NEW t, Serves(NextRq, t)
      PROVE  t < rob.next_tag /\ t \in Nat
  <2>1. CASE Serves(rq, t)
    BY <1>1, <2>1 DEF Served, Serves, RqShape
  <2>2. CASE ~Serves(rq, t)
    <3>1. PICK i \in LsForMemory : lsrs[i].rob_tag = t
      BY <1>7, <1>8, <2>2
    <3> QED BY <1>1, <1>3, <1>4, <3>1 DEF StationShape, LsShape
  <2> QED BY <2>1, <2>2
<1>9. ASSUME NEW i \in LsSlots, l[i].busy, Serves(NextRq, l[i].rob_tag)
      PROVE  Requested(l[i])
  <2>1. Stays(lsrs[i])
    BY <1>3, <1>8, <1>9 DEF LsMemStep
  <2>2. LsKeeps(l[i], i) /\ lsrs[i].busy /\ l[i].rob_tag = lsrs[i].rob_tag
    BY <2>1 DEF LsMemStep, LsKeeps, Stays
  <2>3. CASE Serves(rq, lsrs[i].rob_tag) /\ rq.valid /\ ~rq.read_ready
    <3>1. lsrs[i].is_load /\ lsrs[i].mem_requested /\ ~lsrs[i].done
      BY <1>1, <2>2, <2>3 DEF Served, Requested
    <3>2. i \notin LsAnswered /\ i \notin LsCompletes /\ i \notin LsForwarded
      BY <2>3, <3>1
      DEF LsAnswered, DmemReadReady, LsCompletes, LsForwarded, LsOldest, LsServed, LsFreeLoads
    <3> QED BY <2>2, <3>1, <3>2 DEF LsKeeps, Requested
  <2>4. CASE ~(Serves(rq, lsrs[i].rob_tag) /\ rq.valid /\ ~rq.read_ready)
    <3>1. /\ StartsLoad
          /\ \E j \in LsForMemory : lsrs[j].rob_tag = lsrs[i].rob_tag
          /\ DmemExecuted.pending_load.rob_tag = lsrs[i].rob_tag
      BY <1>7, <1>9, <2>2, <2>4
    <3>2. i \in LsForMemory
      BY <1>2, <1>4, <2>2, <3>1
    <3>3. i \notin LsAnswered
      BY <3>1, NextRqIs DEF LsAnswered, DmemReadReady
    <3>4. ~l[i].done
      BY <1>4, <2>2, <3>2, <3>3 DEF LsKeeps
    <3> QED BY <2>2, <3>1, <3>4 DEF LsKeeps, Takes, Requested
  <2> QED BY <2>3, <2>4
<1>10. Serves(NextRq, NextRq.rob_tag) => NextRq.rob_tag < n.next_tag
  BY <1>3, <1>8
<1> QED BY <1>6, <1>9, <1>10 DEF Served

----------------------------------------------------------------------------
(* Store buffer and memory after the cycle                                 *)

\* A squash leaves no store in the buffer.
LEMMA SbSquash ==
  ASSUME Inv2, NEW args, ArgsOf(args), Squashes
  PROVE  SbShape(SbResolved) /\ \A k \in SbSlots : ~SbResolved[k].busy
<1>1. NewTag = rob.next_tag /\ SbStep(SbIssued)
  BY RobCycle, SbIssuedStep DEF Inv2
<1>2. /\ RingOK(rob) /\ RingShape(rob) /\ rob.head \in RobSlots /\ rob.slots[rob.head].busy
      /\ Commits
  BY DEF Inv2, Inv1, FrontInv, RingOK, RingShape, Squashes, Commits, RobCanCommit
<1>3. ASSUME NEW k \in SbSlots, SbIssued[k].busy
      PROVE  SbIssued[k].rob_tag > Head1.tag
  <2>1. CASE SbStays(k)
    <3>1. PICK i \in RobSlots : /\ rob.slots[i].busy /\ rob.slots[i].is_store
                                /\ rob.slots[i].tag = sb[k].rob_tag
      BY <2>1, StoreTags DEF SbStays
    <3>2. Live(i)
      BY <2>1, <3>1, StoreStays DEF SbStays
    <3>3. i # rob.head
      BY <1>2, <3>2 DEF Live
    <3>4. Head1.tag < sb[k].rob_tag
      BY <1>2, <3>1, <3>3, HeadIsOldest DEF Head1
    <3>5. SbIssued[k].rob_tag = sb[k].rob_tag /\ Head1.tag \in Nat /\ sb[k].rob_tag \in Nat
      BY <1>1, <1>2, <2>1
      DEF SbStep, SbKeeps, Head1, RingShape, EntryShape, Inv2, MemoryInv, SbShape
    <3> QED BY <3>4, <3>5
  <2>2. CASE ~SbStays(k)
    <3>1. SbIssued[k].rob_tag = rob.next_tag
      BY <1>1, <1>3, <2>2 DEF SbStep
    <3> QED BY <1>2, <3>1, StoreTags DEF Head1, RingShape, EntryShape
  <2> QED BY <2>1, <2>2
<1>4. SbResolved = [k \in SbSlots |-> IF SbIssued[k].busy /\ SbIssued[k].rob_tag > Head1.tag
                                      THEN [SbIssued[k] EXCEPT !.busy = FALSE] ELSE SbIssued[k]]
  BY DEF SbResolved, SbFlushFrom
<1>5. SbShape(SbIssued)
  BY <1>1 DEF SbStep
<1> QED BY <1>3, <1>4, <1>5 DEF SbShape, SbFields

\* A squash leaves no entry in the station and the numbering of the ring.
LEMMA LsSquash ==
  ASSUME Inv2, NEW args, ArgsOf(args), Effect(args), Squashes
  PROVE  /\ \A i \in LsSlots : ~lsrs'[i].busy
         /\ rob'.next_tag >= rob.next_tag
<1>1. StationInv' /\ \A i \in RobSlots : ~rob'.slots[i].busy
  BY StationsStep, RobSquash DEF Inv2, Effect
<1>2. \A i \in LsSlots : ~lsrs'[i].busy
  BY <1>1 DEF StationInv, Paired, Awaits
<1>3. rob'.next_tag = RobIssued(args).next_tag
  <2>1. /\ RingOK(rob) /\ RingOK(RobIssued(args)) /\ Behind(RobIssued(args))
    BY RobCycle DEF Inv2, Inv1, FrontInv, RobStep, Squashes
  <2> QED BY <2>1, FlushEmptiesRing DEF Effect, RobResolved, Head1
<1>4. rob.next_tag \in Nat /\ RobIssued(args).next_tag \in {rob.next_tag, rob.next_tag + 1}
  BY RobCycle, StoreTags DEF Inv2, RobStep
<1> QED BY <1>2, <1>3, <1>4

\* The store buffer and the memory after a cycle.
LEMMA MemoryStep ==
  ASSUME Inv2, NEW args, ArgsOf(args), Effect(args)
  PROVE  MemoryInv'
<1>1. rq' = NextRq /\ RqShape(NextRq)
  BY NextRqIs DEF Effect, NextRq
<1>2. CASE Squashes
  <2>1. SbShape(sb') /\ \A k \in SbSlots : ~sb'[k].busy
    BY <1>2, SbSquash DEF Effect
  <2>2. (\A i \in LsSlots : ~lsrs'[i].busy) /\ rob'.next_tag >= rob.next_tag
    BY <1>2, LsSquash
  <2>3. \A i \in RobSlots : ~rob'.slots[i].busy
    BY <1>2, RobSquash DEF Inv2, Effect
  <2>4. ASSUME Serves(NextRq, NextRq.rob_tag)
        PROVE  NextRq.rob_tag < rob'.next_tag
    <3>1. ~StartsLoad
      BY <1>2 DEF StartsLoad, DmemAcceptsLoad
    <3>2. rq.valid /\ rq.is_load /\ NextRq.rob_tag = rq.rob_tag
      BY <2>4, <3>1, NextRqIs DEF Serves
    <3>3. rq.rob_tag < rob.next_tag /\ rq.rob_tag \in Nat /\ rob.next_tag \in Nat
      BY <3>2, StoreTags DEF Inv2, MemoryInv, Served, Serves, RqShape
    <3>4. rob'.next_tag \in Nat
      BY FrontStep DEF Inv2, FrontInv, RingOK, RingShape
    <3> QED BY <2>2, <3>2, <3>3, <3>4
  <2> QED BY <1>1, <2>1, <2>2, <2>3, <2>4
      DEF MemoryInv, StoresPaired, ValuesAgree, Served, Requested
<1>3. CASE ~Squashes
  <2>1. /\ rob' = RobIssued(args) /\ lsrs' = LsEnd /\ sb' = SbIssued
        /\ RobStep(rob') /\ NewTag = rob.next_tag
    BY <1>3, RobCycle DEF Inv2, Effect, RobResolved, SbResolved
  <2>2. LsMemStep(lsrs') /\ SbStep(sb')
    BY <1>3, <2>1, LsEndStep, SbIssuedStep
  <2>3. /\ StoresPaired(rob', sb') /\ ValuesAgree(rob', lsrs', sb') /\ Served(rob', lsrs', NextRq)
    BY <2>1, <2>2, StoresPairedStep, ValuesStep, ServedStep
  <2> QED BY <1>1, <2>2, <2>3 DEF MemoryInv, SbStep
<1> QED BY <1>2, <1>3
============================================================================
