----------------------------- MODULE PhaseProofs -----------------------------
(***************************************************************************)
(* The order of the five phases of a cycle does not matter.  Each of the   *)
(* next copies that the phases write is stated as a function of which      *)
(* phases have run, in the order of the code: RobAt(c, w, i, args) is the  *)
(* reorder buffer after those of commit, writeback and issue whose flag is *)
(* TRUE, and RatAt, AluAt, ... are the other copies.  Each phase, run on   *)
(* such a copy, turns its own flag on, whichever of the others have run:   *)
(* that is what the lemmas RobPhases, RatPhases, ... say, and where two    *)
(* phases write the same copy it needs the inductive invariant.  Hence     *)
(* after any number of phases the copies depend only on which have run.    *)
(***************************************************************************)
EXTENDS TomasuloProofs

----------------------------------------------------------------------------
(* What the phases do to the reorder buffer                                *)

\* A copy of the buffer as the phases hand it on.
RobRecord(r) == DOMAIN r = {"slots", "head", "tail", "next_tag"} /\ DOMAIN r.slots = RobSlots

\* It has nothing but its parts.
Whole(r) == /\ r = [slots |-> r.slots, head |-> r.head, tail |-> r.tail, next_tag |-> r.next_tag]
            /\ r.slots = [k \in RobSlots |-> r.slots[k]]

\* Two buffers with the same parts are the same.
LEMMA SameRob ==
  ASSUME NEW r, NEW s, Whole(r), Whole(s), \A k \in RobSlots : r.slots[k] = s.slots[k],
         r.head = s.head, r.tail = s.tail, r.next_tag = s.next_tag
  PROVE  r = s
<1>1. r.slots = s.slots
  <2> DEFINE x == r.slots
             y == s.slots
  <2>1. x = [k \in RobSlots |-> x[k]] /\ y = [k \in RobSlots |-> y[k]]
    BY DEF Whole
  <2> HIDE DEF x, y
  <2>2. x = y
    BY <2>1 DEF x, y
  <2> QED BY <2>2 DEF x, y
<1> QED BY <1>1 DEF Whole

\* writeback, of one slot that holds v.
StoreWrote(k, v) ==
  IF \E tag \in DoneTags : /\ RobHolds(rob.slots, k, tag) /\ rob.slots[k].is_store
                           /\ v.busy /\ v.tag = tag
  THEN [v EXCEPT !.ready = TRUE, !.store_addr = StoreResults[v.tag].addr,
                 !.store_value = StoreResults[v.tag].val]
  ELSE v
ResultWrote(k, v) ==
  IF Winner.valid /\ RobHolds(rob.slots, k, Winner.rob_tag) /\ v.busy /\ v.tag = Winner.rob_tag
  THEN [v EXCEPT !.ready = TRUE, !.val = Winner.val]
  ELSE v
BranchWrote(k, v) ==
  IF /\ Winner.is_branch /\ RobHolds(rob.slots, k, Winner.rob_tag)
     /\ v.busy /\ v.tag = Winner.rob_tag /\ rob.slots[k].is_branch
  THEN [v EXCEPT !.ready = TRUE, !.branch_actual_taken = Winner.branch_actual_taken,
                 !.branch_target = Winner.branch_target]
  ELSE v
SlotWrote(k, v) == BranchWrote(k, ResultWrote(k, StoreWrote(k, v)))

\* What each phase does to the buffer.
CommitRob(r) == IF Commits THEN RobCommit(r) ELSE r
WriteRob(r) ==
  LET stores == RobWriteStoreResults(r, StoreResults)
      result == IF Winner.valid THEN RobWriteResult(stores, Winner.rob_tag, Winner.val) ELSE stores
  IN  IF Winner.is_branch
      THEN RobWriteBranchResult(result, Winner.rob_tag,
                                Winner.branch_actual_taken, Winner.branch_target)
      ELSE result
IssueRob(r, args) == IF Issues THEN RobAlloc(r, args) ELSE r

\* commit frees the slot at the head and moves the head on.
LEMMA CommitRobIs ==
  ASSUME NEW r, RobRecord(r), r.head = rob.head
  PROVE  LET s == CommitRob(r)
         IN  /\ RobRecord(s) /\ s.tail = r.tail /\ s.next_tag = r.next_tag
             /\ Commits \/ Whole(r) => Whole(s)
             /\ s.head = IF Commits THEN RobSucc(rob.head) ELSE rob.head
             /\ \A k \in RobSlots : s.slots[k] = IF Commits /\ k = rob.head
                                                 THEN [r.slots[k] EXCEPT !.busy = FALSE]
                                                 ELSE r.slots[k]
<1>1. CASE ~Commits
  BY <1>1 DEF CommitRob
<1>2. CASE Commits
  <2> DEFINE x == [r.slots EXCEPT ![rob.head].busy = FALSE]
  <2>1. CommitRob(r) = [r EXCEPT !.slots = x, !.head = RobSucc(rob.head)]
    BY <1>2 DEF CommitRob, RobCommit
  <2>2. /\ x = [k \in RobSlots |-> x[k]] /\ DOMAIN x = RobSlots
        /\ \A k \in RobSlots : x[k] = IF k = rob.head THEN [r.slots[k] EXCEPT !.busy = FALSE]
                                      ELSE r.slots[k]
    BY DEF RobRecord
  <2> HIDE DEF x
  <2> DEFINE s == CommitRob(r)
  <2>3. /\ DOMAIN s = {"slots", "head", "tail", "next_tag"} /\ s.slots = x
        /\ s.tail = r.tail /\ s.next_tag = r.next_tag /\ s.head = RobSucc(rob.head)
        /\ s = [slots |-> x, head |-> RobSucc(rob.head), tail |-> r.tail, next_tag |-> r.next_tag]
    BY <2>1 DEF RobRecord
  <2> HIDE DEF s
  <2>4. Whole(s)
    BY <2>2, <2>3 DEF Whole
  <2> QED BY <1>2, <2>2, <2>3, <2>4 DEF RobRecord, s
<1> QED BY <1>1, <1>2

\* Giving a buffer new slots.
NewSlots(r, x) == [r EXCEPT !.slots = x]

\* The rest of the buffer stays.
LEMMA NewSlotsAre ==
  ASSUME NEW r, RobRecord(r), NEW x, DOMAIN x = RobSlots, x = [k \in RobSlots |-> x[k]]
  PROVE  LET s == NewSlots(r, x)
         IN  /\ RobRecord(s) /\ s.tail = r.tail /\ s.next_tag = r.next_tag /\ s.head = r.head
             /\ s.slots = x /\ Whole(s)
<1> DEFINE s == NewSlots(r, x)
<1>1. /\ DOMAIN s = {"slots", "head", "tail", "next_tag"} /\ s.slots = x
      /\ s.tail = r.tail /\ s.next_tag = r.next_tag /\ s.head = r.head
      /\ s = [slots |-> x, head |-> r.head, tail |-> r.tail, next_tag |-> r.next_tag]
  BY DEF RobRecord, NewSlots
<1> HIDE DEF s
<1> QED BY <1>1 DEF Whole, RobRecord, s

\* writeback writes slot by slot, and moves neither end.
LEMMA WriteRobIs ==
  ASSUME NEW r, RobRecord(r)
  PROVE  LET s == WriteRob(r)
         IN  /\ RobRecord(s) /\ s.tail = r.tail /\ s.next_tag = r.next_tag /\ s.head = r.head
             /\ \A k \in RobSlots : s.slots[k] = SlotWrote(k, r.slots[k])
             /\ Whole(s)
<1> DEFINE x == RobWriteStoreResults(r, StoreResults)
           y == IF Winner.valid THEN RobWriteResult(x, Winner.rob_tag, Winner.val) ELSE x
           z == WriteRob(r)
           Same(s) == /\ RobRecord(s) /\ Whole(s)
                      /\ s.tail = r.tail /\ s.next_tag = r.next_tag /\ s.head = r.head
<1>1. DOMAIN StoreResults = DoneTags
  BY DEF StoreResults
<1>2. Same(x) /\ \A k \in RobSlots : x.slots[k] = StoreWrote(k, r.slots[k])
  <2> DEFINE new == [k \in RobSlots |-> StoreWrote(k, r.slots[k])]
  <2>1. x = NewSlots(r, new)
    BY <1>1 DEF RobWriteStoreResults, NewSlots, StoreWrote, RobWritable, RobHolds
  <2> HIDE DEF x
  <2> QED BY <2>1, NewSlotsAre
<1> HIDE DEF x
<1>3. Same(y) /\ \A k \in RobSlots : y.slots[k] = ResultWrote(k, x.slots[k])
  <2> DEFINE new == [k \in RobSlots |-> ResultWrote(k, x.slots[k])]
  <2>1. Winner.valid => y = NewSlots(x, new)
    BY DEF RobWriteResult, NewSlots, ResultWrote, RobWritable, RobHolds
  <2>2. ~Winner.valid => y = x /\ \A k \in RobSlots : y.slots[k] = ResultWrote(k, x.slots[k])
    BY DEF ResultWrote
  <2> HIDE DEF y
  <2> QED BY <1>2, <2>1, <2>2, NewSlotsAre
<1>4. z = IF Winner.is_branch
          THEN RobWriteBranchResult(y, Winner.rob_tag,
                                    Winner.branch_actual_taken, Winner.branch_target)
          ELSE y
  BY DEF WriteRob, x
<1> HIDE DEF y, z
<1>5. Same(z) /\ \A k \in RobSlots : z.slots[k] = BranchWrote(k, y.slots[k])
  <2> DEFINE new == [k \in RobSlots |-> BranchWrote(k, y.slots[k])]
  <2>1. Winner.is_branch => z = NewSlots(y, new)
    BY <1>4 DEF RobWriteBranchResult, NewSlots, BranchWrote, RobWritable, RobHolds
  <2>2. ~Winner.is_branch => z = y /\ \A k \in RobSlots : z.slots[k] = BranchWrote(k, y.slots[k])
    BY <1>4 DEF BranchWrote
  <2> QED BY <1>3, <2>1, <2>2, NewSlotsAre
<1> QED BY <1>2, <1>3, <1>5 DEF SlotWrote, z

\* The entry that issue makes.
Entered(args) ==
  [busy |-> TRUE, tag |-> rob.next_tag, type |-> args.type, dest_reg |-> args.dest_reg,
   pc |-> args.pc, ready |-> FALSE, val |-> 0, is_branch |-> args.is_branch,
   branch_pred_taken |-> args.branch_pred_taken, branch_actual_taken |-> FALSE,
   branch_target |-> args.branch_target, pred_target |-> args.pred_target,
   branch_pred_context |-> args.branch_pred_context,
   is_store |-> args.is_store, store_addr |-> 0, store_value |-> 0]

\* issue fills the slot at the tail and moves the tail and the next tag on.
LEMMA IssueRobIs ==
  ASSUME NEW r, RobRecord(r), NEW args, r.tail = rob.tail, r.next_tag = rob.next_tag
  PROVE  LET s == IssueRob(r, args)
         IN  /\ RobRecord(s) /\ s.head = r.head
             /\ Issues \/ Whole(r) => Whole(s)
             /\ s.tail = IF Issues THEN RobSucc(rob.tail) ELSE rob.tail
             /\ s.next_tag = IF Issues THEN rob.next_tag + 1 ELSE rob.next_tag
             /\ \A k \in RobSlots : s.slots[k] = IF Issues /\ k = rob.tail THEN Entered(args)
                                                 ELSE r.slots[k]
<1>1. Issues => ~RobIsFull
  BY DEF Issues, Stalls
<1>2. CASE ~Issues
  BY <1>2 DEF IssueRob
<1>3. CASE Issues
  <2> DEFINE e == Entered(args)
             x == [r.slots EXCEPT ![rob.tail] = e]
             s == IssueRob(r, args)
  <2>1. s = [slots |-> x, head |-> r.head, tail |-> RobSucc(rob.tail),
             next_tag |-> rob.next_tag + 1]
    BY <1>1, <1>3 DEF IssueRob, RobAlloc, Entered
  <2> HIDE DEF e
  <2>2. /\ x = [k \in RobSlots |-> x[k]] /\ DOMAIN x = RobSlots
        /\ \A k \in RobSlots : x[k] = IF k = rob.tail THEN e ELSE r.slots[k]
    BY DEF RobRecord
  <2> HIDE DEF x, s
  <2>3. /\ DOMAIN s = {"slots", "head", "tail", "next_tag"} /\ s.slots = x
        /\ s.tail = RobSucc(rob.tail) /\ s.next_tag = rob.next_tag + 1 /\ s.head = r.head
    BY <2>1
  <2> QED BY <1>3, <2>1, <2>2, <2>3 DEF RobRecord, Whole, s, e
<1> QED BY <1>2, <1>3

\* writeback has nothing for the entry that commits, which has its result, nor
\* for the free slot at the tail.
LEMMA SlotNotWritten ==
  ASSUME Inv1, NEW k \in RobSlots, ~(rob.slots[k].busy /\ ~rob.slots[k].ready)
  PROVE  \A v : SlotWrote(k, v) = v
<1>1. ASSUME NEW t, RobHolds(rob.slots, k, t)
      PROVE  t \notin DoneTags /\ ~(Winner.valid /\ Winner.rob_tag = t)
  <2>1. ASSUME NEW s \in RobSlots, rob.slots[s].busy, ~rob.slots[s].ready, rob.slots[s].tag = t
        PROVE FALSE
    BY <1>1, <2>1, TagsUnique DEF RobHolds, Inv1, FrontInv
  <2> QED BY <2>1, FinishingIs DEF Inv1, FrontInv, StationInv
<1>2. Winner.is_branch => Winner.valid
  BY WinnerIs DEF Inv1, StationInv
<1>3. \A v : StoreWrote(k, v) = v
  BY <1>1 DEF StoreWrote
<1>4. \A v : ResultWrote(k, v) = v
  BY <1>1 DEF ResultWrote
<1>5. \A v : BranchWrote(k, v) = v
  BY <1>1, <1>2 DEF BranchWrote
<1> QED BY <1>3, <1>4, <1>5 DEF SlotWrote

\* The buffer after some of the phases, in the order of the code.
RobAt(c, w, i, args) ==
  LET committed == IF c THEN CommitRob(rob) ELSE rob
      written == IF w THEN WriteRob(committed) ELSE committed
  IN  IF i THEN IssueRob(written, args) ELSE written

\* commit, writeback and issue write to the buffer in any order: the slot that
\* commits and the slot that is filled are not the ones that are written, and
\* each end is moved by one phase only.
LEMMA RobPhases ==
  ASSUME Inv1, NEW args, NEW x \in BOOLEAN, NEW y \in BOOLEAN
  PROVE  /\ RobAt(FALSE, x, y, args).head = rob.head
         /\ RobAt(x, y, FALSE, args).next_tag = rob.next_tag
         /\ CommitRob(RobAt(FALSE, x, y, args)) = RobAt(TRUE, x, y, args)
         /\ WriteRob(RobAt(x, FALSE, y, args)) = RobAt(x, TRUE, y, args)
         /\ IssueRob(RobAt(x, y, FALSE, args), args) = RobAt(x, y, TRUE, args)
<1>1. RobRecord(rob) /\ rob.head \in RobSlots /\ rob.tail \in RobSlots
  BY DEF Inv1, FrontInv, RingOK, RingShape, RobRecord
<1>2. Commits => \A v : SlotWrote(rob.head, v) = v
  <2>1. Commits => rob.slots[rob.head].ready
    BY DEF Commits, RobCanCommit
  <2> QED BY <1>1, <2>1, SlotNotWritten
<1>3. Issues => ~rob.slots[rob.tail].busy
  <2>1. CASE rob.head = rob.tail
    BY <2>1 DEF Issues, Stalls, RobIsFull
  <2>2. CASE rob.head # rob.tail
    <3>1. rob.slots[rob.tail].busy => RobDist(rob.head, rob.tail) < RobDist(rob.head, rob.tail)
      BY <1>1, <2>2 DEF Inv1, FrontInv, RingOK, Contiguous, RobCount
    <3>2. RobDist(rob.head, rob.tail) \in Int
      BY <1>1, DistType, RobSizeAssumption
    <3> QED BY <3>1, <3>2
  <2> QED BY <2>1, <2>2
<1>4. Issues => \A v : SlotWrote(rob.tail, v) = v
  BY <1>1, <1>3, SlotNotWritten
<1>5. Commits /\ Issues => rob.head # rob.tail
  BY <1>3 DEF Commits, RobCanCommit
<1>6. ASSUME NEW r, RobRecord(r), r.head = rob.head
      PROVE  CommitRob(WriteRob(r)) = WriteRob(CommitRob(r))
  <2> DEFINE p == CommitRob(WriteRob(r))
             q == WriteRob(CommitRob(r))
  <2>1. RobRecord(WriteRob(r)) /\ WriteRob(r).head = rob.head
    BY <1>6, WriteRobIs
  <2>2. RobRecord(CommitRob(r))
    BY <1>6, CommitRobIs
  <2>3. Whole(p) /\ Whole(q) /\ p.head = q.head /\ p.tail = q.tail /\ p.next_tag = q.next_tag
    BY <1>6, <2>1, <2>2, CommitRobIs, WriteRobIs
  <2>4. ASSUME NEW k \in RobSlots PROVE p.slots[k] = q.slots[k]
    <3>1. p.slots[k] = IF Commits /\ k = rob.head
                       THEN [SlotWrote(k, r.slots[k]) EXCEPT !.busy = FALSE]
                       ELSE SlotWrote(k, r.slots[k])
      BY <1>6, <2>1, CommitRobIs, WriteRobIs
    <3>2. q.slots[k] = SlotWrote(k, CommitRob(r).slots[k])
      BY <2>2, WriteRobIs
    <3>3. CommitRob(r).slots[k] = IF Commits /\ k = rob.head THEN [r.slots[k] EXCEPT !.busy = FALSE]
                       ELSE r.slots[k]
      BY <1>6, CommitRobIs
    <3> HIDE DEF p, q
    <3>4. CASE Commits /\ k = rob.head
      <4>1. \A v : SlotWrote(k, v) = v
        BY <1>2, <3>4
      <4>2. p.slots[k] = [r.slots[k] EXCEPT !.busy = FALSE]
        BY <3>1, <3>4, <4>1
      <4>3. q.slots[k] = [r.slots[k] EXCEPT !.busy = FALSE]
        BY <3>2, <3>3, <3>4, <4>1
      <4> QED BY <4>2, <4>3
    <3>5. CASE ~(Commits /\ k = rob.head)
      BY <3>1, <3>2, <3>3, <3>5
    <3> QED BY <3>4, <3>5
  <2> HIDE DEF p, q
  <2>5. p = q
    BY <2>3, <2>4, SameRob
  <2> QED BY <2>5 DEF p, q
<1>7. ASSUME NEW r, RobRecord(r), r.head = rob.head, r.tail = rob.tail, r.next_tag = rob.next_tag
      PROVE  CommitRob(IssueRob(r, args)) = IssueRob(CommitRob(r), args)
  <2> DEFINE p == CommitRob(IssueRob(r, args))
             q == IssueRob(CommitRob(r), args)
  <2>1. CASE ~Commits \/ ~Issues
    BY <2>1 DEF CommitRob, IssueRob
  <2>2. CASE Commits /\ Issues
    <3>1. LET s == IssueRob(r, args)
          IN  /\ RobRecord(s) /\ s.head = rob.head /\ s.tail = RobSucc(rob.tail)
              /\ s.next_tag = rob.next_tag + 1
              /\ \A k \in RobSlots : s.slots[k] = IF k = rob.tail THEN Entered(args)
                                                  ELSE r.slots[k]
      BY <1>7, <2>2, IssueRobIs
    <3>2. LET s == CommitRob(r)
          IN  /\ RobRecord(s) /\ s.head = RobSucc(rob.head) /\ s.tail = rob.tail
              /\ s.next_tag = rob.next_tag
              /\ \A k \in RobSlots : s.slots[k] = IF k = rob.head
                                                  THEN [r.slots[k] EXCEPT !.busy = FALSE]
                                                  ELSE r.slots[k]
      BY <1>7, <2>2, CommitRobIs
    <3>3. /\ Whole(p) /\ p.head = RobSucc(rob.head) /\ p.tail = RobSucc(rob.tail)
          /\ p.next_tag = rob.next_tag + 1
          /\ \A k \in RobSlots :
               p.slots[k] = IF k = rob.head
                            THEN [IssueRob(r, args).slots[k] EXCEPT !.busy = FALSE]
                            ELSE IssueRob(r, args).slots[k]
      BY <2>2, <3>1, CommitRobIs
    <3>4. /\ Whole(q) /\ q.head = RobSucc(rob.head) /\ q.tail = RobSucc(rob.tail)
          /\ q.next_tag = rob.next_tag + 1
          /\ \A k \in RobSlots : q.slots[k] = IF k = rob.tail THEN Entered(args)
                                              ELSE CommitRob(r).slots[k]
      BY <2>2, <3>2, IssueRobIs
    <3> HIDE DEF p, q
    <3>5. ASSUME NEW k \in RobSlots PROVE p.slots[k] = q.slots[k]
      <4>1. CASE k = rob.head
        <5>1. IssueRob(r, args).slots[k] = r.slots[k] /\ k # rob.tail
          BY <1>5, <2>2, <3>1, <4>1
        <5>2. p.slots[k] = [r.slots[k] EXCEPT !.busy = FALSE]
          BY <3>3, <4>1, <5>1
        <5>3. q.slots[k] = [r.slots[k] EXCEPT !.busy = FALSE]
          BY <3>2, <3>4, <4>1, <5>1
        <5> QED BY <5>2, <5>3
      <4>2. CASE k # rob.head
        <5>1. p.slots[k] = IssueRob(r, args).slots[k]
          BY <3>3, <4>2
        <5>2. CommitRob(r).slots[k] = r.slots[k]
          BY <3>2, <4>2
        <5> QED BY <3>1, <3>4, <5>1, <5>2
      <4> QED BY <4>1, <4>2
    <3>6. p = q
      BY <3>3, <3>4, <3>5, SameRob
    <3> QED BY <3>6 DEF p, q
  <2> QED BY <2>1, <2>2
<1>8. ASSUME NEW r, RobRecord(r), r.tail = rob.tail, r.next_tag = rob.next_tag
      PROVE  WriteRob(IssueRob(r, args)) = IssueRob(WriteRob(r), args)
  <2> DEFINE p == WriteRob(IssueRob(r, args))
             q == IssueRob(WriteRob(r), args)
  <2>1. RobRecord(IssueRob(r, args))
    BY <1>8, IssueRobIs
  <2>2. RobRecord(WriteRob(r)) /\ WriteRob(r).tail = rob.tail /\ WriteRob(r).next_tag = rob.next_tag
    BY <1>8, WriteRobIs
  <2>3. Whole(p) /\ Whole(q) /\ p.head = q.head /\ p.tail = q.tail /\ p.next_tag = q.next_tag
    BY <1>8, <2>1, <2>2, WriteRobIs, IssueRobIs
  <2>4. ASSUME NEW k \in RobSlots PROVE p.slots[k] = q.slots[k]
    <3>1. p.slots[k] = SlotWrote(k, IssueRob(r, args).slots[k])
      BY <2>1, WriteRobIs
    <3>2. IssueRob(r, args).slots[k] = IF Issues /\ k = rob.tail THEN Entered(args) ELSE r.slots[k]
      BY <1>8, IssueRobIs
    <3>3. q.slots[k] = IF Issues /\ k = rob.tail THEN Entered(args) ELSE SlotWrote(k, r.slots[k])
      BY <1>8, <2>2, WriteRobIs, IssueRobIs
    <3> QED BY <1>4, <3>1, <3>2, <3>3
  <2> HIDE DEF p, q
  <2>5. p = q
    BY <2>3, <2>4, SameRob
  <2> QED BY <2>5 DEF p, q
<1>9. LET r == CommitRob(rob)
      IN  RobRecord(r) /\ r.tail = rob.tail /\ r.next_tag = rob.next_tag
  BY <1>1, CommitRobIs
<1>10. LET r == WriteRob(rob)
       IN  RobRecord(r) /\ r.head = rob.head /\ r.tail = rob.tail /\ r.next_tag = rob.next_tag
  BY <1>1, WriteRobIs
<1>11. LET r == WriteRob(CommitRob(rob))
       IN  RobRecord(r) /\ r.tail = rob.tail /\ r.next_tag = rob.next_tag
  BY <1>9, WriteRobIs
<1>12. RobAt(FALSE, x, y, args).head = rob.head /\ RobAt(x, y, FALSE, args).next_tag = rob.next_tag
  BY <1>1, <1>9, <1>10, <1>11, IssueRobIs DEF RobAt
<1>13. CommitRob(RobAt(FALSE, x, y, args)) = RobAt(TRUE, x, y, args)
  BY <1>1, <1>6, <1>7, <1>10 DEF RobAt
<1>14. WriteRob(RobAt(x, FALSE, y, args)) = RobAt(x, TRUE, y, args)
  BY <1>1, <1>8, <1>9 DEF RobAt
<1>15. IssueRob(RobAt(x, y, FALSE, args), args) = RobAt(x, y, TRUE, args)
  BY DEF RobAt
<1> QED BY <1>12, <1>13, <1>14, <1>15

----------------------------------------------------------------------------
(* The alias table                                                         *)

\* What each phase does to the table.
CommitRat(t) ==
  IF CommitsReg THEN RatCommitClear(t, Head1.dest_reg, Head1.tag, Head1.val) ELSE t
IssueRat(t) == IF IssuesReg THEN RatSetTag(t, Instr1.rd, rob.next_tag) ELSE t

RatAt(c, i) ==
  LET committed == IF c THEN CommitRat(rat) ELSE rat
  IN  IF i THEN IssueRat(committed) ELSE committed

\* The head names a register.
LEMMA HeadRegister ==
  ASSUME Inv1, Commits
  PROVE  Head1.dest_reg \in Reg
<1>1. rob.head \in RobSlots /\ rob.slots[rob.head].busy
  BY DEF Commits, RobCanCommit, Inv1, FrontInv, RingOK, RingShape
<1>2. PICK ins \in Programmed : Head1.dest_reg = ins.rd
  BY <1>1 DEF Inv1, FrontInv, RobKinds, KindOK, Head1
<1>3. prog \in Seq(Instr)
  BY ProgramsAssumption DEF Inv1, FrontInv
<1>4. ins \in Instr \/ ins = Custom("UNKNOWN")
  BY <1>3 DEF Programmed
<1>5. 0 \in Reg
  BY IsaAssumption DEF Reg
<1> QED BY <1>2, <1>4, <1>5 DEF Instr, Custom

\* commit does not take back the alias that issue writes: its tag is another.
LEMMA RatPhases ==
  ASSUME Inv1, NEW x \in BOOLEAN
  PROVE  CommitRat(RatAt(FALSE, x)) = RatAt(TRUE, x) /\ IssueRat(RatAt(x, FALSE)) = RatAt(x, TRUE)
<1> DEFINE d == Head1.dest_reg
           r == Instr1.rd
           waits == [ready |-> FALSE, val |-> 0, tag |-> rob.next_tag]
           value == ReadyRat(Head1.val)
<1>1. DOMAIN rat = Reg
  BY DEF Inv1, FrontInv, RatShape
<1>2. Commits => waits.tag # Head1.tag /\ Head1.tag \in Nat
  BY DEF Commits, RobCanCommit, Head1, Inv1, FrontInv, RingOK, RingShape, EntryShape, TagsInOrder
<1>3. CommitRat(IssueRat(rat)) = IssueRat(CommitRat(rat))
  <2>1. CASE ~CommitsReg \/ ~IssuesReg \/ r = 0
    BY <2>1 DEF CommitRat, IssueRat, RatSetTag
  <2>2. CASE CommitsReg /\ IssuesReg /\ r # 0
    <3> DEFINE t == [rat EXCEPT ![r] = waits]
    <3>1. IssueRat(rat) = t
      BY <2>2 DEF IssueRat, RatSetTag
    <3>2. CommitRat(rat) = IF ~rat[d].ready /\ rat[d].tag = Head1.tag
                           THEN [rat EXCEPT ![d] = value] ELSE rat
      BY <2>2 DEF CommitRat, RatCommitClear, CommitsReg
    <3>3. IssueRat(CommitRat(rat)) = [CommitRat(rat) EXCEPT ![r] = waits]
      BY <2>2 DEF IssueRat, RatSetTag
    <3>4. CommitRat(t) = IF ~t[d].ready /\ t[d].tag = Head1.tag
                         THEN [t EXCEPT ![d] = value] ELSE t
      BY <2>2 DEF CommitRat, RatCommitClear, CommitsReg
    <3>5. d \in Reg /\ r \in Reg
      BY <2>2, HeadRegister DEF CommitsReg, IssuesReg, Issues, Instr1, Instr, FetchedFits,
                                Inv1, FrontInv
    <3>6. CASE d = r
      <4>1. t[d] = waits
        BY <1>1, <3>5, <3>6
      <4> HIDE DEF waits, value, t
      <4>2. CommitRat(t) = t
        BY <1>2, <2>2, <3>4, <4>1 DEF CommitsReg
      <4>3. IssueRat(CommitRat(rat)) = t
        BY <1>1, <3>2, <3>3, <3>6 DEF t
      <4> QED BY <3>1, <4>2, <4>3
    <3>7. CASE d # r
      <4>1. t[d] = rat[d]
        BY <1>1, <3>5, <3>7
      <4> HIDE DEF waits, value
      <4>2. CASE ~rat[d].ready /\ rat[d].tag = Head1.tag
        <5>1. CommitRat(IssueRat(rat)) = [[rat EXCEPT ![r] = waits] EXCEPT ![d] = value]
          BY <3>1, <3>4, <4>1, <4>2
        <5>2. IssueRat(CommitRat(rat)) = [[rat EXCEPT ![d] = value] EXCEPT ![r] = waits]
          BY <3>2, <3>3, <4>2
        <5> QED BY <3>7, <5>1, <5>2
      <4>3. CASE ~(~rat[d].ready /\ rat[d].tag = Head1.tag)
        <5>1. CommitRat(t) = t
          BY <3>4, <4>1, <4>3
        <5>2. CommitRat(rat) = rat
          BY <3>2, <4>3
        <5> QED BY <3>1, <5>1, <5>2
      <4> QED BY <4>2, <4>3
    <3> QED BY <3>6, <3>7
  <2> QED BY <2>1, <2>2
<1> QED BY <1>3 DEF RatAt

----------------------------------------------------------------------------
(* The station of the ALU                                                  *)

\* What writeback and issue do to the station.
WriteAlu(a) ==
  IF AluWins THEN AluRsFree(AluRsListen(a, cdb), Winner.rob_tag) ELSE AluRsListen(a, cdb)
IssueAlu(a) ==
  IF IssuesAlu THEN AluRsAlloc(a, Instr1, Operand1, Operand2, rob.next_tag, fetched.pc) ELSE a

AluAt(e, w, i) ==
  LET executed == IF e THEN AluRsExecute(alurs) ELSE alurs
      written == IF w THEN WriteAlu(executed) ELSE executed
  IN  IF i THEN IssueAlu(written) ELSE written

\* writeback, of one slot that holds v.
AluHeard(k, v) ==
  IF ~(cdb.valid /\ alurs[k].busy) THEN v
  ELSE [v EXCEPT !.vj = IF alurs[k].qj = cdb.rob_tag THEN cdb.val ELSE @,
                 !.qj = IF alurs[k].qj = cdb.rob_tag THEN 0 ELSE @,
                 !.vk = IF alurs[k].qk = cdb.rob_tag THEN cdb.val ELSE @,
                 !.qk = IF alurs[k].qk = cdb.rob_tag THEN 0 ELSE @]
AluLeft(k, v) ==
  IF AluWins /\ alurs[k].busy /\ alurs[k].rob_tag = Winner.rob_tag /\ v.rob_tag = Winner.rob_tag
  THEN [v EXCEPT !.busy = FALSE, !.done = FALSE]
  ELSE v

\* writeback, slot by slot.
LEMMA WriteAluIs ==
  ASSUME NEW a
  PROVE  WriteAlu(a) = [k \in AluSlots |-> AluLeft(k, AluHeard(k, a[k]))]
<1> DEFINE b == AluRsListen(a, cdb)
<1>1. b = [k \in AluSlots |-> AluHeard(k, a[k])]
  BY DEF AluRsListen, AluHeard
<1> HIDE DEF b
<1>2. \A k \in AluSlots : b[k] = AluHeard(k, a[k])
  BY <1>1
<1>3. CASE AluWins
  <2>1. WriteAlu(a) = AluRsFree(b, Winner.rob_tag)
    BY <1>3 DEF WriteAlu, b
  <2>2. AluRsFree(b, Winner.rob_tag) = [k \in AluSlots |-> AluLeft(k, b[k])]
    BY <1>3 DEF AluRsFree, AluLeft
  <2> QED BY <1>2, <2>1, <2>2
<1>4. CASE ~AluWins
  <2>1. \A v : \A k \in AluSlots : AluLeft(k, v) = v
    BY <1>4 DEF AluLeft
  <2>2. WriteAlu(a) = b
    BY <1>4 DEF WriteAlu, b
  <2> QED BY <1>1, <2>1, <2>2
<1> QED BY <1>3, <1>4

\* issue fills one slot, which is free.
AluFree == CHOOSE i \in AluSlots : ~alurs[i].busy /\ \A j \in AluSlots : j < i => alurs[j].busy
AluEntered ==
  [ZeroAluEntry EXCEPT !.busy = TRUE, !.type = Instr1.type,
     !.vj = Operand1.val, !.qj = Operand1.tag, !.vk = Operand2.val, !.qk = Operand2.tag,
     !.rob_tag = rob.next_tag, !.imm = Instr1.imm, !.pc = fetched.pc]

\* issue leaves the other slots, whatever the station looks like by then.
LEMMA IssueAluIs ==
  ASSUME IssuesAlu
  PROVE  /\ AluFree \in AluSlots /\ ~alurs[AluFree].busy
         /\ \A a : IssueAlu(a) = [a EXCEPT ![AluFree] = AluEntered]
<1>1. ~AluRsIsFull
  BY DEF IssuesAlu, Issues, Stalls
<1>2. \E i \in AluSlots : ~alurs[i].busy /\ \A j \in AluSlots : j < i => alurs[j].busy
  BY <1>1, FirstFree, AluRsSizeAssumption DEF AluRsIsFull, AluSlots
<1>3. AluFree \in AluSlots /\ ~alurs[AluFree].busy
  BY <1>2 DEF AluFree
<1>4. ASSUME NEW a PROVE IssueAlu(a) = [a EXCEPT ![AluFree] = AluEntered]
  BY <1>1 DEF IssueAlu, AluRsAlloc, AluFree, AluEntered
<1> QED BY <1>3, <1>4

\* A record in which something was replaced is one.
LEMMA ReplacedIs ==
  ASSUME NEW S, NEW g, DOMAIN g = S, NEW x, NEW v
  PROVE  LET f == [g EXCEPT ![x] = v] IN f = [y \in S |-> f[y]]
  OBVIOUS

\* What an entry computes has the fields of an entry and nothing else.
LEMMA AluComputedWhole ==
  ASSUME NEW e, AluShape(e), e.busy
  PROVE  LET f == AluComputed(e) IN f = [x \in AluFields |-> f[x]]
<1> DEFINE f == AluComputed(e)
           done == [e EXCEPT !.done = TRUE]
           link == [done EXCEPT !.result = Wrap(e.pc + 4)]
           there == Wrap(e.pc + e.imm)
<1>1. e.type \in AluTypes /\ DOMAIN e = AluFields
  BY DEF AluShape
<1>2. \E g, x, v : DOMAIN g = AluFields /\ f = [g EXCEPT ![x] = v]
  <2>1. DOMAIN done = AluFields /\ DOMAIN link = AluFields
    BY <1>1
  <2>2. CASE e.type \in CondTypes
    <3> DEFINE g == [done EXCEPT !.branch_actual_taken = CondTaken(e.type, e.vj, e.vk)]
    <3>1. f = [g EXCEPT !.branch_target = there]
      BY <2>2 DEF AluComputed, CondTypes, AluRTypes, AluITypes
    <3>2. DOMAIN g = AluFields
      BY <2>1
    <3> HIDE DEF f, g
    <3> QED BY <3>1, <3>2
  <2>3. CASE e.type = "JAL"
    <3> DEFINE g == [link EXCEPT !.branch_actual_taken = TRUE]
    <3>1. f = [g EXCEPT !.branch_target = there]
      BY <2>3 DEF AluComputed, CondTypes, AluRTypes, AluITypes
    <3>2. DOMAIN g = AluFields
      BY <2>1
    <3> HIDE DEF f, g
    <3> QED BY <3>1, <3>2
  <2>4. CASE e.type = "JALR"
    <3> DEFINE g == [link EXCEPT !.branch_actual_taken = TRUE]
               v == JalrTarget(e.vj, e.imm)
    <3>1. f = [g EXCEPT !.branch_target = v]
      BY <2>4 DEF AluComputed, CondTypes, AluRTypes, AluITypes
    <3>2. DOMAIN g = AluFields
      BY <2>1
    <3> HIDE DEF f, g, v
    <3> QED BY <3>1, <3>2
  <2>5. CASE e.type \in AluRTypes
    <3>1. f = [done EXCEPT !.result = AluOp(e.type, e.vj, e.vk)]
      BY <2>5 DEF AluComputed, CondTypes, AluRTypes, AluITypes
    <3> HIDE DEF f, done
    <3> QED BY <2>1, <3>1
  <2>6. CASE e.type \in AluITypes
    <3>1. f = [done EXCEPT !.result = AluOp(e.type, e.vj, e.imm)]
      BY <2>6 DEF AluComputed, CondTypes, AluRTypes, AluITypes
    <3> HIDE DEF f, done
    <3> QED BY <2>1, <3>1
  <2>7. CASE e.type = "AUIPC"
    <3>1. f = [done EXCEPT !.result = there]
      BY <2>7 DEF AluComputed, CondTypes, AluRTypes, AluITypes
    <3> HIDE DEF f, done
    <3> QED BY <2>1, <3>1
  <2>8. CASE e.type = "LUI"
    <3>1. f = [done EXCEPT !.result = e.imm]
      BY <2>8 DEF AluComputed, CondTypes, AluRTypes, AluITypes
    <3> HIDE DEF f, done
    <3> QED BY <2>1, <3>1
  <2> QED BY <1>1, <2>2, <2>3, <2>4, <2>5, <2>6, <2>7, <2>8
      DEF AluTypes, UpperTypes, BranchTypes, JumpTypes
<1> HIDE DEF f
<1> QED BY <1>2, ReplacedIs DEF f

\* execute, of one slot that holds v.
AluRan(k, v) ==
  IF k \in AluOldest(AluRsReady) /\ v.busy /\ v.rob_tag = alurs[k].rob_tag
  THEN AluComputed(alurs[k])
  ELSE v

\* execute, slot by slot.
LEMMA AluRanIs == \A a : AluRsExecute(a) = [k \in AluSlots |-> AluRan(k, a[k])]
  BY DEF AluRsExecute, AluRan

\* What executes has its operands, so that it hears nothing, and is not what is
\* on its way to the bus.
LEMMA AluRanFirst ==
  ASSUME Inv1, NEW k \in AluSlots
  PROVE  LET e == alurs[k]
         IN  AluLeft(k, AluHeard(k, AluRan(k, e))) = AluRan(k, AluLeft(k, AluHeard(k, e)))
<1> DEFINE e == alurs[k]
           f == AluComputed(e)
<1>1. CASE k \notin AluOldest(AluRsReady)
  <2>1. \A v : AluRan(k, v) = v
    BY <1>1 DEF AluRan
  <2> QED BY <2>1
<1>2. CASE k \in AluOldest(AluRsReady)
  <2>1. e.busy /\ ~e.done /\ e.qj = 0 /\ e.qk = 0
    BY <1>2 DEF AluOldest, AluRsReady
  <2>2. AluShape(e)
    BY DEF Inv1, StationInv, StationShape
  <2>3. AluWins => Winner.rob_tag # e.rob_tag
    <3> SUFFICES ASSUME AluWins, Winner.rob_tag = e.rob_tag PROVE FALSE
      OBVIOUS
    <3>1. PICK i \in AluSlots : alurs[i].busy /\ alurs[i].done /\ alurs[i].rob_tag = e.rob_tag
      BY AluWinnerIs DEF Inv1, StationInv
    <3>2. i = k
      BY <2>1, <3>1 DEF Inv1, StationInv, Paired
    <3> QED BY <2>1, <3>1, <3>2
  <2>4. \A v : AluLeft(k, v) = v
    BY <2>3 DEF AluLeft
  <2>5. cdb.valid => cdb.rob_tag # 0
    BY DEF Inv1, StationInv, BusShape
  <2> HIDE DEF e
  <2>6. ASSUME NEW v, v = [x \in AluFields |-> v[x]] PROVE AluHeard(k, v) = v
    BY <2>1, <2>5, <2>6 DEF AluHeard, e
  <2>7. f = [x \in AluFields |-> f[x]]
    BY <2>1, <2>2, AluComputedWhole
  <2>8. AluHeard(k, f) = f
    <3> HIDE DEF f
    <3> QED BY <2>6, <2>7
  <2>9. AluHeard(k, e).busy = e.busy /\ AluHeard(k, e).rob_tag = e.rob_tag
    BY <2>2 DEF AluHeard, AluShape, AluFields
  <2>10. \A v : v.busy = e.busy /\ v.rob_tag = e.rob_tag => AluRan(k, v) = f
    BY <1>2, <2>1 DEF AluRan, e
  <2> HIDE DEF f
  <2>11. AluRan(k, e) = f /\ AluRan(k, AluHeard(k, e)) = f
    BY <2>9, <2>10
  <2>12. AluLeft(k, AluHeard(k, AluRan(k, e))) = AluRan(k, AluLeft(k, AluHeard(k, e)))
    BY <2>4, <2>8, <2>11
  <2> QED BY <2>12 DEF e
<1> QED BY <1>1, <1>2

\* A station as the phases hand it on.
AluStation(a) == DOMAIN a = AluSlots

\* execute, writeback and issue change the station in any order: what executes
\* hears nothing, and issue fills a slot in which the others find nothing to do.
LEMMA AluPhases ==
  ASSUME Inv1, NEW x \in BOOLEAN, NEW y \in BOOLEAN
  PROVE  /\ AluRsExecute(AluAt(FALSE, x, y)) = AluAt(TRUE, x, y)
         /\ WriteAlu(AluAt(x, FALSE, y)) = AluAt(x, TRUE, y)
         /\ IssueAlu(AluAt(x, y, FALSE)) = AluAt(x, y, TRUE)
<1>1. /\ AluStation(alurs) /\ AluStation(AluRsExecute(alurs)) /\ AluStation(WriteAlu(alurs))
      /\ AluStation(WriteAlu(AluRsExecute(alurs)))
  BY AluRanIs, WriteAluIs DEF Inv1, StationInv, StationShape, AluStation
<1>2. WriteAlu(AluRsExecute(alurs)) = AluRsExecute(WriteAlu(alurs))
  <2> DEFINE left == [k \in AluSlots |-> AluLeft(k, AluHeard(k, AluRan(k, alurs[k])))]
             right == [k \in AluSlots |-> AluRan(k, AluLeft(k, AluHeard(k, alurs[k])))]
  <2>1. WriteAlu(AluRsExecute(alurs)) = left
    BY AluRanIs, WriteAluIs
  <2>2. AluRsExecute(WriteAlu(alurs)) = right
    BY AluRanIs, WriteAluIs
  <2>3. left = right
    BY AluRanFirst
  <2> QED BY <2>1, <2>2, <2>3
<1>3. ASSUME NEW a, AluStation(a)
      PROVE  /\ AluRsExecute(IssueAlu(a)) = IssueAlu(AluRsExecute(a))
             /\ WriteAlu(IssueAlu(a)) = IssueAlu(WriteAlu(a))
  <2>1. CASE ~IssuesAlu
    BY <2>1 DEF IssueAlu
  <2>2. CASE IssuesAlu
    <3> DEFINE free == AluFree
               e == AluEntered
    <3>1. free \in AluSlots /\ ~alurs[free].busy /\ \A b : IssueAlu(b) = [b EXCEPT ![free] = e]
      BY <2>2, IssueAluIs
    <3>2. \A v : AluRan(free, v) = v
      BY <3>1 DEF AluRan, AluOldest, AluRsReady
    <3>3. \A v : AluLeft(free, AluHeard(free, v)) = v
      BY <3>1 DEF AluLeft, AluHeard
    <3> HIDE DEF free, e
    <3>4. AluRsExecute(IssueAlu(a)) = IssueAlu(AluRsExecute(a))
      <4> DEFINE b == [a EXCEPT ![free] = e]
                 new == [k \in AluSlots |-> AluRan(k, b[k])]
                 old == [k \in AluSlots |-> AluRan(k, a[k])]
      <4>1. IssueAlu(a) = b /\ \A k \in AluSlots : b[k] = IF k = free THEN e ELSE a[k]
        BY <1>3, <3>1 DEF AluStation
      <4> HIDE DEF b
      <4>2. AluRsExecute(b) = new /\ AluRsExecute(a) = old
        BY AluRanIs
      <4>3. new = [old EXCEPT ![free] = e]
        BY <3>1, <3>2, <4>1
      <4> HIDE DEF new, old
      <4>4. IssueAlu(old) = [old EXCEPT ![free] = e]
        BY <3>1
      <4> QED BY <4>1, <4>2, <4>3, <4>4
    <3>5. WriteAlu(IssueAlu(a)) = IssueAlu(WriteAlu(a))
      <4> DEFINE b == [a EXCEPT ![free] = e]
                 new == [k \in AluSlots |-> AluLeft(k, AluHeard(k, b[k]))]
                 old == [k \in AluSlots |-> AluLeft(k, AluHeard(k, a[k]))]
      <4>1. IssueAlu(a) = b /\ \A k \in AluSlots : b[k] = IF k = free THEN e ELSE a[k]
        BY <1>3, <3>1 DEF AluStation
      <4> HIDE DEF b
      <4>2. WriteAlu(b) = new /\ WriteAlu(a) = old
        BY WriteAluIs
      <4>3. new = [old EXCEPT ![free] = e]
        BY <3>1, <3>3, <4>1
      <4> HIDE DEF new, old
      <4>4. IssueAlu(old) = [old EXCEPT ![free] = e]
        BY <3>1
      <4> QED BY <4>1, <4>2, <4>3, <4>4
    <3> QED BY <3>4, <3>5
  <2> QED BY <2>1, <2>2
<1> QED BY <1>1, <1>2, <1>3 DEF AluAt

----------------------------------------------------------------------------
(* The station of the loads and stores                                     *)

\* What writeback and issue do to the station.
WriteLs(l) == LsRsFree(LsRsListen(l, cdb), FreedTags)
IssueLs(l) ==
  IF IssuesLs THEN LsRsAlloc(l, Instr1, Operand1, Operand2, rob.next_tag) ELSE l

LsAt(e, w, i) ==
  LET executed == IF e THEN LsRsExecute(lsrs) ELSE lsrs
      written == IF w THEN WriteLs(executed) ELSE executed
  IN  IF i THEN IssueLs(written) ELSE written

\* writeback, of one slot that holds v.
LsHeard(k, v) ==
  IF ~(cdb.valid /\ lsrs[k].busy) THEN v
  ELSE [v EXCEPT !.vj = IF lsrs[k].qj = cdb.rob_tag THEN cdb.val ELSE @,
                 !.qj = IF lsrs[k].qj = cdb.rob_tag THEN 0 ELSE @,
                 !.vk = IF lsrs[k].qk = cdb.rob_tag THEN cdb.val ELSE @,
                 !.qk = IF lsrs[k].qk = cdb.rob_tag THEN 0 ELSE @]
LsLeft(k, v) ==
  IF lsrs[k].busy /\ lsrs[k].rob_tag \in FreedTags /\ v.rob_tag = lsrs[k].rob_tag
  THEN [v EXCEPT !.busy = FALSE, !.done = FALSE]
  ELSE v

\* writeback, slot by slot.
LEMMA WriteLsIs ==
  ASSUME NEW l
  PROVE  WriteLs(l) = [k \in LsSlots |-> LsLeft(k, LsHeard(k, l[k]))]
<1> DEFINE b == LsRsListen(l, cdb)
<1>1. b = [k \in LsSlots |-> LsHeard(k, l[k])]
  BY DEF LsRsListen, LsHeard
<1>2. WriteLs(l) = LsRsFree(b, FreedTags)
  BY DEF WriteLs
<1> HIDE DEF b
<1>3. \A k \in LsSlots : b[k] = LsHeard(k, l[k])
  BY <1>1
<1>4. LsRsFree(b, FreedTags) = [k \in LsSlots |-> LsLeft(k, b[k])]
  BY DEF LsRsFree, LsLeft
<1> QED BY <1>2, <1>3, <1>4

\* execute, of one slot that holds v.
LsAddressed(k, v) ==
  IF k \in LsComputesAddr /\ v.busy /\ v.rob_tag = lsrs[k].rob_tag
  THEN [v EXCEPT !.addr = LsAddr(k), !.addr_ready = TRUE]
  ELSE v
LsLoaded(k) == Extend(lsrs[k].type, SbForwardedValue(LsAddr(k), lsrs[k].rob_tag))
LsFinished(k, v, w) ==
  IF k \in LsAnswered
  THEN [w EXCEPT !.mem_result = rq.val, !.done = TRUE, !.mem_requested = FALSE]
  ELSE IF v.busy /\ v.rob_tag = lsrs[k].rob_tag /\ k \in LsCompletes
  THEN [w EXCEPT !.done = TRUE]
  ELSE IF v.busy /\ v.rob_tag = lsrs[k].rob_tag /\ k \in LsForwarded
  THEN [w EXCEPT !.mem_result = LsLoaded(k), !.done = TRUE]
  ELSE w
LsRan(k, v) == LsFinished(k, v, LsAddressed(k, v))

\* execute, slot by slot.
LEMMA LsRanIs == \A l : LsRsExecute(l) = [k \in LsSlots |-> LsRan(k, l[k])]
  BY DEF LsRsExecute, LsRan, LsFinished, LsAddressed, LsLoaded

\* Only entries that are not done execute.
LEMMA LsRanUndone ==
  ASSUME NEW k \in LsSlots, ~(lsrs[k].busy /\ ~lsrs[k].done)
  PROVE  \A v : LsRan(k, v) = v
<1>1. k \notin LsAnswered /\ k \notin LsComputesAddr /\ k \notin LsCompletes /\ k \notin LsForwarded
  BY DEF LsAnswered, LsComputesAddr, LsCompletes, LsForwarded, LsOldest, LsServed, LsFreeLoads,
         LsUndone
<1> QED BY <1>1 DEF LsRan, LsFinished, LsAddressed

LsWhole(v) == v = [x \in LsFields |-> v[x]]

\* What executing changes, field by field.
LsRanFields(k, v, g) ==
  /\ LsWhole(v) => LsWhole(g)
  /\ DOMAIN g = LsFields
  /\ g.addr = IF k \in LsComputesAddr THEN LsAddr(k) ELSE v.addr
  /\ g.addr_ready = IF k \in LsComputesAddr THEN TRUE ELSE v.addr_ready
  /\ g.done = IF k \in LsAnswered \cup LsCompletes \cup LsForwarded THEN TRUE ELSE v.done
  /\ g.mem_requested = IF k \in LsAnswered THEN FALSE ELSE v.mem_requested
  /\ g.mem_result = IF k \in LsAnswered THEN rq.val
                    ELSE IF k \in LsForwarded /\ k \notin LsCompletes THEN LsLoaded(k)
                    ELSE v.mem_result
  /\ \A x \in LsFields \ {"addr", "addr_ready", "done", "mem_requested", "mem_result"} : g[x] = v[x]

\* They are all that changes.
LEMMA LsRanFieldsAre ==
  ASSUME NEW k \in LsSlots, NEW v, DOMAIN v = LsFields, v.busy, v.rob_tag = lsrs[k].rob_tag
  PROVE  LsRanFields(k, v, LsRan(k, v))
<1> DEFINE w == LsAddressed(k, v)
           g == LsFinished(k, v, w)
           computes == k \in LsComputesAddr
           answered == k \in LsAnswered
           completes == k \in LsCompletes
           forwarded == k \in LsForwarded
           a == LsAddr(k)
           loaded == LsLoaded(k)
<1>1. w = IF computes THEN [v EXCEPT !.addr = a, !.addr_ready = TRUE] ELSE v
  BY DEF LsAddressed
<1>2. g = IF answered THEN [w EXCEPT !.mem_result = rq.val, !.done = TRUE, !.mem_requested = FALSE]
          ELSE IF completes THEN [w EXCEPT !.done = TRUE]
          ELSE IF forwarded THEN [w EXCEPT !.mem_result = loaded, !.done = TRUE]
          ELSE w
  BY DEF LsFinished
<1> HIDE DEF w, g, computes, answered, completes, forwarded, a, loaded
<1>3. /\ DOMAIN w = LsFields /\ (LsWhole(v) => LsWhole(w))
      /\ w.addr = IF computes THEN a ELSE v.addr
      /\ w.addr_ready = IF computes THEN TRUE ELSE v.addr_ready
      /\ \A x \in LsFields \ {"addr", "addr_ready"} : w[x] = v[x]
  BY <1>1 DEF LsFields, LsWhole
<1>4. /\ DOMAIN g = LsFields /\ (LsWhole(w) => LsWhole(g))
      /\ g.done = IF answered \/ completes \/ forwarded THEN TRUE ELSE w.done
      /\ g.mem_requested = IF answered THEN FALSE ELSE w.mem_requested
      /\ g.mem_result = IF answered THEN rq.val
                        ELSE IF forwarded /\ ~completes THEN loaded ELSE w.mem_result
      /\ \A x \in LsFields \ {"done", "mem_requested", "mem_result"} : g[x] = w[x]
  <2>1. CASE answered
    BY <1>2, <1>3, <2>1 DEF LsFields, LsWhole
  <2>2. CASE ~answered /\ completes
    BY <1>2, <1>3, <2>2 DEF LsFields, LsWhole
  <2>3. CASE ~answered /\ ~completes /\ forwarded
    BY <1>2, <1>3, <2>3 DEF LsFields, LsWhole
  <2>4. CASE ~answered /\ ~completes /\ ~forwarded
    BY <1>2, <1>3, <2>4 DEF LsFields, LsWhole
  <2> QED BY <2>1, <2>2, <2>3, <2>4
<1>5. /\ w.done = v.done /\ w.mem_requested = v.mem_requested /\ w.mem_result = v.mem_result
      /\ g.addr = w.addr /\ g.addr_ready = w.addr_ready
  BY <1>3, <1>4 DEF LsFields
<1>6. \A x \in LsFields \ {"addr", "addr_ready", "done", "mem_requested", "mem_result"} :
         g[x] = v[x]
  BY <1>3, <1>4
<1>7. LsRanFields(k, v, g)
  BY <1>3, <1>4, <1>5, <1>6
  DEF LsRanFields, computes, answered, completes, forwarded, a, loaded
<1> QED BY <1>7 DEF LsRan, g, w

\* What listening changes.
LEMMA LsHeardFields ==
  ASSUME NEW k \in LsSlots, NEW v, DOMAIN v = LsFields, cdb.valid, lsrs[k].busy
  PROVE  LET h == LsHeard(k, v)
         IN  /\ LsWhole(h) /\ DOMAIN h = LsFields
             /\ h.vj = IF lsrs[k].qj = cdb.rob_tag THEN cdb.val ELSE v.vj
             /\ h.qj = IF lsrs[k].qj = cdb.rob_tag THEN 0 ELSE v.qj
             /\ h.vk = IF lsrs[k].qk = cdb.rob_tag THEN cdb.val ELSE v.vk
             /\ h.qk = IF lsrs[k].qk = cdb.rob_tag THEN 0 ELSE v.qk
             /\ \A x \in LsFields \ {"vj", "qj", "vk", "qk"} : h[x] = v[x]
<1> DEFINE h == LsHeard(k, v)
           j == lsrs[k].qj = cdb.rob_tag
           l == lsrs[k].qk = cdb.rob_tag
<1>1. h = [v EXCEPT !.vj = IF j THEN cdb.val ELSE @, !.qj = IF j THEN 0 ELSE @,
                    !.vk = IF l THEN cdb.val ELSE @, !.qk = IF l THEN 0 ELSE @]
  BY DEF LsHeard
<1> HIDE DEF h, j, l
<1>2. LsWhole(h) /\ DOMAIN h = LsFields
  BY <1>1 DEF LsWhole
<1>3. /\ h.vj = IF j THEN cdb.val ELSE v.vj
      /\ h.qj = IF j THEN 0 ELSE v.qj
      /\ h.vk = IF l THEN cdb.val ELSE v.vk
      /\ h.qk = IF l THEN 0 ELSE v.qk
  BY <1>1 DEF LsFields
<1>4. \A x \in LsFields \ {"vj", "qj", "vk", "qk"} : h[x] = v[x]
  BY <1>1
<1> QED BY <1>2, <1>3, <1>4 DEF h, j, l

\* The load whose result goes to the bus is done.
LEMMA LsWinnerIs ==
  ASSUME Winner.valid, ~AluWins
  PROVE  \E i \in LsSlots : lsrs[i].busy /\ lsrs[i].done /\ lsrs[i].rob_tag = Winner.rob_tag
<1>1. LsRsCandidate # {}
  BY DEF Winner, EmptyBus
<1>2. PICK i \in LsRsCandidate : i = CHOOSE j \in LsRsCandidate : TRUE
  BY <1>1
<1>3. Winner = [EmptyBus EXCEPT !.valid = TRUE, !.rob_tag = lsrs[i].rob_tag,
                                !.val = lsrs[i].mem_result]
  BY <1>1, <1>2 DEF Winner
<1>4. Winner.rob_tag = lsrs[i].rob_tag
  BY <1>3 DEF EmptyBus
<1>5. i \in LsSlots /\ lsrs[i].busy /\ lsrs[i].done
  BY DEF LsRsCandidate, LsOldest
<1> QED BY <1>4, <1>5

\* What executes and what listens change different fields, and what leaves is
\* done.
LEMMA LsRanFirst ==
  ASSUME Inv1, NEW k \in LsSlots
  PROVE  LET e == lsrs[k]
         IN  LsLeft(k, LsHeard(k, LsRan(k, e))) = LsRan(k, LsLeft(k, LsHeard(k, e)))
<1> DEFINE e == lsrs[k]
<1>1. LsShape(e)
  BY DEF Inv1, StationInv, StationShape
<1>2. CASE ~(e.busy /\ ~e.done)
  BY <1>2, LsRanUndone
<1>3. CASE e.busy /\ ~e.done
  <2>1. e.rob_tag \notin FreedTags
    <3> SUFFICES ASSUME e.rob_tag \in FreedTags PROVE FALSE
      OBVIOUS
    <3>1. PICK i \in LsSlots : lsrs[i].busy /\ lsrs[i].done /\ lsrs[i].rob_tag = e.rob_tag
      <4>1. CASE e.rob_tag \in DoneTags
        BY <4>1 DEF DoneTags, LsDoneStores
      <4>2. CASE Winner.valid /\ ~AluWins /\ Winner.rob_tag = e.rob_tag
        BY <4>2, LsWinnerIs
      <4> QED BY <4>1, <4>2 DEF FreedTags
    <3>2. i = k
      BY <1>3, <3>1 DEF Inv1, StationInv, Paired
    <3> QED BY <1>3, <3>1, <3>2
  <2>2. \A v : LsLeft(k, v) = v
    BY <2>1 DEF LsLeft
  <2>3. LsHeard(k, LsRan(k, e)) = LsRan(k, LsHeard(k, e))
    <3>1. CASE ~cdb.valid
      <4>1. \A v : LsHeard(k, v) = v
        BY <3>1 DEF LsHeard
      <4> QED BY <4>1
    <3>2. CASE cdb.valid
      <4> DEFINE g == LsRan(k, e)
                 h == LsHeard(k, e)
                 p == LsHeard(k, g)
                 q == LsRan(k, h)
      <4>1. LsRanFields(k, e, g)
        BY <1>1, <1>3, LsRanFieldsAre DEF LsShape
      <4>2. LET r == h
            IN  /\ LsWhole(r) /\ DOMAIN r = LsFields
                /\ r.vj = IF lsrs[k].qj = cdb.rob_tag THEN cdb.val ELSE e.vj
                /\ r.qj = IF lsrs[k].qj = cdb.rob_tag THEN 0 ELSE e.qj
                /\ r.vk = IF lsrs[k].qk = cdb.rob_tag THEN cdb.val ELSE e.vk
                /\ r.qk = IF lsrs[k].qk = cdb.rob_tag THEN 0 ELSE e.qk
                /\ \A x \in LsFields \ {"vj", "qj", "vk", "qk"} : r[x] = e[x]
        BY <1>1, <1>3, <3>2, LsHeardFields DEF LsShape
      <4>3. DOMAIN g = LsFields
        BY <4>1 DEF LsRanFields
      <4> HIDE DEF g
      <4>4. LET r == p
            IN  /\ LsWhole(r) /\ DOMAIN r = LsFields
                /\ r.vj = IF lsrs[k].qj = cdb.rob_tag THEN cdb.val ELSE g.vj
                /\ r.qj = IF lsrs[k].qj = cdb.rob_tag THEN 0 ELSE g.qj
                /\ r.vk = IF lsrs[k].qk = cdb.rob_tag THEN cdb.val ELSE g.vk
                /\ r.qk = IF lsrs[k].qk = cdb.rob_tag THEN 0 ELSE g.qk
                /\ \A x \in LsFields \ {"vj", "qj", "vk", "qk"} : r[x] = g[x]
        BY <1>3, <3>2, <4>3, LsHeardFields
      <4> HIDE DEF h, p
      <4>5. h.busy = e.busy /\ h.rob_tag = e.rob_tag
        BY <4>2 DEF LsFields
      <4>6. LsRanFields(k, h, q)
        BY <1>3, <4>2, <4>5, LsRanFieldsAre
      <4> HIDE DEF q, e
      <4>7. p.vj = q.vj /\ p.qj = q.qj /\ p.vk = q.vk /\ p.qk = q.qk
        BY <4>1, <4>2, <4>4, <4>6 DEF LsRanFields, LsFields
      <4>8. /\ p.addr = q.addr /\ p.addr_ready = q.addr_ready /\ p.done = q.done
            /\ p.mem_requested = q.mem_requested /\ p.mem_result = q.mem_result
        <5>1. /\ p.addr = g.addr /\ p.addr_ready = g.addr_ready /\ p.done = g.done
              /\ p.mem_requested = g.mem_requested /\ p.mem_result = g.mem_result
          BY <4>4 DEF LsFields
        <5>2. /\ h.addr = e.addr /\ h.addr_ready = e.addr_ready /\ h.done = e.done
              /\ h.mem_requested = e.mem_requested /\ h.mem_result = e.mem_result
          BY <4>2 DEF LsFields
        <5> QED BY <4>1, <4>6, <5>1, <5>2 DEF LsRanFields
      <4>9. \A x \in LsFields \ {"vj", "qj", "vk", "qk", "addr", "addr_ready", "done",
                                 "mem_requested", "mem_result"} : p[x] = q[x]
        BY <4>1, <4>2, <4>4, <4>6 DEF LsRanFields
      <4>10. \A x \in LsFields : p[x] = q[x]
        BY <4>7, <4>8, <4>9
      <4>11. p = q
        BY <4>2, <4>4, <4>6, <4>10 DEF LsWhole, LsRanFields
      <4> QED BY <4>11 DEF p, q, g, h
    <3> QED BY <3>1, <3>2
  <2> QED BY <2>2, <2>3
<1> QED BY <1>2, <1>3

\* issue fills one slot, which is free.
LsFree == CHOOSE i \in LsSlots : ~lsrs[i].busy /\ \A j \in LsSlots : j < i => lsrs[j].busy
LsEntered ==
  [ZeroLsEntry EXCEPT !.busy = TRUE, !.type = Instr1.type,
     !.is_load = Instr1.type \in LoadTypes,
     !.vj = Operand1.val, !.qj = Operand1.tag, !.vk = Operand2.val, !.qk = Operand2.tag,
     !.rob_tag = rob.next_tag, !.imm = Instr1.imm,
     !.addr_ready = Operand1.ready,
     !.addr = IF Operand1.ready THEN Wrap(Operand1.val + Instr1.imm) ELSE 0]

\* issue leaves the other slots, whatever the station looks like by then.
LEMMA IssueLsIs ==
  ASSUME IssuesLs
  PROVE  /\ LsFree \in LsSlots /\ ~lsrs[LsFree].busy
         /\ \A l : IssueLs(l) = [l EXCEPT ![LsFree] = LsEntered]
<1>1. ~LsRsIsFull
  BY DEF IssuesLs, Issues, Stalls
<1>2. \E i \in LsSlots : ~lsrs[i].busy /\ \A j \in LsSlots : j < i => lsrs[j].busy
  BY <1>1, FirstFree, LsRsSizeAssumption DEF LsRsIsFull, LsSlots
<1>3. LsFree \in LsSlots /\ ~lsrs[LsFree].busy
  BY <1>2 DEF LsFree
<1>4. ASSUME NEW l PROVE IssueLs(l) = [l EXCEPT ![LsFree] = LsEntered]
  BY <1>1 DEF IssueLs, LsRsAlloc, LsFree, LsEntered
<1> QED BY <1>3, <1>4

LsStation(l) == DOMAIN l = LsSlots

\* execute, writeback and issue change the station in any order: executing writes
\* the address and the result, listening the operands, and only a done entry leaves.
LEMMA LsPhases ==
  ASSUME Inv1, NEW x \in BOOLEAN, NEW y \in BOOLEAN
  PROVE  /\ LsRsExecute(LsAt(FALSE, x, y)) = LsAt(TRUE, x, y)
         /\ WriteLs(LsAt(x, FALSE, y)) = LsAt(x, TRUE, y)
         /\ IssueLs(LsAt(x, y, FALSE)) = LsAt(x, y, TRUE)
<1>1. /\ LsStation(lsrs) /\ LsStation(LsRsExecute(lsrs)) /\ LsStation(WriteLs(lsrs))
      /\ LsStation(WriteLs(LsRsExecute(lsrs)))
  BY LsRanIs, WriteLsIs DEF Inv1, StationInv, StationShape, LsStation
<1>2. WriteLs(LsRsExecute(lsrs)) = LsRsExecute(WriteLs(lsrs))
  <2> DEFINE left == [k \in LsSlots |-> LsLeft(k, LsHeard(k, LsRan(k, lsrs[k])))]
             right == [k \in LsSlots |-> LsRan(k, LsLeft(k, LsHeard(k, lsrs[k])))]
  <2>1. WriteLs(LsRsExecute(lsrs)) = left
    BY LsRanIs, WriteLsIs
  <2>2. LsRsExecute(WriteLs(lsrs)) = right
    BY LsRanIs, WriteLsIs
  <2>3. left = right
    BY LsRanFirst
  <2> QED BY <2>1, <2>2, <2>3
<1>3. ASSUME NEW l, LsStation(l)
      PROVE  /\ LsRsExecute(IssueLs(l)) = IssueLs(LsRsExecute(l))
             /\ WriteLs(IssueLs(l)) = IssueLs(WriteLs(l))
  <2>1. CASE ~IssuesLs
    BY <2>1 DEF IssueLs
  <2>2. CASE IssuesLs
    <3> DEFINE free == LsFree
               e == LsEntered
               b == [l EXCEPT ![free] = e]
    <3>1. free \in LsSlots /\ ~lsrs[free].busy /\ \A a : IssueLs(a) = [a EXCEPT ![free] = e]
      BY <2>2, IssueLsIs
    <3>2. \A v : LsRan(free, v) = v
      BY <3>1, LsRanUndone
    <3>3. \A v : LsLeft(free, LsHeard(free, v)) = v
      BY <3>1 DEF LsLeft, LsHeard
    <3> HIDE DEF free, e
    <3>4. IssueLs(l) = b /\ \A k \in LsSlots : b[k] = IF k = free THEN e ELSE l[k]
      BY <1>3, <3>1 DEF LsStation
    <3> HIDE DEF b
    <3>5. LsRsExecute(IssueLs(l)) = IssueLs(LsRsExecute(l))
      <4> DEFINE new == [k \in LsSlots |-> LsRan(k, b[k])]
                 old == [k \in LsSlots |-> LsRan(k, l[k])]
      <4>1. LsRsExecute(b) = new /\ LsRsExecute(l) = old
        BY LsRanIs
      <4>2. new = [old EXCEPT ![free] = e]
        BY <3>1, <3>2, <3>4
      <4> HIDE DEF new, old
      <4>3. IssueLs(old) = [old EXCEPT ![free] = e]
        BY <3>1
      <4> QED BY <3>4, <4>1, <4>2, <4>3
    <3>6. WriteLs(IssueLs(l)) = IssueLs(WriteLs(l))
      <4> DEFINE new == [k \in LsSlots |-> LsLeft(k, LsHeard(k, b[k]))]
                 old == [k \in LsSlots |-> LsLeft(k, LsHeard(k, l[k]))]
      <4>1. WriteLs(b) = new /\ WriteLs(l) = old
        BY WriteLsIs
      <4>2. new = [old EXCEPT ![free] = e]
        BY <3>1, <3>3, <3>4
      <4> HIDE DEF new, old
      <4>3. IssueLs(old) = [old EXCEPT ![free] = e]
        BY <3>1
      <4> QED BY <3>4, <4>1, <4>2, <4>3
    <3> QED BY <3>5, <3>6
  <2> QED BY <2>1, <2>2
<1> QED BY <1>1, <1>2, <1>3 DEF LsAt

----------------------------------------------------------------------------
(* The store buffer                                                        *)

\* What commit and issue do to the buffer.
CommitSb(b) == IF CommitsStore THEN SbCommit(b, Head1.tag) ELSE b
IssueSb(b)  == IF IssuesStore THEN SbInsert(b, rob.next_tag, Instr1.type) ELSE b

SbAt(c, e, i) ==
  LET committed == IF c THEN CommitSb(sb) ELSE sb
      executed == IF e THEN LsSbExecute(committed) ELSE committed
  IN  IF i THEN IssueSb(executed) ELSE executed

\* commit, of one slot that holds v.
SbGone(v) ==
  IF CommitsStore /\ v.busy /\ v.rob_tag = Head1.tag THEN [v EXCEPT !.busy = FALSE] ELSE v

\* execute, of one slot that holds v.
SbGets(k, v, stores) ==
  {i \in stores : /\ sb[k].busy /\ sb[k].rob_tag = lsrs[i].rob_tag
                  /\ v.busy /\ v.rob_tag = lsrs[i].rob_tag}
SbRan(k, v) ==
  LET addr == SbGets(k, v, LsPublishesAddr)
      val  == SbGets(k, v, LsCompletes)
  IN  [v EXCEPT !.addr       = IF addr # {} THEN LsAddr(CHOOSE i \in addr : TRUE) ELSE @,
                !.addr_ready = @ \/ addr # {},
                !.val        = IF val # {} THEN lsrs[CHOOSE i \in val : TRUE].vk ELSE @,
                !.val_ready  = @ \/ val # {}]

\* execute, slot by slot.
LEMMA SbRanIs == \A b : LsSbExecute(b) = [k \in SbSlots |-> SbRan(k, b[k])]
<1> SUFFICES ASSUME NEW b PROVE LsSbExecute(b) = [k \in SbSlots |-> SbRan(k, b[k])]
  OBVIOUS
<1> DEFINE of(k, stores) == {i \in stores : SbHolds(b, k, lsrs[i].rob_tag)}
           made(k, addr, val) ==
             [b[k] EXCEPT !.addr       = IF addr # {} THEN LsAddr(CHOOSE i \in addr : TRUE) ELSE @,
                          !.addr_ready = @ \/ addr # {},
                          !.val        = IF val # {} THEN lsrs[CHOOSE i \in val : TRUE].vk ELSE @,
                          !.val_ready  = @ \/ val # {}]
<1>1. LsSbExecute(b) = [k \in SbSlots |-> made(k, of(k, LsPublishesAddr), of(k, LsCompletes))]
  BY DEF LsSbExecute
<1>2. ASSUME NEW k \in SbSlots, NEW stores PROVE of(k, stores) = SbGets(k, b[k], stores)
  BY DEF SbHolds, SbGets
<1>3. ASSUME NEW k \in SbSlots
      PROVE  made(k, SbGets(k, b[k], LsPublishesAddr), SbGets(k, b[k], LsCompletes))
               = SbRan(k, b[k])
  BY DEF SbRan
<1> HIDE DEF of, made
<1>4. \A k \in SbSlots : made(k, of(k, LsPublishesAddr), of(k, LsCompletes)) = SbRan(k, b[k])
  BY <1>2, <1>3
<1> QED BY <1>1, <1>4

\* The slot gets nothing from the station: it was free, or its store has its
\* result.
GetsNothing(k) == \A i \in LsUndone : ~(sb[k].busy /\ sb[k].rob_tag = lsrs[i].rob_tag)

SbFlags(v) == DOMAIN v = SbFields /\ v.addr_ready \in BOOLEAN /\ v.val_ready \in BOOLEAN
SbWhole(v) == v = [x \in SbFields |-> v[x]]

\* Then executing changes nothing of it.
LEMMA SbRanNothing ==
  ASSUME NEW k \in SbSlots, GetsNothing(k), NEW v, SbFlags(v)
  PROVE  LET f == SbRan(k, v)
         IN  DOMAIN f = SbFields /\ SbWhole(f) /\ \A x \in SbFields : f[x] = v[x]
<1> DEFINE f == SbRan(k, v)
           addr == SbGets(k, v, LsPublishesAddr)
           val  == SbGets(k, v, LsCompletes)
           a == LsAddr(CHOOSE i \in addr : TRUE)
           w == lsrs[CHOOSE i \in val : TRUE].vk
<1>1. LsPublishesAddr \subseteq LsUndone /\ LsCompletes \subseteq LsUndone
  BY DEF LsPublishesAddr, LsComputesAddr, LsCompletes
<1>2. addr = {} /\ val = {}
  BY <1>1 DEF SbGets, GetsNothing
<1>3. f = [v EXCEPT !.addr = IF addr # {} THEN a ELSE @, !.addr_ready = @ \/ addr # {},
                    !.val = IF val # {} THEN w ELSE @, !.val_ready = @ \/ val # {}]
  BY DEF SbRan
<1> HIDE DEF addr, val, a, w, f
<1>4. f = [v EXCEPT !.addr = @, !.addr_ready = @ \/ FALSE, !.val = @, !.val_ready = @ \/ FALSE]
  BY <1>2, <1>3
<1>5. (v.addr_ready \/ FALSE) = v.addr_ready /\ (v.val_ready \/ FALSE) = v.val_ready
  BY DEF SbFlags
<1>6. f = [v EXCEPT !.addr = @, !.addr_ready = @, !.val = @, !.val_ready = @]
  BY <1>4, <1>5
<1> QED BY <1>6 DEF SbFlags, SbFields, SbWhole, f

\* Executing leaves the tag of a store and its slot.
LEMMA SbRanKeeps ==
  ASSUME NEW k \in SbSlots, NEW v, DOMAIN v = SbFields
  PROVE  LET f == SbRan(k, v) IN DOMAIN f = SbFields /\ f.busy = v.busy /\ f.rob_tag = v.rob_tag
  BY DEF SbRan, SbFields

\* commit, slot by slot.
LEMMA SbGoneIs ==
  \A b : DOMAIN b = SbSlots /\ CommitsStore => CommitSb(b) = [k \in SbSlots |-> SbGone(b[k])]
  BY DEF CommitSb, SbCommit, SbGone

\* What commits has its result, and what is entered is younger.
LEMMA CommitsOther ==
  ASSUME Inv2
  PROVE  /\ CommitsStore => Head1.tag # rob.next_tag
         /\ CommitsStore => \A i \in LsSlots : lsrs[i].busy => lsrs[i].rob_tag # Head1.tag
<1>1. CommitsStore => /\ rob.head \in RobSlots /\ rob.slots[rob.head].busy
                      /\ rob.slots[rob.head].ready /\ Head1.tag = rob.slots[rob.head].tag
  BY DEF CommitsStore, Commits, RobCanCommit, Head1, Inv2, Inv1, FrontInv, RingOK, RingShape
<1>2. CommitsStore => Head1.tag < rob.next_tag
  BY <1>1, StoreTags
<1>3. rob.next_tag \in Nat
  BY StoreTags
<1>4. ASSUME CommitsStore, NEW i \in LsSlots, lsrs[i].busy, lsrs[i].rob_tag = Head1.tag
      PROVE  FALSE
  <2>1. PICK s \in RobSlots : Awaits(rob, s, lsrs[i].rob_tag, TRUE)
    BY <1>4 DEF Inv2, Inv1, StationInv, Paired
  <2>2. s = rob.head
    BY <1>1, <1>4, <2>1, TagsUnique DEF Awaits, Inv2, Inv1, FrontInv
  <2> QED BY <1>1, <1>4, <2>1, <2>2 DEF Awaits
<1> QED BY <1>2, <1>3, <1>4

\* A store that commits gets nothing from the station.
LEMMA SbGoneFirst ==
  ASSUME Inv2, NEW k \in SbSlots
  PROVE  SbGone(SbRan(k, sb[k])) = SbRan(k, SbGone(sb[k]))
<1> DEFINE e == sb[k]
           f == SbRan(k, e)
           gone == [e EXCEPT !.busy = FALSE]
           p == SbRan(k, gone)
<1>1. SbFlags(e)
  BY DEF Inv2, MemoryInv, SbShape, SbFlags
<1>2. f.busy = e.busy /\ f.rob_tag = e.rob_tag
  BY <1>1, SbRanKeeps DEF SbFlags
<1>3. CASE ~(CommitsStore /\ e.busy /\ e.rob_tag = Head1.tag)
  BY <1>2, <1>3 DEF SbGone
<1>4. CASE CommitsStore /\ e.busy /\ e.rob_tag = Head1.tag
  <2>1. GetsNothing(k)
    BY <1>4, CommitsOther DEF GetsNothing, LsUndone
  <2>2. DOMAIN f = SbFields /\ \A x \in SbFields : f[x] = e[x]
    BY <1>1, <2>1, SbRanNothing
  <2>3. /\ SbFlags(gone) /\ gone.busy = FALSE
        /\ \A x \in SbFields \ {"busy"} : gone[x] = e[x]
    BY <1>1 DEF SbFlags, SbFields
  <2> HIDE DEF gone
  <2>4. DOMAIN p = SbFields /\ SbWhole(p) /\ \A x \in SbFields : p[x] = gone[x]
    BY <2>1, <2>3, SbRanNothing
  <2> HIDE DEF f
  <2> DEFINE q == [f EXCEPT !.busy = FALSE]
  <2>5. /\ SbWhole(q) /\ q.busy = FALSE
        /\ \A x \in SbFields \ {"busy"} : q[x] = f[x]
    BY <2>2 DEF SbFields, SbWhole
  <2> HIDE DEF p, q
  <2>6. p = q
    <3>1. p.busy = q.busy
      BY <2>3, <2>4, <2>5 DEF SbFields
    <3>2. \A x \in SbFields : p[x] = q[x]
      BY <2>2, <2>3, <2>4, <2>5, <3>1
    <3> QED BY <2>4, <2>5, <3>2 DEF SbWhole
  <2>7. SbGone(f) = q
    BY <1>2, <1>4 DEF SbGone, q, f
  <2>8. SbRan(k, SbGone(e)) = p
    BY <1>4 DEF SbGone, p, gone
  <2> QED BY <2>6, <2>7, <2>8 DEF f
<1> QED BY <1>3, <1>4

\* issue fills one slot, which is free.
SbFree == CHOOSE i \in SbSlots : ~sb[i].busy /\ \A j \in SbSlots : j < i => sb[j].busy
SbEntered == [ZeroSbEntry EXCEPT !.busy = TRUE, !.rob_tag = rob.next_tag, !.type = Instr1.type]

\* issue leaves the other slots, whatever the buffer looks like by then.
LEMMA IssueSbIs ==
  ASSUME IssuesStore
  PROVE  /\ SbFree \in SbSlots /\ ~sb[SbFree].busy
         /\ \A b : IssueSb(b) = [b EXCEPT ![SbFree] = SbEntered]
<1>1. ~SbIsFull
  BY DEF IssuesStore, Issues, Stalls
<1>2. \E i \in SbSlots : ~sb[i].busy /\ \A j \in SbSlots : j < i => sb[j].busy
  BY <1>1, FirstFree, SbSizeAssumption DEF SbIsFull, SbSlots
<1>3. SbFree \in SbSlots /\ ~sb[SbFree].busy
  BY <1>2 DEF SbFree
<1>4. ASSUME NEW b PROVE IssueSb(b) = [b EXCEPT ![SbFree] = SbEntered]
  BY <1>1 DEF IssueSb, SbInsert, SbFree, SbEntered
<1> QED BY <1>3, <1>4

SbBuffer(b) == DOMAIN b = SbSlots

\* commit, execute and issue change the store buffer in any order: a store that
\* commits gets nothing more, and issue fills a slot that neither touches.
LEMMA SbPhases ==
  ASSUME Inv2, NEW x \in BOOLEAN, NEW y \in BOOLEAN
  PROVE  /\ CommitSb(SbAt(FALSE, x, y)) = SbAt(TRUE, x, y)
         /\ LsSbExecute(SbAt(x, FALSE, y)) = SbAt(x, TRUE, y)
         /\ IssueSb(SbAt(x, y, FALSE)) = SbAt(x, y, TRUE)
<1>1. /\ SbBuffer(sb) /\ SbBuffer(LsSbExecute(sb)) /\ SbBuffer(CommitSb(sb))
      /\ SbBuffer(CommitSb(LsSbExecute(sb)))
  BY SbRanIs DEF Inv2, MemoryInv, SbShape, SbBuffer, CommitSb, SbCommit
<1>2. CommitSb(LsSbExecute(sb)) = LsSbExecute(CommitSb(sb))
  <2>1. CASE ~CommitsStore
    BY <2>1 DEF CommitSb
  <2>2. CASE CommitsStore
    <3> DEFINE left == [k \in SbSlots |-> SbGone(SbRan(k, sb[k]))]
               right == [k \in SbSlots |-> SbRan(k, SbGone(sb[k]))]
    <3>1. CommitSb(LsSbExecute(sb)) = left
      BY <2>2, SbRanIs, SbGoneIs
    <3>2. LsSbExecute(CommitSb(sb)) = right
      BY <1>1, <2>2, SbRanIs, SbGoneIs DEF SbBuffer
    <3>3. left = right
      BY SbGoneFirst
    <3> QED BY <3>1, <3>2, <3>3
  <2> QED BY <2>1, <2>2
<1>3. ASSUME NEW b, SbBuffer(b)
      PROVE  /\ LsSbExecute(IssueSb(b)) = IssueSb(LsSbExecute(b))
             /\ CommitSb(IssueSb(b)) = IssueSb(CommitSb(b))
  <2>1. CASE ~IssuesStore
    BY <2>1 DEF IssueSb
  <2>2. CASE IssuesStore
    <3> DEFINE free == SbFree
               e == SbEntered
               c == [b EXCEPT ![free] = e]
    <3>1. free \in SbSlots /\ ~sb[free].busy /\ \A a : IssueSb(a) = [a EXCEPT ![free] = e]
      BY <2>2, IssueSbIs
    <3>2. SbRan(free, e) = e
      <4>1. SbFlags(e) /\ SbWhole(e)
        BY DEF SbFlags, SbEntered, ZeroSbEntry, SbFields, SbWhole
      <4>2. GetsNothing(free)
        BY <3>1 DEF GetsNothing
      <4> HIDE DEF free, e
      <4>3. /\ SbWhole(SbRan(free, e))
            /\ \A x1 \in SbFields : SbRan(free, e)[x1] = e[x1]
        BY <3>1, <4>1, <4>2, SbRanNothing
      <4> QED BY <4>1, <4>3 DEF SbWhole
    <3>3. SbGone(e) = e
      <4>1. e.rob_tag = rob.next_tag
        BY DEF SbEntered, ZeroSbEntry
      <4> HIDE DEF e
      <4> QED BY <4>1, CommitsOther DEF SbGone
    <3> HIDE DEF free, e
    <3>4. /\ IssueSb(b) = c /\ DOMAIN c = SbSlots
          /\ \A k \in SbSlots : c[k] = IF k = free THEN e ELSE b[k]
      BY <1>3, <3>1 DEF SbBuffer
    <3> HIDE DEF c
    <3>5. LsSbExecute(IssueSb(b)) = IssueSb(LsSbExecute(b))
      <4> DEFINE new == [k \in SbSlots |-> SbRan(k, c[k])]
                 old == [k \in SbSlots |-> SbRan(k, b[k])]
      <4>1. LsSbExecute(c) = new /\ LsSbExecute(b) = old
        BY SbRanIs
      <4>2. new = [old EXCEPT ![free] = e]
        BY <3>1, <3>2, <3>4
      <4> HIDE DEF new, old
      <4>3. IssueSb(old) = [old EXCEPT ![free] = e]
        BY <3>1
      <4> QED BY <3>4, <4>1, <4>2, <4>3
    <3>6. CommitSb(IssueSb(b)) = IssueSb(CommitSb(b))
      <4>1. CASE ~CommitsStore
        BY <4>1 DEF CommitSb
      <4>2. CASE CommitsStore
        <5> DEFINE new == [k \in SbSlots |-> SbGone(c[k])]
                   old == [k \in SbSlots |-> SbGone(b[k])]
        <5>1. CommitSb(c) = new /\ CommitSb(b) = old
          BY <1>3, <3>4, <4>2, SbGoneIs DEF SbBuffer
        <5>2. new = [old EXCEPT ![free] = e]
          BY <3>1, <3>3, <3>4
        <5> HIDE DEF new, old
        <5>3. IssueSb(old) = [old EXCEPT ![free] = e]
          BY <3>1
        <5> QED BY <3>4, <5>1, <5>2, <5>3
      <4> QED BY <4>1, <4>2
    <3> QED BY <3>5, <3>6
  <2> QED BY <2>1, <2>2
<1> QED BY <1>1, <1>2, <1>3 DEF SbAt

----------------------------------------------------------------------------
(* The memory                                                              *)

\* What commit and execute do to the memory.
CommitDmem(d) ==
  IF CommitsStore
  THEN DmemIssueWrite(d, Head1.store_addr, Head1.store_value, Head1.type)
  ELSE d
ExecDmem(d) == LsDmemExecute(DmemDecreaseLeftCycles(d))

DmemAt(c, e) ==
  LET committed == IF c THEN CommitDmem(DmemNext) ELSE DmemNext
  IN  IF e THEN ExecDmem(committed) ELSE committed

\* The parts of the memory that execute changes.
RqCounted ==
  IF ~rq.valid THEN rq
  ELSE IF rq.cycles_left > 0 THEN [rq EXCEPT !.cycles_left = rq.cycles_left - 1]
  ELSE IF rq.is_load
  THEN [rq EXCEPT !.val = ReadMem(mem, rq.type, rq.addr), !.read_ready = TRUE, !.valid = FALSE]
  ELSE [rq EXCEPT !.valid = FALSE]
RqConsumed == IF rq.read_ready THEN [RqCounted EXCEPT !.read_ready = FALSE] ELSE RqCounted
MemStored ==
  IF rq.valid /\ ~(rq.cycles_left > 0) /\ ~rq.is_load THEN WriteMem(mem, rq.type, rq.addr, rq.val)
  ELSE mem
LoadAsked ==
  IF LsOldest(LsForMemory) = {} THEN NoRq
  ELSE IF DmemIsBusy THEN NoRq
  ELSE LET i == CHOOSE l \in LsOldest(LsForMemory) : TRUE
       IN  [valid |-> TRUE, is_load |-> TRUE, read_ready |-> FALSE, type |-> lsrs[i].type,
            addr |-> LsAddr(i), val |-> 0, cycles_left |-> DmemDelay, rob_tag |-> lsrs[i].rob_tag]

\* execute has nothing to do with the store that commits.
LEMMA ExecDmemIs ==
  ASSUME NEW s
  PROVE  ExecDmem([rq |-> rq, mem |-> mem, pending_load |-> NoRq, pending_store |-> s])
           = [rq |-> RqConsumed, mem |-> MemStored, pending_load |-> LoadAsked, pending_store |-> s]
<1> DEFINE d == [rq |-> rq, mem |-> mem, pending_load |-> NoRq, pending_store |-> s]
           a == DmemDecreaseLeftCycles(d)
           b == DmemConsumeRead(a)
<1>1. a = [rq |-> RqCounted, mem |-> MemStored, pending_load |-> NoRq, pending_store |-> s]
  <2>1. CASE ~rq.valid
    BY <2>1 DEF DmemDecreaseLeftCycles, RqCounted, MemStored
  <2>2. CASE rq.valid /\ rq.cycles_left > 0
    <3> DEFINE x == [rq EXCEPT !.cycles_left = rq.cycles_left - 1]
    <3>1. a = [d EXCEPT !.rq = x]
      BY <2>2 DEF DmemDecreaseLeftCycles
    <3>2. RqCounted = x /\ MemStored = mem
      BY <2>2 DEF RqCounted, MemStored
    <3> HIDE DEF a, x
    <3> QED BY <3>1, <3>2
  <2>3. CASE rq.valid /\ ~(rq.cycles_left > 0) /\ rq.is_load
    <3> DEFINE v == ReadMem(mem, rq.type, rq.addr)
               x == [rq EXCEPT !.val = v, !.read_ready = TRUE, !.valid = FALSE]
    <3>1. a = [d EXCEPT !.rq = x]
      <4>1. a = [d EXCEPT !.rq.val = ReadMem(d.mem, rq.type, rq.addr), !.rq.read_ready = TRUE,
                          !.rq.valid = FALSE]
        BY <2>3 DEF DmemDecreaseLeftCycles
      <4>2. ReadMem(d.mem, rq.type, rq.addr) = v
        OBVIOUS
      <4> HIDE DEF v
      <4> QED BY <4>1, <4>2
    <3>2. RqCounted = x /\ MemStored = mem
      BY <2>3 DEF RqCounted, MemStored
    <3> HIDE DEF a, x
    <3> QED BY <3>1, <3>2
  <2>4. CASE rq.valid /\ ~(rq.cycles_left > 0) /\ ~rq.is_load
    <3> DEFINE m == WriteMem(mem, rq.type, rq.addr, rq.val)
               x == [rq EXCEPT !.valid = FALSE]
    <3>1. a = [d EXCEPT !.mem = m, !.rq = x]
      <4>1. a = [d EXCEPT !.mem = WriteMem(d.mem, rq.type, rq.addr, rq.val), !.rq.valid = FALSE]
        BY <2>4 DEF DmemDecreaseLeftCycles
      <4>2. WriteMem(d.mem, rq.type, rq.addr, rq.val) = m
        OBVIOUS
      <4> HIDE DEF m
      <4> QED BY <4>1, <4>2
    <3>2. RqCounted = x /\ MemStored = m
      BY <2>4 DEF RqCounted, MemStored
    <3> HIDE DEF a, x, m
    <3> QED BY <3>1, <3>2
  <2> QED BY <2>1, <2>2, <2>3, <2>4
<1> HIDE DEF a
<1>2. b = [rq |-> RqConsumed, mem |-> MemStored, pending_load |-> NoRq, pending_store |-> s]
  <2>1. CASE rq.read_ready
    <3> DEFINE x == RqCounted
               y == [x EXCEPT !.read_ready = FALSE]
    <3>1. b = [a EXCEPT !.rq = y]
      BY <1>1, <2>1 DEF DmemConsumeRead
    <3>2. RqConsumed = y
      BY <2>1 DEF RqConsumed
    <3> HIDE DEF y
    <3> QED BY <1>1, <3>1, <3>2
  <2>2. CASE ~rq.read_ready
    BY <1>1, <2>2 DEF DmemConsumeRead, RqConsumed
  <2> QED BY <2>1, <2>2
<1>3. ExecDmem(d) = IF LsOldest(LsForMemory) = {} THEN b
                    ELSE LET i == CHOOSE l \in LsOldest(LsForMemory) : TRUE
                         IN  DmemIssueRead(b, LsAddr(i), lsrs[i].type, lsrs[i].rob_tag)
  BY DEF ExecDmem, LsDmemExecute, a
<1> HIDE DEF b
<1>4. CASE LsOldest(LsForMemory) = {}
  BY <1>2, <1>3, <1>4 DEF LoadAsked
<1>5. CASE LsOldest(LsForMemory) # {} /\ DmemIsBusy
  BY <1>2, <1>3, <1>5 DEF LoadAsked, DmemIssueRead
<1>6. CASE LsOldest(LsForMemory) # {} /\ ~DmemIsBusy
  <2> DEFINE i == CHOOSE l \in LsOldest(LsForMemory) : TRUE
             q == [valid |-> TRUE, is_load |-> TRUE, read_ready |-> FALSE, type |-> lsrs[i].type,
                   addr |-> LsAddr(i), val |-> 0, cycles_left |-> DmemDelay,
                   rob_tag |-> lsrs[i].rob_tag]
  <2>1. ~b.pending_load.valid
    BY <1>2 DEF NoRq
  <2>2. ExecDmem(d) = [b EXCEPT !.pending_load = q]
    BY <1>3, <1>6, <2>1 DEF DmemIssueRead
  <2>3. LoadAsked = q
    BY <1>6 DEF LoadAsked
  <2> HIDE DEF q, d
  <2>4. ExecDmem(d) = [rq |-> RqConsumed, mem |-> MemStored, pending_load |-> LoadAsked,
                       pending_store |-> s]
    BY <1>2, <2>2, <2>3
  <2> QED BY <2>4 DEF d
<1> QED BY <1>4, <1>5, <1>6

\* commit asks for a store and execute for a load: each has its own request, and
\* whether a store is accepted was settled before the cycle.
LEMMA DmemPhases ==
  ASSUME NEW x \in BOOLEAN
  PROVE  /\ DmemAcceptsWrite(DmemAt(FALSE, x)) <=> ~DmemIsBusy
         /\ CommitDmem(DmemAt(FALSE, x)) = DmemAt(TRUE, x)
         /\ ExecDmem(DmemAt(x, FALSE)) = DmemAt(x, TRUE)
<1> DEFINE s == [valid |-> TRUE, is_load |-> FALSE, read_ready |-> FALSE, type |-> Head1.type,
                 addr |-> Head1.store_addr, val |-> Head1.store_value, cycles_left |-> 0,
                 rob_tag |-> 0]
           d(v) == [rq |-> rq, mem |-> mem, pending_load |-> NoRq, pending_store |-> v]
           e(v) == [rq |-> RqConsumed, mem |-> MemStored, pending_load |-> LoadAsked,
                    pending_store |-> v]
<1>1. DmemNext = d(NoRq)
  BY DEF DmemNext
<1>2. CASE ~CommitsStore
  <2>1. \A v : CommitDmem(v) = v
    BY <1>2 DEF CommitDmem
  <2>2. DmemAt(FALSE, FALSE) = d(NoRq) /\ DmemAt(FALSE, TRUE) = e(NoRq)
    BY <1>1, ExecDmemIs DEF DmemAt
  <2>3. DmemAcceptsWrite(d(NoRq)) <=> ~DmemIsBusy
    BY DEF DmemAcceptsWrite, NoRq
  <2>4. DmemAcceptsWrite(e(NoRq)) <=> ~DmemIsBusy
    BY DEF DmemAcceptsWrite, NoRq
  <2> QED BY <2>1, <2>2, <2>3, <2>4 DEF DmemAt
<1>3. CASE CommitsStore
  <2>1. \A v : CommitDmem(v) = [v EXCEPT !.pending_store = s]
    BY <1>3 DEF CommitDmem, DmemIssueWrite
  <2> HIDE DEF s
  <2>2. \A v : ExecDmem(d(v)) = e(v)
    BY ExecDmemIs
  <2>3. CommitDmem(d(NoRq)) = d(s) /\ CommitDmem(e(NoRq)) = e(s)
    BY <2>1
  <2>4. DmemAcceptsWrite(d(NoRq)) <=> ~DmemIsBusy
    BY DEF DmemAcceptsWrite, NoRq
  <2>5. DmemAcceptsWrite(e(NoRq)) <=> ~DmemIsBusy
    BY DEF DmemAcceptsWrite, NoRq
  <2> HIDE DEF d, e
  <2> QED BY <1>1, <2>2, <2>3, <2>4, <2>5 DEF DmemAt
<1> QED BY <1>2, <1>3

----------------------------------------------------------------------------
(* The predictor                                                           *)

\* What fetch and commit do to the predictor.
FetchBp(b, taken) == IF Predicts THEN BpPredict(b, pc, taken) ELSE b
CommitBp(b) ==
  IF CommitsBranch /\ BpUpdateAsserts(b, Head1.pc, Head1.branch_pred_context)
  THEN BpUpdate(b)
  ELSE b

BpAt(f, c, taken) ==
  LET predicted == IF f THEN FetchBp(bp, taken) ELSE bp
  IN  IF c THEN CommitBp(predicted) ELSE predicted

\* Predicting is for the back of the queue of checkpoints and updating for its
\* front, and neither changes the token that the other hands out or expects.
LEMMA BpPhases ==
  ASSUME PipelineInvariant, NEW taken \in BOOLEAN, NEW x \in BOOLEAN
  PROVE  /\ FetchBp(BpAt(FALSE, x, taken), taken) = BpAt(TRUE, x, taken)
         /\ CommitBp(BpAt(x, FALSE, taken)) = BpAt(x, TRUE, taken)
         /\ Predicts => FreshToken(BpAt(FALSE, x, taken)) = FreshToken(bp)
         /\ CommitsBranch => BpUpdateAsserts(BpAt(x, FALSE, taken), Head1.pc,
                                             Head1.branch_pred_context)
<1> DEFINE c == bp.checkpoints
           next == bp.next_token
           last == [token |-> next, pc |-> pc, final_prediction |-> taken]
<1>1. PICK M \in Nat : QueueOf(bp, M) /\ (Predicts => M < MaxToken)
  BY CheckpointsCount DEF PipelineInvariant
<1>2. TokensInOrder(bp)
  BY DEF PipelineInvariant
<1>3. CommitsBranch => c # << >> /\ M > 0
  <2>1. CommitsBranch => c # << >>
    BY PredictorIsReady
  <2>2. M = 0 => c = << >>
    BY <1>1 DEF QueueOf
  <2> QED BY <2>1, <2>2
<1>4. c = [k \in 1 .. M |-> c[k]]
  BY <1>1 DEF QueueOf
<1>5. Predicts => FreshToken(bp) = next
  BY <1>1, <1>2, FreshIsNext
<1>6. Predicts => FetchBp(bp, taken) = [checkpoints |-> Append(c, last),
                                        next_token |-> TokenAfter(next)]
  BY <1>5 DEF FetchBp, BpPredict
<1> HIDE DEF c, last, next
<1>7. /\ Append(c, last) = [k \in 1 .. M + 1 |-> IF k <= M THEN c[k] ELSE last]
      /\ M > 0 => /\ Head(c) = c[1] /\ Tail(c) = [k \in 1 .. M - 1 |-> c[k + 1]]
  BY <1>4, SequenceIs
<1> DEFINE d == Append(c, last)
<1>8. M > 0 => d # << >> /\ Head(d) = c[1] /\ Tail(d) = [k \in 1 .. M |-> d[k + 1]]
  <2>1. d = [k \in 1 .. M + 1 |-> d[k]] /\ d[1] = IF 1 <= M THEN c[1] ELSE last
    BY <1>7
  <2> HIDE DEF d
  <2>2. d # << >> /\ Head(d) = d[1] /\ Tail(d) = [k \in 1 .. (M + 1) - 1 |-> d[k + 1]]
    BY <2>1, SequenceIs
  <2>3. (M + 1) - 1 = M
    OBVIOUS
  <2> QED BY <2>1, <2>2, <2>3
<1>9. CommitsBranch => /\ BpUpdateAsserts(bp, Head1.pc, Head1.branch_pred_context)
                       /\ BpUpdateAsserts(FetchBp(bp, taken), Head1.pc, Head1.branch_pred_context)
  <2> SUFFICES ASSUME CommitsBranch
               PROVE  /\ BpUpdateAsserts(bp, Head1.pc, Head1.branch_pred_context)
                      /\ BpUpdateAsserts(FetchBp(bp, taken), Head1.pc, Head1.branch_pred_context)
    OBVIOUS
  <2>1. BpUpdateAsserts(FetchBp(bp, taken), Head1.pc, Head1.branch_pred_context)
    BY CommittedCheckpoints DEF BpAgrees, BpFetched, FetchBp, PipelineInvariant, Inv1
  <2>2. CASE ~Predicts
    BY <2>1, <2>2 DEF FetchBp
  <2>3. CASE Predicts
    <3>1. FetchBp(bp, taken).checkpoints = d
      BY <1>6, <2>3
    <3>2. Head(d) = Head(c) /\ c # << >>
      BY <1>3, <1>7, <1>8
    <3> HIDE DEF d
    <3> QED BY <2>1, <3>1, <3>2 DEF BpUpdateAsserts, c
  <2> QED BY <2>2, <2>3
<1>10. CommitsBranch => CommitBp(bp) = BpUpdate(bp)
                        /\ CommitBp(FetchBp(bp, taken)) = BpUpdate(FetchBp(bp, taken))
  BY <1>9 DEF CommitBp
<1>11. ~CommitsBranch => \A b : CommitBp(b) = b
  BY DEF CommitBp
<1>12. Predicts => FreshToken(CommitBp(bp)) = next
  <2>1. CASE ~CommitsBranch
    BY <1>5, <1>11, <2>1
  <2>2. CASE Predicts /\ CommitsBranch
    <3>1. TokensInOrder(BpUpdate(bp)) /\ QueueOf(BpUpdate(bp), M - 1)
      BY <1>1, <1>2, <1>3, <2>2, TokensUpdate
    <3>2. BpUpdate(bp).next_token = next
      BY <1>1 DEF BpUpdate, QueueOf, next
    <3>3. M - 1 \in Nat /\ M - 1 < MaxToken
      BY <1>1, <1>3, <2>2, MaxTokenAssumption
    <3> QED BY <1>10, <2>2, <3>1, <3>2, <3>3, FreshIsNext
  <2> QED BY <2>1, <2>2
<1>13. FetchBp(CommitBp(bp), taken) = CommitBp(FetchBp(bp, taken))
  <2>1. CASE ~CommitsBranch
    BY <1>11, <2>1
  <2>2. CASE ~Predicts
    BY <2>2 DEF FetchBp
  <2>3. CASE CommitsBranch /\ Predicts
    <3> DEFINE b == BpUpdate(bp)
               e == Tail(c)
    <3>1. b.checkpoints = e /\ FreshToken(b) = next
      BY <1>1, <1>10, <1>12, <2>3 DEF BpUpdate, QueueOf, c
    <3> HIDE DEF b
    <3>2. FetchBp(b, taken) = [checkpoints |-> Append(e, last), next_token |-> TokenAfter(next)]
      BY <2>3, <3>1 DEF FetchBp, BpPredict, last
    <3>3. BpUpdate(FetchBp(bp, taken)) = [checkpoints |-> Tail(d), next_token |-> TokenAfter(next)]
      <4> DEFINE g == FetchBp(bp, taken)
                 t == TokenAfter(next)
      <4>1. g = [checkpoints |-> d, next_token |-> t]
        BY <1>6, <2>3
      <4>2. BpUpdate(g) = [g EXCEPT !.checkpoints = Tail(g.checkpoints)]
        BY DEF BpUpdate
      <4> HIDE DEF g, t, d
      <4>3. BpUpdate(g) = [checkpoints |-> Tail(d), next_token |-> t]
        BY <4>1, <4>2
      <4> QED BY <4>3 DEF g, t
    <3>4. Append(e, last) = Tail(d)
      <4>1. e = [k \in 1 .. M - 1 |-> e[k]] /\ M - 1 \in Nat
            /\ \A k \in 1 .. M - 1 : e[k] = c[k + 1]
        BY <1>3, <1>7, <2>3
      <4> HIDE DEF e
      <4>2. Append(e, last) = [k \in 1 .. (M - 1) + 1 |-> IF k <= M - 1 THEN e[k] ELSE last]
        BY <4>1, SequenceIs
      <4>3. Append(e, last) = [k \in 1 .. M |-> IF k <= M - 1 THEN e[k] ELSE last]
        <5>1. (M - 1) + 1 = M
          OBVIOUS
        <5> QED BY <4>2, <5>1
      <4>4. \A k \in 1 .. M : d[k + 1] = IF k + 1 <= M THEN c[k + 1] ELSE last
        BY <1>7
      <4>5. Tail(d) = [k \in 1 .. M |-> d[k + 1]]
        BY <1>3, <1>8, <2>3
      <4> HIDE DEF d
      <4>6. \A k \in 1 .. M : d[k + 1] = IF k <= M - 1 THEN e[k] ELSE last
        <5> SUFFICES ASSUME NEW k \in 1 .. M PROVE d[k + 1] = IF k <= M - 1 THEN e[k] ELSE last
          OBVIOUS
        <5>1. k <= M - 1 <=> k + 1 <= M
          OBVIOUS
        <5>2. k <= M - 1 => k \in 1 .. M - 1
          OBVIOUS
        <5> QED BY <4>1, <4>4, <5>1, <5>2
      <4> QED BY <4>3, <4>5, <4>6
    <3> QED BY <1>10, <2>3, <3>2, <3>3, <3>4 DEF b
  <2> QED BY <2>1, <2>2, <2>3
<1> QED BY <1>5, <1>9, <1>12, <1>13 DEF BpAt

----------------------------------------------------------------------------
(* The copy as a whole                                                     *)

Pack(r, a, g, al, ls, s, d, b, c, p, f, ra, re, h, ab, q) ==
  [rob |-> r, rat |-> a, regs |-> g, alurs |-> al, lsrs |-> ls, sb |-> s, dmem |-> d, bp |-> b,
   cdb |-> c, pc |-> p, fetched |-> f, ras_predicted_target |-> ra, redirect |-> re,
   halted |-> h, aborted |-> ab, squash |-> q]

IsCopy(n) == n = [x \in CopyFields |-> n[x]]

\* A copy is made of its parts.
LEMMA PackIs ==
  ASSUME NEW n, IsCopy(n)
  PROVE  n = Pack(n.rob, n.rat, n.regs, n.alurs, n.lsrs, n.sb, n.dmem, n.bp, n.cdb, n.pc,
                  n.fetched, n.ras_predicted_target, n.redirect, n.halted, n.aborted, n.squash)
  BY DEF IsCopy, Pack, CopyFields

\* What commit does to the parts that it alone writes, or only adds to.
CommitRegs(g) == IF CommitsReg THEN WriteReg(g, Head1.dest_reg, Head1.val) ELSE g
CommitAborted(ab) == IF Commits THEN ab \/ FALSE ELSE ab
CommitSquash(q) ==
  IF Squashes
  THEN [pending |-> TRUE, tag |-> Head1.tag,
        pc |-> IF Head1.branch_actual_taken THEN Head1.branch_target ELSE Wrap(Head1.pc + 4)]
  ELSE q

\* Giving a copy the parts that commit writes.
Recommitted(n, d, g, a, b, ab, r, s, q) ==
  [n EXCEPT !.dmem = d, !.regs = g, !.rat = a, !.bp = b, !.aborted = ab, !.rob = r, !.sb = s,
            !.squash = q]

\* The others stay.
LEMMA RecommittedIs ==
  ASSUME NEW n, DOMAIN n = CopyFields, NEW d, NEW g, NEW a, NEW b, NEW ab, NEW r, NEW s, NEW q
  PROVE  LET m == Recommitted(n, d, g, a, b, ab, r, s, q)
         IN  /\ IsCopy(m) /\ m.rob = r /\ m.rat = a /\ m.regs = g /\ m.sb = s /\ m.dmem = d
             /\ m.bp = b /\ m.aborted = ab /\ m.squash = q
             /\ m.alurs = n.alurs /\ m.lsrs = n.lsrs /\ m.cdb = n.cdb /\ m.pc = n.pc
             /\ m.fetched = n.fetched /\ m.ras_predicted_target = n.ras_predicted_target
             /\ m.redirect = n.redirect /\ m.halted = n.halted
  BY DEF Recommitted, IsCopy, CopyFields

\* commit changes each part from itself and from the current state, once the head,
\* the memory and the predictor are what it needs to find.
LEMMA CommitPacked ==
  ASSUME NEW r, NEW a, NEW g, NEW al, NEW ls, NEW s, NEW d, NEW b, NEW c, NEW p, NEW f, NEW ra,
         NEW re, NEW h, NEW ab, NEW q,
         r.head = rob.head, DmemAcceptsWrite(d) <=> ~DmemIsBusy,
         CommitsBranch => BpUpdateAsserts(b, Head1.pc, Head1.branch_pred_context)
  PROVE  Commit(Pack(r, a, g, al, ls, s, d, b, c, p, f, ra, re, h, ab, q))
           = Pack(CommitRob(r), CommitRat(a), CommitRegs(g), al, ls, CommitSb(s), CommitDmem(d),
                  CommitBp(b), c, p, f, ra, re, h, CommitAborted(ab), CommitSquash(q))
<1> DEFINE n == Pack(r, a, g, al, ls, s, d, b, c, p, f, ra, re, h, ab, q)
<1>1. /\ n.rob = r /\ n.dmem = d /\ n.bp = b
      /\ RobHeadEntry(n.rob) = Head1 /\ (RobCanCommit(n.rob) <=> RobCanCommit(rob))
  BY DEF Pack, RobHeadEntry, RobCanCommit, Head1
<1>2. CASE ~Commits
  <2>1. Commit(n) = n
    BY <1>1, <1>2 DEF Commit, Commits
  <2> QED BY <1>2, <2>1 DEF CommitRob, CommitRat, CommitRegs, CommitSb, CommitDmem, CommitBp,
                            CommitAborted, CommitSquash, CommitsReg, CommitsStore, CommitsBranch,
                            Squashes
<1>3. CASE Commits
  <2> DEFINE xr == CommitRob(r)
             xa == CommitRat(a)
             xg == CommitRegs(g)
             xs == CommitSb(s)
             xd == CommitDmem(d)
             xb == CommitBp(b)
             xab == CommitAborted(ab)
             xq == CommitSquash(q)
  <2>1. /\ xr = RobCommit(r)
        /\ xa = IF ~Head1.is_store /\ Head1.dest_reg # 0
                THEN RatCommitClear(a, Head1.dest_reg, Head1.tag, Head1.val) ELSE a
        /\ xg = IF ~Head1.is_store /\ Head1.dest_reg # 0
                THEN WriteReg(g, Head1.dest_reg, Head1.val) ELSE g
        /\ xs = IF Head1.is_store THEN SbCommit(s, Head1.tag) ELSE s
        /\ xd = IF Head1.is_store
                THEN DmemIssueWrite(d, Head1.store_addr, Head1.store_value, Head1.type) ELSE d
    BY <1>3 DEF CommitRob, CommitRat, CommitRegs, CommitSb, CommitDmem, CommitsReg, CommitsStore
  <2>2. xb = IF (Head1.is_branch /\ Head1.type \notin JumpTypes)
                /\ BpUpdateAsserts(b, Head1.pc, Head1.branch_pred_context)
             THEN BpUpdate(b) ELSE b
    BY <1>3 DEF CommitBp, CommitsBranch
  <2>3. xab = (ab \/ ((Head1.is_branch /\ Head1.type \notin JumpTypes)
                      /\ ~BpUpdateAsserts(b, Head1.pc, Head1.branch_pred_context)))
    BY <1>3 DEF CommitAborted, CommitsBranch
  <2>4. xq = IF RobMispredicted(Head1)
             THEN [pending |-> TRUE, tag |-> Head1.tag,
                   pc |-> IF Head1.branch_actual_taken THEN Head1.branch_target
                          ELSE Wrap(Head1.pc + 4)]
             ELSE q
    BY <1>3 DEF CommitSquash, Squashes
  <2>5. /\ DOMAIN n = CopyFields
        /\ n.rat = a /\ n.regs = g /\ n.alurs = al /\ n.lsrs = ls /\ n.sb = s /\ n.cdb = c
        /\ n.pc = p /\ n.fetched = f /\ n.ras_predicted_target = ra /\ n.redirect = re
        /\ n.halted = h /\ n.aborted = ab /\ n.squash = q
    BY DEF Pack, CopyFields
  <2> HIDE DEF n, xr, xa, xg, xs, xd, xb, xab, xq
  <2> DEFINE e == RobHeadEntry(n.rob)
             writes == ~e.is_store /\ e.dest_reg # 0
             conditional == e.is_branch /\ e.type \notin JumpTypes
             stays == ~RobCanCommit(n.rob) \/ (e.is_store /\ ~DmemAcceptsWrite(n.dmem))
             yd == IF e.is_store
                   THEN DmemIssueWrite(n.dmem, e.store_addr, e.store_value, e.type) ELSE n.dmem
             yg == IF writes THEN WriteReg(n.regs, e.dest_reg, e.val) ELSE n.regs
             ya == IF writes THEN RatCommitClear(n.rat, e.dest_reg, e.tag, e.val) ELSE n.rat
             yb == IF conditional /\ BpUpdateAsserts(n.bp, e.pc, e.branch_pred_context)
                   THEN BpUpdate(n.bp) ELSE n.bp
             yab == n.aborted \/ (conditional /\ ~BpUpdateAsserts(n.bp, e.pc,
                                                                  e.branch_pred_context))
             yr == RobCommit(n.rob)
             ys == IF e.is_store THEN SbCommit(n.sb, e.tag) ELSE n.sb
             yq == IF RobMispredicted(e)
                   THEN [pending |-> TRUE, tag |-> e.tag,
                         pc |-> IF e.branch_actual_taken THEN e.branch_target
                                ELSE Wrap(e.pc + 4)]
                   ELSE n.squash
  <2>6. ~stays
    BY <1>1, <1>3 DEF Commits
  <2>7. Commit(n) = IF stays THEN n ELSE Recommitted(n, yd, yg, ya, yb, yab, yr, ys, yq)
    BY DEF Commit, Recommitted
  <2>8. e = Head1
    BY <1>1
  <2> HIDE DEF e
  <2>9. yd = xd /\ yg = xg /\ ya = xa /\ ys = xs /\ yr = xr
    BY <1>1, <2>1, <2>5, <2>8
  <2>10. yb = xb
    BY <1>1, <2>2, <2>5, <2>8
  <2>11. yab = xab
    BY <1>1, <2>3, <2>5, <2>8
  <2>12. yq = xq
    BY <2>4, <2>5, <2>8
  <2> HIDE DEF stays, yd, yg, ya, yb, yab, yr, ys, yq
  <2> DEFINE m == Commit(n)
  <2>13. m = Recommitted(n, xd, xg, xa, xb, xab, xr, xs, xq)
    BY <2>6, <2>7, <2>9, <2>10, <2>11, <2>12
  <2> HIDE DEF m
  <2>14. /\ IsCopy(m) /\ m.rob = xr /\ m.rat = xa /\ m.regs = xg /\ m.sb = xs /\ m.dmem = xd
         /\ m.bp = xb /\ m.aborted = xab /\ m.squash = xq
         /\ m.alurs = al /\ m.lsrs = ls /\ m.cdb = c /\ m.pc = p /\ m.fetched = f
         /\ m.ras_predicted_target = ra /\ m.redirect = re /\ m.halted = h
    BY <2>5, <2>13, RecommittedIs
  <2> QED BY <2>14, PackIs DEF m, n, xr, xa, xg, xs, xd, xb, xab, xq
<1> QED BY <1>2, <1>3

\* What fetch does to the latch, to the program counter and to its flags.
FetchesWord == Fetches /\ Ins1.type # "ILLEGAL"
FetchTarget(taken) ==
  IF Ins1.type = "JAL" \/ (Ins1.type \in CondTypes /\ taken) THEN Wrap(pc + Ins1.imm)
  ELSE Wrap(pc + 4)
FetchedWord(taken) ==
  [valid |-> TRUE, instr |-> Ins1, pc |-> pc,
   pred_taken |-> IF Predicts THEN taken ELSE FALSE,
   pred_target |-> IF Predicts THEN FetchTarget(taken) ELSE Wrap(pc + 4),
   pred_context |-> IF Predicts THEN FreshToken(bp) ELSE 0]

FetchLatch(f, taken) == IF FetchesWord THEN FetchedWord(taken) ELSE f
FetchPc(p, taken) == IF FetchesWord THEN FetchTarget(taken) ELSE p
FetchRas(ra) == IF Fetches /\ Ins1.type = "JALR" THEN Wrap(pc + 4) ELSE ra
FetchRedirect(re) == IF redirect THEN FALSE ELSE re
FetchAborted(ab) == IF Fetches /\ Ins1.type = "ILLEGAL" THEN TRUE ELSE ab

\* The fetched word gets its prediction.
LEMMA WordPredicted ==
  ASSUME NEW yes, NEW no, NEW w, NEW i, NEW at, NEW n, NEW v, NEW t, NEW k,
         w = [valid |-> yes, instr |-> i, pc |-> at, pred_taken |-> no, pred_target |-> n,
              pred_context |-> 0]
  PROVE  [w EXCEPT !.pred_taken = v, !.pred_target = t, !.pred_context = k]
           = [valid |-> yes, instr |-> i, pc |-> at, pred_taken |-> v, pred_target |-> t,
              pred_context |-> k]
<1> DEFINE x == [w EXCEPT !.pred_taken = v]
           y == [x EXCEPT !.pred_target = t]
           z == [y EXCEPT !.pred_context = k]
<1>1. x = [valid |-> yes, instr |-> i, pc |-> at, pred_taken |-> v, pred_target |-> n,
           pred_context |-> 0]
  OBVIOUS
<1> HIDE DEF x
<1>2. y = [valid |-> yes, instr |-> i, pc |-> at, pred_taken |-> v, pred_target |-> t,
           pred_context |-> 0]
  BY <1>1
<1> HIDE DEF y
<1>3. z = [valid |-> yes, instr |-> i, pc |-> at, pred_taken |-> v, pred_target |-> t,
           pred_context |-> k]
  BY <1>2
<1> QED BY <1>3 DEF x, y

\* fetch changes each part from itself and from the current state, once the token
\* that it takes is the one that it would take first.
LEMMA FetchPacked ==
  ASSUME NEW r, NEW a, NEW g, NEW al, NEW ls, NEW s, NEW d, NEW b, NEW c, NEW p, NEW f, NEW ra,
         NEW re, NEW h, NEW ab, NEW q, NEW taken \in BOOLEAN,
         Predicts => FreshToken(b) = FreshToken(bp)
  PROVE  Fetch(Pack(r, a, g, al, ls, s, d, b, c, p, f, ra, re, h, ab, q), taken)
           = Pack(r, a, g, al, ls, s, d, FetchBp(b, taken), c, FetchPc(p, taken),
                  FetchLatch(f, taken), FetchRas(ra), FetchRedirect(re), h, FetchAborted(ab), q)
<1> DEFINE n == Pack(r, a, g, al, ls, s, d, b, c, p, f, ra, re, h, ab, q)
           m == Fetch(n, taken)
           next == Wrap(pc + 4)
           there == Wrap(pc + Ins1.imm)
           target == IF taken THEN there ELSE next
           word == [valid |-> TRUE, instr |-> Ins1, pc |-> pc,
                    pred_taken |-> FALSE, pred_target |-> next, pred_context |-> 0]
           token == [word EXCEPT !.pred_taken = taken, !.pred_target = target,
                                 !.pred_context = FreshToken(b)]
           xb == FetchBp(b, taken)
           xp == FetchPc(p, taken)
           xf == FetchLatch(f, taken)
           xra == FetchRas(ra)
           xre == FetchRedirect(re)
           xab == FetchAborted(ab)
<1> USE DEF FetchBp, FetchPc, FetchLatch, FetchRas, FetchRedirect, FetchAborted, FetchesWord,
            FetchTarget
<1>1. /\ redirect => ~Fetches
      /\ Predicts <=> Fetches /\ Ins1.type \in CondTypes
  BY DEF Fetches, Predicts, Ins1
<1>2. Ins1.type \in CondTypes => Ins1.type \notin {"ILLEGAL", "JAL", "JALR"}
  BY DEF CondTypes
<1>10. /\ ~Predicts => FetchedWord(taken) = word
       /\ Predicts => FetchedWord(taken) =
                        [valid |-> TRUE, instr |-> Ins1, pc |-> pc, pred_taken |-> taken,
                         pred_target |-> target, pred_context |-> FreshToken(bp)]
  <2> DEFINE v1 == IF Predicts THEN taken ELSE FALSE
             v2 == IF Predicts THEN FetchTarget(taken) ELSE next
             v3 == IF Predicts THEN FreshToken(bp) ELSE 0
  <2>1. FetchedWord(taken) = [valid |-> TRUE, instr |-> Ins1, pc |-> pc, pred_taken |-> v1,
                              pred_target |-> v2, pred_context |-> v3]
    BY DEF FetchedWord
  <2>2. ~Predicts => v1 = FALSE /\ v2 = next /\ v3 = 0
    OBVIOUS
  <2>3. Predicts => v1 = taken /\ v2 = target /\ v3 = FreshToken(bp)
    BY <1>1, <1>2
  <2> HIDE DEF v1, v2, v3, next, target
  <2> QED BY <2>1, <2>2, <2>3
<1>11. Fetches /\ Ins1.type # "ILLEGAL" => xf = FetchedWord(taken)
  OBVIOUS
<1>3. CASE redirect
  <2>1. m = [n EXCEPT !.redirect = FALSE]
    BY <1>1, <1>3 DEF Fetch
  <2>2. xb = b /\ xp = p /\ xf = f /\ xra = ra /\ xre = FALSE /\ xab = ab
    BY <1>1, <1>3
  <2> HIDE DEF xb, xp, xf, xra, xre, xab, m
  <2>3. m = Pack(r, a, g, al, ls, s, d, b, c, p, f, ra, FALSE, h, ab, q)
    BY <2>1 DEF Pack
  <2> QED BY <2>2, <2>3 DEF xb, xp, xf, xra, xre, xab, m
<1>4. CASE ~redirect /\ ~Fetches
  <2>1. m = n
    BY <1>1, <1>4 DEF Fetch
  <2>2. xb = b /\ xp = p /\ xf = f /\ xra = ra /\ xre = re /\ xab = ab
    BY <1>1, <1>4
  <2> QED BY <2>1, <2>2
<1>5. CASE Fetches /\ Ins1.type = "ILLEGAL"
  <2>1. m = [n EXCEPT !.aborted = TRUE]
    BY <1>1, <1>2, <1>5 DEF Fetch, Ins1
  <2>2. xb = b /\ xp = p /\ xf = f /\ xra = ra /\ xre = re /\ xab = TRUE
    BY <1>1, <1>2, <1>5
  <2> HIDE DEF xb, xp, xf, xra, xre, xab, m
  <2>3. m = Pack(r, a, g, al, ls, s, d, b, c, p, f, ra, re, h, TRUE, q)
    BY <2>1 DEF Pack
  <2> QED BY <2>2, <2>3 DEF xb, xp, xf, xra, xre, xab, m
<1>6. CASE Fetches /\ Ins1.type = "JAL"
  <2>1. m = [n EXCEPT !.fetched = word, !.pc = there]
    BY <1>1, <1>2, <1>6 DEF Fetch, Ins1
  <2>2. xb = b /\ xp = there /\ xra = ra /\ xre = re /\ xab = ab
    BY <1>1, <1>2, <1>6
  <2>3. xf = word
    <3> HIDE DEF xf, word
    <3> QED BY <1>1, <1>2, <1>6, <1>10, <1>11
  <2> HIDE DEF xb, xp, xf, xra, xre, xab, m, word, there
  <2>4. m = Pack(r, a, g, al, ls, s, d, b, c, there, word, ra, re, h, ab, q)
    BY <2>1 DEF Pack
  <2> QED BY <2>2, <2>3, <2>4 DEF xb, xp, xf, xra, xre, xab, m
<1>7. CASE Fetches /\ Ins1.type = "JALR"
  <2>1. m = [n EXCEPT !.fetched = word, !.pc = next, !.ras_predicted_target = next]
    BY <1>1, <1>2, <1>7 DEF Fetch, Ins1
  <2>2. xb = b /\ xp = next /\ xra = next /\ xre = re /\ xab = ab
    BY <1>1, <1>2, <1>7
  <2>3. xf = word
    <3> HIDE DEF xf, word
    <3> QED BY <1>1, <1>2, <1>7, <1>10, <1>11
  <2> HIDE DEF xb, xp, xf, xra, xre, xab, m, word, next
  <2>4. m = Pack(r, a, g, al, ls, s, d, b, c, next, word, next, re, h, ab, q)
    BY <2>1 DEF Pack
  <2> QED BY <2>2, <2>3, <2>4 DEF xb, xp, xf, xra, xre, xab, m
<1>8. CASE Fetches /\ Ins1.type \in CondTypes
  <2>1. m = [n EXCEPT !.fetched = [word EXCEPT !.pred_taken = taken, !.pred_target = target,
                                               !.pred_context = FreshToken(n.bp)],
                      !.bp = BpPredict(n.bp, pc, taken), !.pc = target]
    BY <1>1, <1>2, <1>8 DEF Fetch, Ins1
  <2>2. n.bp = b
    BY DEF Pack
  <2>3. xb = BpPredict(b, pc, taken) /\ xp = target /\ xra = ra /\ xre = re /\ xab = ab
    BY <1>1, <1>2, <1>8
  <2>4. xf = token
    <3>1. xf = [valid |-> TRUE, instr |-> Ins1, pc |-> pc, pred_taken |-> taken,
                pred_target |-> target, pred_context |-> FreshToken(bp)]
      <4> HIDE DEF xf, word, target, next
      <4> QED BY <1>1, <1>2, <1>8, <1>10, <1>11
    <3>2. FreshToken(b) = FreshToken(bp)
      BY <1>1, <1>8
    <3> HIDE DEF target, next, xf
    <3> DEFINE t == FreshToken(b)
    <3> HIDE DEF t
    <3>3. token = [valid |-> TRUE, instr |-> Ins1, pc |-> pc, pred_taken |-> taken,
                   pred_target |-> target, pred_context |-> t]
      <4>1. token = [word EXCEPT !.pred_taken = taken, !.pred_target = target, !.pred_context = t]
        <5> HIDE DEF word
        <5> QED BY DEF t
      <4> HIDE DEF token
      <4> QED BY <4>1, WordPredicted
    <3> HIDE DEF token
    <3> QED BY <3>1, <3>2, <3>3 DEF t
  <2>5. m = [n EXCEPT !.fetched = token, !.bp = BpPredict(b, pc, taken), !.pc = target]
    <3> HIDE DEF n, m, word, target
    <3> QED BY <2>1, <2>2
  <2> DEFINE y == BpPredict(b, pc, taken)
  <2> HIDE DEF xb, xp, xf, xra, xre, xab, m, word, token, target, y
  <2>6. m = Pack(r, a, g, al, ls, s, d, y, c, target, token, ra, re, h, ab, q)
    BY <2>5 DEF Pack, y
  <2> QED BY <2>3, <2>4, <2>6 DEF xb, xp, xf, xra, xre, xab, m, y
<1>9. CASE Fetches /\ Ins1.type \notin CondTypes /\ Ins1.type \notin {"ILLEGAL", "JAL", "JALR"}
  <2>1. m = [n EXCEPT !.fetched = word, !.pc = next]
    BY <1>1, <1>9 DEF Fetch, Ins1
  <2>2. xb = b /\ xp = next /\ xra = ra /\ xre = re /\ xab = ab
    BY <1>1, <1>2, <1>9
  <2>3. xf = word
    <3> HIDE DEF xf, word
    <3> QED BY <1>1, <1>2, <1>9, <1>10, <1>11
  <2> HIDE DEF xb, xp, xf, xra, xre, xab, m, word, next
  <2>4. m = Pack(r, a, g, al, ls, s, d, b, c, next, word, ra, re, h, ab, q)
    BY <2>1 DEF Pack
  <2> QED BY <2>2, <2>3, <2>4 DEF xb, xp, xf, xra, xre, xab, m
<1> QED BY <1>3, <1>4, <1>5, <1>6, <1>7, <1>8, <1>9

\* execute gives up when the memory does.
ExecAborted(ab) == ab \/ DmemAborts

\* execute changes each part from itself and from the current state.
LEMMA ExecutePacked ==
  ASSUME NEW r, NEW a, NEW g, NEW al, NEW ls, NEW s, NEW d, NEW b, NEW c, NEW p, NEW f, NEW ra,
         NEW re, NEW h, NEW ab, NEW q
  PROVE  Execute(Pack(r, a, g, al, ls, s, d, b, c, p, f, ra, re, h, ab, q))
           = Pack(r, a, g, AluRsExecute(al), LsRsExecute(ls), LsSbExecute(s), ExecDmem(d), b, c,
                  p, f, ra, re, h, ExecAborted(ab), q)
<1> DEFINE n == Pack(r, a, g, al, ls, s, d, b, c, p, f, ra, re, h, ab, q)
           m == Execute(n)
<1>1. IsCopy(m)
  <2>1. DOMAIN n = CopyFields
    BY DEF Pack, CopyFields
  <2> HIDE DEF n
  <2> QED BY <2>1 DEF Execute, IsCopy
<1>2. /\ m.rob = r /\ m.rat = a /\ m.regs = g /\ m.bp = b /\ m.cdb = c /\ m.pc = p
      /\ m.fetched = f /\ m.ras_predicted_target = ra /\ m.redirect = re /\ m.halted = h
      /\ m.squash = q
  BY DEF Execute, Pack
<1>3. /\ m.alurs = AluRsExecute(al) /\ m.lsrs = LsRsExecute(ls) /\ m.sb = LsSbExecute(s)
  BY DEF Execute, Pack
<1>4. m.dmem = ExecDmem(d) /\ m.aborted = ExecAborted(ab)
  BY DEF Execute, Pack, ExecDmem, ExecAborted
<1> HIDE DEF m
<1> QED BY <1>1, <1>2, <1>3, <1>4, PackIs DEF m

\* writeback changes each part from itself and from the current state, once the bus
\* is still the current one.
LEMMA WritebackPacked ==
  ASSUME NEW r, NEW a, NEW g, NEW al, NEW ls, NEW s, NEW d, NEW b, NEW p, NEW f, NEW ra,
         NEW re, NEW h, NEW ab, NEW q
  PROVE  Writeback(CdbListen(Pack(r, a, g, al, ls, s, d, b, cdb, p, f, ra, re, h, ab, q)))
           = Pack(WriteRob(r), a, g, WriteAlu(al), WriteLs(ls), s, d, b, Winner, p, f, ra, re, h,
                  ab, q)
<1> DEFINE n == Pack(r, a, g, al, ls, s, d, b, cdb, p, f, ra, re, h, ab, q)
           y == CdbListen(n)
           m == Writeback(y)
           w == Winner
<1>1. DOMAIN y = CopyFields
  <2>1. DOMAIN n = CopyFields
    BY DEF Pack, CopyFields
  <2> HIDE DEF n
  <2> QED BY <2>1 DEF CdbListen
<1>2. /\ y.rob = r /\ y.rat = a /\ y.regs = g /\ y.sb = s /\ y.dmem = d /\ y.bp = b /\ y.pc = p
      /\ y.fetched = f /\ y.ras_predicted_target = ra /\ y.redirect = re /\ y.halted = h
      /\ y.aborted = ab /\ y.squash = q
      /\ y.alurs = AluRsListen(al, cdb) /\ y.lsrs = LsRsListen(ls, cdb)
  BY DEF CdbListen, Pack
<1> HIDE DEF y, w
<1>3. IsCopy(m)
  BY <1>1 DEF Writeback, IsCopy, w
<1>4. /\ m.rat = a /\ m.regs = g /\ m.sb = s /\ m.dmem = d /\ m.bp = b /\ m.pc = p
      /\ m.fetched = f /\ m.ras_predicted_target = ra /\ m.redirect = re /\ m.halted = h
      /\ m.aborted = ab /\ m.squash = q /\ m.cdb = w
  BY <1>1, <1>2 DEF Writeback, CopyFields, w
<1>5. m.alurs = WriteAlu(al)
  BY <1>1, <1>2 DEF Writeback, CopyFields, WriteAlu, w
<1>6. m.lsrs = WriteLs(ls)
  BY <1>1, <1>2 DEF Writeback, CopyFields, WriteLs, FreedTags, DoneTags, w
<1>7. m.rob = WriteRob(r)
  BY <1>1, <1>2 DEF Writeback, CopyFields, WriteRob, StoreResults, DoneTags, w
<1> HIDE DEF m
<1> QED BY <1>3, <1>4, <1>5, <1>6, <1>7, PackIs DEF m, w, y

\* What issue passes to the buffer.
Args1 ==
  [type |-> Instr1.type, dest_reg |-> Instr1.rd, pc |-> fetched.pc,
   is_branch |-> Instr1.type \in BranchTypes,
   branch_pred_taken |-> Instr1.type \in JumpTypes
                           \/ (Instr1.type \in CondTypes /\ fetched.pred_taken),
   branch_target |-> IF Instr1.type \in BranchTypes THEN Wrap(fetched.pc + Instr1.imm) ELSE 0,
   is_store |-> Instr1.type \in StoreTypes,
   pred_target |-> CASE Instr1.type = "JAL" -> Wrap(fetched.pc + Instr1.imm)
                     [] Instr1.type = "JALR" -> ras_predicted_target
                     [] Instr1.type \in CondTypes -> fetched.pred_target
                     [] OTHER -> 0,
   branch_pred_context |-> IF Instr1.type \in BranchTypes THEN fetched.pred_context ELSE 0]

\* When issue empties the latch, and what a HALT does.
Empties == Issues \/ (fetched.valid /\ ~halted /\ Instr1.type \in {"HALT", "NOP", "UNKNOWN"})
IssueLatch(f)  == IF Empties THEN [f EXCEPT !.valid = FALSE] ELSE f
IssueHalted(h) == IF fetched.valid /\ ~halted /\ Instr1.type = "HALT" THEN TRUE ELSE h

\* Giving a copy the parts that issue fills, and emptying its latch.
Reissued(n, r, a, al, ls, s) ==
  [n EXCEPT !.rob = r, !.rat = a, !.alurs = al, !.lsrs = ls, !.sb = s, !.fetched.valid = FALSE]

\* The others stay.
LEMMA ReissuedIs ==
  ASSUME NEW n, DOMAIN n = CopyFields, NEW r, NEW a, NEW al, NEW ls, NEW s
  PROVE  LET m == Reissued(n, r, a, al, ls, s)
         IN  /\ IsCopy(m) /\ m.rob = r /\ m.rat = a /\ m.alurs = al /\ m.lsrs = ls /\ m.sb = s
             /\ m.fetched = [n.fetched EXCEPT !.valid = FALSE]
             /\ m.regs = n.regs /\ m.dmem = n.dmem /\ m.bp = n.bp /\ m.cdb = n.cdb
             /\ m.pc = n.pc /\ m.ras_predicted_target = n.ras_predicted_target
             /\ m.redirect = n.redirect /\ m.halted = n.halted /\ m.aborted = n.aborted
             /\ m.squash = n.squash
  BY DEF Reissued, IsCopy, CopyFields

\* issue changes each part from itself and from the current state, once it finds the
\* next tag and the predicted target of a return that it would find first.
LEMMA IssuePacked ==
  ASSUME NEW r, NEW a, NEW g, NEW al, NEW ls, NEW s, NEW d, NEW b, NEW c, NEW p, NEW f, NEW ra,
         NEW re, NEW h, NEW ab, NEW q,
         FetchedFits(fetched), r.next_tag = rob.next_tag,
         fetched.valid => ra = ras_predicted_target
  PROVE  Issue(Pack(r, a, g, al, ls, s, d, b, c, p, f, ra, re, h, ab, q))
           = Pack(IssueRob(r, Args1), IssueRat(a), g, IssueAlu(al), IssueLs(ls), IssueSb(s), d, b,
                  c, p, IssueLatch(f), ra, re, IssueHalted(h), ab, q)
<1> DEFINE n == Pack(r, a, g, al, ls, s, d, b, c, p, f, ra, re, h, ab, q)
           m == Issue(n)
           xf == [f EXCEPT !.valid = FALSE]
           xr == IssueRob(r, Args1)
           xa == IssueRat(a)
           xal == IssueAlu(al)
           xls == IssueLs(ls)
           xs == IssueSb(s)
           yf == IssueLatch(f)
           yh == IssueHalted(h)
<1>1. /\ fetched.valid => Instr1.type \in InstrType /\ Instr1.type # "ILLEGAL"
      /\ Instr1.type \in AluTypes \cup LsTypes => Instr1.type \notin {"HALT", "NOP", "UNKNOWN"}
  BY DEF FetchedFits, FetchedFields, Instr, Instr1, AluTypes, LsTypes, AluRTypes, AluITypes,
         UpperTypes, BranchTypes, CondTypes, JumpTypes, LoadTypes, StoreTypes
<1>2. fetched.valid =>
        Instr1.type \in {"HALT", "NOP", "UNKNOWN"} \/ Instr1.type \in AluTypes \cup LsTypes
  BY <1>1 DEF InstrType, NoPlaceTypes
<1>3. /\ n.rob = r /\ n.rat = a /\ n.alurs = al /\ n.lsrs = ls /\ n.sb = s /\ n.fetched = f
      /\ n.ras_predicted_target = ra /\ DOMAIN n = CopyFields
  BY DEF Pack, CopyFields
<1>4. ~Issues => xr = r /\ xa = a /\ xal = al /\ xls = ls /\ xs = s
  BY DEF IssueRob, IssueRat, IssueAlu, IssueLs, IssueSb, IssuesReg, IssuesAlu, IssuesLs, IssuesStore
<1>5. CASE ~fetched.valid \/ halted
  <2>1. m = n
    BY <1>5 DEF Issue
  <2>2. ~Issues /\ yf = f /\ yh = h
    BY <1>5 DEF Issues, IssueLatch, IssueHalted, Empties
  <2> HIDE DEF xr, xa, xal, xls, xs, yf, yh
  <2> QED BY <1>4, <2>1, <2>2 DEF xr, xa, xal, xls, xs, yf, yh
<1>6. CASE fetched.valid /\ ~halted /\ Instr1.type = "HALT"
  <2>1. m = [n EXCEPT !.halted = TRUE, !.fetched.valid = FALSE]
    BY <1>1, <1>6 DEF Issue, Instr1
  <2>2. ~Issues /\ yf = xf /\ yh = TRUE
    BY <1>1, <1>6 DEF Issues, IssueLatch, IssueHalted, Empties
  <2>3. m = [n EXCEPT !.halted = TRUE, !.fetched = xf]
    <3> HIDE DEF n, m
    <3> QED BY <1>3, <2>1
  <2> HIDE DEF xr, xa, xal, xls, xs, yf, yh, m, xf
  <2>4. m = Pack(r, a, g, al, ls, s, d, b, c, p, xf, ra, re, TRUE, ab, q)
    BY <2>3 DEF Pack
  <2> QED BY <1>4, <2>2, <2>4 DEF xr, xa, xal, xls, xs, yf, yh, m
<1>7. CASE fetched.valid /\ ~halted /\ Instr1.type \in {"NOP", "UNKNOWN"}
  <2>1. m = [n EXCEPT !.fetched.valid = FALSE]
    BY <1>1, <1>7 DEF Issue, Instr1
  <2>2. ~Issues /\ yf = xf /\ yh = h
    BY <1>1, <1>7 DEF Issues, IssueLatch, IssueHalted, Empties
  <2>3. m = [n EXCEPT !.fetched = xf]
    <3> HIDE DEF n, m
    <3> QED BY <1>3, <2>1
  <2> HIDE DEF xr, xa, xal, xls, xs, yf, yh, m, xf
  <2>4. m = Pack(r, a, g, al, ls, s, d, b, c, p, xf, ra, re, h, ab, q)
    BY <2>3 DEF Pack
  <2> QED BY <1>4, <2>2, <2>4 DEF xr, xa, xal, xls, xs, yf, yh, m
<1>8. CASE fetched.valid /\ ~halted /\ Instr1.type \in AluTypes \cup LsTypes /\ Stalls
  <2>1. m = n
    BY <1>1, <1>8 DEF Issue, Instr1, Stalls
  <2>2. ~Issues /\ yf = f /\ yh = h
    BY <1>1, <1>8 DEF Issues, IssueLatch, IssueHalted, Empties
  <2> HIDE DEF xr, xa, xal, xls, xs, yf, yh
  <2> QED BY <1>4, <2>1, <2>2 DEF xr, xa, xal, xls, xs, yf, yh
<1>9. CASE Issues
  <2> HIDE DEF n
  <2>1. fetched.valid /\ ~halted /\ Instr1.type \in AluTypes \cup LsTypes /\ ~Stalls
        /\ Instr1.type \notin {"HALT", "NOP", "UNKNOWN"} /\ ra = ras_predicted_target
    BY <1>1, <1>9 DEF Issues
  <2> DEFINE ins == fetched.instr
             predTarget == CASE ins.type = "JAL" -> Wrap(fetched.pc + ins.imm)
                             [] ins.type = "JALR" -> n.ras_predicted_target
                             [] ins.type \in CondTypes -> fetched.pred_target
                             [] OTHER -> 0
             args == [type |-> ins.type, dest_reg |-> ins.rd, pc |-> fetched.pc,
                      is_branch |-> ins.type \in BranchTypes,
                      branch_pred_taken |-> ins.type \in JumpTypes
                                              \/ (ins.type \in CondTypes /\ fetched.pred_taken),
                      branch_target |-> IF ins.type \in BranchTypes
                                        THEN Wrap(fetched.pc + ins.imm) ELSE 0,
                      is_store |-> ins.type \in StoreTypes,
                      pred_target |-> predTarget,
                      branch_pred_context |-> IF ins.type \in BranchTypes
                                              THEN fetched.pred_context ELSE 0]
             tag == n.rob.next_tag
             rj == ResolveOperand(ins.rs1)
             rk == ResolveOperand(ins.rs2)
             zr == RobAlloc(n.rob, args)
             za == IF ins.type \in StoreTypes THEN n.rat ELSE RatSetTag(n.rat, ins.rd, tag)
             zal == IF ins.type \in AluTypes
                    THEN AluRsAlloc(n.alurs, ins, rj, rk, tag, fetched.pc) ELSE n.alurs
             zls == IF ins.type \in LsTypes THEN LsRsAlloc(n.lsrs, ins, rj, rk, tag) ELSE n.lsrs
             zs == IF ins.type \in StoreTypes THEN SbInsert(n.sb, tag, ins.type) ELSE n.sb
  <2>2. m = Reissued(n, zr, za, zal, zls, zs)
    BY <2>1 DEF Issue, Instr1, Stalls, Reissued
  <2>3. zr = xr
    <3>1. args = Args1
      BY <1>3, <2>1 DEF Args1, Instr1
    <3> HIDE DEF args
    <3> QED BY <1>3, <1>9, <3>1 DEF IssueRob
  <2>4. tag = rob.next_tag
    BY <1>3
  <2> HIDE DEF tag
  <2>5. za = xa
    BY <1>3, <1>9, <2>4 DEF IssueRat, IssuesReg, Instr1
  <2>6. zal = xal
    BY <1>3, <1>9, <2>4 DEF IssueAlu, IssuesAlu, Instr1, Operand1, Operand2
  <2>7. zls = xls
    BY <1>3, <1>9, <2>4 DEF IssueLs, IssuesLs, Instr1, Operand1, Operand2
  <2>8. zs = xs
    BY <1>3, <1>9, <2>4 DEF IssueSb, IssuesStore, Instr1
  <2>9. yf = xf /\ yh = h
    BY <1>1, <1>9 DEF Issues, IssueLatch, IssueHalted, Empties
  <2> HIDE DEF m, xr, xa, xal, xls, xs, yf, yh, xf, zr, za, zal, zls, zs
  <2>10. m = Reissued(n, xr, xa, xal, xls, xs)
    BY <2>2, <2>3, <2>5, <2>6, <2>7, <2>8
  <2>11. /\ n.regs = g /\ n.dmem = d /\ n.bp = b /\ n.cdb = c /\ n.pc = p /\ n.redirect = re
         /\ n.halted = h /\ n.aborted = ab /\ n.squash = q
    BY DEF n, Pack
  <2>12. /\ IsCopy(m) /\ m.rob = xr /\ m.rat = xa /\ m.alurs = xal /\ m.lsrs = xls /\ m.sb = xs
         /\ m.fetched = xf
         /\ m.regs = g /\ m.dmem = d /\ m.bp = b /\ m.cdb = c /\ m.pc = p
         /\ m.ras_predicted_target = ra /\ m.redirect = re /\ m.halted = h /\ m.aborted = ab
         /\ m.squash = q
    BY <1>3, <2>10, <2>11, ReissuedIs DEF xf
  <2> QED BY <2>9, <2>12, PackIs DEF m, n, xr, xa, xal, xls, xs, yf, yh
<1> QED BY <1>2, <1>5, <1>6, <1>7, <1>8, <1>9 DEF Issues

\* fetch, of any copy that is a record of its parts.
LEMMA FetchCopy ==
  ASSUME NEW n, IsCopy(n), NEW taken \in BOOLEAN, Predicts => FreshToken(n.bp) = FreshToken(bp)
  PROVE  Fetch(n, taken)
           = Pack(n.rob, n.rat, n.regs, n.alurs, n.lsrs, n.sb, n.dmem, FetchBp(n.bp, taken), n.cdb,
                  FetchPc(n.pc, taken), FetchLatch(n.fetched, taken),
                  FetchRas(n.ras_predicted_target), FetchRedirect(n.redirect), n.halted,
                  FetchAborted(n.aborted), n.squash)
  BY PackIs, FetchPacked

\* commit, of any copy.
LEMMA CommitCopy ==
  ASSUME NEW n, IsCopy(n), n.rob.head = rob.head, DmemAcceptsWrite(n.dmem) <=> ~DmemIsBusy,
         CommitsBranch => BpUpdateAsserts(n.bp, Head1.pc, Head1.branch_pred_context)
  PROVE  Commit(n)
           = Pack(CommitRob(n.rob), CommitRat(n.rat), CommitRegs(n.regs), n.alurs, n.lsrs,
                  CommitSb(n.sb), CommitDmem(n.dmem), CommitBp(n.bp), n.cdb, n.pc, n.fetched,
                  n.ras_predicted_target, n.redirect, n.halted, CommitAborted(n.aborted),
                  CommitSquash(n.squash))
  BY PackIs, CommitPacked

\* execute, of any copy.
LEMMA ExecuteCopy ==
  ASSUME NEW n, IsCopy(n)
  PROVE  Execute(n)
           = Pack(n.rob, n.rat, n.regs, AluRsExecute(n.alurs), LsRsExecute(n.lsrs),
                  LsSbExecute(n.sb), ExecDmem(n.dmem), n.bp, n.cdb, n.pc, n.fetched,
                  n.ras_predicted_target, n.redirect, n.halted, ExecAborted(n.aborted), n.squash)
  BY PackIs, ExecutePacked

\* writeback, of any copy.
LEMMA WritebackCopy ==
  ASSUME NEW n, IsCopy(n), n.cdb = cdb
  PROVE  Writeback(CdbListen(n))
           = Pack(WriteRob(n.rob), n.rat, n.regs, WriteAlu(n.alurs), WriteLs(n.lsrs), n.sb, n.dmem,
                  n.bp, Winner, n.pc, n.fetched, n.ras_predicted_target, n.redirect, n.halted,
                  n.aborted, n.squash)
  BY PackIs, WritebackPacked

\* issue, of any copy.
LEMMA IssueCopy ==
  ASSUME NEW n, IsCopy(n), FetchedFits(fetched), n.rob.next_tag = rob.next_tag,
         fetched.valid => n.ras_predicted_target = ras_predicted_target
  PROVE  Issue(n)
           = Pack(IssueRob(n.rob, Args1), IssueRat(n.rat), n.regs, IssueAlu(n.alurs),
                  IssueLs(n.lsrs), IssueSb(n.sb), n.dmem, n.bp, n.cdb, n.pc,
                  IssueLatch(n.fetched), n.ras_predicted_target, n.redirect,
                  IssueHalted(n.halted), n.aborted, n.squash)
  BY PackIs, IssuePacked

\* The other parts after some of the phases.
RegsAt(c) == IF c THEN CommitRegs(regs) ELSE regs
CdbAt(w) == IF w THEN Winner ELSE cdb
PcAt(f, taken) == IF f THEN FetchPc(pc, taken) ELSE pc
LatchAt(f, i, taken) ==
  LET filled == IF f THEN FetchLatch(fetched, taken) ELSE fetched
  IN  IF i THEN IssueLatch(filled) ELSE filled
RasAt(f) == IF f THEN FetchRas(ras_predicted_target) ELSE ras_predicted_target
RedirectAt(f) == IF f THEN FetchRedirect(redirect) ELSE redirect
HaltedAt(i) == IF i THEN IssueHalted(halted) ELSE halted
AbortedAt(f, c, e) ==
  LET fetchd == IF f THEN FetchAborted(aborted) ELSE aborted
      committed == IF c THEN CommitAborted(fetchd) ELSE fetchd
  IN  IF e THEN ExecAborted(committed) ELSE committed
SquashAt(c) == IF c THEN CommitSquash(NoSquash) ELSE NoSquash

\* The copy after some of the phases, in the order of the code.
CopyAt(f, c, e, w, i, taken) ==
  Pack(RobAt(c, w, i, Args1), RatAt(c, i), RegsAt(c), AluAt(e, w, i), LsAt(e, w, i),
       SbAt(c, e, i), DmemAt(c, e), BpAt(f, c, taken), CdbAt(w), PcAt(f, taken),
       LatchAt(f, i, taken), RasAt(f), RedirectAt(f), HaltedAt(i), AbortedAt(f, c, e),
       SquashAt(c))

Fields(n, f, c, e, w, i, taken) ==
  /\ IsCopy(n)
  /\ n.rob = RobAt(c, w, i, Args1) /\ n.rat = RatAt(c, i) /\ n.regs = RegsAt(c)
  /\ n.alurs = AluAt(e, w, i) /\ n.lsrs = LsAt(e, w, i) /\ n.sb = SbAt(c, e, i)
  /\ n.dmem = DmemAt(c, e) /\ n.bp = BpAt(f, c, taken) /\ n.cdb = CdbAt(w)
  /\ n.pc = PcAt(f, taken) /\ n.fetched = LatchAt(f, i, taken)
  /\ n.ras_predicted_target = RasAt(f) /\ n.redirect = RedirectAt(f)
  /\ n.halted = HaltedAt(i) /\ n.aborted = AbortedAt(f, c, e) /\ n.squash = SquashAt(c)

\* Its parts.
LEMMA CopyIs ==
  ASSUME NEW f, NEW c, NEW e, NEW w, NEW i, NEW taken
  PROVE  Fields(CopyAt(f, c, e, w, i, taken), f, c, e, w, i, taken)
  BY DEF Fields, CopyAt, Pack, IsCopy, CopyFields

\* The latch is filled only while it is empty, and emptied only while it is full.
LEMMA LatchPhases ==
  ASSUME NEW taken, NEW x \in BOOLEAN
  PROVE  /\ FetchLatch(LatchAt(FALSE, x, taken), taken) = LatchAt(TRUE, x, taken)
         /\ IssueLatch(LatchAt(x, FALSE, taken)) = LatchAt(x, TRUE, taken)
         /\ fetched.valid => RasAt(x) = ras_predicted_target
<1>1. FetchesWord => ~fetched.valid
  BY DEF FetchesWord, Fetches
<1>2. Empties => fetched.valid
  BY DEF Empties, Issues
<1>3. CASE FetchesWord
  BY <1>1, <1>2, <1>3 DEF FetchLatch, IssueLatch, LatchAt, RasAt, FetchRas, Fetches
<1>4. CASE ~FetchesWord
  BY <1>4 DEF FetchLatch, IssueLatch, LatchAt, RasAt, FetchRas, Fetches
<1> QED BY <1>3, <1>4

\* What gives up once stays given up.
LEMMA AbortedPhases ==
  ASSUME NEW x \in BOOLEAN, NEW y \in BOOLEAN
  PROVE  /\ FetchAborted(AbortedAt(FALSE, x, y)) = AbortedAt(TRUE, x, y)
         /\ CommitAborted(AbortedAt(x, FALSE, y)) = AbortedAt(x, TRUE, y)
         /\ ExecAborted(AbortedAt(x, y, FALSE)) = AbortedAt(x, y, TRUE)
  BY DEF FetchAborted, CommitAborted, ExecAborted, AbortedAt

\* Whatever has been applied, each phase does what it does in its place.
LEMMA FetchPhase ==
  ASSUME PipelineInvariant, NEW taken \in BOOLEAN, NEW c \in BOOLEAN, NEW e \in BOOLEAN,
         NEW w \in BOOLEAN, NEW i \in BOOLEAN
  PROVE  Fetch(CopyAt(FALSE, c, e, w, i, taken), taken) = CopyAt(TRUE, c, e, w, i, taken)
<1>1. /\ FetchBp(BpAt(FALSE, c, taken), taken) = BpAt(TRUE, c, taken)
      /\ Predicts => FreshToken(BpAt(FALSE, c, taken)) = FreshToken(bp)
  BY BpPhases
<1>2. FetchLatch(LatchAt(FALSE, i, taken), taken) = LatchAt(TRUE, i, taken)
  BY LatchPhases
<1>3. FetchAborted(AbortedAt(FALSE, c, e)) = AbortedAt(TRUE, c, e)
  BY AbortedPhases
<1>4. /\ FetchPc(PcAt(FALSE, taken), taken) = PcAt(TRUE, taken)
      /\ FetchRas(RasAt(FALSE)) = RasAt(TRUE) /\ FetchRedirect(RedirectAt(FALSE)) = RedirectAt(TRUE)
  BY DEF PcAt, RasAt, RedirectAt
<1> DEFINE n == CopyAt(FALSE, c, e, w, i, taken)
           m == Fetch(n, taken)
<1>8. m = CopyAt(TRUE, c, e, w, i, taken)
  <2>1. Fields(n, FALSE, c, e, w, i, taken)
    BY CopyIs
  <2> HIDE DEF n
  <2>2. IsCopy(n) /\ (Predicts => FreshToken(n.bp) = FreshToken(bp))
    BY <1>1, <2>1 DEF Fields
  <2>3. m = Pack(n.rob, n.rat, n.regs, n.alurs, n.lsrs, n.sb, n.dmem, FetchBp(n.bp, taken), n.cdb,
                 FetchPc(n.pc, taken), FetchLatch(n.fetched, taken),
                 FetchRas(n.ras_predicted_target), FetchRedirect(n.redirect), n.halted,
                 FetchAborted(n.aborted), n.squash)
    BY <2>2, FetchCopy
  <2> HIDE DEF m
  <2> QED BY <1>1, <1>2, <1>3, <1>4, <2>1, <2>3 DEF Fields, CopyAt
<1> QED BY <1>8

\* The same of commit,
LEMMA CommitPhase ==
  ASSUME PipelineInvariant, NEW taken \in BOOLEAN, NEW f \in BOOLEAN, NEW e \in BOOLEAN,
         NEW w \in BOOLEAN, NEW i \in BOOLEAN
  PROVE  Commit(CopyAt(f, FALSE, e, w, i, taken)) = CopyAt(f, TRUE, e, w, i, taken)
<1>1. Inv1 /\ Inv2
  BY DEF PipelineInvariant, Inv1, Inv2
<1>2. /\ RobAt(FALSE, w, i, Args1).head = rob.head
      /\ CommitRob(RobAt(FALSE, w, i, Args1)) = RobAt(TRUE, w, i, Args1)
  BY <1>1, RobPhases
<1>3. CommitRat(RatAt(FALSE, i)) = RatAt(TRUE, i) /\ CommitSb(SbAt(FALSE, e, i)) = SbAt(TRUE, e, i)
  BY <1>1, RatPhases, SbPhases
<1>4. /\ DmemAcceptsWrite(DmemAt(FALSE, e)) <=> ~DmemIsBusy
      /\ CommitDmem(DmemAt(FALSE, e)) = DmemAt(TRUE, e)
  BY DmemPhases
<1>5. /\ CommitBp(BpAt(f, FALSE, taken)) = BpAt(f, TRUE, taken)
      /\ CommitsBranch => BpUpdateAsserts(BpAt(f, FALSE, taken), Head1.pc,
                                          Head1.branch_pred_context)
  BY BpPhases
<1>6. CommitAborted(AbortedAt(f, FALSE, e)) = AbortedAt(f, TRUE, e)
  BY AbortedPhases
<1>7. CommitRegs(RegsAt(FALSE)) = RegsAt(TRUE) /\ CommitSquash(SquashAt(FALSE)) = SquashAt(TRUE)
  BY DEF RegsAt, SquashAt
<1> DEFINE n == CopyAt(f, FALSE, e, w, i, taken)
           m == Commit(n)
<1>8. m = CopyAt(f, TRUE, e, w, i, taken)
  <2>1. Fields(n, f, FALSE, e, w, i, taken)
    BY CopyIs
  <2> HIDE DEF n
  <2> QED BY <1>2, <1>3, <1>4, <1>5, <1>6, <1>7, <2>1, CommitCopy DEF Fields, CopyAt
<1> QED BY <1>8

\* of execute,
LEMMA ExecutePhase ==
  ASSUME PipelineInvariant, NEW taken \in BOOLEAN, NEW f \in BOOLEAN, NEW c \in BOOLEAN,
         NEW w \in BOOLEAN, NEW i \in BOOLEAN
  PROVE  Execute(CopyAt(f, c, FALSE, w, i, taken)) = CopyAt(f, c, TRUE, w, i, taken)
<1>1. Inv1 /\ Inv2
  BY DEF PipelineInvariant, Inv1, Inv2
<1>2. AluRsExecute(AluAt(FALSE, w, i)) = AluAt(TRUE, w, i)
  BY <1>1, AluPhases
<1>3. LsRsExecute(LsAt(FALSE, w, i)) = LsAt(TRUE, w, i)
  BY <1>1, LsPhases
<1>4. LsSbExecute(SbAt(c, FALSE, i)) = SbAt(c, TRUE, i)
  BY <1>1, SbPhases
<1>5. ExecDmem(DmemAt(c, FALSE)) = DmemAt(c, TRUE)
  BY DmemPhases
<1>6. ExecAborted(AbortedAt(f, c, FALSE)) = AbortedAt(f, c, TRUE)
  BY AbortedPhases
<1> DEFINE n == CopyAt(f, c, FALSE, w, i, taken)
           m == Execute(n)
<1>8. m = CopyAt(f, c, TRUE, w, i, taken)
  <2>1. Fields(n, f, c, FALSE, w, i, taken)
    BY CopyIs
  <2> HIDE DEF n
  <2> QED BY <1>2, <1>3, <1>4, <1>5, <1>6, <2>1, ExecuteCopy DEF Fields, CopyAt
<1> QED BY <1>8

\* of writeback,
LEMMA WritebackPhase ==
  ASSUME PipelineInvariant, NEW taken \in BOOLEAN, NEW f \in BOOLEAN, NEW c \in BOOLEAN,
         NEW e \in BOOLEAN, NEW i \in BOOLEAN
  PROVE  Writeback(CdbListen(CopyAt(f, c, e, FALSE, i, taken))) = CopyAt(f, c, e, TRUE, i, taken)
<1>1. Inv1
  BY DEF PipelineInvariant, Inv1
<1>2. WriteRob(RobAt(c, FALSE, i, Args1)) = RobAt(c, TRUE, i, Args1)
  BY <1>1, RobPhases
<1>3. WriteAlu(AluAt(e, FALSE, i)) = AluAt(e, TRUE, i)
  BY <1>1, AluPhases
<1>4. WriteLs(LsAt(e, FALSE, i)) = LsAt(e, TRUE, i)
  BY <1>1, LsPhases
<1>5. CdbAt(FALSE) = cdb /\ CdbAt(TRUE) = Winner
  BY DEF CdbAt
<1> DEFINE n == CopyAt(f, c, e, FALSE, i, taken)
           m == Writeback(CdbListen(n))
<1>8. m = CopyAt(f, c, e, TRUE, i, taken)
  <2>1. Fields(n, f, c, e, FALSE, i, taken)
    BY CopyIs
  <2> HIDE DEF n
  <2> QED BY <1>2, <1>3, <1>4, <1>5, <2>1, WritebackCopy DEF Fields, CopyAt
<1> QED BY <1>8

\* and of issue.
LEMMA IssuePhase ==
  ASSUME PipelineInvariant, NEW taken \in BOOLEAN, NEW f \in BOOLEAN, NEW c \in BOOLEAN,
         NEW e \in BOOLEAN, NEW w \in BOOLEAN
  PROVE  Issue(CopyAt(f, c, e, w, FALSE, taken)) = CopyAt(f, c, e, w, TRUE, taken)
<1>1. Inv1 /\ Inv2 /\ FetchedFits(fetched)
  BY DEF PipelineInvariant, Inv1, Inv2, FrontInv
<1>2. /\ RobAt(c, w, FALSE, Args1).next_tag = rob.next_tag
      /\ IssueRob(RobAt(c, w, FALSE, Args1), Args1) = RobAt(c, w, TRUE, Args1)
  BY <1>1, RobPhases
<1>3. IssueRat(RatAt(c, FALSE)) = RatAt(c, TRUE) /\ IssueSb(SbAt(c, e, FALSE)) = SbAt(c, e, TRUE)
  BY <1>1, RatPhases, SbPhases
<1>4. IssueAlu(AluAt(e, w, FALSE)) = AluAt(e, w, TRUE)
  BY <1>1, AluPhases
<1>5. IssueLs(LsAt(e, w, FALSE)) = LsAt(e, w, TRUE)
  BY <1>1, LsPhases
<1>6. /\ IssueLatch(LatchAt(f, FALSE, taken)) = LatchAt(f, TRUE, taken)
      /\ fetched.valid => RasAt(f) = ras_predicted_target
  BY LatchPhases
<1>7. IssueHalted(HaltedAt(FALSE)) = HaltedAt(TRUE)
  BY DEF HaltedAt
<1> DEFINE n == CopyAt(f, c, e, w, FALSE, taken)
           m == Issue(n)
<1>8. m = CopyAt(f, c, e, w, TRUE, taken)
  <2>1. Fields(n, f, c, e, w, FALSE, taken)
    BY CopyIs
  <2> HIDE DEF n
  <2> QED BY <1>1, <1>2, <1>3, <1>4, <1>5, <1>6, <1>7, <2>1, IssueCopy DEF Fields, CopyAt
<1> QED BY <1>8

\* Before any phase, the copy is the current state.
LEMMA NoPhase ==
  ASSUME NEW taken
  PROVE  CopyAt(FALSE, FALSE, FALSE, FALSE, FALSE, taken) = NextStates
  BY DEF CopyAt, Pack, NextStates, RobAt, RatAt, RegsAt, AluAt, LsAt, SbAt, DmemAt, BpAt, CdbAt,
         PcAt, LatchAt, RasAt, RedirectAt, HaltedAt, AbortedAt, SquashAt

\* The phases in S, which the copy has been through.
Done(S, taken) ==
  CopyAt("fetch" \in S, "commit" \in S, "execute" \in S, "writeback" \in S, "issue" \in S, taken)

\* Another phase does its part, whichever came before it.
LEMMA PhaseAdds ==
  ASSUME PipelineInvariant, NEW taken \in BOOLEAN, NEW S, NEW name \in PhaseNames, name \notin S
  PROVE  ApplyPhase(name, Done(S, taken), taken) = Done(S \cup {name}, taken)
<1> DEFINE f == "fetch" \in S
           c == "commit" \in S
           e == "execute" \in S
           w == "writeback" \in S
           i == "issue" \in S
           f2 == "fetch" \in S \cup {name}
           c2 == "commit" \in S \cup {name}
           e2 == "execute" \in S \cup {name}
           w2 == "writeback" \in S \cup {name}
           i2 == "issue" \in S \cup {name}
           n == Done(S, taken)
           m == Done(S \cup {name}, taken)
<1>1. f \in BOOLEAN /\ c \in BOOLEAN /\ e \in BOOLEAN /\ w \in BOOLEAN /\ i \in BOOLEAN
  OBVIOUS
<1>7. n = CopyAt(f, c, e, w, i, taken) /\ m = CopyAt(f2, c2, e2, w2, i2, taken)
  BY DEF Done
<1> HIDE DEF n, m
<1>2. CASE name = "fetch"
  <2>1. f = FALSE /\ f2 = TRUE /\ c2 = c /\ e2 = e /\ w2 = w /\ i2 = i
    BY <1>2
  <2>2. ApplyPhase(name, n, taken) = Fetch(n, taken)
    BY <1>2 DEF ApplyPhase
  <2> HIDE DEF f, c, e, w, i, f2, c2, e2, w2, i2
  <2>3. Fetch(CopyAt(FALSE, c, e, w, i, taken), taken)
          = CopyAt(TRUE, c, e, w, i, taken)
    BY <1>1, FetchPhase
  <2>4. ApplyPhase(name, n, taken) = m
    BY <1>7, <2>1, <2>2, <2>3
  <2> QED BY <2>4 DEF n, m
<1>3. CASE name = "commit"
  <2>1. c = FALSE /\ c2 = TRUE /\ f2 = f /\ e2 = e /\ w2 = w /\ i2 = i
    BY <1>3
  <2>2. ApplyPhase(name, n, taken) = Commit(n)
    BY <1>3 DEF ApplyPhase
  <2> HIDE DEF f, c, e, w, i, f2, c2, e2, w2, i2
  <2>3. Commit(CopyAt(f, FALSE, e, w, i, taken))
          = CopyAt(f, TRUE, e, w, i, taken)
    BY <1>1, CommitPhase
  <2>4. ApplyPhase(name, n, taken) = m
    BY <1>7, <2>1, <2>2, <2>3
  <2> QED BY <2>4 DEF n, m
<1>4. CASE name = "execute"
  <2>1. e = FALSE /\ e2 = TRUE /\ f2 = f /\ c2 = c /\ w2 = w /\ i2 = i
    BY <1>4
  <2>2. ApplyPhase(name, n, taken) = Execute(n)
    BY <1>4 DEF ApplyPhase
  <2> HIDE DEF f, c, e, w, i, f2, c2, e2, w2, i2
  <2>3. Execute(CopyAt(f, c, FALSE, w, i, taken))
          = CopyAt(f, c, TRUE, w, i, taken)
    BY <1>1, ExecutePhase
  <2>4. ApplyPhase(name, n, taken) = m
    BY <1>7, <2>1, <2>2, <2>3
  <2> QED BY <2>4 DEF n, m
<1>5. CASE name = "writeback"
  <2>1. w = FALSE /\ w2 = TRUE /\ f2 = f /\ c2 = c /\ e2 = e /\ i2 = i
    BY <1>5
  <2>2. ApplyPhase(name, n, taken) = Writeback(CdbListen(n))
    BY <1>5 DEF ApplyPhase
  <2> HIDE DEF f, c, e, w, i, f2, c2, e2, w2, i2
  <2>3. Writeback(CdbListen(CopyAt(f, c, e, FALSE, i, taken)))
          = CopyAt(f, c, e, TRUE, i, taken)
    BY <1>1, WritebackPhase
  <2>4. ApplyPhase(name, n, taken) = m
    BY <1>7, <2>1, <2>2, <2>3
  <2> QED BY <2>4 DEF n, m
<1>6. CASE name = "issue"
  <2>1. i = FALSE /\ i2 = TRUE /\ f2 = f /\ c2 = c /\ e2 = e /\ w2 = w
    BY <1>6
  <2>2. ApplyPhase(name, n, taken) = Issue(n)
    BY <1>6 DEF ApplyPhase
  <2> HIDE DEF f, c, e, w, i, f2, c2, e2, w2, i2
  <2>3. Issue(CopyAt(f, c, e, w, FALSE, taken))
          = CopyAt(f, c, e, w, TRUE, taken)
    BY <1>1, IssuePhase
  <2>4. ApplyPhase(name, n, taken) = m
    BY <1>7, <2>1, <2>2, <2>3
  <2> QED BY <2>4 DEF n, m
<1> QED BY <1>2, <1>3, <1>4, <1>5, <1>6 DEF PhaseNames

\* The order of the code is one of them.
LEMMA CodeOrder ==
  ASSUME PipelineInvariant, NEW taken \in BOOLEAN
  PROVE  Phases(taken) = Finalize(Done(PhaseNames, taken))
<1> DEFINE n(f, c, e, w, i) == CopyAt(f, c, e, w, i, taken)
<1>1. Fetch(NextStates, taken) = n(TRUE, FALSE, FALSE, FALSE, FALSE)
  <2>1. NextStates = CopyAt(FALSE, FALSE, FALSE, FALSE, FALSE, taken)
    BY NoPhase
  <2> QED BY <2>1, FetchPhase
<1>2. Commit(n(TRUE, FALSE, FALSE, FALSE, FALSE)) = n(TRUE, TRUE, FALSE, FALSE, FALSE)
  BY CommitPhase
<1>3. Execute(n(TRUE, TRUE, FALSE, FALSE, FALSE)) = n(TRUE, TRUE, TRUE, FALSE, FALSE)
  BY ExecutePhase
<1>4. Writeback(CdbListen(n(TRUE, TRUE, TRUE, FALSE, FALSE))) = n(TRUE, TRUE, TRUE, TRUE, FALSE)
  BY WritebackPhase
<1>5. Issue(n(TRUE, TRUE, TRUE, TRUE, FALSE)) = n(TRUE, TRUE, TRUE, TRUE, TRUE)
  BY IssuePhase
<1>6. n(TRUE, TRUE, TRUE, TRUE, TRUE) = Done(PhaseNames, taken)
  <2> DEFINE f == "fetch" \in PhaseNames
             c == "commit" \in PhaseNames
             e == "execute" \in PhaseNames
             w == "writeback" \in PhaseNames
             i == "issue" \in PhaseNames
  <2>1. f = TRUE /\ c = TRUE /\ e = TRUE /\ w = TRUE /\ i = TRUE
    BY DEF PhaseNames
  <2>2. Done(PhaseNames, taken) = n(f, c, e, w, i)
    BY DEF Done
  <2> HIDE DEF f, c, e, w, i
  <2> QED BY <2>1, <2>2
<1> HIDE DEF n
<1> QED BY <1>1, <1>2, <1>3, <1>4, <1>5, <1>6 DEF Phases

\* Any order goes through all of them.
LEMMA AnyOrder ==
  ASSUME PipelineInvariant, NEW taken \in BOOLEAN, NEW order \in PhaseOrders
  PROVE  InThisOrder(order, taken) = Finalize(Done(PhaseNames, taken))
<1> DEFINE after[k \in 0 .. 5] ==
             IF k = 0 THEN NextStates ELSE ApplyPhase(order[k], after[k - 1], taken)
           step(k, n) == ApplyPhase(order[k], n, taken)
           a1 == step(1, NextStates)
           a2 == step(2, a1)
           a3 == step(3, a2)
           a4 == step(4, a3)
           a5 == step(5, a4)
           chain == [k \in 0 .. 5 |-> IF k = 0 THEN NextStates ELSE IF k = 1 THEN a1
                                      ELSE IF k = 2 THEN a2 ELSE IF k = 3 THEN a3
                                      ELSE IF k = 4 THEN a4 ELSE a5]
           Unrolled(g) == g = [k \in 0 .. 5 |-> IF k = 0 THEN NextStates ELSE step(k, g[k - 1])]
<1>1. InThisOrder(order, taken) = Finalize(after[5])
  BY DEF InThisOrder
<1>2. after = CHOOSE g : Unrolled(g)
  OBVIOUS
<1> HIDE DEF after, step
<1>3. Unrolled(chain)
  <2>1. a1 = step(1, NextStates) /\ a2 = step(2, a1) /\ a3 = step(3, a2) /\ a4 = step(4, a3)
        /\ a5 = step(5, a4)
    OBVIOUS
  <2> HIDE DEF a1, a2, a3, a4, a5
  <2>2. /\ chain[0] = NextStates /\ chain[1] = a1 /\ chain[2] = a2 /\ chain[3] = a3
        /\ chain[4] = a4 /\ chain[5] = a5
    OBVIOUS
  <2>3. ASSUME NEW k \in 0 .. 5
        PROVE  chain[k] = IF k = 0 THEN NextStates ELSE step(k, chain[k - 1])
    <3>1. k = 0 \/ k = 1 \/ k = 2 \/ k = 3 \/ k = 4 \/ k = 5
      OBVIOUS
    <3> HIDE DEF chain
    <3> QED BY <2>1, <2>2, <3>1
  <2> QED BY <2>3
<1>4. Unrolled(after)
  <2> HIDE DEF Unrolled, chain
  <2> QED BY <1>2, <1>3
<1> DEFINE S(k) == {order[j] : j \in 1 .. k}
<1>5. /\ after[0] = NextStates
      /\ \A k \in 1 .. 5 : after[k] = step(k, after[k - 1])
  BY <1>4
<1> HIDE DEF chain, Unrolled
<1>6. \A j, k \in 1 .. 5 : order[k] \in PhaseNames /\ (j # k => order[j] # order[k])
  BY DEF PhaseOrders
<1>7. ASSUME NEW k \in 1 .. 5, after[k - 1] = Done(S(k - 1), taken)
      PROVE  after[k] = Done(S(k), taken)
  <2>1. S(k) = S(k - 1) \cup {order[k]}
    OBVIOUS
  <2>2. order[k] \notin S(k - 1) /\ order[k] \in PhaseNames
    BY <1>6
  <2>3. after[k] = ApplyPhase(order[k], Done(S(k - 1), taken), taken)
    BY <1>5, <1>7 DEF step
  <2> HIDE DEF S
  <2> QED BY <2>1, <2>2, <2>3, PhaseAdds
<1>8. after[0] = Done(S(0), taken)
  <2>1. S(0) = {}
    OBVIOUS
  <2>2. Done({}, taken) = NextStates
    <3> DEFINE out(name) == name \in {}
    <3>1. Done({}, taken)
            = CopyAt(out("fetch"), out("commit"), out("execute"), out("writeback"), out("issue"),
                     taken)
      BY DEF Done
    <3>2. \A name : out(name) = FALSE
      OBVIOUS
    <3> HIDE DEF out
    <3> QED BY <3>1, <3>2, NoPhase
  <2> HIDE DEF S
  <2> QED BY <1>5, <2>1, <2>2
<1>9. after[5] = Done(S(5), taken)
  <2>1. after[1] = Done(S(1), taken)
    BY <1>7, <1>8
  <2>2. after[2] = Done(S(2), taken)
    BY <1>7, <2>1
  <2>3. after[3] = Done(S(3), taken)
    BY <1>7, <2>2
  <2>4. after[4] = Done(S(4), taken)
    BY <1>7, <2>3
  <2> QED BY <1>7, <2>4
<1>10. S(5) = PhaseNames
  <2>1. S(5) = {order[1], order[2], order[3], order[4], order[5]}
    OBVIOUS
  <2>2. \A name \in PhaseNames : name \in {order[1], order[2], order[3], order[4], order[5]}
    BY <1>6 DEF PhaseNames
  <2> QED BY <1>6, <2>1, <2>2
<1> QED BY <1>1, <1>9, <1>10

\* Whatever the order, each phase has run once, so that the copies are the same.
LEMMA OrderDoesNotMatter == PipelineInvariant => PhaseOrderIrrelevant
<1> SUFFICES ASSUME PipelineInvariant, NEW taken \in (IF Predicts THEN BOOLEAN ELSE {FALSE}),
                    NEW order \in PhaseOrders
             PROVE  InThisOrder(order, taken) = Phases(taken)
  BY DEF PhaseOrderIrrelevant
<1>1. taken \in BOOLEAN
  OBVIOUS
<1> QED BY <1>1, AnyOrder, CodeOrder

\* In every cycle the five phases may be exchanged at will, as README.md:5 has it:
\* each reads the current buffers, and where two of them write to the same part of
\* the next copies (cpu.cpp:178-415), they write to different entries of it, or to
\* different fields of an entry.
THEOREM PhaseOrderNeverMatters == Spec => []PhaseOrderIrrelevant
  BY PipelineInvariance, OrderDoesNotMatter, PTL
============================================================================
