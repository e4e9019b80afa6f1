----------------------------- MODULE ReorderBuf -----------------------------
(***************************************************************************)
(* The reorder buffer, src/src/tomasulo/reorderbuf.cpp: a circular queue   *)
(* of in-flight instructions without unused slots.                         *)
(*                                                                         *)
(* The code keeps two copies of every component, the current one and the   *)
(* one of the next cycle, and swaps them at the clock edge.  Here the      *)
(* variable rob is the current copy and the parameter n of an operator is  *)
(* the next copy as built so far; an operator returns the next copy with   *)
(* its own writes added.  compute_next starts from n = rob and update is   *)
(* rob' = n.  Slots keep their old contents when they are freed, as the    *)
(* code only clears busy.                                                  *)
(***************************************************************************)
EXTENDS Isa

CONSTANT RobSize    \* slots of the queue (ROB_SIZE, 32 in the code)

ASSUME RobSizeAssumption == RobSize \in Nat \ {0}

VARIABLE rob        \* [slots, head, tail, next_tag]

RobSlots == 0 .. RobSize - 1

\* Mutant of RobSucc: the modulus is one too large.
RobSuccTooFar(i) == IF i = RobSize THEN 0 ELSE i + 1

\* (i + 1) % ROB_SIZE
RobSucc(i) == IF i = RobSize - 1 THEN 0 ELSE i + 1

RobEntry ==
  [busy: BOOLEAN, tag: Nat, type: InstrType, dest_reg: Reg, pc: Word,
   ready: BOOLEAN, val: Word,
   is_branch: BOOLEAN, branch_pred_taken: BOOLEAN, branch_actual_taken: BOOLEAN,
   branch_target: Word, pred_target: Word, branch_pred_context: Nat,
   is_store: BOOLEAN, store_addr: Word, store_value: Word]

\* A value-initialised entry: type ADD is the enumerator 0.
ZeroRobEntry ==
  [busy |-> FALSE, tag |-> 0, type |-> "ADD", dest_reg |-> 0, pc |-> 0,
   ready |-> FALSE, val |-> 0,
   is_branch |-> FALSE, branch_pred_taken |-> FALSE, branch_actual_taken |-> FALSE,
   branch_target |-> 0, pred_target |-> 0, branch_pred_context |-> 0,
   is_store |-> FALSE, store_addr |-> 0, store_value |-> 0]

RobInit == rob = [slots    |-> [i \in RobSlots |-> ZeroRobEntry],
                  head     |-> 0,
                  tail     |-> 0,
                  next_tag |-> 1]

RobHolds(slots, i, tag) == slots[i].busy /\ slots[i].tag = tag

----------------------------------------------------------------------------
(* Queries: all of them read the current copy.                             *)

\* Mutant of RobIsFull: looks at ready instead of busy.
RobIsFullWhenReady == rob.head = rob.tail /\ rob.slots[rob.head].ready

RobIsFull  == rob.head = rob.tail /\ rob.slots[rob.head].busy
RobIsEmpty == rob.head = rob.tail /\ ~rob.slots[rob.head].busy

\* Mutants of RobCanCommit: one forgets ready, one reads the next copy.
RobCanCommitBusy(n) == rob.slots[n.head].busy
RobCanCommitNext(n) == n.slots[n.head].busy /\ n.slots[n.head].ready

RobCanCommit(n) == rob.slots[n.head].busy /\ rob.slots[n.head].ready
RobHeadEntry(n) == rob.slots[n.head]

\* Mutant of RobReadyResults: no value is ever found in the buffer.
RobReadyResultsNone(tag) == {}

\* get_result_if_ready: the values it may return, none or one.
RobReadyResults(tag) ==
  {rob.slots[i].val : i \in {j \in RobSlots : RobHolds(rob.slots, j, tag) /\ rob.slots[j].ready}}

----------------------------------------------------------------------------
(* Issue                                                                   *)

\* The fields alloc copies from its arguments.
RobArgs == [type: InstrType, dest_reg: Reg, pc: Word, is_branch: BOOLEAN,
            branch_pred_taken: BOOLEAN, branch_target: Word, is_store: BOOLEAN,
            pred_target: Word, branch_pred_context: Nat]

\* Mutant of RobAlloc: allocates in a full buffer too.
RobAllocUnchecked(n, args) ==
  [n EXCEPT !.slots = [@ EXCEPT ![n.tail] =
                         [@ EXCEPT !.busy = TRUE, !.tag = n.next_tag, !.ready = FALSE]],
            !.tail = RobSucc(@), !.next_tag = @ + 1]

RobAlloc(n, args) ==
  IF RobIsFull
  THEN n
  ELSE [slots    |-> [n.slots EXCEPT ![n.tail] =
                        [busy |-> TRUE, tag |-> n.next_tag, type |-> args.type,
                         dest_reg |-> args.dest_reg, pc |-> args.pc,
                         ready |-> FALSE, val |-> 0,
                         is_branch |-> args.is_branch,
                         branch_pred_taken |-> args.branch_pred_taken,
                         branch_actual_taken |-> FALSE,
                         branch_target |-> args.branch_target,
                         pred_target |-> args.pred_target,
                         branch_pred_context |-> args.branch_pred_context,
                         is_store |-> args.is_store, store_addr |-> 0, store_value |-> 0]],
        head     |-> n.head,
        tail     |-> RobSucc(n.tail),
        next_tag |-> n.next_tag + 1]

----------------------------------------------------------------------------
(* Writeback.  A write needs the entry in the current copy and still       *)
(* scheduled to be there in the next one.                                  *)

\* Mutant of RobWritable: any entry that is busy before and after takes the write.
RobWritableBusy(n, i, tag) == rob.slots[i].busy /\ n.slots[i].busy

RobWritable(n, i, tag) == RobHolds(rob.slots, i, tag) /\ RobHolds(n.slots, i, tag)

RobWriteResult(n, tag, val) ==
  [n EXCEPT !.slots = [i \in RobSlots |->
     IF RobWritable(n, i, tag)
     THEN [n.slots[i] EXCEPT !.ready = TRUE, !.val = val]
     ELSE n.slots[i]]]

RobWriteBranchResult(n, tag, taken, target) ==
  [n EXCEPT !.slots = [i \in RobSlots |->
     IF RobWritable(n, i, tag) /\ rob.slots[i].is_branch
     THEN [n.slots[i] EXCEPT !.ready = TRUE,
                             !.branch_actual_taken = taken,
                             !.branch_target = target]
     ELSE n.slots[i]]]

\* write_store_result, for all the stores that finish in a cycle: done maps
\* the tag of each to its address and value.
RobWriteStoreResults(n, done) ==
  [n EXCEPT !.slots = [i \in RobSlots |->
     IF \E tag \in DOMAIN done : RobWritable(n, i, tag) /\ rob.slots[i].is_store
     THEN [n.slots[i] EXCEPT !.ready = TRUE,
                             !.store_addr = done[n.slots[i].tag].addr,
                             !.store_value = done[n.slots[i].tag].val]
     ELSE n.slots[i]]]

----------------------------------------------------------------------------
(* Commit and recovery                                                     *)

\* Mutant of RobMispredicted: only the direction is compared.
RobMispredictedDirection(e) == e.is_branch /\ e.branch_actual_taken # e.branch_pred_taken

RobMispredicted(e) ==
  /\ e.is_branch
  /\ \/ e.branch_actual_taken # e.branch_pred_taken
     \/ /\ e.branch_actual_taken /\ e.branch_pred_taken
        /\ e.branch_target # e.pred_target

\* Mutant of RobCommit: the head stays where it is.
RobCommitKeepsHead(n) == [n EXCEPT !.slots = [n.slots EXCEPT ![n.head].busy = FALSE]]

RobCommit(n) ==
  [n EXCEPT !.slots = [n.slots EXCEPT ![n.head].busy = FALSE],
            !.head  = RobSucc(n.head)]

\* The two assertions of flush_from_next.
RobFlushAsserts(tag) == \E i \in RobSlots : RobHolds(rob.slots, i, tag) /\ rob.slots[i].is_branch

\* Mutant of RobFlushFrom: looks for younger entries in the current copy, and
\* so misses the one issued in this cycle.
RobFlushFromCurrent(n, tag) ==
  LET at == CHOOSE i \in RobSlots : RobHolds(rob.slots, i, tag)
  IN  [n EXCEPT !.slots = [i \in RobSlots |->
                  IF rob.slots[i].busy /\ rob.slots[i].tag > tag
                  THEN [n.slots[i] EXCEPT !.busy = FALSE]
                  ELSE n.slots[i]],
                !.tail = RobSucc(at)]

RobFlushFrom(n, tag) ==
  LET at == CHOOSE i \in RobSlots : RobHolds(rob.slots, i, tag)
  IN  [n EXCEPT !.slots = [i \in RobSlots |->
                  IF n.slots[i].busy /\ n.slots[i].tag > tag
                  THEN [n.slots[i] EXCEPT !.busy = FALSE]
                  ELSE n.slots[i]],
                !.tail = RobSucc(at)]

----------------------------------------------------------------------------
(* Properties                                                              *)

\* Type invariant of the buffer.
RobTypeOK == rob \in [slots: [RobSlots -> RobEntry], head: RobSlots, tail: RobSlots,
                      next_tag: Nat \ {0}]

\* How many slots after the head slot i lies, going round the ring.
RobDist(head, i) == IF i >= head THEN i - head ELSE i - head + RobSize

\* How many entries the ring holds according to its two ends.
RobCount(r) ==
  IF r.head = r.tail
  THEN (IF r.slots[r.head].busy THEN RobSize ELSE 0)
  ELSE RobDist(r.head, r.tail)

\* The busy slots are exactly those from head up to tail, so that head = tail
\* with a busy head slot means full and nothing else (reorderbuf.hpp:66-68).
RobContiguous ==
  \A i \in RobSlots : rob.slots[i].busy <=> RobDist(rob.head, i) < RobCount(rob)

\* In-flight tags grow strictly from head to tail and are below next_tag:
\* every "older than" of the machine is a comparison of tags, also after a
\* squash left a gap in the numbering.
RobTagsInOrder ==
  /\ \A i \in RobSlots : rob.slots[i].busy =>
       /\ rob.slots[i].tag \in 1 .. rob.next_tag - 1
  /\ \A i, j \in RobSlots :
       rob.slots[i].busy /\ rob.slots[j].busy /\ RobDist(rob.head, i) < RobDist(rob.head, j)
         => rob.slots[i].tag < rob.slots[j].tag
============================================================================
