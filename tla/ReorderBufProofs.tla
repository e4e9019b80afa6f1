--------------------------- MODULE ReorderBufProofs ---------------------------
(***************************************************************************)
(* Lemmas about the reorder buffer, for every ring size: its two ends and  *)
(* its busy flags agree, and its tags are in age order, through all that a *)
(* clock cycle may do to the next copy of the buffer.                      *)
(*                                                                         *)
(* Nothing here depends on what a result or an address is: an entry is     *)
(* known by its fields (EntryShape), not by the types of the values in     *)
(* them.  So the lemmas serve the buffer on its own (RobQueueProofs) as    *)
(* well as the processor, whose arithmetic is beyond the provers.          *)
(***************************************************************************)
EXTENDS ReorderBuf, TLAPS

RobEntryFields ==
  {"busy", "tag", "type", "dest_reg", "pc", "ready", "val", "is_branch",
   "branch_pred_taken", "branch_actual_taken", "branch_target", "pred_target",
   "branch_pred_context", "is_store", "store_addr", "store_value"}

EntryShape(e) ==
  /\ DOMAIN e = RobEntryFields
  /\ e.busy \in BOOLEAN /\ e.ready \in BOOLEAN
  /\ e.is_branch \in BOOLEAN /\ e.is_store \in BOOLEAN
  /\ e.tag \in Nat

RingShape(r) ==
  /\ DOMAIN r = {"slots", "head", "tail", "next_tag"}
  /\ DOMAIN r.slots = RobSlots
  /\ r.head \in RobSlots /\ r.tail \in RobSlots /\ r.next_tag \in Nat \ {0}
  /\ \A i \in RobSlots : EntryShape(r.slots[i])

Contiguous(r) == \A i \in RobSlots : r.slots[i].busy <=> RobDist(r.head, i) < RobCount(r)

TagsInOrder(r) ==
  /\ \A i \in RobSlots : r.slots[i].busy => r.slots[i].tag \in 1 .. r.next_tag - 1
  /\ \A i, j \in RobSlots :
       r.slots[i].busy /\ r.slots[j].busy /\ RobDist(r.head, i) < RobDist(r.head, j)
         => r.slots[i].tag < r.slots[j].tag

RingOK(r) == RingShape(r) /\ Contiguous(r) /\ TagsInOrder(r)

----------------------------------------------------------------------------
(* Going round the ring                                                    *)

\* The slot after a slot is a slot: (i + 1) % ROB_SIZE stays in the array.
LEMMA SuccType == \A i \in RobSlots : RobSucc(i) \in RobSlots
  BY RobSizeAssumption DEF RobSlots, RobSucc

\* RobDist numbers the slots from the head on, each with its own number.
LEMMA DistType ==
  \A h, i \in RobSlots : /\ RobDist(h, i) \in 0 .. RobSize - 1
                         /\ RobDist(h, i) = 0 <=> i = h
  BY RobSizeAssumption DEF RobSlots, RobDist

\* Two slots at the same distance from the head are the same slot.
LEMMA DistInjective ==
  \A h, i, j \in RobSlots : RobDist(h, i) = RobDist(h, j) => i = j
  BY RobSizeAssumption DEF RobSlots, RobDist

\* Moving the head by one slot moves every slot one nearer, and the old head
\* to the far end.
LEMMA DistFromSucc ==
  \A h, i \in RobSlots :
    RobDist(RobSucc(h), i) = IF i = h THEN RobSize - 1 ELSE RobDist(h, i) - 1
  BY RobSizeAssumption DEF RobSlots, RobDist, RobSucc

\* The next slot is one further away, unless it is the head again.
LEMMA DistToSucc ==
  \A h, i \in RobSlots :
    IF RobSucc(i) = h THEN RobDist(h, i) = RobSize - 1
    ELSE RobDist(h, RobSucc(i)) = RobDist(h, i) + 1
  BY RobSizeAssumption DEF RobSlots, RobDist, RobSucc

\* A ring holds between none and RobSize entries.
LEMMA CountType ==
  ASSUME NEW r, RingShape(r)
  PROVE  RobCount(r) \in 0 .. RobSize
  BY DistType, RobSizeAssumption DEF RingShape, EntryShape, RobCount

\* Entries in flight are told apart by their tags.
LEMMA TagsUnique ==
  ASSUME NEW r, RingOK(r), NEW i \in RobSlots, NEW j \in RobSlots,
         r.slots[i].busy, r.slots[j].busy, r.slots[i].tag = r.slots[j].tag
  PROVE  i = j
<1>1. /\ RobDist(r.head, i) \in Nat /\ RobDist(r.head, j) \in Nat
      /\ r.slots[i].tag \in Nat /\ r.slots[j].tag \in Nat
  BY DistType, RobSizeAssumption DEF RingOK, RingShape, EntryShape
<1>2. ~(RobDist(r.head, i) < RobDist(r.head, j)) /\ ~(RobDist(r.head, j) < RobDist(r.head, i))
  BY <1>1 DEF RingOK, TagsInOrder
<1>3. RobDist(r.head, i) = RobDist(r.head, j)
  BY <1>1, <1>2
<1> QED BY <1>3, DistInjective DEF RingOK, RingShape

\* The head is the oldest entry in flight.
LEMMA HeadIsOldest ==
  ASSUME NEW r, RingOK(r), r.slots[r.head].busy, NEW i \in RobSlots, r.slots[i].busy, i # r.head
  PROVE  r.slots[r.head].tag < r.slots[i].tag
<1>1. RobDist(r.head, r.head) < RobDist(r.head, i)
  BY DistType, RobSizeAssumption DEF RingOK, RingShape
<1> QED BY <1>1 DEF RingOK, RingShape, TagsInOrder

----------------------------------------------------------------------------
(* Commit                                                                  *)

\* Writing new slots keeps the shape of a buffer if each of them has its own.
LEMMA SlotsShape ==
  ASSUME NEW r, RingShape(r), NEW x, DOMAIN x = RobSlots, \A i \in RobSlots : EntryShape(x[i])
  PROVE  LET s == [r EXCEPT !.slots = x]
         IN  /\ RingShape(s) /\ s.slots = x
             /\ s.head = r.head /\ s.tail = r.tail /\ s.next_tag = r.next_tag
<1> DEFINE s == [r EXCEPT !.slots = x]
<1>1. DOMAIN s = DOMAIN r /\ s.slots = x
      /\ s.head = r.head /\ s.tail = r.tail /\ s.next_tag = r.next_tag
  BY DEF RingShape
<1> HIDE DEF s
<1>2. RingShape(s)
  BY <1>1 DEF RingShape
<1> QED BY <1>1, <1>2 DEF s

\* Freeing a busy head keeps a good ring good, with one entry less.
LEMMA CommitKeepsRing ==
  ASSUME NEW r, RingOK(r), r.slots[r.head].busy
  PROVE  RingOK(RobCommit(r)) /\ RobCount(RobCommit(r)) = RobCount(r) - 1
<1> DEFINE s == RobCommit(r)
           h == r.head
<1>1. /\ RingShape(r) /\ h \in RobSlots /\ r.tail \in RobSlots /\ RobSucc(h) \in RobSlots
      /\ r.next_tag \in Nat \ {0}
      /\ RobCount(r) \in 0 .. RobSize
  BY SuccType, CountType DEF RingOK, RingShape
<1>2. /\ RingShape(s)
      /\ s.head = RobSucc(h) /\ s.tail = r.tail /\ s.next_tag = r.next_tag
      /\ \A i \in RobSlots : /\ s.slots[i].busy <=> r.slots[i].busy /\ i # h
                             /\ s.slots[i].tag = r.slots[i].tag
  <2> DEFINE x == [r.slots EXCEPT ![h].busy = FALSE]
  <2>1. s = [r EXCEPT !.slots = x, !.head = RobSucc(h)]
    BY DEF RobCommit
  <2>2. DOMAIN x = RobSlots
    BY <1>1 DEF RingShape
  <2>3. ASSUME NEW i \in RobSlots
        PROVE  /\ EntryShape(x[i])
               /\ x[i].busy <=> r.slots[i].busy /\ i # h
               /\ x[i].tag = r.slots[i].tag
    <3>1. EntryShape(r.slots[i]) /\ h \in DOMAIN r.slots
      BY <1>1 DEF RingShape
    <3>2. x[i] = IF i = h THEN [r.slots[i] EXCEPT !.busy = FALSE] ELSE r.slots[i]
      BY <1>1 DEF RingShape
    <3> HIDE DEF x, h
    <3> QED BY <3>1, <3>2 DEF EntryShape, RobEntryFields
  <2> HIDE DEF x
  <2>4. DOMAIN s = DOMAIN r /\ s.slots = x /\ s.head = RobSucc(h) /\ s.tail = r.tail
        /\ s.next_tag = r.next_tag
    BY <1>1, <2>1 DEF RingShape
  <2> QED BY <1>1, <2>2, <2>3, <2>4 DEF RingShape
<1>3. RobCount(s) = RobCount(r) - 1
  <2>1. RobCount(r) >= 1
    BY <1>1, DistType DEF RingOK, Contiguous
  <2>2. CASE r.tail = h
    BY <1>1, <1>2, <2>2, DistFromSucc, RobSizeAssumption DEF RobCount, RobSlots, RobSucc
  <2>3. CASE r.tail # h /\ r.tail = RobSucc(h)
    BY <1>1, <1>2, <2>3, DistFromSucc, DistType, RobSizeAssumption
    DEF RobCount, RingOK, Contiguous, RobDist, RobSlots, RobSucc
  <2>4. CASE r.tail # h /\ r.tail # RobSucc(h)
    BY <1>1, <1>2, <2>4, DistFromSucc, DistType DEF RobCount
  <2> QED BY <2>2, <2>3, <2>4
<1>4. Contiguous(s)
  <2> SUFFICES ASSUME NEW i \in RobSlots
               PROVE  s.slots[i].busy <=> RobDist(s.head, i) < RobCount(s)
    BY DEF Contiguous
  <2>1. CASE i = h
    BY <1>1, <1>2, <1>3, <2>1, DistFromSucc, RobSizeAssumption
  <2>2. CASE i # h
    BY <1>1, <1>2, <1>3, <2>2, DistFromSucc, DistType, RobSizeAssumption
    DEF RingOK, Contiguous
  <2> QED BY <2>1, <2>2
<1>5. TagsInOrder(s)
  <2>1. ASSUME NEW i \in RobSlots, s.slots[i].busy
        PROVE  s.slots[i].tag \in 1 .. s.next_tag - 1
    BY <1>2, <2>1 DEF RingOK, TagsInOrder
  <2>2. ASSUME NEW i \in RobSlots, NEW j \in RobSlots, s.slots[i].busy, s.slots[j].busy,
               RobDist(s.head, i) < RobDist(s.head, j)
        PROVE  s.slots[i].tag < s.slots[j].tag
    <3>1. i # h /\ j # h /\ RobDist(h, i) < RobDist(h, j)
      BY <1>1, <1>2, <2>2, DistFromSucc, DistType
    <3> QED BY <1>2, <2>2, <3>1 DEF RingOK, TagsInOrder
  <2> QED BY <2>1, <2>2 DEF TagsInOrder
<1> QED BY <1>2, <1>3, <1>4, <1>5 DEF RingOK

----------------------------------------------------------------------------
(* Writeback                                                               *)

\* A write that leaves the two ends, the busy flags and the tags alone.
SameQueue(r, s) ==
  /\ s.head = r.head /\ s.tail = r.tail /\ s.next_tag = r.next_tag
  /\ \A i \in RobSlots : s.slots[i].busy = r.slots[i].busy /\ s.slots[i].tag = r.slots[i].tag

\* Such a write keeps a good ring good, and as full as it was.
LEMMA SameQueueKeepsRing ==
  ASSUME NEW r, RingOK(r), NEW s, RingShape(s), SameQueue(r, s)
  PROVE  RingOK(s) /\ RobCount(s) = RobCount(r)
<1>1. RobCount(s) = RobCount(r)
  BY DEF SameQueue, RobCount, RingOK, RingShape
<1> QED BY <1>1 DEF SameQueue, RingOK, Contiguous, TagsInOrder

\* write_result is such a write, of any tag and any value.
LEMMA WriteResultShape ==
  ASSUME NEW r, RingShape(r), NEW tag, NEW val
  PROVE  RingShape(RobWriteResult(r, tag, val)) /\ SameQueue(r, RobWriteResult(r, tag, val))
<1> DEFINE x == [i \in RobSlots |-> IF RobWritable(r, i, tag)
                                   THEN [r.slots[i] EXCEPT !.ready = TRUE, !.val = val]
                                   ELSE r.slots[i]]
<1>1. \A i \in RobSlots : EntryShape(r.slots[i])
  BY DEF RingShape
<1>2. \A i \in RobSlots : EntryShape(x[i]) /\ x[i].busy = r.slots[i].busy /\ x[i].tag = r.slots[i].tag
  BY <1>1 DEF EntryShape, RobEntryFields
<1>3. DOMAIN x = RobSlots /\ RobWriteResult(r, tag, val) = [r EXCEPT !.slots = x]
  BY DEF RobWriteResult
<1> HIDE DEF x
<1> QED BY <1>2, <1>3, SlotsShape DEF SameQueue

\* So is write_branch_result ...
LEMMA WriteBranchResultShape ==
  ASSUME NEW r, RingShape(r), NEW tag, NEW taken, NEW target
  PROVE  /\ RingShape(RobWriteBranchResult(r, tag, taken, target))
         /\ SameQueue(r, RobWriteBranchResult(r, tag, taken, target))
<1> DEFINE x == [i \in RobSlots |->
                   IF RobWritable(r, i, tag) /\ rob.slots[i].is_branch
                   THEN [r.slots[i] EXCEPT !.ready = TRUE, !.branch_actual_taken = taken,
                                           !.branch_target = target]
                   ELSE r.slots[i]]
<1>1. \A i \in RobSlots : EntryShape(r.slots[i])
  BY DEF RingShape
<1>2. \A i \in RobSlots : EntryShape(x[i]) /\ x[i].busy = r.slots[i].busy /\ x[i].tag = r.slots[i].tag
  BY <1>1 DEF EntryShape, RobEntryFields
<1>3. DOMAIN x = RobSlots /\ RobWriteBranchResult(r, tag, taken, target) = [r EXCEPT !.slots = x]
  BY DEF RobWriteBranchResult
<1> HIDE DEF x
<1> QED BY <1>2, <1>3, SlotsShape DEF SameQueue

\* ... and write_store_result, for the stores that finish in a cycle.
LEMMA WriteStoreResultsShape ==
  ASSUME NEW r, RingShape(r), NEW done
  PROVE  RingShape(RobWriteStoreResults(r, done)) /\ SameQueue(r, RobWriteStoreResults(r, done))
<1> DEFINE x == [i \in RobSlots |->
                   IF \E tag \in DOMAIN done : RobWritable(r, i, tag) /\ rob.slots[i].is_store
                   THEN [r.slots[i] EXCEPT !.ready = TRUE,
                                           !.store_addr = done[r.slots[i].tag].addr,
                                           !.store_value = done[r.slots[i].tag].val]
                   ELSE r.slots[i]]
<1>1. \A i \in RobSlots : EntryShape(r.slots[i])
  BY DEF RingShape
<1>2. \A i \in RobSlots : EntryShape(x[i]) /\ x[i].busy = r.slots[i].busy /\ x[i].tag = r.slots[i].tag
  BY <1>1 DEF EntryShape, RobEntryFields
<1>3. DOMAIN x = RobSlots /\ RobWriteStoreResults(r, done) = [r EXCEPT !.slots = x]
  BY DEF RobWriteStoreResults
<1> HIDE DEF x
<1> QED BY <1>2, <1>3, SlotsShape DEF SameQueue

----------------------------------------------------------------------------
(* Issue                                                                   *)

\* The test is_full makes on the two ends and the head slot says that the
\* ring is full, and nothing else.
LEMMA FullMeansFull ==
  ASSUME RingOK(rob)
  PROVE  RobIsFull <=> RobCount(rob) = RobSize
  BY DistType, RobSizeAssumption DEF RobIsFull, RobCount, RingOK, RingShape, EntryShape

\* The fields of alloc's arguments that say where an instruction goes.
ArgsShape(args) == args.is_branch \in BOOLEAN /\ args.is_store \in BOOLEAN

\* The entry alloc writes to the tail.
NewEntry(r, args) ==
  [busy |-> TRUE, tag |-> r.next_tag, type |-> args.type,
   dest_reg |-> args.dest_reg, pc |-> args.pc, ready |-> FALSE, val |-> 0,
   is_branch |-> args.is_branch, branch_pred_taken |-> args.branch_pred_taken,
   branch_actual_taken |-> FALSE, branch_target |-> args.branch_target,
   pred_target |-> args.pred_target,
   branch_pred_context |-> args.branch_pred_context,
   is_store |-> args.is_store, store_addr |-> 0, store_value |-> 0]

\* What alloc does to a copy when the current one has room.
LEMMA AllocEffect ==
  ASSUME NEW r, RingShape(r), ~RobIsFull, NEW args, ArgsShape(args)
  PROVE  LET s == RobAlloc(r, args)
         IN  /\ RingShape(s)
             /\ s.head = r.head /\ s.tail = RobSucc(r.tail) /\ s.next_tag = r.next_tag + 1
             /\ s.slots[r.tail] = NewEntry(r, args)
             /\ \A i \in RobSlots \ {r.tail} : s.slots[i] = r.slots[i]
<1> DEFINE s == RobAlloc(r, args)
<1>1. r.tail \in RobSlots /\ RobSucc(r.tail) \in RobSlots /\ r.next_tag \in Nat \ {0}
  BY SuccType DEF RingShape
<1>2. EntryShape(NewEntry(r, args))
  BY <1>1 DEF EntryShape, RobEntryFields, NewEntry, ArgsShape
<1>3. RobAlloc(r, args) = [slots    |-> [r.slots EXCEPT ![r.tail] = NewEntry(r, args)],
                           head     |-> r.head,
                           tail     |-> RobSucc(r.tail),
                           next_tag |-> r.next_tag + 1]
  BY DEF RobAlloc, NewEntry
<1> HIDE DEF s
<1>4. /\ DOMAIN s = {"slots", "head", "tail", "next_tag"}
      /\ s.slots = [r.slots EXCEPT ![r.tail] = NewEntry(r, args)]
      /\ s.head = r.head /\ s.tail = RobSucc(r.tail) /\ s.next_tag = r.next_tag + 1
  BY <1>3 DEF s
<1>5. /\ DOMAIN s.slots = RobSlots
      /\ s.slots[r.tail] = NewEntry(r, args)
      /\ \A i \in RobSlots \ {r.tail} : s.slots[i] = r.slots[i]
  BY <1>1, <1>4 DEF RingShape
<1>6. RingShape(s)
  BY <1>1, <1>2, <1>4, <1>5 DEF RingShape
<1> QED BY <1>4, <1>5, <1>6 DEF s

\* Allocating the tail slot of a ring that has a free one.
LEMMA AllocKeepsRing ==
  ASSUME NEW r, RingOK(r), RobCount(r) # RobSize, ~RobIsFull, NEW args, ArgsShape(args)
  PROVE  /\ RingOK(RobAlloc(r, args)) /\ RobCount(RobAlloc(r, args)) = RobCount(r) + 1
         /\ ~r.slots[r.tail].busy /\ RobDist(r.head, r.tail) = RobCount(r)
<1> DEFINE s == RobAlloc(r, args)
           t == r.tail
<1>1. /\ RingShape(r) /\ t \in RobSlots /\ r.head \in RobSlots /\ RobSucc(t) \in RobSlots
      /\ r.next_tag \in Nat \ {0}
      /\ RobCount(r) \in 0 .. RobSize - 1
  BY SuccType, CountType, RobSizeAssumption DEF RingOK, RingShape
<1>2. /\ RingShape(s)
      /\ s.head = r.head /\ s.tail = RobSucc(t) /\ s.next_tag = r.next_tag + 1
      /\ s.slots[t].busy /\ s.slots[t].tag = r.next_tag
      /\ \A i \in RobSlots \ {t} : s.slots[i] = r.slots[i]
  <2>1. /\ RingShape(s)
        /\ s.head = r.head /\ s.tail = RobSucc(t) /\ s.next_tag = r.next_tag + 1
        /\ s.slots[t] = NewEntry(r, args)
        /\ \A i \in RobSlots \ {t} : s.slots[i] = r.slots[i]
    BY <1>1, AllocEffect
  <2>2. NewEntry(r, args).busy /\ NewEntry(r, args).tag = r.next_tag
    BY DEF NewEntry
  <2> QED BY <2>1, <2>2
<1>3. RobDist(r.head, t) = RobCount(r)
  BY <1>1, DistType DEF RobCount
<1>4. RobCount(s) = RobCount(r) + 1
  <2>1. CASE RobSucc(t) = r.head
    <3>1. RobCount(r) = RobSize - 1
      BY <1>1, <1>3, <2>1, DistToSucc
    <3>2. s.slots[r.head].busy
      BY <1>1, <1>2, <3>1, DistType, RobSizeAssumption DEF RingOK, Contiguous, RobCount
    <3> QED BY <1>2, <2>1, <3>1, <3>2, RobSizeAssumption DEF RobCount
  <2>2. CASE RobSucc(t) # r.head
    BY <1>1, <1>2, <1>3, <2>2, DistToSucc DEF RobCount
  <2> QED BY <2>1, <2>2
<1>5. Contiguous(s)
  <2> SUFFICES ASSUME NEW i \in RobSlots
               PROVE  s.slots[i].busy <=> RobDist(s.head, i) < RobCount(s)
    BY DEF Contiguous
  <2>1. CASE i = t
    BY <1>1, <1>2, <1>3, <1>4, <2>1
  <2>2. CASE i # t
    <3>1. RobDist(r.head, i) # RobCount(r)
      BY <1>1, <1>3, <2>2, DistInjective
    <3> QED BY <1>1, <1>2, <1>4, <2>2, <3>1, DistType DEF RingOK, Contiguous
  <2> QED BY <2>1, <2>2
<1>6. TagsInOrder(s)
  <2>1. ASSUME NEW i \in RobSlots, s.slots[i].busy
        PROVE  s.slots[i].tag \in 1 .. s.next_tag - 1
    BY <1>1, <1>2, <2>1 DEF RingOK, TagsInOrder
  <2>2. ASSUME NEW i \in RobSlots, NEW j \in RobSlots, s.slots[i].busy, s.slots[j].busy,
               RobDist(s.head, i) < RobDist(s.head, j)
        PROVE  s.slots[i].tag < s.slots[j].tag
    <3>1. i # t
      BY <1>1, <1>2, <1>3, <1>4, <1>5, <2>2, DistType DEF Contiguous
    <3>2. CASE j = t
      BY <1>1, <1>2, <2>2, <3>1, <3>2 DEF RingOK, TagsInOrder
    <3>3. CASE j # t
      BY <1>2, <2>2, <3>1, <3>3 DEF RingOK, TagsInOrder
    <3> QED BY <3>2, <3>3
  <2> QED BY <2>1, <2>2 DEF TagsInOrder
<1>7. ~r.slots[t].busy
  BY <1>1, <1>3 DEF RingOK, Contiguous
<1> QED BY <1>2, <1>3, <1>4, <1>5, <1>6, <1>7 DEF RingOK

----------------------------------------------------------------------------
(* One clock cycle                                                         *)

\* After the commit of the head, the next copy holds only younger entries,
\* behind the place where the head was.
Behind(n) ==
  /\ rob.slots[rob.head].busy
  /\ n.head = RobSucc(rob.head)
  /\ n.next_tag >= rob.next_tag
  /\ \A i \in RobSlots : n.slots[i].busy => n.slots[i].tag > rob.slots[rob.head].tag

\* What holds of the next copy n before issue, when the head has committed or not.
MidCycle(n, committed) ==
  /\ RingOK(n)
  /\ n.next_tag >= rob.next_tag
  /\ ~RobIsFull => RobCount(n) # RobSize
  /\ committed => Behind(n)

Retired(commit) == IF commit THEN RobCommit(rob) ELSE rob

\* After commit() the next copy is good for the rest of the cycle.
LEMMA CommitMidCycle ==
  ASSUME RingOK(rob), NEW commit \in BOOLEAN, commit => RobCanCommit(rob)
  PROVE  MidCycle(Retired(commit), commit)
<1>1. /\ RingShape(rob) /\ rob.head \in RobSlots /\ rob.tail \in RobSlots
      /\ rob.next_tag \in Nat \ {0}
      /\ RobCount(rob) \in 0 .. RobSize
  BY CountType DEF RingOK, RingShape
<1>2. CASE ~commit
  BY <1>1, <1>2, FullMeansFull DEF Retired, MidCycle
<1>3. CASE commit
  <2> DEFINE n == RobCommit(rob)
             h == rob.head
  <2>1. rob.slots[h].busy
    BY <1>3 DEF RobCanCommit
  <2>2. RingOK(n) /\ RobCount(n) = RobCount(rob) - 1
    BY <2>1, CommitKeepsRing
  <2>3. n.head = RobSucc(h) /\ n.next_tag = rob.next_tag
    BY <1>1 DEF RobCommit, RingShape
  <2>4. ASSUME NEW i \in RobSlots, n.slots[i].busy
        PROVE  n.slots[i].tag > rob.slots[h].tag
    <3>1. i # h /\ rob.slots[i].busy /\ n.slots[i].tag = rob.slots[i].tag
      BY <1>1, <2>4 DEF RobCommit, RingShape, EntryShape, RobEntryFields
    <3> QED BY <1>1, <2>1, <3>1, HeadIsOldest DEF RingShape, EntryShape
  <2> QED BY <1>1, <1>3, <2>1, <2>2, <2>3, <2>4, RobSizeAssumption DEF Retired, MidCycle, Behind
<1> QED BY <1>2, <1>3

\* A write that leaves the queue alone keeps it so.
LEMMA SameQueueMidCycle ==
  ASSUME NEW r, NEW s, RingShape(s), SameQueue(r, s), NEW commit \in BOOLEAN, MidCycle(r, commit)
  PROVE  MidCycle(s, commit)
  BY SameQueueKeepsRing DEF MidCycle, Behind, SameQueue

\* After issue the ring may be full, but it is good, and still behind the
\* head that has committed.
LEMMA AllocEndsCycle ==
  ASSUME NEW r, NEW commit \in BOOLEAN, MidCycle(r, commit), RingOK(rob), NEW new, ArgsShape(new)
  PROVE  /\ RingOK(RobAlloc(r, new))
         /\ RobAlloc(r, new).next_tag >= rob.next_tag
         /\ commit => Behind(RobAlloc(r, new))
<1> DEFINE s == RobAlloc(r, new)
<1>1. /\ RingOK(r) /\ RingShape(r) /\ r.next_tag \in Nat /\ r.next_tag >= rob.next_tag
      /\ rob.next_tag \in Nat
  BY DEF MidCycle, RingOK, RingShape
<1>2. CASE RobIsFull
  BY <1>1, <1>2 DEF RobAlloc, MidCycle
<1>3. CASE ~RobIsFull
  <2>1. RingOK(s)
    BY <1>1, <1>3, AllocKeepsRing DEF MidCycle
  <2>2. /\ s.head = r.head /\ s.next_tag = r.next_tag + 1
        /\ s.slots[r.tail] = NewEntry(r, new)
        /\ \A i \in RobSlots \ {r.tail} : s.slots[i] = r.slots[i]
    BY <1>1, <1>3, AllocEffect
  <2>4. s.slots[r.tail].tag = r.next_tag
    BY <2>2 DEF NewEntry
  <2>3. ASSUME commit
        PROVE  Behind(s)
    <3>1. rob.slots[rob.head].tag < rob.next_tag /\ rob.slots[rob.head].tag \in Nat
      BY <2>3 DEF MidCycle, Behind, RingOK, RingShape, EntryShape, TagsInOrder
    <3>2. ASSUME NEW i \in RobSlots, s.slots[i].busy
          PROVE  s.slots[i].tag > rob.slots[rob.head].tag
      BY <1>1, <2>2, <2>3, <2>4, <3>1, <3>2 DEF MidCycle, Behind
    <3> QED BY <1>1, <2>2, <2>3, <3>2 DEF MidCycle, Behind
  <2> QED BY <1>1, <2>1, <2>2, <2>3
<1> QED BY <1>2, <1>3

\* The flush looks for the branch in the current copy, and finds it at the head.
LEMMA FlushFindsHead ==
  ASSUME RingOK(rob), rob.slots[rob.head].busy
  PROVE  (CHOOSE i \in RobSlots : RobHolds(rob.slots, i, rob.slots[rob.head].tag)) = rob.head
<1> DEFINE h == rob.head
           tag == rob.slots[h].tag
<1>1. h \in RobSlots /\ RobHolds(rob.slots, h, tag)
  BY DEF RobHolds, RingOK, RingShape
<1>2. ASSUME NEW i \in RobSlots, RobHolds(rob.slots, i, tag)
      PROVE  i = h
  BY <1>1, <1>2, TagsUnique DEF RobHolds
<1> QED BY <1>1, <1>2

\* The flush behind a mispredicted branch, which has just committed as the
\* head, leaves an empty ring whose ends meet behind that branch.
LEMMA FlushEmptiesRing ==
  ASSUME RingOK(rob), NEW n, RingOK(n), Behind(n)
  PROVE  LET s == RobFlushFrom(n, rob.slots[rob.head].tag)
         IN  /\ RingOK(s)
             /\ s.head = s.tail /\ s.next_tag = n.next_tag
             /\ \A i \in RobSlots : ~s.slots[i].busy
<1> DEFINE h == rob.head
           tag == rob.slots[h].tag
           s == RobFlushFrom(n, tag)
<1>1. h \in RobSlots /\ RobSucc(h) \in RobSlots /\ RingShape(n)
  BY SuccType DEF RingOK, RingShape
<1>2. /\ RingShape(s)
      /\ s.head = RobSucc(h) /\ s.tail = RobSucc(h) /\ s.next_tag = n.next_tag
      /\ \A i \in RobSlots : ~s.slots[i].busy
  <2>1. s = [n EXCEPT !.slots = [i \in RobSlots |->
                                   IF n.slots[i].busy /\ n.slots[i].tag > tag
                                   THEN [n.slots[i] EXCEPT !.busy = FALSE]
                                   ELSE n.slots[i]],
                      !.tail = RobSucc(h)]
    BY FlushFindsHead DEF RobFlushFrom, Behind
  <2> DEFINE x == [i \in RobSlots |-> IF n.slots[i].busy /\ n.slots[i].tag > tag
                                      THEN [n.slots[i] EXCEPT !.busy = FALSE]
                                      ELSE n.slots[i]]
  <2>2. \A i \in RobSlots : EntryShape(x[i]) /\ ~x[i].busy
    <3>1. \A i \in RobSlots : /\ EntryShape(n.slots[i])
                              /\ n.slots[i].busy => n.slots[i].tag > tag
      BY <1>1 DEF RingShape, Behind
    <3> HIDE DEF tag
    <3> QED BY <3>1 DEF EntryShape, RobEntryFields
  <2>3. DOMAIN x = RobSlots
    OBVIOUS
  <2> HIDE DEF x
  <2>4. DOMAIN s = DOMAIN n /\ s.slots = x /\ s.head = n.head /\ s.tail = RobSucc(h)
        /\ s.next_tag = n.next_tag
    BY <1>1, <2>1 DEF RingShape, x
  <2>5. n.head = RobSucc(h)
    BY DEF Behind
  <2> HIDE DEF s, h
  <2> QED BY <1>1, <2>2, <2>3, <2>4, <2>5 DEF RingShape
<1>3. RobCount(s) = 0
  BY <1>1, <1>2 DEF RobCount
<1>4. \A i \in RobSlots : ~(RobDist(s.head, i) < 0)
  BY <1>1, <1>2, DistType
<1> HIDE DEF s
<1>5. Contiguous(s) /\ TagsInOrder(s)
  BY <1>2, <1>3, <1>4 DEF Contiguous, TagsInOrder
<1> QED BY <1>2, <1>5 DEF RingOK, s

\* The empty ring is good.
LEMMA InitRing == RobInit => RingOK(rob)
<1> SUFFICES ASSUME RobInit PROVE RingOK(rob)
  OBVIOUS
<1>1. 0 \in RobSlots
  BY RobSizeAssumption DEF RobSlots
<1>2. EntryShape(ZeroRobEntry) /\ ~ZeroRobEntry.busy
  BY DEF ZeroRobEntry, EntryShape, RobEntryFields
<1>3. /\ RingShape(rob)
      /\ rob.head = 0 /\ rob.tail = 0 /\ \A i \in RobSlots : ~rob.slots[i].busy
  BY <1>1, <1>2 DEF RobInit, RingShape
<1>4. RobCount(rob) = 0 /\ \A i \in RobSlots : ~(RobDist(rob.head, i) < 0)
  BY <1>1, <1>3, DistType DEF RobCount
<1> QED BY <1>3, <1>4 DEF RingOK, Contiguous, TagsInOrder

\* The two invariants the runs check are those of the lemmas.
LEMMA RingOKGives == RingOK(rob) => RobContiguous /\ RobTagsInOrder
  BY DEF RingOK, Contiguous, TagsInOrder, RobContiguous, RobTagsInOrder
============================================================================
