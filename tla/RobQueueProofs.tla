--------------------------- MODULE RobQueueProofs ---------------------------
(***************************************************************************)
(* Proofs about the reorder buffer, for every ring size: its two ends and  *)
(* its busy flags always agree, and its tags are in age order.             *)
(*                                                                         *)
(* The three invariants hold together or not at all, so the inductive      *)
(* invariant is their conjunction.  The operations of a cycle are applied  *)
(* to the next copy one after the other; ReorderBufProofs shows that each  *)
(* leads from a good copy to a good copy, and here are the types of the    *)
(* values and the cycle as a whole.                                        *)
(*                                                                         *)
(* With this invariant the ring implements a bounded first-in first-out    *)
(* queue (InOrderQueue).  The refinement mapping reads the ring from the   *)
(* head on, as many entries as are busy; the proof replaces this number by *)
(* the distance of the two ends (BusyCount), follows every entry through   *)
(* the calls of a cycle (Kept), and then reads the cycle as one of the     *)
(* steps of the queue.                                                     *)
(***************************************************************************)
EXTENDS RobQueue, ReorderBufProofs, FiniteSetTheorems, FunctionTheorems

RingInv == RobTypeOK /\ RobContiguous /\ RobTagsInOrder

----------------------------------------------------------------------------
(* Types                                                                   *)

Rings == [slots: [RobSlots -> RobEntry], head: RobSlots, tail: RobSlots, next_tag: Nat \ {0}]

\* A copy with the type of the buffer has the shape the lemmas ask for.
LEMMA TypedShape ==
  ASSUME NEW r \in Rings
  PROVE  RingShape(r)
<1>1. \A i \in RobSlots : r.slots[i] \in RobEntry
  BY DEF Rings
<1>2. \A e \in RobEntry : EntryShape(e)
  BY DEF RobEntry, EntryShape, RobEntryFields
<1> QED BY <1>1, <1>2 DEF Rings, RingShape

\* The invariant says of the current copy what the lemmas say of any.
LEMMA RingInvDef == RingInv <=> rob \in Rings /\ RingOK(rob)
  BY TypedShape
  DEF RingInv, RingOK, Rings, Contiguous, TagsInOrder, RobTypeOK, RobContiguous, RobTagsInOrder

\* What the code initialises a word with.
LEMMA ZeroIsWord == 0 \in Word
  BY IsaAssumption DEF Word

\* commit only clears busy, and moves the head inside the array.
LEMMA CommitType == ASSUME NEW r \in Rings PROVE RobCommit(r) \in Rings
<1>1. r.head \in RobSlots /\ RobSucc(r.head) \in RobSlots /\ r.slots[r.head] \in RobEntry
  BY SuccType DEF Rings
<1>2. [r.slots[r.head] EXCEPT !.busy = FALSE] \in RobEntry
  BY <1>1 DEF RobEntry
<1>3. [r.slots EXCEPT ![r.head].busy = FALSE] \in [RobSlots -> RobEntry]
  BY <1>1, <1>2 DEF Rings
<1> QED BY <1>1, <1>3 DEF Rings, RobCommit

\* A result is a word, and so the entry it is written to stays an entry; ...
LEMMA WriteResultType ==
  ASSUME NEW r \in Rings, NEW tag, NEW val \in Word
  PROVE  RobWriteResult(r, tag, val) \in Rings
<1>1. \A e \in RobEntry : [e EXCEPT !.ready = TRUE, !.val = val] \in RobEntry
  BY DEF RobEntry
<1> QED BY <1>1 DEF Rings, RobWriteResult

\* ... the same for the outcome of a branch, ...
LEMMA WriteBranchResultType ==
  ASSUME NEW r \in Rings, NEW tag, NEW taken \in BOOLEAN, NEW target \in Word
  PROVE  RobWriteBranchResult(r, tag, taken, target) \in Rings
<1>1. \A e \in RobEntry :
        [e EXCEPT !.ready = TRUE, !.branch_actual_taken = taken, !.branch_target = target]
          \in RobEntry
  BY DEF RobEntry
<1> QED BY <1>1 DEF Rings, RobWriteBranchResult

\* ... and for the address and value of a store.
LEMMA WriteStoreResultsType ==
  ASSUME NEW r \in Rings, NEW tags, NEW done \in [tags -> [addr: Word, val: Word]]
  PROVE  RobWriteStoreResults(r, done) \in Rings
<1>1. \A e \in RobEntry, addr, val \in Word :
        [e EXCEPT !.ready = TRUE, !.store_addr = addr, !.store_value = val] \in RobEntry
  BY DEF RobEntry
<1>2. \A i \in RobSlots :
        (\E tag \in DOMAIN done : RobWritable(r, i, tag) /\ rob.slots[i].is_store)
          => done[r.slots[i].tag].addr \in Word /\ done[r.slots[i].tag].val \in Word
  BY DEF RobWritable, RobHolds
<1> QED BY <1>1, <1>2 DEF Rings, RobWriteStoreResults

\* alloc writes an entry made of its arguments.
LEMMA AllocType ==
  ASSUME NEW r \in Rings, NEW args \in RobArgs
  PROVE  RobAlloc(r, args) \in Rings
<1>1. /\ r.slots \in [RobSlots -> RobEntry] /\ r.head \in RobSlots
      /\ RobSucc(r.tail) \in RobSlots /\ r.next_tag \in Nat \ {0}
  BY SuccType DEF Rings
<1>2. NewEntry(r, args) \in RobEntry
  BY <1>1, ZeroIsWord DEF NewEntry, RobArgs, RobEntry
<1>3. [r.slots EXCEPT ![r.tail] = NewEntry(r, args)] \in [RobSlots -> RobEntry]
  BY <1>1, <1>2
<1>4. CASE RobIsFull
  BY <1>4 DEF RobAlloc
<1>5. CASE ~RobIsFull
  <2>1. RobAlloc(r, args) = [slots |-> [r.slots EXCEPT ![r.tail] = NewEntry(r, args)],
                             head |-> r.head, tail |-> RobSucc(r.tail),
                             next_tag |-> r.next_tag + 1]
    BY <1>5 DEF RobAlloc, NewEntry
  <2> QED BY <1>1, <1>3, <2>1 DEF Rings
<1> QED BY <1>4, <1>5

\* The flush only clears busy flags, and moves the tail behind a slot of the
\* array: the head, as FlushFindsHead shows.
LEMMA FlushType ==
  ASSUME NEW r \in Rings, RingOK(rob), rob.slots[rob.head].busy
  PROVE  RobFlushFrom(r, rob.slots[rob.head].tag) \in Rings
<1>1. \A e \in RobEntry : [e EXCEPT !.busy = FALSE] \in RobEntry
  BY DEF RobEntry
<1>2. RobSucc(rob.head) \in RobSlots
  BY SuccType DEF RingOK, RingShape
<1> QED BY <1>1, <1>2, FlushFindsHead DEF Rings, RobFlushFrom

----------------------------------------------------------------------------
(* One clock cycle                                                         *)

\* What holds of the next copy n, when the head has committed or not.
Underway(n, committed) == n \in Rings /\ MidCycle(n, committed)

\* A cycle begins with commit() or without.
LEMMA CommitUnderway ==
  ASSUME RingInv, NEW commit \in BOOLEAN, commit => RobCanCommit(rob)
  PROVE  Underway(DoCommit(rob, commit), commit)
  BY RingInvDef, CommitMidCycle, CommitType DEF Underway, DoCommit, Retired

\* The results of the stores that finish leave the queue as it is.
LEMMA StoresUnderway ==
  ASSUME NEW r, NEW commit \in BOOLEAN, Underway(r, commit), NEW tags, NEW val \in Words
  PROVE  Underway(DoStores(r, tags, val), commit)
<1> DEFINE done == [t \in tags |-> [addr |-> val, val |-> val]]
<1>1. done \in [tags -> [addr: Word, val: Word]]
  BY EnvAssumption
<1>2. r \in Rings /\ RingShape(r) /\ MidCycle(r, commit)
  BY TypedShape DEF Underway
<1> HIDE DEF done
<1>3. RobWriteStoreResults(r, done) \in Rings /\ MidCycle(RobWriteStoreResults(r, done), commit)
  BY <1>1, <1>2, WriteStoreResultsType, WriteStoreResultsShape, SameQueueMidCycle
<1> QED BY <1>3 DEF Underway, DoStores, done

\* So does the result on the bus, a branch's too.
LEMMA PublishUnderway ==
  ASSUME NEW r, NEW commit \in BOOLEAN, Underway(r, commit), NEW tag, NEW val \in Words,
         NEW taken \in BOOLEAN
  PROVE  Underway(DoPublish(r, tag, val, taken), commit)
<1> DEFINE w == RobWriteResult(r, tag, val)
           b == RobWriteBranchResult(w, tag, taken, val)
<1>1. r \in Rings /\ RingShape(r) /\ MidCycle(r, commit) /\ val \in Word
  BY EnvAssumption, TypedShape DEF Underway
<1>2. w \in Rings /\ RingShape(w) /\ MidCycle(w, commit)
  BY <1>1, WriteResultType, WriteResultShape, SameQueueMidCycle
<1>3. b \in Rings /\ MidCycle(b, commit)
  BY <1>1, <1>2, WriteBranchResultType, WriteBranchResultShape, SameQueueMidCycle
<1> QED BY <1>3 DEF Underway, DoPublish

\* The last step of a cycle: the flush, if what has committed was mispredicted.
LEMMA SquashKeepsRing ==
  ASSUME RingInv, NEW n \in Rings, RingOK(n), NEW commit \in BOOLEAN, commit => Behind(n)
  PROVE  DoSquash(n, commit) \in Rings /\ RingOK(DoSquash(n, commit))
<1>1. RingOK(rob)
  BY RingInvDef
<1>2. CASE ~(commit /\ RobMispredicted(RobHeadEntry(rob)))
  BY <1>2 DEF DoSquash
<1>3. CASE commit /\ RobMispredicted(RobHeadEntry(rob))
  <2>1. rob.slots[rob.head].busy
    BY <1>3 DEF Behind
  <2> QED BY <1>1, <1>3, <2>1, FlushEmptiesRing, FlushType DEF DoSquash, RobHeadEntry
<1> QED BY <1>2, <1>3

\* A good next copy becomes a good current copy.
LEMMA EdgeKeepsRing ==
  ASSUME NEW n \in Rings, RingOK(n), Edge(n)
  PROVE  RingInv'
<1>1. rob' \in Rings /\ RingOK(rob')
  BY DEF Edge
<1> QED BY <1>1 DEF RingInv, RingOK, Rings, Contiguous, TagsInOrder,
                    RobTypeOK, RobContiguous, RobTagsInOrder, RobCount

----------------------------------------------------------------------------
(* The invariant                                                           *)

\* The initial buffer has its type, and is the empty ring.
LEMMA InitRingInv == RobInit => RingInv
<1>1. 0 \in RobSlots /\ 0 \in Word /\ 0 \in Reg
  BY RobSizeAssumption, IsaAssumption, ZeroIsWord DEF RobSlots, Reg
<1>2. "ADD" \in InstrType
  BY DEF InstrType, AluTypes, AluRTypes
<1>3. ZeroRobEntry \in RobEntry
  BY <1>1, <1>2 DEF ZeroRobEntry, RobEntry
<1>4. RobInit => rob \in Rings
  BY <1>1, <1>3 DEF RobInit, Rings
<1> QED BY <1>4, InitRing, RingInvDef

\* A cycle without a result on the bus keeps the ring good.
LEMMA QuietStep == RingInv /\ QuietCycle => RingInv'
<1> SUFFICES ASSUME RingInv,
                    NEW commit \in BOOLEAN, NEW stores \in SUBSET Pending(TRUE), NEW val \in Words,
                    commit => RobCanCommit(rob),
                    Edge(DoSquash(DoStores(DoCommit(rob, commit), stores, val), commit))
             PROVE  RingInv'
  BY DEF QuietCycle
<1> DEFINE n == DoStores(DoCommit(rob, commit), stores, val)
<1>1. Underway(n, commit)
  BY CommitUnderway, StoresUnderway
<1>2. DoSquash(n, commit) \in Rings /\ RingOK(DoSquash(n, commit))
  BY <1>1, SquashKeepsRing DEF Underway, MidCycle
<1> QED BY <1>2, EdgeKeepsRing

\* So does a cycle with one.
LEMMA ResultStep == RingInv /\ ResultCycle => RingInv'
<1> SUFFICES ASSUME RingInv,
                    NEW commit \in BOOLEAN, NEW stores \in SUBSET Pending(TRUE), NEW val \in Words,
                    NEW tag \in Pending(FALSE), NEW taken \in BOOLEAN,
                    commit => RobCanCommit(rob),
                    Edge(DoSquash(DoPublish(DoStores(DoCommit(rob, commit), stores, val),
                                            tag, val, taken), commit))
             PROVE  RingInv'
  BY DEF ResultCycle
<1> DEFINE m == DoStores(DoCommit(rob, commit), stores, val)
           n == DoPublish(m, tag, val, taken)
<1>1. Underway(m, commit)
  BY CommitUnderway, StoresUnderway
<1>2. Underway(n, commit)
  BY <1>1, PublishUnderway
<1>3. DoSquash(n, commit) \in Rings /\ RingOK(DoSquash(n, commit))
  BY <1>2, SquashKeepsRing DEF Underway, MidCycle
<1> QED BY <1>3, EdgeKeepsRing

\* So does a cycle that issues an instruction.
LEMMA IssueStep == RingInv /\ IssueCycle => RingInv'
<1> SUFFICES ASSUME RingInv,
                    NEW commit \in BOOLEAN, NEW stores \in SUBSET Pending(TRUE), NEW val \in Words,
                    NEW tag \in Pending(FALSE) \cup {0}, NEW taken \in BOOLEAN,
                    NEW new \in NewInstrs,
                    commit => RobCanCommit(rob),
                    Edge(DoSquash(RobAlloc(DoPublish(DoStores(DoCommit(rob, commit), stores, val),
                                                     tag, val, taken), new), commit))
             PROVE  RingInv'
  BY DEF IssueCycle
<1> DEFINE m == DoStores(DoCommit(rob, commit), stores, val)
           w == DoPublish(m, tag, val, taken)
           a == RobAlloc(w, new)
<1>1. Underway(m, commit)
  BY CommitUnderway, StoresUnderway
<1>2. Underway(w, commit)
  BY <1>1, PublishUnderway
<1>3. new \in RobArgs /\ ArgsShape(new)
  BY EnvAssumption DEF RobArgs, ArgsShape
<1>4. a \in Rings
  BY <1>2, <1>3, AllocType DEF Underway
<1>5. RingOK(a) /\ (commit => Behind(a))
  BY <1>2, <1>3, RingInvDef, AllocEndsCycle DEF Underway
<1>6. DoSquash(a, commit) \in Rings /\ RingOK(DoSquash(a, commit))
  BY <1>4, <1>5, SquashKeepsRing
<1> QED BY <1>6, EdgeKeepsRing

\* The ring is good in every reachable state, whatever its size and whatever
\* the pipeline asks of it.
THEOREM RingInvariant == Spec => []RingInv
<1>1. RobInit => RingInv
  BY InitRingInv
<1>2. RingInv /\ [Next]_rob => RingInv'
  <2> SUFFICES ASSUME RingInv, [Next]_rob PROVE RingInv'
    OBVIOUS
  <2>1. CASE QuietCycle  BY <2>1, QuietStep
  <2>2. CASE ResultCycle BY <2>2, ResultStep
  <2>3. CASE IssueCycle  BY <2>3, IssueStep
  <2>4. CASE UNCHANGED rob
    BY <2>4 DEF RingInv, RobTypeOK, RobContiguous, RobTagsInOrder, RobCount
  <2> QED BY <2>1, <2>2, <2>3, <2>4 DEF Next
<1> QED BY <1>1, <1>2, PTL DEF Spec

\* Type correctness of the reorder buffer.
THEOREM TypeCorrect == Spec => []RobTypeOK
<1>1. RingInv => RobTypeOK
  BY DEF RingInv
<1> QED BY <1>1, RingInvariant, PTL

\* head, tail and the busy flags of reorderbuf.cpp always describe the same
\* contiguous stretch of the ring: is_full and is_empty need no spare slot.
THEOREM RingContiguous == Spec => []RobContiguous
<1>1. RingInv => RobContiguous
  BY DEF RingInv
<1> QED BY <1>1, RingInvariant, PTL

\* Tags are in age order: comparing tags is comparing ages, in the arbitration
\* of the bus, in the store buffer and in every flush.
THEOREM TagsInAgeOrder == Spec => []RobTagsInOrder
<1>1. RingInv => RobTagsInOrder
  BY DEF RingInv
<1> QED BY <1>1, RingInvariant, PTL

----------------------------------------------------------------------------
(* The ring is a queue                                                     *)

SlotAt(h, k) == (h + k - 1) % RobSize

\* The k-th slot from the head on is at distance k - 1, and every slot has its place.
LEMMA SlotAtDist ==
  ASSUME NEW h \in RobSlots, NEW k \in 1 .. RobSize
  PROVE  SlotAt(h, k) \in RobSlots /\ RobDist(h, SlotAt(h, k)) = k - 1
<1>1. h \in Nat /\ k \in Nat /\ h < RobSize /\ RobSize \in Nat \ {0} /\ k >= 1 /\ k <= RobSize
  BY RobSizeAssumption DEF RobSlots
<1>2. CASE h + k - 1 < RobSize
  <2>1. SlotAt(h, k) = h + k - 1
    BY <1>1, <1>2 DEF SlotAt
  <2> QED BY <1>1, <1>2, <2>1 DEF RobDist, RobSlots
<1>3. CASE ~(h + k - 1 < RobSize)
  <2>1. SlotAt(h, k) = h + k - 1 - RobSize
    BY <1>1, <1>3 DEF SlotAt
  <2> QED BY <1>1, <1>3, <2>1 DEF RobDist, RobSlots
<1> QED BY <1>2, <1>3

\* Counted from the next slot on, the k-th slot is the one that was the next.
LEMMA SlotAtSucc ==
  ASSUME NEW h \in RobSlots, NEW k \in 1 .. RobSize - 1
  PROVE  SlotAt(RobSucc(h), k) = SlotAt(h, k + 1)
<1>1. /\ SlotAt(h, k + 1) \in RobSlots /\ RobDist(h, SlotAt(h, k + 1)) = k
      /\ SlotAt(RobSucc(h), k) \in RobSlots /\ RobDist(RobSucc(h), SlotAt(RobSucc(h), k)) = k - 1
  BY SlotAtDist, SuccType, RobSizeAssumption
<1>2. RobDist(RobSucc(h), SlotAt(h, k + 1)) = k - 1
  BY <1>1, DistFromSucc, DistType, RobSizeAssumption
<1> QED BY <1>1, <1>2, DistInjective, SuccType

\* There are as many busy slots as the two ends say.
LEMMA BusyCount ==
  ASSUME NEW r, RingOK(r)
  PROVE  Cardinality({i \in RobSlots : r.slots[i].busy}) = RobCount(r)
<1> DEFINE busy == {i \in RobSlots : r.slots[i].busy}
           n == RobCount(r)
           f == [k \in 1 .. n |-> SlotAt(r.head, k)]
<1>1. r.head \in RobSlots /\ n \in 0 .. RobSize /\ RobSize \in Nat /\ n \in Nat
  BY CountType, RobSizeAssumption DEF RingOK, RingShape
<1>2. \A k \in 1 .. n : SlotAt(r.head, k) \in RobSlots /\ RobDist(r.head, SlotAt(r.head, k)) = k - 1
  BY <1>1, SlotAtDist
<1>3. f \in [1 .. n -> busy]
  BY <1>1, <1>2 DEF RingOK, Contiguous
<1>4. ASSUME NEW a \in 1 .. n, NEW b \in 1 .. n, f[a] = f[b]
      PROVE  a = b
  BY <1>1, <1>2, <1>4
<1>5. ASSUME NEW i \in busy
      PROVE  \E k \in 1 .. n : f[k] = i
  <2>1. RobDist(r.head, i) + 1 \in 1 .. n
    BY <1>1, <1>5, DistType DEF RingOK, Contiguous
  <2>2. SlotAt(r.head, RobDist(r.head, i) + 1) = i
    BY <1>1, <1>2, <2>1, DistType, DistInjective
  <2> QED BY <2>1, <2>2
<1> HIDE DEF f, busy, n
<1>6. f \in Bijection(1 .. n, busy)
  BY <1>3, <1>4, <1>5, Fun_IsBij
<1>7. ExistsBijection(1 .. n, busy)
  BY <1>6 DEF ExistsBijection
<1>8. Cardinality(busy) = n
  BY <1>1, <1>7, FS_CountingElements
<1> QED BY <1>8 DEF busy, n

----------------------------------------------------------------------------
(* The abstract queue                                                      *)

\* An entry as the abstract queue sees it.
View(e) == [tag |-> e.tag, ready |-> e.ready, mispredicted |-> e.ready /\ RobMispredicted(e)]

QueueOf(r) == [k \in 1 .. RobCount(r) |-> View(r.slots[SlotAt(r.head, k)])]

\* The refinement mapping in these terms, before and after a step.
LEMMA QueueIs ==
  /\ RingOK(rob) => Queue = QueueOf(rob)
  /\ RingOK(rob') => Queue' = QueueOf(rob')
<1>1. ASSUME RingOK(rob)
      PROVE  Queue = QueueOf(rob)
  <2>1. Cardinality({i \in RobSlots : rob.slots[i].busy}) = RobCount(rob)
    BY <1>1, BusyCount
  <2> QED BY <2>1 DEF Queue, QueueOf, View, Nth, SlotAt
<1>2. ASSUME RingOK(rob')
      PROVE  Queue' = QueueOf(rob')
  <2>1. Cardinality({i \in RobSlots : rob'.slots[i].busy}) = RobCount(rob')
    BY <1>2, BusyCount
  <2> QED BY <2>1 DEF Queue, QueueOf, View, Nth, SlotAt, RobMispredicted
<1> QED BY <1>1, <1>2

----------------------------------------------------------------------------
(* A slot through the cycle                                                *)

\* Entries that do not leave keep their place and their tag, and a result
\* that is there already stays: only missing results are written.
Kept(n, commit) ==
  \A i \in RobSlots :
    rob.slots[i].busy /\ ~(commit /\ i = rob.head) =>
      /\ n.slots[i].busy
      /\ n.slots[i].tag = rob.slots[i].tag
      /\ rob.slots[i].ready => n.slots[i] = rob.slots[i]

\* Nothing has joined the next copy yet.
Unjoined(n, commit) ==
  /\ Underway(n, commit)
  /\ Kept(n, commit)
  /\ n.head = IF commit THEN RobSucc(rob.head) ELSE rob.head
  /\ n.next_tag = rob.next_tag
  /\ RobCount(n) = IF commit THEN RobCount(rob) - 1 ELSE RobCount(rob)

\* commit() takes the head away and touches no other entry.
LEMMA CommitUnjoined ==
  ASSUME RingInv, NEW commit \in BOOLEAN, commit => RobCanCommit(rob)
  PROVE  Unjoined(DoCommit(rob, commit), commit)
<1> DEFINE n == DoCommit(rob, commit)
<1>1. RingOK(rob) /\ RingShape(rob) /\ Underway(n, commit)
  BY RingInvDef, CommitUnderway DEF RingOK
<1>2. CASE ~commit
  BY <1>1, <1>2 DEF Unjoined, Kept, DoCommit
<1>3. CASE commit
  <2>1. rob.slots[rob.head].busy /\ n = RobCommit(rob)
    BY <1>3 DEF RobCanCommit, DoCommit
  <2>2. RobCount(n) = RobCount(rob) - 1
    BY <1>1, <2>1, CommitKeepsRing
  <2>3. /\ n.head = RobSucc(rob.head) /\ n.next_tag = rob.next_tag
        /\ \A i \in RobSlots \ {rob.head} : n.slots[i] = rob.slots[i]
    BY <1>1, <2>1 DEF RobCommit, RingShape
  <2> QED BY <1>1, <1>3, <2>2, <2>3 DEF Unjoined, Kept
<1> QED BY <1>2, <1>3

\* A tag of an entry that waits for its result is that of no other entry.
LEMMA PendingIsWaiting ==
  ASSUME RingInv, NEW isStore \in BOOLEAN, NEW tag \in Pending(isStore),
         NEW i \in RobSlots, RobHolds(rob.slots, i, tag)
  PROVE  ~rob.slots[i].ready
<1>1. PICK j \in RobSlots : rob.slots[j].busy /\ ~rob.slots[j].ready /\ rob.slots[j].tag = tag
  BY DEF Pending
<1>2. i = j
  BY <1>1, RingInvDef, TagsUnique DEF RobHolds
<1> QED BY <1>1, <1>2

\* The results of stores go to stores that wait for theirs.
LEMMA StoresUnjoined ==
  ASSUME RingInv, NEW r, NEW commit \in BOOLEAN, Unjoined(r, commit),
         NEW stores \in SUBSET Pending(TRUE), NEW val \in Words
  PROVE  Unjoined(DoStores(r, stores, val), commit)
<1> DEFINE done == [t \in stores |-> [addr |-> val, val |-> val]]
           n == RobWriteStoreResults(r, done)
<1>1. RingShape(r) /\ RingOK(r)
  BY TypedShape DEF Unjoined, Underway, MidCycle
<1>2. RingShape(n) /\ SameQueue(r, n)
  BY <1>1, WriteStoreResultsShape
<1>3. RobCount(n) = RobCount(r)
  BY <1>1, <1>2, SameQueueKeepsRing
<1>4. ASSUME NEW i \in RobSlots, rob.slots[i].ready
      PROVE  n.slots[i] = r.slots[i]
  <2>1. ~ \E tag \in DOMAIN done : RobWritable(r, i, tag) /\ rob.slots[i].is_store
    BY <1>4, PendingIsWaiting DEF RobWritable
  <2> QED BY <1>1, <2>1 DEF RobWriteStoreResults, RingShape
<1>5. Underway(n, commit)
  BY StoresUnderway DEF Unjoined, DoStores
<1> HIDE DEF n
<1>6. Unjoined(n, commit)
  BY <1>2, <1>3, <1>4, <1>5 DEF Unjoined, Kept, SameQueue
<1> QED BY <1>6 DEF n, DoStores

\* The result on the bus goes to the entry that waits for it; no entry has
\* the tag 0, with which a cycle without a result is written.
LEMMA PublishUnjoined ==
  ASSUME RingInv, NEW r, NEW commit \in BOOLEAN, Unjoined(r, commit),
         NEW tag \in Pending(FALSE) \cup {0}, NEW val \in Words, NEW taken \in BOOLEAN
  PROVE  Unjoined(DoPublish(r, tag, val, taken), commit)
<1> DEFINE w == RobWriteResult(r, tag, val)
           n == RobWriteBranchResult(w, tag, taken, val)
<1>1. RingShape(r) /\ RingOK(r) /\ RingShape(rob) /\ TagsInOrder(rob)
  BY TypedShape, RingInvDef DEF Unjoined, Underway, MidCycle, RingOK
<1>2. RingShape(w) /\ SameQueue(r, w)
  BY <1>1, WriteResultShape
<1>3. RingOK(w) /\ RobCount(w) = RobCount(r)
  BY <1>1, <1>2, SameQueueKeepsRing
<1>4. RingShape(n) /\ SameQueue(w, n)
  BY <1>2, WriteBranchResultShape
<1>5. RobCount(n) = RobCount(w)
  BY <1>3, <1>4, SameQueueKeepsRing
<1>6. ASSUME NEW i \in RobSlots, rob.slots[i].ready
      PROVE  n.slots[i] = r.slots[i]
  <2>1. ~RobHolds(rob.slots, i, tag)
    <3>1. CASE tag \in Pending(FALSE)
      BY <1>6, <3>1, PendingIsWaiting
    <3>2. CASE tag = 0
      BY <1>1, <3>2 DEF RobHolds, TagsInOrder, RingShape, EntryShape
    <3> QED BY <3>1, <3>2
  <2>2. w.slots[i] = r.slots[i]
    BY <1>1, <2>1 DEF RobWriteResult, RobWritable, RingShape
  <2>3. n.slots[i] = w.slots[i]
    BY <1>2, <2>1 DEF RobWriteBranchResult, RobWritable, RingShape
  <2> QED BY <2>2, <2>3
<1>7. Underway(n, commit)
  BY PublishUnderway DEF Unjoined, DoPublish
<1> HIDE DEF n, w
<1>8. Unjoined(n, commit)
  BY <1>2, <1>3, <1>4, <1>5, <1>6, <1>7 DEF Unjoined, Kept, SameQueue
<1> QED BY <1>8 DEF n, w, DoPublish

\* alloc() puts its entry behind all the others, with the next tag and no result.
Joined(n, commit) ==
  /\ ~RobIsFull
  /\ RingOK(n)
  /\ Kept(n, commit)
  /\ n.head = IF commit THEN RobSucc(rob.head) ELSE rob.head
  /\ n.next_tag = rob.next_tag + 1
  /\ RobCount(n) = IF commit THEN RobCount(rob) ELSE RobCount(rob) + 1
  /\ \E i \in RobSlots : /\ RobDist(n.head, i) = RobCount(n) - 1
                         /\ n.slots[i].tag = rob.next_tag
                         /\ ~n.slots[i].ready

\* One entry joins when there is room for it, and none otherwise.
LEMMA AllocJoins ==
  ASSUME RingInv, NEW r, NEW commit \in BOOLEAN, Unjoined(r, commit), NEW new, ArgsShape(new),
         ~RobIsFull
  PROVE  Joined(RobAlloc(r, new), commit)
<1> DEFINE n == RobAlloc(r, new)
           t == r.tail
<1>1. /\ RingOK(r) /\ RingShape(r) /\ t \in RobSlots /\ RobCount(r) # RobSize
      /\ RobCount(r) \in Nat /\ RobCount(rob) \in Nat
  BY TypedShape, RingInvDef, CountType, RobSizeAssumption
  DEF Unjoined, Underway, MidCycle, RingOK, RingShape
<1>2. /\ RingOK(n) /\ RobCount(n) = RobCount(r) + 1
      /\ ~r.slots[t].busy /\ RobDist(r.head, t) = RobCount(r)
  BY <1>1, AllocKeepsRing
<1>3. /\ n.head = r.head /\ n.next_tag = r.next_tag + 1
      /\ n.slots[t] = NewEntry(r, new)
      /\ \A i \in RobSlots \ {t} : n.slots[i] = r.slots[i]
  BY <1>1, AllocEffect
<1>4. n.slots[t].tag = rob.next_tag /\ ~n.slots[t].ready
  BY <1>3 DEF NewEntry, Unjoined
<1>5. Kept(n, commit)
  BY <1>2, <1>3 DEF Kept, Unjoined
<1> HIDE DEF n
<1>6. RobDist(n.head, t) = RobCount(n) - 1
  BY <1>1, <1>2, <1>3
<1>7. RobCount(n) = IF commit THEN RobCount(rob) ELSE RobCount(rob) + 1
  BY <1>1, <1>2 DEF Unjoined
<1> QED BY <1>1, <1>2, <1>3, <1>4, <1>5, <1>6, <1>7 DEF Joined, Unjoined, n

----------------------------------------------------------------------------
(* A cycle as a step of the queue                                          *)

\* The queue read off a good ring: its length, its elements and its bound.
LEMMA QueueShape ==
  ASSUME NEW r, RingOK(r)
  PROVE  /\ Len(QueueOf(r)) = RobCount(r) /\ RobCount(r) \in 0 .. RobSize
         /\ QueueOf(r) \in Seq({View(e) : e \in {r.slots[i] : i \in RobSlots}})
         /\ \A k \in 1 .. RobCount(r) :
              /\ SlotAt(r.head, k) \in RobSlots
              /\ RobDist(r.head, SlotAt(r.head, k)) = k - 1
              /\ r.slots[SlotAt(r.head, k)].busy
              /\ QueueOf(r)[k] = View(r.slots[SlotAt(r.head, k)])
<1>1. r.head \in RobSlots /\ RobCount(r) \in 0 .. RobSize /\ RobSize \in Nat
  BY CountType, RobSizeAssumption DEF RingOK, RingShape
<1>2. \A k \in 1 .. RobCount(r) : /\ SlotAt(r.head, k) \in RobSlots
                                  /\ RobDist(r.head, SlotAt(r.head, k)) = k - 1
                                  /\ r.slots[SlotAt(r.head, k)].busy
  BY <1>1, SlotAtDist DEF RingOK, Contiguous
<1> QED BY <1>1, <1>2 DEF QueueOf

\* What remains of the queue when the head leaves: the same slots, counted
\* from the next one on.
Rest(r, commit) == IF commit THEN Tail(QueueOf(r)) ELSE QueueOf(r)

LEMMA RestIs ==
  ASSUME NEW r, RingOK(r), NEW commit \in BOOLEAN, commit => r.slots[r.head].busy,
         NEW h, h = IF commit THEN RobSucc(r.head) ELSE r.head
  PROVE  /\ Len(Rest(r, commit)) = IF commit THEN RobCount(r) - 1 ELSE RobCount(r)
         /\ \A k \in 1 .. Len(Rest(r, commit)) :
              /\ SlotAt(h, k) \in RobSlots
              /\ RobDist(h, SlotAt(h, k)) = k - 1
              /\ commit => SlotAt(h, k) # r.head
              /\ r.slots[SlotAt(h, k)].busy
              /\ Rest(r, commit)[k] = View(r.slots[SlotAt(h, k)])
<1> DEFINE q == QueueOf(r)
           V == {View(e) : e \in {r.slots[i] : i \in RobSlots}}
<1>1. /\ q \in Seq(V) /\ Len(q) = RobCount(r) /\ RobCount(r) \in 0 .. RobSize /\ RobSize \in Nat
      /\ r.head \in RobSlots
  BY QueueShape, RobSizeAssumption DEF RingOK, RingShape
<1>2. CASE ~commit
  BY <1>1, <1>2, QueueShape DEF Rest
<1>3. CASE commit
  <2>1. RobCount(r) > 0
    BY <1>1, <1>3, DistType DEF RingOK, Contiguous
  <2> HIDE DEF q, V
  <2>2. Len(Tail(q)) = RobCount(r) - 1 /\ \A k \in 1 .. RobCount(r) - 1 : Tail(q)[k] = q[k + 1]
    BY <1>1, <2>1
  <2>3. ASSUME NEW k \in 1 .. RobCount(r) - 1
        PROVE  /\ SlotAt(h, k) \in RobSlots
               /\ RobDist(h, SlotAt(h, k)) = k - 1
               /\ SlotAt(h, k) # r.head
               /\ r.slots[SlotAt(h, k)].busy
               /\ q[k + 1] = View(r.slots[SlotAt(h, k)])
    <3>1. k \in 1 .. RobSize - 1 /\ k + 1 \in 1 .. RobCount(r) /\ k \in 1 .. RobSize /\ k > 0
      BY <1>1
    <3>2. h = RobSucc(r.head) /\ h \in RobSlots
      BY <1>1, <1>3, SuccType
    <3>3. SlotAt(h, k) = SlotAt(r.head, k + 1)
      BY <1>1, <3>1, <3>2, SlotAtSucc
    <3>4. RobDist(h, SlotAt(h, k)) = k - 1
      BY <3>1, <3>2, SlotAtDist
    <3>5. RobDist(r.head, SlotAt(r.head, k + 1)) = k
      <4>1. RobDist(r.head, SlotAt(r.head, k + 1)) = (k + 1) - 1
        BY <3>1, QueueShape
      <4> QED BY <4>1
    <3>6. SlotAt(h, k) # r.head
      BY <1>1, <3>1, <3>3, <3>5, DistType
    <3> QED BY <3>1, <3>3, <3>4, <3>6, QueueShape DEF q
  <2> QED BY <1>3, <2>2, <2>3 DEF Rest, q
<1> QED BY <1>2, <1>3

\* The head of the queue is the entry at the head of the ring.
LEMMA HeadIsFirst ==
  ASSUME RingInv, RobCanCommit(rob)
  PROVE  /\ RobCount(rob) > 0
         /\ QueueOf(rob)[1].ready
         /\ QueueOf(rob)[1].mispredicted <=> RobMispredicted(RobHeadEntry(rob))
<1>1. /\ RingOK(rob) /\ RobCount(rob) \in Nat /\ rob.head \in RobSlots
      /\ rob.slots[rob.head].busy /\ rob.slots[rob.head].ready
  BY RingInvDef, CountType, RobSizeAssumption DEF RingOK, RingShape, RobCanCommit
<1>2. RobCount(rob) > 0
  BY <1>1, DistType DEF RingOK, Contiguous
<1>3. 1 \in 1 .. RobCount(rob)
  BY <1>1, <1>2
<1>4. SlotAt(rob.head, 1) = rob.head
  <2>1. SlotAt(rob.head, 1) \in RobSlots /\ RobDist(rob.head, SlotAt(rob.head, 1)) = 1 - 1
    BY <1>1, <1>3, QueueShape
  <2> QED BY <1>1, <2>1, DistType
<1>5. QueueOf(rob)[1] = View(rob.slots[rob.head])
  <2>1. QueueOf(rob)[1] = View(rob.slots[SlotAt(rob.head, 1)])
    BY <1>1, <1>3, QueueShape
  <2> QED BY <1>4, <2>1
<1>6. View(rob.slots[rob.head]).ready = rob.slots[rob.head].ready
  BY DEF View
<1>7. View(rob.slots[rob.head]).mispredicted
        <=> rob.slots[rob.head].ready /\ RobMispredicted(rob.slots[rob.head])
  BY DEF View
<1> QED BY <1>1, <1>2, <1>5, <1>6, <1>7 DEF RobHeadEntry

\* A cycle that does not take back what was fetched behind a mispredicted
\* branch is a step of the queue: the head retires or not, and one entry
\* joins or none does.
LEMMA OrdinaryCycle ==
  ASSUME RingInv, RingOK(rob'), NEW commit \in BOOLEAN,
         commit => RobCanCommit(rob) /\ ~RobMispredicted(RobHeadEntry(rob)),
         Unjoined(rob', commit) \/ Joined(rob', commit)
  PROVE  Abstract!Cycle
<1> DEFINE q == QueueOf(rob)
           p == QueueOf(rob')
           rest == Rest(rob, commit)
           h == IF commit THEN RobSucc(rob.head) ELSE rob.head
<1>1. /\ RingOK(rob) /\ Queue = q /\ Queue' = p
      /\ RobCount(rob) \in 0 .. RobSize /\ RobSize \in Nat /\ rob.next_tag \in Nat
      /\ RobCount(rob') \in Nat
  BY RingInvDef, QueueIs, CountType, RobSizeAssumption DEF RingOK, RingShape
<1>2. commit => rob.slots[rob.head].busy /\ rob.slots[rob.head].ready
  BY DEF RobCanCommit
<1>3. rob'.head = h /\ Kept(rob', commit)
  BY DEF Unjoined, Joined
<1>4. /\ Len(q) = RobCount(rob) /\ Len(p) = RobCount(rob')
      /\ Len(rest) = IF commit THEN RobCount(rob) - 1 ELSE RobCount(rob)
  BY <1>1, <1>2, QueueShape, RestIs
<1>5. commit => Len(q) > 0 /\ q[1].ready /\ ~q[1].mispredicted
  BY <1>4, HeadIsFirst
<1>6. Len(p) >= Len(rest)
  BY <1>1, <1>4 DEF Unjoined, Joined
<1>7. ASSUME NEW k \in 1 .. Len(rest)
      PROVE  p[k].tag = rest[k].tag /\ (rest[k].ready => p[k] = rest[k])
  <2> DEFINE i == SlotAt(h, k)
  <2>1. k \in 1 .. RobCount(rob')
    BY <1>1, <1>4, <1>6
  <2>2. p[k] = View(rob'.slots[i])
    BY <1>1, <1>3, <2>1, QueueShape
  <2>3. /\ i \in RobSlots /\ rob.slots[i].busy /\ (commit => i # rob.head)
        /\ rest[k] = View(rob.slots[i])
    BY <1>1, <1>2, RestIs
  <2>4. /\ rob'.slots[i].tag = rob.slots[i].tag
        /\ rob.slots[i].ready => rob'.slots[i] = rob.slots[i]
    BY <1>3, <2>3 DEF Kept
  <2> HIDE DEF i
  <2> QED BY <2>2, <2>3, <2>4 DEF View
<1>8. \/ /\ rob'.next_tag - 1 = rob.next_tag - 1
         /\ Len(p) = Len(rest)
      \/ /\ Len(q) < RobSize
         /\ rob'.next_tag - 1 = (rob.next_tag - 1) + 1
         /\ Len(p) = Len(rest) + 1
         /\ p[Len(p)].tag = rob'.next_tag - 1
         /\ ~p[Len(p)].ready
  <2>1. CASE Unjoined(rob', commit)
    BY <1>1, <1>4, <2>1 DEF Unjoined
  <2>2. CASE Joined(rob', commit)
    <3>1. /\ rob'.next_tag = rob.next_tag + 1
          /\ RobCount(rob') = IF commit THEN RobCount(rob) ELSE RobCount(rob) + 1
      BY <2>2 DEF Joined
    <3>2. RobCount(rob) < RobSize
      BY <1>1, <2>2, FullMeansFull DEF Joined
    <3>3. Len(p) = Len(rest) + 1 /\ Len(p) \in 1 .. RobCount(rob')
      BY <1>1, <1>4, <1>5, <3>1
    <3>4. PICK i \in RobSlots : /\ RobDist(rob'.head, i) = RobCount(rob') - 1
                                /\ rob'.slots[i].tag = rob.next_tag
                                /\ ~rob'.slots[i].ready
      BY <2>2 DEF Joined
    <3>5. i = SlotAt(rob'.head, Len(p))
      <4>1. /\ SlotAt(rob'.head, Len(p)) \in RobSlots
            /\ RobDist(rob'.head, SlotAt(rob'.head, Len(p))) = Len(p) - 1
        BY <3>3, QueueShape
      <4> HIDE DEF p
      <4> QED BY <1>4, <3>4, <4>1, DistInjective DEF RingOK, RingShape
    <3>6. p[Len(p)] = View(rob'.slots[i])
      BY <3>3, <3>5, QueueShape
    <3>7. p[Len(p)].tag = rob.next_tag /\ ~p[Len(p)].ready
      BY <3>4, <3>6 DEF View
    <3> QED BY <1>1, <1>4, <3>1, <3>2, <3>3, <3>7
  <2> QED BY <2>1, <2>2
<1> HIDE DEF p, q
<1>9. rest = IF commit THEN Tail(q) ELSE q
  BY DEF Rest, q
<1> HIDE DEF rest
<1>10. Abstract!Matured(rest, p)
  BY <1>7 DEF Abstract!Matured
<1>11. commit => Len(q) > 0 /\ Head(q).ready /\ ~Head(q).mispredicted
  BY <1>1, <1>5
<1>12. \/ /\ (rob.next_tag - 1)' = rob.next_tag - 1
          /\ Len(Queue') = Len(rest)
       \/ /\ Len(Queue) < RobSize
          /\ (rob.next_tag - 1)' = (rob.next_tag - 1) + 1
          /\ Len(Queue') = Len(rest) + 1
          /\ (Queue')[Len(Queue')].tag = (rob.next_tag - 1)'
          /\ ~(Queue')[Len(Queue')].ready
  BY <1>1, <1>8
<1>13. /\ rest = IF commit THEN Tail(Queue) ELSE Queue
       /\ commit => Len(Queue) > 0 /\ Head(Queue).ready /\ ~Head(Queue).mispredicted
       /\ Abstract!Matured(rest, Queue')
  BY <1>1, <1>9, <1>10, <1>11
<1> QED BY <1>12, <1>13 DEF Abstract!Cycle

\* A cycle that commits a mispredicted branch empties the queue.
LEMMA RecoveryCycle ==
  ASSUME RingInv, RobCanCommit(rob), RobMispredicted(RobHeadEntry(rob)), NEW n,
         Unjoined(n, TRUE) \/ Joined(n, TRUE), Behind(n), RingOK(n),
         rob' = RobFlushFrom(n, RobHeadEntry(rob).tag)
  PROVE  Abstract!Squash
<1> DEFINE q == QueueOf(rob)
           p == QueueOf(rob')
<1>1. /\ RingOK(rob) /\ RobCount(rob) \in 0 .. RobSize /\ RobSize \in Nat
      /\ rob.next_tag \in Nat
      /\ rob.slots[rob.head].busy /\ rob.slots[rob.head].ready
  BY RingInvDef, CountType, RobSizeAssumption DEF RingOK, RingShape, RobCanCommit
<1>2. /\ RingOK(rob') /\ rob'.head = rob'.tail /\ rob'.next_tag = n.next_tag
      /\ \A i \in RobSlots : ~rob'.slots[i].busy
  BY <1>1, FlushEmptiesRing DEF RobHeadEntry
<1>3. RobCount(rob') = 0
  BY <1>2 DEF RobCount, RingOK, RingShape
<1>4. p = <<>>
  BY <1>3 DEF QueueOf
<1>5. Queue = q /\ Queue' = p
  BY <1>1, <1>2, QueueIs
<1>6. Len(q) = RobCount(rob) /\ RobCount(rob) > 0
  BY <1>1, QueueShape, HeadIsFirst
<1>7. q[1].ready /\ q[1].mispredicted
  BY HeadIsFirst
<1>8. \/ rob'.next_tag - 1 = rob.next_tag - 1
      \/ RobCount(rob) < RobSize /\ rob'.next_tag - 1 = (rob.next_tag - 1) + 1
  <2>1. CASE Unjoined(n, TRUE)
    BY <1>2, <2>1 DEF Unjoined
  <2>2. CASE Joined(n, TRUE)
    BY <1>1, <1>2, <2>2, FullMeansFull DEF Joined
  <2> QED BY <2>1, <2>2
<1> HIDE DEF p, q
<1> QED BY <1>4, <1>5, <1>6, <1>7, <1>8, <1>1 DEF Abstract!Squash

\* Whichever of the two it is, the cycle ends with the step of the queue.
LEMMA CycleEnds ==
  ASSUME RingInv, NEW commit \in BOOLEAN, commit => RobCanCommit(rob), NEW n,
         Unjoined(n, commit) \/ Joined(n, commit), RingOK(n), commit => Behind(n),
         Edge(DoSquash(n, commit))
  PROVE  Abstract!Cycle \/ Abstract!Squash
<1>1. CASE commit /\ RobMispredicted(RobHeadEntry(rob))
  <2>1. rob' = RobFlushFrom(n, RobHeadEntry(rob).tag)
    BY <1>1 DEF Edge, DoSquash
  <2> QED BY <1>1, <2>1, RecoveryCycle
<1>2. CASE ~(commit /\ RobMispredicted(RobHeadEntry(rob)))
  <2>1. rob' = n
    BY <1>2 DEF Edge, DoSquash
  <2> QED BY <1>2, <2>1, OrdinaryCycle
<1> QED BY <1>1, <1>2

\* A cycle without a result on the bus is a step of the queue, ...
LEMMA QuietRefines == RingInv /\ QuietCycle => Abstract!Cycle \/ Abstract!Squash
<1> SUFFICES ASSUME RingInv,
                    NEW commit \in BOOLEAN, NEW stores \in SUBSET Pending(TRUE), NEW val \in Words,
                    commit => RobCanCommit(rob),
                    Edge(DoSquash(DoStores(DoCommit(rob, commit), stores, val), commit))
             PROVE  Abstract!Cycle \/ Abstract!Squash
  BY DEF QuietCycle
<1> DEFINE n == DoStores(DoCommit(rob, commit), stores, val)
<1>1. Unjoined(n, commit)
  BY CommitUnjoined, StoresUnjoined
<1>2. RingOK(n) /\ (commit => Behind(n))
  BY <1>1 DEF Unjoined, Underway, MidCycle
<1> QED BY <1>1, <1>2, CycleEnds

\* ... so is one with a result, ...
LEMMA ResultRefines == RingInv /\ ResultCycle => Abstract!Cycle \/ Abstract!Squash
<1> SUFFICES ASSUME RingInv,
                    NEW commit \in BOOLEAN, NEW stores \in SUBSET Pending(TRUE), NEW val \in Words,
                    NEW tag \in Pending(FALSE), NEW taken \in BOOLEAN,
                    commit => RobCanCommit(rob),
                    Edge(DoSquash(DoPublish(DoStores(DoCommit(rob, commit), stores, val),
                                            tag, val, taken), commit))
             PROVE  Abstract!Cycle \/ Abstract!Squash
  BY DEF ResultCycle
<1> DEFINE m == DoStores(DoCommit(rob, commit), stores, val)
           n == DoPublish(m, tag, val, taken)
<1>1. Unjoined(m, commit)
  BY CommitUnjoined, StoresUnjoined
<1>2. Unjoined(n, commit)
  BY <1>1, PublishUnjoined
<1>3. RingOK(n) /\ (commit => Behind(n))
  BY <1>2 DEF Unjoined, Underway, MidCycle
<1> QED BY <1>2, <1>3, CycleEnds

\* ... and so is one that issues an instruction, whether it finds room or not.
LEMMA IssueRefines == RingInv /\ IssueCycle => Abstract!Cycle \/ Abstract!Squash
<1> SUFFICES ASSUME RingInv,
                    NEW commit \in BOOLEAN, NEW stores \in SUBSET Pending(TRUE), NEW val \in Words,
                    NEW tag \in Pending(FALSE) \cup {0}, NEW taken \in BOOLEAN,
                    NEW new \in NewInstrs,
                    commit => RobCanCommit(rob),
                    Edge(DoSquash(RobAlloc(DoPublish(DoStores(DoCommit(rob, commit), stores, val),
                                                     tag, val, taken), new), commit))
             PROVE  Abstract!Cycle \/ Abstract!Squash
  BY DEF IssueCycle
<1> DEFINE m == DoStores(DoCommit(rob, commit), stores, val)
           w == DoPublish(m, tag, val, taken)
           n == RobAlloc(w, new)
<1>1. Unjoined(m, commit)
  BY CommitUnjoined, StoresUnjoined
<1>2. Unjoined(w, commit)
  BY <1>1, PublishUnjoined
<1>3. ArgsShape(new)
  BY EnvAssumption DEF RobArgs, ArgsShape
<1>4. RingOK(n) /\ (commit => Behind(n))
  BY <1>2, <1>3, RingInvDef, AllocEndsCycle DEF Unjoined, Underway
<1>5. Unjoined(n, commit) \/ Joined(n, commit)
  <2>1. CASE RobIsFull
    BY <1>2, <2>1 DEF RobAlloc
  <2>2. CASE ~RobIsFull
    BY <1>2, <1>3, <2>2, AllocJoins
  <2> QED BY <2>1, <2>2
<1> QED BY <1>4, <1>5, CycleEnds

----------------------------------------------------------------------------

\* The circular array of reorderbuf.cpp behaves as a bounded first-in
\* first-out queue, for every size of the ring and whatever the pipeline asks
\* of it: entries retire in the order in which they joined, with their result
\* and only once, and a mispredicted branch takes all that is behind it along.
THEOREM RingIsQueue == Spec => IsInOrderQueue
<1>1. RobInit => Abstract!Init
  <2> SUFFICES ASSUME RobInit PROVE Abstract!Init
    OBVIOUS
  <2>1. RingOK(rob)
    BY InitRing
  <2>2. RobCount(rob) = 0
    <3>1. 0 \in RobSlots /\ ~rob.slots[0].busy /\ rob.head = 0 /\ rob.tail = 0
      BY RobSizeAssumption DEF RobInit, RobSlots, ZeroRobEntry
    <3> QED BY <3>1 DEF RobCount
  <2>3. Queue = <<>>
    BY <2>1, <2>2, QueueIs DEF QueueOf
  <2>4. rob.next_tag - 1 = 0
    BY DEF RobInit
  <2> QED BY <2>3, <2>4 DEF Abstract!Init
<1>2. RingInv /\ RingInv' /\ [Next]_rob =>
        [Abstract!Cycle \/ Abstract!Squash]_<<Queue, rob.next_tag - 1>>
  <2>1. ASSUME RingInv, Next
        PROVE  Abstract!Cycle \/ Abstract!Squash
    BY <2>1, QuietRefines, ResultRefines, IssueRefines DEF Next
  <2>2. ASSUME UNCHANGED rob
        PROVE  UNCHANGED <<Queue, rob.next_tag - 1>>
    BY <2>2 DEF Queue, Nth, RobMispredicted
  <2> QED BY <2>1, <2>2
<1> QED BY <1>1, <1>2, RingInvariant, PTL DEF Spec, IsInOrderQueue, Abstract!Spec

============================================================================
