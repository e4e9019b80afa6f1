------------------------------ MODULE RobQueue ------------------------------
(***************************************************************************)
(* The reorder buffer on its own, driven in every cycle by any calls the   *)
(* phases of cpu.cpp may make: at most one commit of a ready head, one     *)
(* result from the data bus, the results of any set of stores, one alloc,  *)
(* and the flush that follows the commit of a mispredicted branch.         *)
(***************************************************************************)
EXTENDS ReorderBuf, FiniteSets

CONSTANTS
  NewInstrs,   \* what issue may pass to alloc: a subset of RobArgs
  Words,       \* results, targets and addresses the units deliver
  MaxTag       \* bound of the runs: no cycle starts once next_tag is above it

ASSUME EnvAssumption ==
  /\ NewInstrs \subseteq RobArgs
  /\ Words \subseteq Word
  /\ MaxTag \in Nat

\* In-flight entries whose result is still missing.
Pending(isStore) ==
  {rob.slots[i].tag : i \in {j \in RobSlots : /\ rob.slots[j].busy
                                               /\ ~rob.slots[j].ready
                                               /\ rob.slots[j].is_store = isStore}}

\* commit(), then the flush resolve_cycle_outputs makes if it returned true.
DoCommit(n, yes) == IF yes THEN RobCommit(n) ELSE n
DoSquash(n, yes) ==
  IF yes /\ RobMispredicted(RobHeadEntry(rob))
  THEN RobFlushFrom(n, RobHeadEntry(rob).tag)
  ELSE n

\* writeback(): the result of the bus, also a branch's; the finished stores.
DoPublish(n, tag, val, taken) ==
  RobWriteBranchResult(RobWriteResult(n, tag, val), tag, taken, val)
DoStores(n, tags, val) == RobWriteStoreResults(n, [t \in tags |-> [addr |-> val, val |-> val]])

Edge(n) == rob' = n

\* One clock cycle in which no result arrives on the bus.
QuietCycle ==
  \E commit \in BOOLEAN, stores \in SUBSET Pending(TRUE), val \in Words :
    /\ rob.next_tag <= MaxTag
    /\ commit => RobCanCommit(rob)
    /\ Edge(DoSquash(DoStores(DoCommit(rob, commit), stores, val), commit))

\* One in which one does.
ResultCycle ==
  \E commit \in BOOLEAN, stores \in SUBSET Pending(TRUE), val \in Words,
     tag \in Pending(FALSE), taken \in BOOLEAN :
    /\ rob.next_tag <= MaxTag
    /\ commit => RobCanCommit(rob)
    /\ Edge(DoSquash(DoPublish(DoStores(DoCommit(rob, commit), stores, val),
                               tag, val, taken), commit))

\* One in which an instruction is issued, with or without a result: no entry
\* has the tag 0.
IssueCycle ==
  \E commit \in BOOLEAN, stores \in SUBSET Pending(TRUE), val \in Words,
     tag \in Pending(FALSE) \cup {0}, taken \in BOOLEAN, new \in NewInstrs :
    /\ rob.next_tag <= MaxTag
    /\ commit => RobCanCommit(rob)
    /\ Edge(DoSquash(RobAlloc(DoPublish(DoStores(DoCommit(rob, commit), stores, val),
                                        tag, val, taken), new), commit))

Next == QuietCycle \/ ResultCycle \/ IssueCycle

Spec == RobInit /\ [][Next]_rob

----------------------------------------------------------------------------
(* The ring implements the queue.                                          *)

Nth(k) == rob.slots[(rob.head + k - 1) % RobSize]

Queue == [k \in 1 .. Cardinality({i \in RobSlots : rob.slots[i].busy}) |->
            [tag |-> Nth(k).tag, ready |-> Nth(k).ready,
             mispredicted |-> Nth(k).ready /\ RobMispredicted(Nth(k))]]

Abstract == INSTANCE InOrderQueue WITH
  Capacity <- RobSize, q <- Queue, issued <- rob.next_tag - 1

\* The circular array with its head and tail arithmetic, its full and empty
\* tests and its flush behaves as a first-in first-out queue.
IsInOrderQueue == Abstract!Spec
============================================================================
