------------------------------ MODULE StoreBuf ------------------------------
(***************************************************************************)
(* The store buffer, src/src/tomasulo/storebuf.cpp: the stores that are in *)
(* flight, from issue to commit, searched by younger loads.                *)
(***************************************************************************)
EXTENDS Isa

CONSTANT SbSize      \* slots of the buffer (SB_SIZE, 8 in the code)

ASSUME SbSizeAssumption == SbSize \in Nat \ {0}

VARIABLE sb          \* [SbSlots -> SbEntry]

SbSlots == 1 .. SbSize

SbEntry == [busy: BOOLEAN, rob_tag: Nat, addr: Word, val: Word,
            addr_ready: BOOLEAN, val_ready: BOOLEAN, type: InstrType]

ZeroSbEntry == [busy |-> FALSE, rob_tag |-> 0, addr |-> 0, val |-> 0,
                addr_ready |-> FALSE, val_ready |-> FALSE, type |-> "ADD"]

SbInit == sb = [i \in SbSlots |-> ZeroSbEntry]

SbIsFull == \A i \in SbSlots : sb[i].busy

SbInsert(n, rob_tag, type) ==
  IF SbIsFull
  THEN n
  ELSE LET free == CHOOSE i \in SbSlots : /\ ~sb[i].busy
                                          /\ \A j \in SbSlots : j < i => sb[j].busy
       IN  [n EXCEPT ![free] = [ZeroSbEntry EXCEPT !.busy = TRUE, !.rob_tag = rob_tag,
                                                   !.type = type]]

\* The store is there now and will be in the next cycle: only then do
\* set_addr_ready and set_val_ready write to it (LsSbExecute).
SbHolds(n, i, rob_tag) ==
  /\ sb[i].busy /\ sb[i].rob_tag = rob_tag
  /\ n[i].busy /\ n[i].rob_tag = rob_tag

----------------------------------------------------------------------------
(* What a load asks.                                                       *)

\* try_forward: older stores to this address that have both address and
\* value; the youngest of them forwards its value.
SbForwarders(addr, rob_tag) ==
  {i \in SbSlots : /\ sb[i].busy /\ sb[i].addr_ready /\ sb[i].val_ready
                   /\ sb[i].rob_tag < rob_tag /\ sb[i].addr = addr}

\* Mutant of SbForwardedValue: the oldest matching store forwards.
SbForwardedValueOldest(addr, rob_tag) ==
  LET from == SbForwarders(addr, rob_tag)
  IN  sb[CHOOSE i \in from : \A j \in from : sb[i].rob_tag <= sb[j].rob_tag].val

SbForwardedValue(addr, rob_tag) ==
  LET from == SbForwarders(addr, rob_tag)
  IN  sb[CHOOSE i \in from : \A j \in from : sb[j].rob_tag <= sb[i].rob_tag].val

\* Mutant of SbMustStall: a store without an address holds nobody up.
SbMustStallKnown(addr, rob_tag) ==
  \E i \in SbSlots : /\ sb[i].busy /\ sb[i].rob_tag < rob_tag
                     /\ sb[i].addr_ready /\ sb[i].addr = addr /\ ~sb[i].val_ready

SbMustStall(addr, rob_tag) ==
  \E i \in SbSlots : /\ sb[i].busy /\ sb[i].rob_tag < rob_tag
                     /\ \/ ~sb[i].addr_ready
                        \/ sb[i].addr = addr /\ ~sb[i].val_ready

----------------------------------------------------------------------------
(* Commit and recovery                                                     *)

SbCommit(n, rob_tag) ==
  [i \in SbSlots |-> IF n[i].busy /\ n[i].rob_tag = rob_tag
                     THEN [n[i] EXCEPT !.busy = FALSE] ELSE n[i]]

\* Mutant of SbFlushFrom: misses the store issued in this cycle.
SbFlushFromCurrent(n, flush_tag) ==
  [i \in SbSlots |-> IF sb[i].busy /\ sb[i].rob_tag > flush_tag
                     THEN [n[i] EXCEPT !.busy = FALSE] ELSE n[i]]

SbFlushFrom(n, flush_tag) ==
  [i \in SbSlots |-> IF n[i].busy /\ n[i].rob_tag > flush_tag
                     THEN [n[i] EXCEPT !.busy = FALSE] ELSE n[i]]

----------------------------------------------------------------------------
SbTypeOK == sb \in [SbSlots -> SbEntry]
============================================================================
