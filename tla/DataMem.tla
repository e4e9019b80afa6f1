------------------------------ MODULE DataMem ------------------------------
(***************************************************************************)
(* The data memory behind one wire, src/src/tomasulo/datamem.cpp: it works *)
(* on one request at a time.  A load answers after DmemDelay cycles, a     *)
(* store writes in the cycle after the one that accepted it.               *)
(*                                                                         *)
(* The next copy n has the next request, the requests the phases of this   *)
(* cycle have made, and the memory, which the code does not double-buffer. *)
(***************************************************************************)
EXTENDS Isa

CONSTANTS
  DmemDelay,  \* cycles a load waits (dmem_delay, 3 in the code)
  Image       \* the data memory as load_hex_data leaves it

ASSUME DmemAssumption == DmemDelay \in Nat /\ Image \in Memory

VARIABLES
  rq,      \* the request the memory works on
  mem      \* [MemAddr -> Byte]

MemRq == [valid: BOOLEAN, is_load: BOOLEAN, read_ready: BOOLEAN, type: InstrType,
          addr: Word, val: Word, cycles_left: Nat, rob_tag: Nat]

NoRq == [valid |-> FALSE, is_load |-> FALSE, read_ready |-> FALSE, type |-> "ADD",
         addr |-> 0, val |-> 0, cycles_left |-> 0, rob_tag |-> 0]

DmemInit == rq = NoRq /\ mem = Image

\* compute_next
DmemNext == [rq |-> rq, mem |-> mem, pending_load |-> NoRq, pending_store |-> NoRq]

DmemIsBusy    == rq.valid \/ rq.read_ready
DmemReadReady == rq.read_ready

----------------------------------------------------------------------------
(* Requests of the phases                                                  *)

DmemIssueRead(n, addr, type, rob_tag) ==
  IF DmemIsBusy \/ n.pending_load.valid
  THEN n
  ELSE [n EXCEPT !.pending_load =
          [valid |-> TRUE, is_load |-> TRUE, read_ready |-> FALSE, type |-> type,
           addr |-> addr, val |-> 0, cycles_left |-> DmemDelay, rob_tag |-> rob_tag]]

DmemAcceptsWrite(n) == ~DmemIsBusy /\ ~n.pending_store.valid

DmemIssueWrite(n, addr, val, type) ==
  [n EXCEPT !.pending_store =
     [valid |-> TRUE, is_load |-> FALSE, read_ready |-> FALSE, type |-> type,
      addr |-> addr, val |-> val, cycles_left |-> 0, rob_tag |-> 0]]

----------------------------------------------------------------------------
(* The clock of the memory                                                 *)

DmemDue == rq.valid /\ rq.cycles_left = 0

\* read_half and read_word assert the alignment of the address.
DmemAborts == DmemDue /\ rq.is_load /\ Misaligned(rq.type, rq.addr)

DmemDecreaseLeftCycles(n) ==
  IF ~rq.valid THEN n
  ELSE IF rq.cycles_left > 0
       THEN [n EXCEPT !.rq.cycles_left = rq.cycles_left - 1]
  ELSE IF rq.is_load
       THEN [n EXCEPT !.rq.val = ReadMem(n.mem, rq.type, rq.addr),
                      !.rq.read_ready = TRUE,
                      !.rq.valid = FALSE]
  ELSE [n EXCEPT !.mem = WriteMem(n.mem, rq.type, rq.addr, rq.val),
                 !.rq.valid = FALSE]

\* Mutant of DmemConsumeRead: the answer is never taken away.
DmemConsumeReadNever(n) == n

DmemConsumeRead(n) == IF rq.read_ready THEN [n EXCEPT !.rq.read_ready = FALSE] ELSE n

\* resolve_requests: a store goes before a load, and no load starts in the
\* cycle of a squash.
DmemAcceptsStore(n) == ~DmemIsBusy /\ n.pending_store.valid
\* Mutant of DmemAcceptsLoad: forgets that a store goes first.
DmemAcceptsLoadToo(n, allow_load) == ~DmemIsBusy /\ allow_load /\ n.pending_load.valid

DmemAcceptsLoad(n, allow_load) ==
  ~DmemIsBusy /\ ~n.pending_store.valid /\ allow_load /\ n.pending_load.valid

DmemResolve(n, allow_load) ==
  IF DmemAcceptsStore(n) THEN [n EXCEPT !.rq = n.pending_store]
  ELSE IF DmemAcceptsLoad(n, allow_load) THEN [n EXCEPT !.rq = n.pending_load]
  ELSE n

----------------------------------------------------------------------------
DmemTypeOK == rq \in MemRq /\ mem \in Memory
============================================================================
