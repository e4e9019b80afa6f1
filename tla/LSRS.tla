-------------------------------- MODULE LSRS --------------------------------
(***************************************************************************)
(* The reservation station of loads and stores, src/src/tomasulo/lsrs.cpp, *)
(* with the store buffer it searches and the memory it reads.              *)
(*                                                                         *)
(* vj_ready and vk_ready are left out: a set flag and a zero tag always    *)
(* come together, and execute derives the flag from the tag.               *)
(***************************************************************************)
EXTENDS StoreBuf, DataMem

CONSTANT LsRsSize    \* slots of the station (LSRS_SIZE, 8 in the code)

ASSUME LsRsSizeAssumption == LsRsSize \in Nat \ {0}

VARIABLE lsrs        \* [LsSlots -> LsEntry]

LsSlots == 1 .. LsRsSize

LsEntry ==
  [busy: BOOLEAN, type: InstrType, is_load: BOOLEAN, vj: Word, qj: Nat, vk: Word, qk: Nat,
   rob_tag: Nat, imm: Word, addr_ready: BOOLEAN, addr: Word, mem_requested: BOOLEAN,
   done: BOOLEAN, mem_result: Word]

ZeroLsEntry ==
  [busy |-> FALSE, type |-> "ADD", is_load |-> FALSE, vj |-> 0, qj |-> 0, vk |-> 0, qk |-> 0,
   rob_tag |-> 0, imm |-> 0, addr_ready |-> FALSE, addr |-> 0, mem_requested |-> FALSE,
   done |-> FALSE, mem_result |-> 0]

LsRsInit == lsrs = [i \in LsSlots |-> ZeroLsEntry]

LsRsIsFull == \A i \in LsSlots : lsrs[i].busy

\* An instruction whose base is resolved gets its address at once.
LsRsAlloc(n, ins, rj, rk, rob_tag) ==
  IF LsRsIsFull
  THEN n
  ELSE LET free == CHOOSE i \in LsSlots : /\ ~lsrs[i].busy
                                          /\ \A j \in LsSlots : j < i => lsrs[j].busy
       IN  [n EXCEPT ![free] =
              [ZeroLsEntry EXCEPT !.busy = TRUE, !.type = ins.type,
                 !.is_load = ins.type \in LoadTypes,
                 !.vj = rj.val, !.qj = rj.tag, !.vk = rk.val, !.qk = rk.tag,
                 !.rob_tag = rob_tag, !.imm = ins.imm,
                 !.addr_ready = rj.ready,
                 !.addr = IF rj.ready THEN Wrap(rj.val + ins.imm) ELSE 0]]

LsRsListen(n, bus) ==
  [i \in LsSlots |->
    IF ~(bus.valid /\ lsrs[i].busy) THEN n[i]
    ELSE LET j == lsrs[i].qj = bus.rob_tag
             k == lsrs[i].qk = bus.rob_tag
         IN  [n[i] EXCEPT !.vj = IF j THEN bus.val ELSE @, !.qj = IF j THEN 0 ELSE @,
                          !.vk = IF k THEN bus.val ELSE @, !.qk = IF k THEN 0 ELSE @]]

LsOldest(slots) ==
  {i \in slots : \A j \in slots \ {i} :
     \/ lsrs[i].rob_tag < lsrs[j].rob_tag
     \/ lsrs[i].rob_tag = lsrs[j].rob_tag /\ i < j}

----------------------------------------------------------------------------
(* execute, one operator for each of its parts                             *)

\* The load the memory answers in this cycle.
LsAnswered ==
  {i \in LsSlots : /\ DmemReadReady
                   /\ lsrs[i].busy /\ lsrs[i].is_load /\ lsrs[i].mem_requested
                   /\ ~lsrs[i].done /\ lsrs[i].rob_tag = rq.rob_tag}

LsUndone == {i \in LsSlots : lsrs[i].busy /\ ~lsrs[i].done}

\* Entries that get their address in this cycle, and the address an entry has
\* once they have.
LsComputesAddr == {i \in LsUndone : ~lsrs[i].addr_ready /\ lsrs[i].qj = 0}
LsHasAddr(i)   == lsrs[i].addr_ready \/ i \in LsComputesAddr
LsAddr(i)      == IF i \in LsComputesAddr THEN Wrap(lsrs[i].vj + lsrs[i].imm) ELSE lsrs[i].addr

\* Mutant of LsCompletes: a store does not wait for its value.
LsCompletesEarly == {i \in LsUndone : ~lsrs[i].is_load /\ LsHasAddr(i)}

\* Stores that are complete: address and value.
LsCompletes == {i \in LsUndone : ~lsrs[i].is_load /\ LsHasAddr(i) /\ lsrs[i].qk = 0}

\* older_store_conflict, against the stores that are still in the station.
LsOlderStoreConflict(i) ==
  \E s \in LsSlots : /\ lsrs[s].busy /\ ~lsrs[s].is_load
                     /\ lsrs[s].rob_tag < lsrs[i].rob_tag
                     /\ \/ ~lsrs[s].addr_ready
                        \/ lsrs[s].addr = LsAddr(i)

\* Loads with nothing in the station to wait for.
LsFreeLoads == {i \in LsUndone : /\ lsrs[i].is_load /\ LsHasAddr(i) /\ ~lsrs[i].mem_requested
                                 /\ ~LsOlderStoreConflict(i)}

\* Those the store buffer can serve; the oldest one is, unless the memory
\* answers in the same cycle.
LsServed    == {i \in LsFreeLoads : SbForwarders(LsAddr(i), lsrs[i].rob_tag) # {}}
LsForwarded == IF DmemReadReady THEN {} ELSE LsOldest(LsServed)

\* Those that may go to memory; the oldest one asks for it.
LsForMemory == {i \in LsFreeLoads \ LsServed : /\ ~SbMustStall(LsAddr(i), lsrs[i].rob_tag)
                                               /\ ~DmemIsBusy}

\* The next station, store buffer and memory after execute.
LsRsExecute(n) ==
  [i \in LsSlots |->
    LET live == n[i].busy /\ n[i].rob_tag = lsrs[i].rob_tag
        addressed == IF i \in LsComputesAddr /\ live
                     THEN [n[i] EXCEPT !.addr = LsAddr(i), !.addr_ready = TRUE]
                     ELSE n[i]
    IN  IF i \in LsAnswered
        THEN [addressed EXCEPT !.mem_result = rq.val, !.done = TRUE, !.mem_requested = FALSE]
        ELSE IF live /\ i \in LsCompletes
        THEN [addressed EXCEPT !.done = TRUE]
        ELSE IF live /\ i \in LsForwarded
        THEN [addressed EXCEPT
                !.mem_result = Extend(lsrs[i].type,
                                      SbForwardedValue(LsAddr(i), lsrs[i].rob_tag)),
                !.done = TRUE]
        ELSE addressed]

\* Only an address computed here reaches the store buffer: that of a store
\* whose base was ready at issue does not.
LsPublishesAddr == {i \in LsComputesAddr : ~lsrs[i].is_load}

LsSbExecute(n) ==
  [b \in SbSlots |->
    LET of(stores) == {i \in stores : SbHolds(n, b, lsrs[i].rob_tag)}
        addr == of(LsPublishesAddr)
        val  == of(LsCompletes)
    IN  [n[b] EXCEPT
           !.addr       = IF addr # {} THEN LsAddr(CHOOSE i \in addr : TRUE) ELSE @,
           !.addr_ready = @ \/ addr # {},
           !.val        = IF val # {} THEN lsrs[CHOOSE i \in val : TRUE].vk ELSE @,
           !.val_ready  = @ \/ val # {}]]

LsDmemExecute(n) ==
  LET c == DmemConsumeRead(n)
  IN  IF LsOldest(LsForMemory) = {}
      THEN c
      ELSE LET i == CHOOSE l \in LsOldest(LsForMemory) : TRUE
           IN  DmemIssueRead(c, LsAddr(i), lsrs[i].type, lsrs[i].rob_tag)

----------------------------------------------------------------------------
(* The other operations                                                    *)

LsRsMarkRequested(n, rob_tag) ==
  [i \in LsSlots |->
    IF /\ lsrs[i].busy /\ lsrs[i].rob_tag = rob_tag
       /\ n[i].busy /\ n[i].rob_tag = rob_tag
    THEN [n[i] EXCEPT !.mem_requested = TRUE]
    ELSE n[i]]

\* The oldest finished load may go on the bus.
LsRsCandidate == LsOldest({i \in LsSlots : lsrs[i].busy /\ lsrs[i].done /\ lsrs[i].is_load})

\* Finished stores leave without the bus.
LsDoneStores == {i \in LsSlots : lsrs[i].busy /\ lsrs[i].done /\ ~lsrs[i].is_load}

LsRsFree(n, tags) ==
  [i \in LsSlots |->
    IF lsrs[i].busy /\ lsrs[i].rob_tag \in tags /\ n[i].rob_tag = lsrs[i].rob_tag
    THEN [n[i] EXCEPT !.busy = FALSE, !.done = FALSE]
    ELSE n[i]]

LsRsFlush(n) == [i \in LsSlots |-> [n[i] EXCEPT !.busy = FALSE, !.done = FALSE]]

----------------------------------------------------------------------------
LsRsTypeOK == lsrs \in [LsSlots -> LsEntry]
============================================================================
