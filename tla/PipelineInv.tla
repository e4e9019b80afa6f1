----------------------------- MODULE PipelineInv -----------------------------
(***************************************************************************)
(* The inductive invariant of the processor: what the invariants of        *)
(* TomasuloProps rest on, from one cycle to the next.                      *)
(*                                                                         *)
(* None of it depends on what a word is.  An entry is known by its fields  *)
(* and by its flags and tags, never by the type of a value in it: words    *)
(* are computed with exponents, which are beyond the provers.              *)
(***************************************************************************)
EXTENDS TomasuloProps, ReorderBufProofs

----------------------------------------------------------------------------
(* Fetch, reorder buffer and alias table                                   *)

FetchedFields == {"valid", "instr", "pc", "pred_taken", "pred_target", "pred_context"}

\* What the instruction memory holds.
Programmed == {prog[k] : k \in DOMAIN prog} \cup {Custom("UNKNOWN")}

\* An instruction that waits for issue is one that issue has a case for.
FetchedFits(f) ==
  /\ DOMAIN f = FetchedFields
  /\ f.valid \in BOOLEAN /\ f.pred_taken \in BOOLEAN
  /\ f.valid => f.instr \in Programmed /\ f.instr \in Instr /\ f.instr.type # "ILLEGAL"

\* An entry is that of an instruction of the program, and says of itself what
\* its type says.
KindOK(e) ==
  /\ \E ins \in Programmed : e.type = ins.type /\ e.dest_reg = ins.rd
  /\ e.type \in AluTypes \cup LsTypes
  /\ e.is_store <=> e.type \in StoreTypes
  /\ e.is_branch <=> e.type \in BranchTypes

RobKinds(r) == \A i \in RobSlots : r.slots[i].busy => KindOK(r.slots[i])

RatShape(t) ==
  /\ DOMAIN t = Reg
  /\ \A x \in Reg : /\ t[x].ready \in BOOLEAN /\ t[x].tag \in Nat
                    /\ t[x].ready => t[x].tag = 0
  /\ t[0].ready

\* An instruction in flight that writes a register.
Writes(e, x) == e.busy /\ ~e.is_store /\ e.dest_reg = x

\* RatNamesYoungestWriter, of any copies of the buffer and the table.
NamesYoungest(r, t) ==
  \A x \in Reg \ {0} :
    IF t[x].ready
    THEN \A i \in RobSlots : ~Writes(r.slots[i], x)
    ELSE /\ \E i \in RobSlots : Writes(r.slots[i], x) /\ r.slots[i].tag = t[x].tag
         /\ \A j \in RobSlots : Writes(r.slots[j], x) => r.slots[j].tag <= t[x].tag

----------------------------------------------------------------------------
(* Reservation stations                                                    *)

AluFields ==
  {"busy", "type", "vj", "qj", "vk", "qk", "rob_tag", "imm", "pc", "done", "result",
   "branch_actual_taken", "branch_target"}

\* A JAL that is done goes where its address and its immediate say.
Jumped(e) ==
  e.busy /\ e.done /\ e.type = "JAL" =>
    e.branch_actual_taken = TRUE /\ e.branch_target = Wrap(e.pc + e.imm)

AluShape(e) ==
  /\ DOMAIN e = AluFields
  /\ e.busy \in BOOLEAN /\ e.done \in BOOLEAN
  /\ e.rob_tag \in Nat /\ e.qj \in Nat /\ e.qk \in Nat
  /\ e.busy => e.type \in AluTypes
  /\ Jumped(e)

LsFields ==
  {"busy", "type", "is_load", "vj", "qj", "vk", "qk", "rob_tag", "imm", "addr_ready", "addr",
   "mem_requested", "done", "mem_result"}

LsShape(e) ==
  /\ DOMAIN e = LsFields
  /\ e.busy \in BOOLEAN /\ e.done \in BOOLEAN /\ e.is_load \in BOOLEAN
  /\ e.addr_ready \in BOOLEAN /\ e.mem_requested \in BOOLEAN
  /\ e.rob_tag \in Nat /\ e.qj \in Nat /\ e.qk \in Nat
  /\ e.busy => e.type \in LsTypes /\ (e.is_load <=> e.type \in LoadTypes)

StationShape(a, l) ==
  /\ DOMAIN a = AluSlots /\ \A i \in AluSlots : AluShape(a[i])
  /\ DOMAIN l = LsSlots /\ \A i \in LsSlots : LsShape(l[i])

BusShape(c) == c.valid \in BOOLEAN /\ c.rob_tag \in Nat /\ (c.valid => c.rob_tag # 0)

\* A slot of the buffer waits for the result of the instruction with this tag,
\* which is not / is a load or a store.
Awaits(r, i, tag, ls) ==
  /\ r.slots[i].busy /\ ~r.slots[i].ready
  /\ r.slots[i].tag = tag
  /\ ls <=> r.slots[i].type \in LsTypes

\* The stations and the buffer name each other's entries, one to one.
Paired(r, a, l) ==
  /\ \A i \in AluSlots : a[i].busy => \E s \in RobSlots : Awaits(r, s, a[i].rob_tag, FALSE)
  /\ \A i \in LsSlots : l[i].busy =>
       \E s \in RobSlots : Awaits(r, s, l[i].rob_tag, TRUE) /\ r.slots[s].type = l[i].type
  /\ \A i, j \in AluSlots : a[i].busy /\ a[j].busy /\ a[i].rob_tag = a[j].rob_tag => i = j
  /\ \A i, j \in LsSlots : l[i].busy /\ l[j].busy /\ l[i].rob_tag = l[j].rob_tag => i = j
  /\ \A s \in RobSlots : r.slots[s].busy /\ ~r.slots[s].ready =>
       \/ \E i \in AluSlots : a[i].busy /\ a[i].rob_tag = r.slots[s].tag
       \/ \E i \in LsSlots : l[i].busy /\ l[i].rob_tag = r.slots[s].tag

\* An operand that waits for q in the entry with this tag will get it: from an
\* older instruction that is no store and still has no result, or whose result
\* is on the bus c.
WillCome(r, c, q, tag) ==
  q # 0 => /\ q < tag
           /\ \/ \E s \in RobSlots : /\ r.slots[s].busy /\ ~r.slots[s].ready
                                     /\ ~r.slots[s].is_store /\ r.slots[s].tag = q
              \/ c.valid /\ c.rob_tag = q

Wakeups(r, a, l, c) ==
  /\ \A i \in AluSlots : a[i].busy => /\ WillCome(r, c, a[i].qj, a[i].rob_tag)
                                      /\ WillCome(r, c, a[i].qk, a[i].rob_tag)
  /\ \A i \in LsSlots : l[i].busy => /\ WillCome(r, c, l[i].qj, l[i].rob_tag)
                                     /\ WillCome(r, c, l[i].qk, l[i].rob_tag)

----------------------------------------------------------------------------
(* Store buffer and memory                                                 *)

SbFields == {"busy", "rob_tag", "addr", "val", "addr_ready", "val_ready", "type"}

SbShape(b) ==
  /\ DOMAIN b = SbSlots
  /\ \A i \in SbSlots : /\ DOMAIN b[i] = SbFields
                        /\ b[i].busy \in BOOLEAN /\ b[i].rob_tag \in Nat
                        /\ b[i].addr_ready \in BOOLEAN /\ b[i].val_ready \in BOOLEAN

\* The store buffer and the reorder buffer name the same stores, one to one.
StoresPaired(r, b) ==
  /\ \A k \in SbSlots : b[k].busy =>
       \E i \in RobSlots : /\ r.slots[i].busy /\ r.slots[i].is_store
                           /\ r.slots[i].tag = b[k].rob_tag
  /\ \A i \in RobSlots : r.slots[i].busy /\ r.slots[i].is_store =>
       \E k \in SbSlots : b[k].busy /\ b[k].rob_tag = r.slots[i].tag
  /\ \A j, k \in SbSlots : b[j].busy /\ b[k].busy /\ b[j].rob_tag = b[k].rob_tag => j = k

\* The value of a store is the same in the station, in the store buffer and in
\* the reorder buffer, and so is the address where the store buffer has one.
ValuesAgree(r, l, b) ==
  /\ \A i \in LsSlots : l[i].busy /\ l[i].done /\ ~l[i].is_load => l[i].addr_ready /\ l[i].qk = 0
  /\ \A i \in LsSlots, k \in SbSlots :
       l[i].busy /\ ~l[i].is_load /\ b[k].busy /\ b[k].rob_tag = l[i].rob_tag =>
         /\ l[i].done => b[k].val_ready /\ b[k].val = l[i].vk
         /\ b[k].addr_ready => l[i].addr_ready /\ b[k].addr = l[i].addr
  /\ \A i \in RobSlots, k \in SbSlots :
       r.slots[i].busy /\ r.slots[i].is_store /\ r.slots[i].ready
       /\ b[k].busy /\ b[k].rob_tag = r.slots[i].tag =>
         /\ b[k].val_ready /\ b[k].val = r.slots[i].store_value
         /\ b[k].addr_ready => b[k].addr = r.slots[i].store_addr

RqFields == {"valid", "is_load", "read_ready", "type", "addr", "val", "cycles_left", "rob_tag"}

RqShape(q) ==
  /\ DOMAIN q = RqFields
  /\ q.valid \in BOOLEAN /\ q.is_load \in BOOLEAN /\ q.read_ready \in BOOLEAN
  /\ q.rob_tag \in Nat
  /\ ~(q.valid /\ q.read_ready)
  /\ q.read_ready => q.is_load

\* The memory works on a load for this tag, or has its answer.
Serves(q, tag) == q.is_load /\ (q.valid \/ q.read_ready) /\ q.rob_tag = tag

\* An entry waits for memory exactly when the memory works for it; the request
\* has its address and its type.
Requested(e) == e.busy /\ e.mem_requested /\ ~e.done

Served(r, l, q) ==
  /\ \A i \in LsSlots : Requested(l[i]) =>
       /\ l[i].is_load /\ l[i].addr_ready
       /\ Serves(q, l[i].rob_tag) /\ q.addr = l[i].addr /\ q.type = l[i].type
  /\ \A i \in LsSlots : l[i].busy /\ Serves(q, l[i].rob_tag) => Requested(l[i])
  /\ Serves(q, q.rob_tag) => q.rob_tag < r.next_tag

----------------------------------------------------------------------------
(* Checkpoints of the predictor                                            *)

\* at lists all of B, in the order of what t says of each.
Sorted(B, t, at, N) ==
  /\ \A i \in B : \E k \in 1 .. N : at[k] = i
  /\ \A j, k \in 1 .. N : j < k => t[at[j]] < t[at[k]]

Conditional(r) == {i \in RobSlots : r.slots[i].busy /\ r.slots[i].type \in CondTypes}
TagOf(r)       == [i \in RobSlots |-> r.slots[i].tag]

\* CheckpointsFollowBranches, of any copies: the N branches in the buffer, and
\* the one in fetch.
Checkpointed(r, f, c) ==
  \E N \in 0 .. RobSize : \E at \in [1 .. N -> Conditional(r)] :
    /\ Sorted(Conditional(r), TagOf(r), at, N)
    /\ c = [k \in 1 .. (IF InFetch(f) THEN N + 1 ELSE N) |->
              IF k <= N THEN CheckpointOfEntry(r.slots[at[k]]) ELSE CheckpointOfFetched(f)]

\* The tokens of the checkpoints are the last that were handed out, in their
\* order, so that the next one is not in use, whether or not the front
\* checkpoint has gone.
TokensInOrder(b) ==
  /\ b.next_token \in Tokens
  /\ \A k \in DOMAIN b.checkpoints :
       /\ b.checkpoints[k].token \in Tokens
       /\ TokenDist(b.next_token, b.checkpoints[k].token) = MaxToken - 1 - Len(b.checkpoints) + k

----------------------------------------------------------------------------

\* A JAL is predicted to go where it goes: it never squashes.
JumpsHit(r, a) ==
  /\ \A s \in RobSlots : r.slots[s].busy /\ r.slots[s].type = "JAL" =>
       /\ r.slots[s].branch_pred_taken = TRUE
       /\ r.slots[s].ready => ~RobMispredicted(r.slots[s])
  /\ \A i \in AluSlots, s \in RobSlots :
       a[i].busy /\ r.slots[s].busy /\ r.slots[s].tag = a[i].rob_tag =>
         /\ r.slots[s].type = a[i].type
         /\ a[i].type = "JAL" => r.slots[s].pred_target = Wrap(a[i].pc + a[i].imm)

FrontInv ==
  /\ prog \in Programs /\ FetchedFits(fetched)
  /\ RingOK(rob) /\ RobKinds(rob)
  /\ RatShape(rat) /\ NamesYoungest(rob, rat)

StationInv ==
  /\ StationShape(alurs, lsrs) /\ BusShape(cdb)
  /\ Paired(rob, alurs, lsrs) /\ Wakeups(rob, alurs, lsrs, cdb)

MemoryInv ==
  /\ SbShape(sb) /\ RqShape(rq)
  /\ StoresPaired(rob, sb) /\ ValuesAgree(rob, lsrs, sb) /\ Served(rob, lsrs, rq)

BranchInv ==
  /\ DOMAIN bp = {"checkpoints", "next_token"}
  /\ Checkpointed(rob, fetched, bp.checkpoints)

\* In flight, every instruction has exactly the entries it needs: one in a
\* station while it has no result, one in the store buffer if it is a store,
\* with the same values in each place; each operand it waits for is still to
\* come; aliases name the youngest writers; the memory works for a load that
\* knows of it, or for none; the predictor has a checkpoint for every branch,
\* with the tokens in their order; and a jump to a fixed place is not mispredicted
\* (the next copies of all components, which every phase of cpu.cpp:178-415 writes
\* apart from the others, fit together).
PipelineInvariant ==
  /\ FrontInv /\ StationInv /\ MemoryInv
  /\ BranchInv /\ TokensInOrder(bp) /\ JumpsHit(rob, alurs)
============================================================================
