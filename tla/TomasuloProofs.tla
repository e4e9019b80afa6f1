---------------------------- MODULE TomasuloProofs ----------------------------
(***************************************************************************)
(* The processor keeps its inductive invariant, and what follows.  The     *)
(* sections before the invariant are about conditional branches: the       *)
(* checkpoints that the predictor keeps for them stay in step with the     *)
(* reorder buffer and the fetch latch, and so do their tokens.             *)
(***************************************************************************)
EXTENDS StationProofs, FiniteSetTheorems, SequenceTheorems

----------------------------------------------------------------------------
(* Queues as functions, and sorted listings of a set                       *)

\* A function on 1 .. M is a sequence of that length.
LEMMA SequenceIs ==
  ASSUME NEW M \in Nat, NEW c, c = [k \in 1 .. M |-> c[k]]
  PROVE  /\ c \in Seq({c[k] : k \in 1 .. M}) /\ Len(c) = M
         /\ M > 0 => c # << >> /\ Head(c) = c[1] /\ Tail(c) = [k \in 1 .. M - 1 |-> c[k + 1]]
         /\ \A x : Append(c, x) = [k \in 1 .. M + 1 |-> IF k <= M THEN c[k] ELSE x]
<1> DEFINE S == {c[k] : k \in 1 .. M}
<1>1. c \in [1 .. M -> S]
  OBVIOUS
<1> HIDE DEF S
<1>2. c \in Seq(S) /\ Len(c) = M
  BY <1>1
<1>3. ASSUME M > 0
      PROVE  c # << >> /\ Head(c) = c[1] /\ Tail(c) = [k \in 1 .. M - 1 |-> c[k + 1]]
  <2>1. c # << >> /\ Head(c) = c[1]
    BY <1>2, <1>3
  <2>2. Tail(c) \in Seq(S) /\ Len(Tail(c)) = M - 1 /\ DOMAIN Tail(c) = 1 .. M - 1
    BY <1>2, <1>3, <2>1
  <2>3. \A k \in 1 .. M - 1 : Tail(c)[k] = c[k + 1]
    BY <1>2, <1>3, <2>1
  <2>4. Tail(c) = [k \in 1 .. M - 1 |-> Tail(c)[k]]
    BY <2>2
  <2> QED BY <2>1, <2>3, <2>4
<1>4. ASSUME NEW x
      PROVE  Append(c, x) = [k \in 1 .. M + 1 |-> IF k <= M THEN c[k] ELSE x]
  <2>1. c \in Seq(S \cup {x})
    BY <1>1
  <2>2. Append(c, x) \in Seq(S \cup {x}) /\ Len(Append(c, x)) = M + 1
    BY <1>2, <2>1
  <2>3. DOMAIN Append(c, x) = 1 .. M + 1
    BY <2>2
  <2>4. \A k \in 1 .. M + 1 : Append(c, x)[k] = IF k <= M THEN c[k] ELSE x
    BY <1>2, <2>1
  <2>5. Append(c, x) = [k \in 1 .. M + 1 |-> Append(c, x)[k]]
    BY <2>2, <2>3
  <2> QED BY <2>4, <2>5
<1> QED BY <1>2, <1>3, <1>4 DEF S

Numbered(B, t) == \A i \in B : t[i] \in Nat

\* h is what t puts first of B; f lists what at lists, but for its first.
Least(B, t, h) == h \in B /\ Numbered(B, t) /\ \A i \in B \ {h} : t[h] < t[i]
RestOf(f, at, N) == \A k \in 1 .. N - 1 : f[k] = at[k + 1]

\* The first of a sorted listing is the least, and the rest is one of the rest.
LEMMA SortedRest ==
  ASSUME NEW B, NEW t, NEW N \in Nat, NEW at \in [1 .. N -> B], Sorted(B, t, at, N),
         NEW h, Least(B, t, h),
         NEW f \in [1 .. N - 1 -> B], RestOf(f, at, N)
  PROVE  /\ N - 1 \in Nat /\ at[1] = h
         /\ f \in [1 .. N - 1 -> B \ {h}] /\ Sorted(B \ {h}, t, f, N - 1)
<1> USE DEF Least, Numbered
<1>1. PICK m \in 1 .. N : at[m] = h
  BY DEF Sorted
<1>2. m = 1
  <2>1. CASE m > 1
    <3>1. 1 \in 1 .. N /\ at[1] \in B /\ t[at[1]] < t[h]
      BY <1>1, <2>1 DEF Sorted
    <3> QED BY <3>1
  <2> QED BY <2>1
<1>3. \A k \in 1 .. N - 1 : f[k] = at[k + 1] /\ k + 1 \in 1 .. N /\ f[k] \in B
  BY DEF RestOf
<1>4. \A k \in 1 .. N - 1 : f[k] # h
  <2> SUFFICES ASSUME NEW k \in 1 .. N - 1, at[k + 1] = h PROVE FALSE
    BY <1>3
  <2>1. 1 \in 1 .. N /\ k + 1 \in 1 .. N /\ 1 < k + 1
    OBVIOUS
  <2>2. t[at[1]] < t[at[k + 1]]
    BY <2>1 DEF Sorted
  <2>3. t[h] < t[h] /\ t[h] \in Nat
    BY <1>1, <1>2, <2>2
  <2> QED BY <2>3
<1>5. \A i \in B \ {h} : \E k \in 1 .. N - 1 : f[k] = i
  <2> SUFFICES ASSUME NEW i \in B \ {h} PROVE \E k \in 1 .. N - 1 : f[k] = i
    OBVIOUS
  <2>1. PICK k \in 1 .. N : at[k] = i
    BY DEF Sorted
  <2>2. k # 1
    BY <1>1, <1>2, <2>1
  <2>3. k - 1 \in 1 .. N - 1 /\ (k - 1) + 1 = k
    BY <2>2
  <2>4. f[k - 1] = i
    BY <1>3, <2>1, <2>3
  <2> QED BY <2>3, <2>4
<1>6. \A j, k \in 1 .. N - 1 : j < k => t[f[j]] < t[f[k]]
  <2> SUFFICES ASSUME NEW j \in 1 .. N - 1, NEW k \in 1 .. N - 1, j < k PROVE t[f[j]] < t[f[k]]
    OBVIOUS
  <2>1. j + 1 \in 1 .. N /\ k + 1 \in 1 .. N /\ j + 1 < k + 1
    OBVIOUS
  <2>2. t[at[j + 1]] < t[at[k + 1]]
    BY <2>1 DEF Sorted
  <2> QED BY <1>3, <2>2
<1>7. f \in [1 .. N - 1 -> B \ {h}]
  BY <1>3, <1>4
<1> QED BY <1>1, <1>2, <1>5, <1>6, <1>7 DEF Sorted

\* A new greatest element goes to the end of the listing.
Beyond(B, t, x) == \A i \in B : t[i] < t[x]
Extends(f, at, N, x) == \A k \in 1 .. N + 1 : f[k] = IF k <= N THEN at[k] ELSE x

LEMMA SortedAdd ==
  ASSUME NEW B, NEW t, NEW N \in Nat, NEW at \in [1 .. N -> B], Sorted(B, t, at, N),
         NEW x, Beyond(B, t, x),
         NEW f \in [1 .. N + 1 -> B \cup {x}], Extends(f, at, N, x)
  PROVE  Sorted(B \cup {x}, t, f, N + 1)
<1> USE DEF Beyond
<1>1. /\ \A k \in 1 .. N : k \in 1 .. N + 1 /\ f[k] = at[k] /\ f[k] \in B
      /\ N + 1 \in 1 .. N + 1 /\ f[N + 1] = x
      /\ \A k \in 1 .. N + 1 : k \in 1 .. N \/ k = N + 1
  BY DEF Extends
<1>2. \A i \in B \cup {x} : \E k \in 1 .. N + 1 : f[k] = i
  <2>1. \A i \in B : \E k \in 1 .. N : at[k] = i
    BY DEF Sorted
  <2> QED BY <1>1, <2>1
<1>3. \A j, k \in 1 .. N + 1 : j < k => t[f[j]] < t[f[k]]
  <2> SUFFICES ASSUME NEW j \in 1 .. N + 1, NEW k \in 1 .. N + 1, j < k PROVE t[f[j]] < t[f[k]]
    OBVIOUS
  <2>1. j \in 1 .. N
    OBVIOUS
  <2>2. CASE k \in 1 .. N
    BY <1>1, <2>1, <2>2 DEF Sorted
  <2>3. CASE k = N + 1
    BY <1>1, <2>1, <2>3
  <2> QED BY <1>1, <2>2, <2>3
<1> QED BY <1>2, <1>3 DEF Sorted

\* A sorted listing is as long as its set is large.
LEMMA SortedLength ==
  ASSUME NEW B, NEW t, NEW N \in Nat, NEW at \in [1 .. N -> B], Sorted(B, t, at, N),
         Numbered(B, t)
  PROVE  IsFiniteSet(B) /\ Cardinality(B) = N
<1>1. IsFiniteSet(1 .. N) /\ Cardinality(1 .. N) = N
  BY FS_Interval
<1>2. \A j, k \in 1 .. N : at[j] = at[k] => j = k
  <2> SUFFICES ASSUME NEW j \in 1 .. N, NEW k \in 1 .. N, at[j] = at[k], j # k PROVE FALSE
    OBVIOUS
  <2>1. t[at[j]] < t[at[k]] \/ t[at[k]] < t[at[j]]
    BY DEF Sorted
  <2>2. t[at[j]] \in Nat
    BY DEF Numbered
  <2> QED BY <2>1, <2>2
<1>3. at \in Surjection(1 .. N, B)
  BY DEF Surjection, Sorted
<1>4. at \in Injection(1 .. N, B)
  BY <1>2 DEF Injection, IsInjective
<1> QED BY <1>1, <1>3, <1>4, FS_Surjection

----------------------------------------------------------------------------
(* What a cycle does to the predictor, the fetch latch, the register file, *)
(* and what makes it give up                                               *)

Ins1 == InstrAt(prog, pc)

BpFetched(taken) == IF Predicts THEN BpPredict(bp, pc, taken) ELSE bp

CommitsBranch == Commits /\ Head1.is_branch /\ Head1.type \notin JumpTypes
BpAgrees(taken) == BpUpdateAsserts(BpFetched(taken), Head1.pc, Head1.branch_pred_context)
BpCommitted(taken) ==
  IF CommitsBranch /\ BpAgrees(taken) THEN BpUpdate(BpFetched(taken)) ELSE BpFetched(taken)

RegsCommitted == IF CommitsReg THEN WriteReg(regs, Head1.dest_reg, Head1.val) ELSE regs

\* The ways to give up, of which an assertion of the predictor is one.
GivesUp(taken) ==
  \/ Fetches /\ Ins1.type = "ILLEGAL"
  \/ CommitsBranch /\ ~BpAgrees(taken)
  \/ DmemAborts
  \/ Squashes /\ ~RobFlushAsserts(Head1.tag)

\* The latch f as fetch leaves it, and as issue then does.
FetchFills(f, taken) ==
  /\ Predicts => InFetch(f) /\ CheckpointOfFetched(f) = [token |-> FreshToken(bp), pc |-> pc,
                                                         final_prediction |-> taken]
  /\ ~Predicts => f = fetched \/ (Fetches /\ ~InFetch(f))
IssueTakes(f, g) ==
  IF InFetch(fetched) /\ Issues THEN ~InFetch(g)
  ELSE (InFetch(g) <=> InFetch(f)) /\ (InFetch(g) => g = f)

FrontEffect(taken) ==
  /\ bp' = IF Squashes THEN BpRecover(BpCommitted(taken)) ELSE BpCommitted(taken)
  /\ regs' = FlushZero(RegsCommitted)
  /\ Squashes => ~fetched'.valid
  /\ ~Squashes => \E f : FetchFills(f, taken) /\ IssueTakes(f, fetched')
  /\ aborted' => aborted \/ GivesUp(taken)

\* The parts of a copy that are followed here.
Carries(n, b, g, q) == DOMAIN n = CopyFields /\ n.bp = b /\ n.regs = g /\ n.squash = q

\* fetch asks the predictor about a conditional branch only.
LEMMA FetchFront ==
  ASSUME prog \in Programs, FetchedFits(fetched), NEW taken \in BOOLEAN
  PROVE  LET n == Fetch(NextStates, taken)
         IN  /\ Carries(n, BpFetched(taken), regs, NoSquash)
             /\ FetchFills(n.fetched, taken)
             /\ n.aborted => aborted \/ GivesUp(taken)
<1> DEFINE n == Fetch(NextStates, taken)
           next == Wrap(pc + 4)
           there == Wrap(pc + Ins1.imm)
           target == IF taken THEN there ELSE next
           word == [valid |-> TRUE, instr |-> Ins1, pc |-> pc,
                    pred_taken |-> FALSE, pred_target |-> next, pred_context |-> 0]
           token == [word EXCEPT !.pred_taken = taken, !.pred_target = target,
                                 !.pred_context = FreshToken(bp)]
<1>1. DOMAIN NextStates = CopyFields /\ NextStates.bp = bp
  BY DEF NextStates, CopyFields
<1>2. n.regs = regs /\ n.squash = NoSquash /\ DOMAIN n = CopyFields
  BY DEF Fetch, NextStates, CopyFields
<1>3. Ins1.type \in CondTypes => Ins1.type \notin {"ILLEGAL", "JAL", "JALR"}
  BY DEF CondTypes
<1>4. CASE Predicts
  <2>1. Fetches /\ ~redirect /\ Ins1.type \in CondTypes
    BY <1>4 DEF Predicts, Fetches, Ins1
  <2>2. n.bp = BpPredict(bp, pc, taken) /\ n.fetched = token /\ n.aborted = aborted
    BY <1>3, <2>1 DEF Fetch, NextStates, Ins1
  <2>3. token.valid /\ token.instr = Ins1 /\ token.pc = pc /\ token.pred_taken = taken
        /\ token.pred_context = FreshToken(bp)
    OBVIOUS
  <2> HIDE DEF n, token
  <2> QED BY <1>2, <1>4, <2>1, <2>2, <2>3
      DEF Carries, BpFetched, FetchFills, InFetch, CheckpointOfFetched, n
<1>5. CASE ~Predicts
  <2>1. Fetches => Ins1.type \notin CondTypes
    BY <1>5 DEF Predicts, Ins1
  <2>2. n.bp = bp
    BY <2>1 DEF Fetch, NextStates, Ins1, Fetches
  <2>3. n.fetched = fetched \/ (Fetches /\ n.fetched = word)
    BY <2>1 DEF Fetch, NextStates, Ins1, Fetches
  <2>4. n.aborted = aborted \/ (Fetches /\ Ins1.type = "ILLEGAL")
    BY <2>1 DEF Fetch, NextStates, Ins1, Fetches
  <2>5. word.instr = Ins1
    OBVIOUS
  <2> HIDE DEF n, word
  <2> QED BY <1>2, <1>5, <2>1, <2>2, <2>3, <2>4, <2>5
      DEF Carries, BpFetched, FetchFills, InFetch, GivesUp, n
<1> QED BY <1>4, <1>5

\* commit takes away the front checkpoint if it is that of the head.
LEMMA CommitFront ==
  ASSUME NEW taken, NEW n, NEW f,
         Holds(n, rob, rat, alurs, lsrs, sb, DmemNext, cdb, f, NoSquash),
         Carries(n, BpFetched(taken), regs, NoSquash),
         n.aborted => aborted \/ GivesUp(taken)
  PROVE  LET m == Commit(n)
         IN  /\ Carries(m, BpCommitted(taken), RegsCommitted, m.squash)
             /\ m.aborted => aborted \/ GivesUp(taken)
<1> DEFINE m == Commit(n)
           b == BpFetched(taken)
<1>1. DmemAcceptsWrite(n.dmem) <=> ~DmemIsBusy
  BY DEF Holds, DmemAcceptsWrite, DmemNext, NoRq
<1> HIDE DEF b
<1>2. n.bp = b
  BY DEF Carries, b
<1>3. DOMAIN m = CopyFields
  BY <1>1 DEF Commit, Holds, CopyFields
<1>4. m.bp = IF CommitsBranch /\ BpUpdateAsserts(b, Head1.pc, Head1.branch_pred_context)
             THEN BpUpdate(b) ELSE b
  BY <1>1, <1>2 DEF Commit, Holds, Commits, Head1, CopyFields, RobHeadEntry, CommitsBranch
<1>5. m.regs = RegsCommitted
  BY <1>1 DEF Commit, Holds, Carries, Commits, Head1, CopyFields, RobHeadEntry, RegsCommitted,
              CommitsReg
<1>6. m.aborted => n.aborted \/ (CommitsBranch
                                   /\ ~BpUpdateAsserts(b, Head1.pc, Head1.branch_pred_context))
  BY <1>1, <1>2 DEF Commit, Holds, Commits, Head1, CopyFields, RobHeadEntry, CommitsBranch
<1> HIDE DEF m
<1> QED BY <1>3, <1>4, <1>5, <1>6 DEF Carries, BpCommitted, BpAgrees, GivesUp, b, m

\* execute, writeback and issue leave the predictor and the registers alone.
LEMMA MiddleFront ==
  ASSUME NEW n, NEW b, NEW g, NEW q, Carries(n, b, g, q), FetchedFits(fetched),
         NEW f, n.fetched = f, FetchedFits(f), fetched.valid => f = fetched
  PROVE  LET m == Issue(Writeback(CdbListen(Execute(n))))
         IN  /\ Carries(m, b, g, q) /\ IssueTakes(f, m.fetched) /\ FetchedFits(m.fetched)
             /\ m.aborted => n.aborted \/ DmemAborts
<1> DEFINE x == Execute(n)
           y == CdbListen(x)
           z == Writeback(y)
           m == Issue(z)
<1>1. Carries(x, b, g, q) /\ x.fetched = f /\ (x.aborted => n.aborted \/ DmemAborts)
  BY DEF Execute, Carries, CopyFields
<1> HIDE DEF x
<1>2. Carries(y, b, g, q) /\ y.fetched = f /\ y.aborted = x.aborted
  BY <1>1 DEF CdbListen, Carries, CopyFields
<1> HIDE DEF y
<1>3. Carries(z, b, g, q) /\ z.fetched = f /\ z.aborted = y.aborted
  BY <1>2 DEF Writeback, Carries, CopyFields
<1> HIDE DEF z
<1>4. /\ fetched.valid => Instr1.type \in InstrType /\ Instr1.type # "ILLEGAL"
      /\ Instr1.type \in CondTypes => Instr1.type \in AluTypes
      /\ Instr1.type \in AluTypes \cup LsTypes => Instr1.type \notin {"HALT", "NOP", "UNKNOWN"}
  BY DEF FetchedFits, FetchedFields, Instr, Instr1, AluTypes, LsTypes, AluRTypes, AluITypes,
         UpperTypes, BranchTypes, CondTypes, JumpTypes, LoadTypes, StoreTypes
<1>5. fetched.valid =>
        Instr1.type \in {"HALT", "NOP", "UNKNOWN"} \/ Instr1.type \in AluTypes \cup LsTypes
  BY <1>4 DEF InstrType, NoPlaceTypes
<1> DEFINE clears == Issues \/ (fetched.valid /\ ~halted
                                   /\ Instr1.type \in {"HALT", "NOP", "UNKNOWN"})
           Same(v) == /\ DOMAIN v = CopyFields
                      /\ v.bp = z.bp /\ v.regs = z.regs /\ v.squash = z.squash
                      /\ v.aborted = z.aborted
<1>6. Same(m) /\ m.fetched = IF clears THEN [f EXCEPT !.valid = FALSE] ELSE f
  <2>1. DOMAIN z = CopyFields /\ z.fetched = f
    BY <1>3 DEF Carries, CopyFields
  <2>2. CASE ~fetched.valid \/ halted
    <3>1. m = z
      BY <2>2 DEF Issue
    <3> HIDE DEF m
    <3> QED BY <2>1, <2>2, <3>1 DEF Issues
  <2>3. CASE fetched.valid /\ ~halted /\ Instr1.type \in {"HALT", "NOP", "UNKNOWN"}
    <3>1. Same(m)
      BY <1>4, <2>1, <2>3 DEF Issue, Instr1, CopyFields
    <3>2. m.fetched = [f EXCEPT !.valid = FALSE]
      BY <1>4, <2>1, <2>3 DEF Issue, Instr1, CopyFields
    <3> QED BY <2>3, <3>1, <3>2
  <2>4. CASE fetched.valid /\ ~halted /\ Instr1.type \in AluTypes \cup LsTypes /\ Stalls
    <3>1. m = z
      BY <1>4, <2>1, <2>4 DEF Issue, Instr1, Stalls
    <3> HIDE DEF m
    <3> QED BY <1>4, <2>1, <2>4, <3>1 DEF Issues
  <2>5. CASE Issues
    <3>1. Same(m)
      BY <1>4, <2>1, <2>5 DEF Issue, Issues, Instr1, Stalls, CopyFields
    <3>2. m.fetched = [f EXCEPT !.valid = FALSE]
      BY <1>4, <2>1, <2>5 DEF Issue, Issues, Instr1, Stalls, CopyFields
    <3> QED BY <2>5, <3>1, <3>2
  <2> QED BY <1>5, <2>2, <2>3, <2>4, <2>5 DEF Issues
<1>7. Carries(m, b, g, q) /\ m.aborted = z.aborted
  BY <1>3, <1>6 DEF Carries
<1>8. [f EXCEPT !.valid = FALSE].instr = f.instr /\ ~InFetch([f EXCEPT !.valid = FALSE])
  <2>1. ~[f EXCEPT !.valid = FALSE].valid
    BY DEF FetchedFits, FetchedFields
  <2> QED BY <2>1 DEF InFetch
<1>9. IssueTakes(f, m.fetched)
  <2> HIDE DEF m
  <2>1. CASE Issues
    <3>1. fetched.valid /\ f = fetched
      BY <2>1 DEF Issues
    <3> QED BY <1>6, <1>8, <2>1, <3>1 DEF IssueTakes, InFetch
  <2>2. CASE ~Issues /\ fetched.valid /\ ~halted /\ Instr1.type \in {"HALT", "NOP", "UNKNOWN"}
    BY <1>4, <1>6, <1>8, <2>2 DEF IssueTakes, InFetch, Instr1
  <2>3. CASE ~Issues /\ ~(fetched.valid /\ ~halted /\ Instr1.type \in {"HALT", "NOP", "UNKNOWN"})
    BY <1>6, <2>3 DEF IssueTakes
  <2> QED BY <2>1, <2>2, <2>3
<1>10. FetchedFits(m.fetched)
  BY <1>6 DEF FetchedFits, FetchedFields
<1> HIDE DEF m
<1> QED BY <1>1, <1>2, <1>3, <1>7, <1>9, <1>10 DEF m, x, y, z

\* A squash empties the fetch latch and drops every checkpoint.
LEMMA EndFront ==
  ASSUME NEW n, NEW b, NEW g, NEW q, Carries(n, b, g, q), SquashOf(q), FetchedFits(n.fetched)
  PROVE  LET m == ResolveRequests(ResolveCycleOutputs(Finalize(n)))
         IN  /\ m.bp = IF Squashes THEN BpRecover(b) ELSE b
             /\ m.regs = FlushZero(g)
             /\ m.fetched = IF Squashes THEN [n.fetched EXCEPT !.valid = FALSE] ELSE n.fetched
             /\ m.aborted => n.aborted \/ (Squashes /\ ~RobFlushAsserts(Head1.tag))
<1> DEFINE x == Finalize(n)
           y == ResolveCycleOutputs(x)
           m == ResolveRequests(y)
<1>1. Carries(x, b, FlushZero(g), q) /\ x.fetched = n.fetched /\ x.aborted = n.aborted
  BY DEF Finalize, Carries, CopyFields
<1> HIDE DEF x
<1>2. /\ DOMAIN y = CopyFields
      /\ y.bp = IF Squashes THEN BpRecover(b) ELSE b
      /\ y.regs = FlushZero(g)
      /\ y.fetched = IF Squashes THEN [n.fetched EXCEPT !.valid = FALSE] ELSE n.fetched
      /\ y.aborted => n.aborted \/ (Squashes /\ ~RobFlushAsserts(Head1.tag))
  <2>1. CASE ~Squashes
    <3>1. y = x
      BY <1>1, <2>1 DEF ResolveCycleOutputs, Carries, SquashOf
    <3> HIDE DEF y
    <3> QED BY <1>1, <2>1, <3>1 DEF Carries
  <2>2. CASE Squashes
    <3>1. x.squash.pending /\ x.squash.tag = Head1.tag /\ DOMAIN x = CopyFields
      BY <1>1, <2>2 DEF SquashOf, Carries
    <3>2. /\ DOMAIN y = CopyFields /\ y.bp = BpRecover(x.bp) /\ y.regs = x.regs
          /\ y.fetched = [x.fetched EXCEPT !.valid = FALSE]
      BY <3>1 DEF ResolveCycleOutputs, CopyFields
    <3>3. y.aborted => x.aborted \/ ~RobFlushAsserts(Head1.tag)
      BY <3>1 DEF ResolveCycleOutputs, CopyFields
    <3> HIDE DEF y
    <3> QED BY <1>1, <2>2, <3>2, <3>3 DEF Carries
  <2> QED BY <2>1, <2>2
<1> HIDE DEF y
<1>3. m.bp = y.bp /\ m.regs = y.regs /\ m.fetched = y.fetched /\ m.aborted = y.aborted
  BY <1>2 DEF ResolveRequests, CopyFields
<1> HIDE DEF m
<1> QED BY <1>2, <1>3 DEF m, y, x

\* A whole cycle.
LEMMA CycleFront ==
  ASSUME prog \in Programs, FetchedFits(fetched), Cycle
  PROVE  \E taken \in BOOLEAN : FrontEffect(taken)
<1>1. PICK taken \in BOOLEAN : Update(ResolveRequests(ResolveCycleOutputs(Phases(taken))))
  BY DEF Cycle
<1> DEFINE n1 == Fetch(NextStates, taken)
           n2 == Commit(n1)
           n5 == Issue(Writeback(CdbListen(Execute(n2))))
           n6 == ResolveRequests(ResolveCycleOutputs(Finalize(n5)))
<1>2. Update(n6)
  BY <1>1 DEF Phases
<1>3. /\ Holds(n1, rob, rat, alurs, lsrs, sb, DmemNext, cdb, n1.fetched, NoSquash)
      /\ FetchedFits(n1.fetched)
      /\ fetched.valid => n1.fetched = fetched
  BY FetchEffect DEF Fetches
<1>4. /\ Carries(n1, BpFetched(taken), regs, NoSquash) /\ FetchFills(n1.fetched, taken)
      /\ n1.aborted => aborted \/ GivesUp(taken)
  BY FetchFront
<1> HIDE DEF n1
<1>5. SquashOf(n2.squash) /\ n2.fetched = n1.fetched
  BY <1>3, CommitEffect DEF Holds
<1>6. /\ Carries(n2, BpCommitted(taken), RegsCommitted, n2.squash)
      /\ n2.aborted => aborted \/ GivesUp(taken)
  BY <1>3, <1>4, CommitFront
<1> HIDE DEF n2
<1>7. /\ Carries(n5, BpCommitted(taken), RegsCommitted, n2.squash)
      /\ IssueTakes(n1.fetched, n5.fetched)
      /\ FetchedFits(n5.fetched)
      /\ n5.aborted => n2.aborted \/ DmemAborts
  BY <1>3, <1>5, <1>6, MiddleFront
<1> HIDE DEF n5
<1>8. /\ n6.bp = IF Squashes THEN BpRecover(BpCommitted(taken)) ELSE BpCommitted(taken)
      /\ n6.regs = FlushZero(RegsCommitted)
      /\ n6.fetched = IF Squashes THEN [n5.fetched EXCEPT !.valid = FALSE] ELSE n5.fetched
      /\ n6.aborted => n5.aborted \/ (Squashes /\ ~RobFlushAsserts(Head1.tag))
  BY <1>5, <1>7, EndFront
<1> HIDE DEF n6
<1>9. bp' = n6.bp /\ regs' = n6.regs /\ fetched' = n6.fetched /\ aborted' = n6.aborted
  BY <1>2 DEF Update
<1>10. Squashes => ~fetched'.valid
  BY <1>7, <1>8, <1>9 DEF FetchedFits, FetchedFields
<1>11. aborted' => aborted \/ GivesUp(taken)
  BY <1>6, <1>7, <1>8, <1>9 DEF GivesUp
<1> QED BY <1>4, <1>7, <1>8, <1>9, <1>10, <1>11 DEF FrontEffect

----------------------------------------------------------------------------
(* The checkpoints through the cycle                                       *)

\* Checkpoints of the branches that at lists, in the buffer r, and then x.
CheckpointList(r, at, N, M, x) ==
  [k \in 1 .. M |-> IF k <= N THEN CheckpointOfEntry(r.slots[at[k]]) ELSE x]

\* The branch in fetch, if any, after the fetch of this cycle.
Fetching == Predicts \/ InFetch(fetched)
LastCheckpoint(taken) ==
  IF Predicts THEN [token |-> FreshToken(bp), pc |-> pc, final_prediction |-> taken]
  ELSE CheckpointOfFetched(fetched)

\* Conditional branches that stay in the buffer.
LiveBranches == {i \in Conditional(rob) : Live(i)}

\* The checkpoints of a predicted branch go to the end.
LEMMA FetchedCheckpoints ==
  ASSUME BranchInv, FetchedFits(fetched), NEW taken \in BOOLEAN
  PROVE  /\ DOMAIN BpFetched(taken) = {"checkpoints", "next_token"}
         /\ \E N \in 0 .. RobSize : \E at \in [1 .. N -> Conditional(rob)] :
              /\ Sorted(Conditional(rob), TagOf(rob), at, N)
              /\ BpFetched(taken).checkpoints =
                   CheckpointList(rob, at, N, IF Fetching THEN N + 1 ELSE N, LastCheckpoint(taken))
<1> PICK N \in 0 .. RobSize : \E at \in [1 .. N -> Conditional(rob)] :
        /\ Sorted(Conditional(rob), TagOf(rob), at, N)
        /\ bp.checkpoints = CheckpointList(rob, at, N, IF InFetch(fetched) THEN N + 1 ELSE N,
                                           CheckpointOfFetched(fetched))
  BY DEF BranchInv, Checkpointed, CheckpointList
<1>1. PICK at \in [1 .. N -> Conditional(rob)] :
        /\ Sorted(Conditional(rob), TagOf(rob), at, N)
        /\ bp.checkpoints = CheckpointList(rob, at, N, IF InFetch(fetched) THEN N + 1 ELSE N,
                                           CheckpointOfFetched(fetched))
  OBVIOUS
<1> DEFINE c == bp.checkpoints
           x == LastCheckpoint(taken)
<1>2. CASE ~Predicts
  BY <1>1, <1>2 DEF BpFetched, Fetching, LastCheckpoint, BranchInv
<1>3. CASE Predicts
  <2>1. ~InFetch(fetched)
    BY <1>3 DEF Predicts, Fetches, InFetch
  <2>2. BpFetched(taken) = BpPredict(bp, pc, taken)
    BY <1>3 DEF BpFetched
  <2>3. /\ DOMAIN BpFetched(taken) = {"checkpoints", "next_token"}
        /\ BpFetched(taken).checkpoints = Append(c, x)
    BY <1>3, <2>2 DEF BpPredict, LastCheckpoint
  <2>4. N \in Nat /\ c = [k \in 1 .. N |-> CheckpointOfEntry(rob.slots[at[k]])]
    BY <1>1, <2>1, RobSizeAssumption DEF CheckpointList
  <2> HIDE DEF c, x
  <2>5. c = [k \in 1 .. N |-> c[k]] /\ \A k \in 1 .. N : c[k] = CheckpointOfEntry(rob.slots[at[k]])
    BY <2>4
  <2>6. Append(c, x) = [k \in 1 .. N + 1 |-> IF k <= N THEN c[k] ELSE x]
    BY <2>4, <2>5, SequenceIs
  <2>7. Append(c, x) = CheckpointList(rob, at, N, N + 1, x)
    BY <2>4, <2>5, <2>6 DEF CheckpointList
  <2> QED BY <1>1, <1>3, <2>3, <2>7 DEF Fetching, x
<1> QED BY <1>2, <1>3

\* The front checkpoint is that of the head when that is a conditional branch,
\* so that the predictor's assertions hold; then it goes.
LEMMA CommittedCheckpoints ==
  ASSUME Inv1, BranchInv, NEW taken \in BOOLEAN
  PROVE  /\ CommitsBranch => BpAgrees(taken)
         /\ DOMAIN BpCommitted(taken) = {"checkpoints", "next_token"}
         /\ \E N \in Nat : \E at \in [1 .. N -> LiveBranches] :
              /\ Sorted(LiveBranches, TagOf(rob), at, N)
              /\ BpCommitted(taken).checkpoints =
                   CheckpointList(rob, at, N, IF Fetching THEN N + 1 ELSE N, LastCheckpoint(taken))
<1> DEFINE B == Conditional(rob)
           t == TagOf(rob)
           h == rob.head
           x == LastCheckpoint(taken)
           b == BpFetched(taken)
<1>1. RingOK(rob) /\ RobKinds(rob) /\ FetchedFits(fetched)
  BY DEF Inv1, FrontInv
<1> PICK N \in 0 .. RobSize : \E at \in [1 .. N -> B] :
        /\ Sorted(B, t, at, N)
        /\ b.checkpoints = CheckpointList(rob, at, N, IF Fetching THEN N + 1 ELSE N, x)
  BY <1>1, FetchedCheckpoints
<1>2. PICK at \in [1 .. N -> B] :
        /\ DOMAIN b = {"checkpoints", "next_token"} /\ Sorted(B, t, at, N)
        /\ b.checkpoints = CheckpointList(rob, at, N, IF Fetching THEN N + 1 ELSE N, x)
  BY <1>1, FetchedCheckpoints
<1>3. N \in Nat /\ h \in RobSlots
  BY <1>1, RobSizeAssumption DEF RingOK, RingShape
<1>4. Commits => rob.slots[h].busy /\ Head1 = rob.slots[h]
  BY DEF Commits, RobCanCommit, Head1
<1>5. Commits => (h \in B <=> CommitsBranch)
  <2>1. Commits => KindOK(rob.slots[h])
    BY <1>1, <1>3, <1>4 DEF RobKinds
  <2>2. BranchTypes = CondTypes \cup JumpTypes /\ CondTypes \cap JumpTypes = {}
    BY DEF BranchTypes, CondTypes, JumpTypes
  <2> QED BY <1>3, <1>4, <2>1, <2>2 DEF CommitsBranch, KindOK, Conditional
<1>6. \A i \in B : i \in RobSlots /\ rob.slots[i].busy /\ t[i] \in Nat
  BY <1>1 DEF Conditional, TagOf, RingOK, RingShape, EntryShape
<1>7. CommitsBranch => h \in B
  BY <1>5 DEF CommitsBranch
<1>8. Commits => \A i \in B \ {h} : t[h] < t[i]
  BY <1>1, <1>3, <1>4, <1>6, HeadIsOldest DEF TagOf
<1>9. LiveBranches = IF CommitsBranch THEN B \ {h} ELSE B
  BY <1>5, <1>6 DEF LiveBranches, Live, CommitsBranch
<1> HIDE DEF B, t, b, x
<1>10. CASE ~CommitsBranch
  <2>1. LiveBranches = B /\ BpCommitted(taken) = b
    BY <1>9, <1>10 DEF BpCommitted, b
  <2> QED BY <1>2, <1>3, <1>10, <2>1 DEF t, x
<1>11. CASE CommitsBranch
  <2> DEFINE f == [k \in 1 .. N - 1 |-> at[k + 1]]
             M == IF Fetching THEN N + 1 ELSE N
             c == b.checkpoints
  <2>1. Commits
    BY <1>11 DEF CommitsBranch
  <2>2. /\ N - 1 \in Nat /\ at[1] = h
        /\ f \in [1 .. N - 1 -> B \ {h}] /\ Sorted(B \ {h}, t, f, N - 1)
    <3>1. /\ N \in Nat /\ at \in [1 .. N -> B] /\ Sorted(B, t, at, N)
          /\ Least(B, t, h)
      BY <1>2, <1>3, <1>6, <1>7, <1>8, <1>11, <2>1 DEF Least, Numbered
    <3>2. f \in [1 .. N - 1 -> B] /\ RestOf(f, at, N)
      BY <1>2, <1>3 DEF RestOf
    <3> HIDE DEF f, h
    <3> QED BY <3>1, <3>2, SortedRest
  <2>3. M \in Nat /\ M > 0 /\ M - 1 = IF Fetching THEN (N - 1) + 1 ELSE N - 1
    BY <1>3, <2>2
  <2>4. c = [k \in 1 .. M |-> c[k]]
        /\ \A k \in 1 .. M : c[k] = IF k <= N THEN CheckpointOfEntry(rob.slots[at[k]]) ELSE x
    BY <1>2 DEF CheckpointList
  <2> HIDE DEF c, M
  <2>5. c # << >> /\ Head(c) = c[1] /\ Tail(c) = [k \in 1 .. M - 1 |-> c[k + 1]]
    BY <2>3, <2>4, SequenceIs
  <2>6. c[1] = CheckpointOfEntry(Head1)
    BY <1>3, <1>4, <2>1, <2>2, <2>3, <2>4
  <2>7. BpAgrees(taken)
    BY <2>5, <2>6 DEF BpAgrees, BpUpdateAsserts, CheckpointOfEntry, b, c
  <2>8. BpCommitted(taken) = BpUpdate(b)
    BY <1>11, <2>7 DEF BpCommitted, b
  <2>9. DOMAIN BpCommitted(taken) = DOMAIN b /\ BpCommitted(taken).checkpoints = Tail(c)
    BY <1>2, <2>8 DEF BpUpdate, c
  <2>10. \A k \in 1 .. M - 1 :
           c[k + 1] = IF k <= N - 1 THEN CheckpointOfEntry(rob.slots[f[k]]) ELSE x
    <3> SUFFICES ASSUME NEW k \in 1 .. M - 1
                 PROVE  c[k + 1] = IF k <= N - 1 THEN CheckpointOfEntry(rob.slots[f[k]]) ELSE x
      OBVIOUS
    <3>1. k + 1 \in 1 .. M /\ (k + 1 <= N <=> k <= N - 1)
      BY <1>3, <2>3
    <3>2. k <= N - 1 => f[k] = at[k + 1]
      BY <1>3, <2>3
    <3> QED BY <2>4, <3>1, <3>2
  <2>11. Tail(c) = CheckpointList(rob, f, N - 1, M - 1, x)
    BY <2>5, <2>10 DEF CheckpointList
  <2> HIDE DEF f
  <2> QED BY <1>2, <1>9, <1>11, <2>2, <2>3, <2>7, <2>9, <2>11 DEF t, x
<1> QED BY <1>10, <1>11

\* The new entry of a conditional branch takes over the checkpoint in fetch;
\* a squash leaves no branch and no checkpoint.
LEMMA BranchStep ==
  ASSUME Inv1, BranchInv, NEW args, ArgsOf(args), Effect(args),
         NEW taken \in BOOLEAN, FrontEffect(taken)
  PROVE  BranchInv'
<1> DEFINE S == Conditional(rob')
           t == TagOf(rob')
           L == LiveBranches
           x == LastCheckpoint(taken)
<1>1. DOMAIN bp' = {"checkpoints", "next_token"}
  BY CommittedCheckpoints DEF FrontEffect, BpRecover
<1>2. CASE Squashes
  <2>1. \A i \in RobSlots : ~rob'.slots[i].busy
    BY <1>2, RobSquash DEF Effect
  <2>2. S = {} /\ ~InFetch(fetched')
    BY <1>2, <2>1 DEF Conditional, FrontEffect, InFetch
  <2>3. bp'.checkpoints = << >>
    BY <1>2, CommittedCheckpoints DEF FrontEffect, BpRecover
  <2> DEFINE at == [k \in 1 .. 0 |-> {}]
  <2>4. at \in [1 .. 0 -> S] /\ Sorted(S, t, at, 0)
    BY <2>2 DEF Sorted
  <2>5. bp'.checkpoints = [k \in 1 .. (IF InFetch(fetched') THEN 0 + 1 ELSE 0) |->
                             IF k <= 0 THEN CheckpointOfEntry(rob'.slots[at[k]])
                             ELSE CheckpointOfFetched(fetched')]
    BY <2>2, <2>3
  <2>6. 0 \in 0 .. RobSize
    BY RobSizeAssumption
  <2> HIDE DEF at
  <2> QED BY <1>1, <2>4, <2>5, <2>6 DEF BranchInv, Checkpointed
<1>3. CASE ~Squashes
  <2>1. RingOK(rob) /\ RingOK(rob') /\ RobStep(rob')
    BY <1>3, RobCycle DEF Effect, RobResolved, RobStep, Inv1, FrontInv
  <2>2. bp' = BpCommitted(taken)
    BY <1>3 DEF FrontEffect
  <2> PICK N \in Nat : \E at \in [1 .. N -> L] :
        /\ Sorted(L, TagOf(rob), at, N)
        /\ bp'.checkpoints = CheckpointList(rob, at, N, IF Fetching THEN N + 1 ELSE N, x)
    BY <2>2, CommittedCheckpoints
  <2>3. PICK at \in [1 .. N -> L] :
        /\ Sorted(L, TagOf(rob), at, N)
        /\ bp'.checkpoints = CheckpointList(rob, at, N, IF Fetching THEN N + 1 ELSE N, x)
    OBVIOUS
  <2>4. /\ \A i \in S : i \in RobSlots /\ rob'.slots[i].busy
        /\ \A i \in L : i \in RobSlots /\ rob.slots[i].busy /\ Live(i)
    BY DEF Conditional, LiveBranches
  <2>5. \A i \in L : /\ i \in S /\ t[i] = TagOf(rob)[i] /\ t[i] < rob.next_tag
                     /\ CheckpointOfEntry(rob'.slots[i]) = CheckpointOfEntry(rob.slots[i])
    <3> SUFFICES ASSUME NEW i \in L
                 PROVE  /\ i \in S /\ t[i] = TagOf(rob)[i] /\ t[i] < rob.next_tag
                        /\ CheckpointOfEntry(rob'.slots[i]) = CheckpointOfEntry(rob.slots[i])
      OBVIOUS
    <3>1. i \in RobSlots /\ rob.slots[i].type \in CondTypes /\ Wrote(rob.slots[i], rob'.slots[i])
      BY <2>1, <2>4 DEF RobStep, LiveBranches, Conditional
    <3>2. i \in S /\ rob'.slots[i].tag = rob.slots[i].tag
      BY <3>1 DEF Wrote, Conditional
    <3>3. rob.slots[i].tag < rob.next_tag
      <4>1. rob.next_tag \in Nat /\ rob.slots[i].tag \in 1 .. rob.next_tag - 1
        BY <2>1, <2>4 DEF RingOK, RingShape, TagsInOrder
      <4> QED BY <4>1
    <3>4. CheckpointOfEntry(rob'.slots[i]) = CheckpointOfEntry(rob.slots[i])
      BY <3>1 DEF Wrote, SamePrediction, CheckpointOfEntry
    <3> QED BY <3>1, <3>2, <3>3, <3>4 DEF TagOf
  <2>6. \A i \in S \ L : ~Live(i) /\ IsNew(rob'.slots[i])
    <3> SUFFICES ASSUME NEW i \in S \ L PROVE ~Live(i) /\ IsNew(rob'.slots[i])
      OBVIOUS
    <3>1. CASE Live(i)
      <4>1. Wrote(rob.slots[i], rob'.slots[i])
        BY <2>1, <2>4, <3>1 DEF RobStep
      <4>2. rob.slots[i].busy /\ rob.slots[i].type \in CondTypes
        BY <3>1, <4>1 DEF Wrote, Live, Conditional
      <4> QED BY <2>4, <3>1, <4>2 DEF LiveBranches, Conditional
    <3>2. CASE ~Live(i)
      BY <2>1, <2>4, <3>2 DEF RobStep
    <3> QED BY <3>1, <3>2
  <2>7. ASSUME NEW n \in Nat, NEW f \in [1 .. n -> S], Sorted(S, t, f, n)
        PROVE  n \in 0 .. RobSize
    <3>1. Numbered(S, t)
      BY <2>1, <2>4 DEF Numbered, TagOf, RingOK, RingShape, EntryShape
    <3>2. Cardinality(S) = n
      BY <2>7, <3>1, SortedLength
    <3>3. IsFiniteSet(RobSlots) /\ Cardinality(RobSlots) = RobSize
      <4>1. 0 \in Int /\ RobSize - 1 \in Int /\ RobSize - 1 >= 0
            /\ (RobSize - 1) - 0 + 1 = RobSize
        BY RobSizeAssumption
      <4>2. /\ IsFiniteSet(0 .. RobSize - 1)
            /\ Cardinality(0 .. RobSize - 1) = (RobSize - 1) - 0 + 1
        BY <4>1, FS_Interval
      <4> QED BY <4>1, <4>2 DEF RobSlots
    <3>4. Cardinality(S) <= Cardinality(RobSlots)
      BY <2>4, <3>3, FS_Subset
    <3> QED BY <3>2, <3>3, <3>4, RobSizeAssumption
  <2>8. Sorted(L, t, at, N)
    BY <2>3, <2>5 DEF Sorted
  <2>9. ASSUME NEW M, NEW y PROVE CheckpointList(rob, at, N, M, y) = CheckpointList(rob', at, N, M, y)
    BY <2>5 DEF CheckpointList
  <2> PICK f : FetchFills(f, taken) /\ IssueTakes(f, fetched')
    BY <1>3 DEF FrontEffect
  <2>10. CASE Issues /\ Instr1.type \in CondTypes
    <3>1. InFetch(fetched) /\ ~Predicts
      BY <2>10 DEF Issues, InFetch, Instr1, Predicts, Fetches
    <3>2. Fetching /\ x = CheckpointOfFetched(fetched) /\ ~InFetch(fetched')
      BY <2>10, <3>1 DEF Fetching, LastCheckpoint, IssueTakes
    <3>3. PICK s \in RobSlots : ~Live(s) /\ rob'.slots[s].busy
      BY <2>1, <2>10 DEF RobStep
    <3>4. IsNew(rob'.slots[s])
      BY <2>1, <3>3 DEF RobStep
    <3>5. s \in S /\ s \notin L /\ t[s] = rob.next_tag
      BY <2>4, <2>10, <3>3, <3>4 DEF IsNew, Conditional, TagOf
    <3>6. S = L \cup {s}
      <4>1. ASSUME NEW i \in S \ L PROVE i = s
        <5>1. IsNew(rob'.slots[i]) /\ i \in RobSlots /\ rob'.slots[i].busy
          BY <2>4, <2>6
        <5>2. rob'.slots[i].tag = rob'.slots[s].tag
          BY <3>4, <5>1 DEF IsNew
        <5> QED BY <2>1, <3>3, <5>1, <5>2, TagsUnique
      <4> QED BY <2>5, <3>5, <4>1
    <3>7. CheckpointOfEntry(rob'.slots[s]) = x
      <4>1. Instr1.type \in BranchTypes /\ Instr1.type \notin JumpTypes
        BY <2>10 DEF BranchTypes, CondTypes, JumpTypes
      <4>2. /\ rob'.slots[s].pc = fetched.pc
            /\ rob'.slots[s].branch_pred_context = fetched.pred_context
            /\ rob'.slots[s].branch_pred_taken = (Instr1.type \in CondTypes /\ fetched.pred_taken)
        BY <3>4, <4>1 DEF IsNew, PredictionOf
      <4>3. rob'.slots[s].branch_pred_taken = fetched.pred_taken
        BY <2>10, <4>2 DEF Inv1, FrontInv, FetchedFits
      <4> QED BY <3>2, <4>2, <4>3 DEF CheckpointOfEntry, CheckpointOfFetched
    <3> DEFINE g == [k \in 1 .. N + 1 |-> IF k <= N THEN at[k] ELSE s]
    <3>8. g \in [1 .. N + 1 -> L \cup {s}] /\ Extends(g, at, N, s) /\ N + 1 \in Nat
      BY <2>3 DEF Extends
    <3>9. Beyond(L, t, s)
      BY <2>5, <3>5 DEF Beyond
    <3> HIDE DEF g, S, t, L, x
    <3>10. g \in [1 .. N + 1 -> S] /\ Sorted(S, t, g, N + 1)
      BY <2>8, <3>6, <3>8, <3>9, SortedAdd
    <3>11. N + 1 \in 0 .. RobSize
      BY <2>7, <3>8, <3>10
    <3>12. bp'.checkpoints = CheckpointList(rob', at, N, N + 1, x)
      BY <2>3, <2>9, <3>2
    <3>13. bp'.checkpoints = [k \in 1 .. N + 1 |-> CheckpointOfEntry(rob'.slots[g[k]])]
      BY <3>7, <3>8, <3>12 DEF CheckpointList, Extends
    <3>14. bp'.checkpoints = [k \in 1 .. (IF InFetch(fetched') THEN (N + 1) + 1 ELSE N + 1) |->
                                IF k <= N + 1 THEN CheckpointOfEntry(rob'.slots[g[k]])
                                ELSE CheckpointOfFetched(fetched')]
      BY <3>2, <3>13
    <3> QED BY <1>1, <3>10, <3>11, <3>14 DEF BranchInv, Checkpointed, S, t
  <2>11. CASE ~(Issues /\ Instr1.type \in CondTypes)
    <3>1. S = L
      BY <2>5, <2>6, <2>11 DEF IsNew, Conditional
    <3>2. (InFetch(fetched') <=> InFetch(f)) /\ (InFetch(fetched') => fetched' = f)
      BY <2>11 DEF IssueTakes, InFetch, Instr1
    <3>3. (InFetch(fetched') <=> Fetching) /\ (Fetching => x = CheckpointOfFetched(fetched'))
      <4>1. CASE Predicts
        BY <3>2, <4>1 DEF FetchFills, Fetching, LastCheckpoint
      <4>2. CASE ~Predicts
        BY <3>2, <4>2 DEF FetchFills, Fetching, LastCheckpoint, InFetch, Fetches
      <4> QED BY <4>1, <4>2
    <3> HIDE DEF S, t, L, x
    <3>4. at \in [1 .. N -> S] /\ Sorted(S, t, at, N) /\ N \in 0 .. RobSize
      BY <2>3, <2>7, <2>8, <3>1
    <3>5. bp'.checkpoints = CheckpointList(rob', at, N, IF Fetching THEN N + 1 ELSE N, x)
      BY <2>3, <2>9
    <3>6. bp'.checkpoints = CheckpointList(rob', at, N, IF InFetch(fetched') THEN N + 1 ELSE N,
                                           CheckpointOfFetched(fetched'))
      BY <3>3, <3>5 DEF CheckpointList
    <3> QED BY <1>1, <3>4, <3>6 DEF BranchInv, Checkpointed, CheckpointList, S, t
  <2> QED BY <2>10, <2>11
<1> QED BY <1>2, <1>3

----------------------------------------------------------------------------
(* Jumps to a fixed place                                                  *)

\* What the station of the ALU puts on the bus.
LEMMA AluWinnerIs ==
  ASSUME StationShape(alurs, lsrs), AluWins
  PROVE  \E i \in AluSlots :
           /\ alurs[i].busy /\ alurs[i].done /\ alurs[i].rob_tag = Winner.rob_tag
           /\ Winner.is_branch = (alurs[i].type \in BranchTypes)
           /\ Winner.branch_actual_taken = alurs[i].branch_actual_taken
           /\ Winner.branch_target = alurs[i].branch_target
<1>1. PICK i \in AluRsCandidate : i = CHOOSE j \in AluRsCandidate : TRUE
  BY DEF AluWins
<1>2. i \in AluSlots /\ alurs[i].busy /\ alurs[i].done
  BY DEF AluRsCandidate, AluOldest, AluRsFinished
<1>3. Winner = [valid |-> TRUE, rob_tag |-> alurs[i].rob_tag, val |-> alurs[i].result,
                is_branch |-> alurs[i].type \in BranchTypes,
                branch_actual_taken |-> alurs[i].branch_actual_taken,
                branch_target |-> alurs[i].branch_target]
  BY <1>1 DEF Winner
<1>4. /\ Winner.rob_tag = alurs[i].rob_tag
      /\ Winner.is_branch = (alurs[i].type \in BranchTypes)
      /\ Winner.branch_actual_taken = alurs[i].branch_actual_taken
      /\ Winner.branch_target = alurs[i].branch_target
  BY <1>3
<1> QED BY <1>2, <1>4

\* An entry that gets its result on the bus, and is no load, is the one in the
\* station of the ALU.
LEMMA FinishesInAlu ==
  ASSUME Inv1, NEW s \in RobSlots, rob.slots[s].busy, rob.slots[s].tag \in Finishing,
         rob.slots[s].type \notin LsTypes
  PROVE  AluWins /\ rob.slots[s].tag = Winner.rob_tag /\ ~rob.slots[s].ready
<1> DEFINE e == rob.slots[s]
<1>1. /\ RobKinds(rob) /\ StationShape(alurs, lsrs) /\ Paired(rob, alurs, lsrs)
      /\ RingOK(rob) /\ KindOK(e)
  BY DEF Inv1, FrontInv, StationInv, RobKinds
<1>2. e.tag \notin DoneTags
  <2>1. e.type \notin StoreTypes /\ ~e.is_store
    BY <1>1, KindsDisjoint DEF KindOK
  <2> QED BY <1>1, <2>1, FinishingIs, TagsUnique
<1>3. Winner.valid /\ e.tag = Winner.rob_tag
  BY <1>2 DEF Finishing
<1>4. ~e.ready
  BY <1>1, <1>3, FinishingIs, TagsUnique
<1>5. AluWins
  <2> SUFFICES ASSUME ~AluWins PROVE FALSE
    OBVIOUS
  <2>1. PICK i \in LsSlots : lsrs[i].busy /\ lsrs[i].rob_tag = Winner.rob_tag
    BY <1>1, <1>3, WinnerIs
  <2>2. PICK t \in RobSlots : Awaits(rob, t, Winner.rob_tag, TRUE)
    BY <1>1, <2>1 DEF Paired
  <2>3. t = s
    BY <1>1, <1>3, <2>2, TagsUnique DEF Awaits
  <2> QED BY <2>2, <2>3 DEF Awaits
<1> QED BY <1>3, <1>4, <1>5

\* The prediction of a jump to a fixed place is computed at issue as the ALU
\* then computes where it goes.
LEMMA JumpStep ==
  ASSUME Inv1, JumpsHit(rob, alurs), NEW args, ArgsOf(args), Effect(args)
  PROVE  JumpsHit(rob', alurs')
<1>1. CASE Squashes
  <2>1. \A i \in RobSlots : ~rob'.slots[i].busy
    BY <1>1, RobSquash DEF Effect
  <2> QED BY <2>1 DEF JumpsHit
<1>2. CASE ~Squashes
  <2>1. /\ rob' = RobIssued(args) /\ alurs' = AluIssued
        /\ RobStep(rob') /\ RingOK(rob) /\ RingOK(rob') /\ RobKinds(rob)
        /\ StationShape(alurs, lsrs) /\ Paired(rob, alurs, lsrs)
        /\ rob.next_tag \in Nat
    <3>1. rob' = RobIssued(args) /\ alurs' = AluIssued
      BY <1>2 DEF Effect, RobResolved, AluResolved
    <3> QED BY <3>1, RobCycle DEF RobStep, Inv1, FrontInv, StationInv, RingOK, RingShape
  <2>2. StationStep(AluSlots, alurs, alurs', IssuesAlu) /\ AluCarries(alurs')
    BY <2>1, OperandsAre, AluStep
  <2>3. ASSUME NEW s \in RobSlots, rob'.slots[s].busy, rob'.slots[s].type = "JAL"
        PROVE  /\ rob'.slots[s].branch_pred_taken = TRUE
               /\ rob'.slots[s].ready => ~RobMispredicted(rob'.slots[s])
    <3> DEFINE e == rob.slots[s]
               f == rob'.slots[s]
    <3>1. CASE ~Live(s)
      <4>1. IsNew(f)
        BY <2>1, <2>3, <3>1 DEF RobStep
      <4> QED BY <2>3, <4>1 DEF IsNew, PredictionOf, JumpTypes
    <3>2. CASE Live(s)
      <4>1. Wrote(e, f) /\ e.busy /\ e.type = "JAL" /\ KindOK(e)
        BY <2>1, <2>3, <3>2 DEF RobStep, Live, Wrote, RobKinds
      <4>2. e.branch_pred_taken = TRUE /\ (e.ready => ~RobMispredicted(e))
        BY <4>1 DEF JumpsHit
      <4>3. CASE e.tag \notin Finishing
        BY <4>1, <4>2, <4>3 DEF Wrote
      <4>4. CASE e.tag \in Finishing
        <5>1. AluWins /\ e.tag = Winner.rob_tag
          BY <4>1, <4>4, FinishesInAlu DEF LsTypes, LoadTypes, StoreTypes
        <5>2. PICK i \in AluSlots :
                /\ alurs[i].busy /\ alurs[i].done /\ alurs[i].rob_tag = Winner.rob_tag
                /\ Winner.is_branch = (alurs[i].type \in BranchTypes)
                /\ Winner.branch_actual_taken = alurs[i].branch_actual_taken
                /\ Winner.branch_target = alurs[i].branch_target
          BY <2>1, <5>1, AluWinnerIs
        <5>3. alurs[i].type = "JAL" /\ e.pred_target = Wrap(alurs[i].pc + alurs[i].imm)
          BY <4>1, <5>1, <5>2 DEF JumpsHit
        <5>4. alurs[i].branch_actual_taken = TRUE /\ alurs[i].branch_target = e.pred_target
          BY <2>1, <5>2, <5>3 DEF StationShape, AluShape, Jumped
        <5>5. Winner.is_branch /\ e.is_branch
          BY <4>1, <5>2, <5>3 DEF KindOK, BranchTypes, JumpTypes
        <5>6. f.branch_actual_taken = TRUE /\ f.branch_target = f.pred_target
          BY <4>1, <5>1, <5>2, <5>4, <5>5 DEF Wrote, SamePrediction
        <5>7. f.branch_pred_taken = TRUE
          BY <4>1, <4>2 DEF Wrote, SamePrediction
        <5> QED BY <5>6, <5>7 DEF RobMispredicted
      <4> QED BY <4>3, <4>4
    <3> QED BY <3>1, <3>2
  <2>4. ASSUME NEW i \in AluSlots, NEW s \in RobSlots,
               alurs'[i].busy, rob'.slots[s].busy, rob'.slots[s].tag = alurs'[i].rob_tag
        PROVE  /\ rob'.slots[s].type = alurs'[i].type
               /\ alurs'[i].type = "JAL" =>
                    rob'.slots[s].pred_target = Wrap(alurs'[i].pc + alurs'[i].imm)
    <3>1. CASE Stays(alurs[i])
      <4>1. /\ Keeps(alurs[i], alurs'[i])
            /\ alurs'[i].pc = alurs[i].pc /\ alurs'[i].imm = alurs[i].imm
        BY <2>2, <3>1 DEF StationStep, AluCarries
      <4>2. PICK t \in RobSlots : Awaits(rob, t, alurs[i].rob_tag, FALSE)
        BY <2>1, <3>1 DEF Paired, Stays
      <4>3. Live(t) /\ Wrote(rob.slots[t], rob'.slots[t])
        BY <2>1, <4>2 DEF Live, Awaits, Commits, RobCanCommit, RobStep
      <4>4. t = s
        BY <2>1, <2>4, <4>1, <4>2, <4>3, TagsUnique DEF Wrote, Keeps, Awaits
      <4>5. /\ rob.slots[s].type = alurs[i].type
            /\ alurs[i].type = "JAL" =>
                 rob.slots[s].pred_target = Wrap(alurs[i].pc + alurs[i].imm)
        BY <3>1, <4>2, <4>4 DEF JumpsHit, Awaits, Stays
      <4> QED BY <4>1, <4>3, <4>4, <4>5 DEF Keeps, Wrote, SamePrediction
    <3>2. CASE ~Stays(alurs[i])
      <4>1. /\ Joins(alurs'[i]) /\ IssuesAlu
            /\ alurs'[i].pc = fetched.pc /\ alurs'[i].imm = Instr1.imm
        BY <2>2, <2>4, <3>2 DEF StationStep, AluCarries
      <4>2. ~Live(s)
        BY <2>1, <2>4, <4>1, RobStepKinds DEF Joins
      <4>3. IsNew(rob'.slots[s])
        BY <2>1, <2>4, <4>2 DEF RobStep
      <4> QED BY <4>1, <4>3 DEF IsNew, Joins, PredictionOf
    <3> QED BY <3>1, <3>2
  <2> QED BY <2>3, <2>4 DEF JumpsHit
<1> QED BY <1>1, <1>2

----------------------------------------------------------------------------
(* The tokens                                                              *)

\* A predictor with M checkpoints.
QueueOf(b, M) ==
  /\ DOMAIN b = {"checkpoints", "next_token"}
  /\ b.checkpoints = [k \in 1 .. M |-> b.checkpoints[k]]

\* The next token is not in use.
LEMMA FreshIsNext ==
  ASSUME NEW M \in Nat, M < MaxToken, NEW b, QueueOf(b, M), TokensInOrder(b)
  PROVE  FreshToken(b) = b.next_token
<1> DEFINE c == b.checkpoints
           next == b.next_token
<1>1. Len(c) = M /\ DOMAIN c = 1 .. M
  BY SequenceIs DEF QueueOf
<1>2. next \in Tokens /\ \A k \in 1 .. M : TokenDist(next, c[k].token) > 0
  BY <1>1, MaxTokenAssumption DEF TokensInOrder
<1>3. TokenDist(next, next) = 0
  BY <1>2, MaxTokenAssumption DEF TokenDist, Tokens
<1>4. next \in Tokens \ LiveTokens(b)
  BY <1>1, <1>2, <1>3 DEF LiveTokens
<1>5. \A u \in Tokens : TokenDist(next, u) \in Nat /\ (TokenDist(next, u) = 0 => u = next)
  BY <1>2, MaxTokenAssumption DEF TokenDist, Tokens
<1> HIDE DEF next
<1>6. \A u \in Tokens \ LiveTokens(b) : TokenDist(next, next) <= TokenDist(next, u)
  BY <1>3, <1>5
<1>7. \A t \in Tokens \ LiveTokens(b) :
        (\A u \in Tokens \ LiveTokens(b) : TokenDist(next, t) <= TokenDist(next, u)) => t = next
  BY <1>3, <1>4, <1>5
<1> QED BY <1>4, <1>6, <1>7 DEF FreshToken, next

LEMMA TokensPredict ==
  ASSUME NEW M \in Nat, M < MaxToken, NEW b, QueueOf(b, M), TokensInOrder(b), NEW a, NEW taken
  PROVE  TokensInOrder(BpPredict(b, a, taken)) /\ QueueOf(BpPredict(b, a, taken), M + 1)
<1> DEFINE c == b.checkpoints
           next == b.next_token
           x == [token |-> next, pc |-> a, final_prediction |-> taken]
           d == BpPredict(b, a, taken)
<1>1. Len(c) = M /\ DOMAIN c = 1 .. M
  BY SequenceIs DEF QueueOf
<1>2. d = [checkpoints |-> Append(c, x), next_token |-> TokenAfter(next)]
  BY FreshIsNext DEF BpPredict
<1>3. Append(c, x) = [k \in 1 .. M + 1 |-> IF k <= M THEN c[k] ELSE x]
  BY SequenceIs DEF QueueOf
<1>4. x.token = next
  OBVIOUS
<1>5. /\ DOMAIN d = {"checkpoints", "next_token"} /\ d.next_token = TokenAfter(next)
      /\ d.checkpoints = Append(c, x)
  BY <1>2
<1> HIDE DEF c, x, d
<1> DEFINE e == d.checkpoints
<1>6. e = [k \in 1 .. M + 1 |-> e[k]] /\ \A k \in 1 .. M + 1 : e[k] = IF k <= M THEN c[k] ELSE x
  BY <1>3, <1>5
<1>7. Len(e) = M + 1 /\ DOMAIN e = 1 .. M + 1
  BY <1>6, SequenceIs
<1>8. next \in Tokens /\ TokenAfter(next) \in Tokens
  BY MaxTokenAssumption DEF TokensInOrder, TokenAfter, Tokens
<1>9. \A t \in Tokens : TokenDist(TokenAfter(next), t) =
                         IF t = next THEN MaxToken - 1 ELSE TokenDist(next, t) - 1
  BY <1>8, MaxTokenAssumption DEF TokenDist, TokenAfter, Tokens
<1>10. ASSUME NEW k \in 1 .. M + 1
       PROVE  /\ e[k].token \in Tokens
              /\ TokenDist(TokenAfter(next), e[k].token) = MaxToken - 1 - (M + 1) + k
  <2>1. CASE k <= M
    <3>1. /\ e[k] = c[k] /\ c[k].token \in Tokens
          /\ TokenDist(next, c[k].token) = MaxToken - 1 - M + k
      BY <1>1, <1>6, <2>1 DEF TokensInOrder, c
    <3>2. TokenDist(next, next) = 0
      BY <1>8, MaxTokenAssumption DEF TokenDist, Tokens
    <3>3. c[k].token # next
      BY <3>1, <3>2, MaxTokenAssumption
    <3> HIDE DEF next, e
    <3> QED BY <1>9, <3>1, <3>3, MaxTokenAssumption
  <2>2. CASE k = M + 1
    BY <1>4, <1>6, <1>8, <1>9, <2>2, MaxTokenAssumption
  <2> QED BY <2>1, <2>2
<1> QED BY <1>5, <1>6, <1>7, <1>8, <1>10 DEF TokensInOrder, QueueOf, d

LEMMA TokensUpdate ==
  ASSUME NEW M \in Nat, M > 0, NEW b, QueueOf(b, M), TokensInOrder(b)
  PROVE  TokensInOrder(BpUpdate(b)) /\ QueueOf(BpUpdate(b), M - 1)
<1> DEFINE c == b.checkpoints
           d == BpUpdate(b)
<1>1. /\ Len(c) = M /\ DOMAIN c = 1 .. M
      /\ Tail(c) = [k \in 1 .. M - 1 |-> c[k + 1]]
  BY SequenceIs DEF QueueOf
<1>2. /\ DOMAIN d = {"checkpoints", "next_token"} /\ d.next_token = b.next_token
      /\ d.checkpoints = Tail(c)
  BY DEF BpUpdate, QueueOf
<1> HIDE DEF c, d
<1> DEFINE e == d.checkpoints
<1>3. e = [k \in 1 .. M - 1 |-> e[k]] /\ \A k \in 1 .. M - 1 : e[k] = c[k + 1]
  BY <1>1, <1>2
<1>4. Len(e) = M - 1 /\ DOMAIN e = 1 .. M - 1
  BY <1>3, SequenceIs
<1>5. ASSUME NEW k \in 1 .. M - 1
      PROVE  /\ e[k].token \in Tokens
             /\ TokenDist(b.next_token, e[k].token) = MaxToken - 1 - (M - 1) + k
  <2>1. k + 1 \in 1 .. M
    OBVIOUS
  <2>2. /\ c[k + 1].token \in Tokens
        /\ TokenDist(b.next_token, c[k + 1].token) = MaxToken - 1 - M + (k + 1)
    BY <1>1, <2>1 DEF TokensInOrder, c
  <2> HIDE DEF e
  <2> QED BY <1>3, <2>2, MaxTokenAssumption
<1> QED BY <1>2, <1>3, <1>4, <1>5 DEF TokensInOrder, QueueOf, d

\* There are no more checkpoints than branches in the buffer and in fetch.
LEMMA CheckpointsCount ==
  ASSUME BranchInv
  PROVE  \E M \in Nat : QueueOf(bp, M) /\ M <= RobSize + 1 /\ (Predicts => M < MaxToken)
<1> DEFINE B == Conditional(rob)
<1> PICK N \in 0 .. RobSize : \E at \in [1 .. N -> B] :
      /\ Sorted(B, TagOf(rob), at, N)
      /\ bp.checkpoints = CheckpointList(rob, at, N, IF InFetch(fetched) THEN N + 1 ELSE N,
                                         CheckpointOfFetched(fetched))
  BY DEF BranchInv, Checkpointed, CheckpointList
<1> DEFINE M == IF InFetch(fetched) THEN N + 1 ELSE N
<1>1. M \in Nat /\ M <= RobSize + 1 /\ (Predicts => M < MaxToken)
  BY RobSizeAssumption, TokensAssumption, MaxTokenAssumption DEF Predicts, Fetches, InFetch
<1>2. QueueOf(bp, M)
  BY DEF CheckpointList, QueueOf, BranchInv
<1> QED BY <1>1, <1>2

\* A cycle keeps the order of the tokens.
LEMMA TokenStep ==
  ASSUME BranchInv, TokensInOrder(bp), NEW taken \in BOOLEAN, FrontEffect(taken),
         CommitsBranch => BpAgrees(taken)
  PROVE  TokensInOrder(bp')
<1> DEFINE b == BpFetched(taken)
           d == BpCommitted(taken)
<1>1. PICK M \in Nat : QueueOf(bp, M) /\ M <= RobSize + 1 /\ (Predicts => M < MaxToken)
  BY CheckpointsCount
<1>2. PICK N \in Nat : QueueOf(b, N) /\ TokensInOrder(b)
  BY <1>1, TokensPredict DEF BpFetched
<1>3. CommitsBranch => d = BpUpdate(b) /\ N > 0
  <2>1. ASSUME CommitsBranch, N = 0 PROVE FALSE
    <3>1. b.checkpoints # << >>
      BY <2>1 DEF BpAgrees, BpUpdateAsserts
    <3>2. b.checkpoints = << >>
      BY <1>2, <2>1 DEF QueueOf
    <3> QED BY <3>1, <3>2
  <2> QED BY <1>2, <2>1 DEF BpCommitted
<1>4. ~CommitsBranch => d = b
  BY DEF BpCommitted
<1>5. PICK K \in Nat : QueueOf(d, K) /\ TokensInOrder(d)
  BY <1>2, <1>3, <1>4, TokensUpdate
<1>6. CASE Squashes
  <2>1. bp'.checkpoints = << >> /\ bp'.next_token = d.next_token
    BY <1>5, <1>6 DEF FrontEffect, BpRecover, QueueOf
  <2> QED BY <1>5, <2>1 DEF TokensInOrder
<1>7. CASE ~Squashes
  BY <1>5, <1>7 DEF FrontEffect
<1> QED BY <1>6, <1>7

----------------------------------------------------------------------------
(* The values of the registers                                             *)

\* The table, of any copy, has the values of the registers g where it is ready.
Current(t, g) ==
  \A x \in Reg : t[x].ready => t[x].val = IF x = 0 THEN 0 ELSE g[x]

\* commit writes at most the register of the head.
LEMMA CommittedRegs ==
  ASSUME Inv1, DOMAIN regs = Reg
  PROVE  /\ DOMAIN FlushZero(RegsCommitted) = Reg
         /\ \A x \in Reg \ {0} :
              FlushZero(RegsCommitted)[x] =
                IF CommitsReg /\ x = Head1.dest_reg THEN Head1.val ELSE regs[x]
<1>1. 0 \in Reg
  BY IsaAssumption DEF Reg
<1>2. /\ DOMAIN RegsCommitted = Reg
      /\ \A x \in Reg \ {0} :
           RegsCommitted[x] = IF CommitsReg /\ x = Head1.dest_reg THEN Head1.val ELSE regs[x]
  BY DEF RegsCommitted, WriteReg, CommitsReg
<1> QED BY <1>1, <1>2 DEF FlushZero

\* Without a squash, a ready alias has the value that its register has after the
\* cycle: nothing in flight writes it, or it was the head that did.
LEMMA CurrentCycle ==
  ASSUME Inv1, NewTag = rob.next_tag, NEW g,
         \A x \in Reg \ {0} :
           g[x] = IF CommitsReg /\ x = Head1.dest_reg THEN Head1.val ELSE regs[x],
         Current(rat, regs)
  PROVE  Current(RatIssued, g)
<1> DEFINE t == RatIssued
<1> SUFFICES ASSUME NEW x \in Reg, t[x].ready
             PROVE  t[x].val = IF x = 0 THEN 0 ELSE g[x]
  BY DEF Current
<1> DEFINE sets   == IssuesReg /\ x = Instr1.rd /\ x # 0
           clears == /\ CommitsReg /\ x = Head1.dest_reg
                     /\ ~rat[x].ready /\ rat[x].tag = Head1.tag
<1>1. ~sets /\ (clears => t[x] = ReadyRat(Head1.val)) /\ (~clears => t[x] = rat[x])
  BY RatIssuedIs
<1> HIDE DEF t
<1>2. CASE clears
  <2>1. ReadyRat(Head1.val).val = Head1.val
    BY DEF ReadyRat
  <2> QED BY <1>1, <1>2, <2>1 DEF CommitsReg
<1>3. CASE ~clears
  <2>1. t[x] = rat[x] /\ rat[x].ready /\ rat[x].val = IF x = 0 THEN 0 ELSE regs[x]
    BY <1>1, <1>3 DEF Current
  <2>2. x # 0 => ~(CommitsReg /\ x = Head1.dest_reg)
    <3> SUFFICES ASSUME x # 0, CommitsReg, x = Head1.dest_reg PROVE FALSE
      OBVIOUS
    <3>1. rob.head \in RobSlots /\ Writes(rob.slots[rob.head], x)
      BY DEF CommitsReg, Commits, RobCanCommit, Writes, Head1, Inv1, FrontInv, RingOK, RingShape
    <3> QED BY <2>1, <3>1 DEF Inv1, FrontInv, NamesYoungest
  <2> QED BY <2>1, <2>2
<1> QED BY <1>2, <1>3

\* A squash makes the others ready with what the register file had at the start
\* of the cycle (regaliastab.cpp:41): that is their value unless the branch that
\* squashes writes a register in the same cycle.
LEMMA CurrentSquash ==
  ASSUME Inv1, NewTag = rob.next_tag, Squashes, ~CommitsReg, Current(rat, regs)
  PROVE  Current(RatResolved, regs)
<1> DEFINE t == RatIssued
<1>1. Current(t, regs)
  BY CurrentCycle
<1>2. RatResolved = [x \in Reg |-> IF x = 0 THEN ReadyRat(0)
                                   ELSE IF t[x].tag > Head1.tag THEN ReadyRat(ReadReg(x))
                                   ELSE t[x]]
  BY DEF RatResolved, RatRestore
<1>3. \A v : ReadyRat(v).val = v
  BY DEF ReadyRat
<1> HIDE DEF t
<1>4. ASSUME NEW x \in Reg, RatResolved[x].ready
      PROVE  RatResolved[x].val = IF x = 0 THEN 0 ELSE regs[x]
  <2>1. CASE x = 0 \/ t[x].tag > Head1.tag
    <3>1. RatResolved[x] = IF x = 0 THEN ReadyRat(0) ELSE ReadyRat(ReadReg(x))
      BY <1>2, <2>1
    <3> QED BY <1>3, <3>1 DEF ReadReg
  <2>2. CASE x # 0 /\ ~(t[x].tag > Head1.tag)
    <3>1. RatResolved[x] = t[x]
      BY <1>2, <2>2
    <3> QED BY <1>1, <1>4, <3>1 DEF Current
  <2> QED BY <2>1, <2>2
<1> QED BY <1>4 DEF Current

\* A branch that squashes is no JAL.
LEMMA SquashKind ==
  ASSUME Inv1, JumpsHit(rob, alurs), Squashes
  PROVE  /\ Head1.is_branch /\ Head1.type \in BranchTypes \ {"JAL"}
         /\ \E ins \in Programmed : Head1.type = ins.type /\ Head1.dest_reg = ins.rd
<1>1. rob.head \in RobSlots /\ Head1 = rob.slots[rob.head]
  BY DEF Head1, Inv1, FrontInv, RingOK, RingShape
<1>2. Head1.busy /\ Head1.ready /\ RobMispredicted(Head1)
  BY DEF Squashes, Commits, RobCanCommit, Head1
<1>3. KindOK(Head1) /\ (Head1.type = "JAL" => ~RobMispredicted(Head1))
  BY <1>1, <1>2 DEF Inv1, FrontInv, RobKinds, JumpsHit
<1>4. Head1.is_branch
  BY <1>2 DEF RobMispredicted
<1> QED BY <1>2, <1>3, <1>4 DEF KindOK

----------------------------------------------------------------------------
(* The inductive invariant                                                 *)

\* An empty machine satisfies it.
LEMMA InitPipeline == Init => PipelineInvariant
<1> SUFFICES ASSUME Init PROVE PipelineInvariant
  OBVIOUS
<1>1. FrontInv
  <2>1. prog \in Programs /\ FetchedFits(fetched)
    BY DEF Init, FetchedFits, FetchedFields
  <2>2. RingOK(rob)
    BY InitRing DEF Init
  <2>3. \A i \in RobSlots : ~rob.slots[i].busy
    BY DEF Init, RobInit, ZeroRobEntry
  <2>4. RatShape(rat) /\ \A x \in Reg : rat[x].ready
    <3>1. rat = [r \in Reg |-> ReadyRat(0)] /\ 0 \in Reg
      BY IsaAssumption DEF Init, RatInit, Reg
    <3>2. ReadyRat(0).ready /\ ReadyRat(0).ready \in BOOLEAN /\ ReadyRat(0).tag = 0
      BY DEF ReadyRat
    <3> QED BY <3>1, <3>2 DEF RatShape
  <2> QED BY <2>1, <2>2, <2>3, <2>4 DEF FrontInv, RobKinds, NamesYoungest, Writes
<1>2. \A i \in RobSlots : ~rob.slots[i].busy
  BY DEF Init, RobInit, ZeroRobEntry
<1>3. /\ DOMAIN alurs = AluSlots
      /\ \A i \in AluSlots : AluShape(alurs[i]) /\ ~alurs[i].busy
  BY DEF Init, AluRsInit, ZeroAluEntry, AluShape, AluFields, Jumped
<1>4. /\ DOMAIN lsrs = LsSlots
      /\ \A i \in LsSlots : LsShape(lsrs[i]) /\ ~lsrs[i].busy
  BY DEF Init, LsRsInit, ZeroLsEntry, LsShape, LsFields
<1>5. SbShape(sb) /\ \A k \in SbSlots : ~sb[k].busy
  BY DEF Init, SbInit, ZeroSbEntry, SbShape, SbFields
<1>6. BusShape(cdb)
  BY DEF Init, CdbInit, EmptyBus, BusShape
<1>7. RqShape(rq) /\ ~rq.is_load
  BY DEF Init, DmemInit, NoRq, RqShape, RqFields
<1>8. StationInv
  BY <1>2, <1>3, <1>4, <1>6 DEF StationInv, StationShape, Paired, Wakeups
<1>9. MemoryInv
  BY <1>2, <1>4, <1>5, <1>7
  DEF MemoryInv, StoresPaired, ValuesAgree, Served, Serves, Requested
<1>10. BranchInv
  <2>1. DOMAIN bp = {"checkpoints", "next_token"} /\ bp.checkpoints = << >>
    BY DEF Init, BpInit
  <2>2. Conditional(rob) = {} /\ ~InFetch(fetched)
    BY <1>2 DEF Conditional, InFetch, Init
  <2> DEFINE at == [k \in 1 .. 0 |-> {}]
  <2>3. at \in [1 .. 0 -> Conditional(rob)] /\ Sorted(Conditional(rob), TagOf(rob), at, 0)
    BY <2>2 DEF Sorted
  <2>4. bp.checkpoints = [k \in 1 .. (IF InFetch(fetched) THEN 0 + 1 ELSE 0) |->
                            IF k <= 0 THEN CheckpointOfEntry(rob.slots[at[k]])
                            ELSE CheckpointOfFetched(fetched)]
    BY <2>1, <2>2
  <2>5. 0 \in 0 .. RobSize
    BY RobSizeAssumption
  <2> HIDE DEF at
  <2> QED BY <2>1, <2>3, <2>4, <2>5 DEF BranchInv, Checkpointed
<1>11. JumpsHit(rob, alurs)
  BY <1>2, <1>3 DEF JumpsHit
<1>12. TokensInOrder(bp)
  BY MaxTokenAssumption DEF Init, BpInit, TokensInOrder, Tokens
<1> QED BY <1>1, <1>8, <1>9, <1>10, <1>11, <1>12 DEF PipelineInvariant

\* A cycle keeps it, and so does a machine that has stopped.
LEMMA CycleKeeps == PipelineInvariant /\ Cycle => PipelineInvariant'
<1> SUFFICES ASSUME PipelineInvariant, Cycle PROVE PipelineInvariant'
  OBVIOUS
<1>1. Inv2
  BY DEF PipelineInvariant, Inv2, Inv1
<1>2. PICK args : ArgsOf(args) /\ Effect(args)
  BY CycleEffect DEF PipelineInvariant, FrontInv
<1>3. PICK taken \in BOOLEAN : FrontEffect(taken)
  BY CycleFront DEF PipelineInvariant, FrontInv
<1>4. BranchInv'
  BY <1>1, <1>2, <1>3, BranchStep DEF Inv2, PipelineInvariant
<1>5. JumpsHit(rob, alurs)'
  <2>1. JumpsHit(rob', alurs')
    BY <1>1, <1>2, JumpStep DEF Inv2, PipelineInvariant
  <2> QED BY <2>1 DEF JumpsHit
<1>6. TokensInOrder(bp)'
  <2>1. CommitsBranch => BpAgrees(taken)
    BY <1>1, <1>3, CommittedCheckpoints DEF Inv2, PipelineInvariant
  <2>2. TokensInOrder(bp')
    BY <1>3, <2>1, TokenStep DEF PipelineInvariant
  <2> QED BY <2>2 DEF TokensInOrder
<1> QED BY <1>1, <1>2, <1>4, <1>5, <1>6, FrontStep, StationsStep, MemoryStep
    DEF Inv2, PipelineInvariant

\* Stations, buffers, alias table, memory and predictor agree with each other in every
\* state of the processor.
THEOREM PipelineInvariance == Spec => []PipelineInvariant
<1>1. PipelineInvariant /\ [Next]_vars => PipelineInvariant'
  <2> SUFFICES ASSUME PipelineInvariant, [Next]_vars PROVE PipelineInvariant'
    OBVIOUS
  <2>1. CASE Cycle
    BY <2>1, CycleKeeps
  <2>2. CASE UNCHANGED vars
    <3>1. /\ rob' = rob /\ rat' = rat /\ alurs' = alurs /\ lsrs' = lsrs /\ sb' = sb /\ rq' = rq
          /\ cdb' = cdb /\ prog' = prog /\ fetched' = fetched /\ bp' = bp
      BY <2>2 DEF vars
    <3>2. FrontInv'
      BY <3>1 DEF PipelineInvariant, FrontInv, FetchedFits, RobKinds, KindOK, Programmed
    <3>3. StationInv'
      BY <3>1 DEF PipelineInvariant, StationInv
    <3>4. MemoryInv'
      BY <3>1 DEF PipelineInvariant, MemoryInv
    <3>5. BranchInv'
      BY <3>1 DEF PipelineInvariant, BranchInv
    <3>6. JumpsHit(rob, alurs)' /\ TokensInOrder(bp)'
      BY <3>1 DEF PipelineInvariant
    <3> QED BY <3>2, <3>3, <3>4, <3>5, <3>6 DEF PipelineInvariant
  <2> QED BY <2>1, <2>2 DEF Next, Stopped
<1> QED BY <1>1, InitPipeline, PTL DEF Spec

----------------------------------------------------------------------------
(* What the runs check of it                                               *)

\* The buffer of the processor is a ring without holes, with head = tail only
\* when it is full or empty (reorderbuf.hpp:66-68), after whatever the phases
\* of a cycle did to it.
THEOREM CpuRingContiguous == Spec => []RobContiguous
<1>1. PipelineInvariant => RobContiguous
  BY RingOKGives DEF PipelineInvariant, FrontInv
<1> QED BY <1>1, PipelineInvariance, PTL

\* Tags grow with age in the buffer of the processor, over squashes too.
THEOREM CpuTagsInAgeOrder == Spec => []RobTagsInOrder
<1>1. PipelineInvariant => RobTagsInOrder
  BY RingOKGives DEF PipelineInvariant, FrontInv
<1> QED BY <1>1, PipelineInvariance, PTL

\* The alias table names the youngest writer in flight of every register, and
\* is ready when there is none (regaliastab.cpp:28).
THEOREM AliasesNameYoungestWriters == Spec => []RatNamesYoungestWriter
<1>1. PipelineInvariant => RatNamesYoungestWriter
  BY DEF PipelineInvariant, FrontInv, NamesYoungest, RatNamesYoungestWriter, Writes, Writers,
         RobBusy
<1> QED BY <1>1, PipelineInvariance, PTL

\* An operand that waits in a station waits for an older instruction whose
\* result is to come, or on the bus.
THEOREM WakeupsAreNotLost == Spec => []NoLostWakeup
<1>1. ASSUME PipelineInvariant, NEW q, NEW tag, WillCome(rob, cdb, q, tag), q # 0
      PROVE  q < tag /\ (q \in RobWaiting \/ (cdb.valid /\ cdb.rob_tag = q))
  BY <1>1 DEF WillCome, RobWaiting, RobBusy
<1>2. PipelineInvariant => NoLostWakeup
  <2> SUFFICES ASSUME PipelineInvariant, NEW w \in WaitsFor, w[2] # 0
               PROVE  w[2] < w[1] /\ (w[2] \in RobWaiting \/ (cdb.valid /\ cdb.rob_tag = w[2]))
    BY DEF NoLostWakeup
  <2>1. Wakeups(rob, alurs, lsrs, cdb)
    BY DEF PipelineInvariant, StationInv
  <2>2. WillCome(rob, cdb, w[2], w[1])
    BY <2>1 DEF WaitsFor, Wakeups, AluBusy, LsBusy
  <2> QED BY <1>1, <2>2
<1> QED BY <1>2, PipelineInvariance, PTL

\* Entries with different tags are as many as their tags.
LEMMA TagsCount ==
  ASSUME NEW S, IsFiniteSet(S), NEW f, f = [x \in S |-> f[x]],
         \A x, y \in S : f[x] = f[y] => x = y
  PROVE  LET T == {f[x] : x \in S}
         IN  IsFiniteSet(T) /\ Cardinality(T) = Cardinality(S)
<1> DEFINE T == {f[x] : x \in S}
<1>1. f \in Surjection(S, T)
  BY DEF Surjection
<1>2. f \in Injection(S, T)
  BY DEF Injection, IsInjective
<1> QED BY <1>1, <1>2, FS_Surjection

\* The slots of every component are finitely many.
LEMMA SlotsFinite ==
  /\ IsFiniteSet(RobBusy) /\ IsFiniteSet(AluBusy) /\ IsFiniteSet(LsBusy) /\ IsFiniteSet(SbBusy)
<1>1. /\ IsFiniteSet(RobSlots) /\ IsFiniteSet(AluSlots)
      /\ IsFiniteSet(LsSlots) /\ IsFiniteSet(SbSlots)
  BY FS_Interval, RobSizeAssumption, AluRsSizeAssumption, LsRsSizeAssumption, SbSizeAssumption
  DEF RobSlots, AluSlots, LsSlots, SbSlots
<1>2. /\ RobBusy \in SUBSET RobSlots /\ AluBusy \in SUBSET AluSlots
      /\ LsBusy \in SUBSET LsSlots /\ SbBusy \in SUBSET SbSlots
  BY DEF RobBusy, AluBusy, LsBusy, SbBusy
<1> QED BY <1>1, <1>2, FS_Subset

\* Every instruction without a result sits in exactly one slot of one station.
THEOREM WaitingInstructionsAreInStations == Spec => []StationsHoldTheWaiting
<1>1. ASSUME PipelineInvariant PROVE StationsHoldTheWaiting
  <2> DEFINE A == {alurs[i].rob_tag : i \in AluBusy}
             L == {lsrs[i].rob_tag : i \in LsBusy}
             fA == [i \in AluBusy |-> alurs[i].rob_tag]
             fL == [i \in LsBusy |-> lsrs[i].rob_tag]
             waiting == {j \in RobBusy : ~rob.slots[j].ready}
  <2>1. Inv1 /\ Paired(rob, alurs, lsrs)
    BY <1>1 DEF PipelineInvariant, Inv1, StationInv
  <2>2. A \cup L = RobWaiting
    <3>1. ASSUME NEW t \in A PROVE t \in RobWaiting
      BY <2>1 DEF Paired, Awaits, AluBusy, RobWaiting, RobBusy
    <3>2. ASSUME NEW t \in L PROVE t \in RobWaiting
      BY <2>1 DEF Paired, Awaits, LsBusy, RobWaiting, RobBusy
    <3>3. ASSUME NEW t \in RobWaiting PROVE t \in A \cup L
      <4>1. PICK s \in RobSlots : rob.slots[s].busy /\ ~rob.slots[s].ready /\ rob.slots[s].tag = t
        BY <3>3 DEF RobWaiting, RobBusy
      <4>2. \/ \E i \in AluSlots : alurs[i].busy /\ alurs[i].rob_tag = t
            \/ \E i \in LsSlots : lsrs[i].busy /\ lsrs[i].rob_tag = t
        BY <2>1, <4>1 DEF Paired
      <4> QED BY <4>2 DEF AluBusy, LsBusy
    <3> QED BY <3>1, <3>2, <3>3
  <2>3. IsFiniteSet(A) /\ Cardinality(A) = Cardinality(AluBusy)
    <3>1. \A i, j \in AluBusy : fA[i] = fA[j] => i = j
      BY <2>1 DEF Paired, AluBusy
    <3>2. A = {fA[i] : i \in AluBusy}
      OBVIOUS
    <3>3. fA = [i \in AluBusy |-> fA[i]]
      OBVIOUS
    <3> HIDE DEF fA, A
    <3> QED BY <3>1, <3>2, <3>3, SlotsFinite, TagsCount
  <2>4. IsFiniteSet(L) /\ Cardinality(L) = Cardinality(LsBusy)
    <3>1. \A i, j \in LsBusy : fL[i] = fL[j] => i = j
      BY <2>1 DEF Paired, LsBusy
    <3>2. L = {fL[i] : i \in LsBusy}
      OBVIOUS
    <3>3. fL = [i \in LsBusy |-> fL[i]]
      OBVIOUS
    <3> HIDE DEF fL, L
    <3> QED BY <3>1, <3>2, <3>3, SlotsFinite, TagsCount
  <2>5. A \cap L = {}
    BY <2>1, StationsDisjoint DEF AluBusy, LsBusy
  <2> HIDE DEF A, L
  <2>6. Cardinality(A \cup L) = Cardinality(A) + Cardinality(L)
    <3>1. Cardinality(A \cap L) = 0
      BY <2>5, FS_EmptySet
    <3>2. Cardinality(A) \in Nat /\ Cardinality(L) \in Nat
      BY <2>3, <2>4, FS_CardinalityType
    <3>3. Cardinality(A \cup L) = Cardinality(A) + Cardinality(L) - Cardinality(A \cap L)
      BY <2>3, <2>4, FS_Union
    <3> QED BY <3>1, <3>2, <3>3
  <2> QED BY <2>2, <2>3, <2>4, <2>6 DEF StationsHoldTheWaiting, A, L
<1> QED BY <1>1, PipelineInvariance, PTL

\* The store buffer holds exactly the stores in flight, and a store that may
\* commit with the value and the address it commits with.
THEOREM StoreBufferHoldsStores == Spec => []StoreBufferHoldsTheStores
<1>1. ASSUME PipelineInvariant PROVE StoreBufferHoldsTheStores
  <2> DEFINE stores == {i \in RobBusy : rob.slots[i].is_store}
             B == {sb[b].rob_tag : b \in SbBusy}
             R == {rob.slots[i].tag : i \in stores}
             fB == [b \in SbBusy |-> sb[b].rob_tag]
             fR == [i \in stores |-> rob.slots[i].tag]
  <2>1. StoresPaired(rob, sb) /\ RingOK(rob) /\ ValuesAgree(rob, lsrs, sb)
    BY <1>1 DEF PipelineInvariant, MemoryInv, FrontInv
  <2>2. B = R
    <3>1. ASSUME NEW t \in B PROVE t \in R
      BY <2>1 DEF StoresPaired, SbBusy, RobBusy
    <3>2. ASSUME NEW t \in R PROVE t \in B
      BY <2>1 DEF StoresPaired, SbBusy, RobBusy
    <3> QED BY <3>1, <3>2
  <2>3. Cardinality(B) = Cardinality(SbBusy)
    <3>1. \A i, j \in SbBusy : fB[i] = fB[j] => i = j
      BY <2>1 DEF StoresPaired, SbBusy
    <3>2. B = {fB[i] : i \in SbBusy}
      OBVIOUS
    <3>3. fB = [i \in SbBusy |-> fB[i]]
      OBVIOUS
    <3> HIDE DEF fB, B
    <3> QED BY <3>1, <3>2, <3>3, SlotsFinite, TagsCount
  <2>4. Cardinality(R) = Cardinality(stores)
    <3>1. \A i, j \in stores : fR[i] = fR[j] => i = j
      BY <2>1, TagsUnique DEF RobBusy
    <3>2. R = {fR[i] : i \in stores}
      OBVIOUS
    <3>3. fR = [i \in stores |-> fR[i]]
      OBVIOUS
    <3>4. IsFiniteSet(stores)
      BY SlotsFinite, FS_Subset
    <3> HIDE DEF fR, R, stores
    <3> QED BY <3>1, <3>2, <3>3, <3>4, TagsCount
  <2>5. \A i \in stores, b \in SbBusy :
          rob.slots[i].ready /\ sb[b].rob_tag = rob.slots[i].tag =>
            /\ sb[b].val_ready /\ sb[b].val = rob.slots[i].store_value
            /\ sb[b].addr_ready => sb[b].addr = rob.slots[i].store_addr
    BY <2>1 DEF ValuesAgree, SbBusy, RobBusy
  <2> QED BY <2>2, <2>3, <2>4, <2>5 DEF StoreBufferHoldsTheStores
<1> QED BY <1>1, PipelineInvariance, PTL

\* A load that waits for memory owns the request in flight, and an answer
\* never goes to another one.
THEOREM RequestsAreOwned == Spec => []RequestsHaveOwners
<1>1. ASSUME PipelineInvariant PROVE RequestsHaveOwners
  <2> DEFINE waiting == {i \in LsBusy : lsrs[i].mem_requested /\ ~lsrs[i].done}
  <2>1. Served(rob, lsrs, rq) /\ Paired(rob, alurs, lsrs)
    BY <1>1 DEF PipelineInvariant, MemoryInv, StationInv
  <2>2. waiting = {i \in LsSlots : Requested(lsrs[i])}
    BY DEF Requested, LsBusy
  <2>3. Cardinality(waiting) <= 1
    <3>1. \A i, j \in waiting : i = j
      BY <2>1, <2>2 DEF Served, Serves, Paired, Requested
    <3>2. CASE waiting = {}
      BY <3>2, FS_EmptySet
    <3>3. CASE waiting # {}
      <4>1. PICK i \in waiting : waiting = {i}
        BY <3>1, <3>3
      <4> HIDE DEF waiting
      <4> QED BY <4>1, FS_Singleton
    <3> QED BY <3>2, <3>3
  <2>4. \A i \in waiting :
          /\ rq.is_load /\ (rq.valid \/ rq.read_ready)
          /\ rq.rob_tag = lsrs[i].rob_tag /\ rq.addr = lsrs[i].addr /\ rq.type = lsrs[i].type
    BY <2>1, <2>2 DEF Served, Serves
  <2>5. \A i \in LsBusy :
          rq.is_load /\ (rq.valid \/ rq.read_ready) /\ rq.rob_tag = lsrs[i].rob_tag => i \in waiting
    BY <2>1 DEF Served, Serves, Requested, LsBusy
  <2> HIDE DEF waiting
  <2> QED BY <2>3, <2>4, <2>5 DEF RequestsHaveOwners, waiting
<1> QED BY <1>1, PipelineInvariance, PTL

\* In a cycle, a result that is in the buffer stays as it is.
LEMMA CycleKeepsResults ==
  ASSUME PipelineInvariant, Cycle, NEW i \in RobSlots, NEW j \in RobSlots,
         rob.slots[i].busy, rob.slots[i].ready,
         rob'.slots[j].busy, rob'.slots[j].tag = rob.slots[i].tag
  PROVE  rob'.slots[j] = rob.slots[i]
<1>1. Inv2 /\ Inv1
  BY DEF PipelineInvariant, Inv2, Inv1
<1>2. PICK args : ArgsOf(args) /\ Effect(args)
  BY CycleEffect DEF PipelineInvariant, FrontInv
<1>3. ~Squashes
  BY <1>1, <1>2, RobSquash DEF Effect
<1>4. RobStep(rob') /\ RingOK(rob)
  BY <1>1, <1>2, <1>3, RobCycle DEF Effect, RobResolved, Inv1, FrontInv
<1>5. rob.slots[i].tag < rob.next_tag /\ rob.slots[i].tag \in Nat /\ rob.next_tag \in Nat
  BY <1>1, <1>4, StoreTags DEF RingOK, RingShape, EntryShape
<1>6. Live(j)
  <2>1. ~Live(j) => rob'.slots[j].tag = rob.next_tag
    BY <1>4 DEF RobStep, IsNew
  <2> QED BY <1>5, <2>1
<1>7. j = i
  <2>1. rob.slots[j].busy /\ rob.slots[j].tag = rob.slots[i].tag
    BY <1>4, <1>6 DEF RobStep, Wrote, Live
  <2> QED BY <1>4, <2>1, TagsUnique
<1>8. rob.slots[i].tag \notin Finishing
  <2>1. \A t \in Finishing : \E s \in RobSlots :
          rob.slots[s].busy /\ ~rob.slots[s].ready /\ rob.slots[s].tag = t
    BY <1>1, FinishingIs DEF Finishing, Inv1, FrontInv, StationInv
  <2> QED BY <1>4, <2>1, TagsUnique
<1> QED BY <1>4, <1>6, <1>7, <1>8 DEF RobStep, Wrote

\* A result in the buffer stays as it is until its entry leaves: it is
\* written once, and the flush of a squash touches none that survives.
THEOREM ResultsAreFinal == Spec => ResultsStick
<1>1. ASSUME PipelineInvariant, [Next]_vars
      PROVE  [\A i, j \in RobSlots :
                LET e == rob.slots[i]
                    f == rob'.slots[j]
                IN  (e.busy /\ e.ready /\ f.busy /\ f.tag = e.tag) => f = e]_vars
  BY <1>1, CycleKeepsResults DEF Next, Stopped
<1> QED BY <1>1, PipelineInvariance, PTL DEF Spec, ResultsStick

\* The checkpoints of the predictor are those of the conditional branches in
\* flight, in their order, then that of the one in fetch, whatever order
\* prediction, commit and squash come in within a cycle.
THEOREM CheckpointsFollow == Spec => []CheckpointsFollowBranches
<1>1. ASSUME PipelineInvariant PROVE CheckpointsFollowBranches
  <2> DEFINE B == Conditional(rob)
             t == TagOf(rob)
  <2>1. RobConditional = B
    BY DEF RobConditional, RobBusy, Conditional
  <2> PICK N \in 0 .. RobSize : \E at \in [1 .. N -> B] :
        /\ Sorted(B, t, at, N)
        /\ bp.checkpoints = CheckpointList(rob, at, N, IF InFetch(fetched) THEN N + 1 ELSE N,
                                           CheckpointOfFetched(fetched))
    BY <1>1 DEF PipelineInvariant, BranchInv, Checkpointed, CheckpointList
  <2>2. PICK at \in [1 .. N -> B] :
        /\ Sorted(B, t, at, N)
        /\ bp.checkpoints = CheckpointList(rob, at, N, IF InFetch(fetched) THEN N + 1 ELSE N,
                                           CheckpointOfFetched(fetched))
    OBVIOUS
  <2>3. N \in Nat /\ DOMAIN at = 1 .. N
    BY RobSizeAssumption
  <2>4. \A i \in B : i \in RobSlots /\ rob.slots[i].busy
    BY DEF Conditional
  <2>5. Cardinality(B) = N
    <3>1. Numbered(B, t)
      BY <1>1, <2>4
      DEF Numbered, TagOf, PipelineInvariant, FrontInv, RingOK, RingShape, EntryShape
    <3> HIDE DEF B, t
    <3> QED BY <2>2, <2>3, <3>1, SortedLength
  <2>6. \A j, k \in DOMAIN at : j < k => rob.slots[at[j]].tag < rob.slots[at[k]].tag
    BY <2>2, <2>3, <2>4 DEF Sorted, TagOf
  <2> DEFINE a == [k \in DOMAIN at |-> CheckpointOfEntry(rob.slots[at[k]])]
             x == CheckpointOfFetched(fetched)
             b == IF InFetch(fetched) THEN << x >> ELSE << >>
  <2>7. bp.checkpoints = a \o b
    <3>1. a = [k \in 1 .. N |-> a[k]] /\ \A k \in 1 .. N : a[k] = CheckpointOfEntry(rob.slots[at[k]])
      BY <2>3
    <3> HIDE DEF a, x
    <3> DEFINE T == {a[k] : k \in 1 .. N} \cup {x}
    <3>2. a \in Seq(T) /\ x \in T
      <4>1. a \in [1 .. N -> T]
        BY <3>1
      <4> HIDE DEF T
      <4>2. a \in Seq(T)
        BY <2>3, <4>1
      <4> QED BY <4>2 DEF T
    <3> HIDE DEF T
    <3>3. CASE InFetch(fetched)
      <4>1. Append(a, x) = [k \in 1 .. N + 1 |-> IF k <= N THEN a[k] ELSE x]
        BY <2>3, <3>1, SequenceIs
      <4>2. Append(a, x) = a \o << x >>
        BY <3>2, AppendIsConcat
      <4>3. bp.checkpoints = [k \in 1 .. N + 1 |-> IF k <= N THEN a[k] ELSE x]
        BY <2>2, <2>3, <3>1, <3>3 DEF CheckpointList, x
      <4> QED BY <3>3, <4>1, <4>2, <4>3
    <3>4. CASE ~InFetch(fetched)
      <4>1. a \o << >> = a
        BY <3>2, ConcatEmptySeq
      <4>2. bp.checkpoints = a
        BY <2>2, <2>3, <3>1, <3>4 DEF CheckpointList
      <4> QED BY <3>4, <4>1, <4>2
    <3> QED BY <3>3, <3>4
  <2> QED BY <2>1, <2>2, <2>5, <2>6, <2>7 DEF CheckpointsFollowBranches
<1> QED BY <1>1, PipelineInvariance, PTL

\* A branch that is predicted finds a free token, and one that commits a
\* checkpoint.
LEMMA PredictorIsReady ==
  ASSUME PipelineInvariant
  PROVE  /\ Predicts => LiveTokens(bp) # Tokens
         /\ CommitsBranch => bp.checkpoints # << >>
<1> DEFINE B == Conditional(rob)
           c == bp.checkpoints
<1> PICK N \in 0 .. RobSize : \E at \in [1 .. N -> B] :
      /\ Sorted(B, TagOf(rob), at, N)
      /\ c = CheckpointList(rob, at, N, IF InFetch(fetched) THEN N + 1 ELSE N,
                           CheckpointOfFetched(fetched))
  BY DEF PipelineInvariant, BranchInv, Checkpointed, CheckpointList
<1>1. PICK at \in [1 .. N -> B] :
        /\ Sorted(B, TagOf(rob), at, N)
        /\ c = CheckpointList(rob, at, N, IF InFetch(fetched) THEN N + 1 ELSE N,
                             CheckpointOfFetched(fetched))
  OBVIOUS
<1> DEFINE M == IF InFetch(fetched) THEN N + 1 ELSE N
<1>2. N \in Nat /\ M \in Nat /\ M >= N
  BY RobSizeAssumption
<1>3. c = [k \in 1 .. M |-> c[k]] /\ DOMAIN c = 1 .. M
  BY <1>1 DEF CheckpointList
<1>4. ASSUME Predicts PROVE LiveTokens(bp) # Tokens
  <2>1. M = N
    BY <1>4 DEF Predicts, Fetches, InFetch
  <2> DEFINE g == [k \in 1 .. N |-> c[k].token]
  <2>2. LiveTokens(bp) = {g[k] : k \in 1 .. N}
    BY <1>3, <2>1 DEF LiveTokens
  <2>3. IsFiniteSet(1 .. N) /\ Cardinality(1 .. N) = N
    BY <1>2, FS_Interval
  <2>4. IsFiniteSet(LiveTokens(bp)) /\ Cardinality(LiveTokens(bp)) <= N
    <3>1. g \in Surjection(1 .. N, LiveTokens(bp))
      BY <2>2 DEF Surjection
    <3> HIDE DEF g, c
    <3> QED BY <2>3, <3>1, FS_Surjection
  <2>5. Cardinality(Tokens) = MaxToken
    BY MaxTokenAssumption, FS_Interval DEF Tokens
  <2>6. Cardinality(LiveTokens(bp)) \in Nat
    BY <2>4, FS_CardinalityType
  <2> QED BY <1>2, <2>4, <2>5, <2>6, TokensAssumption, RobSizeAssumption, MaxTokenAssumption
<1>5. ASSUME CommitsBranch PROVE c # << >>
  <2>1. rob.head \in B
    <3>1. Commits /\ rob.head \in RobSlots /\ rob.slots[rob.head].busy
      BY <1>5 DEF CommitsBranch, Commits, RobCanCommit, PipelineInvariant, FrontInv, RingOK,
                  RingShape, Head1
    <3>2. KindOK(rob.slots[rob.head])
      BY <3>1 DEF PipelineInvariant, FrontInv, RobKinds
    <3> QED BY <1>5, <3>1, <3>2
      DEF CommitsBranch, Conditional, KindOK, BranchTypes, CondTypes, JumpTypes, Head1
  <2>2. N > 0
    BY <1>1, <1>2, <2>1 DEF Sorted
  <2> HIDE DEF c, M
  <2> QED BY <1>2, <1>3, <2>2, SequenceIs
<1> QED BY <1>4, <1>5

\* Every cycle of the processor is one that the predictor's interface allows,
\* the same interface that TAGE implements (TageImplementsInterface).
THEOREM PredictorUsedAsAllowed == Spec => UsesPredictorAsAllowed
<1>1. ASSUME PipelineInvariant, Cycle PROVE BpCycle({pc})
  <2>1. PICK taken \in BOOLEAN : FrontEffect(taken)
    BY <1>1, CycleFront DEF PipelineInvariant, FrontInv
  <2>2. CommitsBranch => BpAgrees(taken)
    BY <1>1, CommittedCheckpoints DEF PipelineInvariant, Inv1
  <2> DEFINE predicted == IF Predicts THEN BpPredict(bp, pc, taken) ELSE bp
             updated == IF CommitsBranch THEN BpUpdate(predicted) ELSE predicted
  <2>3. bp' = IF Squashes THEN BpRecover(updated) ELSE updated
    BY <2>1, <2>2 DEF FrontEffect, BpCommitted, BpFetched
  <2>4. /\ Predicts => LiveTokens(bp) # Tokens
        /\ CommitsBranch => bp.checkpoints # << >>
    BY <1>1, PredictorIsReady
  <2>5. Predicts \in BOOLEAN /\ CommitsBranch \in BOOLEAN /\ Squashes \in BOOLEAN
    BY DEF Predicts, CommitsBranch, Squashes, Commits
  <2> QED BY <2>3, <2>4, <2>5 DEF BpCycle
<1>2. ASSUME PipelineInvariant, [Next]_vars PROVE [BpCycle({pc})]_bp
  BY <1>1, <1>2 DEF Next, Stopped, vars
<1> QED BY <1>2, PipelineInvariance, PTL DEF Spec, UsesPredictorAsAllowed

\* The simulator stops only at an illegal word or a misaligned load, of the
\* program: its assertions about its own records hold.
THEOREM AssertionsNeverFail == Spec => AssertionsHold
<1>1. ASSUME PipelineInvariant, Cycle, aborted'
      PROVE  aborted \/ DmemAborts \/ (Fetches /\ InstrAt(prog, pc).type = "ILLEGAL")
  <2>1. PICK taken \in BOOLEAN : FrontEffect(taken)
    BY <1>1, CycleFront DEF PipelineInvariant, FrontInv
  <2>2. CommitsBranch => BpAgrees(taken)
    BY <1>1, CommittedCheckpoints DEF PipelineInvariant, Inv1
  <2>3. Squashes => RobFlushAsserts(Head1.tag)
    <3> SUFFICES ASSUME Squashes PROVE RobFlushAsserts(Head1.tag)
      OBVIOUS
    <3>1. rob.head \in RobSlots
      BY <1>1 DEF PipelineInvariant, FrontInv, RingOK, RingShape
    <3>2. Head1.busy /\ Head1.is_branch
      BY DEF Squashes, Commits, RobCanCommit, RobMispredicted, Head1
    <3> QED BY <3>1, <3>2 DEF RobFlushAsserts, RobHolds, Head1
  <2> QED BY <1>1, <2>1, <2>2, <2>3 DEF FrontEffect, GivesUp, Ins1
<1>2. ASSUME PipelineInvariant, [Next]_vars
      PROVE  [aborted' => \/ aborted \/ DmemAborts
                          \/ Fetches /\ InstrAt(prog, pc).type = "ILLEGAL"]_vars
  BY <1>1, <1>2 DEF Next, Stopped
<1> QED BY <1>2, PipelineInvariance, PTL DEF Spec, AssertionsHold

----------------------------------------------------------------------------
(* The values of ready aliases                                             *)

\* A linking branch that squashes is the one thing that lets them fall behind.
LinksAndSquashes == Squashes /\ CommitsReg

\* Among the branches only JAL links: the JALRs of the program are returns.
OnlyJalLinks ==
  \A p \in Programs : \A k \in DOMAIN p : p[k].type \in BranchTypes \ {"JAL"} => p[k].rd = 0

\* ReadyAliasIsCurrent, with what a step needs to keep it.
AliasInv == DOMAIN regs = Reg /\ Current(rat, regs)

LEMMA AliasIsCurrent == ReadyAliasIsCurrent <=> Current(rat, regs)
  BY DEF ReadyAliasIsCurrent, Current, ReadReg

LEMMA InitAlias == Init => AliasInv
<1> SUFFICES ASSUME Init PROVE AliasInv
  OBVIOUS
<1>1. DOMAIN regs = Reg /\ \A x \in Reg : regs[x] = 0 /\ rat[x] = ReadyRat(0)
  BY DEF Init, RegfInit, RatInit
<1>2. ReadyRat(0).val = 0
  BY DEF ReadyRat
<1> QED BY <1>1, <1>2 DEF AliasInv, Current

LEMMA CycleAlias ==
  ASSUME PipelineInvariant, DOMAIN regs = Reg, Cycle
  PROVE  /\ DOMAIN regs' = Reg
         /\ Current(rat, regs) => Current(rat', regs') \/ LinksAndSquashes
<1>1. Inv1
  BY DEF PipelineInvariant, Inv1
<1>2. PICK args : ArgsOf(args) /\ Effect(args)
  BY CycleEffect DEF PipelineInvariant, FrontInv
<1>3. PICK taken \in BOOLEAN : FrontEffect(taken)
  BY CycleFront DEF PipelineInvariant, FrontInv
<1>4. NewTag = rob.next_tag
  BY <1>1, <1>2, RobCycle
<1>5. /\ DOMAIN regs' = Reg
      /\ \A x \in Reg \ {0} :
           regs'[x] = IF CommitsReg /\ x = Head1.dest_reg THEN Head1.val ELSE regs[x]
  BY <1>1, <1>3, CommittedRegs DEF FrontEffect
<1>6. ASSUME ~Squashes, Current(rat, regs) PROVE Current(rat', regs')
  <2>1. rat' = RatIssued
    BY <1>2, <1>6 DEF Effect, RatResolved
  <2> QED BY <1>1, <1>4, <1>5, <1>6, <2>1, CurrentCycle
<1>7. ASSUME Squashes, ~CommitsReg, Current(rat, regs) PROVE Current(rat', regs')
  <2>1. Current(RatResolved, regs) /\ rat' = RatResolved
    BY <1>1, <1>2, <1>4, <1>7, CurrentSquash DEF Effect
  <2>2. \A x \in Reg \ {0} : regs'[x] = regs[x]
    BY <1>5, <1>7
  <2> QED BY <2>1, <2>2 DEF Current
<1> QED BY <1>5, <1>6, <1>7 DEF LinksAndSquashes

\* Nothing but a linking branch that squashes leaves a ready alias without the
\* value of its register: not an issue, a commit, or a recovery in which several
\* of them write the table.
THEOREM AliasesStayCurrent ==
  Spec => [][ReadyAliasIsCurrent => ReadyAliasIsCurrent' \/ LinksAndSquashes]_vars
<1>1. PipelineInvariant /\ DOMAIN regs = Reg /\ [Next]_vars => (DOMAIN regs = Reg)'
  BY CycleAlias DEF Next, Stopped, vars
<1>2. Init => DOMAIN regs = Reg
  BY InitAlias DEF AliasInv
<1>3. ReadyAliasIsCurrent' <=> Current(rat', regs')
  BY DEF ReadyAliasIsCurrent, Current, ReadReg
<1>4. PipelineInvariant /\ DOMAIN regs = Reg /\ [Next]_vars
        => [ReadyAliasIsCurrent => ReadyAliasIsCurrent' \/ LinksAndSquashes]_vars
  BY <1>3, CycleAlias, AliasIsCurrent DEF Next, Stopped
<1> QED BY <1>1, <1>2, <1>4, PipelineInvariance, PTL DEF Spec

\* So with programs in which only JAL links, which is never mispredicted, a
\* ready alias always holds the value of the register file (regaliastab.hpp:11).
THEOREM ReadyAliasesAreCurrent == OnlyJalLinks /\ Spec => []ReadyAliasIsCurrent
<1> DEFINE I == OnlyJalLinks /\ AliasInv
<1>1. PipelineInvariant /\ OnlyJalLinks => ~LinksAndSquashes
  <2> SUFFICES ASSUME PipelineInvariant, OnlyJalLinks, LinksAndSquashes PROVE FALSE
    OBVIOUS
  <2>1. PICK ins \in Programmed : Head1.type = ins.type /\ Head1.dest_reg = ins.rd
    BY SquashKind DEF PipelineInvariant, Inv1, LinksAndSquashes
  <2>2. Head1.type \in BranchTypes \ {"JAL"}
    BY SquashKind DEF PipelineInvariant, Inv1, LinksAndSquashes
  <2>3. CASE ins \in {prog[k] : k \in DOMAIN prog}
    BY <2>1, <2>2, <2>3 DEF OnlyJalLinks, PipelineInvariant, FrontInv, LinksAndSquashes, CommitsReg
  <2>4. CASE ins = Custom("UNKNOWN")
    BY <2>1, <2>2, <2>4 DEF Custom, BranchTypes, CondTypes, JumpTypes
  <2> QED BY <2>1, <2>3, <2>4 DEF Programmed
<1>2. Init /\ OnlyJalLinks => I
  BY InitAlias
<1>3. PipelineInvariant /\ I /\ [Next]_vars => I'
  <2> SUFFICES ASSUME PipelineInvariant, I, [Next]_vars PROVE AliasInv'
    BY DEF OnlyJalLinks
  <2>1. CASE Cycle
    BY <1>1, <2>1, CycleAlias DEF AliasInv, Current
  <2>2. CASE UNCHANGED vars
    <3>1. rat' = rat /\ regs' = regs
      BY <2>2 DEF vars
    <3> QED BY <3>1 DEF AliasInv, Current
  <2> QED BY <2>1, <2>2 DEF Next, Stopped
<1>4. I => ReadyAliasIsCurrent
  BY AliasIsCurrent DEF AliasInv
<1> QED BY <1>2, <1>3, <1>4, PipelineInvariance, PTL DEF Spec
============================================================================
