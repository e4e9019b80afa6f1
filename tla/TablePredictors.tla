-------------------------- MODULE TablePredictors --------------------------
(***************************************************************************)
(* The predictors of src/src/tomasulo/branchpred.cpp that are tables of    *)
(* two-bit counters: bimodal, gshare, and the tournament between the two.  *)
(*                                                                         *)
(* A predictor is a record.  Its operators take cur, the copy of before    *)
(* the cycle, where the code reads it, and n, the next copy, where the     *)
(* code reads or writes that.  A prediction is [taken, context]; the       *)
(* target is the pipeline's (Fetch in TomasuloCPU).                        *)
(***************************************************************************)
EXTENDS Isa

CONSTANTS
  TABLE_SIZE,    \* counters of the bimodal and of the tournament table (1024 in the code)
  GLEN           \* bits of gshare's history (8 in the code)

\* What is said of exponents holds for every GLEN in Nat, but is beyond the
\* provers.
ASSUME TablePredictorsAssumption ==
  /\ TABLE_SIZE \in Nat \ {0} /\ GLEN \in Nat \ {0}
  /\ 2 ^ GLEN \in Nat \ {0} /\ 2 ^ (GLEN + 1) = 2 * 2 ^ GLEN

WordPc(pc) == pc \div 4
Num(taken) == IF taken THEN 1 ELSE 0
Xor(a, b)  == BitWise(XorBit, a, b)

\* A two-bit counter predicts taken in its upper half, and saturates.
TwoBit == 0 .. 3
Taken(counter) == counter >= 2

\* Mutant of Trained: the counter wraps at its upper end.
TrainedWraps(counter, taken) ==
  IF taken THEN (counter + 1) % 4
  ELSE IF counter > 0 THEN counter - 1 ELSE counter

Trained(counter, taken) ==
  IF taken THEN (IF counter < 3 THEN counter + 1 ELSE counter)
  ELSE IF counter > 0 THEN counter - 1 ELSE counter

Slot(pc) == WordPc(pc) % TABLE_SIZE

----------------------------------------------------------------------------
(* Bimodal                                                                 *)

Bimodal == [counters: [0 .. TABLE_SIZE - 1 -> TwoBit]]

BimodalInit == [counters |-> [i \in 0 .. TABLE_SIZE - 1 |-> 1]]

BimodalPredict(cur, pc) == [taken |-> Taken(cur.counters[Slot(pc)]), context |-> 0]

BimodalUpdate(n, pc, taken) == [n EXCEPT !.counters[Slot(pc)] = Trained(@, taken)]

----------------------------------------------------------------------------
(* Gshare                                                                  *)

Histories == 0 .. 2 ^ GLEN - 1

Gshare == [committed_ghr: Histories, speculative_ghr: Histories, pht: [Histories -> TwoBit]]

GshareInit == [committed_ghr |-> 0, speculative_ghr |-> 0, pht |-> [h \in Histories |-> 1]]

GshareIndex(ghr, pc) == Xor(WordPc(pc) % 2 ^ GLEN, ghr) % 2 ^ GLEN

GsharePush(ghr, taken) == (2 * ghr + Num(taken)) % 2 ^ GLEN

\* Mutant of GshareLookup: the counter is read from the next copy.
GshareLookupNext(cur, n, pc) ==
  LET index == GshareIndex(n.speculative_ghr, pc)
  IN  [taken |-> Taken(n.pht[index]), context |-> index]

GshareLookup(cur, n, pc) ==
  LET index == GshareIndex(n.speculative_ghr, pc)
  IN  [taken |-> Taken(cur.pht[index]), context |-> index]

GshareSpeculate(n, taken) == [n EXCEPT !.speculative_ghr = GsharePush(@, taken)]

\* Mutant of GshareUpdate: trains the counter of the present history.
GshareUpdateNow(n, context, taken) ==
  [n EXCEPT !.pht[n.speculative_ghr] = Trained(@, taken),
            !.committed_ghr = GsharePush(@, taken)]

GshareUpdate(n, context, taken) ==
  [n EXCEPT !.pht[context] = Trained(@, taken),
            !.committed_ghr = GsharePush(@, taken)]

GshareRecover(n) == [n EXCEPT !.speculative_ghr = n.committed_ghr]

----------------------------------------------------------------------------
(* Tournament: a counter per branch chooses between the two                *)

Tournament == [counters: [0 .. TABLE_SIZE - 1 -> TwoBit], bp: Bimodal, gp: Gshare]

TournamentInit ==
  [counters |-> [i \in 0 .. TABLE_SIZE - 1 |-> 1], bp |-> BimodalInit, gp |-> GshareInit]

\* The context packs gshare's index and what each of the two said.
GSHARE_PRED_BIT  == 2 ^ GLEN
BIMODAL_PRED_BIT == 2 ^ (GLEN + 1)
ContextIndex(context)  == context % 2 ^ GLEN
ContextGshare(context) == Bit(context, GLEN) = 1
ContextBimodal(context) == Bit(context, GLEN + 1) = 1

TournamentPredict(cur, n, pc) ==
  LET gpred == GshareLookup(cur.gp, n.gp, pc)
      bpred == BimodalPredict(cur.bp, pc)
  IN  [taken |-> IF Taken(cur.counters[Slot(pc)]) THEN bpred.taken ELSE gpred.taken,
       context |-> gpred.context + GSHARE_PRED_BIT * Num(gpred.taken)
                                 + BIMODAL_PRED_BIT * Num(bpred.taken)]

\* Mutant of TournamentSpeculate: gshare's history takes gshare's own prediction.
TournamentSpeculateOwn(n, prediction) ==
  [n EXCEPT !.gp = GshareSpeculate(@, ContextGshare(prediction.context))]

\* gshare's history takes the prediction that was selected.
TournamentSpeculate(n, prediction) == [n EXCEPT !.gp = GshareSpeculate(@, prediction.taken)]

TournamentUpdate(n, pc, context, taken) ==
  LET gright == ContextGshare(context) = taken
      bright == ContextBimodal(context) = taken
  IN  [n EXCEPT !.counters[Slot(pc)] = IF gright = bright THEN @ ELSE Trained(@, bright),
                !.gp = GshareUpdate(@, ContextIndex(context), taken),
                !.bp = BimodalUpdate(@, pc, taken)]

TournamentRecover(n) == [n EXCEPT !.gp = GshareRecover(@)]
============================================================================
