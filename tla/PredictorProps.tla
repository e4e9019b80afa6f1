--------------------------- MODULE PredictorProps ---------------------------
(***************************************************************************)
(* What makes a branch predictor correct: a wrong prediction costs time    *)
(* and never a result, so nothing a program prints tells whether the       *)
(* histories, tables and checkpoints are what they are meant to be.        *)
(***************************************************************************)
EXTENDS Predictors

\* Type invariant: counters stay in their ranges, pending writes are gone
\* after the clock, indexes are inside the tables.
PredictorTypeOK ==
  /\ kind \in Kinds
  /\ p \in CASE kind = "naive" -> {<< >>}
             [] kind = "bimodal" -> Bimodal
             [] kind = "gshare" -> Gshare
             [] kind = "tournament" -> Tournament
             [] kind = "tage" -> TagePredictor
  /\ script \in Scripts /\ done \in 0 .. Len(script) - 1
  /\ inflight \in Seq(InFlight) /\ Len(inflight) <= MaxInFlight
  /\ mispredicted \in BOOLEAN /\ failed \in BOOLEAN

\* The checkpoint of a committing branch is always the oldest one and its own,
\* whatever was squashed before, and the writes of a cycle fit into their
\* array (branchpred.cpp:300, 322, 517-523).
PredictorNeverAsserts == ~failed

\* The foldings, kept up bit by bit, are what folding the newest directions
\* anew would give (branchpred.cpp:182-206): bit j is the parity of the
\* directions whose distance is j modulo the width.
IsFoldOf(value, width, length, h) ==
  \A j \in 0 .. width - 1 :
    Bit(value, j) = Cardinality({d \in 0 .. length - 1 : d % width = j /\ Ago(h, d) = 1}) % 2

FoldsMatchHistory ==
  kind = "tage" =>
    \A h \in {p.committed_history, p.speculative_history}, t \in Tables :
      /\ IsFoldOf(h.index_fold[t], INDEX_BITS, HISTORY_LENGTHS[t], h)
      /\ IsFoldOf(h.tag_fold_a[t], TAG_WIDTHS[t], HISTORY_LENGTHS[t], h)
      /\ IsFoldOf(h.tag_fold_b[t], TAG_WIDTHS[t] - 1, HISTORY_LENGTHS[t], h)

\* The speculative history is the committed one with the predictions in flight
\* pushed, in order, and each of them was made with the history of those
\* before it: after any squash, and after a commit beside a prediction.
SpeculationIsAChain ==
  LET After(k) == IF inflight[k].jump THEN inflight[k].seen
                  ELSE PushOf(kind, inflight[k].seen, inflight[k].taken, inflight[k].pc)
      last == Len(inflight)
  IN  /\ last = 0 => SpeculativeOf(kind, p) = CommittedOf(kind, p)
      /\ last > 0 => /\ inflight[1].seen = CommittedOf(kind, p)
                     /\ SpeculativeOf(kind, p) = After(last)
      /\ \A k \in 1 .. last - 1 : inflight[k + 1].seen = After(k)

\* The entry that provided a prediction in flight is never given to another
\* branch, although only the update asks whether it still is there
\* (branchpred.cpp:529): an entry is replaced on a misprediction alone, and that
\* squashes everything in flight in the same cycle.
ProvidersStayInPlace ==
  kind = "tage" =>
    \A k \in DOMAIN p.checkpoints :
      LET c == p.checkpoints[k] IN c.provider # -1 => ProviderStillThere(p, c)

\* A cycle in which both a prediction and an update are due does the same in
\* whichever order the calls come: the README has the phases of a cycle
\* independent of their order (README.md:5).
CallOrderIrrelevant ==
  \A item \in Fetchable, pick \in PicksNow :
    inflight # << >> => Commit(Fetch(Current, item), pick) = Fetch(Commit(Current, pick), item)

\* The predictors that double-buffer all they read keep that promise.
TablesIgnoreCallOrder == kind # "tage" => CallOrderIrrelevant

CheckpointsOf ==
  IF kind = "tage"
  THEN [checkpoints |-> [k \in DOMAIN p.checkpoints |->
          [token |-> p.checkpoints[k].token, pc |-> p.checkpoints[k].pc,
           final_prediction |-> p.checkpoints[k].final_prediction]],
        next_token |-> p.next_token]
  ELSE [checkpoints |-> << >>, next_token |-> 1]

\* TAGE with its tables does to the checkpoints what the pipeline's model of
\* the predictor does (BranchPred), with some direction for every prediction.
Interface == INSTANCE BranchPred WITH bp <- CheckpointsOf

ImplementsCheckpoints == Interface!BpInit /\ [][Interface!BpCycle(PCs)]_CheckpointsOf

GshareOf == CASE kind = "gshare" -> p [] kind = "tournament" -> p.gp [] OTHER -> GshareInit

\* However predictions, updates and squashes interleave, gshare, alone or
\* inside the tournament, ends up with what a gshare learns that is told of
\* every branch the moment the program executes it.
InOrder ==
  INSTANCE InOrderGshare WITH
    ghr <- GshareOf.committed_ghr, pht <- GshareOf.pht,
    place <- IF kind \in {"gshare", "tournament"} THEN done ELSE 0

LearnsInOrder == InOrder!Spec

\* How many of the outcomes before it a prediction may depend on.
Reach ==
  CASE kind \in {"naive", "bimodal"} -> 0
    [] kind \in {"gshare", "tournament"} -> GLEN
    [] kind = "tage" -> Max({HISTORY_LENGTHS[t] : t \in Tables})

\* Of one branch alone, the last n outcomes tell the next one.
Determined(n) ==
  LET Outcome(k) == script[(k % Len(script)) + 1].taken
      Places == Len(script) * (n + 1) .. Len(script) * (n + 2) - 1
  IN  /\ \A k \in DOMAIN script : ~script[k].jump /\ script[k].pc = script[1].pc
      /\ \A i, j \in Places :
           (\A d \in 1 .. n : Outcome(i - d) = Outcome(j - d)) => Outcome(i) = Outcome(j)

\* A loop that the history reaches around is learnt: from some cycle on none of
\* its branches is mispredicted, however long each of them stays in flight.
Learns == kind # "naive" /\ Determined(Reach) => <>[][~mispredicted']_vars
============================================================================
