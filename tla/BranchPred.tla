----------------------------- MODULE BranchPred -----------------------------
(***************************************************************************)
(* The interface between the pipeline and the TAGE predictor,              *)
(* src/src/tomasulo/branchpred.cpp: one checkpoint for every conditional   *)
(* branch between its fetch and its commit, named by a token that travels  *)
(* with the branch as its context.  Which way a prediction goes is left    *)
(* open, so what is shown here holds whatever the tables contain; that the *)
(* predictor with its tables (Tage) behaves like this is a property of     *)
(* Predictors.                                                             *)
(*                                                                         *)
(* checkpoints and next_token are written in place, not double-buffered.   *)
(***************************************************************************)
EXTENDS Isa, Checkpoints

VARIABLE bp          \* [checkpoints, next_token]

Checkpoint == [token: Tokens, pc: Word, final_prediction: BOOLEAN]

BpInit == bp = [checkpoints |-> << >>, next_token |-> 1]

\* predict: the token of the new checkpoint is FreshToken(n).
BpPredict(n, pc, taken) ==
  [checkpoints |-> Append(n.checkpoints, [token |-> FreshToken(n), pc |-> pc,
                                          final_prediction |-> taken]),
   next_token  |-> TokenAfter(FreshToken(n))]

\* What update throws or asserts on unless it holds.
BpUpdateAsserts(n, pc, context) ==
  /\ n.checkpoints # << >>
  /\ Head(n.checkpoints).token = context
  /\ Head(n.checkpoints).pc = pc

\* Mutant of BpUpdate: drops the youngest checkpoint instead of the oldest.
BpUpdateBack(n) == [n EXCEPT !.checkpoints = SubSeq(@, 1, Len(@) - 1)]

BpUpdate(n) == [n EXCEPT !.checkpoints = Tail(@)]

\* Mutant of BpRecover: keeps the checkpoints of the squashed branches.
BpRecoverKeeps(n) == n

BpRecover(n) == [n EXCEPT !.checkpoints = << >>]

----------------------------------------------------------------------------
(* The interface as a machine: what a cycle may do to the checkpoints.     *)

BpCycle(pcs) ==
  \E predicts, updates, recovers, taken \in BOOLEAN, pc \in pcs :
    /\ predicts => LiveTokens(bp) # Tokens
    /\ updates => bp.checkpoints # << >>
    /\ LET predicted == IF predicts THEN BpPredict(bp, pc, taken) ELSE bp
           updated   == IF updates THEN BpUpdate(predicted) ELSE predicted
       IN  bp' = IF recovers THEN BpRecover(updated) ELSE updated

BpTypeOK == bp \in [checkpoints: Seq(Checkpoint), next_token: Tokens]
============================================================================
