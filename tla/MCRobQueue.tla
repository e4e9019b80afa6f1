----------------------------- MODULE MCRobQueue -----------------------------
(* Instances of RobQueue for TLC. *)
EXTENDS RobQueue

Arg(type, rd, taken) ==
  [type |-> type, dest_reg |-> rd, pc |-> 0, is_branch |-> type \in BranchTypes,
   branch_pred_taken |-> taken, branch_target |-> 0, is_store |-> type \in StoreTypes,
   pred_target |-> 0, branch_pred_context |-> 0]

\* One instruction of each kind the buffer tells apart; a branch under both
\* predictions.
MCNewInstrs == {Arg("ADD", 1, FALSE), Arg("BEQ", 0, FALSE), Arg("BEQ", 0, TRUE), Arg("SW", 0, FALSE)}

\* With pred_target = 0, a right and a wrong target.
MCWords == {0, 4}
============================================================================
