---------------------------- MODULE InOrderQueue ----------------------------
(***************************************************************************)
(* What a reorder buffer promises, whatever holds it: a bounded first-in   *)
(* first-out queue of instructions.  In one clock cycle the oldest         *)
(* instruction may retire if its result is in, results may come in, and    *)
(* one instruction may join at the young end; or a mispredicted branch     *)
(* retires and takes everything younger with it.                           *)
(***************************************************************************)
EXTENDS Naturals, Sequences

CONSTANT Capacity

VARIABLES
  q,       \* the instructions in flight, oldest first: [tag, ready, mispredicted]
  issued   \* the number of instructions that ever joined

Init == q = <<>> /\ issued = 0

\* Rest keeps its order and its length; results only come in.
Matured(rest, later) ==
  \A k \in 1 .. Len(rest) :
    /\ later[k].tag = rest[k].tag
    /\ rest[k].ready => later[k] = rest[k]

Cycle ==
  \E retire \in BOOLEAN :
    LET rest == IF retire THEN Tail(q) ELSE q
    IN  /\ retire => Len(q) > 0 /\ Head(q).ready /\ ~Head(q).mispredicted
        /\ \/ /\ issued' = issued                         \* nothing joins
              /\ Len(q') = Len(rest)
           \/ /\ Len(q) < Capacity                        \* one joins
              /\ issued' = issued + 1
              /\ Len(q') = Len(rest) + 1
              /\ q'[Len(q')].tag = issued'
              /\ ~q'[Len(q')].ready
        /\ Matured(rest, q')

Squash ==
  /\ Len(q) > 0 /\ Head(q).ready /\ Head(q).mispredicted
  /\ q' = <<>>
  /\ issued' \in {issued} \cup (IF Len(q) < Capacity THEN {issued + 1} ELSE {})

Spec == Init /\ [][Cycle \/ Squash]_<<q, issued>>
============================================================================
