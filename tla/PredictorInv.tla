---------------------------- MODULE PredictorInv ----------------------------
(***************************************************************************)
(* The inductive invariant of a predictor in use: what the invariants of   *)
(* PredictorProps rest on, from one cycle to the next.                     *)
(***************************************************************************)
EXTENDS PredictorProps

\* A jump always misses, and fetch follows the script up to the first item
\* that misses: what is behind a jump is on a wrong path and no jump.
OneJump(s) == \A j, k \in DOMAIN s : s[j].jump /\ s[k].jump => j = k

\* How many branches there are among the first k items in flight.
Rank(s, k) == IF \E j \in 1 .. k : s[j].jump THEN k - 1 ELSE k

\* The checkpoints are those of the branches in flight, oldest first.
Aligned(checkpoints, s) ==
  /\ Len(checkpoints) = Rank(s, Len(s))
  /\ \A k \in DOMAIN s : ~s[k].jump =>
       LET c == checkpoints[Rank(s, k)]
       IN  c.token = s[k].context /\ c.pc = s[k].pc /\ c.final_prediction = s[k].taken

\* Up to the first miss, what is in flight is what the program executes.
FollowsScript ==
  \A k \in DOMAIN inflight :
    (\A j \in 1 .. k - 1 : ~Missed(j)) =>
      inflight[k].pc = At(k).pc /\ inflight[k].jump = At(k).jump

\* The context of a prediction of the tables is the index it was made with.
ContextsFit ==
  \A k \in DOMAIN inflight : ~inflight[k].jump =>
    LET index == GshareIndex(inflight[k].seen, inflight[k].pc)
    IN  /\ kind = "gshare" => inflight[k].context = index
        /\ kind = "tournament" => ContextIndex(inflight[k].context) = index

\* Every branch in flight has its checkpoint, its history and, if it is on the
\* path of the program, its place in it, and the entry that provided its
\* prediction: what commit takes from the front of each queue belongs to one
\* branch (branchpred.cpp:515-531), whatever was squashed before.
PredictorInvariant ==
  /\ PredictorTypeOK /\ PredictorNeverAsserts
  /\ OneJump(inflight)
  /\ kind = "tage" => Aligned(p.checkpoints, inflight)
  /\ SpeculationIsAChain /\ ProvidersStayInPlace
  /\ FollowsScript /\ ContextsFit
============================================================================
