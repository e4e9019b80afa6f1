--------------------------- MODULE InOrderGshare ---------------------------
(***************************************************************************)
(* What gshare is meant to learn: a gshare that executes the program       *)
(* itself, one branch after the other, and has no speculation, squashes or *)
(* clock.                                                                  *)
(***************************************************************************)
EXTENDS TablePredictors

VARIABLES script, place, ghr, pht

Init ==
  /\ script # << >>
  /\ place = 0
  /\ ghr = 0
  /\ pht = [h \in Histories |-> 1]

Jump ==
  /\ script[place + 1].jump
  /\ UNCHANGED <<ghr, pht>>

Learn ==
  /\ ~script[place + 1].jump
  /\ LET b == script[place + 1]
     IN  /\ pht' = [pht EXCEPT ![GshareIndex(ghr, b.pc)] = Trained(@, b.taken)]
         /\ ghr' = GsharePush(ghr, b.taken)

Next ==
  /\ Jump \/ Learn
  /\ place' = (place + 1) % Len(script)
  /\ UNCHANGED script

Spec == Init /\ [][Next]_<<script, place, ghr, pht>>
============================================================================
