---------------------------- MODULE MCPredictors ----------------------------
(* Two branches that share a bimodal counter; tables small enough to fill. *)
EXTENDS PredictorInv

MCPCs == {4, 12}
MCLengths == [t \in Tables |-> t + 2]
MCWidths == [t \in Tables |-> 3]

Branch(pc, taken) == [pc |-> pc, jump |-> FALSE, taken |-> taken]
Jump(pc) == [pc |-> pc, jump |-> TRUE, taken |-> TRUE]

\* One branch alone, in every repeating pattern of up to four outcomes.
Loop(outcomes) == [k \in DOMAIN outcomes |-> Branch(4, outcomes[k])]
Alone == {Loop(<<TRUE>>), Loop(<<FALSE>>), Loop(<<TRUE, FALSE>>),
          Loop(<<TRUE, TRUE, FALSE>>), Loop(<<TRUE, FALSE, FALSE>>),
          Loop(<<TRUE, TRUE, TRUE, FALSE>>), Loop(<<TRUE, TRUE, FALSE, FALSE>>),
          Loop(<<TRUE, FALSE, FALSE, FALSE>>)}

\* Two branches with opposite outcomes on one counter; a loop with a call that
\* returns; one whose branches contend for the tagged entries.
Together == {<<Branch(4, TRUE), Branch(12, FALSE)>>,
             <<Branch(4, TRUE), Jump(12), Branch(4, FALSE)>>}
Contending == <<Branch(4, TRUE), Branch(12, TRUE), Branch(4, FALSE), Branch(4, FALSE),
                Branch(12, FALSE)>>

MCScripts == Alone \cup Together \cup {Contending}
============================================================================
