----------------------------- MODULE Predictors -----------------------------
(***************************************************************************)
(* A branch predictor in use, whichever implementation of the interface    *)
(* BranchPredictor (src/include/tomasulo/branchpred.hpp) it is.            *)
(*                                                                         *)
(* One step is one cycle of cpu.cpp as the predictor sees it: fetch may    *)
(* ask for the direction of a branch; commit may report the outcome of the *)
(* oldest branch in flight; if that one was mispredicted, everything in    *)
(* flight is squashed; the clock ends the cycle.                           *)
(*                                                                         *)
(* The program is a loop: a script of the branches that it executes again  *)
(* and again, with their outcomes.  Fetch follows the script as long as    *)
(* what is in flight is predicted right, and meets any branch on a wrong   *)
(* path.  A jump in a script is a JALR: it asks the predictor nothing, and *)
(* always misses, as fetch goes on behind it (cpu.cpp:377-379).            *)
(***************************************************************************)
EXTENDS Tage

CONSTANTS
  Kinds,          \* the implementations of this instance
  PCs,            \* addresses of the branches of the program
  Scripts,        \* the loops the program may be
  MaxInFlight     \* branches between fetch and commit: the reorder buffer and one fetched

AllKinds == {"naive", "bimodal", "gshare", "tournament", "tage"}
Item == [pc: PCs, jump: BOOLEAN, taken: BOOLEAN]
Nothing == [pc |-> -1, jump |-> FALSE, taken |-> FALSE]

ASSUME PredictorsAssumption ==
  /\ Kinds \subseteq AllKinds
  /\ PCs \subseteq Word
  /\ Scripts \subseteq Seq(Item) \ {<< >>}
  /\ MaxInFlight \in 1 .. MaxToken

VARIABLES
  kind,           \* which implementation bp points to
  p,              \* its state
  script,
  done,           \* what has committed, modulo the length of the script
  inflight,       \* branches and jumps fetched and not committed, oldest first
  mispredicted,   \* the one that committed in this cycle was
  failed          \* an assertion or an exception ended the process

vars == <<kind, p, script, done, inflight, mispredicted, failed>>

\* The history a prediction is made with, and the one of what has committed.
SpeculativeOf(k, s) ==
  CASE k = "gshare" -> s.speculative_ghr
    [] k = "tournament" -> s.gp.speculative_ghr
    [] k = "tage" -> s.speculative_history
    [] OTHER -> 0

CommittedOf(k, s) ==
  CASE k = "gshare" -> s.committed_ghr
    [] k = "tournament" -> s.gp.committed_ghr
    [] k = "tage" -> s.committed_history
    [] OTHER -> 0

PushOf(k, h, taken, pc) ==
  CASE k \in {"gshare", "tournament"} -> GsharePush(h, taken)
    [] k = "tage" -> HistoryPush(h, taken, pc)
    [] OTHER -> 0

HistoriesOf(k) ==
  CASE k \in {"gshare", "tournament"} -> Histories
    [] k = "tage" -> History
    [] OTHER -> {0}

\* seen is not in the code: the history the branch was predicted with.
InFlight == [pc: PCs, jump: BOOLEAN, taken: BOOLEAN, context: Nat, seen: HistoriesOf(kind)]

Init ==
  /\ kind \in Kinds
  /\ p = CASE kind = "naive" -> << >>
           [] kind = "bimodal" -> BimodalInit
           [] kind = "gshare" -> GshareInit
           [] kind = "tournament" -> TournamentInit
           [] kind = "tage" -> TageInit
  /\ script \in Scripts
  /\ done = 0
  /\ inflight = << >>
  /\ mispredicted = FALSE
  /\ failed = FALSE

----------------------------------------------------------------------------
(* The calls of the interface, dispatched                                  *)

\* What predict returns, and the state it leaves.
Prediction(n, pc) ==
  CASE kind = "naive" -> [taken |-> FALSE, context |-> 0]
    [] kind = "bimodal" -> BimodalPredict(p, pc)
    [] kind = "gshare" -> GshareLookup(p, n, pc)
    [] kind = "tournament" -> TournamentPredict(p, n, pc)
    [] kind = "tage" -> LET c == TageLookup(p, n, pc)
                        IN  [taken |-> c.final_prediction, context |-> c.token]

Predict(n, pc) ==
  CASE kind \in {"naive", "bimodal"} -> n
    [] kind = "gshare" -> GshareSpeculate(n, GshareLookup(p, n, pc).taken)
    [] kind = "tournament" -> TournamentSpeculate(n, TournamentPredict(p, n, pc))
    [] kind = "tage" -> TagePredict(p, n, pc)

PredictorUpdate(n, b, taken, pick) ==
  CASE kind = "naive" -> n
    [] kind = "bimodal" -> BimodalUpdate(n, b.pc, taken)
    [] kind = "gshare" -> GshareUpdate(n, b.context, taken)
    [] kind = "tournament" -> TournamentUpdate(n, b.pc, b.context, taken)
    [] kind = "tage" -> IF TageUpdateAsserts(n, b.pc, b.context)
                        THEN TageUpdate(p, n, taken, pick) ELSE n

PredictorRecover(n) ==
  CASE kind \in {"naive", "bimodal"} -> n
    [] kind = "gshare" -> GshareRecover(n)
    [] kind = "tournament" -> TournamentRecover(n)
    [] kind = "tage" -> TageRecover(n)

----------------------------------------------------------------------------
(* What the program executes                                               *)

\* The k-th item that has not committed, if nothing goes wrong.
At(k) == script[((done + k - 1) % Len(script)) + 1]

Missed(k) == inflight[k].jump \/ inflight[k].taken # At(k).taken

OnRightPath == \A k \in DOMAIN inflight : ~Missed(k)

Fetchable ==
  IF Len(inflight) = MaxInFlight THEN {Nothing}
  ELSE IF OnRightPath THEN {At(Len(inflight) + 1), Nothing}
  ELSE {[pc |-> pc, jump |-> FALSE, taken |-> FALSE] : pc \in PCs} \cup {Nothing}

----------------------------------------------------------------------------
(* A cycle: the predictor and what is in flight, [p, inflight]             *)

Current == [p |-> p, inflight |-> inflight]

\* item is fetched, and predicted as b says.
Fetched(n, item, b) ==
  [p |-> IF item.jump THEN n.p ELSE Predict(n.p, item.pc),
   inflight |-> Append(n.inflight,
     [pc |-> item.pc, jump |-> item.jump, taken |-> b.taken, context |-> b.context,
      seen |-> SpeculativeOf(kind, n.p)])]

Fetch(n, item) ==
  IF item = Nothing THEN n
  ELSE Fetched(n, item, IF item.jump THEN [taken |-> FALSE, context |-> 0]
                                     ELSE Prediction(n.p, item.pc))

\* The tables TAGE may allocate in when the oldest branch commits.
PicksNow ==
  IF kind = "tage" /\ p.checkpoints # << >> /\ ~Head(inflight).jump
  THEN Picks(p, Head(p.checkpoints), At(1).taken) ELSE {-1}

Commit(n, pick) ==
  LET b == Head(inflight)
  IN  [p |-> IF b.jump THEN n.p ELSE PredictorUpdate(n.p, b, At(1).taken, pick),
       inflight |-> Tail(n.inflight)]

Squash(n) == [p |-> PredictorRecover(n.p), inflight |-> << >>]

Clock(n) ==
  /\ p' = IF kind = "tage" THEN TageClock(n.p) ELSE n.p
  /\ inflight' = n.inflight

CycleWithoutCommit ==
  /\ ~failed
  /\ \E item \in Fetchable : Clock(Fetch(Current, item))
  /\ mispredicted' = FALSE
  /\ UNCHANGED <<kind, script, done, failed>>

\* The oldest in flight commits; fetch() comes before commit() in the cycle.
CycleWithCommit ==
  /\ ~failed
  /\ inflight # << >>
  /\ \E item \in Fetchable, pick \in PicksNow :
       LET committed == Commit(Fetch(Current, item), pick)
           b == Head(inflight)
       IN  /\ Clock(IF Missed(1) THEN Squash(committed) ELSE committed)
           /\ failed' = (kind = "tage" /\ ~b.jump /\
                          ~(TageUpdateAsserts(p, b.pc, b.context) /\ PendingFits(committed.p)))
  /\ mispredicted' = (Missed(1) /\ ~Head(inflight).jump)
  /\ done' = (done + 1) % Len(script)
  /\ UNCHANGED <<kind, script>>

Next == CycleWithoutCommit \/ CycleWithCommit

\* cycle() is called again and again; when a branch commits is not up to the
\* predictor, and nothing is assumed about it.
Spec == Init /\ [][Next]_vars
============================================================================
