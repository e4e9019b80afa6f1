--------------------------- MODULE PredictorProofs ---------------------------
(***************************************************************************)
(* A predictor in use keeps its inductive invariant, and what follows, for *)
(* every kind, every loop and every size of its tables and histories.      *)
(*                                                                         *)
(* The invariant is stated of a predictor and of what is in flight between *)
(* two calls (Between); FetchEffect, RightCommit, SquashEffect and         *)
(* ClockIdle carry it through the calls of a cycle.                        *)
(***************************************************************************)
EXTENDS PredictorInv, PredictorCallProofs

----------------------------------------------------------------------------
(* The calls of the interface, whichever predictor it is                   *)

\* The predictors of a kind, between two cycles.
PredictorOf(k) ==
  CASE k = "naive" -> {<< >>}
    [] k = "bimodal" -> Bimodal
    [] k = "gshare" -> Gshare
    [] k = "tournament" -> Tournament
    [] k = "tage" -> TagePredictor

\* In the middle of a cycle.
MidPredictorOf(k) == IF k = "tage" THEN MidTage ELSE PredictorOf(k)

\* The predictors by their kinds.
LEMMA PredictorKinds ==
  /\ PredictorOf("naive") = {<< >>} /\ PredictorOf("bimodal") = Bimodal
  /\ PredictorOf("gshare") = Gshare /\ PredictorOf("tournament") = Tournament
  /\ PredictorOf("tage") = TagePredictor
BY DEF PredictorOf

\* The histories by the kinds of the predictors.
LEMMA HistoryKinds ==
  /\ \A s : SpeculativeOf("naive", s) = 0 /\ SpeculativeOf("bimodal", s) = 0
  /\ \A s : CommittedOf("naive", s) = 0 /\ CommittedOf("bimodal", s) = 0
  /\ \A h, taken, pc : PushOf("naive", h, taken, pc) = 0 /\ PushOf("bimodal", h, taken, pc) = 0
  /\ \A s : SpeculativeOf("gshare", s) = s.speculative_ghr
            /\ CommittedOf("gshare", s) = s.committed_ghr
  /\ \A s : SpeculativeOf("tournament", s) = s.gp.speculative_ghr
            /\ CommittedOf("tournament", s) = s.gp.committed_ghr
  /\ \A h, taken, pc : PushOf("gshare", h, taken, pc) = GsharePush(h, taken)
                       /\ PushOf("tournament", h, taken, pc) = GsharePush(h, taken)
  /\ \A s : SpeculativeOf("tage", s) = s.speculative_history
            /\ CommittedOf("tage", s) = s.committed_history
  /\ \A h, taken, pc : PushOf("tage", h, taken, pc) = HistoryPush(h, taken, pc)
  /\ HistoriesOf("naive") = {0} /\ HistoriesOf("bimodal") = {0}
  /\ HistoriesOf("gshare") = Histories /\ HistoriesOf("tournament") = Histories
  /\ HistoriesOf("tage") = History
BY DEF SpeculativeOf, CommittedOf, PushOf, HistoriesOf

\* Both histories are histories, in the middle of a cycle too.
LEMMA HistoriesType ==
  ASSUME NEW k \in AllKinds, NEW n \in MidPredictorOf(k)
  PROVE  SpeculativeOf(k, n) \in HistoriesOf(k) /\ CommittedOf(k, n) \in HistoriesOf(k)
<1>1. CASE k \in {"naive", "bimodal"}
  BY <1>1, HistoryKinds
<1>2. CASE k = "gshare"
  <2>1. n \in Gshare
    BY <1>2, PredictorKinds DEF MidPredictorOf
  <2>2. n.speculative_ghr \in Histories /\ n.committed_ghr \in Histories
    BY <2>1 DEF Gshare
  <2> QED BY <1>2, <2>2, HistoryKinds
<1>3. CASE k = "tournament"
  <2>1. n \in Tournament
    BY <1>3, PredictorKinds DEF MidPredictorOf
  <2>2. n.gp.speculative_ghr \in Histories /\ n.gp.committed_ghr \in Histories
    BY <2>1, TournamentParts DEF Gshare
  <2> QED BY <1>3, <2>2, HistoryKinds
<1>4. CASE k = "tage"
  BY <1>4, HistoryKinds DEF MidPredictorOf, MidTage
<1> QED BY <1>1, <1>2, <1>3, <1>4 DEF AllKinds

\* What a prediction records of itself, by kind.
RightContext(k, context, history, pc) ==
  /\ k = "gshare" => context = GshareIndex(history, pc)
  /\ k = "tournament" => ContextIndex(context) = GshareIndex(history, pc)

\* A prediction: the speculative history takes its direction, all that is
\* committed stays.
LEMMA PredictEffect ==
  ASSUME kind \in AllKinds, p \in PredictorOf(kind), NEW n \in PredictorOf(kind),
         kind = "tage" => n = p /\ Len(p.checkpoints) < MaxToken,
         NEW pc \in Word
  PROVE  LET b == Prediction(n, pc)
             m == Predict(n, pc)
         IN  /\ b.taken \in BOOLEAN /\ b.context \in Nat
             /\ m \in PredictorOf(kind)
             /\ SpeculativeOf(kind, m) = PushOf(kind, SpeculativeOf(kind, n), b.taken, pc)
             /\ CommittedOf(kind, m) = CommittedOf(kind, n)
             /\ RightContext(kind, b.context, SpeculativeOf(kind, n), pc)
<1>1. CASE kind = "naive"
  <2>1. /\ Prediction(n, pc) = [taken |-> FALSE, context |-> 0]
        /\ Predict(n, pc) = n
    BY <1>1 DEF Prediction, Predict
  <2>2. /\ Prediction(n, pc).taken \in BOOLEAN /\ Prediction(n, pc).context \in Nat
        /\ Predict(n, pc) \in PredictorOf(kind)
    BY <2>1
  <2>3. \A context, h : RightContext(kind, context, h, pc)
    BY <1>1 DEF RightContext
  <2>4. \A s, h, taken : SpeculativeOf(kind, s) = PushOf(kind, h, taken, pc)
    BY <1>1, HistoryKinds
  <2> QED BY <2>1, <2>2, <2>3, <2>4
<1>2. CASE kind = "bimodal"
  <2>1. Prediction(n, pc) = BimodalPredict(p, pc) /\ Predict(n, pc) = n
    BY <1>2 DEF Prediction, Predict
  <2>2. BimodalPredict(p, pc).taken \in BOOLEAN /\ BimodalPredict(p, pc).context = 0
    BY DEF BimodalPredict, Taken
  <2> QED BY <1>2, <2>1, <2>2, HistoryKinds DEF RightContext
<1>3. CASE kind = "gshare"
  <2> DEFINE b == GshareLookup(p, n, pc)
  <2>1. Prediction(n, pc) = b /\ Predict(n, pc) = GshareSpeculate(n, b.taken)
    BY <1>3 DEF Prediction, Predict
  <2>2. n \in Gshare
    BY <1>3, PredictorKinds
  <2>3. /\ b.taken \in BOOLEAN /\ b.context = GshareIndex(n.speculative_ghr, pc)
        /\ b.context \in Histories
    BY <2>2, GshareLookupType
  <2> HIDE DEF b
  <2>4. /\ GshareSpeculate(n, b.taken) \in Gshare
        /\ GshareSpeculate(n, b.taken).committed_ghr = n.committed_ghr
        /\ GshareSpeculate(n, b.taken).speculative_ghr = GsharePush(n.speculative_ghr, b.taken)
    BY <2>2, <2>3, GshareSpeculateType
  <2>5. b.context \in Nat
    BY <2>3, TablePredictorsAssumption DEF Histories
  <2> QED BY <1>3, <2>1, <2>3, <2>4, <2>5, HistoryKinds, PredictorKinds DEF RightContext
<1>4. CASE kind = "tournament"
  <2> DEFINE b == TournamentPredict(p, n, pc)
  <2>1. Prediction(n, pc) = b /\ Predict(n, pc) = TournamentSpeculate(n, b)
    BY <1>4 DEF Prediction, Predict
  <2>2. p \in Tournament /\ n \in Tournament
    BY <1>4, PredictorKinds
  <2>3. /\ b.taken \in BOOLEAN /\ b.context \in Nat
        /\ ContextIndex(b.context) = GshareIndex(n.gp.speculative_ghr, pc)
    BY <2>2, TournamentPredictType
  <2> HIDE DEF b
  <2>4. /\ TournamentSpeculate(n, b) \in Tournament
        /\ TournamentSpeculate(n, b).gp = GshareSpeculate(n.gp, b.taken)
    BY <2>2, <2>3, TournamentSpeculateType
  <2>5. n.gp \in Gshare
    BY <2>2, TournamentParts
  <2>6. /\ GshareSpeculate(n.gp, b.taken).committed_ghr = n.gp.committed_ghr
        /\ GshareSpeculate(n.gp, b.taken).speculative_ghr
             = GsharePush(n.gp.speculative_ghr, b.taken)
    BY <2>3, <2>5, GshareSpeculateType
  <2> QED BY <1>4, <2>1, <2>3, <2>4, <2>6, HistoryKinds, PredictorKinds DEF RightContext
<1>5. CASE kind = "tage"
  <2> DEFINE c == TageLookup(p, n, pc)
             m == TagePredict(p, n, pc)
  <2>1. /\ Prediction(n, pc).taken = c.final_prediction /\ Prediction(n, pc).context = c.token
        /\ Predict(n, pc) = m
    BY <1>5 DEF Prediction, Predict
  <2>2. n = p /\ n \in TagePredictor /\ Len(n.checkpoints) < MaxToken
    BY <1>5, PredictorKinds
  <2>3. c \in TageCheckpoint
    BY <2>2, TageIsMid, LookupType
  <2>4. c.final_prediction \in BOOLEAN /\ c.token \in Nat
    <3> HIDE DEF c
    <3> QED BY <2>3, MaxTokenAssumption DEF TageCheckpoint, Tokens
  <2>5. /\ m \in TagePredictor
        /\ m.speculative_history = HistoryPush(n.speculative_history, c.final_prediction, pc)
        /\ m.committed_history = n.committed_history
    BY <2>2, TagePredictEffect
  <2> HIDE DEF c, m
  <2> QED BY <1>5, <2>1, <2>4, <2>5, HistoryKinds, PredictorKinds DEF RightContext
<1> QED BY <1>1, <1>2, <1>3, <1>4, <1>5 DEF AllKinds

\* An update: the committed history takes the outcome, the speculative stays.
LEMMA UpdateEffect ==
  ASSUME kind \in AllKinds, p \in PredictorOf(kind), NEW n \in PredictorOf(kind),
         NEW b, b.pc \in Word, b.context \in Nat,
         kind = "gshare" => b.context \in Histories,
         NEW taken \in BOOLEAN, NEW pick,
         kind = "tage" => /\ TageUpdateAsserts(n, b.pc, b.context)
                          /\ pick \in Picks(p, Head(n.checkpoints), taken)
  PROVE  /\ PredictorUpdate(n, b, taken, pick) \in MidPredictorOf(kind)
         /\ SpeculativeOf(kind, PredictorUpdate(n, b, taken, pick)) = SpeculativeOf(kind, n)
         /\ CommittedOf(kind, PredictorUpdate(n, b, taken, pick))
              = PushOf(kind, CommittedOf(kind, n), taken, b.pc)
<1> DEFINE m == PredictorUpdate(n, b, taken, pick)
<1>1. CASE kind = "naive"
  <2>1. m = n
    BY <1>1 DEF PredictorUpdate
  <2> QED BY <1>1, <2>1, HistoryKinds DEF MidPredictorOf
<1>2. CASE kind = "bimodal"
  <2>1. m = BimodalUpdate(n, b.pc, taken)
    BY <1>2 DEF PredictorUpdate
  <2>2. n \in Bimodal
    BY <1>2, PredictorKinds
  <2>3. m \in Bimodal
    BY <2>1, <2>2, BimodalUpdateType
  <2> HIDE DEF m
  <2>4. m \in MidPredictorOf(kind)
    BY <1>2, <2>3, PredictorKinds DEF MidPredictorOf
  <2>5. \A s, h : SpeculativeOf(kind, s) = 0 /\ CommittedOf(kind, s) = 0
                  /\ PushOf(kind, h, taken, b.pc) = 0
    BY <1>2, HistoryKinds
  <2> QED BY <2>4, <2>5 DEF m
<1>3. CASE kind = "gshare"
  <2>1. m = GshareUpdate(n, b.context, taken)
    BY <1>3 DEF PredictorUpdate
  <2>2. n \in Gshare /\ b.context \in Histories
    BY <1>3, PredictorKinds
  <2>3. /\ m \in Gshare /\ m.committed_ghr = GsharePush(n.committed_ghr, taken)
        /\ m.speculative_ghr = n.speculative_ghr
    BY <2>1, <2>2, GshareUpdateType
  <2> HIDE DEF m
  <2> QED BY <1>3, <2>3, HistoryKinds, PredictorKinds DEF MidPredictorOf, m
<1>4. CASE kind = "tournament"
  <2>1. m = TournamentUpdate(n, b.pc, b.context, taken)
    BY <1>4 DEF PredictorUpdate
  <2>2. n \in Tournament
    BY <1>4, PredictorKinds
  <2>3. m \in Tournament /\ m.gp = GshareUpdate(n.gp, ContextIndex(b.context), taken)
    BY <2>1, <2>2, TournamentUpdateType
  <2>4. n.gp \in Gshare /\ ContextIndex(b.context) \in Histories
    <3>1. n.gp \in Gshare
      BY <2>2, TournamentParts
    <3>2. ContextIndex(b.context) \in Histories
      BY TablePredictorsAssumption DEF ContextIndex, Histories
    <3> QED BY <3>1, <3>2
  <2>5. /\ m.gp.committed_ghr = GsharePush(n.gp.committed_ghr, taken)
        /\ m.gp.speculative_ghr = n.gp.speculative_ghr
    <3> HIDE DEF m
    <3> QED BY <2>3, <2>4, GshareUpdateType
  <2> HIDE DEF m
  <2> QED BY <1>4, <2>3, <2>5, HistoryKinds, PredictorKinds DEF MidPredictorOf, m
<1>5. CASE kind = "tage"
  <2>1. /\ n.checkpoints # << >> /\ Head(n.checkpoints).pc = b.pc
        /\ pick \in Picks(p, Head(n.checkpoints), taken)
    BY <1>5 DEF TageUpdateAsserts
  <2>2. m = TageUpdate(p, n, taken, pick)
    BY <1>5 DEF PredictorUpdate
  <2>3. p \in TagePredictor /\ n \in TagePredictor
    BY <1>5, PredictorKinds
  <2>4. /\ m \in MidTage /\ m.speculative_history = n.speculative_history
        /\ m.committed_history = HistoryPush(n.committed_history, taken, b.pc)
    BY <2>1, <2>2, <2>3, TageUpdateEffect
  <2> HIDE DEF m
  <2> QED BY <1>5, <2>4, HistoryKinds DEF MidPredictorOf, m
<1> QED BY <1>1, <1>2, <1>3, <1>4, <1>5 DEF AllKinds

\* A squash: the speculative history becomes the committed one.
LEMMA RecoverEffect ==
  ASSUME kind \in AllKinds, NEW n \in MidPredictorOf(kind)
  PROVE  /\ PredictorRecover(n) \in MidPredictorOf(kind)
         /\ SpeculativeOf(kind, PredictorRecover(n)) = CommittedOf(kind, n)
         /\ CommittedOf(kind, PredictorRecover(n)) = CommittedOf(kind, n)
<1> DEFINE m == PredictorRecover(n)
<1>1. CASE kind \in {"naive", "bimodal"}
  <2>1. m = n
    BY <1>1 DEF PredictorRecover
  <2>2. \A s : SpeculativeOf(kind, s) = 0 /\ CommittedOf(kind, s) = 0
    BY <1>1, HistoryKinds
  <2> QED BY <2>1, <2>2
<1>2. CASE kind = "gshare"
  <2>1. m = GshareRecover(n) /\ n \in Gshare
    BY <1>2, PredictorKinds DEF PredictorRecover, MidPredictorOf
  <2>2. m \in Gshare /\ m.committed_ghr = n.committed_ghr /\ m.speculative_ghr = n.committed_ghr
    BY <2>1, GshareRecoverType
  <2> HIDE DEF m
  <2> QED BY <1>2, <2>2, HistoryKinds, PredictorKinds DEF MidPredictorOf, m
<1>3. CASE kind = "tournament"
  <2>1. m = TournamentRecover(n) /\ n \in Tournament
    BY <1>3, PredictorKinds DEF PredictorRecover, MidPredictorOf
  <2>2. m \in Tournament /\ m.gp = GshareRecover(n.gp) /\ n.gp \in Gshare
    BY <2>1, TournamentRecoverType, TournamentParts
  <2>3. /\ m.gp.committed_ghr = n.gp.committed_ghr /\ m.gp.speculative_ghr = n.gp.committed_ghr
    <3> HIDE DEF m
    <3> QED BY <2>2, GshareRecoverType
  <2> HIDE DEF m
  <2> QED BY <1>3, <2>2, <2>3, HistoryKinds, PredictorKinds DEF MidPredictorOf, m
<1>4. CASE kind = "tage"
  <2>1. m = TageRecover(n) /\ n \in MidTage
    BY <1>4 DEF PredictorRecover, MidPredictorOf
  <2>2. /\ m \in MidTage /\ m.speculative_history = n.committed_history
        /\ m.committed_history = n.committed_history
    BY <2>1, TageRecoverEffect
  <2> HIDE DEF m
  <2> QED BY <1>4, <2>2, HistoryKinds DEF MidPredictorOf, m
<1> QED BY <1>1, <1>2, <1>3, <1>4 DEF AllKinds

\* The clock, of whichever kind.
Clocked(n) == IF kind = "tage" THEN TageClock(n) ELSE n

\* The clock changes no history.
LEMMA ClockEffect ==
  ASSUME kind \in AllKinds, NEW n \in MidPredictorOf(kind)
  PROVE  /\ Clocked(n) \in PredictorOf(kind)
         /\ SpeculativeOf(kind, Clocked(n)) = SpeculativeOf(kind, n)
         /\ CommittedOf(kind, Clocked(n)) = CommittedOf(kind, n)
<1>1. CASE kind = "tage"
  <2> DEFINE m == TageClock(n)
  <2>1. Clocked(n) = m /\ n \in MidTage
    BY <1>1 DEF Clocked, MidPredictorOf
  <2>2. /\ m \in TagePredictor /\ m.speculative_history = n.speculative_history
        /\ m.committed_history = n.committed_history
    BY <2>1, TageClockEffect
  <2> HIDE DEF m
  <2> QED BY <1>1, <2>1, <2>2, HistoryKinds, PredictorKinds
<1>2. CASE kind # "tage"
  BY <1>2 DEF Clocked, MidPredictorOf
<1> QED BY <1>1, <1>2

\* Between two cycles a predictor is as it may be in the middle of one.
LEMMA PredictorIsMid ==
  ASSUME NEW k \in AllKinds, NEW n \in PredictorOf(k)
  PROVE  n \in MidPredictorOf(k)
<1>1. CASE k = "tage"
  BY <1>1, PredictorKinds, TageIsMid DEF MidPredictorOf
<1>2. CASE k # "tage"
  BY <1>2 DEF MidPredictorOf
<1> QED BY <1>1, <1>2

----------------------------------------------------------------------------
(* What is in flight, and its checkpoints                                  *)

\* The parts of a sequence with an element more.
LEMMA AppendParts ==
  ASSUME NEW S, NEW s \in Seq(S), NEW e \in S
  PROVE  /\ Append(s, e) \in Seq(S) /\ Len(Append(s, e)) = Len(s) + 1
         /\ DOMAIN Append(s, e) = 1 .. Len(s) + 1
         /\ \A k \in 1 .. Len(s) : Append(s, e)[k] = s[k]
         /\ Append(s, e)[Len(s) + 1] = e
BY AppendProperties, LenProperties

\* The parts of a sequence without its first element.
LEMMA TailParts ==
  ASSUME NEW S, NEW s \in Seq(S), s # << >>
  PROVE  /\ Tail(s) \in Seq(S) /\ Len(s) \in Nat \ {0} /\ Len(Tail(s)) = Len(s) - 1
         /\ DOMAIN Tail(s) = 1 .. Len(s) - 1
         /\ \A k \in 1 .. Len(s) - 1 : Tail(s)[k] = s[k + 1]
         /\ Head(s) = s[1] /\ s[1] \in S
<1>1. Len(s) \in Nat \ {0} /\ DOMAIN s = 1 .. Len(s)
  BY EmptySeq, LenProperties
<1> QED BY <1>1, HeadTailProperties, LenProperties, ElementOfSeq

\* A branch in flight has a rank of its own.
LEMMA RankIs ==
  ASSUME NEW S, NEW s \in Seq(S), NEW k \in 0 .. Len(s)
  PROVE  /\ Rank(s, k) \in {k - 1, k}
         /\ (\E j \in 1 .. k : s[j].jump) => Rank(s, k) = k - 1
         /\ (\A j \in 1 .. k : ~s[j].jump) => Rank(s, k) = k
BY DEF Rank

\* There are no more checkpoints than items in flight.
LEMMA AlignedFits ==
  ASSUME NEW C, NEW cps \in Seq(C), NEW S, NEW s \in Seq(S), Aligned(cps, s)
  PROVE  Len(cps) <= Len(s)
<1>1. Len(s) \in Nat /\ Len(cps) = Rank(s, Len(s))
  BY LenProperties DEF Aligned
<1>2. Rank(s, Len(s)) \in {Len(s) - 1, Len(s)}
  BY <1>1, RankIs
<1> QED BY <1>1, <1>2

\* What is before an item does not change its rank.
LEMMA RankAppend ==
  ASSUME NEW S, NEW s \in Seq(S), NEW e \in S, NEW k \in 0 .. Len(s)
  PROVE  Rank(Append(s, e), k) = Rank(s, k)
<1>1. \A j \in 1 .. k : Append(s, e)[j] = s[j]
  BY AppendParts, LenProperties
<1>2. (\E j \in 1 .. k : Append(s, e)[j].jump) <=> (\E j \in 1 .. k : s[j].jump)
  BY <1>1
<1> QED BY <1>2 DEF Rank

\* A branch that is fetched gets the next checkpoint.
LEMMA AlignedAppend ==
  ASSUME NEW C, NEW cps \in Seq(C), NEW c \in C, NEW S, NEW s \in Seq(S), NEW e \in S,
         Aligned(cps, s), ~e.jump,
         c.token = e.context, c.pc = e.pc, c.final_prediction = e.taken
  PROVE  Aligned(Append(cps, c), Append(s, e))
<1> DEFINE n == Len(s)
           t == Append(s, e)
<1>1. /\ t \in Seq(S) /\ Len(t) = n + 1 /\ DOMAIN t = 1 .. n + 1 /\ t[n + 1] = e /\ n \in Nat
      /\ \A k \in 1 .. n : t[k] = s[k]
  BY AppendParts, LenProperties
<1>2. /\ Len(Append(cps, c)) = Len(cps) + 1 /\ Append(cps, c)[Len(cps) + 1] = c
      /\ \A k \in 1 .. Len(cps) : Append(cps, c)[k] = cps[k]
      /\ Len(cps) \in Nat
  BY AppendParts, LenProperties
<1>3. DOMAIN s = 1 .. n /\ Len(cps) = Rank(s, n)
  BY LenProperties DEF Aligned
<1>4. \A k \in 0 .. n : Rank(t, k) = Rank(s, k)
  BY RankAppend
<1> HIDE DEF t
<1>5. Rank(t, n + 1) = Len(cps) + 1
  <2>1. CASE \E j \in 1 .. n : s[j].jump
    <3>1. PICK j \in 1 .. n : s[j].jump
      BY <2>1
    <3>2. j \in 1 .. n + 1 /\ t[j].jump
      BY <1>1, <3>1
    <3>3. Rank(t, n + 1) = (n + 1) - 1
      BY <3>2 DEF Rank
    <3>4. Rank(s, n) = n - 1
      BY <2>1 DEF Rank
    <3> QED BY <1>1, <1>3, <3>3, <3>4
  <2>2. CASE \A j \in 1 .. n : ~s[j].jump
    <3>1. \A j \in 1 .. n + 1 : ~t[j].jump
      BY <1>1, <2>2
    <3>2. Rank(t, n + 1) = n + 1
      BY <3>1 DEF Rank
    <3>3. Rank(s, n) = n
      BY <2>2 DEF Rank
    <3> QED BY <1>3, <3>2, <3>3
  <2> QED BY <2>1, <2>2
<1>6. ASSUME NEW k \in DOMAIN t, ~t[k].jump
      PROVE  LET d == Append(cps, c)[Rank(t, k)]
             IN  d.token = t[k].context /\ d.pc = t[k].pc /\ d.final_prediction = t[k].taken
  <2>1. CASE k = n + 1
    BY <1>1, <1>2, <1>5, <2>1
  <2>2. CASE k \in 1 .. n
    <3>1. t[k] = s[k] /\ Rank(t, k) = Rank(s, k)
      BY <1>1, <1>4, <2>2
    <3>2. LET d == cps[Rank(s, k)]
          IN  d.token = s[k].context /\ d.pc = s[k].pc /\ d.final_prediction = s[k].taken
      BY <1>3, <1>6, <2>2, <3>1 DEF Aligned
    <3>3. Rank(s, k) \in 1 .. Len(cps)
      <4>1. CASE \E j \in 1 .. k : s[j].jump
        <5>1. Rank(s, k) = k - 1 /\ k # 1
          BY <1>6, <2>2, <3>1, <4>1 DEF Rank
        <5>2. Rank(s, n) = n - 1
          BY <1>1, <2>2, <4>1 DEF Rank
        <5> QED BY <1>1, <1>3, <2>2, <5>1, <5>2
      <4>2. CASE \A j \in 1 .. k : ~s[j].jump
        <5>1. Rank(s, k) = k
          BY <4>2 DEF Rank
        <5>2. Rank(s, n) = n \/ (Rank(s, n) = n - 1 /\ k # n)
          BY <1>1, <2>2, <4>2 DEF Rank
        <5> QED BY <1>1, <1>3, <2>2, <5>1, <5>2
      <4> QED BY <4>1, <4>2
    <3>4. Append(cps, c)[Rank(s, k)] = cps[Rank(s, k)]
      BY <1>2, <3>3
    <3>5. Append(cps, c)[Rank(t, k)] = cps[Rank(s, k)]
      BY <3>1, <3>4
    <3> QED BY <3>1, <3>2, <3>5
  <2>3. k = n + 1 \/ k \in 1 .. n
    BY <1>1
  <2> QED BY <2>1, <2>2, <2>3
<1> QED BY <1>1, <1>2, <1>5, <1>6 DEF Aligned, t

\* A jump gets none.
LEMMA AlignedJump ==
  ASSUME NEW C, NEW cps \in Seq(C), NEW S, NEW s \in Seq(S), NEW e \in S,
         Aligned(cps, s), e.jump, \A k \in 1 .. Len(s) : ~s[k].jump
  PROVE  Aligned(cps, Append(s, e))
<1> DEFINE n == Len(s)
           t == Append(s, e)
<1>1. /\ t \in Seq(S) /\ Len(t) = n + 1 /\ DOMAIN t = 1 .. n + 1 /\ t[n + 1] = e /\ n \in Nat
      /\ \A k \in 1 .. n : t[k] = s[k]
  BY AppendParts, LenProperties
<1>2. DOMAIN s = 1 .. n /\ Len(cps) = Rank(s, n) /\ Rank(s, n) = n
  BY LenProperties DEF Aligned, Rank
<1>3. \A k \in 0 .. n : Rank(t, k) = Rank(s, k)
  BY RankAppend
<1> HIDE DEF t
<1>4. Rank(t, n + 1) = n
  <2>1. t[n + 1].jump /\ n + 1 \in 1 .. n + 1
    BY <1>1
  <2> QED BY <1>1, <2>1 DEF Rank
<1>5. ASSUME NEW k \in DOMAIN t, ~t[k].jump
      PROVE  LET d == cps[Rank(t, k)]
             IN  d.token = t[k].context /\ d.pc = t[k].pc /\ d.final_prediction = t[k].taken
  <2>1. k \in 1 .. n
    BY <1>1, <1>5
  <2>2. t[k] = s[k] /\ Rank(t, k) = Rank(s, k)
    BY <1>1, <1>3, <2>1
  <2> QED BY <1>2, <1>5, <2>1, <2>2 DEF Aligned
<1> QED BY <1>1, <1>2, <1>4, <1>5 DEF Aligned, t

\* The oldest branch in flight has the oldest checkpoint, and leaves with it.
LEMMA AlignedTail ==
  ASSUME NEW C, NEW cps \in Seq(C), NEW S, NEW s \in Seq(S),
         Aligned(cps, s), s # << >>, ~s[1].jump
  PROVE  /\ cps # << >>
         /\ Head(cps).token = s[1].context /\ Head(cps).pc = s[1].pc
         /\ Head(cps).final_prediction = s[1].taken
         /\ Aligned(Tail(cps), Tail(s))
<1> DEFINE n == Len(s)
           t == Tail(s)
<1>1. /\ n \in Nat \ {0} /\ t \in Seq(S) /\ Len(t) = n - 1 /\ DOMAIN t = 1 .. n - 1
      /\ \A k \in 1 .. n - 1 : t[k] = s[k + 1]
  BY TailParts
<1>2. DOMAIN s = 1 .. n /\ Len(cps) = Rank(s, n) /\ Len(cps) \in Nat
  BY LenProperties DEF Aligned
<1>3. Rank(s, 1) = 1
  BY DEF Rank
<1>4. Rank(s, n) >= 1
  <2>1. CASE n = 1
    BY <1>3, <2>1
  <2>2. CASE n > 1
    BY <1>1, <2>2 DEF Rank
  <2> QED BY <1>1, <2>1, <2>2
<1>5. cps # << >>
  BY <1>2, <1>4
<1>6. /\ Head(cps) = cps[1] /\ Len(Tail(cps)) = Len(cps) - 1
      /\ \A k \in 1 .. Len(cps) - 1 : Tail(cps)[k] = cps[k + 1]
  BY <1>5, TailParts
<1>7. /\ cps[1].token = s[1].context /\ cps[1].pc = s[1].pc
      /\ cps[1].final_prediction = s[1].taken
  <2>1. 1 \in DOMAIN s
    BY <1>1, <1>2
  <2> QED BY <1>3, <2>1 DEF Aligned
<1> HIDE DEF t
<1>8. ASSUME NEW k \in 0 .. n - 1
      PROVE  Rank(t, k) = Rank(s, k + 1) - 1
  <2>1. (\E j \in 1 .. k : t[j].jump) <=> (\E j \in 1 .. k + 1 : s[j].jump)
    <3>1. ASSUME NEW j \in 1 .. k, t[j].jump PROVE \E i \in 1 .. k + 1 : s[i].jump
      <4>1. j + 1 \in 1 .. k + 1 /\ t[j] = s[j + 1]
        BY <1>1
      <4> QED BY <3>1, <4>1
    <3>2. ASSUME NEW i \in 1 .. k + 1, s[i].jump PROVE \E j \in 1 .. k : t[j].jump
      <4>1. i - 1 \in 1 .. k
        BY <3>2
      <4>2. t[i - 1] = s[i]
        BY <1>1, <4>1
      <4> QED BY <3>2, <4>1, <4>2
    <3> QED BY <3>1, <3>2
  <2> QED BY <2>1 DEF Rank
<1>9. ASSUME NEW k \in DOMAIN t, ~t[k].jump
      PROVE  LET d == Tail(cps)[Rank(t, k)]
             IN  d.token = t[k].context /\ d.pc = t[k].pc /\ d.final_prediction = t[k].taken
  <2>1. k \in 1 .. n - 1 /\ t[k] = s[k + 1] /\ k + 1 \in 1 .. n /\ ~s[k + 1].jump
    BY <1>1, <1>9
  <2>2. Rank(t, k) = Rank(s, k + 1) - 1
    BY <1>8, <2>1
  <2>3. LET d == cps[Rank(s, k + 1)]
        IN  d.token = s[k + 1].context /\ d.pc = s[k + 1].pc /\ d.final_prediction = s[k + 1].taken
    BY <1>2, <2>1 DEF Aligned
  <2>4. Rank(s, k + 1) - 1 \in 1 .. Len(cps) - 1
    <3>1. CASE \E j \in 1 .. k + 1 : s[j].jump
      <4>1. Rank(s, k + 1) = k /\ k # 1
        <5>1. Rank(s, k + 1) = k
          BY <2>1, <3>1 DEF Rank
        <5>2. k # 1
          BY <2>1, <3>1
        <5> QED BY <5>1, <5>2
      <4>2. Rank(s, n) = n - 1
        BY <1>1, <2>1, <3>1 DEF Rank
      <4> QED BY <1>1, <1>2, <2>1, <4>1, <4>2
    <3>2. CASE \A j \in 1 .. k + 1 : ~s[j].jump
      <4>1. Rank(s, k + 1) = k + 1
        BY <3>2 DEF Rank
      <4>2. Rank(s, n) = n \/ (Rank(s, n) = n - 1 /\ k + 1 # n)
        BY <1>1, <2>1, <3>2 DEF Rank
      <4> QED BY <1>1, <1>2, <2>1, <4>1, <4>2
    <3> QED BY <3>1, <3>2
  <2>5. Tail(cps)[Rank(t, k)] = cps[Rank(s, k + 1)]
    <3> DEFINE r == Rank(s, k + 1)
    <3>1. r - 1 \in 1 .. Len(cps) - 1
      BY <2>4
    <3>2. r \in Int
      BY <2>1 DEF Rank
    <3> HIDE DEF r
    <3>3. Tail(cps)[r - 1] = cps[(r - 1) + 1] /\ (r - 1) + 1 = r
      BY <1>6, <3>1, <3>2
    <3> QED BY <2>2, <3>3 DEF r
  <2> QED BY <2>1, <2>3, <2>5
<1>10. Len(Tail(cps)) = Rank(t, Len(t))
  <2>1. Rank(t, n - 1) = Rank(s, (n - 1) + 1) - 1 /\ (n - 1) + 1 = n
    BY <1>1, <1>8
  <2> QED BY <1>1, <1>2, <1>6, <2>1
<1> QED BY <1>5, <1>6, <1>7, <1>9, <1>10 DEF Aligned, t

----------------------------------------------------------------------------
(* The invariant between the calls of a cycle                              *)

\* The items of the script, with d committed; what is in flight is s.
ItemAt(d, k) == script[((d + k - 1) % Len(script)) + 1]
MissedIn(s, d, k) == s[k].jump \/ s[k].taken # ItemAt(d, k).taken

FollowsIn(s, d) ==
  \A k \in DOMAIN s :
    (\A j \in 1 .. k - 1 : ~MissedIn(s, d, j)) =>
      s[k].pc = ItemAt(d, k).pc /\ s[k].jump = ItemAt(d, k).jump

ContextsIn(s) ==
  \A k \in DOMAIN s : ~s[k].jump => RightContext(kind, s[k].context, s[k].seen, s[k].pc)

\* The history after an item, and the chain of histories from com to spec.
HistoryAfter(e) == IF e.jump THEN e.seen ELSE PushOf(kind, e.seen, e.taken, e.pc)

ChainOf(spec, com, s) ==
  /\ Len(s) = 0 => spec = com
  /\ Len(s) > 0 => s[1].seen = com /\ spec = HistoryAfter(s[Len(s)])
  /\ \A k \in 1 .. Len(s) - 1 : s[k + 1].seen = HistoryAfter(s[k])

\* Every entry that a prediction of q came from is still there.
ProvidersIn(q) ==
  \A k \in DOMAIN q.checkpoints :
    q.checkpoints[k].provider # -1 => ProviderStillThere(q, q.checkpoints[k])

\* The invariant of a predictor q with s in flight and d committed.
Between(q, s, d) ==
  /\ q \in PredictorOf(kind)
  /\ s \in Seq(InFlight) /\ Len(s) <= MaxInFlight
  /\ OneJump(s)
  /\ kind = "tage" => Aligned(q.checkpoints, s) /\ ProvidersIn(q)
  /\ ChainOf(SpeculativeOf(kind, q), CommittedOf(kind, q), s)
  /\ FollowsIn(s, d)
  /\ ContextsIn(s)

\* What does not change between the calls.
Frame ==
  /\ kind \in Kinds /\ script \in Scripts
  /\ done \in 0 .. Len(script) - 1

\* The invariant is what does not change in a cycle and what holds between its calls.
LEMMA InvariantParts ==
  PredictorInvariant <=>
    Frame /\ Between(p, inflight, done) /\ mispredicted \in BOOLEAN /\ failed = FALSE
<1>1. PredictorTypeOK <=>
        /\ Frame /\ p \in PredictorOf(kind)
        /\ inflight \in Seq(InFlight) /\ Len(inflight) <= MaxInFlight
        /\ mispredicted \in BOOLEAN /\ failed \in BOOLEAN
  BY DEF PredictorTypeOK, Frame, PredictorOf
<1>2. SpeculationIsAChain <=> ChainOf(SpeculativeOf(kind, p), CommittedOf(kind, p), inflight)
  BY DEF SpeculationIsAChain, ChainOf, HistoryAfter
<1>3. FollowsScript <=> FollowsIn(inflight, done)
  BY DEF FollowsScript, FollowsIn, Missed, MissedIn, At, ItemAt
<1>4. kind \in AllKinds => (ContextsFit <=> ContextsIn(inflight))
  BY DEF ContextsFit, ContextsIn, RightContext
<1>5. ProvidersStayInPlace <=> (kind = "tage" => ProvidersIn(p))
  BY DEF ProvidersStayInPlace, ProvidersIn
<1>6. Frame => kind \in AllKinds
  BY PredictorsAssumption DEF Frame
<1>7. (failed \in BOOLEAN /\ PredictorNeverAsserts) <=> failed = FALSE
  BY DEF PredictorNeverAsserts
<1> QED BY <1>1, <1>2, <1>3, <1>4, <1>5, <1>6, <1>7 DEF PredictorInvariant, Between

\* The items of a script, and where it goes on.
LEMMA ItemType ==
  ASSUME Frame, NEW d \in Int, NEW k \in Int
  PROVE  /\ Len(script) \in Nat \ {0} /\ ItemAt(d, k) \in Item
         /\ ItemAt(d, k).pc \in Word
<1>1. script \in Seq(Item) /\ script # << >>
  BY PredictorsAssumption DEF Frame
<1>2. Len(script) \in Nat \ {0}
  BY <1>1, EmptySeq
<1>3. ((d + k - 1) % Len(script)) + 1 \in 1 .. Len(script)
  <2> DEFINE x == d + k - 1
             L == Len(script)
  <2>1. x \in Int /\ L \in Nat \ {0}
    BY <1>2
  <2> HIDE DEF x, L
  <2>2. (x % L) + 1 \in 1 .. L
    BY <2>1
  <2> QED BY <2>2 DEF x, L
<1>4. ItemAt(d, k) \in Item
  <2> DEFINE i == ((d + k - 1) % Len(script)) + 1
  <2>1. i \in 1 .. Len(script)
    BY <1>3
  <2> HIDE DEF i
  <2>2. script[i] \in Item
    BY <1>1, <2>1, ElementOfSeq
  <2> QED BY <2>2 DEF ItemAt, i
<1>5. ItemAt(d, k).pc \in PCs
  BY <1>4 DEF Item
<1> QED BY <1>2, <1>4, <1>5, PredictorsAssumption

\* Two remainders of one number are one.
LEMMA UniqueRemainder ==
  ASSUME NEW L \in Nat \ {0}, NEW a \in Int, NEW b \in Int,
         NEW r \in 0 .. L - 1, NEW s \in 0 .. L - 1, L * a + r = L * b + s
  PROVE  r = s
<1>1. L * (a - b) = s - r
  OBVIOUS
<1>2. CASE a - b >= 1
  <2>1. L * (a - b) >= L
    BY <1>2
  <2> QED BY <1>1, <2>1
<1>3. CASE b - a >= 1
  <2>1. L * (b - a) >= L
    BY <1>3
  <2>2. L * (b - a) = r - s
    BY <1>1
  <2> QED BY <2>1, <2>2
<1> QED BY <1>1, <1>2, <1>3

\* A remainder may be taken before an addition.
LEMMA RemainderOfSum ==
  ASSUME NEW L \in Nat \ {0}, NEW x \in Int, NEW y \in Int
  PROVE  ((x % L) + y) % L = (x + y) % L
<1> DEFINE u == (x % L) + y
           v == x + y
<1>1. x = L * (x \div L) + (x % L) /\ x \div L \in Int /\ x % L \in 0 .. L - 1
  OBVIOUS
<1>2. u \in Int /\ v \in Int
  BY <1>1
<1>3. v = L * (x \div L) + u
  BY <1>1
<1> HIDE DEF u, v
<1>4. /\ u = L * (u \div L) + (u % L) /\ v = L * (v \div L) + (v % L)
      /\ u % L \in 0 .. L - 1 /\ v % L \in 0 .. L - 1 /\ u \div L \in Int /\ v \div L \in Int
  BY <1>2
<1> DEFINE a == v \div L
           b == x \div L
           c == u \div L
           r == v % L
           s == u % L
<1>5. a \in Int /\ b \in Int /\ c \in Int /\ r \in 0 .. L - 1 /\ s \in 0 .. L - 1
  BY <1>1, <1>4
<1>6. v = L * b + u /\ u = L * c + s /\ v = L * a + r
  BY <1>3, <1>4
<1> HIDE DEF a, b, c, r, s
<1>7. L * a + r = L * (b + c) + s
  <2>1. L * (b + c) = L * b + L * c
    BY <1>5
  <2>2. L * b \in Int /\ L * c \in Int /\ L * a \in Int
    BY <1>5
  <2> QED BY <1>2, <1>5, <1>6, <2>1, <2>2
<1>8. r = s
  <2>1. b + c \in Int
    BY <1>5
  <2> QED BY <1>5, <1>7, <2>1, UniqueRemainder
<1> QED BY <1>8 DEF r, s, u, v

\* With one more committed the k-th item is the one that was next to it.
LEMMA NextItem ==
  ASSUME Frame, NEW k \in Int
  PROVE  /\ (done + 1) % Len(script) \in 0 .. Len(script) - 1
         /\ ItemAt((done + 1) % Len(script), k) = ItemAt(done, k + 1)
<1> DEFINE L == Len(script)
           x == done + 1
           y == k - 1
<1>1. L \in Nat \ {0}
  <2>1. 0 \in Int
    OBVIOUS
  <2> QED BY <2>1, ItemType
<1>2. x \in Int /\ y \in Int
  BY DEF Frame
<1> HIDE DEF L, x, y
<1>3. x % L \in 0 .. L - 1 /\ ((x % L) + y) % L = (x + y) % L
  <2>1. x % L \in 0 .. L - 1
    BY <1>1, <1>2
  <2>2. ((x % L) + y) % L = (x + y) % L
    BY <1>1, <1>2, RemainderOfSum, Zenon
  <2> QED BY <2>1, <2>2
<1>4. (x % L) + k - 1 = (x % L) + y /\ x + y = done + (k + 1) - 1
  <2>1. done \in Int /\ x % L \in Int
    BY <1>3 DEF Frame
  <2> QED BY <2>1 DEF x, y
<1> QED BY <1>3, <1>4 DEF ItemAt, L, x

\* What fetch may put behind what is in flight.
MayJoin(s, d, e) ==
  /\ e.jump => \A k \in 1 .. Len(s) : ~s[k].jump
  /\ (\A k \in 1 .. Len(s) : ~MissedIn(s, d, k)) =>
       e.pc = ItemAt(d, Len(s) + 1).pc /\ e.jump = ItemAt(d, Len(s) + 1).jump
  /\ ~e.jump => RightContext(kind, e.context, e.seen, e.pc)

\* An item that joins what is in flight, with the history it was fetched with.
LEMMA Joins ==
  ASSUME NEW s \in Seq(InFlight), Len(s) < MaxInFlight, NEW d \in Int, NEW e \in InFlight,
         NEW com, OneJump(s), ChainOf(e.seen, com, s), FollowsIn(s, d), ContextsIn(s),
         MayJoin(s, d, e)
  PROVE  /\ Append(s, e) \in Seq(InFlight) /\ Len(Append(s, e)) <= MaxInFlight
         /\ OneJump(Append(s, e)) /\ ChainOf(HistoryAfter(e), com, Append(s, e))
         /\ FollowsIn(Append(s, e), d) /\ ContextsIn(Append(s, e))
         /\ s # << >> => Append(s, e) # << >> /\ Append(s, e)[1] = s[1]
<1> DEFINE n == Len(s)
           t == Append(s, e)
<1>1. /\ t \in Seq(InFlight) /\ Len(t) = n + 1 /\ DOMAIN t = 1 .. n + 1 /\ t[n + 1] = e
      /\ \A k \in 1 .. n : t[k] = s[k]
  BY AppendParts
<1>2. n \in Nat /\ DOMAIN s = 1 .. n /\ (s # << >> => n # 0)
  BY LenProperties, EmptySeq
<1>3. MaxInFlight \in Nat
  BY PredictorsAssumption, MaxTokenAssumption
<1> HIDE DEF t
<1>4. Len(t) <= MaxInFlight
  BY <1>1, <1>2, <1>3
<1>5. OneJump(t)
  <2> SUFFICES ASSUME NEW j \in 1 .. n + 1, NEW k \in 1 .. n + 1, t[j].jump, t[k].jump
               PROVE  j = k
    BY <1>1 DEF OneJump
  <2>1. CASE j \in 1 .. n /\ k \in 1 .. n
    BY <1>1, <1>2, <2>1 DEF OneJump
  <2>2. CASE j = n + 1 \/ k = n + 1
    <3>1. e.jump
      BY <1>1, <2>2
    <3>2. j \notin 1 .. n /\ k \notin 1 .. n
      BY <1>1, <3>1 DEF MayJoin
    <3> QED BY <1>2, <3>2
  <2> QED BY <1>2, <2>1, <2>2
<1>6. ChainOf(HistoryAfter(e), com, t)
  <2>1. t[1].seen = com
    <3>1. CASE n = 0
      <4>1. e.seen = com /\ t[1] = e
        BY <1>1, <3>1 DEF ChainOf
      <4> QED BY <4>1
    <3>2. CASE n > 0
      <4>1. s[1].seen = com /\ t[1] = s[1]
        BY <1>1, <1>2, <3>2 DEF ChainOf
      <4> QED BY <4>1
    <3> QED BY <1>2, <3>1, <3>2
  <2>2. HistoryAfter(e) = HistoryAfter(t[Len(t)])
    BY <1>1
  <2>3. ASSUME NEW k \in 1 .. n PROVE t[k + 1].seen = HistoryAfter(t[k])
    <3>1. CASE k = n
      <4>1. t[k + 1] = e /\ t[k] = s[n] /\ e.seen = HistoryAfter(s[n])
        BY <1>1, <1>2, <3>1 DEF ChainOf
      <4> QED BY <4>1
    <3>2. CASE k # n
      <4>1. k \in 1 .. n - 1 /\ k + 1 \in 1 .. n
        <5>1. n \in Nat
          BY <1>2
        <5> HIDE DEF n
        <5> QED BY <3>2, <5>1
      <4>2. t[k + 1] = s[k + 1] /\ t[k] = s[k] /\ s[k + 1].seen = HistoryAfter(s[k])
        BY <1>1, <4>1 DEF ChainOf
      <4> QED BY <4>2
    <3> QED BY <3>1, <3>2
  <2>4. Len(t) > 0 /\ Len(t) - 1 = n
    BY <1>1, <1>2
  <2> QED BY <2>1, <2>2, <2>3, <2>4 DEF ChainOf
<1>7. FollowsIn(t, d)
  <2> SUFFICES ASSUME NEW k \in 1 .. n + 1, \A j \in 1 .. k - 1 : ~MissedIn(t, d, j)
               PROVE  t[k].pc = ItemAt(d, k).pc /\ t[k].jump = ItemAt(d, k).jump
    BY <1>1 DEF FollowsIn
  <2>1. ASSUME NEW j \in 1 .. k - 1 PROVE ~MissedIn(s, d, j)
    <3>1. t[j] = s[j]
      BY <1>1, <1>2
    <3> QED BY <3>1 DEF MissedIn
  <2>2. CASE k = n + 1
    <3>1. \A j \in 1 .. n : ~MissedIn(s, d, j)
      BY <1>2, <2>1, <2>2
    <3> QED BY <1>1, <2>2, <3>1 DEF MayJoin
  <2>3. CASE k \in 1 .. n
    <3>1. t[k] = s[k]
      BY <1>1, <2>3
    <3> QED BY <1>2, <2>1, <2>3, <3>1 DEF FollowsIn
  <2> QED BY <1>2, <2>2, <2>3
<1>8. ContextsIn(t)
  <2> SUFFICES ASSUME NEW k \in 1 .. n + 1, ~t[k].jump
               PROVE  RightContext(kind, t[k].context, t[k].seen, t[k].pc)
    BY <1>1 DEF ContextsIn
  <2>1. CASE k = n + 1
    BY <1>1, <2>1 DEF MayJoin
  <2>2. CASE k \in 1 .. n
    BY <1>1, <1>2, <2>2 DEF ContextsIn
  <2> QED BY <1>2, <2>1, <2>2
<1>9. s # << >> => t # << >> /\ t[1] = s[1]
  <2>1. t # << >>
    BY <1>1, <1>2
  <2>2. s # << >> => t[1] = s[1]
    BY <1>1, <1>2
  <2> QED BY <2>1, <2>2
<1> QED BY <1>1, <1>4, <1>5, <1>6, <1>7, <1>8, <1>9 DEF t

\* What fetch may meet: on the path of the program its next item, elsewhere a
\* branch.
LEMMA FetchableIs ==
  ASSUME Frame, inflight \in Seq(InFlight), Len(inflight) <= MaxInFlight,
         NEW item \in Fetchable, item # Nothing
  PROVE  /\ Len(inflight) < MaxInFlight
         /\ item.pc \in PCs /\ item.jump \in BOOLEAN
         /\ item.jump => \A k \in 1 .. Len(inflight) : ~inflight[k].jump
         /\ (\A k \in 1 .. Len(inflight) : ~MissedIn(inflight, done, k)) =>
              item.pc = ItemAt(done, Len(inflight) + 1).pc
              /\ item.jump = ItemAt(done, Len(inflight) + 1).jump
<1>1. Len(inflight) \in Nat /\ DOMAIN inflight = 1 .. Len(inflight)
      /\ MaxInFlight \in Nat /\ done \in Int
  BY LenProperties, PredictorsAssumption, MaxTokenAssumption DEF Frame
<1>2. Len(inflight) < MaxInFlight
  <2> DEFINE len == Len(inflight)
  <2>1. len # MaxInFlight
    BY DEF Fetchable
  <2>2. len \in Nat /\ MaxInFlight \in Nat /\ len <= MaxInFlight
    BY <1>1
  <2> HIDE DEF len
  <2>3. len < MaxInFlight
    BY <2>1, <2>2
  <2> QED BY <2>3 DEF len
<1>3. OnRightPath <=> \A k \in 1 .. Len(inflight) : ~MissedIn(inflight, done, k)
  BY <1>1 DEF OnRightPath, Missed, MissedIn, At, ItemAt
<1>4. CASE OnRightPath
  <2>1. item = ItemAt(done, Len(inflight) + 1)
    BY <1>2, <1>1, <1>4 DEF Fetchable, At, ItemAt
  <2>2. item \in Item
    BY <1>1, <2>1, ItemType
  <2>3. \A k \in 1 .. Len(inflight) : ~inflight[k].jump
    BY <1>3, <1>4 DEF MissedIn
  <2> QED BY <1>2, <2>1, <2>2, <2>3 DEF Item
<1>5. CASE ~OnRightPath
  <2>1. PICK pc \in PCs : item = [pc |-> pc, jump |-> FALSE, taken |-> FALSE]
    BY <1>2, <1>1, <1>5 DEF Fetchable
  <2>2. item.pc \in PCs /\ ~item.jump /\ item.jump \in BOOLEAN
    BY <2>1
  <2> QED BY <1>2, <1>3, <1>5, <2>2
<1> QED BY <1>4, <1>5

\* Whether an entry is still there is a matter of the tables alone.
LEMMA ProviderDepends ==
  ASSUME NEW q, NEW r, NEW c, q.tagged_tables = r.tagged_tables
  PROVE  ProviderStillThere(q, c) <=> ProviderStillThere(r, c)
BY DEF ProviderStillThere, EntryOf

\* What TAGE's prediction of a fetched branch leaves behind.
LEMMA TageFetch ==
  ASSUME kind = "tage", p \in TagePredictor, Len(p.checkpoints) < MaxToken, NEW pc \in Word
  PROVE  /\ LiveTokens(p) # Tokens
         /\ \E c \in TageCheckpoint :
              /\ c.token = FreshToken(p) /\ c.pc = pc
              /\ c.provider # -1 => ProviderStillThere(p, c)
              /\ Prediction(p, pc).context = c.token
              /\ Prediction(p, pc).taken = c.final_prediction
              /\ Predict(p, pc).checkpoints = Append(p.checkpoints, c)
              /\ Predict(p, pc).next_token = TokenAfter(FreshToken(p))
              /\ Predict(p, pc).tagged_tables = p.tagged_tables
<1> DEFINE c == TageLookup(p, p, pc)
           m == TagePredict(p, p, pc)
<1>1. p \in MidTage
  BY TageIsMid
<1>2. LiveTokens(p) # Tokens
  BY <1>1, TageTokens
<1>3. /\ c \in TageCheckpoint /\ c.token = FreshToken(p) /\ c.pc = pc
      /\ c.provider # -1 => ProviderStillThere(p, c)
  BY <1>1, LookupType
<1>4. /\ m.checkpoints = Append(p.checkpoints, c) /\ m.next_token = TokenAfter(c.token)
      /\ m.tagged_tables = p.tagged_tables
  BY TagePredictEffect
<1>5. /\ Prediction(p, pc).context = c.token /\ Prediction(p, pc).taken = c.final_prediction
      /\ Predict(p, pc) = m
  BY DEF Prediction, Predict
<1> HIDE DEF c, m
<1> QED BY <1>2, <1>3, <1>4, <1>5

\* Fetch keeps the invariant, and leaves the oldest item and its checkpoint.
LEMMA FetchEffect ==
  ASSUME Frame, Between(p, inflight, done), NEW item \in Fetchable
  PROVE  /\ Between(Fetch(Current, item).p, Fetch(Current, item).inflight, done)
         /\ inflight # << >> => /\ Fetch(Current, item).inflight # << >>
                                /\ Fetch(Current, item).inflight[1] = inflight[1]
         /\ kind = "tage" =>
              /\ Fetch(Current, item).p.tagged_tables = p.tagged_tables
              /\ p.checkpoints # << >> => /\ Fetch(Current, item).p.checkpoints # << >>
                                          /\ Head(Fetch(Current, item).p.checkpoints)
                                               = Head(p.checkpoints)
<1>1. kind \in AllKinds /\ done \in Int /\ MaxInFlight \in 1 .. MaxToken /\ PCs \subseteq Word
  BY PredictorsAssumption DEF Frame
<1>2. /\ p \in PredictorOf(kind) /\ inflight \in Seq(InFlight) /\ Len(inflight) <= MaxInFlight
      /\ OneJump(inflight) /\ FollowsIn(inflight, done) /\ ContextsIn(inflight)
      /\ ChainOf(SpeculativeOf(kind, p), CommittedOf(kind, p), inflight)
      /\ kind = "tage" => Aligned(p.checkpoints, inflight) /\ ProvidersIn(p)
  BY DEF Between
<1>3. Current.p = p /\ Current.inflight = inflight
  BY DEF Current
<1>4. CASE item = Nothing
  <2>1. Fetch(Current, item) = Current
    BY <1>4 DEF Fetch
  <2> QED BY <1>3, <2>1
<1>5. CASE item # Nothing /\ item.jump
  <2> DEFINE e == [pc |-> item.pc, jump |-> item.jump, taken |-> FALSE, context |-> 0,
                   seen |-> SpeculativeOf(kind, p)]
             n == Fetch(Current, item)
  <2>1. n.p = p /\ n.inflight = Append(inflight, e)
    BY <1>3, <1>5 DEF Fetch, Fetched
  <2>2. /\ Len(inflight) < MaxInFlight /\ item.pc \in PCs /\ item.jump \in BOOLEAN
        /\ \A k \in 1 .. Len(inflight) : ~inflight[k].jump
        /\ (\A k \in 1 .. Len(inflight) : ~MissedIn(inflight, done, k)) =>
             item.pc = ItemAt(done, Len(inflight) + 1).pc
             /\ item.jump = ItemAt(done, Len(inflight) + 1).jump
    BY <1>2, <1>5, FetchableIs
  <2>3. SpeculativeOf(kind, p) \in HistoriesOf(kind)
    <3>1. p \in MidPredictorOf(kind)
      BY <1>1, <1>2, PredictorIsMid
    <3> QED BY <1>1, <3>1, HistoriesType
  <2>4. /\ e \in InFlight /\ e.pc = item.pc /\ e.jump = item.jump
        /\ e.seen = SpeculativeOf(kind, p)
    BY <2>2, <2>3 DEF InFlight
  <2> HIDE DEF e, n
  <2>5. e.jump
    BY <1>5, <2>4
  <2>6. /\ n.inflight \in Seq(InFlight) /\ Len(n.inflight) <= MaxInFlight
        /\ OneJump(n.inflight) /\ ChainOf(HistoryAfter(e), CommittedOf(kind, p), n.inflight)
        /\ FollowsIn(n.inflight, done) /\ ContextsIn(n.inflight)
        /\ inflight # << >> => n.inflight # << >> /\ n.inflight[1] = inflight[1]
    <3>1. MayJoin(inflight, done, e)
      BY <2>2, <2>4, <2>5 DEF MayJoin
    <3>2. ChainOf(e.seen, CommittedOf(kind, p), inflight)
      BY <1>2, <2>4
    <3> DEFINE t == Append(inflight, e)
    <3>3. /\ t \in Seq(InFlight) /\ Len(t) <= MaxInFlight
          /\ OneJump(t) /\ ChainOf(HistoryAfter(e), CommittedOf(kind, p), t)
          /\ FollowsIn(t, done) /\ ContextsIn(t)
          /\ inflight # << >> => t # << >> /\ t[1] = inflight[1]
      BY <1>1, <1>2, <2>2, <2>4, <3>1, <3>2, Joins
    <3> HIDE DEF t
    <3> QED BY <2>1, <3>3 DEF t
  <2>7. HistoryAfter(e) = SpeculativeOf(kind, p)
    BY <2>4, <2>5 DEF HistoryAfter
  <2>8. kind = "tage" => Aligned(n.p.checkpoints, n.inflight)
    <3> SUFFICES ASSUME kind = "tage" PROVE Aligned(p.checkpoints, Append(inflight, e))
      BY <2>1
    <3>1. p.checkpoints \in Seq(TageCheckpoint)
      BY <1>2, PredictorKinds DEF TagePredictor
    <3>2. inflight \in Seq(InFlight) /\ OneJump(inflight) /\ Aligned(p.checkpoints, inflight)
      BY <1>2
    <3> QED BY <2>2, <2>4, <2>5, <3>1, <3>2, AlignedJump
  <2>9. Between(n.p, n.inflight, done)
    BY <1>2, <2>1, <2>6, <2>7, <2>8 DEF Between
  <2> QED BY <2>1, <2>6, <2>9 DEF n
<1>6. CASE item # Nothing /\ ~item.jump
  <2> DEFINE b == Prediction(p, item.pc)
             q == Predict(p, item.pc)
             e == [pc |-> item.pc, jump |-> item.jump, taken |-> b.taken, context |-> b.context,
                   seen |-> SpeculativeOf(kind, p)]
             n == Fetch(Current, item)
  <2>1. n.p = q /\ n.inflight = Append(inflight, e)
    BY <1>3, <1>6 DEF Fetch, Fetched
  <2>2. /\ Len(inflight) < MaxInFlight /\ item.pc \in PCs /\ item.jump \in BOOLEAN
        /\ (\A k \in 1 .. Len(inflight) : ~MissedIn(inflight, done, k)) =>
             item.pc = ItemAt(done, Len(inflight) + 1).pc
             /\ item.jump = ItemAt(done, Len(inflight) + 1).jump
    BY <1>2, <1>6, FetchableIs
  <2>3. SpeculativeOf(kind, p) \in HistoriesOf(kind)
    <3>1. p \in MidPredictorOf(kind)
      BY <1>1, <1>2, PredictorIsMid
    <3> QED BY <1>1, <3>1, HistoriesType
  <2>4. ASSUME kind = "tage"
        PROVE  p \in TagePredictor /\ p.checkpoints \in Seq(TageCheckpoint)
               /\ Len(p.checkpoints) < MaxToken
    <3>1. p \in TagePredictor /\ p.checkpoints \in Seq(TageCheckpoint)
      BY <1>2, <2>4, PredictorKinds DEF TagePredictor
    <3>2. Len(p.checkpoints) <= Len(inflight)
      BY <1>2, <2>4, <3>1, AlignedFits
    <3>3. Len(p.checkpoints) \in Nat /\ Len(inflight) \in Nat
      BY <1>2, <3>1, LenProperties
    <3> QED BY <1>1, <2>2, <3>1, <3>2, <3>3, MaxTokenAssumption
  <2>5. /\ b.taken \in BOOLEAN /\ b.context \in Nat /\ q \in PredictorOf(kind)
        /\ SpeculativeOf(kind, q) = PushOf(kind, SpeculativeOf(kind, p), b.taken, item.pc)
        /\ CommittedOf(kind, q) = CommittedOf(kind, p)
        /\ RightContext(kind, b.context, SpeculativeOf(kind, p), item.pc)
    BY <1>1, <1>2, <2>2, <2>4, PredictEffect
  <2> HIDE DEF b, q
  <2>6. /\ e \in InFlight /\ e.pc = item.pc /\ ~e.jump /\ e.jump = item.jump
        /\ e.seen = SpeculativeOf(kind, p) /\ e.context = b.context /\ e.taken = b.taken
    BY <1>6, <2>2, <2>3, <2>5 DEF InFlight
  <2> HIDE DEF e, n
  <2>7. /\ n.inflight \in Seq(InFlight) /\ Len(n.inflight) <= MaxInFlight
        /\ OneJump(n.inflight) /\ ChainOf(HistoryAfter(e), CommittedOf(kind, p), n.inflight)
        /\ FollowsIn(n.inflight, done) /\ ContextsIn(n.inflight)
        /\ inflight # << >> => n.inflight # << >> /\ n.inflight[1] = inflight[1]
    <3>1. MayJoin(inflight, done, e)
      BY <2>2, <2>5, <2>6 DEF MayJoin
    <3>2. ChainOf(e.seen, CommittedOf(kind, p), inflight)
      BY <1>2, <2>6
    <3> QED BY <1>1, <1>2, <2>1, <2>2, <2>6, <3>1, <3>2, Joins
  <2>8. HistoryAfter(e) = SpeculativeOf(kind, q)
    BY <2>5, <2>6 DEF HistoryAfter
  <2>9. ASSUME kind = "tage"
        PROVE  /\ Aligned(q.checkpoints, n.inflight) /\ ProvidersIn(q)
               /\ q.tagged_tables = p.tagged_tables
               /\ p.checkpoints # << >> => /\ q.checkpoints # << >>
                                           /\ Head(q.checkpoints) = Head(p.checkpoints)
    <3>1. p.checkpoints \in Seq(TageCheckpoint) /\ item.pc \in Word
      BY <1>1, <2>2, <2>4, <2>9
    <3>2. PICK c \in TageCheckpoint :
            /\ c.token = FreshToken(p) /\ c.pc = item.pc
            /\ c.provider # -1 => ProviderStillThere(p, c)
            /\ b.context = c.token
            /\ b.taken = c.final_prediction
            /\ q.checkpoints = Append(p.checkpoints, c)
            /\ q.next_token = TokenAfter(FreshToken(p))
            /\ q.tagged_tables = p.tagged_tables
      BY <2>4, <2>9, <3>1, TageFetch DEF b, q
    <3>3. Aligned(q.checkpoints, n.inflight)
      BY <1>2, <2>1, <2>6, <2>9, <3>1, <3>2, AlignedAppend
    <3>4. ProvidersIn(q)
      <4> DEFINE len == Len(p.checkpoints)
      <4>1. /\ DOMAIN q.checkpoints = 1 .. len + 1 /\ q.checkpoints[len + 1] = c
            /\ \A k \in 1 .. len : q.checkpoints[k] = p.checkpoints[k]
            /\ DOMAIN p.checkpoints = 1 .. len /\ len \in Nat
        BY <3>1, <3>2, AppendParts, LenProperties
      <4> SUFFICES ASSUME NEW k \in 1 .. len + 1, q.checkpoints[k].provider # -1
                   PROVE  ProviderStillThere(q, q.checkpoints[k])
        BY <4>1 DEF ProvidersIn
      <4>2. ProviderStillThere(p, q.checkpoints[k])
        <5>1. CASE k = len + 1
          BY <3>2, <4>1, <5>1
        <5>2. CASE k \in 1 .. len
          BY <1>2, <2>9, <4>1, <5>2 DEF ProvidersIn
        <5> QED BY <4>1, <5>1, <5>2
      <4> QED BY <3>2, <4>2, ProviderDepends
    <3>5. p.checkpoints # << >> => /\ q.checkpoints # << >>
                                   /\ Head(q.checkpoints) = Head(p.checkpoints)
      BY <3>1, <3>2, HeadTailAppend, AppendProperties
    <3> QED BY <3>2, <3>3, <3>4, <3>5
  <2>10. Between(n.p, n.inflight, done)
    BY <2>1, <2>5, <2>7, <2>8, <2>9 DEF Between
  <2> QED BY <2>1, <2>7, <2>9, <2>10 DEF n
<1> QED BY <1>4, <1>5, <1>6

\* The oldest item that was predicted right leaves what is in flight.
LEMMA Leaves ==
  ASSUME Frame, NEW s \in Seq(InFlight), s # << >>, ~MissedIn(s, done, 1), NEW spec, NEW com,
         OneJump(s), ChainOf(spec, com, s), FollowsIn(s, done), ContextsIn(s)
  PROVE  /\ OneJump(Tail(s)) /\ ContextsIn(Tail(s))
         /\ ChainOf(spec, PushOf(kind, com, s[1].taken, s[1].pc), Tail(s))
         /\ FollowsIn(Tail(s), (done + 1) % Len(script))
<1> DEFINE n == Len(s)
           t == Tail(s)
           d == (done + 1) % Len(script)
<1>1. /\ n \in Nat \ {0} /\ t \in Seq(InFlight) /\ Len(t) = n - 1 /\ DOMAIN t = 1 .. n - 1
      /\ \A k \in 1 .. n - 1 : t[k] = s[k + 1]
  BY TailParts
<1>2. DOMAIN s = 1 .. n
  BY LenProperties
<1>3. \A k \in Int : ItemAt(d, k) = ItemAt(done, k + 1)
  BY NextItem
<1>4. ~s[1].jump
  BY DEF MissedIn
<1> HIDE DEF t, d, n
<1>5. OneJump(t)
  <2> SUFFICES ASSUME NEW j \in 1 .. n - 1, NEW k \in 1 .. n - 1, t[j].jump, t[k].jump
               PROVE  j = k
    BY <1>1 DEF OneJump
  <2>1. j + 1 \in 1 .. n /\ k + 1 \in 1 .. n /\ s[j + 1].jump /\ s[k + 1].jump
    BY <1>1
  <2>2. j + 1 = k + 1
    BY <1>2, <2>1 DEF OneJump
  <2> QED BY <2>2
<1>6. ContextsIn(t)
  <2> SUFFICES ASSUME NEW k \in 1 .. n - 1, ~t[k].jump
               PROVE  RightContext(kind, t[k].context, t[k].seen, t[k].pc)
    BY <1>1 DEF ContextsIn
  <2>1. k + 1 \in 1 .. n /\ t[k] = s[k + 1]
    BY <1>1
  <2> QED BY <1>2, <2>1 DEF ContextsIn
<1>7. ChainOf(spec, PushOf(kind, com, s[1].taken, s[1].pc), t)
  <2>1. s[1].seen = com /\ spec = HistoryAfter(s[n])
        /\ \A k \in 1 .. n - 1 : s[k + 1].seen = HistoryAfter(s[k])
    BY <1>1 DEF ChainOf, n
  <2>2. HistoryAfter(s[1]) = PushOf(kind, com, s[1].taken, s[1].pc)
    BY <1>4, <2>1 DEF HistoryAfter
  <2>3. CASE n = 1
    BY <1>1, <2>1, <2>2, <2>3 DEF ChainOf
  <2>4. CASE n # 1
    <3>1. 1 \in 1 .. n - 1 /\ n - 1 \in 1 .. n - 1 /\ n - 1 > 0 /\ (n - 1) + 1 = n
      BY <1>1, <2>4
    <3>2. t[1].seen = HistoryAfter(s[1])
      BY <1>1, <2>1, <3>1
    <3>3. t[Len(t)] = s[n]
      BY <1>1, <3>1
    <3>4. ASSUME NEW k \in 1 .. Len(t) - 1 PROVE t[k + 1].seen = HistoryAfter(t[k])
      <4>1. k \in 1 .. n - 1 /\ k + 1 \in 1 .. n - 1
        BY <1>1
      <4>2. t[k + 1] = s[(k + 1) + 1] /\ t[k] = s[k + 1]
        BY <1>1, <4>1
      <4> QED BY <2>1, <4>1, <4>2
    <3> QED BY <1>1, <2>1, <2>2, <3>1, <3>2, <3>3, <3>4 DEF ChainOf
  <2> QED BY <2>3, <2>4
<1>8. FollowsIn(t, d)
  <2> SUFFICES ASSUME NEW k \in 1 .. n - 1, \A j \in 1 .. k - 1 : ~MissedIn(t, d, j)
               PROVE  t[k].pc = ItemAt(d, k).pc /\ t[k].jump = ItemAt(d, k).jump
    BY <1>1 DEF FollowsIn
  <2>1. ASSUME NEW j \in 1 .. (k + 1) - 1 PROVE ~MissedIn(s, done, j)
    <3>1. CASE j = 1
      BY <3>1
    <3>2. CASE j # 1
      <4>1. j - 1 \in 1 .. k - 1 /\ j - 1 \in 1 .. n - 1 /\ (j - 1) + 1 = j
        BY <1>1, <3>2
      <4>2. t[j - 1] = s[j] /\ ItemAt(d, j - 1) = ItemAt(done, j)
        <5>1. t[j - 1] = s[(j - 1) + 1]
          BY <1>1, <4>1
        <5>2. j - 1 \in Int
          BY <4>1
        <5>3. ItemAt(d, j - 1) = ItemAt(done, (j - 1) + 1)
          BY <1>3, <5>2, Zenon
        <5> QED BY <4>1, <5>1, <5>3
      <4>3. ~MissedIn(t, d, j - 1)
        BY <4>1
      <4> QED BY <4>2, <4>3 DEF MissedIn
    <3> QED BY <3>1, <3>2
  <2>2. k + 1 \in 1 .. n /\ t[k] = s[k + 1] /\ ItemAt(d, k) = ItemAt(done, k + 1)
    <3>1. k \in Int
      BY <1>1
    <3>2. ItemAt(d, k) = ItemAt(done, k + 1)
      BY <1>3, <3>1, Zenon
    <3>3. k + 1 \in 1 .. n /\ t[k] = s[k + 1]
      BY <1>1
    <3> QED BY <3>2, <3>3
  <2>3. s[k + 1].pc = ItemAt(done, k + 1).pc /\ s[k + 1].jump = ItemAt(done, k + 1).jump
    BY <1>2, <2>1, <2>2 DEF FollowsIn
  <2> QED BY <2>2, <2>3
<1> QED BY <1>5, <1>6, <1>7, <1>8 DEF t, d

\* The update of the oldest branch finds its own checkpoint, and has room for
\* its writes.
LEMMA OldestUpdates ==
  ASSUME Frame, p \in PredictorOf(kind), NEW q, NEW s, Between(q, s, done),
         s # << >>, ~s[1].jump, NEW pick,
         kind = "tage" => pick \in Picks(p, Head(q.checkpoints), At(1).taken)
  PROVE  LET m == PredictorUpdate(q, s[1], At(1).taken, pick)
         IN  /\ m \in MidPredictorOf(kind)
             /\ SpeculativeOf(kind, m) = SpeculativeOf(kind, q)
             /\ CommittedOf(kind, m)
                  = PushOf(kind, CommittedOf(kind, q), At(1).taken, s[1].pc)
             /\ kind = "tage" =>
                  /\ TageUpdateAsserts(q, s[1].pc, s[1].context) /\ PendingFits(m)
                  /\ m = TageUpdate(p, q, At(1).taken, pick)
<1> DEFINE m == PredictorUpdate(q, s[1], At(1).taken, pick)
<1>1. /\ kind \in AllKinds /\ done \in Int /\ PCs \subseteq Word
  BY PredictorsAssumption DEF Frame
<1>2. /\ q \in PredictorOf(kind) /\ s \in Seq(InFlight) /\ ContextsIn(s)
      /\ kind = "tage" => Aligned(q.checkpoints, s)
  BY DEF Between
<1>3. s[1] \in InFlight /\ 1 \in DOMAIN s
  <2>1. Len(s) \in Nat \ {0} /\ s[1] \in InFlight
    BY <1>2, TailParts
  <2> QED BY <1>2, <2>1, LenProperties
<1>4. /\ s[1].pc \in Word /\ s[1].context \in Nat /\ s[1].seen \in HistoriesOf(kind)
  BY <1>1, <1>3 DEF InFlight
<1>5. At(1).taken \in BOOLEAN
  <2>1. At(1) = ItemAt(done, 1) /\ 1 \in Int
    BY DEF At, ItemAt
  <2>2. ItemAt(done, 1) \in Item
    BY <1>1, <2>1, ItemType
  <2> QED BY <2>1, <2>2 DEF Item
<1>6. kind = "gshare" => s[1].context \in Histories
  <2> SUFFICES ASSUME kind = "gshare" PROVE s[1].context \in Histories
    OBVIOUS
  <2>1. s[1].context = GshareIndex(s[1].seen, s[1].pc)
    BY <1>2, <1>3 DEF ContextsIn, RightContext
  <2>2. s[1].seen \in Histories
    BY <1>4, HistoryKinds
  <2> QED BY <1>4, <2>1, <2>2, GshareRanges
<1>7. kind = "tage" => TageUpdateAsserts(q, s[1].pc, s[1].context)
  <2> SUFFICES ASSUME kind = "tage" PROVE TageUpdateAsserts(q, s[1].pc, s[1].context)
    OBVIOUS
  <2>1. q.checkpoints \in Seq(TageCheckpoint)
    <3>1. q \in TagePredictor
      BY <1>2, PredictorKinds
    <3> QED BY <3>1 DEF TagePredictor
  <2>2. /\ q.checkpoints # << >> /\ Head(q.checkpoints).token = s[1].context
        /\ Head(q.checkpoints).pc = s[1].pc
    BY <1>2, <2>1, AlignedTail
  <2> QED BY <2>2 DEF TageUpdateAsserts
<1>8. /\ m \in MidPredictorOf(kind) /\ SpeculativeOf(kind, m) = SpeculativeOf(kind, q)
      /\ CommittedOf(kind, m) = PushOf(kind, CommittedOf(kind, q), At(1).taken, s[1].pc)
  BY <1>1, <1>2, <1>4, <1>5, <1>6, <1>7, UpdateEffect
<1>9. ASSUME kind = "tage"
      PROVE  PendingFits(m) /\ m = TageUpdate(p, q, At(1).taken, pick)
  <2>1. m = TageUpdate(p, q, At(1).taken, pick)
    BY <1>7, <1>9 DEF PredictorUpdate
  <2>2. p \in TagePredictor /\ q \in TagePredictor /\ q.checkpoints # << >>
    BY <1>2, <1>7, <1>9, PredictorKinds DEF TageUpdateAsserts
  <2> HIDE DEF m
  <2> QED BY <1>5, <1>9, <2>1, <2>2, TageUpdateEffect
<1> HIDE DEF m
<1> QED BY <1>7, <1>8, <1>9 DEF m

\* After a squash nothing is in flight, and the histories agree.
LEMMA SquashEffect ==
  ASSUME kind \in AllKinds, NEW n \in MidPredictorOf(kind), NEW d
  PROVE  Between(Clocked(PredictorRecover(n)), << >>, d)
<1> DEFINE r == PredictorRecover(n)
           q == Clocked(r)
<1>1. /\ r \in MidPredictorOf(kind) /\ SpeculativeOf(kind, r) = CommittedOf(kind, r)
  BY RecoverEffect
<1>2. q \in PredictorOf(kind) /\ SpeculativeOf(kind, q) = CommittedOf(kind, q)
  <2> HIDE DEF r
  <2> QED BY <1>1, ClockEffect
<1>3. ASSUME kind = "tage" PROVE q.checkpoints = << >>
  <2>1. r = TageRecover(n) /\ n \in MidTage
    BY <1>3 DEF PredictorRecover, MidPredictorOf
  <2>2. r \in MidTage /\ r.checkpoints = << >>
    BY <2>1, TageRecoverEffect
  <2>3. q = TageClock(r)
    BY <1>3 DEF Clocked
  <2> HIDE DEF r, q
  <2> QED BY <2>2, <2>3, TageClockEffect
<1> HIDE DEF q, r
<1>4. << >> \in Seq(InFlight) /\ Len(<< >>) = 0 /\ DOMAIN << >> = {}
  BY EmptySeq
<1>5. MaxInFlight \in Nat
  BY PredictorsAssumption, MaxTokenAssumption
<1>6. OneJump(<< >>) /\ FollowsIn(<< >>, d) /\ ContextsIn(<< >>)
  BY <1>4 DEF OneJump, FollowsIn, ContextsIn
<1>7. ChainOf(SpeculativeOf(kind, q), CommittedOf(kind, q), << >>)
  BY <1>2, <1>4 DEF ChainOf
<1>8. ASSUME kind = "tage" PROVE Aligned(q.checkpoints, << >>) /\ ProvidersIn(q)
  <2>1. Aligned(<< >>, << >>)
    BY <1>4 DEF Aligned, Rank
  <2>2. ProvidersIn(q)
    BY <1>3, <1>4, <1>8 DEF ProvidersIn
  <2> QED BY <1>3, <1>8, <2>1, <2>2
<1> QED BY <1>2, <1>4, <1>5, <1>6, <1>7, <1>8 DEF Between, q, r

\* A clock that gives no entry to another branch leaves the providers in place.
LEMMA ClockKeepsProviders ==
  ASSUME NEW n \in MidTage, KeepsBranches(n, n), NEW c \in TageCheckpoint, c.provider # -1,
         ProviderStillThere(n, c)
  PROVE  ProviderStillThere(TageClock(n), c)
<1> DEFINE m == TageClock(n)
           t == c.provider
           i == c.indices[t]
<1>1. t \in Tables /\ i \in TaggedSlots
  <2>1. t \in Tables
    BY DEF TageCheckpoint
  <2> QED BY <2>1, EntryOfType
<1>2. \A u \in Tables, j \in TaggedSlots :
        /\ m.tagged_tables[u][j].valid = n.tagged_tables[u][j].valid
        /\ m.tagged_tables[u][j].tag = n.tagged_tables[u][j].tag
  BY TageClockEffect
<1> HIDE DEF m
<1>3. /\ m.tagged_tables[t][i].valid = n.tagged_tables[t][i].valid
      /\ m.tagged_tables[t][i].tag = n.tagged_tables[t][i].tag
  BY <1>1, <1>2
<1>4. ProviderStillThere(m, c)
  BY <1>3 DEF ProviderStillThere, EntryOf
<1> QED BY <1>4 DEF m

\* A cycle that commits nothing.
LEMMA ClockIdle ==
  ASSUME kind \in AllKinds, NEW q, NEW s, NEW d, Between(q, s, d)
  PROVE  Between(Clocked(q), s, d)
<1> DEFINE r == Clocked(q)
<1>1. q \in PredictorOf(kind) /\ q \in MidPredictorOf(kind)
  BY PredictorIsMid DEF Between
<1>2. /\ r \in PredictorOf(kind) /\ SpeculativeOf(kind, r) = SpeculativeOf(kind, q)
      /\ CommittedOf(kind, r) = CommittedOf(kind, q)
  BY <1>1, ClockEffect
<1>3. ASSUME kind = "tage" PROVE Aligned(r.checkpoints, s) /\ ProvidersIn(r)
  <2>1. q \in TagePredictor
    BY <1>1, <1>3, PredictorKinds
  <2>2. q \in MidTage /\ q.pending_writes = << >> /\ q.checkpoints \in Seq(TageCheckpoint)
    BY <2>1, TageIsMid DEF TagePredictor
  <2>3. KeepsBranches(q, q)
    BY <2>2 DEF KeepsBranches
  <2>4. r = TageClock(q)
    BY <1>3 DEF Clocked
  <2>5. r.checkpoints = q.checkpoints
    <3> HIDE DEF r
    <3> QED BY <2>2, <2>4, TageClockEffect
  <2>6. Aligned(q.checkpoints, s) /\ ProvidersIn(q)
    BY <1>3 DEF Between
  <2> HIDE DEF r
  <2>7. ASSUME NEW k \in DOMAIN r.checkpoints, r.checkpoints[k].provider # -1
        PROVE  ProviderStillThere(r, r.checkpoints[k])
    <3>1. q.checkpoints[k] \in TageCheckpoint /\ ProviderStillThere(q, q.checkpoints[k])
          /\ q.checkpoints[k].provider # -1
      BY <2>2, <2>5, <2>6, <2>7 DEF ProvidersIn
    <3> QED BY <2>2, <2>3, <2>4, <2>5, <3>1, ClockKeepsProviders
  <2> QED BY <2>5, <2>6, <2>7 DEF ProvidersIn
<1> HIDE DEF r
<1>4. Between(r, s, d)
  BY <1>2, <1>3 DEF Between
<1> QED BY <1>4 DEF r

\* A cycle in which a branch commits that was predicted right: nothing that is
\* in flight loses its checkpoint, its history or the entry it was predicted by.
LEMMA RightCommit ==
  ASSUME Frame, p \in PredictorOf(kind), NEW q, NEW s, Between(q, s, done),
         s # << >>, ~MissedIn(s, done, 1), NEW pick,
         kind = "tage" => /\ q.tagged_tables = p.tagged_tables
                          /\ pick \in Picks(p, Head(q.checkpoints), At(1).taken)
  PROVE  Between(Clocked(PredictorUpdate(q, s[1], At(1).taken, pick)), Tail(s),
                 (done + 1) % Len(script))
<1> DEFINE m == PredictorUpdate(q, s[1], At(1).taken, pick)
           r == Clocked(m)
           d == (done + 1) % Len(script)
<1>1. kind \in AllKinds
  BY PredictorsAssumption DEF Frame
<1>2. ~s[1].jump /\ s[1].taken = At(1).taken
  BY DEF MissedIn, At, ItemAt
<1>3. /\ q \in PredictorOf(kind) /\ s \in Seq(InFlight) /\ Len(s) <= MaxInFlight
      /\ OneJump(s) /\ FollowsIn(s, done) /\ ContextsIn(s)
      /\ ChainOf(SpeculativeOf(kind, q), CommittedOf(kind, q), s)
      /\ kind = "tage" => Aligned(q.checkpoints, s) /\ ProvidersIn(q)
  BY DEF Between
<1>4. /\ m \in MidPredictorOf(kind) /\ SpeculativeOf(kind, m) = SpeculativeOf(kind, q)
      /\ CommittedOf(kind, m) = PushOf(kind, CommittedOf(kind, q), s[1].taken, s[1].pc)
      /\ kind = "tage" => m = TageUpdate(p, q, At(1).taken, pick)
  BY <1>2, OldestUpdates
<1> HIDE DEF m
<1>5. /\ r \in PredictorOf(kind) /\ SpeculativeOf(kind, r) = SpeculativeOf(kind, m)
      /\ CommittedOf(kind, r) = CommittedOf(kind, m)
  BY <1>1, <1>4, ClockEffect
<1> HIDE DEF d
<1>6. /\ OneJump(Tail(s)) /\ ContextsIn(Tail(s)) /\ FollowsIn(Tail(s), d)
      /\ ChainOf(SpeculativeOf(kind, q),
                 PushOf(kind, CommittedOf(kind, q), s[1].taken, s[1].pc), Tail(s))
  BY <1>3, Leaves DEF d
<1>7. Tail(s) \in Seq(InFlight) /\ Len(Tail(s)) <= MaxInFlight
  <2>1. /\ Tail(s) \in Seq(InFlight) /\ Len(s) \in Nat \ {0} /\ Len(Tail(s)) = Len(s) - 1
    BY <1>3, TailParts
  <2>2. MaxInFlight \in Nat
    BY PredictorsAssumption, MaxTokenAssumption
  <2> QED BY <1>3, <2>1, <2>2
<1>8. ASSUME kind = "tage" PROVE Aligned(r.checkpoints, Tail(s)) /\ ProvidersIn(r)
  <2>1. p \in TagePredictor /\ q \in TagePredictor /\ m \in MidTage
    BY <1>3, <1>4, <1>8, PredictorKinds DEF MidPredictorOf
  <2>2. q.checkpoints \in Seq(TageCheckpoint)
    BY <2>1 DEF TagePredictor
  <2>3. /\ q.checkpoints # << >> /\ Head(q.checkpoints).final_prediction = s[1].taken
        /\ Aligned(Tail(q.checkpoints), Tail(s))
    BY <1>2, <1>3, <1>8, <2>2, AlignedTail
  <2>4. At(1).taken \in BOOLEAN
    <3>1. s[1] \in InFlight
      BY <1>3, TailParts
    <3> QED BY <1>2, <3>1 DEF InFlight
  <2>5. /\ m.checkpoints = Tail(q.checkpoints) /\ m.tagged_tables = q.tagged_tables
        /\ KeepsBranches(p, m)
    BY <1>2, <1>4, <1>8, <2>1, <2>3, <2>4, TageUpdateEffect
  <2>6. KeepsBranches(m, m)
    BY <1>8, <2>5 DEF KeepsBranches
  <2>7. r = TageClock(m)
    BY <1>8 DEF Clocked
  <2> HIDE DEF r
  <2>8. r.checkpoints = Tail(q.checkpoints)
    BY <2>1, <2>5, <2>7, TageClockEffect
  <2>9. ASSUME NEW k \in DOMAIN r.checkpoints, r.checkpoints[k].provider # -1
        PROVE  ProviderStillThere(r, r.checkpoints[k])
    <3> DEFINE c == r.checkpoints[k]
    <3>1. /\ k \in 1 .. Len(q.checkpoints) - 1 /\ c = q.checkpoints[k + 1]
          /\ Len(q.checkpoints) \in Nat
      BY <2>2, <2>3, <2>8, TailParts
    <3>2. k + 1 \in 1 .. Len(q.checkpoints) /\ DOMAIN q.checkpoints = 1 .. Len(q.checkpoints)
      BY <2>2, <3>1, LenProperties
    <3>3. c \in TageCheckpoint
      BY <2>2, <3>1, <3>2, ElementOfSeq
    <3>4. ProviderStillThere(q, c)
      BY <1>3, <1>8, <2>9, <3>1, <3>2 DEF ProvidersIn
    <3> HIDE DEF c
    <3>5. ProviderStillThere(m, c)
      BY <2>5, <3>4, ProviderDepends
    <3>6. ProviderStillThere(r, c)
      BY <2>1, <2>6, <2>7, <2>9, <3>3, <3>5, ClockKeepsProviders DEF c
    <3> QED BY <3>6 DEF c
  <2> QED BY <2>3, <2>8, <2>9 DEF ProvidersIn
<1> HIDE DEF r
<1>9. Between(r, Tail(s), d)
  BY <1>4, <1>5, <1>6, <1>7, <1>8 DEF Between
<1> QED BY <1>9 DEF r, m, d

----------------------------------------------------------------------------
(* The steps                                                               *)

\* A cycle that commits the oldest item: its update finds its checkpoint, and
\* whatever fetch did before it, the invariant holds after the clock.
LEMMA CommitEffect ==
  ASSUME Frame, Between(p, inflight, done), inflight # << >>,
         NEW item \in Fetchable, NEW pick \in PicksNow
  PROVE  LET c == Commit(Fetch(Current, item), pick)
             a == IF Missed(1) THEN Squash(c) ELSE c
             b == Head(inflight)
         IN  /\ Between(Clocked(a.p), a.inflight, (done + 1) % Len(script))
             /\ kind = "tage" /\ ~b.jump =>
                  TageUpdateAsserts(p, b.pc, b.context) /\ PendingFits(c.p)
<1> DEFINE n == Fetch(Current, item)
           c == Commit(n, pick)
           a == IF Missed(1) THEN Squash(c) ELSE c
           b == Head(inflight)
           d == (done + 1) % Len(script)
           m == PredictorUpdate(n.p, b, At(1).taken, pick)
<1>1. kind \in AllKinds /\ p \in PredictorOf(kind) /\ inflight \in Seq(InFlight)
  BY PredictorsAssumption DEF Frame, Between
<1>2. /\ Between(n.p, n.inflight, done) /\ n.inflight # << >> /\ n.inflight[1] = inflight[1]
      /\ kind = "tage" =>
           /\ n.p.tagged_tables = p.tagged_tables
           /\ p.checkpoints # << >> => Head(n.p.checkpoints) = Head(p.checkpoints)
  BY FetchEffect
<1>3. b = inflight[1]
  BY <1>1, HeadTailProperties
<1>4. /\ c.p = IF b.jump THEN n.p ELSE m
      /\ c.inflight = Tail(n.inflight)
  BY DEF Commit
<1>5. Missed(1) <=> MissedIn(n.inflight, done, 1)
  BY <1>2 DEF Missed, MissedIn, At, ItemAt
<1>6. /\ Missed(1) => a.p = PredictorRecover(c.p) /\ a.inflight = << >>
      /\ ~Missed(1) => a.p = c.p /\ a.inflight = c.inflight
  BY DEF Squash
<1> HIDE DEF n, c, a, m, b, d
<1>7. ASSUME kind = "tage", ~b.jump
      PROVE  /\ TageUpdateAsserts(p, b.pc, b.context)
             /\ pick \in Picks(p, Head(n.p.checkpoints), At(1).taken)
  <2>1. p.checkpoints \in Seq(TageCheckpoint)
    <3>1. p \in TagePredictor
      BY <1>1, <1>7, PredictorKinds
    <3> QED BY <3>1 DEF TagePredictor
  <2>2. Aligned(p.checkpoints, inflight) /\ ~inflight[1].jump
    BY <1>3, <1>7 DEF Between
  <2>3. /\ p.checkpoints # << >> /\ Head(p.checkpoints).token = inflight[1].context
        /\ Head(p.checkpoints).pc = inflight[1].pc
    BY <1>1, <2>1, <2>2, AlignedTail
  <2>4. PicksNow = Picks(p, Head(p.checkpoints), At(1).taken)
    BY <1>7, <2>3 DEF PicksNow, b
  <2> QED BY <1>2, <1>3, <1>7, <2>3, <2>4 DEF TageUpdateAsserts
<1>8. ASSUME ~b.jump
      PROVE  /\ m = PredictorUpdate(n.p, n.inflight[1], At(1).taken, pick)
             /\ m \in MidPredictorOf(kind) /\ (kind = "tage" => PendingFits(m))
  <2>1. m = PredictorUpdate(n.p, n.inflight[1], At(1).taken, pick)
    BY <1>2, <1>3 DEF m
  <2>2. ~n.inflight[1].jump
    BY <1>2, <1>3, <1>8
  <2> QED BY <1>1, <1>2, <1>7, <1>8, <2>1, <2>2, OldestUpdates
<1>9. c.p \in MidPredictorOf(kind)
  <2>1. n.p \in MidPredictorOf(kind)
    BY <1>1, <1>2, PredictorIsMid DEF Between
  <2> QED BY <1>4, <1>8, <2>1
<1>10. CASE Missed(1)
  <2>1. Between(Clocked(PredictorRecover(c.p)), << >>, d)
    BY <1>1, <1>9, SquashEffect
  <2> QED BY <1>4, <1>6, <1>7, <1>8, <1>10, <2>1 DEF n, c, a, b, d
<1>11. CASE ~Missed(1)
  <2>1. ~b.jump
    BY <1>3, <1>11 DEF Missed
  <2>2. Between(Clocked(m), Tail(n.inflight), d)
    BY <1>1, <1>2, <1>5, <1>7, <1>8, <1>11, <2>1, RightCommit DEF d
  <2>3. a.p = m /\ a.inflight = Tail(n.inflight)
    BY <1>4, <1>6, <1>11, <2>1
  <2> QED BY <1>4, <1>7, <1>8, <2>1, <2>2, <2>3 DEF n, c, a, b, d
<1> QED BY <1>10, <1>11

\* What a step leaves must hold of the next state for the invariant to.
LEMMA InvariantNext ==
  ASSUME Frame, kind' = kind, script' = script, done' \in 0 .. Len(script) - 1,
         Between(p', inflight', done'), mispredicted' \in BOOLEAN, failed' = FALSE
  PROVE  PredictorInvariant'
<1>1. Frame'
  BY DEF Frame
<1>2. Between(p, inflight, done)'
  <2>1. PredictorOf(kind)' = PredictorOf(kind')
    OBVIOUS
  <2>2. InFlight' = InFlight
    BY DEF InFlight
  <2>3. ChainOf(SpeculativeOf(kind, p), CommittedOf(kind, p), inflight)'
          <=> ChainOf(SpeculativeOf(kind', p'), CommittedOf(kind', p'), inflight')
    BY DEF ChainOf, HistoryAfter
  <2>4. FollowsIn(inflight, done)' <=> FollowsIn(inflight', done')
    BY DEF FollowsIn, MissedIn, ItemAt
  <2>5. ContextsIn(inflight)' <=> ContextsIn(inflight')
    BY DEF ContextsIn
  <2> QED BY <2>1, <2>2, <2>3, <2>4, <2>5 DEF Between
<1>3. PredictorInvariant' <=>
        Frame' /\ Between(p, inflight, done)' /\ (mispredicted \in BOOLEAN)' /\ (failed = FALSE)'
  BY InvariantParts, PTL
<1> QED BY <1>1, <1>2, <1>3

\* A predictor as it is constructed.
LEMMA InitEffect ==
  Init => PredictorInvariant
<1> SUFFICES ASSUME Init PROVE PredictorInvariant
  OBVIOUS
<1>1. /\ kind \in Kinds /\ script \in Scripts /\ done = 0 /\ inflight = << >>
      /\ mispredicted = FALSE /\ failed = FALSE /\ kind \in AllKinds
  BY PredictorsAssumption DEF Init
<1>2. Frame
  <2>1. script \in Seq(Item) /\ script # << >>
    BY <1>1, PredictorsAssumption
  <2>2. Len(script) \in Nat \ {0}
    BY <2>1, EmptySeq
  <2> QED BY <1>1, <2>2 DEF Frame
<1>3. BimodalInit \in Bimodal /\ GshareInit \in Gshare /\ TournamentInit \in Tournament
  BY TablePredictorsAssumption
  DEF BimodalInit, Bimodal, GshareInit, Gshare, TournamentInit, Tournament, TwoBit, Histories
<1>4. TageInit \in TagePredictor
  <2>1. NoHistory \in History
    BY NoHistoryType
  <2>2. EmptyEntry \in Entry
    BY DEF EmptyEntry, Entry
  <2>3. 1 \in Tokens /\ 0 \in 0 .. AGE_PERIOD - 1 /\ << >> \in Seq(TageCheckpoint)
    BY MaxTokenAssumption, TageAssumption DEF Tokens
  <2> HIDE DEF NoHistory
  <2> QED BY <2>1, <2>2, <2>3 DEF TageInit, TagePredictor, TwoBit
<1>5. p \in PredictorOf(kind) /\ SpeculativeOf(kind, p) = CommittedOf(kind, p)
  <2>1. CASE kind = "naive"
    BY <2>1, PredictorKinds, HistoryKinds DEF Init
  <2>2. CASE kind = "bimodal"
    BY <1>3, <2>2, PredictorKinds, HistoryKinds DEF Init
  <2>3. CASE kind = "gshare"
    <3>1. p = GshareInit
      BY <2>3 DEF Init
    <3>2. GshareInit.speculative_ghr = GshareInit.committed_ghr
      BY DEF GshareInit
    <3> QED BY <1>3, <2>3, <3>1, <3>2, PredictorKinds, HistoryKinds
  <2>4. CASE kind = "tournament"
    <3>1. p = TournamentInit
      BY <2>4 DEF Init
    <3>2. TournamentInit.gp.speculative_ghr = TournamentInit.gp.committed_ghr
      BY DEF GshareInit, TournamentInit
    <3> QED BY <1>3, <2>4, <3>1, <3>2, PredictorKinds, HistoryKinds
  <2>5. CASE kind = "tage"
    <3>1. p = TageInit
      BY <2>5 DEF Init
    <3>2. TageInit.speculative_history = TageInit.committed_history
      BY DEF TageInit
    <3> QED BY <1>4, <2>5, <3>1, <3>2, PredictorKinds, HistoryKinds
  <2> QED BY <1>1, <2>1, <2>2, <2>3, <2>4, <2>5 DEF AllKinds
<1>6. kind = "tage" => p.checkpoints = << >>
  BY DEF Init, TageInit
<1>7. << >> \in Seq(InFlight) /\ Len(<< >>) = 0 /\ DOMAIN << >> = {} /\ MaxInFlight \in Nat
  BY EmptySeq, PredictorsAssumption, MaxTokenAssumption
<1>8. OneJump(<< >>) /\ FollowsIn(<< >>, 0) /\ ContextsIn(<< >>)
  BY <1>7 DEF OneJump, FollowsIn, ContextsIn
<1>9. ChainOf(SpeculativeOf(kind, p), CommittedOf(kind, p), << >>)
  BY <1>5, <1>7 DEF ChainOf
<1>10. ASSUME kind = "tage" PROVE Aligned(p.checkpoints, << >>) /\ ProvidersIn(p)
  <2>1. Aligned(<< >>, << >>)
    BY <1>7 DEF Aligned, Rank
  <2>2. ProvidersIn(p)
    BY <1>6, <1>7, <1>10 DEF ProvidersIn
  <2> QED BY <1>6, <1>10, <2>1, <2>2
<1>11. Between(p, inflight, done)
  BY <1>1, <1>5, <1>7, <1>8, <1>9, <1>10 DEF Between
<1> QED BY <1>1, <1>2, <1>11, InvariantParts

\* A cycle without a commit.
LEMMA IdleStep ==
  PredictorInvariant /\ CycleWithoutCommit => PredictorInvariant'
<1> SUFFICES ASSUME PredictorInvariant, CycleWithoutCommit PROVE PredictorInvariant'
  OBVIOUS
<1>1. Frame /\ Between(p, inflight, done) /\ failed = FALSE /\ kind \in AllKinds
  BY InvariantParts, PredictorsAssumption DEF Frame
<1>2. PICK item \in Fetchable : Clock(Fetch(Current, item))
  BY DEF CycleWithoutCommit
<1> DEFINE n == Fetch(Current, item)
<1>3. Between(n.p, n.inflight, done)
  BY <1>1, FetchEffect
<1>4. p' = Clocked(n.p) /\ inflight' = n.inflight
  BY <1>2 DEF Clock, Clocked
<1> HIDE DEF n
<1>5. Between(Clocked(n.p), n.inflight, done)
  BY <1>1, <1>3, ClockIdle
<1>6. /\ kind' = kind /\ script' = script /\ done' = done /\ failed' = FALSE
      /\ mispredicted' \in BOOLEAN /\ done' \in 0 .. Len(script) - 1
  BY <1>1 DEF CycleWithoutCommit, Frame
<1> QED BY <1>1, <1>4, <1>5, <1>6, InvariantNext

\* A cycle with a commit.
LEMMA CommitStep ==
  PredictorInvariant /\ CycleWithCommit => PredictorInvariant'
<1> SUFFICES ASSUME PredictorInvariant, CycleWithCommit PROVE PredictorInvariant'
  OBVIOUS
<1>1. Frame /\ Between(p, inflight, done) /\ failed = FALSE /\ inflight # << >>
  BY InvariantParts DEF CycleWithCommit
<1>2. PICK item \in Fetchable, pick \in PicksNow :
        LET committed == Commit(Fetch(Current, item), pick)
            b == Head(inflight)
        IN  /\ Clock(IF Missed(1) THEN Squash(committed) ELSE committed)
            /\ failed' = (kind = "tage" /\ ~b.jump /\
                           ~(TageUpdateAsserts(p, b.pc, b.context) /\ PendingFits(committed.p)))
  BY DEF CycleWithCommit
<1> DEFINE c == Commit(Fetch(Current, item), pick)
           a == IF Missed(1) THEN Squash(c) ELSE c
           b == Head(inflight)
           d == (done + 1) % Len(script)
<1>3. /\ Between(Clocked(a.p), a.inflight, d)
      /\ kind = "tage" /\ ~b.jump =>
           TageUpdateAsserts(p, b.pc, b.context) /\ PendingFits(c.p)
  BY <1>1, CommitEffect
<1>4. /\ p' = Clocked(a.p) /\ inflight' = a.inflight
      /\ failed' = (kind = "tage" /\ ~b.jump /\
                     ~(TageUpdateAsserts(p, b.pc, b.context) /\ PendingFits(c.p)))
  BY <1>2 DEF Clock, Clocked
<1> HIDE DEF a, b, c
<1>5. failed' = FALSE
  BY <1>3, <1>4
<1>6. d \in 0 .. Len(script) - 1
  BY <1>1, NextItem
<1>7. /\ kind' = kind /\ script' = script /\ done' = d
  BY DEF CycleWithCommit
<1>8. mispredicted' \in BOOLEAN
  BY DEF CycleWithCommit
<1> HIDE DEF d
<1> QED BY <1>1, <1>3, <1>4, <1>5, <1>6, <1>7, <1>8, InvariantNext

\* The inductive invariant of a predictor in use (PredictorInvariant of
\* PredictorInv) holds in every reachable state, of every kind.
THEOREM PredictorInvariance ==
  Spec => []PredictorInvariant
<1>1. PredictorInvariant /\ UNCHANGED vars => PredictorInvariant'
  <2> SUFFICES ASSUME PredictorInvariant, UNCHANGED vars PROVE PredictorInvariant'
    OBVIOUS
  <2>1. Frame /\ Between(p, inflight, done) /\ mispredicted \in BOOLEAN /\ failed = FALSE
    BY InvariantParts
  <2> QED BY <2>1, InvariantNext DEF vars, Frame
<1>2. PredictorInvariant /\ [Next]_vars => PredictorInvariant'
  BY <1>1, IdleStep, CommitStep DEF Next
<1> QED BY <1>2, InitEffect, PTL DEF Spec

\* Counters stay in their ranges, indexes inside the tables, and pending
\* writes are gone after the clock (PredictorTypeOK).
THEOREM PredictorTypes ==
  Spec => []PredictorTypeOK
<1>1. PredictorInvariant => PredictorTypeOK
  BY DEF PredictorInvariant
<1> QED BY <1>1, PredictorInvariance, PTL

\* The update of TAGE always finds the checkpoint of its own branch at the
\* front, and room for its writes (branchpred.cpp:300, 322, 517-523).
THEOREM UpdatesNeverAssert ==
  Spec => []PredictorNeverAsserts
<1>1. PredictorInvariant => PredictorNeverAsserts
  BY DEF PredictorInvariant
<1> QED BY <1>1, PredictorInvariance, PTL

\* The speculative history is the committed one with the predictions in flight
\* pushed in order, whatever was squashed (SpeculationIsAChain).
THEOREM SpeculationIsChained ==
  Spec => []SpeculationIsAChain
<1>1. PredictorInvariant => SpeculationIsAChain
  BY DEF PredictorInvariant
<1> QED BY <1>1, PredictorInvariance, PTL

\* No entry that a prediction in flight came from is given to another branch
\* (ProvidersStayInPlace; branchpred.cpp:529).
THEOREM ProvidersStay ==
  Spec => []ProvidersStayInPlace
<1>1. PredictorInvariant => ProvidersStayInPlace
  BY DEF PredictorInvariant
<1> QED BY <1>1, PredictorInvariance, PTL

----------------------------------------------------------------------------
(* The order of the calls                                                  *)

\* A record of gshare is its three fields, and one of the tournament too.
LEMMA SameFields ==
  /\ \A a, b \in Gshare :
       /\ a.pht = b.pht /\ a.committed_ghr = b.committed_ghr
       /\ a.speculative_ghr = b.speculative_ghr
       => a = b
  /\ \A a, b \in Tournament :
       a.counters = b.counters /\ a.bp = b.bp /\ a.gp = b.gp => a = b
BY DEF Gshare, Tournament

\* Of gshare an update writes what a prediction reads at the clock only, and
\* the other way around.
LEMMA GshareCallsCommute ==
  ASSUME NEW n \in Gshare, NEW cur, NEW pc \in Word, NEW context \in Histories,
         NEW taken \in BOOLEAN, NEW said \in BOOLEAN
  PROVE  LET u == GshareUpdate(n, context, taken)
         IN  /\ GshareLookup(cur, u, pc) = GshareLookup(cur, n, pc)
             /\ GshareSpeculate(u, said)
                  = GshareUpdate(GshareSpeculate(n, said), context, taken)
<1> DEFINE u == GshareUpdate(n, context, taken)
           s == GshareSpeculate(n, said)
           a == GshareSpeculate(u, said)
           b == GshareUpdate(s, context, taken)
<1>1. /\ u \in Gshare /\ u.committed_ghr = GsharePush(n.committed_ghr, taken)
      /\ u.speculative_ghr = n.speculative_ghr
      /\ u.pht = [n.pht EXCEPT ![context] = Trained(@, taken)]
  <2>1. /\ u \in Gshare /\ u.committed_ghr = GsharePush(n.committed_ghr, taken)
        /\ u.speculative_ghr = n.speculative_ghr
    BY GshareUpdateType
  <2>2. u.pht = [n.pht EXCEPT ![context] = Trained(@, taken)]
    BY GshareUpdatePht
  <2> QED BY <2>1, <2>2
<1>2. /\ s \in Gshare /\ s.committed_ghr = n.committed_ghr /\ s.pht = n.pht
      /\ s.speculative_ghr = GsharePush(n.speculative_ghr, said)
  BY GshareSpeculateType
<1>8. u \in Gshare /\ s \in Gshare
  BY <1>1, <1>2
<1> HIDE DEF u, s
<1>3. /\ a \in Gshare /\ a.committed_ghr = u.committed_ghr /\ a.pht = u.pht
      /\ a.speculative_ghr = GsharePush(u.speculative_ghr, said)
  BY <1>8, GshareSpeculateType
<1>4. /\ b \in Gshare /\ b.committed_ghr = GsharePush(s.committed_ghr, taken)
      /\ b.speculative_ghr = s.speculative_ghr
  BY <1>8, GshareUpdateType
<1>7. b.pht = [s.pht EXCEPT ![context] = Trained(@, taken)]
  BY <1>2, GshareUpdatePht
<1> HIDE DEF a, b
<1>5. a = b
  <2>1. a.pht = b.pht
    BY <1>1, <1>2, <1>3, <1>7
  <2>2. a.committed_ghr = b.committed_ghr /\ a.speculative_ghr = b.speculative_ghr
    BY <1>1, <1>2, <1>3, <1>4
  <2> QED BY <1>3, <1>4, <2>1, <2>2, SameFields
<1>6. GshareLookup(cur, u, pc) = GshareLookup(cur, n, pc)
  BY <1>1 DEF GshareLookup
<1> QED BY <1>5, <1>6 DEF a, b, u, s

\* What an update of the tournament does to its table, and to the bimodal one.
LEMMA TournamentUpdateCounters ==
  ASSUME NEW n \in Tournament, NEW pc \in Word, NEW taken \in BOOLEAN, NEW context \in Nat
  PROVE  TournamentUpdate(n, pc, context, taken).counters =
           [n.counters EXCEPT ![Slot(pc)] =
              IF (ContextGshare(context) = taken) = (ContextBimodal(context) = taken)
              THEN @ ELSE Trained(@, ContextBimodal(context) = taken)]
<1> DEFINE m == TournamentUpdate(n, pc, context, taken)
           bright == ContextBimodal(context) = taken
           gright == ContextGshare(context) = taken
           new == [n.counters EXCEPT ![Slot(pc)] =
                     IF gright = bright THEN @ ELSE Trained(@, bright)]
           gp == GshareUpdate(n.gp, ContextIndex(context), taken)
           bp == BimodalUpdate(n.bp, pc, taken)
<1>1. m = [n EXCEPT !.counters = new, !.gp = gp, !.bp = bp]
  BY DEF TournamentUpdate, Tournament
<1> HIDE DEF m, new, gp, bp
<1>2. m.counters = new
  BY <1>1 DEF Tournament
<1> QED BY <1>2 DEF m, new

\* It updates the bimodal table as that does itself.
LEMMA TournamentUpdateBimodal ==
  ASSUME NEW n \in Tournament, NEW pc \in Word, NEW taken \in BOOLEAN, NEW context \in Nat
  PROVE  TournamentUpdate(n, pc, context, taken).bp = BimodalUpdate(n.bp, pc, taken)
<1> DEFINE m == TournamentUpdate(n, pc, context, taken)
           bright == ContextBimodal(context) = taken
           gright == ContextGshare(context) = taken
           new == [n.counters EXCEPT ![Slot(pc)] =
                     IF gright = bright THEN @ ELSE Trained(@, bright)]
           gp == GshareUpdate(n.gp, ContextIndex(context), taken)
           bp == BimodalUpdate(n.bp, pc, taken)
<1>1. m = [n EXCEPT !.counters = new, !.gp = gp, !.bp = bp]
  BY DEF TournamentUpdate, Tournament
<1> HIDE DEF m, new, gp, bp
<1>2. m.bp = bp
  BY <1>1 DEF Tournament
<1> QED BY <1>2 DEF m, bp

\* The same of the tournament.
LEMMA TournamentCallsCommute ==
  ASSUME NEW n \in Tournament, NEW cur, NEW pc \in Word, NEW context \in Nat,
         NEW taken \in BOOLEAN, NEW at \in Word, NEW said, said.taken \in BOOLEAN
  PROVE  LET u == TournamentUpdate(n, at, context, taken)
         IN  /\ TournamentPredict(cur, u, pc) = TournamentPredict(cur, n, pc)
             /\ TournamentSpeculate(u, said)
                  = TournamentUpdate(TournamentSpeculate(n, said), at, context, taken)
<1> DEFINE u == TournamentUpdate(n, at, context, taken)
           s == TournamentSpeculate(n, said)
           a == TournamentSpeculate(u, said)
           b == TournamentUpdate(s, at, context, taken)
           index == ContextIndex(context)
<1>1. n.gp \in Gshare /\ index \in Histories
  <2>1. index \in Histories
    BY TablePredictorsAssumption DEF ContextIndex, Histories
  <2> QED BY <2>1, TournamentParts
<1>2. u \in Tournament /\ u.gp = GshareUpdate(n.gp, index, taken)
  BY TournamentUpdateType
<1>3. /\ s \in Tournament /\ s.gp = GshareSpeculate(n.gp, said.taken)
      /\ s.bp = n.bp /\ s.counters = n.counters
  BY TournamentSpeculateType
<1>4. u.bp = BimodalUpdate(n.bp, at, taken)
  BY TournamentUpdateBimodal
<1>5. u.counters = [n.counters EXCEPT ![Slot(at)] =
                  IF (ContextGshare(context) = taken) = (ContextBimodal(context) = taken)
                  THEN @ ELSE Trained(@, ContextBimodal(context) = taken)]
  BY TournamentUpdateCounters
<1> HIDE DEF u, s, index
<1>6. /\ a \in Tournament /\ a.gp = GshareSpeculate(u.gp, said.taken)
      /\ a.bp = u.bp /\ a.counters = u.counters
  BY <1>2, TournamentSpeculateType
<1>7. b \in Tournament /\ b.gp = GshareUpdate(s.gp, index, taken)
  BY <1>3, TournamentUpdateType DEF index
<1>8. b.bp = BimodalUpdate(s.bp, at, taken)
  BY <1>3, TournamentUpdateBimodal
<1>9. b.counters = [s.counters EXCEPT ![Slot(at)] =
                  IF (ContextGshare(context) = taken) = (ContextBimodal(context) = taken)
                  THEN @ ELSE Trained(@, ContextBimodal(context) = taken)]
  BY <1>3, TournamentUpdateCounters
<1> HIDE DEF a, b
<1>10. /\ GshareLookup(cur.gp, u.gp, pc) = GshareLookup(cur.gp, n.gp, pc)
       /\ GshareSpeculate(u.gp, said.taken)
            = GshareUpdate(GshareSpeculate(n.gp, said.taken), index, taken)
  BY <1>1, <1>2, GshareCallsCommute
<1>11. a.gp = b.gp /\ a.bp = b.bp /\ a.counters = b.counters
  BY <1>3, <1>4, <1>5, <1>6, <1>7, <1>8, <1>9, <1>10
<1>12. a = b
  BY <1>6, <1>7, <1>11, SameFields
<1>13. TournamentPredict(cur, u, pc) = TournamentPredict(cur, n, pc)
  BY <1>10 DEF TournamentPredict
<1> QED BY <1>12, <1>13 DEF a, b, u, s

\* Of a predictor that is not TAGE an update and a prediction commute.
LEMMA CallsCommute ==
  ASSUME kind \in AllKinds \ {"tage"}, p \in PredictorOf(kind), NEW pc \in Word,
         NEW b, b.pc \in Word, b.context \in Nat, kind = "gshare" => b.context \in Histories,
         NEW taken \in BOOLEAN, NEW pick
  PROVE  LET u == PredictorUpdate(p, b, taken, pick)
         IN  /\ Prediction(u, pc) = Prediction(p, pc)
             /\ SpeculativeOf(kind, u) = SpeculativeOf(kind, p)
             /\ Predict(u, pc) = PredictorUpdate(Predict(p, pc), b, taken, pick)
<1> DEFINE u == PredictorUpdate(p, b, taken, pick)
<1>1. SpeculativeOf(kind, u) = SpeculativeOf(kind, p)
  BY UpdateEffect
<1>2. CASE kind \in {"naive", "bimodal"}
  <2>1. \A n : Predict(n, pc) = n
    BY <1>2 DEF Predict
  <2>2. Prediction(u, pc) = Prediction(p, pc)
    BY <1>2 DEF Prediction
  <2> QED BY <1>1, <2>1, <2>2
<1>3. CASE kind = "gshare"
  <2> DEFINE said == GshareLookup(p, p, pc).taken
  <2>1. p \in Gshare /\ b.context \in Histories
    BY <1>3, PredictorKinds
  <2>2. said \in BOOLEAN
    BY <2>1, GshareLookupType
  <2>3. \A n : /\ PredictorUpdate(n, b, taken, pick) = GshareUpdate(n, b.context, taken)
               /\ Predict(n, pc) = GshareSpeculate(n, GshareLookup(p, n, pc).taken)
               /\ Prediction(n, pc) = GshareLookup(p, n, pc)
    BY <1>3 DEF PredictorUpdate, Predict, Prediction
  <2> HIDE DEF said
  <2>4. /\ GshareLookup(p, u, pc) = GshareLookup(p, p, pc)
        /\ GshareSpeculate(u, said) = GshareUpdate(GshareSpeculate(p, said), b.context, taken)
    BY <2>1, <2>2, <2>3, GshareCallsCommute
  <2>5. Predict(u, pc) = GshareSpeculate(u, said) /\ Predict(p, pc) = GshareSpeculate(p, said)
    BY <2>3, <2>4 DEF said
  <2> QED BY <1>1, <2>3, <2>4, <2>5
<1>4. CASE kind = "tournament"
  <2> DEFINE said == TournamentPredict(p, p, pc)
  <2>1. p \in Tournament
    BY <1>4, PredictorKinds
  <2>2. said.taken \in BOOLEAN
    BY <2>1, TournamentPredictType
  <2>3. \A n : /\ PredictorUpdate(n, b, taken, pick) = TournamentUpdate(n, b.pc, b.context, taken)
               /\ Predict(n, pc) = TournamentSpeculate(n, TournamentPredict(p, n, pc))
               /\ Prediction(n, pc) = TournamentPredict(p, n, pc)
    BY <1>4 DEF PredictorUpdate, Predict, Prediction
  <2> HIDE DEF said
  <2>4. /\ TournamentPredict(p, u, pc) = TournamentPredict(p, p, pc)
        /\ TournamentSpeculate(u, said)
             = TournamentUpdate(TournamentSpeculate(p, said), b.pc, b.context, taken)
    BY <2>1, <2>2, <2>3, TournamentCallsCommute
  <2>5. /\ Predict(u, pc) = TournamentSpeculate(u, said)
        /\ Predict(p, pc) = TournamentSpeculate(p, said)
    BY <2>3, <2>4 DEF said
  <2> QED BY <1>1, <2>3, <2>4, <2>5
<1> QED BY <1>2, <1>3, <1>4 DEF AllKinds

\* The oldest item in flight, in the types of an update.
LEMMA OldestType ==
  ASSUME Frame, Between(p, inflight, done), inflight # << >>
  PROVE  /\ Head(inflight) = inflight[1] /\ 1 \in DOMAIN inflight
         /\ inflight[1] \in InFlight /\ inflight[1].pc \in Word /\ inflight[1].context \in Nat
         /\ inflight[1].seen = CommittedOf(kind, p)
         /\ inflight[1].pc = At(1).pc /\ inflight[1].jump = At(1).jump
         /\ At(1).taken \in BOOLEAN /\ At(1) = script[done + 1]
         /\ (kind = "gshare" /\ ~inflight[1].jump) =>
              /\ inflight[1].context = GshareIndex(CommittedOf(kind, p), inflight[1].pc)
              /\ inflight[1].context \in Histories
         /\ (kind = "tournament" /\ ~inflight[1].jump) =>
              ContextIndex(inflight[1].context) = GshareIndex(CommittedOf(kind, p), inflight[1].pc)
<1>1. kind \in AllKinds /\ done \in Int /\ PCs \subseteq Word /\ inflight \in Seq(InFlight)
  BY PredictorsAssumption DEF Frame, Between
<1>2. Head(inflight) = inflight[1] /\ inflight[1] \in InFlight /\ 1 \in DOMAIN inflight
      /\ Len(inflight) > 0
  <2>1. Len(inflight) \in Nat \ {0} /\ DOMAIN inflight = 1 .. Len(inflight)
    BY <1>1, TailParts, LenProperties
  <2> QED BY <1>1, <2>1, TailParts
<1>3. inflight[1].pc \in Word /\ inflight[1].context \in Nat
  BY <1>1, <1>2 DEF InFlight
<1>4. inflight[1].seen = CommittedOf(kind, p)
  BY <1>2 DEF Between, ChainOf
<1>5. At(1) = ItemAt(done, 1) /\ 1 \in Int
  BY DEF At, ItemAt
<1>6. inflight[1].pc = At(1).pc /\ inflight[1].jump = At(1).jump
  <2>1. FollowsIn(inflight, done) /\ 1 .. 1 - 1 = {}
    BY DEF Between
  <2> QED BY <1>2, <1>5, <2>1 DEF FollowsIn
<1>7. At(1).taken \in BOOLEAN /\ At(1) = script[done + 1]
  <2>1. Len(script) \in Nat \ {0} /\ ItemAt(done, 1) \in Item
    BY <1>1, <1>5, ItemType
  <2>2. (done + 1 - 1) % Len(script) = done
    BY <2>1 DEF Frame
  <2> QED BY <1>5, <2>1, <2>2 DEF Item, ItemAt
<1>8. ~inflight[1].jump => RightContext(kind, inflight[1].context, inflight[1].seen, inflight[1].pc)
  BY <1>2 DEF Between, ContextsIn
<1>9. ASSUME kind = "gshare", ~inflight[1].jump PROVE inflight[1].context \in Histories
  <2>1. CommittedOf(kind, p) \in Histories
    <3>1. p \in MidPredictorOf(kind)
      BY <1>1, PredictorIsMid DEF Between
    <3>2. CommittedOf(kind, p) \in HistoriesOf(kind)
      BY <1>1, <3>1, HistoriesType
    <3> QED BY <1>9, <3>2, HistoryKinds
  <2>2. inflight[1].context = GshareIndex(CommittedOf(kind, p), inflight[1].pc)
    BY <1>4, <1>8, <1>9 DEF RightContext
  <2> QED BY <1>3, <2>1, <2>2, GshareRanges
<1> QED BY <1>2, <1>3, <1>4, <1>6, <1>7, <1>8, <1>9 DEF RightContext

\* The predictors that are tables keep the promise of the README that the
\* phases of a cycle may come in any order: an update before the prediction
\* leaves the same predictor, and the same branch in flight.
LEMMA OrderOfCalls ==
  PredictorInvariant => TablesIgnoreCallOrder
<1> SUFFICES ASSUME PredictorInvariant, kind # "tage", NEW item \in Fetchable,
                    NEW pick \in PicksNow, inflight # << >>
             PROVE  Commit(Fetch(Current, item), pick) = Fetch(Commit(Current, pick), item)
  BY DEF TablesIgnoreCallOrder, CallOrderIrrelevant
<1>1. Frame /\ Between(p, inflight, done)
  BY InvariantParts
<1>2. /\ p \in PredictorOf(kind) /\ kind \in AllKinds \ {"tage"} /\ inflight \in Seq(InFlight)
      /\ Len(inflight) <= MaxInFlight /\ PCs \subseteq Word
  BY <1>1, PredictorsAssumption DEF Frame, Between
<1> DEFINE b == Head(inflight)
           q == IF b.jump THEN p ELSE PredictorUpdate(p, b, At(1).taken, pick)
<1>3. Commit(Current, pick) = [p |-> q, inflight |-> Tail(inflight)]
  BY DEF Commit, Current
<1>4. CASE item = Nothing
  BY <1>4 DEF Fetch
<1>5. CASE item # Nothing
  <2> DEFINE said(r) == IF item.jump THEN [taken |-> FALSE, context |-> 0]
                                     ELSE Prediction(r, item.pc)
             e(r) == [pc |-> item.pc, jump |-> item.jump,
                      taken |-> said(r).taken, context |-> said(r).context,
                      seen |-> SpeculativeOf(kind, r)]
             After(r) == IF item.jump THEN r ELSE Predict(r, item.pc)
             Updated(r) == IF b.jump THEN r ELSE PredictorUpdate(r, b, At(1).taken, pick)
  <2>1. \A r, s : Fetch([p |-> r, inflight |-> s], item)
                    = [p |-> After(r), inflight |-> Append(s, e(r))]
    BY <1>5 DEF Fetch, Fetched
  <2>2. \A r, s : Commit([p |-> r, inflight |-> s], pick)
                    = [p |-> Updated(r), inflight |-> Tail(s)]
    BY DEF Commit
  <2>3. q = Updated(p) /\ Current = [p |-> p, inflight |-> inflight]
    BY DEF Current
  <2>4. item.pc \in Word
    BY <1>1, <1>2, <1>5, FetchableIs
  <2>5. /\ SpeculativeOf(kind, q) = SpeculativeOf(kind, p)
        /\ said(q) = said(p) /\ After(q) = Updated(After(p))
    <3>1. CASE b.jump
      BY <3>1
    <3>2. CASE ~b.jump
      <4>1. /\ b.pc \in Word /\ b.context \in Nat /\ At(1).taken \in BOOLEAN
            /\ kind = "gshare" => b.context \in Histories
        BY <1>1, <3>2, OldestType
      <4>2. q = PredictorUpdate(p, b, At(1).taken, pick)
        BY <3>2
      <4> HIDE DEF b, q
      <4>3. /\ Prediction(q, item.pc) = Prediction(p, item.pc)
            /\ SpeculativeOf(kind, q) = SpeculativeOf(kind, p)
            /\ Predict(q, item.pc) = PredictorUpdate(Predict(p, item.pc), b, At(1).taken, pick)
        BY <1>2, <2>4, <4>1, <4>2, CallsCommute
      <4>4. q = PredictorUpdate(p, b, At(1).taken, pick) /\ ~b.jump
        BY <3>2, <4>2 DEF b
      <4> QED BY <4>3, <4>4
    <3> QED BY <3>1, <3>2
  <2>6. e(q) = e(p)
    BY <2>5
  <2>7. Tail(Append(inflight, e(p))) = Append(Tail(inflight), e(p))
    BY <1>2, HeadTailAppend
  <2> HIDE DEF b, q, said, e, After, Updated
  <2>8. Commit(Fetch(Current, item), pick)
          = [p |-> Updated(After(p)), inflight |-> Tail(Append(inflight, e(p)))]
    BY <2>1, <2>2, <2>3
  <2>9. Fetch(Commit(Current, pick), item)
          = [p |-> After(q), inflight |-> Append(Tail(inflight), e(q))]
    BY <1>3, <2>1
  <2> QED BY <2>5, <2>6, <2>7, <2>8, <2>9
<1> QED BY <1>4, <1>5

\* The order of a prediction and an update in a cycle makes no difference to
\* the naive, bimodal, gshare and tournament predictors (TablesIgnoreCallOrder).
THEOREM TablesIgnoreOrder ==
  Spec => []TablesIgnoreCallOrder
BY OrderOfCalls, PredictorInvariance, PTL

----------------------------------------------------------------------------
(* What gshare learns                                                      *)

\* The gshare in a predictor that has one, and the index in a context.
HasGshare == kind \in {"gshare", "tournament"}
GshareIn(q) == IF kind = "gshare" THEN q ELSE q.gp
IndexIn(context) == IF kind = "gshare" THEN context ELSE ContextIndex(context)

\* What the program has taught gshare so far.
Learnt(q, pht, ghr) == GshareIn(q).pht = pht /\ GshareIn(q).committed_ghr = ghr

\* The gshare in a predictor is one.
LEMMA GshareInType ==
  ASSUME HasGshare, NEW q \in PredictorOf(kind)
  PROVE  GshareIn(q) \in Gshare
<1>1. CASE kind = "gshare"
  BY <1>1, PredictorKinds DEF GshareIn
<1>2. CASE kind = "tournament"
  BY <1>2, PredictorKinds, TournamentParts DEF GshareIn
<1> QED BY <1>1, <1>2 DEF HasGshare

\* Neither a prediction, nor a squash, nor the clock teaches it anything.
LEMMA OnlyUpdatesTeach ==
  ASSUME HasGshare, p \in PredictorOf(kind), NEW n \in PredictorOf(kind)
  PROVE  /\ \A pc \in Word : Learnt(Predict(n, pc), GshareIn(n).pht, GshareIn(n).committed_ghr)
         /\ Learnt(PredictorRecover(n), GshareIn(n).pht, GshareIn(n).committed_ghr)
         /\ Clocked(n) = n
<1>1. ASSUME NEW pc \in Word
      PROVE  Learnt(Predict(n, pc), GshareIn(n).pht, GshareIn(n).committed_ghr)
  <2>1. CASE kind = "gshare"
    <3> DEFINE said == GshareLookup(p, n, pc).taken
               m == GshareSpeculate(n, said)
    <3>1. n \in Gshare /\ Predict(n, pc) = m
      BY <2>1, PredictorKinds DEF Predict
    <3>2. said \in BOOLEAN
      BY <3>1, GshareLookupType
    <3> HIDE DEF said
    <3>3. m.pht = n.pht /\ m.committed_ghr = n.committed_ghr
      BY <3>1, <3>2, GshareSpeculateType
    <3> HIDE DEF m
    <3> QED BY <2>1, <3>1, <3>3 DEF Learnt, GshareIn
  <2>2. CASE kind = "tournament"
    <3> DEFINE said == TournamentPredict(p, n, pc)
               m == TournamentSpeculate(n, said)
    <3>1. n \in Tournament /\ p \in Tournament /\ Predict(n, pc) = m
      BY <2>2, PredictorKinds DEF Predict
    <3>2. said.taken \in BOOLEAN /\ n.gp \in Gshare
      BY <3>1, TournamentPredictType, TournamentParts
    <3> HIDE DEF said
    <3>3. m.gp = GshareSpeculate(n.gp, said.taken)
      BY <3>1, <3>2, TournamentSpeculateType
    <3> HIDE DEF m
    <3>4. m.gp.pht = n.gp.pht /\ m.gp.committed_ghr = n.gp.committed_ghr
      BY <3>2, <3>3, GshareSpeculateType
    <3> QED BY <2>2, <3>1, <3>4 DEF Learnt, GshareIn
  <2> QED BY <2>1, <2>2 DEF HasGshare
<1>2. Learnt(PredictorRecover(n), GshareIn(n).pht, GshareIn(n).committed_ghr)
  <2>1. CASE kind = "gshare"
    <3>1. n \in Gshare /\ PredictorRecover(n) = GshareRecover(n)
      BY <2>1, PredictorKinds DEF PredictorRecover
    <3> QED BY <2>1, <3>1, GshareRecoverType DEF Learnt, GshareIn
  <2>2. CASE kind = "tournament"
    <3>1. n \in Tournament /\ PredictorRecover(n) = TournamentRecover(n) /\ n.gp \in Gshare
      BY <2>2, PredictorKinds, TournamentParts DEF PredictorRecover
    <3>2. TournamentRecover(n).gp = GshareRecover(n.gp)
      BY <3>1, TournamentRecoverType
    <3> QED BY <2>2, <3>1, <3>2, GshareRecoverType DEF Learnt, GshareIn
  <2> QED BY <2>1, <2>2 DEF HasGshare
<1>3. Clocked(n) = n
  BY DEF HasGshare, Clocked
<1> QED BY <1>1, <1>2, <1>3

\* An update teaches it the outcome at the index of its context.
LEMMA UpdateTeaches ==
  ASSUME HasGshare, NEW n \in PredictorOf(kind), NEW b, b.pc \in Word, b.context \in Nat,
         IndexIn(b.context) \in Histories, NEW taken \in BOOLEAN, NEW pick
  PROVE  /\ PredictorUpdate(n, b, taken, pick) \in PredictorOf(kind)
         /\ Learnt(PredictorUpdate(n, b, taken, pick),
                   [GshareIn(n).pht EXCEPT ![IndexIn(b.context)] = Trained(@, taken)],
                   GsharePush(GshareIn(n).committed_ghr, taken))
<1> DEFINE g == GshareIn(n)
           i == IndexIn(b.context)
           m == PredictorUpdate(n, b, taken, pick)
           u == GshareUpdate(g, i, taken)
<1>1. g \in Gshare
  BY GshareInType
<1>2. m \in PredictorOf(kind) /\ GshareIn(m) = u
  <2>1. CASE kind = "gshare"
    <3>1. m = GshareUpdate(n, b.context, taken) /\ g = n /\ i = b.context
      BY <2>1 DEF PredictorUpdate, GshareIn, IndexIn
    <3>2. m = u
      BY <3>1
    <3> HIDE DEF m, g, i
    <3>3. u \in Gshare
      BY <1>1, GshareUpdateType DEF i
    <3> HIDE DEF u
    <3> QED BY <2>1, <3>2, <3>3, PredictorKinds DEF GshareIn
  <2>2. CASE kind = "tournament"
    <3>1. /\ m = TournamentUpdate(n, b.pc, b.context, taken) /\ g = n.gp
          /\ i = ContextIndex(b.context) /\ n \in Tournament
      BY <2>2, PredictorKinds DEF PredictorUpdate, GshareIn, IndexIn
    <3>2. m \in Tournament /\ m.gp = GshareUpdate(n.gp, ContextIndex(b.context), taken)
      BY <3>1, TournamentUpdateType
    <3> HIDE DEF m, g, i
    <3> QED BY <2>2, <3>1, <3>2, PredictorKinds DEF GshareIn
  <2> QED BY <2>1, <2>2 DEF HasGshare
<1> HIDE DEF g, i, m
<1>3. u.committed_ghr = GsharePush(g.committed_ghr, taken)
  BY <1>1, GshareUpdateType DEF i
<1>4. u.pht = [g.pht EXCEPT ![i] = Trained(@, taken)]
  BY <1>1, GshareUpdatePht DEF i
<1> HIDE DEF u
<1>5. Learnt(m, [g.pht EXCEPT ![i] = Trained(@, taken)], GsharePush(g.committed_ghr, taken))
  BY <1>2, <1>3, <1>4 DEF Learnt
<1> QED BY <1>2, <1>5 DEF g, i, m

\* A fetch teaches it nothing.
LEMMA FetchTeachesNothing ==
  ASSUME HasGshare, Frame, Between(p, inflight, done), NEW item \in Fetchable
  PROVE  Learnt(Fetch(Current, item).p, GshareIn(p).pht, GshareIn(p).committed_ghr)
<1>1. Current.p = p
  BY DEF Current
<1>2. CASE item = Nothing \/ item.jump
  BY <1>1, <1>2 DEF Fetch, Fetched, Learnt
<1>3. CASE item # Nothing /\ ~item.jump
  <2>1. Fetch(Current, item).p = Predict(p, item.pc)
    BY <1>1, <1>3 DEF Fetch, Fetched
  <2>2. item.pc \in Word
    BY <1>3, FetchableIs, PredictorsAssumption DEF Between
  <2> QED BY <2>1, <2>2, OnlyUpdatesTeach DEF Between
<1> QED BY <1>2, <1>3

\* A step of the predictor in the terms of the in-order gshare.
LEMMA LearnsOneItem ==
  ASSUME HasGshare, PredictorInvariant, CycleWithCommit
  PROVE  LET b == script[done + 1]
             g == GshareIn(p)
         IN  IF b.jump THEN Learnt(p', g.pht, g.committed_ghr)
             ELSE Learnt(p', [g.pht EXCEPT ![GshareIndex(g.committed_ghr, b.pc)]
                                             = Trained(@, b.taken)],
                         GsharePush(g.committed_ghr, b.taken))
<1>1. /\ Frame /\ Between(p, inflight, done) /\ inflight # << >> /\ p \in PredictorOf(kind)
      /\ kind \in AllKinds
  BY InvariantParts, PredictorsAssumption DEF CycleWithCommit, Between, Frame
<1>2. PICK item \in Fetchable, pick \in PicksNow :
        LET committed == Commit(Fetch(Current, item), pick)
        IN  Clock(IF Missed(1) THEN Squash(committed) ELSE committed)
  BY DEF CycleWithCommit
<1> DEFINE n == Fetch(Current, item)
           c == Commit(n, pick)
           b == inflight[1]
           g == GshareIn(p)
           i == GshareIndex(g.committed_ghr, b.pc)
           pht == IF b.jump THEN g.pht ELSE [g.pht EXCEPT ![i] = Trained(@, At(1).taken)]
           ghr == IF b.jump THEN g.committed_ghr ELSE GsharePush(g.committed_ghr, At(1).taken)
<1>3. /\ Head(inflight) = b /\ b.pc \in Word /\ b.context \in Nat
      /\ b.pc = At(1).pc /\ b.jump = At(1).jump /\ At(1).taken \in BOOLEAN
      /\ At(1) = script[done + 1]
  BY <1>1, OldestType
<1>4. g \in Gshare /\ CommittedOf(kind, p) = g.committed_ghr
  <2>1. g \in Gshare
    BY <1>1, GshareInType
  <2>2. CommittedOf(kind, p) = g.committed_ghr
    BY HistoryKinds DEF HasGshare, GshareIn
  <2> QED BY <2>1, <2>2
<1>5. i \in Histories /\ (~b.jump => IndexIn(b.context) = i)
  <2>1. i \in Histories
    BY <1>3, <1>4, GshareRanges DEF Gshare
  <2>2. ~b.jump => IndexIn(b.context) = i
    BY <1>1, <1>4, OldestType DEF HasGshare, IndexIn
  <2> QED BY <2>1, <2>2
<1>6. n.p \in PredictorOf(kind) /\ GshareIn(n.p).pht = g.pht
      /\ GshareIn(n.p).committed_ghr = g.committed_ghr
  <2>1. Learnt(n.p, g.pht, g.committed_ghr)
    BY <1>1, FetchTeachesNothing
  <2>2. n.p \in PredictorOf(kind)
    BY <1>1, FetchEffect DEF Between
  <2> QED BY <2>1, <2>2 DEF Learnt
<1>7. c.p = IF b.jump THEN n.p ELSE PredictorUpdate(n.p, b, At(1).taken, pick)
  BY <1>3 DEF Commit
<1>8. p' = IF Missed(1) THEN Clocked(PredictorRecover(c.p)) ELSE Clocked(c.p)
  BY <1>2 DEF Clock, Clocked, Squash
<1> HIDE DEF n, c, b, g, i
<1>9. c.p \in PredictorOf(kind) /\ Learnt(c.p, pht, ghr)
  <2>1. CASE b.jump
    BY <1>6, <1>7, <2>1 DEF Learnt
  <2>2. CASE ~b.jump
    BY <1>3, <1>5, <1>6, <1>7, <2>2, UpdateTeaches
  <2> QED BY <2>1, <2>2
<1>10. Clocked(c.p) = c.p
  BY <1>1, <1>9, OnlyUpdatesTeach
<1>11. Learnt(PredictorRecover(c.p), pht, ghr)
       /\ Clocked(PredictorRecover(c.p)) = PredictorRecover(c.p)
  <2>1. Learnt(PredictorRecover(c.p), pht, ghr)
    BY <1>1, <1>9, OnlyUpdatesTeach DEF Learnt
  <2>2. PredictorRecover(c.p) \in PredictorOf(kind)
    <3>1. c.p \in MidPredictorOf(kind)
      BY <1>1, <1>9, PredictorIsMid
    <3>2. PredictorRecover(c.p) \in MidPredictorOf(kind)
      BY <1>1, <3>1, RecoverEffect
    <3> QED BY <3>2 DEF MidPredictorOf, HasGshare
  <2> QED BY <1>1, <2>1, <2>2, OnlyUpdatesTeach
<1>12. Learnt(p', pht, ghr)
  BY <1>8, <1>9, <1>10, <1>11
<1> QED BY <1>3, <1>12 DEF pht, ghr, g, i

\* The gshare of the properties is the one in the predictor.
LEMMA GshareOfIs ==
  /\ HasGshare => GshareOf = GshareIn(p)
  /\ kind \in AllKinds /\ ~HasGshare => GshareOf = GshareInit
BY DEF GshareOf, GshareIn, HasGshare, AllKinds

\* The two modules compute with the same operators.
LEMMA InOrderOperators ==
  /\ \A h, pc : InOrder!GshareIndex(h, pc) = GshareIndex(h, pc)
  /\ \A h, taken : InOrder!GsharePush(h, taken) = GsharePush(h, taken)
  /\ \A counter, taken : InOrder!Trained(counter, taken) = Trained(counter, taken)
<1>1. \A a, b : InOrder!Xor(a, b) = Xor(a, b)
  BY DEF InOrder!Xor, InOrder!BitWise, InOrder!XorBit, InOrder!Bit, InOrder!WordBits,
         Xor, BitWise, XorBit, Bit, WordBits
<1>2. \A h, pc : InOrder!GshareIndex(h, pc) = GshareIndex(h, pc)
  BY <1>1 DEF InOrder!GshareIndex, GshareIndex, InOrder!WordPc, WordPc
<1>3. \A h, taken : InOrder!GsharePush(h, taken) = GsharePush(h, taken)
  BY DEF InOrder!GsharePush, GsharePush, InOrder!Num, Num
<1>4. \A counter, taken : InOrder!Trained(counter, taken) = Trained(counter, taken)
  BY DEF InOrder!Trained, Trained
<1> QED BY <1>2, <1>3, <1>4

\* Gshare, alone or inside the tournament, learns what the one learns that is
\* told of every branch at once and in order, however predictions, updates and
\* squashes interleave (LearnsInOrder).
THEOREM GshareLearnsInOrder ==
  Spec => LearnsInOrder
<1> DEFINE ghr == GshareOf.committed_ghr
           pht == GshareOf.pht
           place == IF kind \in {"gshare", "tournament"} THEN done ELSE 0
<1>1. Init => InOrder!Init
  <2> SUFFICES ASSUME Init PROVE InOrder!Init
    OBVIOUS
  <2>1. GshareOf.committed_ghr = 0 /\ GshareOf.pht = [h \in Histories |-> 1]
    BY DEF Init, GshareOf, GshareInit, TournamentInit
  <2>2. script # << >> /\ done = 0
    BY PredictorsAssumption DEF Init
  <2> QED BY <2>1, <2>2 DEF InOrder!Init, Histories, InOrder!Histories
<1>2. ASSUME PredictorInvariant, [Next]_vars
      PROVE  [InOrder!Next]_<<script, place, ghr, pht>>
  <2>1. script' = script /\ kind' = kind /\ Frame /\ Between(p, inflight, done)
        /\ kind \in AllKinds
    BY <1>2, InvariantParts, PredictorsAssumption
    DEF Next, CycleWithCommit, CycleWithoutCommit, vars, Frame
  <2>2. CASE ~HasGshare
    <3>1. GshareOf = GshareInit /\ GshareOf' = GshareInit
      BY <2>1, <2>2 DEF GshareOf, HasGshare, AllKinds
    <3>2. place' = place /\ ghr' = ghr /\ pht' = pht
      BY <2>1, <2>2, <3>1 DEF HasGshare
    <3> QED BY <2>1, <3>2
  <2>3. CASE HasGshare /\ UNCHANGED vars
    BY <2>3 DEF vars, GshareOf
  <2>4. ASSUME HasGshare, ~UNCHANGED vars
        PROVE  /\ ghr = GshareIn(p).committed_ghr /\ pht = GshareIn(p).pht /\ place = done
               /\ ghr' = GshareIn(p').committed_ghr /\ pht' = GshareIn(p').pht
               /\ place' = done'
    <3>1. GshareOf = GshareIn(p) /\ GshareOf' = GshareIn(p')
      BY <2>1, <2>4 DEF GshareOf, GshareIn, HasGshare
    <3> QED BY <2>1, <2>4, <3>1 DEF HasGshare
  <2>5. CASE HasGshare /\ CycleWithoutCommit
    <3>1. ~UNCHANGED vars => UNCHANGED <<script, place, ghr, pht>>
      <4> SUFFICES ASSUME ~UNCHANGED vars PROVE UNCHANGED <<script, place, ghr, pht>>
        OBVIOUS
      <4>1. PICK item \in Fetchable : Clock(Fetch(Current, item))
        BY <2>5 DEF CycleWithoutCommit
      <4> DEFINE n == Fetch(Current, item)
      <4>2. Learnt(n.p, GshareIn(p).pht, GshareIn(p).committed_ghr)
        BY <2>1, <2>5, FetchTeachesNothing
      <4>3. n.p \in PredictorOf(kind)
        BY <2>1, FetchEffect DEF Between
      <4>4. p' = Clocked(n.p)
        BY <4>1 DEF Clock, Clocked
      <4> HIDE DEF n
      <4>5. p' = n.p
        BY <2>1, <2>5, <4>3, <4>4, OnlyUpdatesTeach DEF Between
      <4>6. done' = done
        BY <2>5 DEF CycleWithoutCommit
      <4> HIDE DEF ghr, pht, place
      <4> QED BY <2>1, <2>4, <2>5, <4>2, <4>5, <4>6 DEF Learnt
    <3> HIDE DEF ghr, pht, place
    <3> QED BY <2>3, <2>5, <3>1
  <2>6. CASE HasGshare /\ CycleWithCommit
    <3> SUFFICES ASSUME ~UNCHANGED vars PROVE [InOrder!Next]_<<script, place, ghr, pht>>
      BY <2>3, <2>6
    <3> DEFINE b == script[done + 1]
               g == GshareIn(p)
               i == GshareIndex(g.committed_ghr, b.pc)
    <3>1. IF b.jump THEN Learnt(p', g.pht, g.committed_ghr)
          ELSE Learnt(p', [g.pht EXCEPT ![i] = Trained(@, b.taken)],
                      GsharePush(g.committed_ghr, b.taken))
      BY <1>2, <2>6, LearnsOneItem
    <3>2. place' = (place + 1) % Len(script) /\ script' = script /\ place = done
      BY <2>1, <2>4, <2>6 DEF CycleWithCommit
    <3>3. /\ ghr = g.committed_ghr /\ pht = g.pht
          /\ ghr' = GshareIn(p').committed_ghr /\ pht' = GshareIn(p').pht
      BY <2>4, <2>6
    <3> HIDE DEF ghr, pht, place, g
    <3>4. CASE b.jump
      <4>1. ghr' = ghr /\ pht' = pht
        BY <3>1, <3>3, <3>4 DEF Learnt
      <4>2. script[place + 1].jump
        BY <3>2, <3>4
      <4> HIDE DEF b
      <4> QED BY <3>2, <4>1, <4>2 DEF InOrder!Next, InOrder!Jump, ghr, pht, place
    <3>5. CASE ~b.jump
      <4>1. /\ ghr' = GsharePush(ghr, script[place + 1].taken)
            /\ pht' = [pht EXCEPT ![GshareIndex(ghr, script[place + 1].pc)]
                          = Trained(@, script[place + 1].taken)]
        BY <3>1, <3>2, <3>3, <3>5 DEF Learnt
      <4>2. ~script[place + 1].jump
        BY <3>2, <3>5
      <4> HIDE DEF b, i
      <4>3. /\ ghr' = InOrder!GsharePush(ghr, script[place + 1].taken)
            /\ pht' = [pht EXCEPT ![InOrder!GshareIndex(ghr, script[place + 1].pc)]
                          = InOrder!Trained(@, script[place + 1].taken)]
        BY <4>1, InOrderOperators
      <4> QED BY <3>2, <4>2, <4>3 DEF InOrder!Next, InOrder!Learn, ghr, pht, place
    <3> QED BY <3>4, <3>5
  <2> HIDE DEF ghr, pht, place
  <2> QED BY <1>2, <2>2, <2>3, <2>5, <2>6 DEF Next
<1>3. Spec => InOrder!Init /\ [][InOrder!Next]_<<script, place, ghr, pht>>
  BY <1>1, <1>2, PredictorInvariance, PTL DEF Spec
<1> QED BY <1>3 DEF LearnsInOrder, InOrder!Spec

----------------------------------------------------------------------------
(* TAGE implements the interface of the pipeline                           *)

\* The two modules allocate the same tokens.
LEMMA InterfaceOperators ==
  /\ Interface!Tokens = Tokens
  /\ \A t : Interface!TokenAfter(t) = TokenAfter(t)
  /\ \A n : Interface!LiveTokens(n) = LiveTokens(n)
  /\ \A n : Interface!FreshToken(n) = FreshToken(n)
<1>1. Interface!Tokens = Tokens
  BY DEF Interface!Tokens, Tokens
<1>2. \A t : Interface!TokenAfter(t) = TokenAfter(t)
  BY DEF Interface!TokenAfter, TokenAfter
<1>3. \A n : Interface!LiveTokens(n) = LiveTokens(n)
  BY DEF Interface!LiveTokens, LiveTokens
<1>4. \A from, t : Interface!TokenDist(from, t) = TokenDist(from, t)
  BY DEF Interface!TokenDist, TokenDist
<1>5. \A n : Interface!FreshToken(n) = FreshToken(n)
  BY <1>1, <1>3, <1>4 DEF Interface!FreshToken, FreshToken
<1> QED BY <1>1, <1>2, <1>3, <1>5

\* What the interface shows of a checkpoint, of a queue of them, and of TAGE.
Shown(c) == [token |-> c.token, pc |-> c.pc, final_prediction |-> c.final_prediction]
ShownQueue(cps) == [k \in DOMAIN cps |-> Shown(cps[k])]
ShownTage(q) == [checkpoints |-> ShownQueue(q.checkpoints), next_token |-> q.next_token]

\* The queue that is shown has the places of the one that is kept.
LEMMA ShownParts ==
  ASSUME NEW cps \in Seq(TageCheckpoint)
  PROVE  /\ ShownQueue(cps) \in Seq({Shown(c) : c \in TageCheckpoint})
         /\ Len(ShownQueue(cps)) = Len(cps) /\ DOMAIN ShownQueue(cps) = DOMAIN cps
         /\ \A k \in DOMAIN cps : ShownQueue(cps)[k] = Shown(cps[k])
<1>1. Len(cps) \in Nat /\ DOMAIN cps = 1 .. Len(cps)
  BY LenProperties
<1>2. \A k \in 1 .. Len(cps) : cps[k] \in TageCheckpoint
  BY <1>1, ElementOfSeq
<1>3. ShownQueue(cps) = [k \in 1 .. Len(cps) |-> Shown(cps[k])]
  BY <1>1 DEF ShownQueue
<1>4. ShownQueue(cps) \in Seq({Shown(c) : c \in TageCheckpoint}) /\ Len(ShownQueue(cps)) = Len(cps)
  <2>1. \A k \in 1 .. Len(cps) : Shown(cps[k]) \in {Shown(c) : c \in TageCheckpoint}
    BY <1>2
  <2> HIDE DEF Shown
  <2> QED BY <1>1, <1>3, <2>1
<1> QED BY <1>1, <1>3, <1>4

\* It shows a prediction as an Append, an update as a Tail.
LEMMA ShownMoves ==
  ASSUME NEW cps \in Seq(TageCheckpoint)
  PROVE  /\ \A c \in TageCheckpoint :
              ShownQueue(Append(cps, c)) = Append(ShownQueue(cps), Shown(c))
         /\ cps # << >> => /\ ShownQueue(cps) # << >>
                           /\ ShownQueue(Tail(cps)) = Tail(ShownQueue(cps))
         /\ ShownQueue(<< >>) = << >>
<1> DEFINE S == {Shown(c) : c \in TageCheckpoint}
           v == ShownQueue(cps)
           n == Len(cps)
<1>1. /\ v \in Seq(S) /\ Len(v) = n /\ n \in Nat /\ DOMAIN cps = 1 .. n
      /\ \A k \in 1 .. n : v[k] = Shown(cps[k])
  BY ShownParts, LenProperties
<1> HIDE DEF v, S
<1>2. ASSUME NEW c \in TageCheckpoint
      PROVE  ShownQueue(Append(cps, c)) = Append(v, Shown(c))
  <2> DEFINE a == Append(cps, c)
             b == Append(v, Shown(c))
             w == ShownQueue(a)
  <2>1. /\ a \in Seq(TageCheckpoint) /\ Len(a) = n + 1 /\ DOMAIN a = 1 .. n + 1 /\ a[n + 1] = c
        /\ \A k \in 1 .. n : a[k] = cps[k]
    BY AppendParts
  <2>2. /\ b \in Seq(S) /\ Len(b) = n + 1 /\ b[n + 1] = Shown(c)
        /\ \A k \in 1 .. n : b[k] = v[k]
    <3>1. Shown(c) \in S
      BY DEF S
    <3> QED BY <1>1, <3>1, AppendParts
  <2> HIDE DEF a, b, n
  <2>3. /\ w \in Seq(S) /\ Len(w) = n + 1
        /\ \A k \in 1 .. n + 1 : w[k] = Shown(a[k])
    BY <2>1, ShownParts DEF S
  <2> HIDE DEF w, Shown
  <2>4. ASSUME NEW k \in 1 .. n + 1 PROVE w[k] = b[k]
    <3>1. CASE k = n + 1
      BY <2>1, <2>2, <2>3, <3>1
    <3>2. CASE k \in 1 .. n
      BY <1>1, <2>1, <2>2, <2>3, <3>2
    <3> QED BY <1>1, <3>1, <3>2
  <2>5. w = b
    BY <2>2, <2>3, <2>4, SeqEqual
  <2> QED BY <2>5 DEF w, a, b
<1>3. ASSUME cps # << >>
      PROVE  v # << >> /\ ShownQueue(Tail(cps)) = Tail(v)
  <2> DEFINE a == Tail(cps)
             b == Tail(v)
             w == ShownQueue(a)
  <2>1. /\ a \in Seq(TageCheckpoint) /\ Len(a) = n - 1 /\ DOMAIN a = 1 .. n - 1
        /\ n \in Nat \ {0} /\ \A k \in 1 .. n - 1 : a[k] = cps[k + 1]
    BY <1>3, TailParts
  <2>2. v # << >>
    BY <1>1, <2>1, EmptySeq
  <2>3. /\ b \in Seq(S) /\ Len(b) = n - 1 /\ \A k \in 1 .. n - 1 : b[k] = v[k + 1]
    BY <1>1, <2>2, TailParts
  <2> HIDE DEF a, b, n
  <2>4. /\ w \in Seq(S) /\ Len(w) = n - 1 /\ \A k \in 1 .. n - 1 : w[k] = Shown(a[k])
    BY <2>1, ShownParts DEF S
  <2> HIDE DEF w, Shown
  <2>5. ASSUME NEW k \in 1 .. n - 1 PROVE w[k] = b[k]
    <3>1. k + 1 \in 1 .. n
      BY <2>1
    <3> QED BY <1>1, <2>1, <2>3, <2>4, <3>1
  <2>6. w = b
    BY <2>3, <2>4, <2>5, SeqEqual
  <2> QED BY <2>2, <2>6 DEF w, a, b
<1>4. ShownQueue(<< >>) = << >>
  <2>1. << >> \in Seq(TageCheckpoint)
    OBVIOUS
  <2>2. Len(ShownQueue(<< >>)) = 0 /\ ShownQueue(<< >>) \in Seq(S)
    BY <2>1, ShownParts, EmptySeq DEF S
  <2> QED BY <2>2, EmptySeq
<1> QED BY <1>2, <1>3, <1>4 DEF v

\* The tokens in use are those that are shown, and the next one is the same.
LEMMA ShownTokens ==
  ASSUME NEW q, q.checkpoints \in Seq(TageCheckpoint)
  PROVE  /\ Interface!LiveTokens(ShownTage(q)) = LiveTokens(q)
         /\ Interface!FreshToken(ShownTage(q)) = FreshToken(q)
<1>1. LiveTokens(ShownTage(q)) = LiveTokens(q)
  <2> DEFINE cps == q.checkpoints
  <2>3. /\ DOMAIN ShownQueue(cps) = DOMAIN cps
        /\ \A k \in DOMAIN cps : ShownQueue(cps)[k] = Shown(cps[k])
    BY ShownParts
  <2>4. \A c : Shown(c).token = c.token
    BY DEF Shown
  <2>1. /\ DOMAIN ShownQueue(cps) = DOMAIN cps
        /\ \A k \in DOMAIN cps : ShownQueue(cps)[k].token = cps[k].token
    BY <2>3, <2>4
  <2>2. ShownTage(q).checkpoints = ShownQueue(q.checkpoints)
    BY DEF ShownTage
  <2> HIDE DEF ShownQueue, ShownTage
  <2> QED BY <2>1, <2>2 DEF LiveTokens
<1>2. ShownTage(q).next_token = q.next_token
  BY DEF ShownTage
<1>3. FreshToken(ShownTage(q)) = FreshToken(q)
  <2> HIDE DEF ShownTage
  <2> QED BY <1>1, <1>2 DEF FreshToken
<1> QED BY <1>1, <1>3, InterfaceOperators

\* What fetch does to the checkpoints.
LEMMA FetchShown ==
  ASSUME kind = "tage", Frame, Between(p, inflight, done), NEW item \in Fetchable
  PROVE  \E predicts, taken \in BOOLEAN, pc \in PCs :
           /\ predicts => Interface!LiveTokens(ShownTage(p)) # Interface!Tokens
           /\ ShownTage(Fetch(Current, item).p) =
                IF predicts THEN Interface!BpPredict(ShownTage(p), pc, taken) ELSE ShownTage(p)
<1>1. p \in TagePredictor /\ inflight \in Seq(InFlight) /\ Len(inflight) <= MaxInFlight
      /\ Aligned(p.checkpoints, inflight) /\ p.checkpoints \in Seq(TageCheckpoint)
  <2>1. p \in TagePredictor
    BY PredictorKinds DEF Between
  <2> QED BY <2>1 DEF Between, TagePredictor
<1>2. Current.p = p
  BY DEF Current
<1>3. CASE item = Nothing \/ item.jump
  <2>1. Fetch(Current, item).p = p
    BY <1>2, <1>3 DEF Fetch, Fetched
  <2>2. PICK pc : pc \in PCs
    <3>1. ItemAt(0, 1).pc \in PCs
      <4>1. 0 \in Int /\ 1 \in Int
        OBVIOUS
      <4>2. ItemAt(0, 1) \in Item
        BY <4>1, ItemType
      <4> QED BY <4>2 DEF Item
    <3> QED BY <3>1
  <2> HIDE DEF ShownTage
  <2> QED BY <2>1, <2>2
<1>4. CASE item # Nothing /\ ~item.jump
  <2>1. Fetch(Current, item).p = Predict(p, item.pc)
    BY <1>2, <1>4 DEF Fetch, Fetched
  <2>2. item.pc \in PCs /\ item.pc \in Word /\ Len(inflight) < MaxInFlight
    BY <1>1, <1>4, FetchableIs, PredictorsAssumption
  <2>3. Len(p.checkpoints) < MaxToken
    <3>1. Len(p.checkpoints) <= Len(inflight) /\ Len(p.checkpoints) \in Nat
          /\ Len(inflight) \in Nat
      BY <1>1, AlignedFits, LenProperties
    <3>2. MaxInFlight \in 1 .. MaxToken /\ MaxToken \in Nat
      BY PredictorsAssumption, MaxTokenAssumption
    <3> DEFINE a == Len(p.checkpoints)
               b == Len(inflight)
    <3> HIDE DEF a, b
    <3>3. a \in Nat /\ b \in Nat /\ a <= b /\ b < MaxInFlight
      BY <2>2, <3>1 DEF a, b
    <3>4. a < MaxToken
      BY <3>2, <3>3
    <3> QED BY <3>4 DEF a
  <2> DEFINE m == Predict(p, item.pc)
  <2>4. LiveTokens(p) # Tokens
    BY <1>1, <2>2, <2>3, TageFetch
  <2>5. PICK c \in TageCheckpoint :
          /\ c.token = FreshToken(p) /\ c.pc = item.pc
          /\ m.checkpoints = Append(p.checkpoints, c) /\ m.next_token = TokenAfter(FreshToken(p))
    BY <1>1, <2>2, <2>3, TageFetch
  <2> HIDE DEF m
  <2>6. c.final_prediction \in BOOLEAN
    BY DEF TageCheckpoint
  <2>7. /\ Interface!LiveTokens(ShownTage(p)) = LiveTokens(p)
        /\ Interface!FreshToken(ShownTage(p)) = FreshToken(p)
    BY <1>1, ShownTokens
  <2>8. Interface!BpPredict(ShownTage(p), item.pc, c.final_prediction)
          = [checkpoints |-> Append(ShownQueue(p.checkpoints), Shown(c)),
             next_token |-> TokenAfter(FreshToken(p))]
    <3>1. Shown(c) = [token |-> Interface!FreshToken(ShownTage(p)), pc |-> item.pc,
                      final_prediction |-> c.final_prediction]
      BY <2>5, <2>7 DEF Shown
    <3>2. ShownTage(p).checkpoints = ShownQueue(p.checkpoints)
      BY DEF ShownTage
    <3>3. Interface!TokenAfter(Interface!FreshToken(ShownTage(p))) = TokenAfter(FreshToken(p))
      BY <2>7, InterfaceOperators
    <3> HIDE DEF Shown, ShownTage, ShownQueue
    <3> QED BY <3>1, <3>2, <3>3 DEF Interface!BpPredict
  <2>9. ShownTage(m) = Interface!BpPredict(ShownTage(p), item.pc, c.final_prediction)
    <3>1. ShownQueue(m.checkpoints) = Append(ShownQueue(p.checkpoints), Shown(c))
      BY <1>1, <2>5, ShownMoves
    <3> QED BY <2>5, <2>8, <3>1 DEF ShownTage
  <2>10. Interface!LiveTokens(ShownTage(p)) # Interface!Tokens
    BY <2>4, <2>7, InterfaceOperators
  <2> HIDE DEF ShownTage
  <2>11. /\ ShownTage(Fetch(Current, item).p)
              = Interface!BpPredict(ShownTage(p), item.pc, c.final_prediction)
         /\ TRUE \in BOOLEAN
    BY <2>1, <2>9 DEF m
  <2> QED BY <2>2, <2>6, <2>10, <2>11
<1> QED BY <1>3, <1>4

\* What commit does to them.
LEMMA CommitShown ==
  ASSUME kind = "tage", Frame, Between(p, inflight, done), inflight # << >>,
         NEW item \in Fetchable, NEW pick \in PicksNow
  PROVE  LET n == Fetch(Current, item)
             c == Commit(n, pick)
         IN  /\ ~Head(inflight).jump => ShownTage(p).checkpoints # << >>
             /\ ShownTage(c.p) = IF ~Head(inflight).jump THEN Interface!BpUpdate(ShownTage(n.p))
                                 ELSE ShownTage(n.p)
             /\ c.p \in MidTage
<1> DEFINE n == Fetch(Current, item)
           c == Commit(n, pick)
           b == Head(inflight)
           m == PredictorUpdate(n.p, b, At(1).taken, pick)
<1>1. /\ p \in TagePredictor /\ p \in PredictorOf(kind) /\ inflight \in Seq(InFlight)
      /\ Aligned(p.checkpoints, inflight) /\ p.checkpoints \in Seq(TageCheckpoint)
  <2>1. p \in TagePredictor
    BY PredictorKinds DEF Between
  <2> QED BY <2>1 DEF Between, TagePredictor
<1>2. /\ Between(n.p, n.inflight, done) /\ n.inflight # << >> /\ n.inflight[1] = inflight[1]
      /\ p.checkpoints # << >> => n.p.checkpoints # << >>
                                  /\ Head(n.p.checkpoints) = Head(p.checkpoints)
  BY FetchEffect
<1>3. b = inflight[1] /\ At(1).taken \in BOOLEAN
  BY OldestType
<1>4. c.p = IF b.jump THEN n.p ELSE m
  BY DEF Commit
<1>5. n.p \in TagePredictor /\ n.p \in MidTage /\ n.p.checkpoints \in Seq(TageCheckpoint)
  <2>1. n.p \in TagePredictor
    BY <1>2, PredictorKinds DEF Between
  <2> HIDE DEF n
  <2> QED BY <2>1, TageIsMid DEF TagePredictor
<1> HIDE DEF n, c, m, b
<1>6. CASE b.jump
  BY <1>4, <1>5, <1>6 DEF n, c, b
<1>7. CASE ~b.jump
  <2>1. p.checkpoints # << >>
    BY <1>1, <1>3, <1>7, AlignedTail
  <2>2. PicksNow = Picks(p, Head(p.checkpoints), At(1).taken)
    BY <1>7, <2>1 DEF PicksNow, b
  <2>3. pick \in Picks(p, Head(n.p.checkpoints), At(1).taken)
    BY <1>2, <2>1, <2>2
  <2>4. m = TageUpdate(p, n.p, At(1).taken, pick)
    <3>1. m = PredictorUpdate(n.p, n.inflight[1], At(1).taken, pick) /\ ~n.inflight[1].jump
      BY <1>2, <1>3, <1>7 DEF m
    <3> QED BY <1>1, <1>2, <2>3, <3>1, OldestUpdates
  <2>5. /\ m \in MidTage /\ m.checkpoints = Tail(n.p.checkpoints)
        /\ m.next_token = n.p.next_token
    BY <1>1, <1>2, <1>3, <1>5, <2>1, <2>3, <2>4, TageUpdateEffect
  <2>6. ShownQueue(m.checkpoints) = Tail(ShownQueue(n.p.checkpoints))
    BY <1>2, <1>5, <2>1, <2>5, ShownMoves
  <2>7. ShownTage(m) = Interface!BpUpdate(ShownTage(n.p))
    <3> DEFINE x == ShownQueue(n.p.checkpoints)
               y == n.p.next_token
    <3>1. ShownTage(n.p) = [checkpoints |-> x, next_token |-> y]
      BY DEF ShownTage
    <3>2. ShownTage(m) = [checkpoints |-> Tail(x), next_token |-> y]
      BY <2>5, <2>6 DEF ShownTage
    <3> HIDE DEF x, y, ShownTage
    <3>3. Interface!BpUpdate([checkpoints |-> x, next_token |-> y])
            = [checkpoints |-> Tail(x), next_token |-> y]
      <4> DEFINE v == [checkpoints |-> x, next_token |-> y]
                 t == Tail(v.checkpoints)
      <4>1. Interface!BpUpdate(v) = [v EXCEPT !.checkpoints = t]
        BY Zenon DEF Interface!BpUpdate
      <4>2. v.checkpoints = x
        OBVIOUS
      <4>3. t = Tail(x)
        BY <4>2, Zenon
      <4> HIDE DEF t
      <4>4. [v EXCEPT !.checkpoints = t] = [checkpoints |-> t, next_token |-> y]
        OBVIOUS
      <4> HIDE DEF v
      <4>5. Interface!BpUpdate(v) = [checkpoints |-> Tail(x), next_token |-> y]
        BY <4>1, <4>3, <4>4, Zenon
      <4> QED BY <4>5 DEF v
    <3> QED BY <3>1, <3>2, <3>3
  <2>8. ShownTage(p).checkpoints # << >>
    BY <1>1, <2>1, ShownMoves DEF ShownTage
  <2> QED BY <1>4, <1>7, <2>5, <2>7, <2>8 DEF n, c, b
<1> QED BY <1>6, <1>7

\* A squash shows an empty queue, and the clock shows nothing.
LEMMA OthersShown ==
  ASSUME NEW q \in MidTage
  PROVE  /\ ShownTage(TageRecover(q)) = Interface!BpRecover(ShownTage(q))
         /\ TageRecover(q) \in MidTage
         /\ ShownTage(TageClock(q)) = ShownTage(q)
<1> DEFINE r == TageRecover(q)
           k == TageClock(q)
<1>1. r \in MidTage /\ r.checkpoints = << >> /\ r.next_token = q.next_token
  BY TageRecoverEffect
<1>2. k.checkpoints = q.checkpoints /\ k.next_token = q.next_token
  BY TageClockEffect
<1>3. << >> \in Seq(TageCheckpoint)
  OBVIOUS
<1>4. ShownQueue(<< >>) = << >>
  BY <1>3, ShownMoves
<1> HIDE DEF r, k
<1>5. ShownTage(r) = Interface!BpRecover(ShownTage(q))
  BY <1>1, <1>4 DEF ShownTage, Interface!BpRecover
<1>6. ShownTage(k) = ShownTage(q)
  BY <1>2 DEF ShownTage
<1> QED BY <1>1, <1>5, <1>6 DEF r, k

\* TAGE with its tables, histories and pending writes does to its checkpoints
\* what the pipeline's model of the predictor does (ImplementsCheckpoints).
THEOREM TageImplementsInterface ==
  Spec => ImplementsCheckpoints
<1>1. Init => Interface!BpInit
  <2> SUFFICES ASSUME Init PROVE CheckpointsOf = [checkpoints |-> << >>, next_token |-> 1]
    BY DEF Interface!BpInit
  <2>1. CASE kind # "tage"
    BY <2>1 DEF CheckpointsOf
  <2>2. CASE kind = "tage"
    <3>1. p.checkpoints = << >> /\ p.next_token = 1
      BY <2>2 DEF Init, TageInit
    <3>2. << >> \in Seq(TageCheckpoint)
      OBVIOUS
    <3>3. ShownQueue(p.checkpoints) = << >>
      BY <3>1, <3>2, ShownMoves
    <3> QED BY <2>2, <3>1, <3>3 DEF CheckpointsOf, ShownQueue, Shown
  <2> QED BY <2>1, <2>2
<1>2. ASSUME PredictorInvariant, [Next]_vars
      PROVE  [Interface!BpCycle(PCs)]_CheckpointsOf
  <2>1. kind' = kind /\ Frame /\ Between(p, inflight, done)
    BY <1>2, InvariantParts DEF Next, CycleWithCommit, CycleWithoutCommit, vars
  <2>2. CASE kind # "tage"
    BY <2>1, <2>2 DEF CheckpointsOf
  <2>3. CASE UNCHANGED vars
    BY <2>3 DEF CheckpointsOf, vars
  <2>4. ASSUME kind = "tage"
        PROVE  CheckpointsOf = ShownTage(p) /\ CheckpointsOf' = ShownTage(p')
    BY <2>1, <2>4 DEF CheckpointsOf, ShownTage, ShownQueue, Shown
  <2>5. CASE kind = "tage" /\ CycleWithoutCommit
    <3>1. PICK item \in Fetchable : Clock(Fetch(Current, item))
      BY <2>5 DEF CycleWithoutCommit
    <3> DEFINE n == Fetch(Current, item)
    <3>2. p' = TageClock(n.p)
      BY <2>5, <3>1 DEF Clock
    <3>3. n.p \in MidTage
      <4>1. n.p \in TagePredictor
        BY <2>1, <2>5, FetchEffect, PredictorKinds DEF Between
      <4> HIDE DEF n
      <4> QED BY <4>1, TageIsMid
    <3>4. PICK predicts \in BOOLEAN, taken \in BOOLEAN, pc \in PCs :
            /\ predicts => Interface!LiveTokens(ShownTage(p)) # Interface!Tokens
            /\ ShownTage(n.p) = IF predicts THEN Interface!BpPredict(ShownTage(p), pc, taken)
                                ELSE ShownTage(p)
      BY <2>1, <2>5, FetchShown
    <3> HIDE DEF n
    <3>5. ShownTage(p') = ShownTage(n.p)
      BY <3>2, <3>3, OthersShown
    <3> HIDE DEF ShownTage
    <3>6. CheckpointsOf' = LET predicted == IF predicts
                                            THEN Interface!BpPredict(CheckpointsOf, pc, taken)
                                            ELSE CheckpointsOf
                               updated == IF FALSE THEN Interface!BpUpdate(predicted) ELSE predicted
                           IN  IF FALSE THEN Interface!BpRecover(updated) ELSE updated
      BY <2>4, <2>5, <3>4, <3>5
    <3>7. predicts => Interface!LiveTokens(CheckpointsOf) # Interface!Tokens
      BY <2>4, <2>5, <3>4
    <3> HIDE DEF CheckpointsOf
    <3>8. Interface!BpCycle(PCs)
      BY <3>6, <3>7 DEF Interface!BpCycle
    <3> QED BY <3>8
  <2>6. CASE kind = "tage" /\ CycleWithCommit
    <3>1. PICK item \in Fetchable, pick \in PicksNow :
            LET committed == Commit(Fetch(Current, item), pick)
            IN  Clock(IF Missed(1) THEN Squash(committed) ELSE committed)
      BY <2>6 DEF CycleWithCommit
    <3> DEFINE n == Fetch(Current, item)
               c == Commit(n, pick)
               updates == ~Head(inflight).jump
               recovers == Missed(1)
    <3>2. p' = TageClock(IF recovers THEN TageRecover(c.p) ELSE c.p)
      BY <2>6, <3>1 DEF Clock, Squash, PredictorRecover
    <3>3. /\ updates => ShownTage(p).checkpoints # << >>
          /\ ShownTage(c.p) = IF updates THEN Interface!BpUpdate(ShownTage(n.p))
                              ELSE ShownTage(n.p)
          /\ c.p \in MidTage
      BY <2>1, <2>6, CommitShown DEF CycleWithCommit
    <3>4. PICK predicts \in BOOLEAN, taken \in BOOLEAN, pc \in PCs :
            /\ predicts => Interface!LiveTokens(ShownTage(p)) # Interface!Tokens
            /\ ShownTage(n.p) = IF predicts THEN Interface!BpPredict(ShownTage(p), pc, taken)
                                ELSE ShownTage(p)
      BY <2>1, <2>6, FetchShown
    <3>5. updates \in BOOLEAN /\ recovers \in BOOLEAN
      BY DEF Missed
    <3> HIDE DEF n, c, updates, recovers
    <3>6. ShownTage(p') = IF recovers THEN Interface!BpRecover(ShownTage(c.p))
                          ELSE ShownTage(c.p)
      BY <3>2, <3>3, OthersShown
    <3> HIDE DEF ShownTage
    <3>7. CheckpointsOf' = LET predicted == IF predicts
                                            THEN Interface!BpPredict(CheckpointsOf, pc, taken)
                                            ELSE CheckpointsOf
                               updated == IF updates THEN Interface!BpUpdate(predicted)
                                          ELSE predicted
                           IN  IF recovers THEN Interface!BpRecover(updated) ELSE updated
      BY <2>4, <2>6, <3>3, <3>4, <3>6
    <3>8. /\ predicts => Interface!LiveTokens(CheckpointsOf) # Interface!Tokens
          /\ updates => CheckpointsOf.checkpoints # << >>
      BY <2>4, <2>6, <3>3, <3>4
    <3> HIDE DEF CheckpointsOf
    <3>9. Interface!BpCycle(PCs)
      BY <3>5, <3>7, <3>8 DEF Interface!BpCycle
    <3> QED BY <3>9
  <2> QED BY <1>2, <2>2, <2>3, <2>5, <2>6 DEF Next
<1> QED BY <1>1, <1>2, PredictorInvariance, PTL DEF Spec, ImplementsCheckpoints
============================================================================
