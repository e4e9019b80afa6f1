------------------------ MODULE PredictorCallProofs ------------------------
(***************************************************************************)
(* What each call does to a predictor, for every size of its tables and    *)
(* histories: that counters, indexes, histories, tokens and pending writes *)
(* stay in their ranges, what the call leaves alone, and, of TAGE, that a  *)
(* fresh token is not in use and a prediction's provider is the entry that *)
(* the checkpoint says.                                                    *)
(***************************************************************************)
EXTENDS Tage, TLAPS, WellFoundedInduction, FiniteSetTheorems, SequenceTheorems

----------------------------------------------------------------------------
(* Induction and recursion over an interval, stated of sets                *)

\* A set of numbers that is not empty has a least one.
LEMMA LeastElement ==
  ASSUME NEW S, S \subseteq Nat, S # {}
  PROVE  \E m \in S : \A k \in S : m <= k
<1> DEFINE R == {ss \in Nat \X Nat : ss[1] < ss[2]}
<1>1. IsWellFoundedOn(R, Nat)
  BY NatLessThanWellFounded, Zenon DEF OpToRel
<1>2. PICK m \in S : \A k \in S : ~ (<<k, m>> \in R)
  <2> HIDE DEF R
  <2> QED BY <1>1, WFMin
<1>3. ASSUME NEW k \in S PROVE m <= k
  <2>1. k \in Nat /\ m \in Nat
    OBVIOUS
  <2>2. k < m => <<k, m>> \in R
    BY <2>1
  <2> HIDE DEF R
  <2> QED BY <1>2, <2>1, <2>2
<1> QED BY <1>3

\* A set that holds 0 and with each number below N the next holds 0 .. N.
LEMMA IntervalInduction ==
  ASSUME NEW N \in Nat, NEW S, 0 \in S, \A i \in 0 .. N - 1 : i \in S => i + 1 \in S
  PROVE  0 .. N \subseteq S
<1> DEFINE Bad == (0 .. N) \ S
<1> SUFFICES ASSUME Bad # {} PROVE FALSE
  OBVIOUS
<1>1. Bad \subseteq Nat
  OBVIOUS
<1>2. PICK m \in Bad : \A k \in Bad : m <= k
  <2> HIDE DEF Bad
  <2> QED BY <1>1, LeastElement
<1>3. m - 1 \in 0 .. N /\ m - 1 \notin Bad
  BY <1>2
<1> QED BY <1>3

\* A set of integers that is bounded and not empty has a maximum.
LEMMA MaxIs ==
  ASSUME NEW S, NEW N \in Int, S \subseteq Int, S # {}, \A x \in S : x <= N
  PROVE  Max(S) \in S /\ \A x \in S : x <= Max(S)
<1> DEFINE D == {N - x : x \in S}
<1>1. D \subseteq Nat /\ D # {}
  <2>1. PICK x \in S : N - x \in D
    OBVIOUS
  <2>2. \A y \in S : N - y \in Nat
    OBVIOUS
  <2> QED BY <2>1, <2>2
<1>2. PICK d \in D : \A k \in D : d <= k
  <2> HIDE DEF D
  <2> QED BY <1>1, LeastElement
<1>3. PICK m \in S : d = N - m
  OBVIOUS
<1>4. \A x \in S : m >= x
  <2> SUFFICES ASSUME NEW x \in S PROVE m >= x
    OBVIOUS
  <2>1. N - m <= N - x
    BY <1>2, <1>3
  <2> QED BY <2>1
<1> QED BY <1>4 DEF Max

Steps(N, S) == [1 .. N -> [S -> S]]

\* f starts with a and follows the steps h.
Follows(f, N, S, a, h) ==
  f \in [0 .. N -> S] /\ f[0] = a /\ \A i \in 1 .. N : f[i] = h[i][f[i - 1]]

\* What is defined by recursion over 0 .. N exists, and stays in S.
LEMMA Recursion ==
  ASSUME NEW N \in Nat, NEW S, NEW a \in S, NEW h \in Steps(N, S)
  PROVE  \E f : Follows(f, N, S, a, h)
<1> USE DEF Steps
<1> DEFINE UpTo(f, n) == /\ f \in [0 .. n -> S]
                         /\ \A i \in 0 .. n : f[i] = IF i = 0 THEN a ELSE h[i][f[i - 1]]
           Good == {n \in 0 .. N : \E f : UpTo(f, n)}
<1>1. 0 \in Good
  <2>1. UpTo([i \in 0 .. 0 |-> a], 0)
    OBVIOUS
  <2> HIDE DEF UpTo
  <2> QED BY <2>1
<1>2. ASSUME NEW n \in 0 .. N - 1, n \in Good PROVE n + 1 \in Good
  <2>1. PICK f : UpTo(f, n)
    BY <1>2
  <2> DEFINE g == [i \in 0 .. n + 1 |-> IF i = n + 1 THEN h[n + 1][f[n]] ELSE f[i]]
  <2>2. g \in [0 .. n + 1 -> S]
    BY <2>1
  <2>3. ASSUME NEW i \in 0 .. n + 1
        PROVE  g[i] = IF i = 0 THEN a ELSE h[i][g[i - 1]]
    <3>1. CASE i = 0
      <4>1. g[i] = f[0] /\ 0 \in 0 .. n
        BY <3>1
      <4> HIDE DEF g
      <4> QED BY <2>1, <3>1, <4>1
    <3>2. CASE i \in 1 .. n
      <4>1. g[i] = f[i] /\ g[i - 1] = f[i - 1]
        BY <3>2
      <4> HIDE DEF g
      <4> QED BY <2>1, <3>2, <4>1
    <3>3. CASE i = n + 1
      <4>1. g[i] = h[i][f[n]] /\ g[i - 1] = f[n] /\ i # 0
        BY <3>3
      <4> HIDE DEF g
      <4> QED BY <3>3, <4>1
    <3> QED BY <3>1, <3>2, <3>3
  <2> HIDE DEF g
  <2>4. UpTo(g, n + 1)
    BY <2>2, <2>3
  <2> HIDE DEF UpTo
  <2> QED BY <2>4
<1>3. N \in Good
  <2> HIDE DEF Good
  <2>1. 0 .. N \subseteq Good
    BY <1>1, <1>2, IntervalInduction
  <2> QED BY <2>1
<1>4. PICK f : UpTo(f, N)
  BY <1>3
<1>5. Follows(f, N, S, a, h)
  BY <1>4 DEF Follows
<1> QED BY <1>5

\* The xor of two integers is one.
LEMMA XorInt ==
  ASSUME NEW a \in Int, NEW b \in Int
  PROVE  Xor(a, b) \in Int
<1> DEFINE E(i) == XorBit(Bit(a, i - 1), Bit(b, i - 1)) * 2 ^ (i - 1)
<1>1. WordBits \in Nat
  BY IsaAssumption DEF WordBits
<1>2. \A i \in 1 .. WordBits : E(i) \in Int
  BY <1>1 DEF XorBit, Bit
<1> DEFINE h == [i \in 1 .. WordBits |-> [x \in Int |-> x + E(i)]]
           F(f) == f = [i \in 0 .. WordBits |-> IF i = 0 THEN 0 ELSE f[i - 1] + E(i)]
           sum == CHOOSE f : F(f)
<1>3. Xor(a, b) = sum[WordBits]
  BY DEF Xor, BitWise
<1>4. h \in [1 .. WordBits -> [Int -> Int]]
  BY <1>2
<1>5. \A i \in 1 .. WordBits, x \in Int : h[i][x] = x + E(i)
  OBVIOUS
<1> HIDE DEF h, E
<1>6. \E f : F(f)
  <2>1. PICK f : Follows(f, WordBits, Int, 0, h)
    <3>1. 0 \in Int /\ h \in Steps(WordBits, Int)
      BY <1>4 DEF Steps
    <3> QED BY <1>1, <3>1, Recursion
  <2>2. ASSUME NEW i \in 0 .. WordBits
        PROVE  f[i] = IF i = 0 THEN 0 ELSE f[i - 1] + E(i)
    <3>1. CASE i = 0
      BY <2>1, <3>1 DEF Follows
    <3>2. CASE i # 0
      <4>1. i \in 1 .. WordBits /\ i - 1 \in 0 .. WordBits
        BY <1>1, <3>2
      <4>2. f[i] = h[i][f[i - 1]] /\ f[i - 1] \in Int
        BY <2>1, <4>1 DEF Follows
      <4> QED BY <1>5, <3>2, <4>1, <4>2
    <3> QED BY <3>1, <3>2
  <2>3. f = [i \in 0 .. WordBits |-> f[i]]
    BY <2>1 DEF Follows
  <2>4. F(f)
    BY <2>2, <2>3
  <2> QED BY <2>4
<1>7. F(sum)
  BY <1>6
<1> HIDE DEF sum
<1> DEFINE Summed == {i \in 0 .. WordBits : sum[i] \in Int}
<1>8. 0 \in Summed
  BY <1>1, <1>7
<1>9. ASSUME NEW i \in 0 .. WordBits - 1, i \in Summed PROVE i + 1 \in Summed
  <2>1. sum[i + 1] = sum[i] + E(i + 1) /\ i + 1 \in 1 .. WordBits
    BY <1>1, <1>7
  <2> QED BY <1>2, <1>9, <2>1
<1>10. WordBits \in Summed
  <2> HIDE DEF Summed
  <2> QED BY <1>1, <1>8, <1>9, IntervalInduction
<1> QED BY <1>3, <1>10

----------------------------------------------------------------------------
(* Types of the table predictors                                           *)

\* A two-bit counter stays one.
LEMMA TrainedType ==
  ASSUME NEW counter \in TwoBit, NEW taken \in BOOLEAN
  PROVE  Trained(counter, taken) \in TwoBit
BY DEF Trained, TwoBit

\* An address falls into the table of counters, and is a number.
LEMMA SlotType ==
  ASSUME NEW pc \in Word
  PROVE  Slot(pc) \in 0 .. TABLE_SIZE - 1 /\ WordPc(pc) \in Nat
BY TablePredictorsAssumption, IsaAssumption DEF Slot, WordPc, Word

\* An update of the bimodal table keeps its counters in range.
LEMMA BimodalUpdateType ==
  ASSUME NEW n \in Bimodal, NEW pc \in Word, NEW taken \in BOOLEAN
  PROVE  BimodalUpdate(n, pc, taken) \in Bimodal
<1>1. Slot(pc) \in 0 .. TABLE_SIZE - 1
  BY SlotType
<1>2. n.counters \in [0 .. TABLE_SIZE - 1 -> TwoBit] /\ n = [counters |-> n.counters]
  BY DEF Bimodal
<1>3. Trained(n.counters[Slot(pc)], taken) \in TwoBit
  BY <1>1, <1>2, TrainedType
<1> QED BY <1>1, <1>2, <1>3 DEF BimodalUpdate, Bimodal

\* The index that a history gives, and the next history, stay inside the table.
LEMMA GshareRanges ==
  ASSUME NEW ghr \in Histories, NEW pc \in Word
  PROVE  GshareIndex(ghr, pc) \in Histories
<1>1. WordPc(pc) % 2 ^ GLEN \in Int /\ ghr \in Int
  BY SlotType, TablePredictorsAssumption DEF Histories
<1>2. Xor(WordPc(pc) % 2 ^ GLEN, ghr) \in Int
  BY <1>1, XorInt
<1> QED BY <1>2, TablePredictorsAssumption DEF GshareIndex, Histories

\* The history stays inside its bits.
LEMMA GsharePushType ==
  ASSUME NEW ghr \in Histories, NEW taken \in BOOLEAN
  PROVE  GsharePush(ghr, taken) \in Histories
<1>1. 2 * ghr + Num(taken) \in Nat
  BY TablePredictorsAssumption DEF Histories, Num
<1> QED BY <1>1, TablePredictorsAssumption DEF GsharePush, Histories

\* A prediction of gshare: its context is the index of the counter it read.
LEMMA GshareLookupType ==
  ASSUME NEW cur, NEW n \in Gshare, NEW pc \in Word
  PROVE  /\ GshareLookup(cur, n, pc).taken \in BOOLEAN
         /\ GshareLookup(cur, n, pc).context = GshareIndex(n.speculative_ghr, pc)
         /\ GshareLookup(cur, n, pc).context \in Histories
<1>1. n.speculative_ghr \in Histories /\ FALSE \in BOOLEAN
  BY DEF Gshare
<1>2. GshareIndex(n.speculative_ghr, pc) \in Histories
  BY <1>1, GshareRanges
<1> QED BY <1>2 DEF GshareLookup, Taken

\* It moves the speculative history and nothing else.
LEMMA GshareSpeculateType ==
  ASSUME NEW n \in Gshare, NEW taken \in BOOLEAN
  PROVE  /\ GshareSpeculate(n, taken) \in Gshare
         /\ GshareSpeculate(n, taken).pht = n.pht
         /\ GshareSpeculate(n, taken).committed_ghr = n.committed_ghr
         /\ GshareSpeculate(n, taken).speculative_ghr = GsharePush(n.speculative_ghr, taken)
<1>1. n.speculative_ghr \in Histories
  BY DEF Gshare
<1>2. GsharePush(n.speculative_ghr, taken) \in Histories
  BY <1>1, GsharePushType
<1> QED BY <1>2 DEF GshareSpeculate, Gshare

\* An update trains the counter of its context and moves the committed history.
LEMMA GshareUpdateType ==
  ASSUME NEW n \in Gshare, NEW taken \in BOOLEAN, NEW context \in Histories
  PROVE  /\ GshareUpdate(n, context, taken) \in Gshare
         /\ GshareUpdate(n, context, taken).committed_ghr = GsharePush(n.committed_ghr, taken)
         /\ GshareUpdate(n, context, taken).speculative_ghr = n.speculative_ghr
<1>1. n.committed_ghr \in Histories /\ n.pht \in [Histories -> TwoBit]
  BY DEF Gshare
<1>2. GsharePush(n.committed_ghr, taken) \in Histories
  BY <1>1, GsharePushType
<1>3. [n.pht EXCEPT ![context] = Trained(@, taken)] \in [Histories -> TwoBit]
  BY <1>1, TrainedType
<1> QED BY <1>2, <1>3 DEF GshareUpdate, Gshare

\* The counter at its context is the only one that an update trains.
LEMMA GshareUpdatePht ==
  ASSUME NEW n \in Gshare, NEW taken \in BOOLEAN, NEW context \in Histories
  PROVE  GshareUpdate(n, context, taken).pht = [n.pht EXCEPT ![context] = Trained(@, taken)]
BY DEF GshareUpdate, Gshare

\* A squash takes the committed history back.
LEMMA GshareRecoverType ==
  ASSUME NEW n \in Gshare
  PROVE  /\ GshareRecover(n) \in Gshare
         /\ GshareRecover(n).pht = n.pht
         /\ GshareRecover(n).committed_ghr = n.committed_ghr
         /\ GshareRecover(n).speculative_ghr = n.committed_ghr
BY DEF GshareRecover, Gshare

\* The context of the tournament holds gshare's, whatever is packed above it.
LEMMA PackedIndex ==
  ASSUME NEW index \in Histories, NEW a \in BOOLEAN, NEW b \in BOOLEAN
  PROVE  LET context == index + GSHARE_PRED_BIT * Num(a) + BIMODAL_PRED_BIT * Num(b)
         IN  context \in Nat /\ ContextIndex(context) = index
<1> DEFINE G == 2 ^ GLEN
           q == Num(a) + 2 * Num(b)
           context == index + GSHARE_PRED_BIT * Num(a) + BIMODAL_PRED_BIT * Num(b)
<1>1. G \in Nat \ {0} /\ index \in 0 .. G - 1 /\ 2 ^ (GLEN + 1) = 2 * G
  BY TablePredictorsAssumption DEF Histories
<1>2. Num(a) \in {0, 1} /\ Num(b) \in {0, 1} /\ q \in {0, 1, 2, 3}
  BY DEF Num
<1>3. context = G * q + index
  BY <1>1, <1>2 DEF GSHARE_PRED_BIT, BIMODAL_PRED_BIT
<1> HIDE DEF G, q
<1>4. (G * q + index) % G = index /\ G * q + index \in Nat
  BY <1>1, <1>2
<1> QED BY <1>3, <1>4 DEF ContextIndex, G

\* The tournament has a table of its own, a bimodal predictor and a gshare.
LEMMA TournamentParts ==
  ASSUME NEW n \in Tournament
  PROVE  /\ n.counters \in [0 .. TABLE_SIZE - 1 -> TwoBit] /\ n.bp \in Bimodal /\ n.gp \in Gshare
         /\ n = [counters |-> n.counters, bp |-> n.bp, gp |-> n.gp]
BY DEF Tournament

\* A prediction of the tournament keeps gshare's index in its context.
LEMMA TournamentPredictType ==
  ASSUME NEW cur \in Tournament, NEW n \in Tournament, NEW pc \in Word
  PROVE  /\ TournamentPredict(cur, n, pc).taken \in BOOLEAN
         /\ TournamentPredict(cur, n, pc).context \in Nat
         /\ ContextIndex(TournamentPredict(cur, n, pc).context)
              = GshareIndex(n.gp.speculative_ghr, pc)
<1> DEFINE g == GshareLookup(cur.gp, n.gp, pc)
           d == BimodalPredict(cur.bp, pc)
           c == TournamentPredict(cur, n, pc)
<1>1. /\ c.taken = IF Taken(cur.counters[Slot(pc)]) THEN d.taken ELSE g.taken
      /\ c.context = g.context + GSHARE_PRED_BIT * Num(g.taken) + BIMODAL_PRED_BIT * Num(d.taken)
  BY DEF TournamentPredict
<1>2. n.gp \in Gshare /\ cur.bp \in Bimodal
  BY TournamentParts
<1>3. g.taken \in BOOLEAN /\ g.context \in Histories
      /\ g.context = GshareIndex(n.gp.speculative_ghr, pc)
  BY <1>2, GshareLookupType
<1>4. d.taken \in BOOLEAN
  BY DEF BimodalPredict, Taken
<1> HIDE DEF g, d, c
<1>5. c.context \in Nat /\ ContextIndex(c.context) = g.context
  BY <1>1, <1>3, <1>4, PackedIndex
<1> QED BY <1>1, <1>3, <1>4, <1>5 DEF c

\* It does to gshare inside the tournament what gshare does to itself, with the
\* direction that was selected; so do updates and squashes.
LEMMA TournamentSpeculateType ==
  ASSUME NEW n \in Tournament, NEW b, b.taken \in BOOLEAN
  PROVE  /\ TournamentSpeculate(n, b) \in Tournament
         /\ TournamentSpeculate(n, b).gp = GshareSpeculate(n.gp, b.taken)
         /\ TournamentSpeculate(n, b).bp = n.bp
         /\ TournamentSpeculate(n, b).counters = n.counters
<1>1. n.gp \in Gshare
  BY TournamentParts
<1>2. GshareSpeculate(n.gp, b.taken) \in Gshare
  BY <1>1, GshareSpeculateType
<1> QED BY <1>2 DEF TournamentSpeculate, Tournament

\* An update of the tournament updates the gshare in it.
LEMMA TournamentUpdateType ==
  ASSUME NEW n \in Tournament, NEW pc \in Word, NEW taken \in BOOLEAN, NEW context \in Nat
  PROVE  /\ TournamentUpdate(n, pc, context, taken) \in Tournament
         /\ TournamentUpdate(n, pc, context, taken).gp
              = GshareUpdate(n.gp, ContextIndex(context), taken)
<1> DEFINE gright == ContextGshare(context) = taken
           bright == ContextBimodal(context) = taken
           old == n.counters[Slot(pc)]
           new == [n.counters EXCEPT ![Slot(pc)] =
                     IF gright = bright THEN @ ELSE Trained(@, bright)]
<1>1. /\ n.counters \in [0 .. TABLE_SIZE - 1 -> TwoBit] /\ n.bp \in Bimodal /\ n.gp \in Gshare
      /\ n = [counters |-> n.counters, bp |-> n.bp, gp |-> n.gp]
  BY TournamentParts
<1>2. Slot(pc) \in 0 .. TABLE_SIZE - 1 /\ old \in TwoBit
  BY <1>1, SlotType
<1>3. Trained(old, bright) \in TwoBit
  BY <1>2, TrainedType
<1>4. new \in [0 .. TABLE_SIZE - 1 -> TwoBit]
  BY <1>1, <1>2, <1>3
<1>5. BimodalUpdate(n.bp, pc, taken) \in Bimodal
  BY <1>1, BimodalUpdateType
<1>6. ContextIndex(context) \in Histories
  BY TablePredictorsAssumption DEF ContextIndex, Histories
<1>7. GshareUpdate(n.gp, ContextIndex(context), taken) \in Gshare
  BY <1>1, <1>6, GshareUpdateType
<1>8. TournamentUpdate(n, pc, context, taken) =
        [n EXCEPT !.counters = new, !.gp = GshareUpdate(@, ContextIndex(context), taken),
                  !.bp = BimodalUpdate(@, pc, taken)]
  BY <1>1 DEF TournamentUpdate, Tournament
<1> HIDE DEF new
<1> QED BY <1>1, <1>4, <1>5, <1>7, <1>8 DEF Tournament

\* So does a squash.
LEMMA TournamentRecoverType ==
  ASSUME NEW n \in Tournament
  PROVE  /\ TournamentRecover(n) \in Tournament
         /\ TournamentRecover(n).gp = GshareRecover(n.gp)
<1>1. n.gp \in Gshare
  BY TournamentParts
<1>2. GshareRecover(n.gp) \in Gshare
  BY <1>1, GshareRecoverType
<1> QED BY <1>2 DEF TournamentRecover, Tournament

----------------------------------------------------------------------------
(* Types of TAGE: histories                                                *)

\* The widths of the foldings, and how much room they take.
LEMMA WidthsFit ==
  /\ INDEX_BITS \in Nat \ {0} /\ 2 ^ INDEX_BITS \in Nat \ {0}
  /\ MAX_HISTORY \in Nat \ {0} /\ 2 ^ PATH_BITS \in Nat \ {0}
  /\ \A t \in Tables :
       /\ HISTORY_LENGTHS[t] \in Nat \ {0}
       /\ TAG_WIDTHS[t] \in Nat \ {0} /\ 2 ^ TAG_WIDTHS[t] \in Nat \ {0}
       /\ TAG_WIDTHS[t] - 1 \in Nat \ {0} /\ 2 ^ (TAG_WIDTHS[t] - 1) \in Nat \ {0}
       /\ t \in Nat /\ 2 ^ (t + 1) \in Nat \ {0}
<1>1. \A n \in {INDEX_BITS, PATH_BITS} \cup 1 .. NUM_TAGGED_TABLES : 2 ^ n \in Nat \ {0}
  BY TageAssumption
<1>2. ASSUME NEW t \in Tables PROVE t \in Nat /\ t + 1 \in 1 .. NUM_TAGGED_TABLES
  BY TageAssumption DEF Tables
<1>3. ASSUME NEW t \in Tables PROVE TAG_WIDTHS[t] \in Nat \ {0, 1}
  BY TageAssumption
<1>4. ASSUME NEW t \in Tables PROVE HISTORY_LENGTHS[t] \in Nat \ {0}
  <2>1. HISTORY_LENGTHS[t] \in 1 .. MAX_HISTORY
    BY TageAssumption
  <2> QED BY <2>1
<1>5. \A t \in Tables : 2 ^ (t + 1) \in Nat \ {0}
  BY <1>1, <1>2
<1> QED BY <1>1, <1>2, <1>3, <1>4, <1>5, TageAssumption

\* The history before any branch is one.
LEMMA NoHistoryType == NoHistory \in History
BY WidthsFit DEF NoHistory, History

\* The buffer of directions is circular: every distance finds one.
LEMMA AgoType ==
  ASSUME NEW h \in History, NEW distance \in Int
  PROVE  Ago(h, distance) \in {0, 1}
<1>1. h.direction \in [0 .. MAX_HISTORY - 1 -> {0, 1}] /\ h.head \in 0 .. MAX_HISTORY - 1
  BY DEF History
<1>2. (h.head + MAX_HISTORY - distance) % MAX_HISTORY \in 0 .. MAX_HISTORY - 1
  BY <1>1, WidthsFit
<1> QED BY <1>1, <1>2 DEF Ago

\* A folding stays a number.
LEMMA FoldType ==
  ASSUME NEW value \in Nat, NEW width \in Nat \ {0}, 2 ^ width \in Nat \ {0},
         NEW length \in Nat \ {0}, NEW h \in History, NEW newest \in {0, 1}
  PROVE  FoldUpdate(value, width, length, h, newest) \in Nat
<1>1. Outgoing(h, length) \in {0, 1}
  BY AgoType DEF Outgoing
<1>2. length % width \in Nat
  OBVIOUS
<1>3. 2 ^ (length % width) \in Int
  <2> DEFINE r == length % width
  <2>1. r \in Nat
    BY <1>2
  <2> HIDE DEF r
  <2>2. 2 ^ r \in Int
    BY <2>1
  <2> QED BY <2>2 DEF r
<1>4. 2 * value + newest \in Int /\ Outgoing(h, length) * 2 ^ (length % width) \in Int
  BY <1>1, <1>3
<1> DEFINE bits == Xor(2 * value + newest, Outgoing(h, length) * 2 ^ (length % width))
           room == 2 ^ width
<1>5. bits \in Int
  BY <1>4, XorInt
<1>6. FoldUpdate(value, width, length, h, newest) = Xor(bits, bits \div room) % room
  BY DEF FoldUpdate, WrapTop
<1>7. room \in Nat \ {0}
  OBVIOUS
<1> HIDE DEF bits, room
<1>8. bits \div room \in Int
  BY <1>5, <1>7
<1>9. Xor(bits, bits \div room) \in Int
  BY <1>5, <1>8, XorInt
<1> QED BY <1>6, <1>7, <1>9

\* A history with another direction is a history.
LEMMA PushType ==
  ASSUME NEW h \in History, NEW taken \in BOOLEAN, NEW pc \in Word
  PROVE  HistoryPush(h, taken, pc) \in History
<1> DEFINE head == (h.head + 1) % MAX_HISTORY
           Fold(fold, width) ==
             [t \in Tables |-> FoldUpdate(fold[t], width[t], HISTORY_LENGTHS[t], h, Num(taken))]
           A == Fold(h.index_fold, [t \in Tables |-> INDEX_BITS])
           B == Fold(h.tag_fold_a, TAG_WIDTHS)
           C == Fold(h.tag_fold_b, [t \in Tables |-> TAG_WIDTHS[t] - 1])
           direction == [h.direction EXCEPT ![head] = Num(taken)]
           path == (2 * h.path + (WordPc(pc) % 2)) % 2 ^ PATH_BITS
<1>1. /\ h.direction \in [0 .. MAX_HISTORY - 1 -> {0, 1}] /\ h.head \in 0 .. MAX_HISTORY - 1
      /\ h.path \in 0 .. 2 ^ PATH_BITS - 1
      /\ h.index_fold \in [Tables -> Nat] /\ h.tag_fold_a \in [Tables -> Nat]
      /\ h.tag_fold_b \in [Tables -> Nat]
  BY DEF History
<1>2. Num(taken) \in {0, 1}
  BY DEF Num
<1>3. head \in 0 .. MAX_HISTORY - 1
  BY <1>1, WidthsFit
<1>4. direction \in [0 .. MAX_HISTORY - 1 -> {0, 1}]
  BY <1>1, <1>2, <1>3
<1>5. path \in 0 .. 2 ^ PATH_BITS - 1
  <2>1. 2 * h.path + (WordPc(pc) % 2) \in Nat
    BY <1>1, SlotType, WidthsFit
  <2> QED BY <2>1, WidthsFit
<1>6. A \in [Tables -> Nat]
  <2>1. ASSUME NEW t \in Tables
        PROVE  FoldUpdate(h.index_fold[t], INDEX_BITS, HISTORY_LENGTHS[t], h, Num(taken)) \in Nat
    BY <1>1, <1>2, WidthsFit, FoldType
  <2> QED BY <2>1
<1>7. B \in [Tables -> Nat]
  <2>1. ASSUME NEW t \in Tables
        PROVE  FoldUpdate(h.tag_fold_a[t], TAG_WIDTHS[t], HISTORY_LENGTHS[t], h, Num(taken)) \in Nat
    BY <1>1, <1>2, WidthsFit, FoldType
  <2> QED BY <2>1
<1>8. C \in [Tables -> Nat]
  <2>1. ASSUME NEW t \in Tables
        PROVE  FoldUpdate(h.tag_fold_b[t], TAG_WIDTHS[t] - 1, HISTORY_LENGTHS[t], h, Num(taken))
                 \in Nat
    BY <1>1, <1>2, WidthsFit, FoldType
  <2> QED BY <2>1
<1>9. HistoryPush(h, taken, pc) =
        [h EXCEPT !.index_fold = A, !.tag_fold_a = B, !.tag_fold_b = C, !.head = head,
                  !.direction = direction, !.path = path]
  BY DEF HistoryPush, History
<1> HIDE DEF head, A, B, C, direction, path
<1> QED BY <1>3, <1>4, <1>5, <1>6, <1>7, <1>8, <1>9 DEF History

----------------------------------------------------------------------------
(* Tokens                                                                  *)

\* While there are fewer checkpoints than tokens some token is free, and the
\* search from next_token on finds one (allocate_token).
LEMMA FreshTokenIsFree ==
  ASSUME NEW n, NEW S, n.checkpoints \in Seq(S), n.next_token \in Tokens,
         \A k \in DOMAIN n.checkpoints : n.checkpoints[k].token \in Tokens,
         Len(n.checkpoints) < MaxToken
  PROVE  /\ FreshToken(n) \in Tokens \ LiveTokens(n)
         /\ LiveTokens(n) # Tokens
<1> DEFINE len == Len(n.checkpoints)
           live == LiveTokens(n)
           f == [k \in 1 .. len |-> n.checkpoints[k].token]
           free == Tokens \ live
<1>1. len \in Nat /\ DOMAIN n.checkpoints = 1 .. len /\ MaxToken \in Nat
  BY MaxTokenAssumption
<1>2. live = {n.checkpoints[k].token : k \in 1 .. len}
  BY <1>1 DEF LiveTokens
<1>3. f \in Surjection(1 .. len, live)
  BY <1>2 DEF Surjection
<1>4. IsFiniteSet(1 .. len) /\ Cardinality(1 .. len) = len
  <2> HIDE DEF len
  <2> QED BY <1>1, FS_Interval
<1>5. IsFiniteSet(live) /\ Cardinality(live) <= len
  <2> HIDE DEF f, live, len
  <2> QED BY <1>3, <1>4, FS_Surjection
<1>6. Cardinality(Tokens) = MaxToken
  BY <1>1, FS_Interval DEF Tokens
<1>7. live # Tokens /\ live \subseteq Tokens
  <2>1. live \subseteq Tokens
    BY <1>1, <1>2
  <2> QED BY <1>1, <1>5, <1>6, <2>1
<1> HIDE DEF live
<1>8. free # {} /\ free \subseteq Tokens
  BY <1>7
<1> DEFINE dist == {TokenDist(n.next_token, t) : t \in free}
<1>9. dist \subseteq Nat /\ dist # {}
  <2>1. \A t \in free : TokenDist(n.next_token, t) \in Nat
    BY <1>1, <1>8 DEF TokenDist, Tokens
  <2> HIDE DEF free
  <2> QED BY <1>8, <2>1
<1>10. PICK d \in dist : \A k \in dist : d <= k
  <2> HIDE DEF dist
  <2> QED BY <1>9, LeastElement
<1>11. PICK t \in free : d = TokenDist(n.next_token, t)
  BY <1>10
<1>12. \A u \in free : TokenDist(n.next_token, t) <= TokenDist(n.next_token, u)
  <2> HIDE DEF free
  <2> QED BY <1>10, <1>11
<1>13. FreshToken(n) \in free
  <2>1. FreshToken(n) = CHOOSE x \in free :
            \A u \in free : TokenDist(n.next_token, x) <= TokenDist(n.next_token, u)
    BY DEF FreshToken, live
  <2> HIDE DEF free
  <2> QED BY <1>12, <2>1
<1> QED BY <1>7, <1>13 DEF live

\* The token after one is one: zero is skipped.
LEMMA TokenAfterType ==
  ASSUME NEW t \in Tokens
  PROVE  TokenAfter(t) \in Tokens
BY MaxTokenAssumption DEF TokenAfter, Tokens

----------------------------------------------------------------------------
(* Types of TAGE: tables, checkpoints, pending writes                      *)

\* An index is inside its table, whatever the history folds to.
LEMMA IndexType ==
  ASSUME NEW h \in History, NEW pc \in Word, NEW t \in Tables
  PROVE  ComputeIndex(t, pc, h) \in 0 .. 2 ^ INDEX_BITS - 1 /\ ComputeTag(t, pc, h) \in Nat
<1>1. /\ h.index_fold[t] \in Nat /\ h.tag_fold_a[t] \in Nat /\ h.tag_fold_b[t] \in Nat
      /\ h.path \in Nat
  BY WidthsFit DEF History
<1>2. WordPc(pc) \in Nat
  BY SlotType
<1>3. /\ t \in Nat /\ 2 ^ (t + 1) \in Nat \ {0} /\ 2 ^ t \in Int
  <2>1. t \in Nat /\ 2 ^ (t + 1) \in Nat \ {0}
    BY WidthsFit
  <2> QED BY <2>1
<1> DEFINE U == 2 ^ (t + 1)
           V == 2 ^ t
<1> HIDE DEF U, V
<1>4. WordPc(pc) \div U \in Int /\ h.path * U \in Int /\ h.path * V \in Int
  BY <1>1, <1>2, <1>3 DEF U, V
<1>5. /\ Xor(WordPc(pc), WordPc(pc) \div U) \in Int
      /\ Xor(h.index_fold[t], h.path * U) \in Int
      /\ Xor(WordPc(pc), h.tag_fold_a[t]) \in Int
      /\ Xor(2 * h.tag_fold_b[t], h.path * V) \in Int
  <2>1. 2 * h.tag_fold_b[t] \in Int /\ h.index_fold[t] \in Int /\ h.tag_fold_a[t] \in Int
        /\ WordPc(pc) \in Int
    BY <1>1, <1>2
  <2> QED BY <1>4, <2>1, XorInt
<1> DEFINE I == Xor(Xor(WordPc(pc), WordPc(pc) \div U), Xor(h.index_fold[t], h.path * U))
           T == Xor(Xor(WordPc(pc), h.tag_fold_a[t]), Xor(2 * h.tag_fold_b[t], h.path * V))
<1>6. I \in Int /\ T \in Int
  BY <1>5, XorInt
<1>7. ComputeIndex(t, pc, h) = I % 2 ^ INDEX_BITS /\ ComputeTag(t, pc, h) = T % 2 ^ TAG_WIDTHS[t]
  BY DEF ComputeIndex, ComputeTag, U, V
<1> HIDE DEF I, T
<1> QED BY <1>6, <1>7, WidthsFit

\* The places of the tables.
BaseSlots == 0 .. BASE_TABLE_SIZE - 1
TaggedSlots == 0 .. 2 ^ INDEX_BITS - 1

\* A pending write has a value that its place can hold.
Write == [table: {-1}, index: BaseSlots, value: TwoBit]
           \cup [table: Tables, index: TaggedSlots, value: Entry]

\* The predictor in the middle of a cycle: writes are pending.
MidTage ==
  [base_table: [BaseSlots -> TwoBit], tagged_tables: [Tables -> [TaggedSlots -> Entry]],
   committed_history: History, speculative_history: History,
   checkpoints: Seq(TageCheckpoint), next_token: Tokens,
   pending_writes: Seq(Write), use_alternate_on_new: -8 .. 7,
   committed_conditional_branches: 0 .. AGE_PERIOD - 1,
   aging_bit: {0, 1}, age_at_clock: BOOLEAN]

\* At the clock TAGE is as it may be in the middle of a cycle.
LEMMA TageIsMid ==
  /\ \A n \in TagePredictor : n \in MidTage /\ n.pending_writes = << >> /\ n.age_at_clock = FALSE
  /\ \A n \in MidTage : n.pending_writes = << >> /\ n.age_at_clock = FALSE => n \in TagePredictor
<1>1. << >> \in Seq(Write) /\ FALSE \in BOOLEAN
  OBVIOUS
<1>2. ASSUME NEW n \in TagePredictor
      PROVE  n \in MidTage /\ n.pending_writes = << >> /\ n.age_at_clock = FALSE
  <2>1. n.pending_writes = << >> /\ n.age_at_clock = FALSE
    BY DEF TagePredictor
  <2>2. n.pending_writes \in Seq(Write) /\ n.age_at_clock \in BOOLEAN
    BY <1>1, <2>1
  <2> QED BY <2>1, <2>2 DEF TagePredictor, MidTage, BaseSlots, TaggedSlots
<1>3. ASSUME NEW n \in MidTage, n.pending_writes = << >>, n.age_at_clock = FALSE
      PROVE  n \in TagePredictor
  <2>1. n.pending_writes \in {<< >>} /\ n.age_at_clock \in {FALSE}
    BY <1>3
  <2> QED BY <2>1 DEF TagePredictor, MidTage, BaseSlots, TaggedSlots
<1> QED BY <1>2, <1>3

\* The longest table that matches is one of those that do, or none.
LEMMA LongestIs ==
  ASSUME NEW S, S \subseteq Tables
  PROVE  Longest(S) \in S \cup {-1}
<1> DEFINE T == S \cup {-1}
<1>1. T \subseteq Int /\ T # {} /\ NUM_TAGGED_TABLES \in Int /\ \A x \in T : x <= NUM_TAGGED_TABLES
  BY TageAssumption DEF Tables
<1> HIDE DEF T
<1>2. Max(T) \in T
  BY <1>1, MaxIs
<1> QED BY <1>2 DEF Longest, T

\* The predictor finds a token while fewer checkpoints than tokens are alive.
LEMMA TageTokens ==
  ASSUME NEW n \in MidTage, Len(n.checkpoints) < MaxToken
  PROVE  FreshToken(n) \in Tokens /\ LiveTokens(n) # Tokens
<1>1. n.checkpoints \in Seq(TageCheckpoint) /\ n.next_token \in Tokens
  BY DEF MidTage
<1>2. \A k \in DOMAIN n.checkpoints : n.checkpoints[k].token \in Tokens
  <2> SUFFICES ASSUME NEW k \in DOMAIN n.checkpoints PROVE n.checkpoints[k].token \in Tokens
    OBVIOUS
  <2>1. n.checkpoints[k] \in TageCheckpoint
    BY <1>1
  <2> QED BY <2>1 DEF TageCheckpoint
<1> QED BY <1>1, <1>2, FreshTokenIsFree

\* A lookup makes a checkpoint with a free token; the entry that provides the
\* prediction is there, and has the tag.
LEMMA LookupType ==
  ASSUME NEW cur \in MidTage, NEW n \in MidTage, NEW pc \in Word, Len(n.checkpoints) < MaxToken
  PROVE  LET c == TageLookup(cur, n, pc)
         IN  /\ c \in TageCheckpoint /\ c.token = FreshToken(n) /\ c.pc = pc
             /\ c.provider # -1 => ProviderStillThere(cur, c)
<1> DEFINE h == n.speculative_history
           indices == [t \in Tables |-> ComputeIndex(t, pc, h)]
           tags    == [t \in Tables |-> ComputeTag(t, pc, h)]
           matches == Matches(cur, indices, tags)
           provider == Longest(matches)
           alternate == Longest(matches \ {provider})
           c == TageLookup(cur, n, pc)
<1>1. h \in History
  BY DEF MidTage
<1>2. indices \in [Tables -> TaggedSlots] /\ tags \in [Tables -> Nat]
  BY <1>1, IndexType DEF TaggedSlots
<1>3. c = CheckpointOf(cur, n, pc, indices, tags, provider, alternate)
  BY DEF TageLookup, Found
<1>4. FreshToken(n) \in Tokens
  BY TageTokens
<1> HIDE DEF indices, tags
<1>5. matches \subseteq Tables
  BY DEF Matches
<1> HIDE DEF matches
<1>6. provider \in matches \cup {-1} /\ alternate \in matches \cup {-1}
  BY <1>5, LongestIs
<1> HIDE DEF provider, alternate
<1>7. WordPc(pc) % BASE_TABLE_SIZE \in BaseSlots
  BY SlotType, TageAssumption DEF BaseSlots
<1>8. /\ c.token = FreshToken(n) /\ c.pc = pc /\ c.indices = indices /\ c.tags = tags
      /\ c.provider = provider
  BY <1>3 DEF CheckpointOf
<1>9. c \in TageCheckpoint
  <2> DEFINE base == WordPc(pc) % BASE_TABLE_SIZE
             Says(t) == IF t >= 0 THEN EntryTaken(cur.tagged_tables[t][indices[t]])
                        ELSE Taken(cur.base_table[base])
             isNew == provider >= 0 /\ IsNewEntry(cur.tagged_tables[provider][indices[provider]])
             final == IF isNew /\ n.use_alternate_on_new >= 0 THEN Says(alternate)
                      ELSE Says(provider)
  <2>1. c = [token |-> FreshToken(n), pc |-> pc, base_index |-> base,
             indices |-> indices, tags |-> tags, provider |-> provider, alternate |-> alternate,
             provider_prediction |-> Says(provider), alternate_prediction |-> Says(alternate),
             final_prediction |-> final, provider_was_new |-> isNew]
    BY <1>3 DEF CheckpointOf
  <2>2. ASSUME NEW t PROVE Says(t) \in BOOLEAN
    <3>1. EntryTaken(cur.tagged_tables[t][indices[t]]) \in BOOLEAN
      BY DEF EntryTaken
    <3>2. Taken(cur.base_table[base]) \in BOOLEAN
      BY DEF Taken
    <3> QED BY <3>1, <3>2
  <2>3. isNew \in BOOLEAN
    BY DEF IsNewEntry
  <2> HIDE DEF base, Says, isNew
  <2>4. final \in BOOLEAN
    BY <2>2
  <2> HIDE DEF final, c
  <2>5. base \in 0 .. BASE_TABLE_SIZE - 1 /\ indices \in [Tables -> 0 .. 2 ^ INDEX_BITS - 1]
        /\ provider \in Tables \cup {-1} /\ alternate \in Tables \cup {-1}
    BY <1>2, <1>5, <1>6, <1>7 DEF base, BaseSlots, TaggedSlots
  <2> QED BY <1>2, <1>4, <2>1, <2>2, <2>3, <2>4, <2>5 DEF TageCheckpoint
<1>10. provider # -1 => ProviderStillThere(cur, c)
  BY <1>6, <1>8 DEF matches, Matches, ProviderStillThere, EntryOf
<1> HIDE DEF c
<1> QED BY <1>8, <1>9, <1>10 DEF c

\* predict adds a checkpoint and moves the speculative history; tables and the
\* committed history stay.
LEMMA TagePredictEffect ==
  ASSUME NEW n \in TagePredictor, NEW pc \in Word, Len(n.checkpoints) < MaxToken
  PROVE  LET c == TageLookup(n, n, pc)
             m == TagePredict(n, n, pc)
         IN  /\ m \in TagePredictor
             /\ m.checkpoints = Append(n.checkpoints, c)
             /\ m.next_token = TokenAfter(c.token)
             /\ m.speculative_history = HistoryPush(n.speculative_history, c.final_prediction, pc)
             /\ m.committed_history = n.committed_history
             /\ m.tagged_tables = n.tagged_tables
<1> DEFINE c == TageLookup(n, n, pc)
           m == TagePredict(n, n, pc)
<1>1. c \in TageCheckpoint
  BY TageIsMid, LookupType
<1>2. m = [n EXCEPT !.next_token = TokenAfter(c.token),
                    !.checkpoints = Append(@, c),
                    !.speculative_history = HistoryPush(@, c.final_prediction, pc)]
  BY DEF TagePredict
<1> HIDE DEF c, m
<1>3. c.token \in Tokens /\ c.final_prediction \in BOOLEAN
  BY <1>1 DEF TageCheckpoint
<1>4. /\ n.checkpoints \in Seq(TageCheckpoint) /\ n.speculative_history \in History
  BY DEF TagePredictor
<1>5. /\ TokenAfter(c.token) \in Tokens
      /\ Append(n.checkpoints, c) \in Seq(TageCheckpoint)
      /\ HistoryPush(n.speculative_history, c.final_prediction, pc) \in History
  BY <1>1, <1>3, <1>4, TokenAfterType, PushType, AppendProperties
<1>6. m \in TagePredictor
  BY <1>2, <1>5 DEF TagePredictor
<1> QED BY <1>2, <1>6 DEF TagePredictor, c, m

----------------------------------------------------------------------------
(* TAGE: update                                                            *)

\* The lesser and the greater of two numbers.
LEMMA MinMaxOfTwo ==
  ASSUME NEW a \in Int, NEW b \in Int
  PROVE  /\ Min({a, b}) \in {a, b} /\ Min({a, b}) <= a /\ Min({a, b}) <= b
         /\ Max({a, b}) \in {a, b} /\ Max({a, b}) >= a /\ Max({a, b}) >= b
<1>1. \E x \in {a, b} : \A y \in {a, b} : x <= y
  <2>1. CASE a <= b
    BY <2>1
  <2>2. CASE b <= a
    BY <2>2
  <2> QED BY <2>1, <2>2
<1>2. \E x \in {a, b} : \A y \in {a, b} : x >= y
  <2>1. CASE a <= b
    BY <2>1
  <2>2. CASE b <= a
    BY <2>2
  <2> QED BY <2>1, <2>2
<1>3. Min({a, b}) \in {a, b} /\ \A y \in {a, b} : Min({a, b}) <= y
  BY <1>1 DEF Min
<1>4. Max({a, b}) \in {a, b} /\ \A y \in {a, b} : Max({a, b}) >= y
  BY <1>2 DEF Max
<1> QED BY <1>3, <1>4

\* Training an entry keeps it in its ranges, and keeps its branch.
LEMMA TrainedProviderType ==
  ASSUME NEW entry \in Entry, NEW c \in TageCheckpoint, NEW taken \in BOOLEAN
  PROVE  LET e == TrainedProvider(entry, c, taken)
         IN  e \in Entry /\ e.valid = entry.valid /\ e.tag = entry.tag
<1>1. entry.counter \in -4 .. 3 /\ entry.useful \in 0 .. 3
  BY DEF Entry
<1>5. /\ entry.counter + 1 \in Int /\ entry.counter - 1 \in Int
      /\ entry.useful + 1 \in Int /\ entry.useful - 1 \in Int
  BY <1>1
<1>6. 3 \in Int /\ -4 \in Int /\ 0 \in Int
  OBVIOUS
<1>2. TrainedTagged(entry.counter, taken) \in -4 .. 3
  <2>1. CASE taken
    <3>1. /\ Min({3, entry.counter + 1}) \in {3, entry.counter + 1}
          /\ Min({3, entry.counter + 1}) <= 3
      BY <1>5, <1>6, MinMaxOfTwo
    <3> QED BY <1>1, <2>1, <3>1 DEF TrainedTagged
  <2>2. CASE ~taken
    <3>1. /\ Max({-4, entry.counter - 1}) \in {-4, entry.counter - 1}
          /\ Max({-4, entry.counter - 1}) >= -4
      BY <1>5, <1>6, MinMaxOfTwo
    <3> QED BY <1>1, <2>2, <3>1 DEF TrainedTagged
  <2> QED BY <2>1, <2>2
<1> DEFINE useful == IF c.provider_prediction = c.alternate_prediction THEN entry.useful
                     ELSE IF c.provider_prediction = taken THEN Min({3, entry.useful + 1})
                     ELSE Max({0, entry.useful - 1})
<1>3. useful \in 0 .. 3
  <2>1. /\ Min({3, entry.useful + 1}) \in {3, entry.useful + 1}
        /\ Min({3, entry.useful + 1}) <= 3
        /\ Max({0, entry.useful - 1}) \in {0, entry.useful - 1}
        /\ Max({0, entry.useful - 1}) >= 0
    BY <1>5, <1>6, MinMaxOfTwo
  <2>2. Min({3, entry.useful + 1}) \in 0 .. 3 /\ Max({0, entry.useful - 1}) \in 0 .. 3
    BY <1>1, <2>1
  <2> QED BY <1>1, <2>2
<1>4. TrainedProvider(entry, c, taken) =
        [entry EXCEPT !.counter = TrainedTagged(@, taken), !.useful = useful]
  BY DEF TrainedProvider, Entry
<1> HIDE DEF useful
<1> QED BY <1>2, <1>3, <1>4 DEF Entry

\* What staging and training leave alone.
Kept(m, n) ==
  /\ m \in MidTage
  /\ m.checkpoints = n.checkpoints /\ m.next_token = n.next_token
  /\ m.speculative_history = n.speculative_history
  /\ m.committed_history = n.committed_history
  /\ m.tagged_tables = n.tagged_tables
  /\ m.age_at_clock = n.age_at_clock
  /\ m.committed_conditional_branches = n.committed_conditional_branches

\* A write is staged in a place of its own or in the place of an older one.
LEMMA StageType ==
  ASSUME NEW n \in MidTage, NEW table, NEW index, NEW value,
         [table |-> table, index |-> index, value |-> value] \in Write
  PROVE  LET m == StageWrite(n, table, index, value)
         IN  /\ Kept(m, n)
             /\ Len(m.pending_writes) <= Len(n.pending_writes) + 1
             /\ n.pending_writes = << >> =>
                  m.pending_writes = << [table |-> table, index |-> index, value |-> value] >>
<1> DEFINE writes == n.pending_writes
           same == {k \in DOMAIN writes : writes[k].table = table /\ writes[k].index = index}
           write == [table |-> table, index |-> index, value |-> value]
           W == IF same = {} THEN Append(writes, write) ELSE [writes EXCEPT ![Max(same)] = write]
           m == StageWrite(n, table, index, value)
<1>1. writes \in Seq(Write) /\ Len(writes) \in Nat /\ DOMAIN writes = 1 .. Len(writes)
  BY DEF MidTage
<1>2. m = [n EXCEPT !.pending_writes = W]
  BY DEF StageWrite, MidTage
<1>3. /\ W \in Seq(Write) /\ Len(W) <= Len(writes) + 1
      /\ writes = << >> => W = << write >>
  <2>1. CASE same = {}
    <3>1. W = Append(writes, write)
      BY <2>1
    <3> HIDE DEF W, same, write
    <3>2. write \in Write
      BY DEF write
    <3>3. /\ Append(writes, write) \in Seq(Write)
          /\ Len(Append(writes, write)) = Len(writes) + 1
      BY <1>1, <3>2, AppendProperties
    <3>4. writes = << >> => Append(writes, write) = << write >>
      OBVIOUS
    <3> QED BY <1>1, <3>1, <3>3, <3>4
  <2>2. CASE same # {}
    <3>1. same \subseteq Int /\ \A k \in same : k <= Len(writes)
      BY <1>1
    <3>2. Max(same) \in same
      <4> HIDE DEF same, writes
      <4>1. Len(writes) \in Int
        BY <1>1
      <4> QED BY <2>2, <3>1, <4>1, MaxIs
    <3>3. Max(same) \in 1 .. Len(writes)
      BY <1>1, <3>2
    <3>4. W = [writes EXCEPT ![Max(same)] = write]
      BY <2>2
    <3> HIDE DEF W, same, write
    <3>5. write \in Write
      BY DEF write
    <3>6. [writes EXCEPT ![Max(same)] = write] \in Seq(Write)
          /\ Len([writes EXCEPT ![Max(same)] = write]) = Len(writes)
      <4> HIDE DEF writes
      <4> QED BY <1>1, <3>3, <3>5, ExceptSeq
    <3>7. writes # << >>
      BY <3>3
    <3> QED BY <1>1, <3>4, <3>6, <3>7
  <2> QED BY <2>1, <2>2
<1> HIDE DEF W, m
<1>4. m.pending_writes = W /\ Kept(m, n)
  BY <1>2, <1>3 DEF Kept, MidTage
<1> QED BY <1>3, <1>4 DEF m

\* The writes that are pending leave every entry to the branch that has it.
KeepsBranches(cur, n) ==
  \A k \in DOMAIN n.pending_writes :
    LET w == n.pending_writes[k]
        entry == cur.tagged_tables[w.table][w.index]
    IN  w.table # -1 => w.value.valid = entry.valid /\ w.value.tag = entry.tag

\* The entry a checkpoint saw, and what may be staged for it.
LEMMA EntryOfType ==
  ASSUME NEW cur \in MidTage, NEW c \in TageCheckpoint, NEW t \in Tables
  PROVE  /\ EntryOf(cur, c, t) \in Entry /\ c.indices[t] \in TaggedSlots
         /\ EntryOf(cur, c, t) = cur.tagged_tables[t][c.indices[t]]
         /\ \A e \in Entry : [table |-> t, index |-> c.indices[t], value |-> e] \in Write
<1>1. c.indices[t] \in TaggedSlots
  BY DEF TageCheckpoint, TaggedSlots
<1>2. EntryOf(cur, c, t) \in Entry /\ EntryOf(cur, c, t) = cur.tagged_tables[t][c.indices[t]]
  BY <1>1 DEF MidTage, EntryOf
<1> QED BY <1>1, <1>2 DEF Write

\* Training stages one write at most, to the entry that provided the prediction.
LEMMA TrainProviderEffect ==
  ASSUME NEW cur \in MidTage, NEW n \in MidTage, n.pending_writes = << >>,
         NEW c \in TageCheckpoint, NEW taken \in BOOLEAN
  PROVE  LET m == TrainProvider(cur, n, c, taken)
         IN  Kept(m, n) /\ Len(m.pending_writes) <= 1 /\ KeepsBranches(cur, m)
<1> DEFINE m == TrainProvider(cur, n, c, taken)
<1>1. c.provider \in Tables \cup {-1} /\ c.base_index \in BaseSlots
  BY DEF TageCheckpoint, BaseSlots
<1>2. CASE c.provider = -1
  <2> DEFINE v == Trained(cur.base_table[c.base_index], taken)
             w == [table |-> -1, index |-> c.base_index, value |-> v]
  <2>1. cur.base_table[c.base_index] \in TwoBit
    BY <1>1 DEF MidTage
  <2>2. v \in TwoBit
    BY <2>1, TrainedType
  <2>3. m = StageWrite(n, -1, c.base_index, v)
    BY <1>2 DEF TrainProvider
  <2> HIDE DEF v, m
  <2>4. w \in Write
    BY <1>1, <2>2 DEF Write
  <2>5. Kept(m, n) /\ m.pending_writes = << w >>
    BY <2>3, <2>4, StageType
  <2>6. KeepsBranches(cur, m)
    BY <2>5 DEF KeepsBranches
  <2> QED BY <2>5, <2>6 DEF m
<1>3. CASE c.provider # -1 /\ ProviderStillThere(cur, c)
  <2> DEFINE t == c.provider
             e == EntryOf(cur, c, t)
             v == TrainedProvider(e, c, taken)
             w == [table |-> t, index |-> c.indices[t], value |-> v]
  <2>1. t \in Tables
    BY <1>1, <1>3
  <2>2. e \in Entry /\ e = cur.tagged_tables[t][c.indices[t]]
        /\ \A x \in Entry : [table |-> t, index |-> c.indices[t], value |-> x] \in Write
    BY <2>1, EntryOfType
  <2>3. v \in Entry /\ v.valid = e.valid /\ v.tag = e.tag
    BY <2>2, TrainedProviderType
  <2>4. m = StageWrite(n, t, c.indices[t], v)
    BY <1>3 DEF TrainProvider
  <2> HIDE DEF v, m, e
  <2>5. w \in Write
    BY <2>2, <2>3
  <2>6. Kept(m, n) /\ m.pending_writes = << w >>
    BY <2>4, <2>5, StageType
  <2>7. KeepsBranches(cur, m)
    <3>1. w.table = t /\ w.index = c.indices[t] /\ w.value = v
      OBVIOUS
    <3> HIDE DEF w, t
    <3>2. \A k \in DOMAIN m.pending_writes : m.pending_writes[k] = w
      BY <2>6
    <3> QED BY <2>2, <2>3, <3>1, <3>2 DEF KeepsBranches
  <2> QED BY <2>6, <2>7 DEF m
<1>4. CASE c.provider # -1 /\ ~ProviderStillThere(cur, c)
  <2>1. m = n
    BY <1>4 DEF TrainProvider
  <2> HIDE DEF m
  <2> QED BY <2>1 DEF Kept, KeepsBranches, m
<1> QED BY <1>2, <1>3, <1>4

\* The monitor of new entries is all that its training writes.
LEMMA TrainMonitorEffect ==
  ASSUME NEW n \in MidTage, NEW c \in TageCheckpoint, NEW taken \in BOOLEAN
  PROVE  LET m == TrainMonitor(n, c, taken)
         IN  Kept(m, n) /\ m.pending_writes = n.pending_writes
<1> DEFINE m == TrainMonitor(n, c, taken)
           old == n.use_alternate_on_new
           new == IF c.alternate_prediction = taken THEN Min({7, old + 1}) ELSE Max({-8, old - 1})
<1>1. old \in -8 .. 7
  BY DEF MidTage
<1>2. new \in -8 .. 7
  <2>1. old + 1 \in Int /\ old - 1 \in Int /\ 7 \in Int /\ -8 \in Int
    BY <1>1
  <2>2. /\ Min({7, old + 1}) \in {7, old + 1} /\ Min({7, old + 1}) <= 7
        /\ Max({-8, old - 1}) \in {-8, old - 1} /\ Max({-8, old - 1}) >= -8
    BY <2>1, MinMaxOfTwo
  <2>3. Min({7, old + 1}) \in -8 .. 7 /\ Max({-8, old - 1}) \in -8 .. 7
    BY <1>1, <2>2
  <2> QED BY <2>3
<1>3. m = n \/ m = [n EXCEPT !.use_alternate_on_new = new]
  BY DEF TrainMonitor, MidTage
<1> HIDE DEF m, new
<1>4. Kept(m, n) /\ m.pending_writes = n.pending_writes
  <2>1. CASE m = n
    BY <2>1 DEF Kept
  <2>2. CASE m = [n EXCEPT !.use_alternate_on_new = new]
    BY <1>2, <2>2 DEF Kept, MidTage
  <2> QED BY <1>3, <2>1, <2>2
<1> QED BY <1>4 DEF m

\* An allocation stages one write.
LEMMA AllocateEffect ==
  ASSUME NEW n \in MidTage, NEW c \in TageCheckpoint, NEW t \in Tables, NEW taken \in BOOLEAN
  PROVE  LET m == Allocate(n, c, t, taken)
         IN  Kept(m, n) /\ Len(m.pending_writes) <= Len(n.pending_writes) + 1
<1> DEFINE v == [valid |-> TRUE, tag |-> c.tags[t], counter |-> IF taken THEN 0 ELSE -1,
                 useful |-> 0]
<1>1. c.tags[t] \in Nat
  BY DEF TageCheckpoint
<1>2. v \in Entry
  BY <1>1 DEF Entry
<1>3. [table |-> t, index |-> c.indices[t], value |-> v] \in Write
  <2> HIDE DEF v
  <2> QED BY <1>2, EntryOfType
<1> QED BY <1>3, StageType DEF Allocate

\* Aging the candidates stages a write for each of them at most.
LEMMA AgeCandidatesEffect ==
  ASSUME NEW cur \in MidTage, NEW n \in MidTage, NEW c \in TageCheckpoint
  PROVE  LET m == AgeCandidates(cur, n, c)
         IN  Kept(m, n) /\ Len(m.pending_writes) <= Len(n.pending_writes) + NUM_TAGGED_TABLES
<1> DEFINE N == NUM_TAGGED_TABLES
           Chosen(t) == t \in Longer(c) /\ EntryOf(cur, c, t).useful > 0
           Older(t) == [EntryOf(cur, c, t) EXCEPT !.useful = @ - 1]
           Aged(m, t) == IF Chosen(t) THEN StageWrite(m, t, c.indices[t], Older(t)) ELSE m
           F(f) == f = [t \in 0 .. N |-> IF t = 0 THEN n ELSE Aged(f[t - 1], t - 1)]
           age == CHOOSE f : F(f)
           h == [t \in 1 .. N |-> [m \in MidTage |-> Aged(m, t - 1)]]
<1>1. N \in Nat /\ \A t \in 1 .. N : t - 1 \in Tables
  BY TageAssumption DEF Tables
<1>2. AgeCandidates(cur, n, c) = age[N]
  BY DEF AgeCandidates
<1>3. ASSUME NEW m \in MidTage, NEW t \in Tables
      PROVE  Kept(Aged(m, t), m) /\ Len(Aged(m, t).pending_writes) <= Len(m.pending_writes) + 1
  <2>1. CASE Chosen(t)
    <3>1. EntryOf(cur, c, t) \in Entry /\ EntryOf(cur, c, t).useful > 0
      BY <2>1, EntryOfType
    <3>2. Older(t) \in Entry
      BY <3>1 DEF Entry
    <3> HIDE DEF Older
    <3>3. [table |-> t, index |-> c.indices[t], value |-> Older(t)] \in Write
      BY <3>2, EntryOfType
    <3>4. Aged(m, t) = StageWrite(m, t, c.indices[t], Older(t))
      BY <2>1
    <3> HIDE DEF Aged, Chosen
    <3> QED BY <3>3, <3>4, StageType
  <2>2. CASE ~Chosen(t)
    <3>1. Aged(m, t) = m
      BY <2>2
    <3>2. Len(m.pending_writes) \in Nat
      BY DEF MidTage
    <3> HIDE DEF Aged, Chosen
    <3> QED BY <3>1, <3>2 DEF Kept
  <2> QED BY <2>1, <2>2
<1> HIDE DEF Aged
<1>4. h \in Steps(N, MidTage)
  <2>1. ASSUME NEW t \in 1 .. N, NEW m \in MidTage PROVE Aged(m, t - 1) \in MidTage
    BY <1>1, <1>3 DEF Kept
  <2> QED BY <2>1 DEF Steps
<1>5. ASSUME NEW t \in 1 .. N, NEW m \in MidTage PROVE h[t][m] = Aged(m, t - 1)
  OBVIOUS
<1> HIDE DEF h
<1>6. \E f : F(f)
  <2>1. PICK f : Follows(f, N, MidTage, n, h)
    <3> HIDE DEF N
    <3> QED BY <1>1, <1>4, Recursion
  <2>2. ASSUME NEW t \in 0 .. N
        PROVE  f[t] = IF t = 0 THEN n ELSE Aged(f[t - 1], t - 1)
    <3>1. CASE t = 0
      BY <2>1, <3>1 DEF Follows
    <3>2. CASE t # 0
      <4>1. t \in 1 .. N /\ t - 1 \in 0 .. N
        BY <1>1, <3>2
      <4>2. f[t] = h[t][f[t - 1]] /\ f[t - 1] \in MidTage
        BY <2>1, <4>1 DEF Follows
      <4> QED BY <1>5, <3>2, <4>1, <4>2
    <3> QED BY <3>1, <3>2
  <2>3. f = [t \in 0 .. N |-> f[t]]
    BY <2>1 DEF Follows
  <2>4. F(f)
    BY <2>2, <2>3
  <2> QED BY <2>4
<1>7. F(age)
  BY <1>6
<1> HIDE DEF age
<1> DEFINE Good == {t \in 0 .. N : Kept(age[t], n)
                                   /\ Len(age[t].pending_writes) <= Len(n.pending_writes) + t}
<1>8. 0 \in Good
  <2>1. age[0] = n /\ 0 \in 0 .. N
    BY <1>1, <1>7
  <2>2. Len(n.pending_writes) \in Nat
    BY DEF MidTage
  <2> QED BY <2>1, <2>2 DEF Kept
<1>9. ASSUME NEW t \in 0 .. N - 1, t \in Good PROVE t + 1 \in Good
  <2>1. age[t + 1] = Aged(age[t], t) /\ t + 1 \in 0 .. N /\ t \in Tables
    BY <1>1, <1>7 DEF Tables
  <2>2. Kept(age[t], n) /\ age[t] \in MidTage
        /\ Len(age[t].pending_writes) <= Len(n.pending_writes) + t
    BY <1>9 DEF Kept
  <2>3. /\ Kept(age[t + 1], age[t])
        /\ Len(age[t + 1].pending_writes) <= Len(age[t].pending_writes) + 1
    BY <1>3, <2>1, <2>2
  <2>4. Kept(age[t + 1], n)
    BY <2>2, <2>3 DEF Kept
  <2>5. Len(age[t + 1].pending_writes) <= Len(n.pending_writes) + (t + 1)
    <3>1. /\ Len(age[t + 1].pending_writes) \in Nat /\ Len(age[t].pending_writes) \in Nat
          /\ Len(n.pending_writes) \in Nat
      <4>1. \A x \in MidTage : Len(x.pending_writes) \in Nat
        BY DEF MidTage
      <4>2. age[t + 1] \in MidTage
        BY <2>4 DEF Kept
      <4> HIDE DEF age
      <4> QED BY <2>2, <4>1, <4>2
    <3>2. t \in Int
      OBVIOUS
    <3>3. \A a, b, d \in Nat : a <= b + 1 /\ b <= d + t => a <= d + (t + 1)
      BY <3>2
    <3> HIDE DEF age
    <3> QED BY <2>2, <2>3, <3>1, <3>3
  <2> QED BY <2>1, <2>4, <2>5
<1>10. N \in Good
  <2> HIDE DEF Good, N
  <2> QED BY <1>1, <1>8, <1>9, IntervalInduction
<1> QED BY <1>2, <1>10

\* update takes the oldest checkpoint away and moves the committed history;
\* its writes fit into their array, and only a wrong prediction gives an entry
\* to another branch.
LEMMA TageUpdateEffect ==
  ASSUME NEW cur \in TagePredictor, NEW n \in TagePredictor, n.checkpoints # << >>,
         NEW taken \in BOOLEAN, NEW pick \in Picks(cur, Head(n.checkpoints), taken)
  PROVE  LET m == TageUpdate(cur, n, taken, pick)
             c == Head(n.checkpoints)
         IN  /\ m \in MidTage /\ PendingFits(m)
             /\ m.checkpoints = Tail(n.checkpoints) /\ m.next_token = n.next_token
             /\ m.speculative_history = n.speculative_history
             /\ m.committed_history = HistoryPush(n.committed_history, taken, c.pc)
             /\ m.tagged_tables = n.tagged_tables
             /\ c.final_prediction = taken => KeepsBranches(cur, m)
<1> DEFINE c == Head(n.checkpoints)
           provided == TrainProvider(cur, n, c, taken)
           trained == TrainMonitor(provided, c, taken)
           placed == IF pick # -1 THEN Allocate(trained, c, pick, taken)
                     ELSE IF c.final_prediction # taken THEN AgeCandidates(cur, trained, c)
                     ELSE trained
           branches == (n.committed_conditional_branches + 1) % AGE_PERIOD
           m == TageUpdate(cur, n, taken, pick)
<1>1. /\ cur \in MidTage /\ n \in MidTage /\ n.pending_writes = << >>
      /\ n.checkpoints \in Seq(TageCheckpoint)
  BY TageIsMid DEF TagePredictor
<1>2. c \in TageCheckpoint /\ Tail(n.checkpoints) \in Seq(TageCheckpoint)
  BY <1>1, HeadTailProperties
<1>3. c.pc \in Word
  BY <1>2 DEF TageCheckpoint
<1>4. NUM_TAGGED_TABLES \in Nat /\ AGE_PERIOD \in Nat \ {0}
  BY TageAssumption
<1>5. pick = -1 \/ (pick \in Tables /\ c.final_prediction # taken)
  BY DEF Picks, Eligible, Longer
<1>6. m = [placed EXCEPT !.committed_history = HistoryPush(@, taken, c.pc),
                         !.committed_conditional_branches = branches,
                         !.age_at_clock = @ \/ branches = 0,
                         !.checkpoints = Tail(@)]
  BY DEF TageUpdate
<1> HIDE DEF c
<1>7. Kept(provided, n) /\ Len(provided.pending_writes) <= 1 /\ KeepsBranches(cur, provided)
  BY <1>1, <1>2, TrainProviderEffect
<1> HIDE DEF provided
<1>8. /\ Kept(trained, n) /\ Len(trained.pending_writes) <= 1
      /\ KeepsBranches(cur, trained)
  <2>1. Kept(trained, provided) /\ trained.pending_writes = provided.pending_writes
    BY <1>2, <1>7, TrainMonitorEffect DEF Kept
  <2> HIDE DEF trained
  <2> QED BY <1>7, <2>1 DEF Kept, KeepsBranches
<1> HIDE DEF trained
<1>9. /\ Kept(placed, n) /\ Len(placed.pending_writes) <= PendingRoom
      /\ c.final_prediction = taken => KeepsBranches(cur, placed)
  <2>0. trained \in MidTage /\ Len(trained.pending_writes) \in Nat
    BY <1>8 DEF Kept, MidTage
  <2>1. CASE pick # -1
    <3>1. placed = Allocate(trained, c, pick, taken) /\ pick \in Tables
          /\ c.final_prediction # taken /\ NUM_TAGGED_TABLES >= 1
      BY <1>4, <1>5, <2>1 DEF Tables
    <3> HIDE DEF placed
    <3>2. Kept(placed, trained) /\ Len(placed.pending_writes) <= Len(trained.pending_writes) + 1
      BY <1>2, <2>0, <3>1, AllocateEffect
    <3>3. Len(placed.pending_writes) \in Nat
      BY <3>2 DEF Kept, MidTage
    <3>4. Kept(placed, n)
      BY <1>8, <3>2 DEF Kept
    <3> QED BY <1>4, <1>8, <2>0, <3>1, <3>2, <3>3, <3>4 DEF PendingRoom
  <2>2. CASE pick = -1 /\ c.final_prediction # taken
    <3>1. placed = AgeCandidates(cur, trained, c)
      BY <2>2
    <3> HIDE DEF placed
    <3>2. /\ Kept(placed, trained)
          /\ Len(placed.pending_writes) <= Len(trained.pending_writes) + NUM_TAGGED_TABLES
      BY <1>1, <1>2, <2>0, <3>1, AgeCandidatesEffect
    <3>3. Len(placed.pending_writes) \in Nat
      BY <3>2 DEF Kept, MidTage
    <3>4. Kept(placed, n)
      BY <1>8, <3>2 DEF Kept
    <3> QED BY <1>4, <1>8, <2>0, <2>2, <3>2, <3>3, <3>4 DEF PendingRoom
  <2>3. CASE pick = -1 /\ c.final_prediction = taken
    <3>1. placed = trained
      BY <2>3
    <3> HIDE DEF placed
    <3> QED BY <1>4, <1>8, <2>0, <3>1 DEF PendingRoom
  <2> QED BY <2>1, <2>2, <2>3
<1> HIDE DEF placed, m, branches
<1>10. branches \in 0 .. AGE_PERIOD - 1
  <2>1. n.committed_conditional_branches \in 0 .. AGE_PERIOD - 1
    BY <1>1 DEF MidTage
  <2> QED BY <1>4, <2>1 DEF branches
<1>11. HistoryPush(n.committed_history, taken, c.pc) \in History
  BY <1>1, <1>3, PushType DEF MidTage
<1>12. placed \in MidTage /\ placed.committed_history = n.committed_history
       /\ placed.checkpoints = n.checkpoints
  BY <1>9 DEF Kept
<1>13. (placed.age_at_clock \/ branches = 0) \in BOOLEAN
  OBVIOUS
<1>14. m \in MidTage
  <2> DEFINE H == HistoryPush(n.committed_history, taken, c.pc)
             A == (placed.age_at_clock \/ branches = 0)
             T == Tail(n.checkpoints)
  <2>1. m = [placed EXCEPT !.committed_history = H, !.committed_conditional_branches = branches,
                           !.age_at_clock = A, !.checkpoints = T]
    BY <1>6, <1>12 DEF MidTage
  <2>2. H \in History /\ A \in BOOLEAN /\ T \in Seq(TageCheckpoint)
    BY <1>2, <1>11, <1>13
  <2> HIDE DEF H, A, T
  <2> QED BY <1>10, <1>12, <2>1, <2>2 DEF MidTage
<1>15. /\ m.checkpoints = Tail(n.checkpoints) /\ m.next_token = n.next_token
       /\ m.speculative_history = n.speculative_history
       /\ m.committed_history = HistoryPush(n.committed_history, taken, c.pc)
       /\ m.tagged_tables = n.tagged_tables
       /\ m.pending_writes = placed.pending_writes
  BY <1>6, <1>9, <1>12 DEF Kept, MidTage
<1> QED BY <1>9, <1>14, <1>15 DEF PendingFits, KeepsBranches, m, c

\* The clock carries out what is pending; a write that keeps the branches, and
\* aging, leave valid bits and tags alone.
LEMMA TageClockEffect ==
  ASSUME NEW n \in MidTage
  PROVE  LET m == TageClock(n)
         IN  /\ m \in TagePredictor
             /\ m.checkpoints = n.checkpoints /\ m.next_token = n.next_token
             /\ m.speculative_history = n.speculative_history
             /\ m.committed_history = n.committed_history
             /\ KeepsBranches(n, n) =>
                  \A t \in Tables, i \in TaggedSlots :
                    /\ m.tagged_tables[t][i].valid = n.tagged_tables[t][i].valid
                    /\ m.tagged_tables[t][i].tag = n.tagged_tables[t][i].tag
<1> DEFINE writes == n.pending_writes
           To(t, i) == {k \in DOMAIN writes : writes[k].table = t /\ writes[k].index = i}
           Written(t, i, old) == IF To(t, i) = {} THEN old ELSE writes[Max(To(t, i))].value
           Aged(useful) == IF ~n.age_at_clock THEN useful
                           ELSE IF n.aging_bit = 1 THEN useful % 2
                           ELSE useful - (useful % 2)
           base == [i \in DOMAIN n.base_table |-> Written(-1, i, n.base_table[i])]
           tables == [t \in Tables |-> [i \in DOMAIN n.tagged_tables[t] |->
                       [Written(t, i, n.tagged_tables[t][i]) EXCEPT !.useful = Aged(@)]]]
           bit == IF n.age_at_clock THEN 1 - n.aging_bit ELSE n.aging_bit
           m == TageClock(n)
<1>1. /\ writes \in Seq(Write) /\ Len(writes) \in Nat /\ DOMAIN writes = 1 .. Len(writes)
      /\ n.base_table \in [BaseSlots -> TwoBit]
      /\ n.tagged_tables \in [Tables -> [TaggedSlots -> Entry]]
      /\ n.aging_bit \in {0, 1}
  BY DEF MidTage
<1>2. m = [n EXCEPT !.base_table = base, !.tagged_tables = tables, !.aging_bit = bit,
                    !.pending_writes = << >>, !.age_at_clock = FALSE]
  BY DEF TageClock
<1> HIDE DEF m
<1>3. ASSUME NEW t, NEW i, To(t, i) # {}
      PROVE  Max(To(t, i)) \in To(t, i)
  <2> DEFINE S == To(t, i)
  <2>1. S \subseteq Int /\ Len(writes) \in Int /\ S # {} /\ \A k \in S : k <= Len(writes)
    BY <1>1, <1>3
  <2> HIDE DEF S
  <2>2. Max(S) \in S
    BY <2>1, MaxIs
  <2> QED BY <2>2 DEF S
<1>4. ASSUME NEW t, NEW i, To(t, i) # {}
      PROVE  \E k \in DOMAIN writes : /\ writes[k] \in Write
                                      /\ writes[k].table = t /\ writes[k].index = i
                                      /\ \A old : Written(t, i, old) = writes[k].value
  <2> DEFINE k == Max(To(t, i))
  <2>1. k \in To(t, i)
    <3> HIDE DEF To, Written
    <3> QED BY <1>3, <1>4
  <2>2. \A old : Written(t, i, old) = writes[k].value
    BY <1>4
  <2> HIDE DEF k
  <2>3. k \in DOMAIN writes /\ writes[k].table = t /\ writes[k].index = i
    BY <2>1
  <2> HIDE DEF Written, To, writes
  <2>4. writes[k] \in Write
    BY <1>1, <2>3, ElementOfSeq
  <2> QED BY <2>2, <2>3, <2>4
<1>5. ASSUME NEW i \in BaseSlots PROVE Written(-1, i, n.base_table[i]) \in TwoBit
  <2>1. CASE To(-1, i) = {}
    BY <1>1, <2>1
  <2>2. CASE To(-1, i) # {}
    <3> HIDE DEF Written, To, writes
    <3>1. PICK k \in DOMAIN writes : /\ writes[k] \in Write
                                     /\ writes[k].table = -1 /\ writes[k].index = i
                                     /\ \A old : Written(-1, i, old) = writes[k].value
      BY <1>4, <2>2
    <3>2. -1 \notin Tables
      BY DEF Tables
    <3> QED BY <3>1, <3>2 DEF Write
  <2> QED BY <2>1, <2>2
<1>6. ASSUME NEW t \in Tables, NEW i \in TaggedSlots
      PROVE  /\ Written(t, i, n.tagged_tables[t][i]) \in Entry
             /\ KeepsBranches(n, n) =>
                  /\ Written(t, i, n.tagged_tables[t][i]).valid = n.tagged_tables[t][i].valid
                  /\ Written(t, i, n.tagged_tables[t][i]).tag = n.tagged_tables[t][i].tag
  <2>1. CASE To(t, i) = {}
    <3>1. Written(t, i, n.tagged_tables[t][i]) = n.tagged_tables[t][i]
      BY <2>1
    <3> HIDE DEF Written, To
    <3> QED BY <1>1, <3>1
  <2>2. CASE To(t, i) # {}
    <3> HIDE DEF Written, To, writes
    <3>1. PICK k \in DOMAIN writes : /\ writes[k] \in Write
                                     /\ writes[k].table = t /\ writes[k].index = i
                                     /\ \A old : Written(t, i, old) = writes[k].value
      BY <1>4, <2>2
    <3>2. t # -1
      BY DEF Tables
    <3>3. KeepsBranches(n, n) => /\ writes[k].value.valid = n.tagged_tables[t][i].valid
                                 /\ writes[k].value.tag = n.tagged_tables[t][i].tag
      BY <3>1, <3>2 DEF KeepsBranches, writes
    <3>4. writes[k].value \in Entry
      BY <3>1, <3>2 DEF Write
    <3> QED BY <3>1, <3>3, <3>4
  <2> QED BY <2>1, <2>2
<1> HIDE DEF Written, To
<1>7. base \in [BaseSlots -> TwoBit]
  BY <1>1, <1>5
<1>8. \A u \in 0 .. 3 : Aged(u) \in 0 .. 3
  OBVIOUS
<1> HIDE DEF Aged
<1>9. ASSUME NEW t \in Tables, NEW i \in TaggedSlots
      PROVE  /\ tables[t][i] \in Entry
             /\ KeepsBranches(n, n) => /\ tables[t][i].valid = n.tagged_tables[t][i].valid
                                       /\ tables[t][i].tag = n.tagged_tables[t][i].tag
  <2> DEFINE e == Written(t, i, n.tagged_tables[t][i])
  <2>1. e \in Entry
    BY <1>6
  <2>2. tables[t][i] = [e EXCEPT !.useful = Aged(@)]
    BY <1>1
  <2>3. KeepsBranches(n, n) => /\ e.valid = n.tagged_tables[t][i].valid
                               /\ e.tag = n.tagged_tables[t][i].tag
    BY <1>6
  <2> HIDE DEF e, tables
  <2>4. e.useful \in 0 .. 3
    BY <2>1 DEF Entry
  <2>5. Aged(e.useful) \in 0 .. 3
    BY <1>8, <2>4
  <2>6. tables[t][i] \in Entry /\ tables[t][i].valid = e.valid /\ tables[t][i].tag = e.tag
    BY <2>1, <2>2, <2>5 DEF Entry
  <2> QED BY <2>3, <2>6
<1>10. tables \in [Tables -> [TaggedSlots -> Entry]]
  <2>1. tables = [t \in Tables |-> [i \in TaggedSlots |-> tables[t][i]]]
    BY <1>1
  <2> HIDE DEF tables
  <2>2. \A t \in Tables, i \in TaggedSlots : tables[t][i] \in Entry
    BY <1>9
  <2> DEFINE g == [t \in Tables |-> [i \in TaggedSlots |-> tables[t][i]]]
  <2>3. g \in [Tables -> [TaggedSlots -> Entry]]
    BY <2>2
  <2> QED BY <2>1, <2>3
<1> HIDE DEF base, tables
<1>11. bit \in {0, 1}
  BY <1>1
<1> HIDE DEF bit
<1>12. m \in MidTage /\ m.pending_writes = << >> /\ m.age_at_clock = FALSE
  <2>1. << >> \in Seq(Write)
    OBVIOUS
  <2> QED BY <1>2, <1>7, <1>10, <1>11, <2>1 DEF MidTage
<1>13. m \in TagePredictor
  BY <1>12, TageIsMid
<1>14. /\ m.checkpoints = n.checkpoints /\ m.next_token = n.next_token
       /\ m.speculative_history = n.speculative_history
       /\ m.committed_history = n.committed_history
       /\ m.tagged_tables = tables
  BY <1>2 DEF MidTage
<1> QED BY <1>9, <1>13, <1>14 DEF m

\* A squash forgets the checkpoints and takes the committed history.
LEMMA TageRecoverEffect ==
  ASSUME NEW n \in MidTage
  PROVE  LET m == TageRecover(n)
         IN  /\ m \in MidTage /\ m.checkpoints = << >> /\ m.next_token = n.next_token
             /\ m.speculative_history = n.committed_history
             /\ m.committed_history = n.committed_history
<1>1. << >> \in Seq(TageCheckpoint)
  OBVIOUS
<1> QED BY <1>1 DEF TageRecover, MidTage
============================================================================
