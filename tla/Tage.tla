-------------------------------- MODULE Tage --------------------------------
(***************************************************************************)
(* TAGEPredictor, src/src/tomasulo/branchpred.cpp: a bimodal base table    *)
(* and tables of tagged entries, indexed with longer and longer histories. *)
(*                                                                         *)
(* The predictor is a record; an operator takes cur, the copy of before    *)
(* the cycle, where the code reads tables that it does not double-buffer   *)
(* but writes at the clock only, and n, the next copy, elsewhere.          *)
(* Checkpoints and tokens are written in place.                            *)
(*                                                                         *)
(* The shift register that picks a table to allocate in is abstracted:     *)
(* any table it may pick is picked.                                        *)
(***************************************************************************)
EXTENDS TablePredictors, Checkpoints, FiniteSetsExt

CONSTANTS
  NUM_TAGGED_TABLES,    \* 7 in the code
  INDEX_BITS,           \* log2 of TAGGED_TABLE_SIZE, and the width the index folds to (12)
  BASE_TABLE_SIZE,      \* 16384
  MAX_HISTORY,          \* 256
  PATH_BITS,            \* 16
  HISTORY_LENGTHS,      \* by table: 5, 9, 15, 25, 44, 76, 130
  TAG_WIDTHS,           \* by table: 9, 9, 10, 10, 11, 11, 12
  AGE_PERIOD            \* committed branches between two agings (262144)

Tables == 0 .. NUM_TAGGED_TABLES - 1

ASSUME TageAssumption ==
  /\ NUM_TAGGED_TABLES \in Nat /\ INDEX_BITS \in Nat \ {0} /\ BASE_TABLE_SIZE \in Nat \ {0}
  /\ PATH_BITS \in Nat \ {0} /\ MAX_HISTORY \in Nat \ {0} /\ AGE_PERIOD \in Nat \ {0}
  /\ HISTORY_LENGTHS \in [Tables -> 1 .. MAX_HISTORY]
  /\ TAG_WIDTHS \in [Tables -> Nat \ {0, 1}]
  \* true of every exponent in Nat, but beyond the provers
  /\ \A n \in {INDEX_BITS, PATH_BITS} \cup 1 .. NUM_TAGGED_TABLES : 2 ^ n \in Nat \ {0}
  /\ \A t \in Tables : 2 ^ TAG_WIDTHS[t] \in Nat \ {0} /\ 2 ^ (TAG_WIDTHS[t] - 1) \in Nat \ {0}

----------------------------------------------------------------------------
(* Histories: a circular buffer of directions, the addresses of the last   *)
(* branches, and for every table three foldings of the newest directions.  *)

History ==
  [direction: [0 .. MAX_HISTORY - 1 -> {0, 1}], head: 0 .. MAX_HISTORY - 1,
   path: 0 .. 2 ^ PATH_BITS - 1,
   index_fold: [Tables -> Nat], tag_fold_a: [Tables -> Nat], tag_fold_b: [Tables -> Nat]]

NoHistory ==
  [direction |-> [i \in 0 .. MAX_HISTORY - 1 |-> 0], head |-> 0, path |-> 0,
   index_fold |-> [t \in Tables |-> 0], tag_fold_a |-> [t \in Tables |-> 0],
   tag_fold_b |-> [t \in Tables |-> 0]]

\* The direction of distance branches ago; 0 is the newest.
Ago(h, distance) == h.direction[(h.head + MAX_HISTORY - distance) % MAX_HISTORY]

\* Mutant of Outgoing: one branch too far back.
OutgoingLate(h, length) == Ago(h, length)

\* The bit that leaves a folding of length bits when another comes in.
Outgoing(h, length) == Ago(h, length - 1)

\* The bits beyond the width go around to the bottom.
WrapTop(bits, width) == Xor(bits, bits \div 2 ^ width) % 2 ^ width

\* FoldedHistory::update: shift the newest bit in at the bottom, take the
\* outgoing one off where it has been shifted to, and wrap the top bit around.
FoldUpdate(value, width, length, h, newest) ==
  WrapTop(Xor(2 * value + newest, Outgoing(h, length) * 2 ^ (length % width)), width)

\* HistoryState::push
HistoryPush(h, taken, pc) ==
  LET head == (h.head + 1) % MAX_HISTORY
      Folded(fold, width) ==
        [t \in Tables |-> FoldUpdate(fold[t], width[t], HISTORY_LENGTHS[t], h, Num(taken))]
  IN  [h EXCEPT !.index_fold = Folded(@, [t \in Tables |-> INDEX_BITS]),
                !.tag_fold_a = Folded(@, TAG_WIDTHS),
                !.tag_fold_b = Folded(@, [t \in Tables |-> TAG_WIDTHS[t] - 1]),
                !.head = head,
                !.direction[head] = Num(taken),
                !.path = (2 * @ + (WordPc(pc) % 2)) % 2 ^ PATH_BITS]

\* rotate_left of the path by less than the 32 bits leave room for is a shift.
ComputeIndex(t, pc, h) ==
  Xor(Xor(WordPc(pc), WordPc(pc) \div 2 ^ (t + 1)),
      Xor(h.index_fold[t], h.path * 2 ^ (t + 1))) % 2 ^ INDEX_BITS

ComputeTag(t, pc, h) ==
  Xor(Xor(WordPc(pc), h.tag_fold_a[t]),
      Xor(2 * h.tag_fold_b[t], h.path * 2 ^ t)) % 2 ^ TAG_WIDTHS[t]

----------------------------------------------------------------------------
(* Entries, checkpoints, pending writes and the predictor                  *)

Entry == [valid: BOOLEAN, tag: Nat, counter: -4 .. 3, useful: 0 .. 3]

EmptyEntry == [valid |-> FALSE, tag |-> 0, counter |-> -1, useful |-> 0]

TageCheckpoint ==
  [token: Tokens, pc: Word, base_index: 0 .. BASE_TABLE_SIZE - 1,
   indices: [Tables -> 0 .. 2 ^ INDEX_BITS - 1], tags: [Tables -> Nat],
   provider: Tables \cup {-1}, alternate: Tables \cup {-1},
   provider_prediction: BOOLEAN, alternate_prediction: BOOLEAN, final_prediction: BOOLEAN,
   provider_was_new: BOOLEAN]

\* pending_writes is an array of NUM_TAGGED_TABLES + 1 places: table is -1 for
\* a write to the base table.
PendingRoom == NUM_TAGGED_TABLES + 1

TagePredictor ==
  [base_table: [0 .. BASE_TABLE_SIZE - 1 -> TwoBit],
   tagged_tables: [Tables -> [0 .. 2 ^ INDEX_BITS - 1 -> Entry]],
   committed_history: History, speculative_history: History,
   checkpoints: Seq(TageCheckpoint), next_token: Tokens,
   pending_writes: {<< >>}, use_alternate_on_new: -8 .. 7,
   committed_conditional_branches: 0 .. AGE_PERIOD - 1, \* counted modulo AGE_PERIOD
   aging_bit: {0, 1}, age_at_clock: {FALSE}]

TageInit ==
  [base_table |-> [i \in 0 .. BASE_TABLE_SIZE - 1 |-> 1],
   tagged_tables |-> [t \in Tables |-> [i \in 0 .. 2 ^ INDEX_BITS - 1 |-> EmptyEntry]],
   committed_history |-> NoHistory, speculative_history |-> NoHistory,
   checkpoints |-> << >>, next_token |-> 1,
   pending_writes |-> << >>, use_alternate_on_new |-> 0,
   committed_conditional_branches |-> 0, aging_bit |-> 1, age_at_clock |-> FALSE]

\* stage_base_write and stage_tagged_write: at most one pending write of an entry.
StageWrite(n, table, index, value) ==
  LET same == {k \in DOMAIN n.pending_writes :
                 n.pending_writes[k].table = table /\ n.pending_writes[k].index = index}
      write == [table |-> table, index |-> index, value |-> value]
  IN  IF same = {}
      THEN [n EXCEPT !.pending_writes = Append(@, write)]
      ELSE [n EXCEPT !.pending_writes = [@ EXCEPT ![Max(same)] = write]]

EntryTaken(entry) == entry.counter >= 0
IsNewEntry(entry) == entry.useful = 0 /\ entry.counter \in {0, -1}

\* Mutant of TrainedTagged: the counter does not saturate.
TrainedTaggedFree(counter, taken) == IF taken THEN counter + 1 ELSE counter - 1

TrainedTagged(counter, taken) == IF taken THEN Min({3, counter + 1}) ELSE Max({-4, counter - 1})

----------------------------------------------------------------------------
(* predict                                                                 *)

\* The entry a checkpoint saw in a table.
EntryOf(cur, c, t) == cur.tagged_tables[t][c.indices[t]]

Matches(cur, indices, tags) ==
  {t \in Tables : LET entry == cur.tagged_tables[t][indices[t]]
                  IN  entry.valid /\ entry.tag = tags[t]}

\* What the tables say, once it is known which of them match.
CheckpointOf(cur, n, pc, indices, tags, provider, alternate) ==
  LET base == WordPc(pc) % BASE_TABLE_SIZE
      Says(t) == IF t >= 0 THEN EntryTaken(cur.tagged_tables[t][indices[t]])
                           ELSE Taken(cur.base_table[base])
      isNew == provider >= 0 /\ IsNewEntry(cur.tagged_tables[provider][indices[provider]])
  IN  [token |-> FreshToken(n), pc |-> pc, base_index |-> base,
       indices |-> indices, tags |-> tags, provider |-> provider, alternate |-> alternate,
       provider_prediction |-> Says(provider), alternate_prediction |-> Says(alternate),
       final_prediction |-> IF isNew /\ n.use_alternate_on_new >= 0
                            THEN Says(alternate) ELSE Says(provider),
       provider_was_new |-> isNew]

Longest(tables) == Max(tables \cup {-1})
Found(cur, n, pc, indices, tags, matches) ==
  CheckpointOf(cur, n, pc, indices, tags, Longest(matches), Longest(matches \ {Longest(matches)}))

\* The checkpoint of a prediction: the longest matching table provides it, the
\* next longest, or the base table, is the alternative.
TageLookup(cur, n, pc) ==
  LET h == n.speculative_history
      indices == [t \in Tables |-> ComputeIndex(t, pc, h)]
      tags    == [t \in Tables |-> ComputeTag(t, pc, h)]
  IN  Found(cur, n, pc, indices, tags, Matches(cur, indices, tags))

\* Mutant of TagePredict: the checkpoint is put in front of the older ones.
TagePredictFront(cur, n, pc) ==
  LET c == TageLookup(cur, n, pc)
  IN  [n EXCEPT !.next_token = TokenAfter(c.token),
                !.checkpoints = <<c>> \o @,
                !.speculative_history = HistoryPush(@, c.final_prediction, pc)]

TagePredict(cur, n, pc) ==
  LET c == TageLookup(cur, n, pc)
  IN  [n EXCEPT !.next_token = TokenAfter(c.token),
                !.checkpoints = Append(@, c),
                !.speculative_history = HistoryPush(@, c.final_prediction, pc)]

----------------------------------------------------------------------------
(* update                                                                  *)

\* What update throws or asserts on unless it holds.
TageUpdateAsserts(n, pc, context) ==
  /\ n.checkpoints # << >>
  /\ Head(n.checkpoints).token = context
  /\ Head(n.checkpoints).pc = pc

\* An older branch may have replaced the entry since the prediction.
ProviderStillThere(cur, c) ==
  LET entry == EntryOf(cur, c, c.provider)
  IN  entry.valid /\ entry.tag = c.tags[c.provider]

TrainedProvider(entry, c, taken) ==
  [entry EXCEPT
     !.counter = TrainedTagged(@, taken),
     !.useful = IF c.provider_prediction = c.alternate_prediction THEN @
                ELSE IF c.provider_prediction = taken THEN Min({3, @ + 1})
                ELSE Max({0, @ - 1})]

TrainProvider(cur, n, c, taken) ==
  IF c.provider = -1
  THEN StageWrite(n, -1, c.base_index, Trained(cur.base_table[c.base_index], taken))
  ELSE IF ProviderStillThere(cur, c)
  THEN StageWrite(n, c.provider, c.indices[c.provider],
                  TrainedProvider(EntryOf(cur, c, c.provider), c, taken))
  ELSE n

TrainMonitor(n, c, taken) ==
  IF ~c.provider_was_new \/ c.provider_prediction = c.alternate_prediction THEN n
  ELSE [n EXCEPT !.use_alternate_on_new =
          IF c.alternate_prediction = taken THEN Min({7, @ + 1}) ELSE Max({-8, @ - 1})]

\* choose_allocation_table: the tables with a longer history that may be
\* given to another branch.
Longer(c) == {t \in Tables : t > c.provider}
Eligible(cur, c) ==
  {t \in Longer(c) : ~EntryOf(cur, c, t).valid \/ EntryOf(cur, c, t).useful = 0}

Allocate(n, c, t, taken) ==
  StageWrite(n, t, c.indices[t], [valid |-> TRUE, tag |-> c.tags[t],
                                  counter |-> IF taken THEN 0 ELSE -1, useful |-> 0])

\* All candidates are useful: each becomes a little less so.
AgeCandidates(cur, n, c) ==
  LET age[t \in 0 .. NUM_TAGGED_TABLES] ==
        IF t = 0 THEN n
        ELSE LET entry == EntryOf(cur, c, t - 1)
             IN  IF t - 1 \in Longer(c) /\ entry.useful > 0
                 THEN StageWrite(age[t - 1], t - 1, c.indices[t - 1],
                                 [entry EXCEPT !.useful = @ - 1])
                 ELSE age[t - 1]
  IN  age[NUM_TAGGED_TABLES]

\* Mutant of Picks: an entry is allocated for right predictions too.
PicksAlways(cur, c, taken) == IF Eligible(cur, c) # {} THEN Eligible(cur, c) ELSE {-1}

\* The table the shift register chooses, if there is one to choose.
Picks(cur, c, taken) ==
  IF c.final_prediction # taken /\ Eligible(cur, c) # {} THEN Eligible(cur, c) ELSE {-1}

\* pick is a member of Picks.
TageUpdate(cur, n, taken, pick) ==
  LET c == Head(n.checkpoints)
      trained == TrainMonitor(TrainProvider(cur, n, c, taken), c, taken)
      placed == IF pick # -1 THEN Allocate(trained, c, pick, taken)
                ELSE IF c.final_prediction # taken THEN AgeCandidates(cur, trained, c)
                ELSE trained
      branches == (n.committed_conditional_branches + 1) % AGE_PERIOD
  IN  [placed EXCEPT !.committed_history = HistoryPush(@, taken, c.pc),
                     !.committed_conditional_branches = branches,
                     !.age_at_clock = @ \/ branches = 0,
                     !.checkpoints = Tail(@)]

\* Mutant of TageRecover: the tokens start again from one.
TageRecoverRestarts(n) ==
  [n EXCEPT !.speculative_history = n.committed_history, !.checkpoints = << >>, !.next_token = 1]

\* Mutant of TageRecover: keeps the checkpoints of the squashed branches.
TageRecoverKeeps(n) == [n EXCEPT !.speculative_history = n.committed_history]

TageRecover(n) ==
  [n EXCEPT !.speculative_history = n.committed_history, !.checkpoints = << >>]

----------------------------------------------------------------------------
(* clock, and the compute_next of the next cycle, which follows at once    *)

\* What staging asserts on unless it holds.
PendingFits(n) == Len(n.pending_writes) <= PendingRoom

TageClock(n) ==
  LET writes == n.pending_writes
      To(t, i) == {k \in DOMAIN writes : writes[k].table = t /\ writes[k].index = i}
      Written(t, i, old) == IF To(t, i) = {} THEN old ELSE writes[Max(To(t, i))].value
      \* one bit of every useful counter is cleared, in turn
      Aged(useful) == IF ~n.age_at_clock THEN useful
                      ELSE IF n.aging_bit = 1 THEN useful % 2
                      ELSE useful - (useful % 2)
  IN  [n EXCEPT
         !.base_table = [i \in DOMAIN n.base_table |-> Written(-1, i, n.base_table[i])],
         !.tagged_tables = [t \in Tables |-> [i \in DOMAIN n.tagged_tables[t] |->
              [Written(t, i, n.tagged_tables[t][i]) EXCEPT !.useful = Aged(@)]]],
         !.aging_bit = IF n.age_at_clock THEN 1 - n.aging_bit ELSE n.aging_bit,
         !.pending_writes = << >>,
         !.age_at_clock = FALSE]
============================================================================
