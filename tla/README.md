# A verification of the Tomasulo CPU simulator

The repository holds two machines that run the same RV32I programs: a sequential interpreter
(`src/src/interpreter`) and an out-of-order, speculative, cycle-accurate simulator
(`src/src/tomasulo`). The interpreter is the stated baseline of correctness. This directory models
both in TLA+, checks with TLC that each goes through the states of one abstract machine
(`ArchSpec`), models the branch predictors and the decoder in full beside them, and proves with
TLAPS, for every size, that the reorder buffer is a queue, that the parts of the processor fit
together in every cycle, that the order of the phases of a cycle does not matter, and that the
predictors keep apart what belongs to each branch.

Paths below such as `cpu.cpp` are under `src/src/tomasulo` (headers: `src/include/tomasulo`)
unless a directory is named.

## 1. Inventory

| Component | State | Operations | Correct when |
| --- | --- | --- | --- |
| Pipeline `TomasuloCPU` (`cpu.cpp`) | pc, the fetched instruction with its prediction, redirect, halted, squash signals | `cycle()`: fetch, commit, execute, cdb_listen, writeback, issue, finalize, resolve_cycle_outputs; `run()` | registers, memory and pc are those of the sequential machine; the order of the phases is irrelevant; a halting program returns |
| `ReorderBuf` | circular array, head, tail, next_tag | alloc, write_result, write_branch_result, write_store_result, commit, flush_from_next, is_full, is_empty, get_result_if_ready | a bounded FIFO queue whose tags are in age order |
| `RegAliasTab`, `ArchRegFile` | per register: ready, value, tag; two copies of the registers | set_tag_next, commit_clear_next, restore_from_next; read_reg, write_reg, flush_zero | an alias names the youngest writer in flight, or holds the register's value |
| `ALURS` | 8 stations | alloc_resolved, listen_cdb, execute, writeback_candidate, free_entry_by_tag, flush_next | no wakeup is lost, nothing is executed twice or left behind |
| `LSRS` | 8 stations | the same, and mark_mem_requested | loads pass only stores they do not depend on |
| `StoreBuffer` | stores in flight | insert, set_addr_ready, set_val_ready, try_forward, must_stall_for_load, commit, flush_from_next | a forwarded value is the one memory would give |
| `SimDataMemory` | one request, the memory | issue_read_next, issue_write_next, decrease_left_cycles, consume_read_next, resolve_requests | every answer goes to the load that asked, or to nobody |
| `CDB` | one broadcast | publish, clear, invalidate_squashed | at most one result a cycle, and nothing in flight hears one of a squashed instruction |
| Table predictors (`branchpred.cpp`) | naive, bimodal, gshare, tournament: counters, committed and speculative history | predict, update, recover, compute_next, clock | what is learnt is what the program executed, in its order; a squash repairs the history |
| `TAGEPredictor` (`branchpred.cpp`) | base table, tagged tables, folded histories, checkpoints, tokens, pending writes, monitor, ages | the same | each update meets the checkpoint of its own prediction; foldings match the history; staged writes fit and merge; regular loops are learnt |
| `CPUInterpreter` | pc, registers, memory, halted | load_program, step, run | it is the sequential machine |
| `Instr::decode`, `alu_comp`, `alu_compi` | none | pure | it inverts the encoding of RV32I, on every word that it takes for an instruction |
| `SimMemory`, `DataMemory`, `InstrMemory` | bytes | read and write by width, load_hex_data | little endian, bounds, alignment; a text is loaded as it is meant |
| Trace files, executables | output | | not modelled |

**Interaction.** Everything runs in one thread; the concurrency is that of hardware. Each component
keeps a current and a next copy. The phases of a cycle read the current copies and write the next
ones, so that they act as if at the same time, and `cycle()` flips all copies at the end. Some state
is not double-buffered and breaks this pattern: the bus, the checkpoints and tokens of the
predictor, the memory bytes, `next_tag` and the predicted return address are written in place.

**Hard behaviours.** Several phases touch one entry in one cycle (commit, result, allocation and
squash); tags stand for ages; a squash meets results on the bus, requests in the memory and an
instruction that is being issued; loads pass stores whose addresses arrive late; the memory refuses
a commit; tokens wrap; HALT is speculative. A prediction is trained many cycles after it was made,
with a table and a history that have moved on, while wrong-path predictions have been pushed and
taken back; prediction and training meet in one cycle. `PROJECT.json` lists each under `hazards` with its line
and the properties aimed at it.

## 2. Modules

| Module | Models |
| --- | --- |
| `Isa` | instruction records, ALU, branch conditions, memory access: pure operators |
| `Decoder` | `Instr::decode` on the 32 bits of a word, held as two halves |
| `RiscvEncoding` | reference: an assembler for the same records, and what decoding must invert |
| `HexImage` | `load_hex_data`: from the tokens of a program text to the bytes of a memory |
| `ReorderBuf`, `RegAliasTab`, `ALURS`, `StoreBuf`, `DataMem`, `LSRS`, `Cdb` | one component each: its variable, its initial value, one operator per method, its type |
| `Checkpoints` | the queue of checkpoints and the token counter, shared by the next two |
| `BranchPred` | the predictor as the pipeline sees it: checkpoints, with the direction left open |
| `Tage` | `TAGEPredictor` in full |
| `TablePredictors` | the bimodal, gshare and tournament predictors |
| `Predictors` | any of the five in use: cycles of fetch, commit, squash and clock over a looping program |
| `PredictorProps` | their properties; refinement of `BranchPred` and of `InOrderGshare` |
| `InOrderGshare` | abstract specification: a gshare that is told of each branch as the program executes it |
| `TomasuloCPU` | composes the components of the pipeline and `BranchPred`: one operator per phase, one action `Cycle`; `FairSpec` |
| `TomasuloProps` | the properties of the machine |
| `ArchSpec` | abstract specification: one instruction after the other |
| `Interpreter` | `load_program()`, and `step()` with one action per kind of instruction, from the word it fetches on |
| `InOrderQueue` | abstract specification: a bounded FIFO queue with squash |
| `RobQueue` | the reorder buffer driven by every sequence of calls a cycle may make; refines `InOrderQueue` |
| `PipelineInv`, `PredictorInv` | the inductive invariants of the processor and of a predictor in use |
| `ReorderBufProofs` | what each operation of the ring preserves, shared by the next modules |
| `RobQueueProofs` | theorems about `RobQueue`: types, contiguity, order, refinement of `InOrderQueue` |
| `CycleProofs` | `CycleEffect`: the next value of every component of `TomasuloCPU`, without the nesting of phases |
| `StationProofs` | how a cycle keeps the stations, the store buffer and the memory in step with the ring |
| `TomasuloProofs` | how a cycle keeps the predictor's checkpoints in step with the ring and the fetch latch; the theorems about `TomasuloCPU` |
| `PhaseProofs` | that the five phases of a cycle may run in any order |
| `PredictorCallProofs` | what each call does to a predictor |
| `PredictorProofs` | theorems about `Predictors`, and the refinements of `InOrderGshare` and `BranchPred` |
| `MCRobQueue`, `MCTomasulo`, `MCInterpreter`, `MCPredictors` | instances for TLC |

**How a cycle is written.** The variables are the current copies. `NextStates` is a record of all
next copies, initially equal (`init_next_states`). A phase is an operator from such a record to such
a record: it reads the variables where the code reads the current copy and its argument where the
code reads the next copy or state that is written in place. `Phases` nests them in the order of the
calls in `cycle()`, `ResolveCycleOutputs` and `ResolveRequests` follow, and `Update` is the flip.
The whole cycle is one step, because nothing can observe its middle; that the order inside does not
matter is itself a theorem (`PhaseOrderNeverMatters`).

**Interfaces left open.** In the processor, which way a conditional branch is predicted is a free
choice in every cycle. Whatever the tables of a predictor contain, its runs are among those
explored, so that correctness never depends on them. That the real TAGE does to checkpoints and
tokens just what the pipeline's model of it does is a refinement (`ImplementsCheckpoints`); the two
share the operators of `Checkpoints`, and what is checked is that TAGE uses them as `BranchPred` does
in every cycle of predictions, updates, squashes and the clock.

**How the predictors are driven.** `Predictors` has the predictor, the branches between fetch and
commit, and a program: a loop of branches with their outcomes (a *script*). A step is a cycle: fetch
may predict the next branch, the one the script has as long as everything in flight is predicted
right, and any branch on a wrong path; commit may report the outcome of the oldest; if it was
mispredicted, what is in flight is squashed. A `JALR` in a script never asks the predictor and always
misses, as in `cpu.cpp:377-379`. Fetch comes before commit, as in `cycle()`. An operator takes `cur`,
the copy of before the cycle, where the code reads it, and the next copy otherwise.

### Abstractions

- *Word.* A word has four bytes of `ByteBits` bits; 8 is the real machine. The runs of the
  processor use 2, so that words are 0 .. 255 and wrap-around, sign extension and alignment happen
  among few values; the interpreter uses 4, so that an immediate keeps its sign.
- *Decoding.* In the interpreter the instruction memory holds bytes, a word is fetched from them and
  decoded with all its fields (`Decoder`), and immediates wrap to a word when they are added to one.
  In the processor the instruction memory holds decoded records: `ILLEGAL` stands for the words on
  which `Instr::decode` asserts, `UNKNOWN` for those it does not recognise. An address beyond the
  image, or one that is not a multiple of four, reads as `UNKNOWN`; the programs jump to whole words
  only.
- *Program loading.* The interpreter reads its program from a sequence of tokens, an address or a
  group of digits each (`HexImage`); instruction bytes keep their 8 bits, and the data memory keeps
  the low `ByteBits` of the same bytes. The processor's programs and image are constants. In the code
  both memories come from one file; a program cannot change its own instructions in either.
- *The choice of a table.* TAGE picks one of the eligible tables with a linear feedback shift
  register; the model picks any of them, the table that the register would pick among them.
- *Ages.* TAGE counts committed conditional branches and ages its tables at every multiple of
  `AGE_PERIOD`; the model keeps the count modulo the period. Histories, tables, tags and tokens have
  the code's operations at parametric widths.
- *Dropped fields.* `vj_ready`, `vk_ready`, `executing`, the raw word and the second copy of
  `is_branch` in the stations: they always agree with a field that is kept, or nothing reads them.
- *Left out.* Statistics, trace, the printed result, the cut-off of `run()` after a number of cycles.
  `cycle_count` is kept modulo 2, so that every cycle is a change that fairness can speak of.
- *Assertions.* A failed assertion or an exception sets `aborted`; nothing happens afterwards.
- *Undefined behaviour.* Shifting by the width of the word or more is undefined in C++; the model
  masks the amount, and no program of a run depends on it. The interpreter's registers have no
  initialiser, so they start with any of `StartWords`.
- *Bounds.* `MaxTag` stops a run after that many allocations; in the runs of the processor it is
  above what any program allocates, so that it cuts off nothing (`RunReturns` would fail).
  Nor does the machine run out of tags: `alloc` returns its tag as `int` and `issue` takes a negative
  one for failure (`cpu.cpp:327`), but `run()` counts cycles in an `int` and issues at most every
  second cycle, so that 2^31 is never reached. `MaxInFlight` bounds the branches between fetch and
  commit, as the reorder buffer does; `MaxToken` is where the token counter wraps (2^32 - 1 in the
  code).

## 3. What is checked

### Passing runs

| Run | Instance | Shows |
| --- | --- | --- |
| `rob_queue` | ring of 3, up to 5 allocations, any results, commits, squashes | `RobTypeOK`, `RobContiguous`, `RobTagsInOrder`; `IsInOrderQueue` |
| `cpu_alu` | 3 registers, ring of 3, 2 stations, tokens 1 .. 4; every program of 4 instructions from 9 (add, subtract, two branches, two jumps, NOP, HALT), and loops | renaming, speculation, recovery; `ImplementsIsa`, `RunReturns` |
| `cpu_mem` | ring of 3, 3 load/store stations, 2 stores, a delay of 2; programs of 4 accesses of each width, pairs of late stores, loops that update a word, loops closed by a jump that links | the store buffer, the memory's owner protocol, forwarding, wakeups; `PipelineInvariant`, `ImplementsIsa`, `RunReturns` |
| `cpu_phases` | ring of 4, programs of 3 instructions of every kind | `PhaseOrderIrrelevant`: 120 orders in every reachable cycle |
| `interpreter` | words of 16 bits; programs of an instruction that sets a register, then two of any type, or words that are none, each loaded from its text; one of them in seven more spellings | `LoadedAsMeant`, `DecodeInvertsEncode`, `EncodeInvertsDecode`, `InterpreterIsIsa`, `StopsWhereIsaDoes`, `InterpreterReturns` |
| `predictors` | each of the five predictors on 11 loops: one branch with every repeating pattern of up to four outcomes, two branches on one counter, a loop with a return, one whose branches contend for entries; 3 branches in flight, 2 tagged tables of 8 entries with histories of 2 and 3, 3 tokens | `PredictorTypeOK`, `PredictorInvariant`, `PredictorNeverAsserts`, `FoldsMatchHistory`, `SpeculationIsAChain`, `ProvidersStayInPlace`, `TablesIgnoreCallOrder`; `ImplementsCheckpoints`, `LearnsInOrder`, `Learns` |

**Why the bounds are enough.** A ring of 3 wraps in programs of four instructions and many times in the loops, is full and empty,
and can commit, receive a result, allocate and flush in one cycle. With 2 and 3 stations and 2 store
slots each resource is exhausted before the ring in some program and after it in others. The
following were confirmed to be reached: ring, both stations and store buffer full; both candidates
for the bus at once; a value forwarded; two stores that could forward; an answer of the memory whose
load was squashed; a token that wraps. Three registers allow a source, a destination and a rename.
Loops give the ring and the tokens time to wrap.

The runs of the predictors need no bound on their length: a script is a loop and the predictor's
state is finite, so that every number of iterations is covered, at every interleaving of fetch and
commit. With two tagged tables the following were confirmed to be reached: the array of pending writes
full to its last slot, aging of both useful bits, a monitor of -4, the aging of longer candidates
when none can be allocated, and a wrapped token. The history buffer of 4 wraps, and foldings are
narrower than, as wide as and wider than their histories. In `interpreter` every instruction type is
fetched and decoded; beside the programs, the encodings are compared on immediates with every bit
alone and at both ends of their ranges, and on words with every major opcode and with function
fields that exist and that do not.

**Restriction.** In `cpu_mem` no store follows one whose base register is late (`LateStoreLast`),
except for two such stores one after the other: the programs it excludes are those of the second
finding below. One program accesses memory with one width: mixing them is the third.

**Fairness.** `run()` calls `cycle()` in a loop, and `step()` is called in a loop by the
interpreter's `run()`; weak fairness of the cycle (`WF_cycle_count(Tick)`) and of the step says
just that. Nothing is assumed about predictions: a program must return whatever is predicted.
`InterpreterReturns` starts where the program is loaded. The predictors need no fairness: `Learns`
says that mispredictions come to an end, whether or not any branch ever commits again.
Deadlock is checked, and the end of `run()` is a stuttering `Stopped`, except in `rob_queue`, which
stops at its bound, and in `wrong_path_load`, where the process ends.

**The refinement.** What a programmer sees of the simulator is the register file, the memory with
the committed store that is on its way in (`ArchMem`; `run()` may return before it is written, as
nothing reads the memory afterwards), and the address of the oldest instruction that has not
committed (`OldestPc`). `ImplementsIsa` says that these follow `ArchSpec`. Instructions without
effect never enter the ring, so `ArchSpec` skips them.

### Properties

| Property | What could go wrong |
| --- | --- |
| `RobContiguous` | ends and busy flags disagree, and full is taken for empty |
| `RobTagsInOrder` | comparing tags is not comparing ages |
| `IsInOrderQueue` | an instruction is lost, duplicated or reordered |
| `RatNamesYoungestWriter` | commit or recovery clears the alias of a younger writer, or keeps one of a squashed one |
| `ReadyAliasIsCurrent` | a ready alias holds an old value |
| `CheckpointsFollowBranches` | a branch meets the checkpoint of another one |
| `AssertionsHold`, `AbortsOnlyAsInterpreter` | an assertion fails that the program does not deserve |
| `UsesPredictorAsAllowed` | the processor uses the predictor in a way its interface, and TAGE, do not provide for |
| `ResultsStick` | a result of a squashed or reused tag overwrites another |
| `StationsHoldTheWaiting` | an instruction has left its station without a result, or survives in one after a squash |
| `NoLostWakeup` | an operand waits for a result that has already gone by |
| `StoreBufferHoldsTheStores` | a store is forgotten in one of its two places, or has different values in them |
| `PipelineInvariant` | an instruction in flight has lost an entry or has two, an operand waits for nothing, a value differs between two of its places |
| `RequestsHaveOwners` | the answer of the memory goes to the wrong load |
| `ForwardedIsMemoryValue` | forwarding gives another value than memory |
| `PhaseOrderIrrelevant` | a phase reads what another wrote in the same cycle |
| `ImplementsIsa`, `InterpreterIsIsa` | a program computes something else |
| `StopsWhereIsaDoes` | an assertion ends a program that is defined, or a HALT is none |
| `LoadedAsMeant` | metadata, a short byte or a second address shifts the image |
| `DecodeInvertsEncode` | an immediate is put together, shifted or sign-extended wrongly |
| `EncodeInvertsDecode` | a word is executed as an instruction that it does not encode |
| `PredictorNeverAsserts` | an update meets another branch's checkpoint, or the pending writes overflow |
| `FoldsMatchHistory` | a folding drifts away from the history it stands for, or repair forgets one |
| `SpeculationIsAChain` | a squash, or a commit beside a prediction, leaves a history that no sequence of branches has |
| `ProvidersStayInPlace` | the entry a prediction came from has another owner when it is trained |
| `TablesIgnoreCallOrder`, `CallOrderIrrelevant` | a prediction sees half of an update of its own cycle |
| `PredictorInvariant` | a branch in flight has lost its checkpoint, its history, its place in the program or the entry it trains |
| `ImplementsCheckpoints` | the processor is checked with a predictor that TAGE is not |
| `LearnsInOrder` | a counter is trained for a history that the program never had |
| `Learns` | a regular loop is mispredicted for ever, its entries evicted again and again |
| `RunReturns`, `InterpreterReturns` | the machine hangs |

Every property of a passing run has a mutant: a small, plausible mistake in one operation under
which TLC finds the property violated. The mutants stand beside the operators they replace.

### Disagreements found

Six runs expect a violation; each is the shortest way TLC found to it.

1. `stale_link`: recovery restores an alias from the register file of before the cycle
   (`regaliastab.cpp:41`) although the comment above asks for the next value. After a mispredicted
   `JALR` that links, with a wrong-path writer of the same register in flight, the alias stays
   ready with the old value. `ReadyAliasIsCurrent` holds in `cpu_alu`, where no `JALR` links,
   and is proved of all such programs (`ReadyAliasesAreCurrent`).
2. `stale_forward`: a store whose base is ready at issue never tells the store buffer its address
   (`lsrs.cpp:135-145`). When it has left the station, an older store to the same word forwards.
3. `mixed_widths`: forwarding compares start addresses only (`storebuf.cpp:54`), and returns the
   whole register that a narrower store will write a part of.
4. `wrong_path_load`: a misaligned load that is never executed by the program aborts the simulator
   (`src/src/mem/datamem.cpp:10`).
5. `uninitialised_x0`: the first instruction the interpreter runs may read x0 before anything has
   set it to zero (`src/include/interpreter/regfile.hpp:12`).
6. `predict_order`: of all that TAGE's prediction reads, only the monitor of new entries is read in
   the copy that an update of the same cycle writes (`branchpred.cpp:489`), so that the direction
   depends on whether fetch or commit is called first; `README.md:5` of the repository has the
   phases exchangeable. Results do not depend on it, and the other predictors keep to the rule
   (`TablesIgnoreCallOrder`). `PhaseOrderIrrelevant` holds beside it, as it leaves directions open.

**Two observations.** An entry of TAGE is given to another branch only when a branch was mispredicted,
and that squashes everything in flight in the same cycle. So a checkpoint whose provider has been
displaced, which the comment at `branchpred.cpp:529` provides for, does not occur as the pipeline uses
the predictor (`ProvidersStayInPlace`). The check in the code is harmless.

The bus need not be cleared of squashed results (`cpu.cpp:406`). After a squash all stations are empty and
fetch pauses for a cycle, so that when the next instruction is issued the bus has moved on; and no
later instruction has a squashed tag. No property here therefore speaks of that line, and without it
`cpu_alu` and `cpu_mem` still pass.

## 4. What is proved

All theorems hold for every value of the constants that the assumptions named below admit: any
number of slots and stations, any program, table, history and number of tokens. Each invariant was
first checked by TLC, as an invariant of a run.

### The reorder buffer

| Theorem of `RobQueueProofs` | Says |
| --- | --- |
| `TypeCorrect`, `RingContiguous`, `TagsInAgeOrder` | `Spec => []RobTypeOK`, `[]RobContiguous`, `[]RobTagsInOrder` |
| `RingIsQueue` | `Spec => IsInOrderQueue`: the ring implements the bounded queue `InOrderQueue` |

None of the three invariants is inductive alone. Contiguity after an allocation needs the tail to be
free, which needs the type and the count; contiguity after a flush needs everything that is still
busy to have a larger tag than the branch, which is the order of the tags; and the order of the tags
after an allocation needs the new entry to be the last of a contiguous stretch. The inductive
invariant is `RingOK`, their conjunction (`RingInvariant`), stated of *any copy* of the buffer: a
cycle applies commit, results, allocation and flush to the next copy one after the other, and a
lemma per operation (`ReorderBufProofs`) leads from a good copy to a good copy. Two facts hold only
in the middle of a cycle (`MidCycle`): full is decided on the current copy, so a copy that has since
committed has room; and after a commit everything busy is younger than the instruction that left
(`Behind`), so that the flush that may follow empties the ring.

For the refinement, the queue is what lies between head and tail, and its length is what the code's
count says (`BusyCount`). A cycle then removes the first element or none, leaves everything between
alone, and appends at most one (`OrdinaryCycle`), or empties the queue (`RecoveryCycle`).

### The processor

`PipelineInvariance` proves `Spec => []PipelineInvariant`; the theorems beside it in
`TomasuloProofs`, and the one of `PhaseProofs`, follow from it.

| Theorem | Property |
| --- | --- |
| `CpuRingContiguous`, `CpuTagsInAgeOrder` | `RobContiguous`, `RobTagsInOrder` |
| `AliasesNameYoungestWriters` | `RatNamesYoungestWriter` |
| `ReadyAliasesAreCurrent` | `ReadyAliasIsCurrent`, of programs in which among the branches only `JAL` links |
| `AliasesStayCurrent` | without that restriction, a step loses `ReadyAliasIsCurrent` only when a branch that links squashes |
| `WakeupsAreNotLost` | `NoLostWakeup` |
| `WaitingInstructionsAreInStations` | `StationsHoldTheWaiting` |
| `StoreBufferHoldsStores` | `StoreBufferHoldsTheStores` |
| `RequestsAreOwned` | `RequestsHaveOwners` |
| `CheckpointsFollow` | `CheckpointsFollowBranches` |
| `ResultsAreFinal` | `ResultsStick`, of every step |
| `PredictorUsedAsAllowed` | `UsesPredictorAsAllowed`, of every step |
| `AssertionsNeverFail` | `AssertionsHold`, of every step |
| `PhaseOrderNeverMatters` | `PhaseOrderIrrelevant` |

`PipelineInvariant` is `FrontInv /\ StationInv /\ MemoryInv /\ BranchInv`, `TokensInOrder` and
`JumpsHit`, and no part is inductive without others:

- `NamesYoungest` (aliases) needs the order of the ring: an allocation becomes the youngest writer
  because its tag is the largest, and a commit clears the right alias because tags differ.
- `Paired` (each instruction without a result has one station entry, and the reverse) needs
  different tags too, as entries are found by tag. That stations and aliases are emptied by a squash
  fits only because the ring is empty after it (`Behind`).
- `Wakeups` (an operand waits for an older instruction that has no result yet, or whose result is on
  the bus) needs `Paired`, for the instruction to be in a station and the result to come from there,
  and needs `NamesYoungest`, for what issue reads from the alias table to be in flight.
- `StoresPaired` needs the age order, so that the store that commits is the one both buffers mean.
- `ValuesAgree` (station, store buffer and ring hold the same value of a store) and `Served` (the
  memory works for a load that knows of it, with its address and type) need both pairings, and
  `Served` that a tag the memory still remembers is below `next_tag`, so that no later load gets it.
- `BranchInv` (the checkpoints list the conditional branches of the ring by age, then the one in
  fetch) needs the order of the ring: the head, when it is such a branch, has the front checkpoint
  because its tag is the least, and the branch that issue takes out of fetch stays last because its
  tag is the largest. It needs `KindOK` too, that an entry is flagged as a branch when its type is
  one. From it follow that no assertion about the records fails, on any program (`AssertionsNeverFail`),
  and that a prediction always finds a free token (`PredictorUsedAsAllowed`). The latter joins the two
  halves of the project: the processor keeps to the interface that TAGE implements
  (`TageImplementsInterface`).
- `TokensInOrder` (the tokens of the checkpoints are the last that were handed out, in their order) needs
  from `BranchInv` that there are fewer checkpoints than tokens, so that counting on never meets one
  in use. From it follows that the token a prediction takes is the same whether or not the commit of
  the same cycle has already removed the front checkpoint.
- `JumpsHit` (a `JAL` that has its result was predicted right) follows it from issue, where buffer and
  station get the address and the immediate it was fetched with, through the station to the entry
  that is written. It needs `Paired`, so that the result goes to the entry it was computed for.

`ReadyAliasIsCurrent` is not a consequence of the invariant, and is false on some programs (finding 1).
What is proved is where it can go wrong. Recovery restores the register file of before the cycle; the
only register this misses is one that the branch that squashes itself writes in that cycle
(`CurrentSquash`). So every other step keeps the property (`AliasesStayCurrent`), and in programs whose
`JALR`s are plain returns it always holds (`ReadyAliasesAreCurrent`): a conditional branch writes no
register, and a `JAL` never squashes, by `JumpsHit`. The hypothesis, `OnlyJalLinks`, is met by the
programs of `cpu_alu` and of every program without calls through a register; `stale_link` shows that
it is needed.

`CycleProofs` first takes the cycle apart (`CycleEffect`): what each component becomes is written as
an expression in the current copies, one conjunct per component. `FrontStep` is then argued from
`ReorderBufProofs`, `StationsStep` and `MemoryStep` from both (`StationProofs`), and `BranchStep` from what
a cycle does to the predictor and the latch (`CycleFront`, in `TomasuloProofs`), each for a cycle with and
without a squash; `CycleKeeps` joins them. No part of the invariant depends on what a
word is, so it holds for every width, and for arbitrary predictions.

That the order of the phases never matters (`PhaseOrderNeverMatters`) is the promise of `README.md:5` of
the repository, that the phases of a cycle may be exchanged. `PhaseProofs` states each next copy as a
function of which phases have run: `RobAt(c, w, i, args)` is the ring after those of commit, writeback
and issue whose flag is set, in the order of the code, and there is such a function for every part.
Each phase turns its own flag on whichever of the others have run, so that five phases in any order
end in the same copies (`PhaseAdds`, by one lemma per phase; `AnyOrder`). Where two phases write
the same part, this needs the invariant:

- *Ring.* The slot that commits has its result, and the one issue fills is free, so that writeback
  writes to neither (`SlotNotWritten`, from `Paired`); head and tail are moved by one phase each.
- *Aliases.* commit clears the alias of the head only if it has its tag, and the tag issue writes is new.
- *Stations.* An entry that executes has its operands and hears nothing, and is not what is being
  freed; issue takes a slot that was free before the cycle, where neither of the others does anything.
- *Store buffer.* A store that commits has no undone entry in the station to hear from (`StoresPaired`).
- *Memory.* A load and a store are asked for in separate requests of the next copy, and each phase
  looks at the request of before the cycle.
- *Predictor.* fetch adds a checkpoint at the back, commit removes the front one, with an update that
  still finds its own (`BranchInv`), and the fresh token does not depend on that (`TokensInOrder`).
- *Latch.* fetch fills it only when it is empty and issue empties it only when it is full. The predicted
  return address, written in place by fetch, is read by issue only when fetch does not write it.

A direction that is predicted is the same in all orders; that TAGE's own tables may choose it
differently is finding 6.

Assumptions: `IsaAssumption` (there is a register and a memory, and a word has a zero: a fact about
exponents, which the provers cannot reason about), `RobSizeAssumption`, `AluRsSizeAssumption`,
`LsRsSizeAssumption`, `SbSizeAssumption` (at least one slot each), `MaxTokenAssumption`,
`DmemAssumption`, `ProgramsAssumption` (programs are sequences of instructions), `TokensAssumption`
(there are more tokens than entries in the ring: 2^32 - 1 against 32), and for `RobQueueProofs`
`EnvAssumption` (the environment passes instructions and words). No other relates two sizes, and
none bounds the tags: `MaxTag` is any number.

### The predictors

`PredictorInvariance` proves `Spec => []PredictorInvariant`, for each of the five predictors on every
looping script.

| Theorem of `PredictorProofs` | Property |
| --- | --- |
| `PredictorTypes` | `PredictorTypeOK` |
| `UpdatesNeverAssert` | `PredictorNeverAsserts`: an update meets its own checkpoint, and staged writes fit |
| `SpeculationIsChained` | `SpeculationIsAChain` |
| `ProvidersStay` | `ProvidersStayInPlace` |
| `TablesIgnoreOrder` | `TablesIgnoreCallOrder`, of every step |
| `GshareLearnsInOrder` | `LearnsInOrder`: gshare with its speculation implements `InOrderGshare` |
| `TageImplementsInterface` | `ImplementsCheckpoints`: TAGE implements the `BranchPred` of the processor |

What `PredictorInvariant` adds to the properties it contains: `Aligned` says that the checkpoints are
those of the branches in flight in their order, with the same token, address and prediction, and
without it nothing is known of what an update finds; `OneJump`, that only one jump is in flight, so that
branches and checkpoints can be counted against each other; `FollowsScript`, that up to the first miss
what is in flight is what the program executes next, which the abstract gshare is told; and
`ContextsFit`, that a token of gshare or of the tournament is the index its prediction was made with.
`ProvidersStayInPlace` in turn needs `Aligned`, and that entries change owner only on a miss.

`PredictorCallProofs` has what `predict`, `update`, `recover` and `clock` each do to a predictor.
`PredictorProofs` states the invariant of a predictor between two calls (`Between`) and leads it
through a cycle: `FetchEffect`, then `RightCommit` or `SquashEffect`, then `ClockIdle`. That
predictions do not depend on the order of fetch and commit is commutation (`CallsCommute`);
`LearnsInOrder` is one step of the abstract gshare per update (`LearnsOneItem`); `ImplementsCheckpoints`
is what a fetch and a commit show of the checkpoints (`FetchShown`, `CommitShown`).

Assumptions: `TablePredictorsAssumption` and `TageAssumption` (sizes are positive, tags have two bits
or more; and of the exponents in use that 2^n is a positive number and 2^(n+1) is twice 2^n, true of
all of them but beyond the provers), `MaxTokenAssumption`, and `PredictorsAssumption`
(`MaxInFlight <= MaxToken`: in the code 32 entries of the ring and one fetched against 2^32 - 1 tokens). TLC evaluates
every assumption on the runs.

### Only model-checked

| Property | Why there is no theorem |
| --- | --- |
| `RunReturns`, `InterpreterReturns`, `Learns` | liveness, out of the prover's reach |
| `ImplementsIsa`, `InterpreterIsIsa` | the machine disobeys `ArchSpec` on some programs (findings 2 and 3); a theorem would have to be about those of the runs |
| `ForwardedIsMemoryValue` | false in general (findings 2 and 3), true of the programs of its run |
| `CpuTypeOK` | that a computed value is a word depends on exponents and bitwise folds |
| `FoldsMatchHistory` | the reference folds bit by bit: induction over data |
| `TypeOK`, `StopsWhereIsaDoes` | the interpreter fetches and decodes words with exponents and bitwise folds |
| `DecodeInvertsEncode`, `EncodeInvertsDecode`, `LoadedAsMeant` | arithmetic on bits; the loader is an induction over the text |

## 5. Not modelled

Trace files, statistics and reports, the printed result, the executables and the reading of files:
they are output and input that no state depends on. The cut-offs of the two `run()` methods after a
number of steps. A program text with an address that `stoull` cannot read, or whose bytes run past
the end of the memory, which the code writes unchecked: undefined. The sequence of the shift register
in TAGE (any table it may pick is picked).

## 6. Plan

Done: the order above, from the reorder buffer over the components to the processor, with the
sequential machine as its specification, and the proofs about the ring; then TAGE and the other
predictors, which implement the interface the processor is checked with; the decoder against an
assembler; the program loader. All parts of the system with state of their own are modelled.

Also proved: the ring's refinement of a queue; the inductive invariant of the processor with the
safety properties that rest on it, and that its phases may run in any order; the predictors'
inductive invariant and both their refinements.

Next:

1. *The interpreter.* Its type and `StopsWhereIsaDoes`, with the facts about exponents as assumptions.
2. *Wider instances.* Other shapes of programs for the memory run, as far as the findings leave
   room for properties that hold.
