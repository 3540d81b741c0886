# PaKis: a verification project

PaKis is a portfolio SAT solver: `src/painless-src` (C++) starts one thread per
solver, gives every one the formula, and prints the answer of the first that
finds one; the solver is kissat (`src/kissat/src`, C), of which every thread owns
an instance.  This directory holds TLA+ modules that model both layers, TLC
configurations that check them on small instances, and proofs, checked by TLAPS,
of what the portfolio promises for any number of solvers.

## The system

| part | state | operations | who calls it |
|---|---|---|---|
| main (`painless.cpp`) | `globalEnding`, `finalResult`, `finalModel` | launch, poll once a second, time-out, delete, print | the user |
| `Portfolio` | `slaves`, `strategyEnding` | `solve`, `join`, `setInterrupt`, destructor | main; `join` by a worker thread |
| `SequentialWorker` | `force`, `waitJob`, a mutex and a condition, its thread | `mainWorker`, `solve`, `join`, `setInterrupt`, `unsetInterrupt` | `Portfolio`, its own thread |
| `KissatSolver` | `stopSolver`, clause lists and buffers, `lbdLimit`, reference count | `solve`, interrupt and unset, callbacks, `addInitialClauses` | worker, sharer |
| `ClauseBuffer` | a lock-free list: `head`, `tail`, `size` | `addClause`, `getClause` | solver and sharer threads |
| `ClauseManager` | reference count of every `ClauseExchange` | alloc, increase, release | solvers, sharers, database |
| `ClauseDatabase` | one vector of clauses per size | `addClause`, `giveSelection` | `HordeSatSharing` |
| `SimpleSharing`, `HordeSatSharing` | `tmp`, the database | `doSharing` | the sharer's thread |
| `Sharer` | producers, consumers, four request lists, two mutexes | the thread's round, add, remove, destructor | a client |
| `SatUtils` | - | `loadFormulaToSolvers` | main |
| kissat: trail | values, levels, reasons, frames, `propagated` | assign, decide, backtrack, flush | search |
| kissat: clauses | arena, watch lists, queue of recent clauses | add, watch, mark garbage, collect | search, learning, reduction |
| kissat: search | conflict counters and limits, the analysis stacks | `kissat_search` and all it calls | `kissat_solve` |
| kissat: interface | import and export maps, flags, extension stack, values of eliminated variables | `kissat_add`, weaken, extend, `kissat_value`, compaction | the wrapper; search and inprocessing |
| kissat: inprocessing | gates, occurrences, resolvents, representatives, the roots of probes | eliminate, subsume, substitute, autarkies, probe | search, at level 0 |
| kissat: decisions | the queue of focused mode, a heap of scores for each heuristic | bump, push, pop, decide, switch, rescale, compact | search; every assignment and backtrack |
| kissat: local search | counters, the list of falsified clauses, the trail of flips | import, flip, break, save | rephasing, the first search |
| kissat: the rest | averages, limits, reluctant counter, saved phases, vectors | | search; see the plan |

The parts interact by shared memory (atomics and plain globals), by one
condition variable per worker, by the lock-free buffers and, inside kissat, by
calls.  main creates no sharer in this version, and kissat itself does not call
the import and export callbacks: the sharing part is modelled as the interface
it is.

### What is hard, and what makes each part correct

*Portfolio.*  An answer, a time-out, another answer and the deletion of the
workers can meet in any order, and no lock protects the flags that arbitrate
between them.  Correct means: the program ends; it prints the status of the
formula, or UNKNOWN only after the time-out; the answer of an accepted winner is
the one printed; a verdict is never taken back; no thread survives main; no
solver is asked to search twice, for `kissat_require` then aborts the process.

*Buffers and sharing.*  `getClause` deletes the old head while others may still
hold it; a clause lives by a counter that producers, consumers and the database
change at different times.  Correct means: the list is a FIFO queue and touches no
freed element; the counter is the number of holders at every step; a clause
reaches every other consumer, and none twice; requests to the sharer are served.

*The loader.*  A character is consumed in several places, and the sign of a number
lives across iterations.  Correct means: the clauses are those the file holds.

*The search.*  With chronological backtracking the levels on the trail are not
sorted, literals that are older than the conflict survive backtracking and are
propagated again, and on-the-fly strengthening replaces the reason it resolves
with.  Correct means: what is learned is implied; what is dropped was implied;
watches match clauses; a reason outlives its literal's assignment; propagation
misses neither conflict nor unit; the answer is right; the bounds that loops over the
arena go by leave no clause out; and the loop of restarts, reductions and rephasings
always comes back to decisions.

*Decisions.*  Three structures name the next variable, and the one in use changes during the
search.  An assigned variable leaves a heap only when it is met, and the search position of
the queue moves only when it must.  Correct means: whatever the order of bumps, restarts, switches,
eliminations and compactions, the next decision is the best unassigned variable.

*Local search.*  One flip changes the state of many clauses, and the best assignment is
kept as a prefix of the flips.  Correct means: counters and list match the
assignment; what is saved at the end is the best assignment met.

*Simplification.*  Clauses are dropped, and variables eliminated, between searches.  What
is dropped goes on the extension stack with the literal that can satisfy it, and the
stack is read backwards once there is a model.  Redundant clauses take part in some
of the reasoning and must not be what an irredundant clause is given up for.
Compaction gives variables new numbers, one for all fixed ones.  Correct means:
the model that the user reads satisfies the formula that was added; a satisfiable
formula stays so; learned clauses keep following from the irredundant ones; the
import map leads to the right variable and sign.

`PROJECT.json` lists every source file under `components`, and every hazard with
its line under `hazards`.

## Modules

| module | models | extends or instantiates |
|---|---|---|
| `PortfolioAnswer` | what a run promises its user: one answer, or none after the time-out | |
| `Portfolio` | main, `Portfolio`, the workers, the flags of the solvers | `PortfolioAnswer` (refinement) |
| `PortfolioProofs` | theorems about `Portfolio` | `Portfolio`, `TLAPS` |
| `FifoQueue` | what a buffer promises: a FIFO queue | |
| `ClauseBuffer` | the lock-free list, one atomic access per step | `FifoQueue` (refinement) |
| `ClauseBufferProofs` | theorems about `ClauseBuffer` | `ClauseBuffer`, `Induction` |
| `ClauseDatabase` | the clauses HordeSatSharing keeps, by size: operators only | |
| `Counting` | how often an element occurs in a sequence or a family of sequences: operators only | |
| `ClauseSharing` | a round of either strategy, callbacks, reference counts | `ClauseDatabase`, `Counting` |
| `ClauseSharingProofs` | theorems about `ClauseSharing`, and what the operations on sequences do to the number of occurrences | `ClauseSharing`, `TLAPS` |
| `Sharer` | the sharer thread and the registration of solvers | |
| `SharerProofs` | theorems about `Sharer` | `Sharer`, `TLAPS` |
| `DimacsLoad` | the reading of the formula | |
| `DimacsLoadProofs` | the theorem about `DimacsLoad` | `DimacsLoad`, `Induction` |
| `KissatTrail` | assignments as records; assign, decide, backtrack, flush | |
| `KissatClauses` | clauses and watches as records; watching, sorting, collecting | `KissatTrail` |
| `KissatSearch` | the loop of `kissat_search` | `KissatClauses` |
| `KissatExternal` | the solver seen from outside: adding, importing, extending, compacting | `KissatTrail` |
| `KissatGates` | gates and resolvents for elimination | `KissatExternal` |
| `KissatProbing` | failed literals, ternary resolution, transitive reduction, vivification | `KissatExternal` |
| `KissatSimplify` | adding, simplifying, answering: composes the three | `KissatGates`, `KissatProbing` |
| `KissatDecide` | queue and heaps, and what changes them | `KissatTrail` |
| `KissatDecideProofs` | theorems about `KissatDecide` | `KissatDecide`, `Induction` |
| `KissatWalk` | the local search | |
| `KissatWalkProofs` | theorems about `KissatWalk` | `KissatWalk`, `Induction` |
| `Induction` | induction over the numbers as a fact about sets; iterations and folds of an operator that the instance names | `TLAPS` |

The `MC...` modules only give values to constants.  A definition named like
another with a suffix and commented "With a mistake" is a variant of the
definition after it with a plausible bug; it is used by no specification, and
`PROJECT.json` (`mutants`) says which property fails when it takes the other's
place.

### Portfolio

A step is one access to shared memory, or one critical section of `mutexStart`.
The program counter of each worker goes through `mainWorker`, `SequentialWorker::join`
and `Portfolio::join` in the order of the code; the header of the module lists
which value stands where.  `Portfolio::join` runs in the thread of the worker that
has the answer, so `setInterrupt` by two winners, by the time-out (`TimeoutForce`,
`TimeoutTerm`) and by the destructors (`DeleteForce`, `DeleteTerm`) interleave.

* The wait is under an `if` and not under a `while`: `SpuriousWakeup` goes on
  without looking at `waitJob`.
* `strategyEnding` has no initialiser and starts with an arbitrary value.
* A write to a deleted worker is undefined: it has no effect, or kills the process
  (`Touch`).
* Two overlapping assignments of the vector `finalModel` leave either's value or a
  mixture, `Torn`.  The reallocation such a race could corrupt is not modelled.
* `kissat_solve` may be called once per solver: `CallSolve` aborts the second time,
  as `kissat_require` does.
* `terminate` is set by `setSolverInterrupt` in one step with `stopSolver`, which no
  code reads; nothing in kissat takes it back but the end of a search.
* `waitInterrupt` is never called and is left out.

### ClauseBuffer

One step per atomic access of `addClause` and `getClause`.  `malloc` may return the
address of a deleted element, so `ABA` can happen; a read through a dangling pointer
yields any value.  The two successful exchanges, on `tail->next` and on `head`,
are the points where a clause enters and leaves the queue: under the mapping
`queue <- Queued`, the clauses of the list after its head, all other steps stutter.  The module takes any set
of producers and consumers; it is checked with one of each, which is how the
program uses its buffers.  With two producers the queue is not correct: one of
them can link its element behind one that is already deleted.

### ClauseDatabase, ClauseSharing, Sharer

`giveSelection` is modelled one turn of its loop at a time.  In `ClauseSharing` a step is
one operation on a buffer or on a counter, and the history variable `received` holds what each
solver imported.  A parameter chooses the strategies; each behaviour runs one
of them.  `lbdLimit` is counted up to `MaxLbd` only.  `shr-lit` is assumed positive: with
zero the code divides by it.  HordeSatSharing sends a clause back
to its exporter if it was stored in another producer's turn, and spends the
budget once per producer: neither is claimed otherwise here.

`Sharer` has the client's calls, each under its lock, and the rounds of the thread.
The lists of solvers, and those of solvers to be added, are bags: the thread only adds all of
one to the other, removes every place of a solver, and visits all places, so their order never matters.
The removal requests are served one by one and stay sequences.
The client names a solver once per list (`Free`); a second request before the thread
has served the first finds places and references out of step.

### DimacsLoad

A step is one turn of a reading loop.  Characters are the numerals and one of each
other kind.  The reference definition, `Numbers`, reads the file from the
places of its characters and not with a loop.  Numbers are not bounded as the
code's `int` is.  A file that ends inside a comment line is read for ever; a file
that cannot be opened is treated by main as an empty formula.

### KissatTrail, KissatClauses, KissatSearch

The assignment and the clause database are records, and the functions of kissat
that change them are operators; `KissatSearch` composes them.  A step is one
watch visited by the propagation, one round of the loop of `kissat_analyze`, one
resolution, or one case of the loop of `kissat_search`.

Heuristics choose among legal steps and are nondeterministic: the decision
variable and phase, the level a restart keeps, the moment a limit triggers once
there was a conflict, the clauses a reduction drops, the replacement the saved
search position finds.  This over-approximates the code.  The limits `ReduceInt` and
`RephaseInt` scale the intervals of the options.  Abstracted: watches moved to
another list are pushed at once instead of after the list is done; minimisation is one pass
over the trail without its bound on the depth; `used`, `hyper`, statistics, bumping,
and the addresses in the arena are left out: a reference stays with its clause unless the
clause changes its place among the others.  Glue is computed where it decides about `keep`.
Formulas have no unit clauses at the start.  Some of their clauses may be redundant,
as after an earlier simplification; only then are there redundant clauses in front of
irredundant ones, which a reduction moves to the end.

`first_reducible` and `last_irredundant` are bounds and need not be exact.  In particular, when
the sweep deletes the last irredundant clause and meets no other, it takes the place
where it began for the last one, and if nothing is left from there on it gives the
bound up; all loops that use it then go to the end of the arena.

### KissatDecide

A step is a call that changes the queue or a heap: reading a literal, a decision, a propagated literal, an
analysis with its bumps, a restart, a switch of mode or heuristic, an elimination, a compaction.
What is propagated or learned is left to the levels.

*Compaction* is part of `kissat_reduce` (`reduce.c:216`), which the search calls between a conflict and the next decision, at
any level: `reducerestart` is 0 by default, and `kissat_flush_and_mark_reason_clauses` goes back to level 0
only if there are units to flush (`trail.c:75`).  So `Compact` fires in `pc = "search"` with no unit on the trail, at every level; what a
reduction does before it if there are units is `BacktrackTo(0)`, `Propagate` and `Flush`.  `numbered` is `solver->vars`: `Import` raises it
when a variable is first read, `Compact` lowers it to the variables that keep a number (`Kept`), the active ones and
the first fixed one, and does nothing if these are all.  `Compacted` is `kissat_finalize_compacting`: `Renamed` maps the trail, the
values, levels and reasons; `CompactQueue` gives new links and stamps, with the search inside the queue and assigned
variables behind it; `CompactScores` fills each heap again with those that were on it, so that popped variables stay
away until they are unassigned.  When a reduction finds it worth while to compact (`compacting`) is left open.

Some details of the code that the model keeps or that it made visible:

* PaKis itself sets neither `mab` nor `heuristic`, so that its solvers run with one heuristic; the
  instances have behaviours of both kinds.
* On a change of heuristic, backtracking fills the old heap and `update_scores` fills the new one
  (`restart.c:153`, `:160`).  Either alone would do.
* `reuse_stable_trail` keeps a score, a double, in an unsigned (`restart.c:55`): the level a restart keeps in
  stable mode is any.
* `compact_queue` gives the search its new number inside the loop that compares it with the old ones (`compact.c:164`), and
  may meet the new number as the old one of a later variable.  The search then sits at that later place.  This does no harm, since the
  search only moves towards the end of the queue, and all that a search must have before it, it still has.
* The loop that bumps CHB scores in `propsearch.c:93` takes one literal more than the level has.
* The checks under `CHECK_QUEUE` name a member that the queue does not have and cannot be compiled in.
* Whether `rephased.type` blocks a switch of mode is left open.

### KissatWalk

A walk imports the saved phases, connects the irredundant clauses and then flips literals of falsified
clauses.  Which clause and literal are picked, and when the walk is cut off, is open: the scores only
weigh the choice.  Target phases play no part, for they are cleared before a rephasing walks and
not yet set when the search begins.  The trail holds at most `VARS / 4 + 1` flips as in the code
(`walk.c:689`); with `N = 4` that is 2, and the limit is reached.

`save_walker_trail` (`walk.c:648`) reads the current values of the variables up to the best
position.  A variable that was flipped again since then is saved with its later value, although the
report speaks of an improved assignment (`walk.c:846`).  `SavedIsBest` therefore excepts these variables, which the
history variable `reflipped` collects; without the exception TLC finds it violated.
Saved phases are only hints, so that no answer depends on it.  The fallback to
`kissat_rephase_best` for formulas with too many clauses is left out.

### KissatExternal, KissatGates, KissatProbing, KissatSimplify

The solver at decision level 0 is a record, and a clause is a set of internal literals, so
copies of one clause are one.  `KissatExternal` has the functions that connect internal
and external literals; each is an operator from solvers to solvers.  `KissatSimplify` lets them
meet: `AddOriginal` adds one clause, and from `pc = "search"` any simplification may start.

* *Search* is abstracted to what the rest needs of it: it learns implied clauses
  (`LearnClause`, `LearnUnit`), it ends with a model (`FindModel`) or, if there is none,
  with 20 (`FindConflict`).  `KissatSearch` shows that it keeps to this.
* *Failed literals* (`StartProbing`, `ProbeLiteral`, `EndProbing`): the roots of the binary implication graph that
  are scheduled as probes are tried one after the other.  Clauses become unit in any order, which includes the
  order of the code, binary ones first; a large clause that becomes unit gives a hyper binary resolvent with the dominator of its
  false literals.  At level 1 the first implication point of a conflict is its dominator, and on-the-fly strengthening
  never applies, since no antecedent has more than two literals.  A probe may be skipped.  `MaxLearned`
  also bounds the resolvents.
* *Elimination* has one action for each stage of `eliminate_variables`: dense mode,
  duplicate binary clauses, forward subsumption, then variable after variable, and
  within one variable a step for each resolvent (`ConnectResolvent`, with forward and
  backward subsumption) and for the move of its clauses to the stack (`WeakenClauses`).
  All four kinds of gate are found as the code finds them, and antecedents are resolved
  with gate clauses only, unless `resolve_gate` is set.
* *Substitution* works by rounds, with the representatives, failed roots and clashes of
  `determine_representatives`, and pushes the equivalences as the value of the representative
  commands.
* *Autarkies* start from any assignment, since the saved phases may be any.
* *Ternary resolution, transitive reduction and vivification* are sets of possible results: which
  clause is tried, and what part of it the analysis keeps, is open.
* *Compaction* happens with a collection, when the code finds it worth while.

Limits on effort, clause sizes and occurrences, and the schedules, decide what is
tried: in the model anything may be.  `Extra` is the bound of additional resolvents; `XorSize` the
bound of XOR gates.

In `generate_resolvents` the literals taken from the second clause are tested with
`values[lit]`, the value of the variable being eliminated, where `values[other]` is meant
(`resolve.c:194`).  False literals therefore get into resolvents; they are dropped when the
resolvent is connected, so that only the size limit sees the difference.  `Resolvent` follows
the code.

## Runs

| run | instance | shows |
|---|---|---|
| `Portfolio_late` | 2 solvers, `-t`, spurious wakeups, no answer before all are launched | types, right answer, model, no abort, no thread left, refinement, termination |
| `Portfolio_early` | 2 solvers, no `-t`, answers at any time | the program ends and implements its promise, unless it aborts |
| `Portfolio_restart` | as above | finding: a solver interrupted during the launch is started again and kissat aborts |
| `Portfolio_delete` | 2 solvers | finding: a second winner interrupts workers that main has deleted |
| `ClauseBuffer` | 4 clauses through 3 addresses | refinement of the queue, no use after free, no false "empty", delivery |
| `ClauseSharing` | 2 solvers, 3 clauses, both strategies | reference counts, no use after free, at most once, spreading |
| `Sharer` | 2 solvers, 4 calls | reference counts, membership, requests served |
| `DimacsLoad` | all 9331 files of up to 5 characters over 6, two of them numerals | numbers are read, reading ends |
| `KissatSearch` | 6 formulas over 4 variables with chronological backtracking always, 3 with backjumps only, up to 3 conflicts | soundness, answer, watches, conflicts, units, nothing lost, reasons, the bounds of the arena, the search ends |
| `KissatSimplify` | 8 formulas over 4 variables, one learned clause at a time | the model read out is right, no model lost, learned clauses implied, maps agree |
| `KissatDecide` | 3 variables, one heuristic and both modes, or both heuristics and stable mode; 2 variables, both heuristics and modes; 4 variables, focused mode without conflicts | the next decision is the best, queue and heaps are sound |
| `KissatWalk` | 3 formulas over 4 variables, one with a fixed variable, all saved phases | counters match the assignment, the best assignment is saved |

*Why the bounds are enough.*  Two solvers give a winner, a second winner and an
interrupted loser in one thread each; the proofs below cover any number.  Three
addresses and four additions let an address come back while the other thread holds it.
The three clauses of `ClauseSharing` are a unit, two that do not fit a vector together, and
one the first LBD limit refuses.  Five characters hold a sign, a number, a blank, and the end of a
clause, or a comment between numbers.  The formulas of `MCKissatSearch` are small but were chosen so
that each case of the analysis happens: driving conflicts, strengthening to binary and to
large clauses, on-the-fly and eager subsumption, late literals after backtracking, a reduction that shrinks
a reason, subsumption, a conflict of level 0.  Three have a redundant clause: in one of them a reason moves
in front of it, in one the last irredundant clause is deleted, in one a learned clause becomes the last
irredundant one.  The formulas of
`MCKissatSimplify` have four variables, which is what an if-then-else gate needs, and hold one
structure each: an AND gate, equivalences, an if-then-else gate with a stricter clause, an
XOR gate, clauses that a resolvent meets with two negated literals, fixed
variables among active ones, roots of which one fails and one gives a hyper binary resolvent, and no model at all.  One learned clause at a time is enough for the rule
that redundant clauses do not replace irredundant ones.  In `KissatDecide`, stamps run out at `MaxStamp = 5`, just above the
number of variables, so that the queue is stamped anew, and scores are rescaled at `MaxScore = 2`; two conflicts are
needed for one mode to find what the other left.  A compaction that renames something above level 0 needs a variable that goes, one that is
assigned and one that is free; for the search to be met a second time in `compact_queue` there must be four, and
the last instance is there for it.  In `KissatWalk` every assignment falsifies a clause of `Hard`,
which shows a walk that never ends by success.
Every mutant of a property is found within these bounds.

*Deadlock* is checked except where the system may stop: in `Sharer`, `DimacsLoad`
and `KissatSimplify` the model ends in a state without successors.

### Fairness

* `Portfolio!TimedSpec`: the operating system runs every thread that can run, and
  the clock goes on; a search sees the termination flag, which kissat polls in all
  its loops.  No solver is assumed ever to answer.
* `Portfolio!SolvingSpec`: no clock; a search that is left alone ends, since kissat is
  complete (`KissatSearch!Terminates` is the small version of that).
* `ClauseBuffer!FairSpec`: threads go on with their calls, and the consumer keeps calling.
* `ClauseSharing!FairSpec`, `Sharer!Spec`: the sharer's thread runs.  Solvers and client owe nothing.
* `DimacsLoad!Spec`, `KissatSearch!FairSpec`: a sequential program takes its next step; in `KissatSearch`
  this is said of the whole next-state relation, until the search is done.

### Findings

* *Restart* (`Portfolio_restart`).  A solver answers while main is still in `Portfolio::solve`.  The
  winner sets `force` and kissat's flag of a slave not yet launched; main then clears
  `force` (`SequentialWorker.cpp:99`) and cannot clear the flag; the slave's search returns
  without answer, the do-while calls `kissat_solve` again, and the process aborts.
* *Delete* (`Portfolio_delete`).  Two workers pass the tests of `Portfolio::join`; the first sets
  `globalEnding`, and main deletes workers to which the second is still writing.

## Proofs

A theorem holds for every value of the constants that their assumptions allow; the runs show the same property on
a small instance.  Each inductive invariant was checked by TLC on the instance of the run before it was proved.

| theorem | property | hypothesis |
|---|---|---|
| `PortfolioProofs!TypeCorrect` | `TypeOK` | |
| `PortfolioProofs!ExitIsQuiet` | `QuietExit` | |
| `PortfolioProofs!ModelIsPrinted` | `ModelPrinted` | |
| `PortfolioProofs!SearchedOnce` | `NoAbort` | `EarlyAnswer = FALSE` |
| `PortfolioProofs!WinnerIsPrinted` | `ClaimedIsPrinted` | `EarlyAnswer = FALSE` |
| `PortfolioProofs!VerdictSticks` | `StickyVerdict` | `EarlyAnswer = FALSE` |
| `PortfolioProofs!Refinement` | `Implements` | `EarlyAnswer = FALSE` |
| `ClauseBufferProofs!NothingDeletedIsUsed` | `NoUseAfterFree` | `OneEach` |
| `ClauseBufferProofs!QueueIsFifo` | `Implements` | `OneEach` |
| `ClauseBufferProofs!EmptyIsEmpty` | `NoFalseEmpty` | `OneEach` |
| `ClauseSharingProofs!CountersAreRight` | `RefsMatchHolders` | |
| `ClauseSharingProofs!NothingFreedIsUsed` | `NoTouchFreed` | |
| `ClauseSharingProofs!NobodyGetsItTwice` | `AtMostOnce` | `ConsumersDiffer` |
| `SharerProofs!ReferencesAreRight` | `RefsMatchHolders` | |
| `SharerProofs!ListsSettle` | `SettledMembership` | |
| `DimacsLoadProofs!NumbersAreRead` | `ReadsTheNumbers` | |
| `KissatWalkProofs!CountersAreExact` | `CountersExact` | |
| `KissatWalkProofs!BestIsSaved` | `SavedIsBest` | |
| `KissatDecideProofs!StructuresFit` | (the inductive invariant, `DecideInv`) | |
| `KissatDecideProofs!DecisionsAreBest` | `DecisionIsBest` | |
| `KissatDecideProofs!StructuresAreSound` | `StructuresSound` | |

The hypotheses are those of the program.  `EarlyAnswer = FALSE`, that no solver answers before all are launched, is what
the findings show to be needed.  `OneEach` says that a buffer has one producer and one consumer.  `ConsumersDiffer` says that
no solver is in the list of consumers twice, which `SettledMembership` gives when the lists are at rest.

### Portfolio

The types alone are not inductive: `CursorOK` says that a winner only interrupts slaves that exist.  `QuietExit`
follows from `JoinInv`: main has passed `pthread_join` of every slave below `idx`, and of all when it prints.

`ModelPrinted` holds however early solvers answer.  `SetResult` and the copy of the model are two steps, and main may leave
its loop between them.  `ModelInv` says that as long as the result is SAT and there is no model, some worker is still at the copy;
by `JoinInv` main cannot print before that worker's thread has ended.  `UnbornInv`, that a thread which is not created has not moved, covers the launch.

The other four rest on one inductive invariant, `IInv`, the conjunction of

* `TypeInv` and `JoinInv` as above;
* `SingleSearch`: before the end of the launch nobody is interrupted and no worker has passed its call
  (`LaunchInv`); the flag `force` is set wherever kissat's flag is (`ForceBeforeTerminate`, `InterruptInv`); a worker
  whose solver has searched is either still inside or has `force` set (`SearchInv`), so neither
  loop of `mainWorker` goes round again;
* `RightAnswer`: a worker past its search has a parent (`LinkInv`), an answer is accepted only if it is
  one (`WinnerInv`), `globalEnding` comes from a winner or from the clock (`EndingInv`), and a claimed answer is
  either on its way in a live worker or in `finalResult` (`ClaimInv`, `LeaveInv`).

The refinement goes step by step: only `PrintResult` and `Expire` move the abstract state.

### ClauseBuffer

`IInv(p, c)` describes the linked list between the reads of the two threads.  `ListInv`: the nodes from `head` on are different and
allocated, and hold what was sent and not taken, in order.  `TailInv`: `tail` is the last node or, while
`addClause` is between its two exchanges, the one before it.  `ProducerInv`: the new element is no node of the list, and what the producer
has read of the tail is still so, because nobody else links elements and the tail is not freed.  `ConsumerInv`: what the consumer has read of the
head is still so, because nobody else moves it; once the head is unlinked it is no node of the list, although it stays allocated until it is freed.
This is why an address that `malloc` gives again does no harm here: the exchange on `head` expects an address that only the consumer
itself frees, and the one on `tail->next` expects NULL, which only the producer replaces.  The list is unique (`PathUnique`, by induction along the path), so that a
step determines the list after it, and the refinement follows: `Link` appends to the abstract queue, `GetSwing` takes its head, the rest stutters.

### ClauseSharing

Counters are compared with the number of *occurrences* of a clause in buffers, database, `tmp` and the callbacks, so that most of the
work is how operations on sequences move these numbers (the lemmas at the head of the module).  `RefsMatchHolders` becomes inductive with the types of the loop indices, with
what `tmp` holds between rounds (`TmpInv`), and with `OwnedOnce`: the sharer owns a clause at most once, a clause it has released is never its own again.
`AtMostOnce` needs `DueIsNew` besides: a consumer that is still to be given a clause has not got it.

### Sharer

`PlaceInv`: the places of a solver in a list, in the requests and in the client's hands are one if it is a member or waits to be removed, and none
otherwise; `RequestInv`: the removal requests are different solvers, none of which is a member.  `RefInv` counts references by these places.

### DimacsLoad

`ReadInv` says, for each place the loops can be at, what has been taken: the numbers that start before it (`UpTo`), or before the number
that is being read, whose digits so far have the value `num` (`InNumber`).  The sign is pending exactly behind a minus.  Well-formedness is what
keeps it so: a minus is followed by a digit and no comment (`AfterMinus`), a number by a blank, which `EndNumber` may swallow, and a comment by a newline,
without which `Skip` would pass the end.  The places where numbers start are ordered by how many are before them
(`BeforeNext`, `NthIs`), so that the next number to end is the next of `Numbers` (`UpToNext`).

### KissatWalk

`Exact` says of the counters and the list of falsified clauses that each clause with count 0 is in the list once and knows its
place.  `PushLists` and `PopLists` show that the two operations keep that up, also when the popped clause is the last one; `MadeExact` and
`BrokenExact` carry it through the loops of `make_clauses` and `break_clauses`, by induction over the number of clauses visited.
With `CountInv`, that the counts are those of the assignment, a picked literal is false and no count falls below zero.

`SavedIsBest` is about three representations of the best assignment: the saved phases alone, the phases with a prefix of the
trail, and, once the trail was given up, the phases again.  `Kept` states them together: outside the trail the
phases lead to the present assignment; on the prefix up to `best` the present and the best assignment agree; elsewhere the phases lead to the best one;
the variables in `reflipped` are excepted.  `PushKept` shows it for the four cases of `push_flipped`,
`BetterKept` and `AllKept` for the two ways to note an improvement.  `MinimumInv` says that `minimum` counts the clauses falsified by the best
assignment, `UntouchedInv` that without improvement nothing was saved.

### KissatDecide

`DecideInv` relates the trail, the queue and the heaps of one state.  `TrailInv`: the frames cut the trail by level and every variable assigned above
level 0 is on it.  `QueueInv`: the links spell a sequence of different variables (`Linking`), its stamps
increase (`Stamping`), it holds the active variables, and the search knows the stamp of its own.  `HeapInv`: a used heap holds
different active variables, none above one with a larger score.  `Offers` is what makes the next decision right: in focused mode no unassigned variable is behind the search, in
stable mode every unassigned active variable is on the heap in use; it speaks of one mode only, and a switch has to establish it for the other.
`Separate` says that an assigned variable is active exactly if its level is above 0, so that what a backtrack frees belongs into queue and
heap, and what a compaction or an elimination drops does not.  With no unit on the trail it also says that the whole trail is active, so
that a compaction finds a new number for every literal on it.

The lemmas go by structure first.  Of the queue: `Unlinked`, `Enqueued` and what is made of them keep `Holds`, also when stamps run out and the
queue is stamped anew, and the search moves back with a variable that becomes free behind it.  Of the heap: `BubbleUp` and `BubbleDown` are the runs of one step that
exchanges two places; the heap with one place out of order (`Stacked` and the order everywhere else) is kept by the step, and repaired when it ends, so that pushing, popping, raising and lowering a
score, rescaling and compacting keep `HeapIs`.  Of a compaction: `RanksAre` makes the new numbers different ones from 1 on, `RenamedKeeps` carries
`TrailInv` over to them, and in `CompactQueueKeeps` the search, wherever it was, ends at its own place or a later one, so that it reaches the images of all it
reached.  `CompactedKeeps` puts this together at any level: the free variables after it are the images of those before.  `TopIsBest` then gives the root the largest score.  Then each operation is shown to keep the three parts together, and `NextKeeps` has
one step per action.  Wherever the code loops over the trail, an analysed clause or the variables, the model folds; such a fold is an instance of
`Induction!Folded`, and `FoldedIn` carries a family of sets through it.

`DecisionsAreBest` follows from `Offers`: the search of the queue meets the last unassigned variable, as
stamps increase along the links, and the heap is popped until its root is unassigned.  `StructuresAreSound` reads
the assertions of `kissat_check_queue` and `kissat_check_heap` from the same invariant.

### Only model-checked

All liveness (fairness and ENABLED are beyond the prover) and
the invariants of `KissatSearch` and `KissatSimplify`.  Induction over the numbers is available as a fact about a set of numbers
(`Induction!NatSetInduction`), which is enough for the paths of `ClauseBuffer` and for recursive functions (`Made` and `Broken` of the local search,
`Value` and the library's `FlattenSeq` in `DimacsLoad`).  A fold that takes an operator as argument is reached by an instance of `Induction` that names the operator, with
what the operator reads besides as the parameter `p`; the lemma that `FoldLeft` is this instance has to be stated for each fold.
The invariants of `KissatSearch` and `KissatSimplify` are about consequences of the formula and about clauses that move in the
arena; for these neither the inductive invariant nor the lemmas on the passes of `KissatClauses` have been worked out.

## Not modelled, and the plan

Not modelled for good: option parsing, logging, statistics, output, the
application `kissat`, its parser and its proof checker, none of which this program
uses; the random numbers and moving averages of the heuristics.

Of the parts that are modelled, the following is left:

1. the scheduling of restarts, modes and reductions (`mode.c`, `reluctant.c`, `limits.c`), which the models leave open;
2. the memory of the watch lists (`vector.c`, `arena.c`) and the dense collection of `collect.c`;
3. proofs: the lemmas of `KissatDecideProofs` on `Backtrack` and `Assign` of `KissatTrail`, which are about positive
   literals, for all literals; with them the type invariant of `KissatSearch`, and from there `WatchedTwice` and `ReasonsHold`.
