------------------------------ MODULE Portfolio ------------------------------
(***************************************************************************)
(* The concurrent core of PaKis: main (painless.cpp), the Portfolio and its *)
(* SequentialWorker threads, one per solver, and of each KissatSolver the   *)
(* flags that decide whether a search starts, stops or answers.  A step is  *)
(* one access to shared memory, or one critical section of mutexStart.      *)
(*                                                                          *)
(* A worker whose pc is                                                     *)
(*   top, testForce     evaluates the condition of the outer while;         *)
(*   await, waiting     is at mutexStart or blocked in pthread_cond_wait;   *)
(*   call .. retest     is in the do-while around solver->solve;            *)
(*   joinForce ..       is in SequentialWorker::join, then Portfolio::join; *)
(*   intForce, intTerm  is the winner, interrupting slave cursor[w];        *)
(*   rearm              is about to set waitJob again.                      *)
(*                                                                          *)
(* waitInterruptLock is left out: nothing calls waitInterrupt.              *)
(***************************************************************************)
EXTENDS Integers, FiniteSets

CONSTANTS N,                 \* number of solvers, the option -c
          SAT, UNSAT,        \* the two answers of a solver
          UNKNOWN,           \* no answer
          Truth,             \* the status of the formula
          TimeoutSet,        \* the option -t was given
          EarlyAnswer,       \* a solver may answer before all are launched
          SpuriousWakeups    \* pthread_cond_wait may return unsignalled

ASSUME NAssumption == N \in Nat \ {0}

ASSUME AnswerAssumption ==
  /\ Truth \in {SAT, UNSAT}
  /\ SAT # UNSAT
  /\ UNKNOWN \notin {SAT, UNSAT}

ASSUME OptionAssumption ==
  /\ TimeoutSet \in BOOLEAN
  /\ EarlyAnswer \in BOOLEAN
  /\ SpuriousWakeups \in BOOLEAN

Workers == 1 .. N

NoModel == 0           \* finalModel before any assignment
Torn    == N + 1       \* finalModel after two overlapping assignments

VARIABLES
  mainPc, idx,         \* where main is, and the slave its loop is at
  pc,                  \* where each worker thread is
  cursor,              \* the slave the winner's setInterrupt is at
  res,                 \* the worker's local answer
  nSlaves,             \* size of Portfolio::slaves
  linked,              \* the slave's parent pointer is set
  live,                \* the worker and its solver are allocated
  force, waitJob,      \* SequentialWorker::force and ::waitJob
  stopSolver,          \* KissatSolver::stopSolver
  terminate,           \* kissat's termination flag
  searches,            \* kissat's count of started searches
  globalEnding,        \* globals of painless.cpp
  finalResult, finalModel,
  strategyEnding,      \* Portfolio::strategyEnding
  printed,             \* what main printed last
  expired,             \* the time given with -t has passed
  process,             \* "running", "abort" (kissat_require) or "fault"
  touchedDeleted       \* a deleted worker or solver was written to

launchVars == <<nSlaves, linked, live>>
jobVars    == <<force, waitJob>>
solverVars == <<stopSolver, terminate, searches>>
finalVars  == <<globalEnding, finalResult, finalModel, strategyEnding>>
worldVars  == <<printed, expired, process, touchedDeleted>>
mainVars   == <<mainPc, idx>>
threadVars == <<pc, cursor, res>>

vars == <<mainVars, threadVars, launchVars, jobVars, solverVars, finalVars,
          worldVars>>

WorkerPcs ==
  {"none", "top", "testForce", "await", "waiting", "call", "searching",
   "stopping", "retest", "joinForce", "joinEnding", "joinParent",
   "joinStrategy", "joinGlobal", "claim", "intForce", "intTerm", "setEnding",
   "setResult", "copy", "copying", "rearm", "done"}

MainPcs ==
  {"construct", "push", "link", "begin", "unset", "arm", "signal", "poll", "sleep",
   "intForce", "intTerm", "delForce", "delTerm", "delJoin", "print", "exit"}

\* mainPc once Portfolio::solve has returned
Launched == mainPc \in {"poll", "sleep", "intForce", "intTerm", "delForce",
                        "delTerm", "delJoin", "print", "exit"}

TypeOK ==
  /\ mainPc \in MainPcs /\ idx \in Workers
  /\ pc \in [Workers -> WorkerPcs]
  /\ cursor \in [Workers -> 1 .. (N + 1)]
  /\ res \in [Workers -> {UNKNOWN, Truth}]
  /\ nSlaves \in 0 .. N
  /\ linked \in [Workers -> BOOLEAN] /\ live \in [Workers -> BOOLEAN]
  /\ force \in [Workers -> BOOLEAN] /\ waitJob \in [Workers -> BOOLEAN]
  /\ stopSolver \in [Workers -> BOOLEAN]
  /\ terminate \in [Workers -> BOOLEAN]
  /\ searches \in [Workers -> 0 .. 1]
  /\ globalEnding \in BOOLEAN /\ strategyEnding \in BOOLEAN
  /\ finalResult \in {UNKNOWN, Truth}
  /\ finalModel \in 0 .. (N + 1)
  /\ printed \in {UNKNOWN, Truth}
  /\ expired \in BOOLEAN
  /\ process \in {"running", "abort", "fault"}
  /\ touchedDeleted \in BOOLEAN

\* The atomics force, waitJob, stopSolver and strategyEnding have no
\* initialiser: the two that are read before they are assigned, and may be,
\* start with an arbitrary value.
Init ==
  /\ mainPc = "construct" /\ idx = 1
  /\ pc = [w \in Workers |-> "none"]
  /\ cursor = [w \in Workers |-> 1]
  /\ res = [w \in Workers |-> UNKNOWN]
  /\ nSlaves = 0
  /\ linked = [w \in Workers |-> FALSE]
  /\ live = [w \in Workers |-> FALSE]
  /\ force = [w \in Workers |-> FALSE]
  /\ waitJob = [w \in Workers |-> TRUE]
  /\ stopSolver = [w \in Workers |-> FALSE]
  /\ terminate = [w \in Workers |-> FALSE]
  /\ searches = [w \in Workers |-> 0]
  /\ globalEnding = FALSE
  /\ finalResult = UNKNOWN /\ finalModel = NoModel
  /\ strategyEnding \in BOOLEAN
  /\ printed = UNKNOWN /\ expired = FALSE
  /\ process = "running" /\ touchedDeleted = FALSE

-----------------------------------------------------------------------------
(* The worker thread. *)

\* Worker w moves from one control point to the next.
Goto(w, from, to) ==
  /\ process = "running"
  /\ pc[w] = from
  /\ pc' = [pc EXCEPT ![w] = to]

TestEnding(w) ==
  /\ Goto(w, "top", IF globalEnding THEN "done" ELSE "testForce")
  /\ UNCHANGED <<mainVars, cursor, res, launchVars, jobVars, solverVars,
                 finalVars, worldVars>>

TestForce(w) ==
  /\ Goto(w, "testForce", IF force[w] THEN "done" ELSE "await")
  /\ UNCHANGED <<mainVars, cursor, res, launchVars, jobVars, solverVars,
                 finalVars, worldVars>>

\* The test of waitJob and the wait are one critical section of mutexStart,
\* which main holds when it signals.
AwaitJob(w) ==
  /\ Goto(w, "await", IF waitJob[w] THEN "waiting" ELSE "call")
  /\ UNCHANGED <<mainVars, cursor, res, launchVars, jobVars, solverVars,
                 finalVars, worldVars>>

\* The wait stands under an if, not under a while: waitJob is not read again.
SpuriousWakeup(w) ==
  /\ SpuriousWakeups
  /\ Goto(w, "waiting", "call")
  /\ UNCHANGED <<mainVars, cursor, res, launchVars, jobVars, solverVars,
                 finalVars, worldVars>>

\* KissatSolver::solve up to kissat_search: kissat_require aborts the process
\* when this solver has searched before.
CallSolve(w) ==
  /\ pc[w] = "call" /\ process = "running"
  /\ stopSolver' = [stopSolver EXCEPT ![w] = FALSE]
  /\ IF searches[w] > 0
       THEN /\ process' = "abort"
            /\ UNCHANGED <<pc, searches>>
       ELSE /\ Goto(w, "call", "searching")
            /\ searches' = [searches EXCEPT ![w] = @ + 1]
            /\ UNCHANGED process
  /\ UNCHANGED <<mainVars, cursor, res, launchVars, jobVars, terminate,
                 finalVars, printed, expired, touchedDeleted>>

Answer(w) ==
  /\ EarlyAnswer \/ Launched
  /\ Goto(w, "searching", "stopping")
  /\ res' = [res EXCEPT ![w] = Truth]
  /\ UNCHANGED <<mainVars, cursor, launchVars, jobVars, solverVars,
                 finalVars, worldVars>>

\* One of the TERMINATED tests of the search sees the flag.
GiveUpSearch(w) ==
  /\ Goto(w, "searching", "stopping")
  /\ terminate[w]
  /\ res' = [res EXCEPT ![w] = UNKNOWN]
  /\ UNCHANGED <<mainVars, cursor, launchVars, jobVars, solverVars,
                 finalVars, worldVars>>

StopSearch(w) ==
  /\ Goto(w, "stopping", "retest")
  /\ terminate' = [terminate EXCEPT ![w] = FALSE]
  /\ UNCHANGED <<mainVars, cursor, res, launchVars, jobVars, stopSolver,
                 searches, finalVars, worldVars>>

Retest(w) ==
  /\ Goto(w, "retest", IF ~force[w] /\ res[w] = UNKNOWN THEN "call"
                                                        ELSE "joinForce")
  /\ UNCHANGED <<mainVars, cursor, res, launchVars, jobVars, solverVars,
                 finalVars, worldVars>>

-----------------------------------------------------------------------------
(* SequentialWorker::join, then Portfolio::join, run by the worker thread. *)

JoinForce(w) ==
  /\ Goto(w, "joinForce", "joinEnding")
  /\ force' = [force EXCEPT ![w] = TRUE]
  /\ UNCHANGED <<mainVars, cursor, res, launchVars, waitJob, solverVars,
                 finalVars, worldVars>>

JoinEnding(w) ==
  /\ Goto(w, "joinEnding", IF globalEnding THEN "rearm" ELSE "joinParent")
  /\ UNCHANGED <<mainVars, cursor, res, launchVars, jobVars, solverVars,
                 finalVars, worldVars>>

\* A worker without a parent decides alone.
JoinParent(w) ==
  /\ Goto(w, "joinParent", IF linked[w] THEN "joinStrategy" ELSE "setEnding")
  /\ UNCHANGED <<mainVars, cursor, res, launchVars, jobVars, solverVars,
                 finalVars, worldVars>>

\* With a mistake: the early return is forgotten.
JoinStrategyNoReturn(w) ==
  /\ Goto(w, "joinStrategy", "claim")
  /\ UNCHANGED <<mainVars, cursor, res, launchVars, jobVars, solverVars,
                 finalVars, worldVars>>

JoinStrategy(w) ==
  /\ Goto(w, "joinStrategy", IF res[w] = UNKNOWN \/ strategyEnding
                               THEN "rearm" ELSE "joinGlobal")
  /\ UNCHANGED <<mainVars, cursor, res, launchVars, jobVars, solverVars,
                 finalVars, worldVars>>

JoinGlobal(w) ==
  /\ Goto(w, "joinGlobal", IF globalEnding THEN "rearm" ELSE "claim")
  /\ UNCHANGED <<mainVars, cursor, res, launchVars, jobVars, solverVars,
                 finalVars, worldVars>>

Claim(w) ==
  /\ Goto(w, "claim", "intForce")
  /\ strategyEnding' = TRUE
  /\ cursor' = [cursor EXCEPT ![w] = 1]
  /\ UNCHANGED <<mainVars, res, launchVars, jobVars, solverVars,
                 globalEnding, finalResult, finalModel, worldVars>>

\* A write to slave i: when main has deleted it the write hits freed memory,
\* which goes unnoticed or kills the process.
Touch(i) ==
  IF live[i]
    THEN UNCHANGED <<touchedDeleted, process>>
    ELSE /\ touchedDeleted' = TRUE
         /\ process' \in {"running", "fault"}

\* With a mistake: setInterrupt only terminates the solver.
IntForceForgotten(w) ==
  /\ Goto(w, "intForce", IF cursor[w] > nSlaves THEN "setEnding"
                                                ELSE "intTerm")
  /\ UNCHANGED <<mainVars, cursor, res, launchVars, jobVars, solverVars,
                 finalVars, worldVars>>

IntForce(w) ==
  /\ pc[w] = "intForce"
  /\ IF cursor[w] > nSlaves
       THEN /\ Goto(w, "intForce", "setEnding")
            /\ UNCHANGED <<force, touchedDeleted, process>>
       ELSE /\ Goto(w, "intForce", "intTerm")
            /\ Touch(cursor[w])
            /\ force' = [force EXCEPT ![cursor[w]] = @ \/ live[cursor[w]]]
  /\ UNCHANGED <<mainVars, cursor, res, launchVars, waitJob, solverVars,
                 finalVars, printed, expired>>

\* stopSolver and terminate in one step: no code reads stopSolver.
IntTerm(w) ==
  /\ Goto(w, "intTerm", "intForce")
  /\ Touch(cursor[w])
  /\ stopSolver' = [stopSolver EXCEPT ![cursor[w]] = @ \/ live[cursor[w]]]
  /\ terminate' = [terminate EXCEPT ![cursor[w]] = @ \/ live[cursor[w]]]
  /\ cursor' = [cursor EXCEPT ![w] = @ + 1]
  /\ UNCHANGED <<mainVars, res, launchVars, jobVars, searches, finalVars,
                 printed, expired>>

\* With a mistake: the winner looks at globalEnding again and returns.
SetEndingUnlessOver(w) ==
  /\ Goto(w, "setEnding", IF globalEnding THEN "rearm" ELSE "setResult")
  /\ globalEnding' = TRUE
  /\ UNCHANGED <<mainVars, cursor, res, launchVars, jobVars, solverVars,
                 finalResult, finalModel, strategyEnding, worldVars>>

SetEnding(w) ==
  /\ Goto(w, "setEnding", "setResult")
  /\ globalEnding' = TRUE
  /\ UNCHANGED <<mainVars, cursor, res, launchVars, jobVars, solverVars,
                 finalResult, finalModel, strategyEnding, worldVars>>

\* With a mistake: the model is not kept.
SetResultOnly(w) ==
  /\ Goto(w, "setResult", "rearm")
  /\ finalResult' = res[w]
  /\ UNCHANGED <<mainVars, cursor, res, launchVars, jobVars, solverVars,
                 globalEnding, finalModel, strategyEnding, worldVars>>

SetResult(w) ==
  /\ Goto(w, "setResult", IF res[w] = SAT THEN "copy" ELSE "rearm")
  /\ finalResult' = res[w]
  /\ UNCHANGED <<mainVars, cursor, res, launchVars, jobVars, solverVars,
                 globalEnding, finalModel, strategyEnding, worldVars>>

\* finalModel = model is a loop over the elements of an unprotected vector.
BeginCopy(w) ==
  /\ Goto(w, "copy", "copying")
  /\ finalModel' = IF \E v \in Workers : pc[v] = "copying" THEN Torn
                                                           ELSE finalModel
  /\ UNCHANGED <<mainVars, cursor, res, launchVars, jobVars, solverVars,
                 globalEnding, finalResult, strategyEnding, worldVars>>

EndCopy(w) ==
  /\ Goto(w, "copying", "rearm")
  /\ finalModel' \in IF finalModel = Torn THEN {w, Torn} ELSE {w}
  /\ UNCHANGED <<mainVars, cursor, res, launchVars, jobVars, solverVars,
                 globalEnding, finalResult, strategyEnding, worldVars>>

Rearm(w) ==
  /\ Goto(w, "rearm", "top")
  /\ waitJob' = [waitJob EXCEPT ![w] = TRUE]
  /\ UNCHANGED <<mainVars, cursor, res, launchVars, force, solverVars,
                 finalVars, worldVars>>

\* Every step of worker w that the scheduler alone decides.
Run(w) ==
  \/ TestEnding(w) \/ TestForce(w) \/ AwaitJob(w)
  \/ CallSolve(w) \/ GiveUpSearch(w) \/ StopSearch(w) \/ Retest(w)
  \/ JoinForce(w) \/ JoinEnding(w) \/ JoinParent(w)
  \/ JoinStrategy(w) \/ JoinGlobal(w) \/ Claim(w)
  \/ IntForce(w) \/ IntTerm(w) \/ SetEnding(w) \/ SetResult(w)
  \/ BeginCopy(w) \/ EndCopy(w) \/ Rearm(w)

Worker(w) == Run(w) \/ SpuriousWakeup(w) \/ Answer(w)

-----------------------------------------------------------------------------
(* The main thread. *)

MainGoto(from, to) ==
  /\ process = "running"
  /\ mainPc = from
  /\ mainPc' = to

\* With a mistake: the loop variable is not reset.
NextTurnNoReset(from, again, after) ==
  /\ MainGoto(from, IF idx < N THEN again ELSE after)
  /\ idx' = idx + 1

\* The end of one turn of a loop over the slaves.
NextTurn(from, again, after) ==
  IF idx < N THEN MainGoto(from, again) /\ idx' = idx + 1
             ELSE MainGoto(from, after) /\ idx' = 1

\* new SequentialWorker: the thread runs before the constructor returns.
Construct ==
  /\ MainGoto("construct", "push")
  /\ live' = [live EXCEPT ![idx] = TRUE]
  /\ force' = [force EXCEPT ![idx] = FALSE]
  /\ waitJob' = [waitJob EXCEPT ![idx] = TRUE]
  /\ pc' = [pc EXCEPT ![idx] = "top"]
  /\ UNCHANGED <<idx, cursor, res, nSlaves, linked, solverVars, finalVars,
                 worldVars>>

Push ==
  /\ MainGoto("push", "link")
  /\ nSlaves' = idx
  /\ UNCHANGED <<idx, threadVars, linked, live, jobVars, solverVars,
                 finalVars, worldVars>>

Link ==
  /\ NextTurn("link", "construct", "begin")
  /\ linked' = [linked EXCEPT ![idx] = TRUE]
  /\ UNCHANGED <<threadVars, nSlaves, live, jobVars, solverVars, finalVars,
                 worldVars>>

BeginSolve ==
  /\ MainGoto("begin", "unset")
  /\ strategyEnding' = FALSE
  /\ UNCHANGED <<idx, threadVars, launchVars, jobVars, solverVars,
                 globalEnding, finalResult, finalModel, worldVars>>

\* SequentialWorker::unsetInterrupt.  kissat has no way to take a termination
\* request back: terminate stays.
Unset ==
  /\ MainGoto("unset", "arm")
  /\ force' = [force EXCEPT ![idx] = FALSE]
  /\ stopSolver' = [stopSolver EXCEPT ![idx] = FALSE]
  /\ UNCHANGED <<idx, threadVars, launchVars, waitJob, terminate, searches,
                 finalVars, worldVars>>

Arm ==
  /\ MainGoto("arm", "signal")
  /\ waitJob' = [waitJob EXCEPT ![idx] = FALSE]
  /\ UNCHANGED <<idx, threadVars, launchVars, force, solverVars, finalVars,
                 worldVars>>

\* With a mistake: the condition variable is not signalled.
SignalLost ==
  /\ NextTurn("signal", "unset", "poll")
  /\ UNCHANGED <<threadVars, launchVars, jobVars, solverVars, finalVars,
                 worldVars>>

Signal ==
  /\ NextTurn("signal", "unset", "poll")
  /\ pc' = [pc EXCEPT ![idx] = IF @ = "waiting" THEN "call" ELSE @]
  /\ UNCHANGED <<cursor, res, launchVars, jobVars, solverVars, finalVars,
                 worldVars>>

\* The loop of main: test globalEnding, sleep a second, look at the clock.
Poll ==
  /\ MainGoto("poll", IF globalEnding THEN "delForce" ELSE "sleep")
  /\ UNCHANGED <<idx, threadVars, launchVars, jobVars, solverVars, finalVars,
                 worldVars>>

\* The clock passes the limit.
Expire ==
  /\ process = "running"
  /\ TimeoutSet /\ ~expired
  /\ mainPc # "exit"
  /\ expired' = TRUE
  /\ UNCHANGED <<mainVars, threadVars, launchVars, jobVars, solverVars,
                 finalVars, printed, process, touchedDeleted>>

Awake ==
  /\ MainGoto("sleep", IF expired THEN "intForce" ELSE "poll")
  /\ globalEnding' = (globalEnding \/ expired)
  /\ UNCHANGED <<idx, threadVars, launchVars, jobVars, solverVars,
                 finalResult, finalModel, strategyEnding, worldVars>>

\* setInterrupt of slave idx, first line; all slaves are still there.
MainForce(from, to) ==
  /\ MainGoto(from, to)
  /\ force' = [force EXCEPT ![idx] = TRUE]
  /\ UNCHANGED <<idx, threadVars, launchVars, waitJob, solverVars, finalVars,
                 worldVars>>

\* With a mistake: setSolverInterrupt does not reach kissat.
MainTerminateLost ==
  /\ stopSolver' = [stopSolver EXCEPT ![idx] = TRUE]
  /\ UNCHANGED <<threadVars, launchVars, jobVars, terminate, searches,
                 finalVars, worldVars>>

MainTerminate ==
  /\ stopSolver' = [stopSolver EXCEPT ![idx] = TRUE]
  /\ terminate' = [terminate EXCEPT ![idx] = TRUE]
  /\ UNCHANGED <<threadVars, launchVars, jobVars, searches, finalVars,
                 worldVars>>

TimeoutForce == MainForce("intForce", "intTerm")

TimeoutTerm == NextTurn("intTerm", "intForce", "poll") /\ MainTerminate

DeleteForce == MainForce("delForce", "delTerm")

DeleteTerm == MainGoto("delTerm", "delJoin") /\ UNCHANGED idx /\ MainTerminate

\* With a mistake: the destructor does not wait for the thread.
DeleteJoinNoWait ==
  /\ NextTurn("delJoin", "delForce", "print")
  /\ live' = [live EXCEPT ![idx] = FALSE]
  /\ UNCHANGED <<threadVars, nSlaves, linked, jobVars, solverVars, finalVars,
                 worldVars>>

\* pthread_join, then the worker and its solver are freed.
DeleteJoin ==
  /\ NextTurn("delJoin", "delForce", "print")
  /\ pc[idx] = "done"
  /\ live' = [live EXCEPT ![idx] = FALSE]
  /\ UNCHANGED <<threadVars, nSlaves, linked, jobVars, solverVars, finalVars,
                 worldVars>>

PrintResult ==
  /\ MainGoto("print", "exit")
  /\ printed' = finalResult
  /\ UNCHANGED <<idx, threadVars, launchVars, jobVars, solverVars, finalVars,
                 expired, process, touchedDeleted>>

Main ==
  \/ Construct \/ Push \/ Link \/ BeginSolve \/ Unset \/ Arm \/ Signal
  \/ Poll \/ Awake \/ TimeoutForce \/ TimeoutTerm
  \/ DeleteForce \/ DeleteTerm \/ DeleteJoin \/ PrintResult

Over == mainPc = "exit" \/ process # "running"

Terminated == Over /\ UNCHANGED vars

Next == Main \/ Expire \/ (\E w \in Workers : Worker(w)) \/ Terminated

Spec == Init /\ [][Next]_vars

\* The scheduler runs every thread that can run, the clock goes on and a
\* search sees the termination flag (kissat polls it in all its loops).  That a
\* solver ever answers is not assumed.
TimedSpec ==
  /\ Spec
  /\ WF_vars(Main) /\ WF_vars(Expire)
  /\ \A w \in Workers : WF_vars(Run(w))

\* No clock, but every search left alone ends with an answer: the procedure of
\* kissat is complete.
SolvingSpec ==
  /\ Spec
  /\ WF_vars(Main)
  /\ \A w \in Workers : WF_vars(Run(w) \/ Answer(w))

-----------------------------------------------------------------------------
(* Properties. *)

\* The program ends: main leaves with an answer, whatever the solvers do
\* (the -t loop of main, and ~Portfolio joining every thread).
Termination == <>Over

\* When main returns, no worker thread is left running over the globals that
\* are about to be destroyed (~SequentialWorker joins its thread).
QuietExit == mainPc = "exit" => \A w \in Workers : pc[w] = "done"

\* A solver that was accepted as the winner is the answer of the run, even
\* when the time limit or another solver ended the search at the same moment
\* (Portfolio::join writes finalResult after the flag that makes main leave).
ClaimedIsPrinted == mainPc = "exit" /\ strategyEnding => printed = Truth

\* No step takes back a verdict: a worker that was interrupted and comes home
\* with UNKNOWN never overwrites the winner's finalResult.
StickyVerdict ==
  [][finalResult # UNKNOWN => finalResult' = finalResult]_vars

\* internal.c: "incremental solving not supported".  No worker calls solve a
\* second time on its solver.
NoAbort == process # "abort"

\* painless.h: "Model for SAT instances".  When main prints SAT there is a
\* model to print, although the winner copies it after the flag that makes main
\* leave its loop.  (Two workers that both pass joinStrategy and joinGlobal may
\* copy at the same time: the model is then Torn.)
ModelPrinted == mainPc = "exit" /\ printed = SAT => finalModel # NoModel

\* SolverInterface.h: "Decrease the counter of references of this solver,
\* delete it if needed".  Nobody writes to a worker or solver after that.
NoUseAfterDelete == ~touchedDeleted

\* The threads implement the promise of PortfolioAnswer.
Abstract == INSTANCE PortfolioAnswer WITH
  phase <- IF mainPc = "exit" THEN "exit" ELSE "running"

Implements == Abstract!Spec
=============================================================================
