--------------------------- MODULE PortfolioProofs ---------------------------
(***************************************************************************)
(* Theorems about Portfolio for any number of solvers.                      *)
(***************************************************************************)
EXTENDS Portfolio, TLAPS

-----------------------------------------------------------------------------
(* Type correctness. *)

\* The winner only interrupts slaves that are there: without this, the type
\* of cursor is not inductive.
CursorOK == \A w \in Workers : pc[w] = "intTerm" => cursor[w] \in Workers

TypeInv == TypeOK /\ CursorOK

LEMMA InitTypeInv == Init => TypeInv
<1> SUFFICES ASSUME Init PROVE TypeInv OBVIOUS
<1> USE NAssumption DEF Init, Workers
<1>1. mainPc \in MainPcs /\ idx \in Workers BY DEF MainPcs
<1>2. pc \in [Workers -> WorkerPcs] BY DEF WorkerPcs
<1>3. cursor \in [Workers -> 1 .. (N + 1)] /\ nSlaves \in 0 .. N OBVIOUS
<1>4. /\ linked \in [Workers -> BOOLEAN] /\ live \in [Workers -> BOOLEAN]
      /\ force \in [Workers -> BOOLEAN] /\ waitJob \in [Workers -> BOOLEAN]
      /\ stopSolver \in [Workers -> BOOLEAN]
      /\ terminate \in [Workers -> BOOLEAN]
  OBVIOUS
<1>5. finalModel \in 0 .. (N + 1) BY DEF NoModel
<1>6. res \in [Workers -> {UNKNOWN, Truth}] /\ searches \in [Workers -> 0 .. 1]
  OBVIOUS
<1>7. CursorOK BY DEF CursorOK
<1>8. QED BY <1>1, <1>2, <1>3, <1>4, <1>5, <1>6, <1>7 DEF TypeOK, TypeInv

LEMMA WorkerTypeInv ==
  ASSUME TypeInv, NEW w \in Workers, Worker(w)
  PROVE  TypeInv'
<1> USE NAssumption, AnswerAssumption DEF TypeInv, TypeOK, CursorOK, Goto, WorkerPcs, Workers,
      Torn, mainVars, launchVars, jobVars, solverVars, finalVars, worldVars
<1>1. CASE TestEnding(w) BY <1>1 DEF TestEnding
<1>2. CASE TestForce(w) BY <1>2 DEF TestForce
<1>3. CASE AwaitJob(w) BY <1>3 DEF AwaitJob
<1>4. CASE SpuriousWakeup(w) BY <1>4 DEF SpuriousWakeup
<1>5. CASE CallSolve(w) BY <1>5 DEF CallSolve
<1>6. CASE Answer(w) BY <1>6 DEF Answer
<1>7. CASE GiveUpSearch(w) BY <1>7 DEF GiveUpSearch
<1>8. CASE StopSearch(w) BY <1>8 DEF StopSearch
<1>9. CASE Retest(w) BY <1>9 DEF Retest
<1>10. CASE JoinForce(w) BY <1>10 DEF JoinForce
<1>11. CASE JoinEnding(w) BY <1>11 DEF JoinEnding
<1>12. CASE JoinParent(w) BY <1>12 DEF JoinParent
<1>13. CASE JoinStrategy(w) BY <1>13 DEF JoinStrategy
<1>14. CASE JoinGlobal(w) BY <1>14 DEF JoinGlobal
<1>15. CASE Claim(w) BY <1>15 DEF Claim
<1>16. CASE IntForce(w)
  <2>1. force' \in [Workers -> BOOLEAN] BY <1>16 DEF IntForce
  <2>2. touchedDeleted' \in BOOLEAN /\ process' \in {"running", "abort", "fault"}
    BY <1>16 DEF IntForce, Touch
  <2>3. pc' \in [Workers -> WorkerPcs] BY <1>16, SMTT(30) DEF IntForce
  <2>4. CursorOK'
    <3> SUFFICES ASSUME NEW v \in Workers, pc'[v] = "intTerm"
                 PROVE  cursor'[v] \in Workers
      OBVIOUS
    <3>1. v = w => cursor[v] <= nSlaves BY <1>16 DEF IntForce
    <3>2. v # w => pc[v] = "intTerm" BY <1>16 DEF IntForce
    <3>3. QED BY <1>16, <3>1, <3>2 DEF IntForce
  <2>5. QED BY <1>16, <2>1, <2>2, <2>3, <2>4 DEF IntForce
<1>17. CASE IntTerm(w)
  <2>1. cursor[w] \in Workers BY <1>17 DEF IntTerm
  <2>2. cursor' \in [Workers -> 1 .. (N + 1)] BY <1>17, <2>1 DEF IntTerm
  <2>3. /\ stopSolver' \in [Workers -> BOOLEAN]
        /\ terminate' \in [Workers -> BOOLEAN]
    BY <1>17 DEF IntTerm
  <2>4. touchedDeleted' \in BOOLEAN /\ process' \in {"running", "abort", "fault"}
    BY <1>17 DEF IntTerm, Touch
  <2>5. pc' \in [Workers -> WorkerPcs] BY <1>17 DEF IntTerm
  <2>6. CursorOK' BY <1>17 DEF IntTerm
  <2>7. QED BY <1>17, <2>2, <2>3, <2>4, <2>5, <2>6 DEF IntTerm
<1>18. CASE SetEnding(w) BY <1>18 DEF SetEnding
<1>19. CASE SetResult(w) BY <1>19 DEF SetResult
<1>20. CASE BeginCopy(w) BY <1>20 DEF BeginCopy
<1>21. CASE EndCopy(w) BY <1>21 DEF EndCopy
<1>22. CASE Rearm(w) BY <1>22 DEF Rearm
<1>23. QED
  BY <1>1, <1>2, <1>3, <1>4, <1>5, <1>6, <1>7, <1>8, <1>9, <1>10, <1>11,
     <1>12, <1>13, <1>14, <1>15, <1>16, <1>17, <1>18, <1>19, <1>20, <1>21,
     <1>22 DEF Worker, Run

LEMMA MainTypeInv ==
  ASSUME TypeInv, Main
  PROVE  TypeInv'
<1> USE NAssumption, AnswerAssumption DEF TypeInv, TypeOK, CursorOK, MainGoto,
      NextTurn, MainPcs, WorkerPcs, Workers, mainVars, threadVars, launchVars,
      jobVars, solverVars, finalVars, worldVars
<1>1. CASE Construct BY <1>1 DEF Construct
<1>2. CASE Push BY <1>2 DEF Push
<1>3. CASE Link BY <1>3 DEF Link
<1>4. CASE BeginSolve BY <1>4 DEF BeginSolve
<1>5. CASE Unset BY <1>5 DEF Unset
<1>6. CASE Arm BY <1>6 DEF Arm
<1>7. CASE Signal BY <1>7 DEF Signal
<1>8. CASE Poll BY <1>8 DEF Poll
<1>9. CASE Awake BY <1>9 DEF Awake
<1>10. CASE TimeoutForce BY <1>10 DEF TimeoutForce, MainForce
<1>11. CASE TimeoutTerm BY <1>11 DEF TimeoutTerm, MainTerminate
<1>12. CASE DeleteForce BY <1>12 DEF DeleteForce, MainForce
<1>13. CASE DeleteTerm BY <1>13 DEF DeleteTerm, MainTerminate
<1>14. CASE DeleteJoin BY <1>14 DEF DeleteJoin
<1>15. CASE PrintResult BY <1>15 DEF PrintResult
<1>16. QED
  BY <1>1, <1>2, <1>3, <1>4, <1>5, <1>6, <1>7, <1>8, <1>9, <1>10, <1>11,
     <1>12, <1>13, <1>14, <1>15 DEF Main

\* Every variable keeps its type, whatever the options.
THEOREM TypeCorrect == Spec => []TypeOK
<1>1. TypeInv /\ [Next]_vars => TypeInv'
  <2> SUFFICES ASSUME TypeInv, [Next]_vars PROVE TypeInv' OBVIOUS
  <2>1. CASE Main BY <2>1, MainTypeInv
  <2>2. CASE \E w \in Workers : Worker(w) BY <2>2, WorkerTypeInv
  <2>3. CASE Expire
    BY <2>3 DEF Expire, TypeInv, TypeOK, CursorOK, mainVars, threadVars,
       launchVars, jobVars, solverVars, finalVars
  <2>4. CASE UNCHANGED vars
    BY <2>4 DEF vars, TypeInv, TypeOK, CursorOK, mainVars, threadVars,
       launchVars, jobVars, solverVars, finalVars, worldVars
  <2>5. QED BY <2>1, <2>2, <2>3, <2>4 DEF Next, Terminated
<1>2. TypeInv => TypeOK BY DEF TypeInv
<1>3. QED BY InitTypeInv, <1>1, <1>2, PTL DEF Spec

-----------------------------------------------------------------------------
(* The exit: main leaves ~Portfolio with every thread joined. *)

Joining == {"delForce", "delTerm", "delJoin"}
Leaving == {"print", "exit"}

\* A thread that is done stays done: the loop of ~Portfolio has joined the
\* slaves before idx, and all of them when it is over.
JoinInv ==
  /\ mainPc \in {"poll", "sleep"} => idx = 1
  /\ mainPc \in Joining => \A v \in Workers : v < idx => pc[v] = "done"
  /\ mainPc \in Leaving => \A v \in Workers : pc[v] = "done"

-----------------------------------------------------------------------------
(* Single search: why no solver is ever asked to search twice, provided that *)
(* no solver answers before main has launched the last one.                  *)

\* Where a worker may be while main is launching.
Early == {"none", "top", "testForce", "await", "waiting", "call", "searching"}

\* Where a worker is between force = true in join and its next turn.
Forced == {"joinEnding", "joinParent", "joinStrategy", "joinGlobal", "claim",
           "intForce", "intTerm", "setEnding", "setResult", "copy", "copying",
           "rearm"}

\* The launch is over before anyone is interrupted or answers.
LaunchInv ==
  ~Launched =>
    /\ \A w \in Workers : pc[w] \in Early /\ ~force[w] /\ ~terminate[w]
    /\ ~globalEnding
    /\ mainPc = "construct" => \A w \in Workers : w >= idx => pc[w] = "none"
    /\ mainPc \in {"push", "link"} =>
         \A w \in Workers : w > idx => pc[w] = "none"

\* A worker that is interrupted before it is told to stop would start over:
\* the flag force is up wherever the termination flag is.
ForceBeforeTerminate ==
  \A w \in Workers : terminate[w] => force[w]

\* Whoever sets the termination flag has set force first.
InterruptInv ==
  /\ ForceBeforeTerminate
  /\ mainPc \in {"intTerm", "delTerm"} => force[idx]
  /\ \A w \in Workers :
       pc[w] = "intTerm" => force[cursor[w]] \/ ~live[cursor[w]]

\* A worker whose solver has searched either is still in that call of solve or
\* has force set, so that neither loop of mainWorker goes round again.
SearchInv ==
  \A w \in Workers :
    /\ pc[w] \in {"none", "await", "waiting", "call"} => searches[w] = 0
    /\ pc[w] \in {"top", "testForce"} /\ searches[w] = 1 => force[w]
    /\ pc[w] \in {"stopping", "retest"} /\ res[w] = UNKNOWN => force[w]
    /\ pc[w] \in Forced => force[w]

SingleSearch == LaunchInv /\ InterruptInv /\ SearchInv /\ NoAbort

-----------------------------------------------------------------------------
(* The answer: why what main prints is right. *)

\* Portfolio is the parent of every slave before the first one is signalled.
LinkInv ==
  /\ mainPc \in {"construct", "push", "link"} =>
       \A w \in Workers : w < idx => linked[w]
  /\ mainPc \notin {"construct", "push", "link"} =>
       \A w \in Workers : linked[w]

\* Only a worker with an answer gets past the early return of join.
WinnerInv ==
  \A w \in Workers :
    pc[w] \in {"joinGlobal", "claim", "intForce", "intTerm", "setEnding",
               "setResult", "copy", "copying"} => res[w] = Truth

\* The end without a result is a time-out, or a winner is about to write it.
EndingInv ==
  globalEnding /\ finalResult = UNKNOWN =>
    expired \/ \E w \in Workers : pc[w] = "setResult"

\* A claim without a result has its claimer still at work.
ClaimInv ==
  /\ mainPc \in {"unset", "arm", "signal"} => ~strategyEnding
  /\ Launched /\ strategyEnding /\ finalResult = UNKNOWN =>
       \E w \in Workers :
          pc[w] \in {"intForce", "intTerm", "setEnding", "setResult"}

\* main leaves its loop, and prints, because the search is over.
LeaveInv ==
  /\ mainPc \in Joining \cup Leaving \cup {"intForce", "intTerm"} => globalEnding
  /\ mainPc # "exit" => printed = UNKNOWN
  /\ mainPc = "exit" => printed = finalResult

RightAnswer == LinkInv /\ WinnerInv /\ EndingInv /\ ClaimInv /\ LeaveInv

LEMMA WorkerJoinInv ==
  ASSUME TypeInv, JoinInv, NEW w \in Workers, Worker(w)
  PROVE  JoinInv'
<1> USE NAssumption, AnswerAssumption DEF TypeInv, TypeOK, CursorOK, Goto, Workers, JoinInv,
      Joining, Leaving, mainVars, launchVars, jobVars, solverVars,
      finalVars, worldVars
<1>1. CASE TestEnding(w) BY <1>1 DEF TestEnding
<1>2. CASE TestForce(w) BY <1>2 DEF TestForce
<1>3. CASE AwaitJob(w) BY <1>3 DEF AwaitJob
<1>4. CASE SpuriousWakeup(w) BY <1>4 DEF SpuriousWakeup
<1>5. CASE CallSolve(w) BY <1>5 DEF CallSolve
<1>6. CASE Answer(w) BY <1>6 DEF Answer
<1>7. CASE GiveUpSearch(w) BY <1>7 DEF GiveUpSearch
<1>8. CASE StopSearch(w) BY <1>8 DEF StopSearch
<1>9. CASE Retest(w) BY <1>9 DEF Retest
<1>10. CASE JoinForce(w) BY <1>10 DEF JoinForce
<1>11. CASE JoinEnding(w) BY <1>11 DEF JoinEnding
<1>12. CASE JoinParent(w) BY <1>12 DEF JoinParent
<1>13. CASE JoinStrategy(w) BY <1>13 DEF JoinStrategy
<1>14. CASE JoinGlobal(w) BY <1>14 DEF JoinGlobal
<1>15. CASE Claim(w) BY <1>15 DEF Claim
<1>16. CASE IntForce(w) BY <1>16 DEF IntForce, Touch
<1>17. CASE IntTerm(w) BY <1>17 DEF IntTerm, Touch
<1>18. CASE SetEnding(w) BY <1>18 DEF SetEnding
<1>19. CASE SetResult(w) BY <1>19 DEF SetResult
<1>20. CASE BeginCopy(w) BY <1>20 DEF BeginCopy
<1>21. CASE EndCopy(w) BY <1>21 DEF EndCopy
<1>22. CASE Rearm(w) BY <1>22 DEF Rearm
<1>23. QED
  BY <1>1, <1>2, <1>3, <1>4, <1>5, <1>6, <1>7, <1>8, <1>9, <1>10, <1>11,
     <1>12, <1>13, <1>14, <1>15, <1>16, <1>17, <1>18, <1>19, <1>20, <1>21,
     <1>22 DEF Worker, Run

LEMMA MainJoinInv ==
  ASSUME TypeInv, JoinInv, Main
  PROVE  JoinInv'
<1> USE NAssumption, AnswerAssumption DEF TypeInv, TypeOK, CursorOK, MainGoto,
      NextTurn, Workers, threadVars, JoinInv, Joining, Leaving, mainVars, launchVars, jobVars, solverVars,
      finalVars, worldVars
<1>1. CASE Construct BY <1>1 DEF Construct
<1>2. CASE Push BY <1>2 DEF Push
<1>3. CASE Link BY <1>3 DEF Link
<1>4. CASE BeginSolve BY <1>4 DEF BeginSolve
<1>5. CASE Unset BY <1>5 DEF Unset
<1>6. CASE Arm BY <1>6 DEF Arm
<1>7. CASE Signal BY <1>7 DEF Signal
<1>8. CASE Poll BY <1>8 DEF Poll
<1>9. CASE Awake BY <1>9 DEF Awake
<1>10. CASE TimeoutForce BY <1>10 DEF TimeoutForce, MainForce
<1>11. CASE TimeoutTerm BY <1>11 DEF TimeoutTerm, MainTerminate
<1>12. CASE DeleteForce BY <1>12 DEF DeleteForce, MainForce
<1>13. CASE DeleteTerm BY <1>13 DEF DeleteTerm, MainTerminate
<1>14. CASE DeleteJoin BY <1>14 DEF DeleteJoin
<1>15. CASE PrintResult BY <1>15 DEF PrintResult
<1>16. QED
  BY <1>1, <1>2, <1>3, <1>4, <1>5, <1>6, <1>7, <1>8, <1>9, <1>10, <1>11,
     <1>12, <1>13, <1>14, <1>15 DEF Main

LEMMA WorkerSingleSearch ==
  ASSUME TypeInv, SingleSearch, EarlyAnswer = FALSE,
         NEW w \in Workers, Worker(w)
  PROVE  SingleSearch'
<1> USE NAssumption, AnswerAssumption DEF TypeInv, TypeOK, CursorOK, Goto, Workers, Launched,
      SingleSearch, LaunchInv, InterruptInv, SearchInv, NoAbort,
      ForceBeforeTerminate, Early, Forced, mainVars, launchVars, jobVars, solverVars,
      finalVars, worldVars
<1>1. CASE TestEnding(w) BY <1>1 DEF TestEnding
<1>2. CASE TestForce(w) BY <1>2 DEF TestForce
<1>3. CASE AwaitJob(w) BY <1>3 DEF AwaitJob
<1>4. CASE SpuriousWakeup(w) BY <1>4 DEF SpuriousWakeup
<1>5. CASE CallSolve(w)
  <2>1. pc[w] = "call" /\ searches[w] = 0 BY <1>5 DEF CallSolve
  <2>2. /\ pc' = [pc EXCEPT ![w] = "searching"]
        /\ UNCHANGED process
    BY <1>5, <2>1 DEF CallSolve
  <2>3. LaunchInv' BY <1>5, <2>2 DEF CallSolve
  <2>4. InterruptInv' BY <1>5, <2>2 DEF CallSolve
  <2>5. SearchInv' BY <1>5, <2>2 DEF CallSolve
  <2>6. QED BY <2>2, <2>3, <2>4, <2>5
<1>6. CASE Answer(w) BY <1>6 DEF Answer
<1>7. CASE GiveUpSearch(w) BY <1>7 DEF GiveUpSearch
<1>8. CASE StopSearch(w) BY <1>8, SMTT(30) DEF StopSearch
<1>9. CASE Retest(w) BY <1>9 DEF Retest
<1>10. CASE JoinForce(w) BY <1>10 DEF JoinForce
<1>11. CASE JoinEnding(w) BY <1>11 DEF JoinEnding
<1>12. CASE JoinParent(w) BY <1>12 DEF JoinParent
<1>13. CASE JoinStrategy(w) BY <1>13 DEF JoinStrategy
<1>14. CASE JoinGlobal(w) BY <1>14 DEF JoinGlobal
<1>15. CASE Claim(w) BY <1>15 DEF Claim
<1>16. CASE IntForce(w)
  <2>1. LaunchInv' BY <1>16 DEF IntForce
  <2>2. \A v \in Workers : force[v] => force'[v] BY <1>16, SMTT(30) DEF IntForce
  <2>3. ForceBeforeTerminate' BY <1>16, <2>2 DEF IntForce
  <2>4. mainPc' \in {"intTerm", "delTerm"} => force'[idx']
    BY <1>16, <2>2 DEF IntForce
  <2>5. ASSUME NEW v \in Workers, pc'[v] = "intTerm"
        PROVE  force'[cursor'[v]] \/ ~live'[cursor'[v]]
    <3>1. CASE v = w
      <4>1. cursor[w] <= nSlaves /\ cursor[w] \in Workers
        BY <1>16, <2>5, <3>1 DEF IntForce
      <4>2. QED BY <1>16, <3>1, <4>1 DEF IntForce
    <3>2. CASE v # w
      <4>1. pc[v] = "intTerm" /\ cursor[v] \in Workers
        BY <1>16, <2>5, <3>2 DEF IntForce
      <4>2. QED BY <1>16, <2>2, <4>1 DEF IntForce
    <3>3. QED BY <3>1, <3>2
  <2>6. InterruptInv' BY <2>3, <2>4, <2>5
  <2>7. SearchInv'
    <3> SUFFICES ASSUME NEW v \in Workers PROVE SearchInv!(v)'
      OBVIOUS
    <3>1. CASE v = w BY <1>16, <2>2, <3>1 DEF IntForce
    <3>2. CASE v # w BY <1>16, <2>2, <3>2 DEF IntForce
    <3>3. QED BY <3>1, <3>2
  <2>8. NoAbort' BY <1>16 DEF IntForce, Touch
  <2>9. QED BY <2>1, <2>6, <2>7, <2>8
<1>17. CASE IntTerm(w) BY <1>17 DEF IntTerm, Touch
<1>18. CASE SetEnding(w) BY <1>18 DEF SetEnding
<1>19. CASE SetResult(w) BY <1>19 DEF SetResult
<1>20. CASE BeginCopy(w) BY <1>20 DEF BeginCopy
<1>21. CASE EndCopy(w) BY <1>21 DEF EndCopy
<1>22. CASE Rearm(w) BY <1>22 DEF Rearm
<1>23. QED
  BY <1>1, <1>2, <1>3, <1>4, <1>5, <1>6, <1>7, <1>8, <1>9, <1>10, <1>11,
     <1>12, <1>13, <1>14, <1>15, <1>16, <1>17, <1>18, <1>19, <1>20, <1>21,
     <1>22 DEF Worker, Run

LEMMA MainSingleSearch ==
  ASSUME TypeInv, SingleSearch, EarlyAnswer = FALSE, Main
  PROVE  SingleSearch'
<1> USE NAssumption, AnswerAssumption DEF TypeInv, TypeOK, CursorOK, MainGoto,
      NextTurn, Workers, threadVars, Launched,
      SingleSearch, LaunchInv, InterruptInv, SearchInv, NoAbort,
      ForceBeforeTerminate, Early, Forced, mainVars, launchVars, jobVars, solverVars,
      finalVars, worldVars
<1>1. CASE Construct BY <1>1 DEF Construct
<1>2. CASE Push BY <1>2 DEF Push
<1>3. CASE Link BY <1>3 DEF Link
<1>4. CASE BeginSolve BY <1>4 DEF BeginSolve
<1>5. CASE Unset BY <1>5 DEF Unset
<1>6. CASE Arm BY <1>6 DEF Arm
<1>7. CASE Signal BY <1>7 DEF Signal
<1>8. CASE Poll BY <1>8 DEF Poll
<1>9. CASE Awake BY <1>9 DEF Awake
<1>10. CASE TimeoutForce BY <1>10 DEF TimeoutForce, MainForce
<1>11. CASE TimeoutTerm BY <1>11 DEF TimeoutTerm, MainTerminate
<1>12. CASE DeleteForce BY <1>12 DEF DeleteForce, MainForce
<1>13. CASE DeleteTerm BY <1>13 DEF DeleteTerm, MainTerminate
<1>14. CASE DeleteJoin BY <1>14 DEF DeleteJoin
<1>15. CASE PrintResult BY <1>15 DEF PrintResult
<1>16. QED
  BY <1>1, <1>2, <1>3, <1>4, <1>5, <1>6, <1>7, <1>8, <1>9, <1>10, <1>11,
     <1>12, <1>13, <1>14, <1>15 DEF Main

LEMMA WorkerRightAnswer ==
  ASSUME TypeInv, JoinInv, LaunchInv, RightAnswer, EarlyAnswer = FALSE,
         NEW w \in Workers, Worker(w)
  PROVE  RightAnswer'
<1> USE NAssumption, AnswerAssumption DEF TypeInv, TypeOK, CursorOK, Goto, Workers, Launched,
      LaunchInv, Early, RightAnswer, LinkInv, WinnerInv, EndingInv, ClaimInv, LeaveInv,
      Joining, Leaving, mainVars, launchVars, jobVars, solverVars,
      finalVars, worldVars
<1>1. CASE TestEnding(w) BY <1>1 DEF TestEnding
<1>2. CASE TestForce(w) BY <1>2 DEF TestForce
<1>3. CASE AwaitJob(w) BY <1>3 DEF AwaitJob
<1>4. CASE SpuriousWakeup(w) BY <1>4 DEF SpuriousWakeup
<1>5. CASE CallSolve(w)
  <2>1. pc[w] = "call" BY <1>5 DEF CallSolve
  <2>2. pc' = pc \/ pc' = [pc EXCEPT ![w] = "searching"]
    BY <1>5 DEF CallSolve
  <2>3. /\ LinkInv' /\ LeaveInv' BY <1>5 DEF CallSolve
  <2>4. WinnerInv' BY <1>5, <2>2 DEF CallSolve
  <2>5. EndingInv' BY <1>5, <2>1, <2>2 DEF CallSolve
  <2>6. ClaimInv' BY <1>5, <2>1, <2>2 DEF CallSolve
  <2>7. QED BY <2>3, <2>4, <2>5, <2>6
<1>6. CASE Answer(w) BY <1>6 DEF Answer
<1>7. CASE GiveUpSearch(w) BY <1>7 DEF GiveUpSearch
<1>8. CASE StopSearch(w) BY <1>8 DEF StopSearch
<1>9. CASE Retest(w) BY <1>9 DEF Retest
<1>10. CASE JoinForce(w) BY <1>10 DEF JoinForce
<1>11. CASE JoinEnding(w) BY <1>11 DEF JoinEnding
<1>12. CASE JoinParent(w)
  <2>1. LinkInv' /\ WinnerInv' BY <1>12 DEF JoinParent
  <2>2. EndingInv' BY <1>12 DEF JoinParent
  <2>3. ClaimInv' BY <1>12 DEF JoinParent
  <2>4. LeaveInv' BY <1>12 DEF JoinParent
  <2>5. QED BY <2>1, <2>2, <2>3, <2>4
<1>13. CASE JoinStrategy(w) BY <1>13 DEF JoinStrategy
<1>14. CASE JoinGlobal(w) BY <1>14 DEF JoinGlobal
<1>15. CASE Claim(w)
  <2>1. LinkInv' /\ WinnerInv' BY <1>15 DEF Claim
  <2>2. EndingInv' BY <1>15 DEF Claim
  <2>3. ClaimInv' BY <1>15 DEF Claim
  <2>4. LeaveInv' BY <1>15 DEF Claim
  <2>5. QED BY <2>1, <2>2, <2>3, <2>4
<1>16. CASE IntForce(w) BY <1>16, SMTT(30) DEF IntForce, Touch
<1>17. CASE IntTerm(w) BY <1>17 DEF IntTerm, Touch
<1>18. CASE SetEnding(w) BY <1>18 DEF SetEnding
<1>19. CASE SetResult(w)
  <2>1. finalResult' = Truth /\ Truth # UNKNOWN BY <1>19 DEF SetResult
  <2>2. Launched BY <1>19 DEF SetResult
  <2>3. LinkInv' /\ WinnerInv' BY <1>19 DEF SetResult
  <2>4. EndingInv' /\ ClaimInv' BY <1>19, <2>1, <2>2 DEF SetResult
  <2>5. mainPc # "exit" BY <1>19 DEF SetResult, JoinInv
  <2>6. LeaveInv' BY <1>19, <2>5 DEF SetResult
  <2>7. QED BY <2>3, <2>4, <2>6
<1>20. CASE BeginCopy(w) BY <1>20 DEF BeginCopy
<1>21. CASE EndCopy(w) BY <1>21 DEF EndCopy
<1>22. CASE Rearm(w) BY <1>22 DEF Rearm
<1>23. QED
  BY <1>1, <1>2, <1>3, <1>4, <1>5, <1>6, <1>7, <1>8, <1>9, <1>10, <1>11,
     <1>12, <1>13, <1>14, <1>15, <1>16, <1>17, <1>18, <1>19, <1>20, <1>21,
     <1>22 DEF Worker, Run

LEMMA MainRightAnswer ==
  ASSUME TypeInv, LaunchInv, RightAnswer, EarlyAnswer = FALSE, Main
  PROVE  RightAnswer'
<1> USE NAssumption, AnswerAssumption DEF TypeInv, TypeOK, CursorOK, MainGoto,
      NextTurn, Workers, threadVars, Launched,
      LaunchInv, Early, RightAnswer, LinkInv, WinnerInv, EndingInv, ClaimInv, LeaveInv,
      Joining, Leaving, mainVars, launchVars, jobVars, solverVars,
      finalVars, worldVars
<1>1. CASE Construct BY <1>1 DEF Construct
<1>2. CASE Push BY <1>2 DEF Push
<1>3. CASE Link BY <1>3 DEF Link
<1>4. CASE BeginSolve BY <1>4 DEF BeginSolve
<1>5. CASE Unset BY <1>5 DEF Unset
<1>6. CASE Arm BY <1>6 DEF Arm
<1>7. CASE Signal BY <1>7 DEF Signal
<1>8. CASE Poll BY <1>8 DEF Poll
<1>9. CASE Awake BY <1>9 DEF Awake
<1>10. CASE TimeoutForce BY <1>10 DEF TimeoutForce, MainForce
<1>11. CASE TimeoutTerm BY <1>11 DEF TimeoutTerm, MainTerminate
<1>12. CASE DeleteForce BY <1>12 DEF DeleteForce, MainForce
<1>13. CASE DeleteTerm BY <1>13 DEF DeleteTerm, MainTerminate
<1>14. CASE DeleteJoin BY <1>14 DEF DeleteJoin
<1>15. CASE PrintResult BY <1>15 DEF PrintResult
<1>16. QED
  BY <1>1, <1>2, <1>3, <1>4, <1>5, <1>6, <1>7, <1>8, <1>9, <1>10, <1>11,
     <1>12, <1>13, <1>14, <1>15 DEF Main

-----------------------------------------------------------------------------
(* The theorems. *)

IInv == TypeInv /\ JoinInv /\ SingleSearch /\ RightAnswer

LEMMA InitIInv == Init => IInv
<1> SUFFICES ASSUME Init PROVE IInv OBVIOUS
<1> USE DEF Init
<1>1. TypeInv BY InitTypeInv
<1>2. JoinInv BY DEF JoinInv, Joining, Leaving
<1>3. SingleSearch
  BY DEF SingleSearch, LaunchInv, InterruptInv, SearchInv, NoAbort,
     ForceBeforeTerminate, Early, Forced, Workers, Launched
<1>4. RightAnswer
  BY NAssumption DEF RightAnswer, LinkInv, WinnerInv, EndingInv, ClaimInv,
     LeaveInv, Workers, Launched, Joining, Leaving
<1>5. QED BY <1>1, <1>2, <1>3, <1>4 DEF IInv

\* The steps that belong to nobody: the clock, and the end.
LEMMA IdleIInv == IInv /\ (Expire \/ UNCHANGED vars) => IInv'
<1> SUFFICES ASSUME IInv, Expire \/ UNCHANGED vars PROVE IInv' OBVIOUS
<1>1. /\ UNCHANGED <<mainVars, threadVars, launchVars, jobVars, solverVars,
                     finalVars, printed, process, touchedDeleted>>
      /\ expired => expired'
      /\ expired' \in BOOLEAN
  BY DEF Expire, vars, mainVars, threadVars, launchVars, jobVars, solverVars,
     finalVars, worldVars, IInv, TypeInv, TypeOK
<1> USE <1>1 DEF mainVars, threadVars, launchVars, jobVars, solverVars,
      finalVars, IInv, Launched
<1>2. TypeInv' BY DEF TypeInv, TypeOK, CursorOK
<1>3. JoinInv' BY DEF JoinInv
<1>4. SingleSearch'
  BY DEF SingleSearch, LaunchInv, InterruptInv, SearchInv, NoAbort,
     ForceBeforeTerminate
<1>5. RightAnswer'
  BY DEF RightAnswer, LinkInv, WinnerInv, EndingInv, ClaimInv, LeaveInv
<1>6. QED BY <1>2, <1>3, <1>4, <1>5

LEMMA NextIInv ==
  ASSUME EarlyAnswer = FALSE
  PROVE  IInv /\ [Next]_vars => IInv'
<1> SUFFICES ASSUME IInv, [Next]_vars PROVE IInv' OBVIOUS
<1>1. CASE Main
  BY <1>1, MainTypeInv, MainJoinInv, MainSingleSearch, MainRightAnswer
  DEF IInv, SingleSearch
<1>2. CASE \E w \in Workers : Worker(w)
  BY <1>2, WorkerTypeInv, WorkerJoinInv, WorkerSingleSearch,
     WorkerRightAnswer
  DEF IInv, SingleSearch
<1>3. CASE Expire \/ UNCHANGED vars BY <1>3, IdleIInv
<1>4. QED BY <1>1, <1>2, <1>3 DEF Next, Terminated

LEMMA IInvHolds ==
  ASSUME EarlyAnswer = FALSE
  PROVE  Spec => []IInv
BY InitIInv, NextIInv, PTL DEF Spec

\* Whatever the solvers and the clock do, main never leaves a thread behind:
\* the loop of ~Portfolio joins them all.
THEOREM ExitIsQuiet == Spec => []QuietExit
<1>1. Init => TypeInv /\ JoinInv
  BY InitTypeInv DEF Init, JoinInv, Joining, Leaving
<1>2. TypeInv /\ JoinInv /\ [Next]_vars => (TypeInv /\ JoinInv)'
  <2> SUFFICES ASSUME TypeInv, JoinInv, [Next]_vars
               PROVE  TypeInv' /\ JoinInv'
    OBVIOUS
  <2>1. CASE Main BY <2>1, MainTypeInv, MainJoinInv
  <2>2. CASE \E w \in Workers : Worker(w)
    BY <2>2, WorkerTypeInv, WorkerJoinInv
  <2>3. CASE Expire
    BY <2>3 DEF Expire, TypeInv, TypeOK, CursorOK, JoinInv, mainVars,
       threadVars, launchVars, jobVars, solverVars, finalVars
  <2>4. CASE UNCHANGED vars
    BY <2>4 DEF vars, TypeInv, TypeOK, CursorOK, JoinInv, mainVars,
       threadVars, launchVars, jobVars, solverVars, finalVars, worldVars
  <2>5. QED BY <2>1, <2>2, <2>3, <2>4 DEF Next, Terminated
<1>3. JoinInv => QuietExit BY DEF JoinInv, QuietExit, Leaving
<1>4. QED BY <1>1, <1>2, <1>3, PTL DEF Spec

\* When no solver answers during the launch, no solver is asked to search
\* twice: kissat_require never aborts a run, for any number of solvers.
THEOREM SearchedOnce ==
  ASSUME EarlyAnswer = FALSE
  PROVE  Spec => []NoAbort
<1>1. IInv => NoAbort BY DEF IInv, SingleSearch
<1>2. QED BY <1>1, IInvHolds, PTL

\* An accepted winner is what main prints.
THEOREM WinnerIsPrinted ==
  ASSUME EarlyAnswer = FALSE
  PROVE  Spec => []ClaimedIsPrinted
<1>1. IInv => ClaimedIsPrinted
  BY DEF IInv, RightAnswer, ClaimInv, LeaveInv, JoinInv, Leaving,
     ClaimedIsPrinted, Launched, TypeInv, TypeOK
<1>2. QED BY <1>1, IInvHolds, PTL

\* finalResult is written with an answer only, and there is one answer.
THEOREM VerdictSticks ==
  ASSUME EarlyAnswer = FALSE
  PROVE  Spec => StickyVerdict
<1> DEFINE Sticks == finalResult # UNKNOWN => finalResult' = finalResult
<1>1. IInv /\ [Next]_vars => [Sticks]_vars
  <2> SUFFICES ASSUME IInv, [Next]_vars PROVE Sticks \/ UNCHANGED vars
    OBVIOUS
  <2>1. CASE Main
    BY <2>1 DEF Main, Construct, Push, Link, BeginSolve, Unset, Arm, Signal,
       Poll, Awake, TimeoutForce, TimeoutTerm, DeleteForce, DeleteTerm,
       DeleteJoin, PrintResult, MainForce, MainTerminate, finalVars
  <2>2. ASSUME NEW w \in Workers, Worker(w) PROVE Sticks
    <3>1. CASE SetResult(w)
      BY <3>1 DEF SetResult, Goto, IInv, RightAnswer, WinnerInv, TypeInv,
         TypeOK
    <3>2. CASE ~SetResult(w)
      BY <2>2, <3>2 DEF Worker, Run, TestEnding, TestForce, AwaitJob,
         SpuriousWakeup, CallSolve, Answer, GiveUpSearch, StopSearch, Retest,
         JoinForce, JoinEnding, JoinParent, JoinStrategy, JoinGlobal, Claim,
         IntForce, IntTerm, SetEnding, BeginCopy, EndCopy, Rearm, finalVars
    <3>3. QED BY <3>1, <3>2
  <2>3. CASE Expire BY <2>3 DEF Expire, finalVars
  <2>4. CASE UNCHANGED vars BY <2>4
  <2>5. QED BY <2>1, <2>2, <2>3, <2>4 DEF Next, Terminated
<1>2. QED BY <1>1, IInvHolds, PTL DEF StickyVerdict, Spec

\* The threads implement PortfolioAnswer: every step is the expiry of the
\* clock, the exit with the right answer, the exit after the time-out, or a
\* stutter.
THEOREM Refinement ==
  ASSUME EarlyAnswer = FALSE
  PROVE  Spec => Implements
<1>1. Init => Abstract!Init BY DEF Init, Abstract!Init
<1>2. IInv /\ [Next]_vars => [Abstract!Next]_(Abstract!vars)
  <2> SUFFICES ASSUME IInv, [Next]_vars
               PROVE  Abstract!Next \/ UNCHANGED Abstract!vars
    OBVIOUS
  <2>1. CASE PrintResult
    <3>1. mainPc = "print" /\ mainPc' = "exit" BY <2>1 DEF PrintResult, MainGoto
    <3>2. printed = UNKNOWN /\ printed' = finalResult /\ UNCHANGED expired
      BY <2>1, <3>1 DEF PrintResult, IInv, RightAnswer, LeaveInv
    <3>3. finalResult = Truth \/ (finalResult = UNKNOWN /\ expired)
      BY <3>1 DEF IInv, RightAnswer, LeaveInv, EndingInv, JoinInv, Leaving,
         Joining, TypeInv, TypeOK
    <3>4. QED
      BY <3>1, <3>2, <3>3 DEF Abstract!Next, Abstract!Answer, Abstract!GiveUp
  <2>2. CASE Expire
    BY <2>2 DEF Expire, Abstract!Next, Abstract!Expire, mainVars
  <2>3. CASE Main /\ ~PrintResult
    <3>1. UNCHANGED <<printed, expired>>
      BY <2>3 DEF Main, Construct, Push, Link, BeginSolve, Unset, Arm, Signal,
         Poll, Awake, TimeoutForce, TimeoutTerm, DeleteForce, DeleteTerm,
         DeleteJoin, MainForce, MainTerminate, worldVars
    <3>2. mainPc # "exit" /\ mainPc' # "exit"
      BY <2>3 DEF Main, Construct, Push, Link, BeginSolve, Unset, Arm, Signal,
         Poll, Awake, TimeoutForce, TimeoutTerm, DeleteForce, DeleteTerm,
         DeleteJoin, MainForce, MainGoto, NextTurn
    <3>3. QED BY <3>1, <3>2 DEF Abstract!vars
  <2>4. ASSUME NEW w \in Workers, Worker(w) PROVE UNCHANGED Abstract!vars
    BY <2>4 DEF Abstract!vars, Worker, Run, TestEnding, TestForce, AwaitJob,
       SpuriousWakeup, CallSolve, Answer, GiveUpSearch, StopSearch, Retest,
       JoinForce, JoinEnding, JoinParent, JoinStrategy, JoinGlobal, Claim,
       IntForce, IntTerm, SetEnding, SetResult, BeginCopy, EndCopy, Rearm,
       Touch, mainVars, worldVars
  <2>5. CASE UNCHANGED vars
    BY <2>5 DEF vars, mainVars, worldVars, Abstract!vars
  <2>6. QED BY <2>1, <2>2, <2>3, <2>4, <2>5 DEF Next, Terminated
<1>3. QED BY <1>1, <1>2, IInvHolds, PTL DEF Implements, Abstract!Spec, Spec

-----------------------------------------------------------------------------
(* The model: why main has one to print, whenever the solvers answer.        *)

\* A thread that main has not created yet has not moved.
UnbornInv ==
  /\ mainPc = "construct" => \A v \in Workers : v >= idx => pc[v] = "none"
  /\ mainPc \in {"push", "link"} =>
       \A v \in Workers : v > idx => pc[v] = "none"

\* The result SAT without a model has its author still at the copy, and the
\* flag that makes main leave its loop does not let main past the join of that
\* thread.
ModelInv ==
  /\ finalResult = SAT /\ finalModel = NoModel =>
       \E v \in Workers : pc[v] \in {"copy", "copying"}
  /\ printed = SAT => mainPc = "exit" /\ finalResult = SAT

LEMMA WorkerModelInv ==
  ASSUME TypeInv, JoinInv, UnbornInv, ModelInv,
         NEW w \in Workers, Worker(w)
  PROVE  UnbornInv' /\ ModelInv'
<1> USE AnswerAssumption DEF Goto, UnbornInv, ModelInv, mainVars,
      launchVars, jobVars, solverVars, finalVars, worldVars
<1> USE DEF TypeInv, TypeOK
<1>1. CASE TestEnding(w) BY <1>1 DEF TestEnding
<1>2. CASE TestForce(w) BY <1>2 DEF TestForce
<1>3. CASE AwaitJob(w) BY <1>3 DEF AwaitJob
<1>4. CASE SpuriousWakeup(w) BY <1>4 DEF SpuriousWakeup
<1>5. CASE CallSolve(w) BY <1>5 DEF CallSolve
<1>6. CASE Answer(w) BY <1>6 DEF Answer
<1>7. CASE GiveUpSearch(w) BY <1>7 DEF GiveUpSearch
<1>8. CASE StopSearch(w) BY <1>8 DEF StopSearch
<1>9. CASE Retest(w) BY <1>9 DEF Retest
<1>10. CASE JoinForce(w) BY <1>10 DEF JoinForce
<1>11. CASE JoinEnding(w) BY <1>11 DEF JoinEnding
<1>12. CASE JoinParent(w) BY <1>12 DEF JoinParent
<1>13. CASE JoinStrategy(w) BY <1>13 DEF JoinStrategy
<1>14. CASE JoinGlobal(w) BY <1>14 DEF JoinGlobal
<1>15. CASE Claim(w) BY <1>15 DEF Claim
<1>16. CASE IntForce(w) BY <1>16 DEF IntForce, Touch
<1>17. CASE IntTerm(w) BY <1>17 DEF IntTerm, Touch
<1>18. CASE SetEnding(w) BY <1>18 DEF SetEnding
<1>19. CASE SetResult(w)
  <2>1. finalResult' = SAT => pc'[w] = "copy" BY <1>19 DEF SetResult
  <2>2. printed # SAT
    BY <1>19 DEF SetResult, JoinInv, Leaving
  <2>3. QED BY <1>19, <2>1, <2>2 DEF SetResult
<1>20. CASE BeginCopy(w)
  <2>1. pc'[w] = "copying" BY <1>20 DEF BeginCopy
  <2>2. QED BY <1>20, <2>1 DEF BeginCopy
<1>21. CASE EndCopy(w)
  <2>1. finalModel' # NoModel
    BY <1>21, NAssumption DEF EndCopy, NoModel, Torn, Workers
  <2>2. QED BY <1>21, <2>1 DEF EndCopy
<1>22. CASE Rearm(w) BY <1>22 DEF Rearm
<1>23. QED
  BY <1>1, <1>2, <1>3, <1>4, <1>5, <1>6, <1>7, <1>8, <1>9, <1>10, <1>11,
     <1>12, <1>13, <1>14, <1>15, <1>16, <1>17, <1>18, <1>19, <1>20, <1>21,
     <1>22 DEF Worker, Run

LEMMA MainModelInv ==
  ASSUME TypeInv, UnbornInv, ModelInv, Main
  PROVE  UnbornInv' /\ ModelInv'
<1> USE NAssumption DEF TypeInv, TypeOK, MainGoto, NextTurn, Workers,
      UnbornInv, ModelInv, mainVars, threadVars, launchVars, jobVars,
      solverVars, finalVars, worldVars
<1>1. CASE Construct BY <1>1 DEF Construct
<1>2. CASE Push BY <1>2 DEF Push
<1>3. CASE Link BY <1>3 DEF Link
<1>4. CASE BeginSolve BY <1>4 DEF BeginSolve
<1>5. CASE Unset BY <1>5 DEF Unset
<1>6. CASE Arm BY <1>6 DEF Arm
<1>7. CASE Signal BY <1>7 DEF Signal
<1>8. CASE Poll BY <1>8 DEF Poll
<1>9. CASE Awake BY <1>9 DEF Awake
<1>10. CASE TimeoutForce BY <1>10 DEF TimeoutForce, MainForce
<1>11. CASE TimeoutTerm BY <1>11 DEF TimeoutTerm, MainTerminate
<1>12. CASE DeleteForce BY <1>12 DEF DeleteForce, MainForce
<1>13. CASE DeleteTerm BY <1>13 DEF DeleteTerm, MainTerminate
<1>14. CASE DeleteJoin BY <1>14 DEF DeleteJoin
<1>15. CASE PrintResult BY <1>15 DEF PrintResult
<1>16. QED
  BY <1>1, <1>2, <1>3, <1>4, <1>5, <1>6, <1>7, <1>8, <1>9, <1>10, <1>11,
     <1>12, <1>13, <1>14, <1>15 DEF Main

\* Whatever the solvers and the clock do, and however early they answer: when
\* main prints SAT the winner's assignment to finalModel has taken place,
\* although it follows the write of globalEnding that lets main go.
THEOREM ModelIsPrinted == Spec => []ModelPrinted
<1> DEFINE Inv == TypeInv /\ JoinInv /\ UnbornInv /\ ModelInv
<1>1. Init => Inv
  BY InitTypeInv, AnswerAssumption
  DEF Init, JoinInv, Joining, Leaving, UnbornInv, ModelInv
<1>2. Inv /\ [Next]_vars => Inv'
  <2> SUFFICES ASSUME Inv, [Next]_vars PROVE Inv' OBVIOUS
  <2>1. CASE Main BY <2>1, MainTypeInv, MainJoinInv, MainModelInv
  <2>2. CASE \E w \in Workers : Worker(w)
    BY <2>2, WorkerTypeInv, WorkerJoinInv, WorkerModelInv
  <2>3. CASE Expire
    BY <2>3 DEF Expire, TypeInv, TypeOK, CursorOK, JoinInv, UnbornInv,
       ModelInv, mainVars, threadVars, launchVars, jobVars, solverVars,
       finalVars
  <2>4. CASE UNCHANGED vars
    BY <2>4 DEF vars, TypeInv, TypeOK, CursorOK, JoinInv, UnbornInv,
       ModelInv, mainVars, threadVars, launchVars, jobVars, solverVars,
       finalVars, worldVars
  <2>5. QED BY <2>1, <2>2, <2>3, <2>4 DEF Next, Terminated
<1>3. Inv => ModelPrinted
  <2> SUFFICES ASSUME Inv, mainPc = "exit", printed = SAT,
                      finalModel = NoModel
               PROVE  FALSE
    BY DEF ModelPrinted
  <2>1. \E v \in Workers : pc[v] \in {"copy", "copying"} BY DEF ModelInv
  <2>2. QED BY <2>1 DEF JoinInv, Leaving
<1>4. QED BY <1>1, <1>2, <1>3, PTL DEF Spec
=============================================================================
