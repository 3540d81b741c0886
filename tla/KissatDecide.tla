---------------------------- MODULE KissatDecide ----------------------------
(***************************************************************************)
(* How kissat chooses the next decision: the queue of variables of focused *)
(* mode (queue.c) and the score heaps of stable mode (heap.c), kept up to  *)
(* date by every assignment, backtrack, bump, restart, mode switch,        *)
(* elimination and compaction.                                             *)
(*                                                                         *)
(* The polarity of a literal plays no part here, so only positive literals *)
(* are assigned, and what is propagated or learned is any literal the      *)
(* levels allow.  Scores are natural numbers; rescaling keeps their order. *)
(* heap->pos, the inverse of heap->stack, is not kept apart, and neither   *)
(* is tainted, which only says that all the scores are zero.  Links of     *)
(* variables that are not active are never read and are left at zero.      *)
(***************************************************************************)
EXTENDS KissatTrail, SequencesExt

CONSTANTS
  Instances,    \* what is solved: records of the number of variables, the options
                \* mab (restarts choose between the heuristics) and stable (0 never,
                \* 1 the modes alternate, 2 always), and a bound on the conflicts
  Vsids, Chb,   \* the values of solver->heuristic
  MaxStamp,     \* UINT_MAX, the last stamp of the queue
  One,          \* the initial score increment, which rescaling scales to
  MaxScore,     \* MAX_SCORE
  MaxChb        \* the largest CHB score

ASSUME DecideAssumption ==
  /\ \A i \in Instances : i.vars \in Var /\ i.stable \in 0..2 /\ i.conflicts \in Nat
  /\ Vsids # Chb
  /\ MaxStamp \in Nat /\ MaxStamp > N
  /\ {One, MaxScore, MaxChb} \subseteq Nat /\ 0 < One /\ One < MaxScore

VARIABLES
  instance,  \* what is solved
  pc,        \* "input", "search" or "probe" (solver->probing)
  numbered,  \* solver->vars: the variables are 1..numbered
  asg,       \* the assignment (KissatTrail)
  active,    \* those that occur in a clause and are neither fixed nor eliminated
  queue,     \* the links and the queue
  heaps,     \* the heaps scores and scores_chb, by heuristic
  scinc,     \* the score increment
  stable, heuristic,
  conflicts

vars == <<instance, pc, numbered, asg, active, queue, heaps, scinc, stable, heuristic,
          conflicts>>

DISCONNECT == 0

Init ==
  /\ instance \in Instances
  /\ pc = "input" /\ numbered = 0 /\ asg = Empty /\ active = {}
  /\ queue = [prev |-> [v \in Var |-> DISCONNECT], next |-> [v \in Var |-> DISCONNECT],
              stamps |-> [v \in Var |-> 0], first |-> DISCONNECT, last |-> DISCONNECT,
              stamp |-> 0, search |-> [idx |-> DISCONNECT, stamp |-> 0]]
  /\ heaps = [h \in {Vsids, Chb} |-> [stack |-> <<>>, score |-> [v \in Var |-> 0]]]
  /\ scinc = One
  /\ stable = (instance.stable = 2)
  /\ heuristic = Vsids /\ conflicts = 0

Free == {v \in active : IsFree(asg, v)}

-----------------------------------------------------------------------------
(* The queue.                                                              *)
UpdateQueue(q, idx) == [q EXCEPT !.search = [idx |-> idx, stamp |-> q.stamps[idx]]]

\* The variables from the first one along the links, of which there are at most N.
Order(q) ==
  LET at[n \in 0..N] ==
        IF n = 0 THEN q.first
        ELSE LET before == at[n - 1] IN IF before = DISCONNECT THEN before ELSE q.next[before]
  IN [n \in 1..Cardinality({m \in 1..N : at[m - 1] # DISCONNECT}) |-> at[n - 1]]

\* The stamps when the variables of the queue are counted from its first.
Counted(q, order) ==
  [v \in Var |-> IF Contains(order, v) THEN SelectInSeq(order, LAMBDA u : u = v) ELSE q.stamps[v]]

\* With a mistake: the search keeps the stamp from before.
ReassignStampsKeepSearch(q) ==
  LET order == Order(q) IN [q EXCEPT !.stamp = Len(order), !.stamps = Counted(q, order)]

ReassignStamps(q) ==
  LET order == Order(q)
      stamped == [q EXCEPT !.stamp = Len(order), !.stamps = Counted(q, order)]
      idx == q.search.idx
  IN IF idx = DISCONNECT THEN stamped ELSE UpdateQueue(stamped, idx)

\* The static enqueue and dequeue.
Linked(q, i) ==
  LET j == q.last
      l == [q EXCEPT !.next = [v \in Var |-> IF v = i THEN DISCONNECT ELSE IF v = j THEN i ELSE @[v]],
                     !.prev[i] = j, !.last = i, !.first = IF j = DISCONNECT THEN i ELSE @]
  IN IF q.stamp = MaxStamp THEN ReassignStamps(l)
     ELSE [l EXCEPT !.stamp = @ + 1, !.stamps[i] = q.stamp + 1]

Unlinked(q, i) ==
  LET j == q.prev[i]
      k == q.next[i]
  IN [q EXCEPT !.next = [v \in Var |-> IF v = i THEN DISCONNECT ELSE IF v = j THEN k ELSE @[v]],
               !.prev = [v \in Var |-> IF v = i THEN DISCONNECT ELSE IF v = k THEN j ELSE @[v]],
               !.first = IF j = DISCONNECT THEN k ELSE @,
               !.last = IF k = DISCONNECT THEN j ELSE @]

Beside(q, first, second) == IF first # DISCONNECT THEN first ELSE second

\* kissat_enqueue and kissat_dequeue.
Enqueue(q, s, i) ==
  LET l == Linked(q, i) IN IF IsFree(s, i) THEN UpdateQueue(l, i) ELSE l

Dequeue(q, i) ==
  LET search == Beside(q, q.next[i], q.prev[i])
      moved == IF q.search.idx # i THEN q
               ELSE IF search = DISCONNECT
               THEN [q EXCEPT !.search = [idx |-> DISCONNECT, stamp |-> 0]]
               ELSE UpdateQueue(q, search)
  IN Unlinked(moved, i)

\* kissat_move_to_front.
MoveToFront(q, s, i) ==
  IF i = q.last THEN q
  ELSE LET moved == IF ~IsFree(s, i) /\ q.search.idx = i
                    THEN UpdateQueue(q, Beside(q, q.prev[i], q.next[i])) ELSE q
       IN Enqueue(Unlinked(moved, i), s, i)

\* last_enqueued_unassigned_variable, DISCONNECT when the walk finds none.
LastEnqueued(q, s, idx) ==
  LET walk[n \in 0..N] ==
        IF n = 0 THEN idx
        ELSE LET at == walk[n - 1] IN IF at = DISCONNECT \/ IsFree(s, at) THEN at ELSE q.prev[at]
  IN walk[N]

-----------------------------------------------------------------------------
(* The heaps: stack[1] is the maximum, the children of i are 2i and 2i + 1. *)
Contained(h, v) == Contains(h.stack, v)
ScoreAt(h, i) == h.score[h.stack[i]]
Swapped(h, i, j) == [h EXCEPT !.stack[i] = h.stack[j], !.stack[j] = h.stack[i]]
Pos(h, v) == SelectInSeq(h.stack, LAMBDA u : u = v)

\* bubble_up and bubble_down: one turn of the loop for the element at a place, and
\* as many as there can be.
Rise(b) ==
  LET i == b.at
  IN IF i = 1 \/ ScoreAt(b.heap, i \div 2) >= ScoreAt(b.heap, i) THEN b
     ELSE [heap |-> Swapped(b.heap, i, i \div 2), at |-> i \div 2]

BubbleUp(h, i) ==
  LET up[n \in 0..N] == IF n = 0 THEN [heap |-> h, at |-> i] ELSE Rise(up[n - 1])
  IN up[N].heap

Sink(b) ==
  LET h == b.heap  i == b.at  end == Len(h.stack)
      child == IF 2 * i + 1 <= end /\ ScoreAt(h, 2 * i + 1) > ScoreAt(h, 2 * i)
               THEN 2 * i + 1 ELSE 2 * i
  IN IF 2 * i > end \/ ScoreAt(h, child) <= ScoreAt(h, i) THEN b
     ELSE [heap |-> Swapped(h, i, child), at |-> child]

BubbleDown(h, i) ==
  LET down[n \in 0..N] == IF n = 0 THEN [heap |-> h, at |-> i] ELSE Sink(down[n - 1])
  IN down[N].heap

PushHeap(h, v) == BubbleUp([h EXCEPT !.stack = Append(@, v)], Len(h.stack) + 1)
PushMissing(h, v) == IF Contained(h, v) THEN h ELSE PushHeap(h, v)

PopHeap(h, v) ==
  LET i == Pos(h, v)
      last == Last(h.stack)
      popped == [h EXCEPT !.stack = Front(@)]
      moved == BubbleUp([popped EXCEPT !.stack[i] = last], i)
  IN IF last = v THEN popped ELSE BubbleDown(moved, Pos(moved, last))

UpdateHeap(h, v, score) ==
  LET old == h.score[v]
      set == [h EXCEPT !.score[v] = score]
  IN IF ~Contained(h, v) THEN set
     ELSE IF score > old THEN BubbleUp(set, Pos(h, v)) ELSE BubbleDown(set, Pos(h, v))

\* largest_score_unassigned_variable: assigned maxima leave the heap.
PopAssigned(h, s) ==
  LET popped[n \in 0..N] ==
        IF n = 0 THEN h
        ELSE LET g == popped[n - 1]
             IN IF g.stack = <<>> \/ IsFree(s, g.stack[1]) THEN g ELSE PopHeap(g, g.stack[1])
  IN popped[N]

\* kissat_update_scores: over the variables in their order.
UpdateScores(h, live) ==
  LET Push(g, v) == IF v \in live THEN PushMissing(g, v) ELSE g
  IN FoldLeft(Push, h, [v \in 1..N |-> v])

-----------------------------------------------------------------------------
(* What the handlers change, as one record, and its parts.                 *)
Here == [asg |-> asg, active |-> active, queue |-> queue, heaps |-> heaps, scinc |-> scinc]
Becomes(d) == /\ asg' = d.asg /\ active' = d.active /\ queue' = d.queue
              /\ heaps' = d.heaps /\ scinc' = d.scinc

\* deactivate_variable; activate_literal pushes on the same heaps.
Used == IF instance.mab THEN {Vsids, Chb} ELSE {heuristic}
OnHeaps(d, changed) ==
  [d EXCEPT !.heaps = [h \in {Vsids, Chb} |-> IF h \in Used THEN changed[h] ELSE @[h]]]

Deactivated(d, v) ==
  LET Without(h) == IF Contained(h, v) THEN PopHeap(h, v) ELSE h
  IN OnHeaps([d EXCEPT !.active = @ \ {v}, !.queue = Dequeue(@, v)],
             [h \in Used |-> Without(d.heaps[h])])

Activated(d, v) ==
  OnHeaps([d EXCEPT !.active = @ \cup {v}, !.queue = Enqueue(@, d.asg, v)],
          [h \in Used |-> PushHeap(d.heaps[h], v)])

\* kissat_assign: a variable assigned at level 0 is fixed and leaves.
Assigned(d, a) ==
  LET e == [d EXCEPT !.asg = Assign(@, a.var, a.level, NoReason)]
  IN IF a.level = 0 THEN Deactivated(e, a.var) ELSE e

\* kissat_next_decision_variable: its answer and what it does on the way.
NextDecision(d) ==
  LET heap == PopAssigned(d.heaps[heuristic], d.asg)
      idx == LastEnqueued(d.queue, d.asg, d.queue.search.idx)
  IN IF stable
     THEN [idx |-> IF heap.stack = <<>> THEN DISCONNECT ELSE heap.stack[1],
           after |-> [d EXCEPT !.heaps[heuristic] = heap]]
     ELSE [idx |-> idx,
           after |-> IF idx = d.queue.search.idx THEN d
                     ELSE [d EXCEPT !.queue = UpdateQueue(@, idx)]]

\* kissat_backtrack: what it unassigns goes back to the heap or the queue.
\* Propagation is not kept here, so propagated stays 0.
Backtracked(d, level) ==
  LET s == [Backtrack(d.asg, level) EXCEPT !.propagated = 0]
      OnHeap(h, v)  == IF IsFree(s, v) THEN PushMissing(h, v) ELSE h
      InQueue(q, v) == IF IsFree(s, v) /\ q.stamps[v] > q.search.stamp THEN UpdateQueue(q, v) ELSE q
  IN IF stable
     THEN [d EXCEPT !.asg = s, !.heaps[heuristic] = FoldLeft(OnHeap, @, d.asg.trail)]
     ELSE [d EXCEPT !.asg = s, !.queue = FoldLeft(InQueue, @, d.asg.trail)]

\* rescale_scores; a score that is not zero does not become zero.
Rescaled(d) ==
  LET h == d.heaps[Vsids]
      largest == Max({h.score[v] : v \in Var} \cup {d.scinc})
      Scaled(x) == IF x = 0 THEN 0 ELSE Max({1, (x * One) \div largest})
  IN [d EXCEPT !.heaps[Vsids].score = [v \in Var |-> Scaled(@[v])], !.scinc = Scaled(@)]

\* bump_variable_score and bump_score_increment.
BumpScore(d, v) ==
  LET score == d.heaps[Vsids].score[v] + d.scinc
      e == [d EXCEPT !.heaps[Vsids] = UpdateHeap(@, v, score)]
  IN IF v \notin d.active THEN d ELSE IF score > MaxScore THEN Rescaled(e) ELSE e

BumpIncrement(d) ==
  LET e == [d EXCEPT !.scinc = @ + 1] IN IF e.scinc > MaxScore THEN Rescaled(e) ELSE e

\* move_analyzed_variables_to_front_of_queue: the order of their stamps.
MoveAnalyzed(d, analyzed) ==
  LET Stamped(t) == {v \in ToSet(analyzed) \cap d.active : d.queue.stamps[v] = t}
      Move(q, t) == IF Stamped(t) = {} THEN q
                    ELSE MoveToFront(q, d.asg, CHOOSE v \in Stamped(t) : TRUE)
  IN [d EXCEPT !.queue = FoldLeft(Move, @, [t \in 1..MaxStamp |-> t])]

\* kissat_analyze after it learned: the CHB scores are bumped by the propagation.
Bumped(d, analyzed) ==
  CASE ~stable -> MoveAnalyzed(d, analyzed)
    [] stable /\ heuristic = Vsids -> BumpIncrement(FoldLeft(BumpScore, d, analyzed))
    [] OTHER -> d

\* The loop of kissat_search_propagate over the end of the trail: it tests the
\* level of the literal it bumped last, and so bumps one more than those of the level.
BumpedChb(s) ==
  {i \in DOMAIN s.trail : /\ LevelOf(s, Last(s.trail)) = Level(s)
                          /\ \A j \in i + 1 .. Len(s.trail) : LevelOf(s, s.trail[j]) = Level(s)}

BumpChb(d, scores) ==
  LET Bump(h, v) == UpdateHeap(h, v, scores[v])
      first == Len(d.asg.trail) - Cardinality(BumpedChb(d.asg)) + 1
      bumped == Reverse(SubSeq(d.asg.trail, first, Len(d.asg.trail)))
  IN [d EXCEPT !.heaps[Chb] = FoldLeft(Bump, @, bumped)]

\* kissat_compact_literals: the variables that keep a number are the active ones and
\* the first fixed one; they are numbered in their order.
Kept(d) == d.active \cup {v \in Fixed(d.asg) : \A u \in Fixed(d.asg) : v <= u}
Ranks(A) == [v \in A |-> Cardinality({u \in A : u <= v})]

\* compact_literal: what is known of a variable goes with it to its new number.
Carried(map, f, none) ==
  [v \in Var |-> LET was == {u \in DOMAIN map : map[u] = v}
                 IN IF was = {} THEN none ELSE f[CHOOSE u \in was : TRUE]]

\* With a mistake: the values stay where they were.
RenamedKeepValues(s, map) ==
  [s EXCEPT !.trail = [i \in DOMAIN @ |-> map[@[i]]],
            !.level = Carried(map, @, 0),
            !.reason = Carried(map, @, NoReason)]

\* compact_trail and the values, levels and reasons; the decisions of the frames
\* are the literals of the trail at which they begin.
Renamed(s, map) ==
  [s EXCEPT !.trail = [i \in DOMAIN @ |-> map[@[i]]],
            !.true = {map[v] : v \in @ \cap DOMAIN map},
            !.level = Carried(map, @, 0),
            !.reason = Carried(map, @, NoReason)]

\* compact_queue: the search is compared with each number before it is mapped,
\* and may be met again under its new one.
CompactQueue(q, map) ==
  LET order == Order(q)
      At(i) == IF i \in DOMAIN order THEN map[order[i]] ELSE DISCONNECT
      Near(v, by) == LET is == {i \in DOMAIN order : At(i) = v}
                     IN IF is = {} THEN DISCONNECT ELSE At((CHOOSE i \in is : TRUE) + by)
      Meet(search, i) == IF search.idx = order[i] THEN [idx |-> At(i), stamp |-> i] ELSE search
  IN [prev |-> [v \in Var |-> Near(v, -1)], next |-> [v \in Var |-> Near(v, 1)],
      stamps |-> [v \in Var |-> Max({0} \cup {i \in DOMAIN order : At(i) = v})],
      first |-> At(1), last |-> At(Len(order)), stamp |-> Len(order),
      search |-> FoldLeftDomain(LAMBDA search, i : Meet(search, i), q.search, order)]

\* compact_scores: the scores are copied and the heap is filled again.
CompactScores(h, map) ==
  LET mapped == [i \in DOMAIN h.stack |-> map[h.stack[i]]]
  IN FoldLeft(PushHeap, [stack |-> <<>>, score |-> Carried(map, h.score, 0)], mapped)

\* kissat_finalize_compacting.
Compacted(d, map) ==
  OnHeaps([d EXCEPT !.asg = Renamed(@, map), !.active = {map[v] : v \in @},
                    !.queue = CompactQueue(@, map)],
          [h \in Used |-> CompactScores(d.heaps[h], map)])

-----------------------------------------------------------------------------
\* kissat_import_literal: a variable gets the next number when it is first read.
Import ==
  /\ pc = "input" /\ numbered < instance.vars /\ numbered' = numbered + 1
  /\ UNCHANGED <<pc, asg, active, queue, heaps, scinc, stable, heuristic, conflicts>>

\* kissat_add of a unit or of a larger clause: its variables become active, unless
\* the clause is satisfied.
Add(v) ==
  /\ pc = "input" /\ v <= numbered /\ v \notin active /\ IsFree(asg, v)
  /\ \/ Becomes(Activated(Here, v))
     \/ Becomes(Assigned(Activated(Here, v), [var |-> v, level |-> 0]))
  /\ UNCHANGED <<pc, numbered, stable, heuristic, conflicts>>

StartSearch ==
  /\ pc = "input" /\ pc' = "search"
  /\ UNCHANGED <<numbered, asg, active, queue, heaps, scinc, stable, heuristic, conflicts>>

\* kissat_search_propagate, or the propagation of probing: some variables are
\* implied, each on some level.
Propagate(implied) ==
  LET d == FoldLeft(Assigned, Here, implied)
  IN /\ pc \in {"search", "probe"}
     /\ IF pc = "search" /\ stable /\ heuristic = Chb
        THEN \E scores \in [{d.asg.trail[i] : i \in BumpedChb(d.asg)} -> 0..MaxChb] :
               Becomes(BumpChb(d, scores))
        ELSE Becomes(d)
     /\ UNCHANGED <<pc, numbered, stable, heuristic, conflicts>>

\* What a propagation may imply: nothing or one variable.  More of them are the
\* work of several propagations.
Implied == {<<>>} \cup {<<a>> : a \in [var : Free, level : 0..Level(asg)]}

Flush ==
  /\ pc \in {"search", "probe"} /\ Level(asg) = 0 /\ Unflushed(asg)
  /\ Becomes([Here EXCEPT !.asg = FlushTrail(@)])
  /\ UNCHANGED <<pc, numbered, stable, heuristic, conflicts>>

\* kissat_decide, and kissat_internal_assume of vivification.
MakeDecision ==
  /\ pc = "search" /\ Free # {} /\ ~(Level(asg) = 0 /\ Unflushed(asg))
  /\ LET d == NextDecision(Here) IN Becomes([d.after EXCEPT !.asg = Decide(@, d.idx)])
  /\ UNCHANGED <<pc, numbered, stable, heuristic, conflicts>>

Assume(v) ==
  /\ pc = "probe" /\ v \in Free
  /\ Becomes([Here EXCEPT !.asg = Decide(@, v)])
  /\ UNCHANGED <<pc, numbered, stable, heuristic, conflicts>>

\* kissat_analyze of a conflict: kissat_learn_clause backtracks, to the level of
\* the clause or by one, and assigns; then the analyzed variables are bumped.
Learn(uip, analyzed, to, level) ==
  /\ pc = "search" /\ conflicts < instance.conflicts
  /\ uip \in ToSet(analyzed) /\ LevelOf(asg, uip) = Level(asg)
  /\ level < to => to = Level(asg) - 1
  /\ Becomes(Bumped(Assigned(Backtracked(Here, to), [var |-> uip, level |-> level]), analyzed))
  /\ conflicts' = conflicts + 1
  /\ UNCHANGED <<pc, numbered, stable, heuristic>>

Analyzed == UNION {SetToSeqs(S) : S \in SUBSET {v \in asg.true : LevelOf(asg, v) > 0}}

\* The other calls of kissat_backtrack.
BacktrackTo(level) ==
  /\ pc \in {"search", "probe"}
  /\ Becomes(Backtracked(Here, level))
  /\ UNCHANGED <<pc, numbered, stable, heuristic, conflicts>>

\* The first level whose decision the next one would come before.
Reused(better) ==
  CHOOSE l \in 0..Level(asg) :
    /\ l < Level(asg) => asg.trail[asg.frames[l + 1] + 1] \in better
    /\ \A k \in 1..l : asg.trail[asg.frames[k] + 1] \notin better

\* kissat_restart without a change of heuristic.  reuse_stable_trail keeps the
\* score of the next decision in an unsigned: any number may be compared.
Restart ==
  /\ pc = "search" /\ Level(asg) > 0 /\ Free # {}
  /\ LET d == NextDecision(Here)
     IN IF stable
        THEN \E score \in 0..MaxScore :
               Becomes(Backtracked(d.after, Reused({v \in Var : score > heaps[heuristic].score[v]})))
        ELSE Becomes(Backtracked(d.after,
               Reused({v \in Var : queue.stamps[d.idx] > queue.stamps[v]})))
  /\ UNCHANGED <<pc, numbered, stable, heuristic, conflicts>>

\* kissat_restart when restart_mab changes the heuristic.
ChangeHeuristic(new) ==
  /\ pc = "search" /\ Level(asg) > 0 /\ Free # {} /\ stable /\ instance.mab /\ new # heuristic
  /\ LET d == Backtracked(Here, 0)
     IN Becomes([d EXCEPT !.heaps[new] = UpdateScores(@, active)])
  /\ heuristic' = new
  /\ UNCHANGED <<pc, numbered, stable, conflicts>>

\* With a mistake: variables popped before focused mode do not come back.
SwitchModeOnly ==
  /\ pc = "search" /\ Level(asg) > 0 /\ Free # {} /\ instance.stable = 1
  /\ IF stable THEN Becomes([Here EXCEPT !.queue = UpdateQueue(@, queue.last)]) ELSE Becomes(Here)
  /\ stable' = ~stable
  /\ UNCHANGED <<pc, numbered, heuristic, conflicts>>

\* kissat_switch_search_mode.
SwitchMode ==
  /\ pc = "search" /\ Level(asg) > 0 /\ Free # {} /\ instance.stable = 1
  /\ IF stable THEN Becomes([Here EXCEPT !.queue = UpdateQueue(@, queue.last)])
     ELSE Becomes([Here EXCEPT !.heaps[heuristic] = UpdateScores(@, active)])
  /\ stable' = ~stable
  /\ UNCHANGED <<pc, numbered, heuristic, conflicts>>

\* Inprocessing starts and ends at level 0 with the units flushed.
StartProbing ==
  /\ pc = "search" /\ Level(asg) = 0 /\ ~Unflushed(asg) /\ pc' = "probe"
  /\ UNCHANGED <<numbered, asg, active, queue, heaps, scinc, stable, heuristic, conflicts>>

Eliminate(v) ==
  /\ pc = "probe" /\ Level(asg) = 0 /\ v \in Free
  /\ Becomes(Deactivated(Here, v))
  /\ UNCHANGED <<pc, numbered, stable, heuristic, conflicts>>

\* kissat_reduce when it compacts, in the middle of the search.  If there are units
\* to flush it has restarted, propagated and flushed them (BacktrackTo, Propagate,
\* Flush), after which nothing need be free.
Compact ==
  /\ pc = "search" /\ ~Unflushed(asg) /\ (Level(asg) > 0 => Free # {})
  /\ Cardinality(Kept(Here)) < numbered
  /\ Becomes(Compacted(Here, Ranks(Kept(Here))))
  /\ numbered' = Cardinality(Kept(Here))
  /\ UNCHANGED <<pc, stable, heuristic, conflicts>>

EndProbing ==
  /\ pc = "probe" /\ Level(asg) = 0 /\ ~Unflushed(asg) /\ pc' = "search"
  /\ UNCHANGED <<numbered, asg, active, queue, heaps, scinc, stable, heuristic, conflicts>>

\* All active variables are assigned: the search has its answer.
Returned == pc = "search" /\ Free = {} /\ UNCHANGED vars

Step ==
  \/ Import
  \/ \E v \in Var : Add(v)
  \/ StartSearch
  \/ \E implied \in Implied : Propagate(implied)
  \/ Flush \/ MakeDecision
  \/ \E v \in Var : Assume(v)
  \/ \E analyzed \in Analyzed, uip \in Var, to \in 0..Level(asg) - 1 :
       \E level \in 0..to : Learn(uip, analyzed, to, level)
  \/ \E level \in 0..Level(asg) - 1 : BacktrackTo(level)
  \/ Restart
  \/ \E new \in {Vsids, Chb} : ChangeHeuristic(new)
  \/ SwitchMode \/ StartProbing
  \/ \E v \in Var : Eliminate(v)
  \/ Compact \/ EndProbing \/ Returned

Next == Step /\ UNCHANGED instance

Spec == Init /\ [][Next]_vars

-----------------------------------------------------------------------------
\* The next decision exists and no unassigned active variable is better: none
\* was enqueued later in focused mode, none has a larger score in stable mode
\* (the assertions of CHECK_QUEUE and CHECK_HEAP in decide.c).
DecisionIsBest ==
  LET idx == NextDecision(Here).idx
      Rank(v) == IF stable THEN heaps[heuristic].score[v] ELSE queue.stamps[v]
  IN pc # "input" /\ Free # {} => idx \in Free /\ \A v \in Free : Rank(v) <= Rank(idx)

\* What kissat_check_queue and kissat_check_heap assert: the links hold exactly
\* the active variables, in both directions and by increasing stamps; the search
\* knows the stamp of its variable, and in focused mode all after it are
\* assigned; and each heap is a heap of distinct active variables.
StructuresSound ==
  LET order == Order(queue)
      search == queue.search.idx
  IN /\ ToSet(order) = active /\ Len(order) = Cardinality(active)
     /\ queue.last = IF order = <<>> THEN DISCONNECT ELSE Last(order)
     /\ \A i \in DOMAIN order :
          /\ queue.prev[order[i]] = IF i = 1 THEN DISCONNECT ELSE order[i - 1]
          /\ i > 1 => queue.stamps[order[i - 1]] < queue.stamps[order[i]]
          /\ queue.stamps[order[i]] <= queue.stamp
     /\ IF search = DISCONNECT THEN active \subseteq asg.true
        ELSE search \in active /\ queue.search.stamp = queue.stamps[search]
     /\ pc # "input" /\ ~stable => \A v \in Free : queue.stamps[v] <= queue.search.stamp
     /\ \A h \in Used : LET heap == heaps[h] IN
          /\ IsInjective(heap.stack) /\ ToSet(heap.stack) \subseteq active
          /\ \A i \in 2..Len(heap.stack) : ScoreAt(heap, i \div 2) >= ScoreAt(heap, i)
=============================================================================
