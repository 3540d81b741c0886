---------------------------- MODULE KissatSearch ----------------------------
(***************************************************************************)
(* The search of kissat: kissat_search (search.c) and what it calls:       *)
(* propagation with watched literals, conflict analysis with on-the-fly    *)
(* strengthening, minimisation, learning with chronological backtracking,  *)
(* eager subsumption, restarts, and the reduction of the learned clauses   *)
(* with garbage collection.                                                *)
(*                                                                         *)
(* Heuristics choose among legal steps and are nondeterministic here: the  *)
(* decision variable and its phase, the level a restart keeps, when limits *)
(* trigger, which clauses a reduction drops, which replacement watch the   *)
(* search position finds.  A step is one watch visited by the propagation, *)
(* one round of the analysis loop, one resolution, or one of the cases of  *)
(* the search loop.  Vivification, probing and elimination are not here.   *)
(***************************************************************************)
EXTENDS KissatClauses

CONSTANTS
  Problems,       \* what is solved: records of a formula, which is a sequence of
                  \* clauses of two or more literals, the positions of its redundant
                  \* clauses, and the option chronolevels
  Tier1,          \* the option tier1: the glue up to which a learned clause is kept
  ConflictLimit,  \* limits.conflicts
  ClueueSize,     \* how many learned clauses eager subsumption looks at
  ReduceInt,      \* the conflicts before the first reduction
  RephaseInt      \* the conflicts before the first rephasing

ASSUME LimitsAssumption ==
  /\ {Tier1, ConflictLimit, ClueueSize, ReduceInt, RephaseInt} \subseteq Nat
  /\ \A p \in Problems : p.chronolevels \in Nat /\ p.redundant \subseteq DOMAIN p.formula

VARIABLES
  formula,   \* the formula being solved
  chronolevels, \* the longest backjump before backtracking is chronological
  asg,       \* trail, frames, values, levels, reasons (KissatTrail)
  db,        \* clauses and watches (KissatClauses)
  pc,        \* "propagate", "analyze", "deduce", "search", "forced", "done"
  goal,      \* what the propagation is for: "search", "reduce", "rephase"
  at,        \* the position in the watch list of the literal being propagated
  conflict,  \* the conflict clause: a reference, or the literals of a binary one
  deduced,   \* the state of the derivation of the first UIP clause
  clueue,    \* the queue of recently learned clauses
  conflicts, \* statistics.conflicts
  limits,    \* after how many conflicts the next restart, reduction, rephasing may be
  res        \* the answer: 0, 10 or 20

vars == <<formula, chronolevels, asg, db, pc, goal, at, conflict, deduced, clueue, conflicts, limits, res>>

NoConflict == [ref |-> 0, lits |-> <<>>, redundant |-> FALSE]
LargeConflict(ref) == [ref |-> ref, lits |-> <<>>, redundant |-> db.clauses[ref].redundant]
BinaryConflict(a, b, redundant) == [ref |-> 0, lits |-> <<a, b>>, redundant |-> redundant]
LitsIn(d, c) == IF c.ref = 0 THEN c.lits ELSE d.clauses[c.ref].lits

Nothing == [t |-> 0, learned |-> <<>>, seen |-> {}, open |-> 0, resolved |-> 0]

Init ==
  /\ asg = Empty
  /\ \E p \in Problems : /\ formula = p.formula /\ chronolevels = p.chronolevels
                        /\ db = Original(formula, p.redundant)
  /\ pc = "propagate" /\ goal = "search" /\ at = 1
  /\ conflict = NoConflict /\ deduced = Nothing
  /\ clueue = [recent |-> [i \in 1..ClueueSize |-> 0], next |-> 1]
  /\ conflicts = 0
  /\ limits = [restart |-> 1, reduce |-> ReduceInt, rephase |-> RephaseInt]
  /\ res = 0

-----------------------------------------------------------------------------
(* search_propagate and search_propagate_literal.  The clauses moved to    *)
(* other watch lists are pushed there at once, where the code delays them  *)
(* until the list is done.                                                 *)
NotLit == -asg.trail[asg.propagated + 1]
List   == db.watches[NotLit]
Visited   == List[at]

Visiting == pc = "propagate" /\ asg.propagated < Len(asg.trail) /\ at <= Len(List)
Large    == Visiting /\ Visited.ref # 0 /\ ~IsTrue(asg, Visited.lit)

Conflicting(c) ==
  /\ conflict' = c
  /\ asg' = [asg EXCEPT !.propagated = @ + 1]
  /\ conflicts' = conflicts + 1
  /\ at' = 1
  /\ pc' = IF goal = "search" THEN "analyze" ELSE "forced"
  /\ UNCHANGED <<formula, db, goal, deduced, clueue, limits, res>>

Propagating(s, d, next) ==
  /\ asg' = s /\ db' = d /\ at' = next
  /\ UNCHANGED <<formula, pc, goal, conflict, deduced, clueue, conflicts, limits, res>>

BlockedBy(d, lit) == [d EXCEPT !.watches[NotLit][at].lit = lit]
DropWatch(d) == [d EXCEPT !.watches[NotLit] = RemoveAt(@, at)]

SkipSatisfied ==
  /\ Visiting /\ IsTrue(asg, Visited.lit)
  /\ Propagating(asg, db, at + 1)

\* With a mistake: the conflict of a binary clause is passed over.
VisitBinaryNoConflict ==
  /\ Visiting /\ Visited.ref = 0
  /\ \/ IsFalse(asg, Visited.lit) /\ Propagating(asg, db, at + 1)
     \/ IsFree(asg, Visited.lit) /\ Propagating(AssignBinary(asg, Visited.lit, NotLit), db, at + 1)

VisitBinary ==
  /\ Visiting /\ Visited.ref = 0
  /\ \/ IsFalse(asg, Visited.lit) /\ Conflicting(BinaryConflict(NotLit, Visited.lit, Visited.redundant))
     \/ IsFree(asg, Visited.lit) /\ Propagating(AssignBinary(asg, Visited.lit, NotLit), db, at + 1)

VisitGarbage ==
  /\ Large /\ db.clauses[Visited.ref].garbage
  /\ Propagating(asg, DropWatch(db), at)

\* The literals of the visited clause; the other watched literal; the candidates.
Clause == db.clauses[Visited.ref]
Other  == CHOOSE lit \in {Clause.lits[1], Clause.lits[2]} : lit # NotLit
Candidates == {i \in 3..Len(Clause.lits) : ~IsFalse(asg, Clause.lits[i])}
Searching == Large /\ ~Clause.garbage /\ ~IsTrue(asg, Other)

OtherSatisfied ==
  /\ Large /\ ~Clause.garbage /\ IsTrue(asg, Other)
  /\ Propagating(asg, BlockedBy(db, Other), at + 1)

FindReplacement(r) ==
  LET lits == Clause.lits
      moved == [lits EXCEPT ![1] = Other, ![2] = lits[r], ![r] = NotLit]
  IN /\ Searching /\ r \in Candidates
     /\ IF IsTrue(asg, lits[r])
        THEN Propagating(asg, BlockedBy(db, lits[r]), at + 1)
        ELSE Propagating(asg,
               AddWatch([DropWatch(db) EXCEPT !.clauses[Visited.ref].lits = moved],
                        lits[r], Watch(Visited.ref, Other, FALSE)), at)

NoReplacement ==
  /\ Searching /\ Candidates = {}
  /\ \/ IsFalse(asg, Other) /\ Conflicting(LargeConflict(Visited.ref))
     \/ /\ IsFree(asg, Other)
        /\ Propagating(AssignReference(asg, Other, Visited.ref, Clause.lits), db, at + 1)

NextLiteral ==
  /\ pc = "propagate" /\ asg.propagated < Len(asg.trail) /\ at > Len(List)
  /\ Propagating([asg EXCEPT !.propagated = @ + 1], db, 1)

Propagated ==
  /\ pc = "propagate" /\ asg.propagated = Len(asg.trail)
  /\ pc' = IF goal = "search" THEN "search" ELSE "forced"
  /\ UNCHANGED <<formula, asg, db, goal, at, conflict, deduced, clueue, conflicts, limits, res>>

Propagate ==
  \/ SkipSatisfied \/ VisitBinary \/ VisitGarbage \/ OtherSatisfied
  \/ \E r \in 3..N : FindReplacement(r)
  \/ NoReplacement \/ NextLiteral \/ Propagated

-----------------------------------------------------------------------------
(* kissat_analyze, one round of its loop.  Literals of the highest level   *)
(* in the conflict decide: none above level zero refutes the formula, one  *)
(* makes the conflict a driving clause, more start the derivation.         *)
\* With a mistake: the clause stays in the watch list of the literal it leaves.
RaiseStillWatching(s, d, ref, i) ==
  LET lits == d.clauses[ref].lits
      pos == FirstBest(i, Len(lits), LAMBDA j : LevelOf(s, lits[j]))
      swapped == [d EXCEPT !.clauses[ref].lits = Swap(lits, i, pos)]
  IN IF pos <= 2 THEN swapped
     ELSE AddWatch(swapped, lits[pos], Watch(ref, lits[3 - i], FALSE))

Raise(s, d, ref, i) ==
  LET lits == d.clauses[ref].lits
      pos == FirstBest(i, Len(lits), LAMBDA j : LevelOf(s, lits[j]))
      swapped == [d EXCEPT !.clauses[ref].lits = Swap(lits, i, pos)]
  IN IF pos <= 2 THEN swapped
     ELSE AddWatch(Unwatch(swapped, lits[i], ref), lits[pos],
                   Watch(ref, lits[3 - i], FALSE))

Raised(s, d, c) == IF c.ref = 0 THEN d ELSE Raise(s, Raise(s, d, c.ref, 1), c.ref, 2)

ConflictLevel == Highest(asg, LitsOf(LitsIn(db, conflict)))
OnConflictLevel == {lit \in LitsOf(LitsIn(db, conflict)) : LevelOf(asg, lit) = ConflictLevel}

\* Back to the loop of kissat_search, which propagates first.
Resume(s, d) ==
  /\ asg' = s /\ db' = d
  /\ pc' = "propagate" /\ goal' = "search" /\ at' = 1
  /\ conflict' = NoConflict /\ deduced' = Nothing

RefuteFormula ==
  /\ pc = "analyze" /\ ConflictLevel = 0
  /\ pc' = "done" /\ res' = 20
  /\ UNCHANGED <<formula, asg, db, goal, at, conflict, deduced, clueue, conflicts, limits>>

DriveConflict ==
  /\ pc = "analyze" /\ ConflictLevel > 0
  /\ Cardinality(OnConflictLevel) = 1
  /\ LET back == Backtrack(asg, ConflictLevel - 1)
         d == Raised(asg, db, conflict)
         lits == LitsIn(d, conflict)
         forced == CHOOSE lit \in OnConflictLevel : TRUE
         other == CHOOSE lit \in LitsOf(lits) : lit # forced
     IN Resume(IF conflict.ref = 0 THEN AssignBinary(back, forced, other)
               ELSE AssignReference(back, forced, conflict.ref, lits), d)
  /\ UNCHANGED <<formula, clueue, conflicts, limits, res>>

\* analyze_literal
AnalyzeLiteral(s, a, lit) ==
  IF LevelOf(s, lit) = 0 \/ VarOf(lit) \in a.seen THEN a
  ELSE LET seen == [a EXCEPT !.seen = @ \cup {VarOf(lit)}]
       IN IF LevelOf(s, lit) = Level(s) THEN [seen EXCEPT !.open = @ + 1]
          ELSE [seen EXCEPT !.learned = Append(@, lit)]

AnalyzeAll(s, a, lits) == FoldLeft(LAMBDA b, lit : AnalyzeLiteral(s, b, lit), a, lits)

\* kissat_recompute_glue and kissat_promote_clause
Glue(s, lits) == Cardinality({LevelOf(s, lit) : lit \in lits})
MarkUsed(s, d, ref) == Promote(d, ref, Glue(s, LitsOf(d.clauses[ref].lits)) <= Tier1)

StartDeducing ==
  /\ pc = "analyze" /\ ConflictLevel > 0
  /\ Cardinality(OnConflictLevel) > 1
  /\ LET s == Backtrack(asg, ConflictLevel)
         d == Raised(asg, db, conflict)
     IN /\ asg' = s
        /\ db' = IF conflict.ref = 0 THEN d ELSE MarkUsed(s, d, conflict.ref)
        /\ deduced' = AnalyzeAll(s, [Nothing EXCEPT !.t = Len(s.trail) + 1], LitsIn(d, conflict))
  /\ pc' = "deduce"
  /\ UNCHANGED <<formula, goal, at, conflict, clueue, conflicts, limits, res>>

-----------------------------------------------------------------------------
(* kissat_deduce_first_uip_clause: one resolution with the reason of the   *)
(* last analyzed literal of the current level.                             *)
UipAt ==
  CHOOSE i \in 1..(deduced.t - 1) :
    LET Analyzed(j) == /\ VarOf(asg.trail[j]) \in deduced.seen
                       /\ LevelOf(asg, asg.trail[j]) = Level(asg)
    IN Analyzed(i) /\ \A j \in (i + 1)..(deduced.t - 1) : ~Analyzed(j)
Uip == asg.trail[UipAt]

\* The literals of the reason of a true literal other than itself.
Others(s, d, lit) ==
  LET why == s.reason[VarOf(lit)]
  IN CASE why.kind = "binary" -> <<why.of>>
       [] why.kind = "clause" -> SelectSeq(d.clauses[why.of].lits, LAMBDA l : l # lit)
       [] OTHER -> <<>>

AboveZero(lits) == SelectSeq(lits, LAMBDA lit : LevelOf(asg, lit) > 0)

Resolved ==
  LET a == AnalyzeAll(asg, deduced, Others(asg, db, Uip))
  IN [a EXCEPT !.t = UipAt, !.open = @ - 1, !.resolved = @ + 1]
AntecedentSize == 1 + Len(AboveZero(Others(asg, db, Uip)))
ResolventSize  == Len(Resolved.learned) + Resolved.open

CanResolve  == pc = "deduce" /\ deduced.open > 1
Strengthens == AntecedentSize > 2 /\ ResolventSize < AntecedentSize

\* The clauses after the reason of the literal was marked as used.
Marked == LET why == asg.reason[VarOf(Uip)]
          IN IF why.kind = "clause" THEN MarkUsed(asg, db, why.of) ELSE db

Resolve ==
  /\ CanResolve /\ ~Strengthens
  /\ deduced' = Resolved /\ db' = Marked
  /\ UNCHANGED <<formula, asg, pc, goal, at, conflict, clueue, conflicts, limits, res>>

-----------------------------------------------------------------------------
(* kissat_on_the_fly_strengthen removes the resolved literal from its      *)
(* reason, which then is the conflict to analyze.  A reason left with two  *)
(* literals is replaced by a binary clause.                                *)
StrengthenBinary(d, ref, lit) ==
  LET c == d.clauses[ref]
      kept == AboveZero(SelectSeq(c.lits, LAMBDA l : l # lit))
      added == WatchBinary(d, c.redundant, kept[1], kept[2])
      unwatched == Unwatch(Unwatch(added, c.lits[1], ref), c.lits[2], ref)
  IN [db |-> MarkGarbage(unwatched, {ref}),
      conflict |-> BinaryConflict(kept[1], kept[2], c.redundant)]

StrengthenLarge(d, ref, lit) ==
  LET old == d.clauses[ref].lits
      watched == CHOOSE l \in {old[1], old[2]} : l # lit
      short == <<watched>> \o AboveZero(SubSeq(old, 3, Len(old)))
      lits == Swap(short, 2, FirstBest(2, Len(short), LAMBDA j : LevelOf(asg, short[j])))
      shrunk == Promote([Unwatch(d, lit, ref) EXCEPT !.clauses[ref].lits = lits], ref,
                        Len(lits) - 1 <= Tier1)
      moved == AddWatch(shrunk, lits[2], Watch(ref, watched, FALSE))
      Blocked(w) == IF w.ref = ref THEN [w EXCEPT !.lit = lits[2]] ELSE w
  IN [db |-> [moved EXCEPT !.watches[watched] = [i \in DOMAIN @ |-> Blocked(@[i])]],
      conflict |-> LargeConflict(ref)]

\* kissat_on_the_fly_subsume: the old conflict d is subsumed by the new one c;
\* what takes the place of an irredundant clause becomes irredundant, and may
\* then be the last one.
LastIrredundant(list) == [list EXCEPT ![Len(list)].redundant = FALSE]

\* With a mistake: the clause that takes the place of another stays redundant.
OnTheFlySubsumeRedundant(d, c, old) == MarkGarbage(d, {old.ref})

\* With a mistake: the last irredundant clause stays what it was.
OnTheFlySubsumeAtEnd(d, c, old) ==
  LET marked == MarkGarbage(d, {old.ref})
  IN IF d.clauses[old.ref].redundant \/ ~c.redundant THEN marked
     ELSE IF c.ref # 0 THEN [marked EXCEPT !.clauses[c.ref].redundant = FALSE]
     ELSE [marked EXCEPT !.watches[c.lits[1]] = LastIrredundant(@),
                         !.watches[c.lits[2]] = LastIrredundant(@)]

OnTheFlySubsume(d, c, old) ==
  LET marked == MarkGarbage(d, {old.ref})
  IN IF d.clauses[old.ref].redundant \/ ~c.redundant THEN marked
     ELSE IF c.ref # 0 THEN [marked EXCEPT !.clauses[c.ref].redundant = FALSE,
                                           !.last = Max({@, c.ref})]
     ELSE [marked EXCEPT !.watches[c.lits[1]] = LastIrredundant(@),
                         !.watches[c.lits[2]] = LastIrredundant(@)]

Strengthen ==
  /\ CanResolve /\ Strengthens
  /\ LET ref == asg.reason[VarOf(Uip)].of
         out == IF AntecedentSize = 3 THEN StrengthenBinary(Marked, ref, Uip)
                ELSE StrengthenLarge(Marked, ref, Uip)
         subsumes == /\ Resolved.resolved = 1
                     /\ ResolventSize < Len(AboveZero(LitsIn(db, conflict)))
     IN /\ db' = IF subsumes THEN OnTheFlySubsume(out.db, out.conflict, conflict) ELSE out.db
        /\ conflict' = out.conflict
  /\ conflicts' = conflicts + 1
  /\ deduced' = Nothing
  /\ pc' = "analyze"
  /\ UNCHANGED <<formula, asg, goal, at, clueue, limits, res>>

-----------------------------------------------------------------------------
(* kissat_minimize_clause: a literal is removed if its reason is implied   *)
(* by the other literals of the clause.  The recursion over the reasons is *)
(* a pass over the trail here, which has the reasons of a literal before   *)
(* it; the bound on its depth is left out.                                 *)
Used(level) == Cardinality({i \in DOMAIN deduced.learned :
                              LevelOf(asg, deduced.learned[i]) = level})

\* With a mistake: a decision has no literals to be implied by.
RemovableDecision(implied, lit) ==
  /\ Used(LevelOf(asg, lit)) > 1
  /\ LitsOf(Others(asg, db, -lit)) \subseteq implied

Removable(implied, lit) ==
  /\ asg.reason[VarOf(lit)].kind \in {"binary", "clause"}
  /\ Used(LevelOf(asg, lit)) > 1
  /\ LitsOf(Others(asg, db, -lit)) \subseteq implied

Implied ==
  FoldLeft(LAMBDA implied, lit :
             IF Removable(implied, -lit) THEN implied \cup {-lit} ELSE implied,
           {-lit : lit \in Fixed(asg)} \cup LitsOf(deduced.learned) \cup {-Uip},
           asg.trail)

Minimized == SelectSeq(deduced.learned, LAMBDA lit : ~Removable(Implied, lit))

-----------------------------------------------------------------------------
(* kissat_learn_clause.  The clause is driving after backtracking to the   *)
(* level of its second highest literal, or, if that jump is longer than    *)
(* chronolevels, to the level below the current one.                       *)
NewLevel(jump) ==
  LET back == Level(asg) - 1
  IN IF back - jump > chronolevels THEN back ELSE jump

CanLearn == pc = "deduce" /\ deduced.open = 1

LearnUnit ==
  /\ CanLearn /\ Minimized = <<>>
  /\ Resume(AssignUnit(Backtrack(asg, NewLevel(0)), -Uip), db)
  /\ UNCHANGED <<formula, clueue, conflicts, limits, res>>

LearnBinary ==
  /\ CanLearn /\ Len(Minimized) = 1
  /\ LET other == Minimized[1]
         s == AssignBinary(Backtrack(asg, NewLevel(LevelOf(asg, other))), -Uip, other)
         d == NewClause(db, TRUE, FALSE, <<-Uip, other>>)
         subsumed == Subsumed(d, clueue.recent, <<-Uip, other>>)
         pruned == MarkGarbage(d, subsumed)
     IN /\ Resume(s, pruned)
        /\ clueue' = [clueue EXCEPT !.recent = Pruned(pruned, @)]
  /\ UNCHANGED <<formula, conflicts, limits, res>>

LearnReference ==
  /\ CanLearn /\ Len(Minimized) > 1
  /\ LET jump == FirstBest(1, Len(Minimized), LAMBDA i : LevelOf(asg, Minimized[i]))
         lits == <<-Uip>> \o Swap(Minimized, 1, jump)
         ref == NextRef(db)
         d == NewClause(db, TRUE, Glue(asg, LitsOf(deduced.learned)) <= Tier1, lits)
         s == AssignReference(Backtrack(asg, NewLevel(LevelOf(asg, lits[2]))), -Uip, ref, lits)
         subsumed == Subsumed(d, clueue.recent, lits)
         pruned == MarkGarbage(d, subsumed)
         recent == Pruned(pruned, clueue.recent)
     IN /\ Resume(s, pruned)
        /\ clueue' = IF ClueueSize = 0 THEN clueue
                     ELSE [recent |-> [recent EXCEPT ![clueue.next] = ref],
                           next |-> (clueue.next % ClueueSize) + 1]
  /\ UNCHANGED <<formula, conflicts, limits, res>>

Analyze ==
  \/ RefuteFormula \/ DriveConflict \/ StartDeducing
  \/ Resolve \/ Strengthen
  \/ LearnUnit \/ LearnBinary \/ LearnReference

-----------------------------------------------------------------------------
(* The cases of the loop of kissat_search after a propagation without      *)
(* conflict, in their order of priority.                                   *)
\* With a mistake: the limits are looked at before what was learned is propagated.
LookingEarly == pc = "search" \/ (pc = "propagate" /\ goal = "search" /\ at = 1)

Looking == pc = "search"
AllAssigned == Unassigned(asg) = {}
Continuing == Looking /\ ~AllAssigned /\ conflicts < ConflictLimit

Satisfied ==
  /\ Looking /\ AllAssigned
  /\ pc' = "done" /\ res' = 10
  /\ UNCHANGED <<formula, asg, db, goal, at, conflict, deduced, clueue, conflicts, limits>>

\* TERMINATED, at any time by another thread, or the conflict limit is hit.
Stop ==
  /\ Looking /\ ~AllAssigned
  /\ pc' = "done"
  /\ UNCHANGED <<formula, asg, db, goal, at, conflict, deduced, clueue, conflicts, limits, res>>

\* kissat_reducing and the first part of kissat_reduce: units are flushed
\* after a restart, unless there are none.
Redundant(d) == \/ \E r \in DOMAIN d.clauses : d.clauses[r].redundant /\ ~d.clauses[r].garbage
                \/ \E lit \in Lit : \E i \in DOMAIN d.watches[lit] : d.watches[lit][i].redundant

ReasonRefs(s) == {s.reason[v].of : v \in {w \in Var : s.reason[w].kind = "clause"}}

\* With a mistake: reasons are not protected.
ReducibleReasons(s, d) ==
  {r \in Reducibles(d, DOMAIN d.clauses) : r >= d.first /\ ~d.clauses[r].garbage}

\* collect_reducibles.  Which clauses were used of late is left open.
Reducible(s, d) ==
  {r \in Reducibles(d, DOMAIN d.clauses) :
     r >= d.first /\ ~d.clauses[r].garbage /\ r \notin ReasonRefs(s)}

\* The rest of kissat_reduce: collect_reducibles goes on from first_reducible to
\* the first clause that is, mark_less_useful_clauses_as_garbage drops some, and
\* the arena is collected from where the search for them began.
Collect(s) ==
  /\ \/ /\ asg' = s /\ UNCHANGED clueue
        /\ db' = [db EXCEPT !.first =
                    Least({r \in Reducibles(db, DOMAIN db.clauses) : r >= @})]
     \/ /\ Reducible(s, db) # {}
        /\ \E useless \in SUBSET Reducible(s, db) :
             LET marked == MarkGarbage(db, useless)
             IN /\ db' = SparseCollect(s, marked, db.first)
                /\ asg' = CollectReasons(s, marked, db.first)
        /\ clueue' = [clueue EXCEPT !.recent = [i \in DOMAIN @ |-> 0]]
  /\ limits' = [limits EXCEPT !.reduce = conflicts + 1]
  /\ pc' = "propagate" /\ goal' = "search" /\ at' = 1 /\ conflict' = NoConflict
  /\ UNCHANGED <<formula, deduced, conflicts, res>>

Restarting(s, what) ==
  /\ asg' = s
  /\ pc' = "propagate" /\ goal' = what /\ at' = 1
  /\ UNCHANGED <<formula, db, conflict, deduced, clueue, conflicts, res>>

Reduce ==
  /\ Continuing /\ conflicts >= limits.reduce /\ Redundant(db)
  /\ IF db.first # 0 /\ Unflushed(asg)
     THEN Restarting(Backtrack(asg, 0), "reduce") /\ UNCHANGED limits
     ELSE Collect(asg)

\* With a mistake: the limit for the next restart stays.
RestartAtOnce ==
  /\ Continuing /\ Level(asg) > 0 /\ conflicts >= limits.restart
  /\ \E level \in 0..Level(asg) : Restarting(Backtrack(asg, level), "search")
  /\ UNCHANGED limits

\* kissat_restart keeps the trail up to a level that reuse_trail computes.
Restart ==
  /\ Continuing /\ Level(asg) > 0 /\ conflicts >= limits.restart
  /\ \E level \in 0..Level(asg) : Restarting(Backtrack(asg, level), "search")
  /\ limits' = [limits EXCEPT !.restart = conflicts + 1]

\* kissat_rephase: kissat_backtrack_propagate_and_flush_trail, then new phases.
Rephase ==
  /\ Continuing /\ conflicts > limits.rephase
  /\ Restarting(Backtrack(asg, 0), "rephase")
  /\ limits' = [limits EXCEPT !.rephase = conflicts + 1]

\* Back from the propagation a reduction or a rephasing forced: its conflict
\* is not looked at.
Flushed == IF Unflushed(asg) THEN FlushTrail(asg) ELSE asg

ForcedReduce == pc = "forced" /\ goal = "reduce" /\ Collect(Flushed)

ForcedRephase ==
  /\ pc = "forced" /\ goal = "rephase"
  /\ Resume(Flushed, db)
  /\ UNCHANGED <<formula, clueue, conflicts, limits, res>>

Flush ==
  /\ Continuing /\ Level(asg) = 0 /\ Unflushed(asg)
  /\ Resume(FlushTrail(asg), db)
  /\ UNCHANGED <<formula, clueue, conflicts, limits, res>>

DecideNext ==
  /\ Continuing /\ ~(Level(asg) = 0 /\ Unflushed(asg))
  /\ \E lit \in Lit : IsFree(asg, lit) /\ Resume(Decide(asg, lit), db)
  /\ UNCHANGED <<formula, clueue, conflicts, limits, res>>

Step ==
  \/ Propagate \/ Analyze
  \/ Satisfied \/ Reduce \/ Restart \/ Rephase \/ ForcedReduce \/ ForcedRephase
  \/ Flush \/ DecideNext

\* kissat_search has returned.
Returned == pc = "done" /\ UNCHANGED vars

Next == (Step \/ Stop \/ Returned) /\ UNCHANGED chronolevels

Spec == Init /\ [][Next]_vars

\* WF_vars(Next), for Next has a step to take unless the search is done.
FairSpec == Spec /\ ([]<>(pc = "done") \/ []<><<Next>>_vars)

-----------------------------------------------------------------------------
Assignments == {LitsOf(a) : a \in {b \in [Var -> Lit] : \A v \in Var : VarOf(b[v]) = v}}
Satisfies(model, lits) == LitsOf(lits) \cap model # {}
ModelsOf[f \in {p.formula : p \in Problems}] ==
  {m \in Assignments : \A i \in DOMAIN f : Satisfies(m, f[i])}

LiveClauses == {r \in DOMAIN db.clauses : ~db.clauses[r].garbage}

(* Every clause the solver keeps and every unit it has derived holds in    *)
(* all models of the formula: resolution, minimisation, strengthening and  *)
(* the removal of false literals are sound.                                *)
ClausesImplied ==
  \A m \in ModelsOf[formula] :
    /\ \A r \in LiveClauses : Satisfies(m, db.clauses[r].lits)
    /\ \A lit \in Lit : \A i \in DOMAIN db.watches[lit] :
         db.watches[lit][i].ref = 0 => lit \in m \/ db.watches[lit][i].lit \in m
    /\ Fixed(asg) \subseteq m

(* The irredundant clauses and the units alone still say all the formula   *)
(* says: what reductions, subsumption and collections drop was implied.    *)
NothingLost ==
  \A m \in Assignments \ ModelsOf[formula] :
    \/ \E r \in LiveClauses : ~db.clauses[r].redundant /\ ~Satisfies(m, db.clauses[r].lits)
    \/ \E lit \in Lit \ m : \E i \in DOMAIN db.watches[lit] :
         LET w == db.watches[lit][i]
         IN w.ref = 0 /\ ~w.redundant /\ w.lit \notin m
    \/ ~(Fixed(asg) \subseteq m)

(* What walks over the arena stops behind last_irredundant or begins at    *)
(* first_reducible: no irredundant clause is behind the one, and no clause *)
(* that a reduction may drop is before the other.                          *)
NoneSkipped ==
  /\ db.last # 0 => \A r \in Irredundants(db, LiveClauses) : r <= db.last
  /\ \A r \in Reducibles(db, LiveClauses) : db.first \in 1..r
  /\ {db.first, db.last} \subseteq DOMAIN db.clauses \cup {0}

(* The answer 10 is given with a model, 20 only for a formula without one. *)
AnswerRight ==
  /\ res = 10 => asg.true \in ModelsOf[formula]
  /\ res = 20 => ModelsOf[formula] = {}

(* While the solver searches, the reason of an assigned literal is a live  *)
(* clause that watches it, whose other literals are false, were assigned   *)
(* before it, and have its level as their highest.                         *)
Position(lit) == IF lit \in LitsOf(asg.trail) THEN CHOOSE i \in DOMAIN asg.trail : asg.trail[i] = lit
                 ELSE 0
ReasonsHold ==
  pc \in {"propagate", "search", "forced"} =>
    \A lit \in {l \in asg.true : asg.reason[VarOf(l)].kind \in {"binary", "clause"}} :
      LET why == asg.reason[VarOf(lit)]
      IN /\ why.kind = "clause" =>
              /\ why.of \in LiveClauses
              /\ lit \in LitsOf(SubSeq(db.clauses[why.of].lits, 1, 2))
         /\ LET others == LitsOf(Others(asg, db, lit))
            IN /\ \A other \in others : IsFalse(asg, other) /\ Position(-other) < Position(lit)
               /\ LevelOf(asg, lit) = Highest(asg, others)

(* A large clause that no unit satisfies is watched by its first two       *)
(* literals, once each, and a binary clause is in the lists of both its    *)
(* literals as often and with the same flag.                               *)
Watches(lit, w) == Cardinality({i \in DOMAIN db.watches[lit] : db.watches[lit][i] = w})
WatchedTwice ==
  /\ \A r \in LiveClauses :
       LET lits == db.clauses[r].lits
       IN LitsOf(lits) \cap Fixed(asg) = {} =>
            \A lit \in Lit : Cardinality({i \in DOMAIN db.watches[lit] : db.watches[lit][i].ref = r})
                               = IF lit \in {lits[1], lits[2]} THEN 1 ELSE 0
  /\ \A lit \in Lit : \A i \in DOMAIN db.watches[lit] :
       LET w == db.watches[lit][i]
       IN w.ref = 0 => Watches(lit, w) = Watches(w.lit, Watch(0, lit, w.redundant))

(* When propagation ends without conflict no clause is false, and none is  *)
(* after the propagation that a reduction or a rephasing forces, whose     *)
(* conflict would be lost.                                                 *)
NoMissedConflict ==
  pc = "search" =>
    /\ \A r \in LiveClauses : \E lit \in LitsOf(db.clauses[r].lits) : ~IsFalse(asg, lit)
    /\ \A lit \in Lit : \A i \in DOMAIN db.watches[lit] :
         LET w == db.watches[lit][i]
         IN w.ref = 0 => ~IsFalse(asg, lit) \/ ~IsFalse(asg, w.lit)

(* ... and with backjumps alone, which keep the levels of the trail sorted, *)
(* no clause is left with one unassigned and only false literals.          *)
NoMissedUnit ==
  pc = "search" /\ chronolevels >= N =>
    \A r \in LiveClauses :
      LET lits == LitsOf(db.clauses[r].lits)
      IN (\A lit \in lits : ~IsTrue(asg, lit)) => Cardinality({lit \in lits : IsFree(asg, lit)}) > 1

(* The search ends.                                                        *)
Terminates == <>(pc = "done")
=============================================================================
