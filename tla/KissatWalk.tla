----------------------------- MODULE KissatWalk -----------------------------
(***************************************************************************)
(* The local search of kissat (walk.c): from the saved phases it flips     *)
(* literals of falsified clauses, keeps count of the satisfied literals of *)
(* every irredundant clause, and leaves the best assignment it met in the  *)
(* saved phases.  Flips go on a short trail, so that the best assignment   *)
(* is seldom copied whole.                                                 *)
(*                                                                         *)
(* Which clause and literal are picked, and when the search is cut off, is *)
(* nondeterministic: the scores only weigh the choice.  Target phases play *)
(* no part: they are cleared before a rephasing walks and not yet set when *)
(* the search begins.                                                      *)
(***************************************************************************)
EXTENDS Integers, SequencesExt

CONSTANTS
  N,         \* VARS
  Instances, \* what is walked on: records of the irredundant clauses, the literals
             \* fixed at level 0, the saved and best phases, INITIAL_PHASE, and
             \* whether the walk is the initial one
  INVALID_BEST

Var == 1..N
VarOf(lit) == IF lit < 0 THEN -lit ELSE lit
Lits == Var \cup {-v : v \in Var}

ASSUME WalkAssumption ==
  /\ N \in Nat \ {0} /\ INVALID_BEST \notin Nat
  /\ Instances \subseteq
       [clauses : Seq(Seq(Lits)), fixed : SUBSET Lits, saved : [Var -> {-1, 0, 1}],
        best : [Var -> {-1, 0, 1}], phase : {-1, 1}, initially : BOOLEAN]
  \* Level 0 is propagated: a clause is satisfied or keeps two literals.
  /\ \A i \in Instances : \A c \in DOMAIN i.clauses : LET lits == ToSet(i.clauses[c]) IN
       lits \cap i.fixed # {} \/ \E a, b \in lits : a # b /\ {-a, -b} \cap i.fixed = {}

VARIABLES
  instance, pc,
  garbage,  \* the clauses marked as garbage because level 0 satisfies them
  saved,    \* the saved phases: 1, -1, or 0 for none
  values,   \* the literals true in the assignment of the walker
  refs,     \* the clauses that are counted; a counter is known by its position here
  counters, \* for each its number of true literals and its place in unsat
  unsat,    \* the counters of the falsified clauses
  trail,    \* the literals flipped since saved was written, those up to best first
  best,     \* how much of the trail leads to the best assignment, or INVALID_BEST
  minimum, initial,
  atBest,   \* history: the assignment that reached minimum
  reflipped \* history: variables flipped before best and again after it

vars == <<instance, pc, garbage, saved, values, refs, counters, unsat, trail, best,
          minimum, initial, atBest, reflipped>>

Clause(i) == ToSet(instance.clauses[i])
Unfixed == {v \in Var : {v, -v} \cap instance.fixed = {}}
TrueIn(i) == Cardinality(Clause(i) \cap values)
Ascending(S) ==
  [n \in 1..Cardinality(S) |-> CHOOSE x \in S : Cardinality({y \in S : y < x}) = n - 1]

Init ==
  /\ instance \in Instances /\ saved = instance.saved
  /\ pc = "start" /\ garbage = {} /\ values = {} /\ refs = <<>> /\ counters = <<>>
  /\ unsat = <<>> /\ trail = <<>> /\ best = 0 /\ minimum = 0 /\ initial = 0
  /\ atBest = {} /\ reflipped = {}

-----------------------------------------------------------------------------
\* import_decision_phases.
Phase(v) == IF saved[v] # 0 THEN saved[v] ELSE instance.phase
Imported == {v * Phase(v) : v \in Unfixed}

\* connect_binary_counters and connect_large_counters: binary clauses come first.
Binaries == {i \in DOMAIN instance.clauses :
               Len(instance.clauses[i]) = 2 /\ \A lit \in Clause(i) : VarOf(lit) \in Unfixed}
Larges == {i \in DOMAIN instance.clauses : Len(instance.clauses[i]) > 2}
Satisfied == {i \in Larges : Clause(i) \cap instance.fixed # {}}

InitWalker ==
  LET connected == Ascending(Binaries) \o Ascending(Larges \ Satisfied)
      Count(r) == Cardinality(Clause(connected[r]) \cap Imported)
      falsified == Ascending({r \in DOMAIN connected : Count(r) = 0})
  IN /\ pc = "start" /\ pc' = "walk"
     /\ garbage' = Satisfied
     /\ values' = Imported /\ atBest' = Imported
     /\ refs' = connected /\ unsat' = falsified
     /\ counters' = [r \in DOMAIN connected |->
                      [count |-> Count(r),
                       pos |-> IF Count(r) = 0 THEN CHOOSE i \in DOMAIN falsified : falsified[i] = r
                                               ELSE 0]]
     /\ minimum' = Len(falsified) /\ initial' = Len(falsified)
     /\ UNCHANGED <<instance, saved, trail, best, reflipped>>

-----------------------------------------------------------------------------
\* The counters and the list of falsified clauses together; a clause that is
\* satisfied keeps a position nobody reads, here 0.
Push(w, r) == [counters |-> [w.counters EXCEPT ![r].pos = Len(w.unsat) + 1],
               unsat |-> Append(w.unsat, r)]

\* With a mistake: the clause that moves to the hole keeps its old position.
PopKeepsPosition(w, r) ==
  LET pos == w.counters[r].pos
  IN [counters |-> [w.counters EXCEPT ![r].pos = 0],
      unsat |-> Front([w.unsat EXCEPT ![pos] = Last(w.unsat)])]

\* pop_unsat.
Pop(w, r) ==
  LET pos == w.counters[r].pos
      other == Last(w.unsat)
  IN [counters |-> [w.counters EXCEPT ![other].pos = pos, ![r].pos = 0],
      unsat |-> Front([w.unsat EXCEPT ![pos] = other])]

\* make_clauses, then break_clauses.
Occurrences(lit) == Ascending({r \in DOMAIN refs : lit \in Clause(refs[r])})
Make(w, r) ==
  LET more == [counters |-> [w.counters EXCEPT ![r].count = @ + 1], unsat |-> w.unsat]
  IN IF w.counters[r].count = 0 THEN Pop(more, r) ELSE more
Break(w, r) ==
  LET less == [counters |-> [w.counters EXCEPT ![r].count = @ - 1], unsat |-> w.unsat]
  IN IF less.counters[r].count = 0 THEN Push(less, r) ELSE less
Made(w, seq) ==
  LET f[k \in 0..Len(seq)] == IF k = 0 THEN w ELSE Make(f[k - 1], seq[k])
  IN f[Len(seq)]
Broken(w, seq) ==
  LET f[k \in 0..Len(seq)] == IF k = 0 THEN w ELSE Break(f[k - 1], seq[k])
  IN f[Len(seq)]
Flipped(lit) ==
  Broken(Made([counters |-> counters, unsat |-> unsat], Occurrences(lit)), Occurrences(-lit))

-----------------------------------------------------------------------------
\* save_walker_trail: the variables flipped up to best get the values they have
\* now, which are those of the best assignment unless they were flipped again.
Saved(now) ==
  LET flips == {VarOf(lit) : lit \in ToSet(SubSeq(trail, 1, best))}
  IN [v \in Var |-> IF v \notin flips THEN saved[v] ELSE IF v \in now THEN 1 ELSE -1]

\* save_all_values.
AllSaved(now) == [v \in Var |-> IF v \in now THEN 1 ELSE IF -v \in now THEN -1 ELSE saved[v]]

Limit == N \div 4 + 1

\* With a mistake: the best part of a full trail is shifted out without being saved.
PushFlippedUnsaved(lit, now) ==
  CASE best = INVALID_BEST -> [saved |-> saved, trail |-> trail, best |-> best]
    [] best # INVALID_BEST /\ Len(trail) < Limit ->
         [saved |-> saved, trail |-> Append(trail, lit), best |-> best]
    [] best # INVALID_BEST /\ Len(trail) >= Limit /\ best > 0 ->
         [saved |-> saved, best |-> 0,
          trail |-> Append(SubSeq(trail, best + 1, Len(trail)), lit)]
    [] OTHER -> [saved |-> saved, trail |-> <<>>, best |-> INVALID_BEST]

\* push_flipped.
PushFlipped(lit, now) ==
  CASE best = INVALID_BEST -> [saved |-> saved, trail |-> trail, best |-> best]
    [] best # INVALID_BEST /\ Len(trail) < Limit ->
         [saved |-> saved, trail |-> Append(trail, lit), best |-> best]
    [] best # INVALID_BEST /\ Len(trail) >= Limit /\ best > 0 ->
         [saved |-> Saved(now), best |-> 0,
          trail |-> Append(SubSeq(trail, best + 1, Len(trail)), lit)]
    [] OTHER -> [saved |-> saved, trail |-> <<>>, best |-> INVALID_BEST]

\* local_search_step.  A picked literal is false, as all of its clause are.
Step(r, lit) ==
  LET now == (values \ {-lit}) \cup {lit}
      w == Flipped(lit)
      pushed == PushFlipped(lit, now)
      better == Len(w.unsat) < minimum
      again == IF best # INVALID_BEST /\ VarOf(lit) \in {VarOf(f) : f \in ToSet(SubSeq(trail, 1, best))}
               THEN {VarOf(lit)} ELSE {}
  IN /\ pc = "walk" /\ minimum > 0
     /\ r \in ToSet(unsat) /\ lit \in Clause(refs[r]) /\ VarOf(lit) \in Unfixed
     /\ values' = now /\ counters' = w.counters /\ unsat' = w.unsat
     /\ trail' = pushed.trail
     /\ IF better
        THEN /\ minimum' = Len(w.unsat) /\ atBest' = now /\ reflipped' = {}
             /\ IF pushed.best = INVALID_BEST THEN saved' = AllSaved(now) /\ best' = 0
                ELSE saved' = pushed.saved /\ best' = Len(pushed.trail)
        ELSE /\ saved' = pushed.saved /\ best' = pushed.best
             /\ reflipped' = reflipped \cup again
             /\ UNCHANGED <<minimum, atBest>>
     /\ UNCHANGED <<instance, pc, garbage, refs, initial>>

\* save_final_minimum, after the rounds or when the search is cut off; without
\* improvement rephase_walking takes the best phases.
Finish ==
  /\ pc = "walk" /\ pc' = "done"
  /\ saved' =
       IF minimum < initial
       THEN IF best \in {0, INVALID_BEST} THEN saved ELSE Saved(values)
       ELSE [v \in Var |-> IF ~instance.initially /\ instance.best[v] # 0
                           THEN instance.best[v] ELSE saved[v]]
  /\ UNCHANGED <<instance, garbage, values, refs, counters, unsat, trail, best, minimum,
                 initial, atBest, reflipped>>

Returned == pc = "done" /\ UNCHANGED vars

Next ==
  \/ InitWalker
  \/ \E r \in DOMAIN refs : \E lit \in Clause(refs[r]) : Step(r, lit)
  \/ Finish
  \/ Returned

Spec == Init /\ [][Next]_vars

-----------------------------------------------------------------------------
\* The counters say how many literals of each clause are true, unsat lists the
\* falsified clauses once each, and each of them knows its place, through all the
\* swaps of pop_unsat.
CountersExact ==
  pc = "walk" =>
    /\ \A r \in DOMAIN refs : counters[r].count = TrueIn(refs[r])
    /\ ToSet(unsat) = {r \in DOMAIN refs : counters[r].count = 0}
    /\ \A i \in DOMAIN unsat : counters[unsat[i]].pos = i

\* The walk leaves in the saved phases the assignment that falsified minimum
\* clauses, except for variables flipped again after it while their flip was
\* still on the trail: save_walker_trail reads their later values.  Without
\* improvement the phases are not touched.
SavedIsBest ==
  pc = "done" =>
    IF minimum = initial
    THEN saved = [v \in Var |-> IF ~instance.initially /\ instance.best[v] # 0
                                THEN instance.best[v] ELSE instance.saved[v]]
    ELSE /\ Cardinality({r \in DOMAIN refs : Clause(refs[r]) \cap atBest = {}}) = minimum
         /\ \A v \in Unfixed \ reflipped : v * Phase(v) \in atBest
         /\ \A v \in Var \ Unfixed : saved[v] = instance.saved[v]
=============================================================================
