----------------------------- MODULE KissatTrail -----------------------------
(***************************************************************************)
(* The assignment of kissat: the trail, the decision frames, and for every *)
(* assigned variable its level and its reason.  The operators are the      *)
(* functions of assign.c, backtrack.c, frames.c and decide.c that change   *)
(* it.                                                                     *)
(*                                                                         *)
(* A literal is v or -v for a variable v \in 1..N, and NOT (lit) is -lit.  *)
(* An assignment state is a record:                                        *)
(*   trail       the literals in the order they were assigned              *)
(*   frames      frames[l]: the length of the trail when level l was opened *)
(*   true        the literals with value 1 (their negations have value -1)  *)
(*   level       the level of each assigned variable                       *)
(*   reason      the reason of each assigned variable                      *)
(*   propagated  how many literals of the trail have been propagated       *)
(* The code leaves the level and the reason of an unassigned variable as   *)
(* they were and never reads them; here they are reset.                    *)
(***************************************************************************)
EXTENDS Integers, FiniteSets, SequencesExt

CONSTANT N  \* the number of variables

ASSUME VariablesAssumption == N \in Nat \ {0}

Var == 1..N
Lit == Var \cup {-v : v \in Var}
VarOf(lit) == IF lit < 0 THEN -lit ELSE lit
LitsOf(seq) == {seq[i] : i \in DOMAIN seq}

\* Reasons: UNIT, DECISION, the other literal of a binary clause, or a reference.
Reason(kind, of) == [kind |-> kind, of |-> of]
NoReason == Reason("none", 0)
Unit     == Reason("unit", 0)
Decision == Reason("decision", 0)

Empty == [trail |-> <<>>, frames |-> <<>>, true |-> {}, propagated |-> 0,
          level |-> [v \in Var |-> 0], reason |-> [v \in Var |-> NoReason]]

IsTrue(s, lit)  == lit \in s.true
IsFalse(s, lit) == -lit \in s.true
IsFree(s, lit)  == lit \notin s.true /\ -lit \notin s.true
Unassigned(s)   == {v \in Var : IsFree(s, v)}
LevelOf(s, lit) == s.level[VarOf(lit)]
Level(s)        == Len(s.frames)
Fixed(s)        == {lit \in s.true : LevelOf(s, lit) = 0}
Unflushed(s)    == \E i \in DOMAIN s.trail : LevelOf(s, s.trail[i]) = 0

\* The highest level among some literals, 0 for none.
Highest(s, lits) ==
  CHOOSE l \in 0..N : /\ l = 0 \/ \E lit \in lits : LevelOf(s, lit) = l
                      /\ \A lit \in lits : LevelOf(s, lit) <= l

-----------------------------------------------------------------------------
\* kissat_assign: a literal assigned at level 0 is a unit whatever implied it.
Assign(s, lit, level, reason) ==
  [s EXCEPT !.trail = Append(@, lit),
            !.true = @ \cup {lit},
            !.level[VarOf(lit)] = level,
            !.reason[VarOf(lit)] = IF level = 0 THEN Unit ELSE reason]

AssignUnit(s, lit) == Assign(s, lit, 0, Unit)

AssignBinary(s, lit, other) ==
  Assign(s, lit, LevelOf(s, other), Reason("binary", other))

\* kissat_assign_reference: the level is computed, it need not be the current one.
AssignReference(s, lit, ref, lits) ==
  Assign(s, lit, Highest(s, LitsOf(lits) \ {lit}), Reason("clause", ref))

\* kissat_decide with kissat_push_frame and kissat_assign_decision.
Decide(s, lit) ==
  LET opened == [s EXCEPT !.frames = Append(@, Len(s.trail))]
  IN Assign(opened, lit, Level(opened), Decision)

\* kissat_backtrack: literals of a lower level that were assigned late stay on
\* the trail, moved down, and are propagated again.
Backtrack(s, level) ==
  IF level = Level(s) THEN s
  ELSE LET size == s.frames[level + 1]
           late == SubSeq(s.trail, size + 1, Len(s.trail))
           Stays(lit) == LevelOf(s, lit) <= level
           Keep(trail, lit) == IF Stays(lit) THEN Append(trail, lit) ELSE trail
           gone == {lit \in LitsOf(late) : ~Stays(lit)}
           goneVar == {VarOf(lit) : lit \in gone}
       IN [trail |-> FoldLeft(Keep, SubSeq(s.trail, 1, size), late),
           frames |-> SubSeq(s.frames, 1, level),
           true |-> s.true \ gone,
           level |-> [v \in Var |-> IF v \in goneVar THEN 0 ELSE s.level[v]],
           reason |-> [v \in Var |-> IF v \in goneVar THEN NoReason ELSE s.reason[v]],
           propagated |-> size]

\* kissat_flush_trail: the units leave the trail and keep their values.
FlushTrail(s) == [s EXCEPT !.trail = <<>>, !.propagated = 0]

=============================================================================
