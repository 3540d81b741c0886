---------------------------- MODULE MCKissatWalk ----------------------------
(* Formulas over four variables, so that the trail holds two flips.        *)
EXTENDS KissatWalk

\* Five clauses that each assignment falsifies at least one of.
Hard == << <<1, 2>>, <<-1, 2, 3>>, <<-2, 3>>, <<-2, -3, 4>>, <<-3, -4>>, <<1, -3, 4>>, <<-2, -4>> >>

\* Clauses that share literals, so that one flip makes and breaks several.
Dense == << <<1, 2, 3>>, <<1, 2, 4>>, <<1, 3, 4>>, <<-1, -2>>, <<-1, -3>>, <<-1, -4>>, <<2, 3, 4>> >>

\* Variable 4 is fixed: clauses it satisfies and literals it falsifies.
WithUnit == << <<4, 1>>, <<-4, 2, 3>>, <<4, 2, 3>>, <<1, -2>>, <<-1, -3>>, <<2, -3>>, <<1, 2, -4, 3>> >>

Phases == [Var -> {-1, 0, 1}]
None == [v \in Var |-> 0]
Walk(clauses, fixed, phases, initially) ==
  [clauses |-> clauses, fixed |-> fixed, saved |-> phases, phase |-> 1,
   best |-> [v \in Var |-> IF v = 1 THEN 0 ELSE -1], initially |-> initially]

TestInstances ==
  {Walk(f, {}, p, FALSE) : f \in {Hard, Dense}, p \in [Var -> {-1, 1}]}
    \cup {Walk(WithUnit, {4}, p, TRUE) : p \in [Var -> {-1, 0, 1}]}
=============================================================================
