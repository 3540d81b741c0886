--------------------------- MODULE MCKissatSearch ---------------------------
(* Formulas over four variables for KissatSearch, small enough to try      *)
(* every decision and rich enough to reach every case of the analysis.     *)
EXTENDS KissatSearch

WithModels ==
  << <<-4, 1>>, <<-4, -2, 3>>, <<3, 4, -2>>, <<-4, -2, -1>>, <<2, 4, -1>>, <<-2, -3>>,
     <<-3, -4, 2, 1>>, <<4, 1, -3>>, <<2, -1, -4, -3>>, <<-4, -1, 2>>, <<1, 3, -2>> >>

WithoutModels ==
  << <<3, -1, 2>>, <<3, -2>>, <<-2, 4, -3>>, <<4, -3>>, <<-3, -4, -1>>, <<-3, 2, 1>>,
     <<-2, -4>>, <<4, 3, -1>>, <<1, 2, 3>>, <<-1, -2, 4>>, <<2, -1, -3>>, <<-4, -3, 1>> >>

\* A learned clause subsumes an original one.
Subsuming == << <<3, -4, 2>>, <<1, -2, -4>>, <<-3, 1, -4>>, <<-2, 4>>, <<-1, -3>> >>

\* A learned unit leads to a conflict of level 0.
Opposed == << <<1, 2>>, <<-2, 1>>, <<-1, 3, 4>>, <<-1, -3>>, <<3, -4>> >>

\* The clauses a reduction keeps are watched anew by literals that are assigned.
Rewatched == << <<1, 2, 4>>, <<2, 3, -4>>, <<-3, -4>>, <<-1, -3>> >>

\* With a redundant clause from an earlier simplification: irredundant clauses
\* move in front of it, one of them a reason; the last irredundant clause leaves;
\* the redundant clause takes the place of an irredundant one before it.
Moved == << <<2, 4, 1>>, <<2, 4>>, <<-3, 4>>, <<4, -2>>, <<-1, -2, -4>>, <<-2, 3>>, <<3, 1, -4>>,
            <<1, -4>> >>
LastLeaves == << <<4, 1>>, <<4, -1, 2>>, <<-1, 2, -3>>, <<2, -4, -1>>, <<-2, 4>>, <<-1, 4>>,
                 <<-3, -1, -4>>, <<2, 4>> >>
LastLearned == << <<3, 4, 1>>, <<3, -4, 2, 1>>, <<-3, 2>>, <<-1, 3>>, <<-2, -3>>, <<4, 1, 3, 2>> >>

Problem(f, redundant, levels) == [formula |-> f, redundant |-> redundant, chronolevels |-> levels]

\* Chronological backtracking always, and never.
TestProblems ==
  {Problem(f, {}, 0) : f \in {WithModels, WithoutModels, Subsuming, Opposed}}
    \cup {Problem(f, {}, N) : f \in {WithoutModels, Rewatched}}
    \cup {Problem(Moved, {1}, 0), Problem(LastLeaves, {3}, N), Problem(LastLearned, {6}, 0)}
=============================================================================
