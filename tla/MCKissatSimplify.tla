-------------------------- MODULE MCKissatSimplify --------------------------
(* Formulas for KissatSimplify: each has a structure one of the procedures *)
(* looks for.                                                              *)
EXTENDS KissatSimplify

\* 3 is the conjunction of 1 and 2.
WithAnd == << <<-3, 1>>, <<-3, 2>>, <<3, -1, -2>>, <<3, 4>>, <<-3, -4, 1>> >>

\* 1 and 2 are equivalent, as 3 and -4 are.
WithEquivalences == << <<-1, 2>>, <<-2, 1>>, <<3, 4>>, <<-3, -4>>, <<1, 3, -4>> >>

\* -1 = IF 2 THEN 3 ELSE 4, and a clause that is stronger than the gate needs.
WithIte == << <<1, 2, 4>>, <<1, -2, 3>>, <<-1, 2>>, <<-1, -2, -3>>, <<-1, 3, 4>>, <<1, -3, -4>> >>

\* 1 is the exclusive or of 2 and 3.
WithXor == << <<1, 2, 3>>, <<1, -2, -3>>, <<-1, -2, 3>>, <<-1, 2, -3>>, <<1, 4>>, <<-1, -4, 2>> >>

WithoutModels == << <<1, 2>>, <<1, -2>>, <<-1, 3>>, <<-1, -3, 4>>, <<-3, -4, -1>> >>

\* Eliminating 4 gives a clause that has two literals of another one negated.
WithOpposed == << <<4, -1, -2>>, <<-4, 3, -1>>, <<-4, -3, -2>>, <<1, 2, 3>>, <<-3, 1>>, <<-3, 2>> >>

\* Two variables are fixed while smaller and larger ones are not.
WithUnits == << <<1, 4>>, <<2>>, <<-3, -2>> >>

\* 1 is a root, with 4 a hyper binary consequence of it, and so is -4, which fails.
WithRoots == << <<-1, 2>>, <<-1, 3>>, <<-2, -3, 4>>, <<2, 3, 4>>, <<4, -2>>, <<4, -3>> >>

Everything == {WithAnd, WithEquivalences, WithIte, WithXor, WithoutModels, WithOpposed, WithUnits, WithRoots}
=============================================================================
