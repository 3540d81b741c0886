--------------------------- MODULE MCKissatDecide ---------------------------
(* As the portfolio runs kissat, in both modes and in focused mode only; with *)
(* both heuristics, on three variables in stable mode and on two in both; and *)
(* focused mode on four variables, which compaction needs to find a fixed     *)
(* variable, an inactive one, and a decision with something left to decide.   *)
EXTENDS KissatDecide

Options(n, mab, option, limit) ==
  [vars |-> n, mab |-> mab, stable |-> option, conflicts |-> limit]

TestInstances ==
  {Options(3, FALSE, 1, 1), Options(3, FALSE, 0, 2), Options(3, TRUE, 2, 0),
   Options(2, TRUE, 1, 2), Options(4, FALSE, 0, 0)}
=============================================================================
