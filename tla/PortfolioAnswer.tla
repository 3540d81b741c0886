--------------------------- MODULE PortfolioAnswer ---------------------------
(***************************************************************************)
(* What a run of PaKis promises its user, without threads: the program      *)
(* leaves main exactly once, with the status of the formula, or with        *)
(* UNKNOWN, and with UNKNOWN only when the time given with -t is over.      *)
(* painless.cpp prints finalResult and returns it as the exit code.         *)
(***************************************************************************)
CONSTANTS UNKNOWN,     \* no answer: SatResult::UNKNOWN
          Truth        \* the status of the formula, SatResult::SAT or UNSAT

VARIABLES phase,       \* "running" or "exit"
          printed,     \* the answer printed by main
          expired      \* the time limit has passed

vars == <<phase, printed, expired>>

Init ==
  /\ phase = "running"
  /\ printed = UNKNOWN
  /\ expired = FALSE

Expire ==
  /\ ~expired
  /\ expired' = TRUE
  /\ UNCHANGED <<phase, printed>>

Answer ==
  /\ phase = "running"
  /\ phase' = "exit"
  /\ printed' = Truth
  /\ UNCHANGED expired

GiveUp ==
  /\ phase = "running"
  /\ expired
  /\ phase' = "exit"
  /\ UNCHANGED <<printed, expired>>

Next == Expire \/ Answer \/ GiveUp

Spec == Init /\ [][Next]_vars
=============================================================================
