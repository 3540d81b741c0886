------------------------------ MODULE DimacsLoad ------------------------------
(***************************************************************************)
(* loadFormulaToSolvers (utils/SatUtils.cpp): the program's own DIMACS      *)
(* reader, and the distribution of the clauses to the solvers by a parallel *)
(* loop.  A step is one turn of a reading loop.  A newline is "n", a blank   *)
(* "s"; "c" also stands for "p".  (kissat's parse.c is not used by this      *)
(* program.)                                                                *)
(***************************************************************************)
EXTENDS Integers, Sequences, FiniteSets, SequencesExt

CONSTANTS Solvers,
          Texts       \* the contents of the file

Numerals == {"0", "1", "2", "3", "4", "5", "6", "7", "8", "9"}
Digit == [d \in Numerals |->
            CASE d = "0" -> 0 [] d = "1" -> 1 [] d = "2" -> 2 [] d = "3" -> 3 [] d = "4" -> 4
              [] d = "5" -> 5 [] d = "6" -> 6 [] d = "7" -> 7 [] d = "8" -> 8 [] d = "9" -> 9]
Spaces == {"s", "n"}
Chars == DOMAIN Digit \cup Spaces \cup {"-", "c"}
EOF == "EOF"

ASSUME TextAssumption == Texts \subseteq Seq(Chars)

VARIABLES
  text, pos,     \* the file and the place of the next character
  pc,
  c, neg, num, cls, clauses,
  maxVar,
  given,         \* the solver's original formula, by solver
  varCount       \* the solver's number of variables; -1 before it is set

readVars == <<c, neg, num, cls, clauses, maxVar>>
vars == <<text, pos, pc, readVars, given, varCount>>

Init ==
  /\ text \in Texts /\ pos = 1
  /\ pc = "read"
  /\ c = "0" /\ neg = FALSE /\ num = 0   \* c is zero, no character yet
  /\ cls = <<>> /\ clauses = <<>> /\ maxVar = 0
  /\ given = [s \in Solvers |-> <<>>]
  /\ varCount = [s \in Solvers |-> -1]

NextChar == IF pos <= Len(text) THEN text[pos] ELSE EOF

\* fgetc; at the end of the file it may be called again.
Fgetc ==
  /\ c' = NextChar
  /\ pos' = IF pos <= Len(text) + 1 THEN pos + 1 ELSE pos

Abs(n) == IF n < 0 THEN -n ELSE n
MaxOf(S) == CHOOSE m \in S : \A n \in S : n <= m

\* The file cannot be opened: main does not look at the result.
OpenFails ==
  /\ pc = "read" /\ pos = 1
  /\ pc' = "failed"
  /\ UNCHANGED <<text, pos, readVars, given, varCount>>

\* The first character of a comment or of the problem line.
ReadComment ==
  /\ pc = "read" /\ c # EOF /\ NextChar = "c"
  /\ Fgetc /\ pc' = "skip"
  /\ UNCHANGED <<text, neg, num, cls, clauses, maxVar, given, varCount>>

\* while (c != '\n'): the end of the file does not end it.
Skip ==
  /\ pc = "skip"
  /\ Fgetc /\ pc' = IF c' = "n" THEN "read" ELSE "skip"
  /\ UNCHANGED <<text, neg, num, cls, clauses, maxVar, given, varCount>>

ReadBlank ==
  /\ pc = "read" /\ c # EOF /\ NextChar \in Spaces
  /\ Fgetc
  /\ UNCHANGED <<text, pc, neg, num, cls, clauses, maxVar, given, varCount>>

ReadMinus ==
  /\ pc = "read" /\ c # EOF /\ NextChar = "-"
  /\ Fgetc /\ neg' = TRUE
  /\ UNCHANGED <<text, pc, num, cls, clauses, maxVar, given, varCount>>

ReadDigit ==
  /\ pc = "read" /\ c # EOF /\ NextChar \in DOMAIN Digit
  /\ Fgetc /\ num' = Digit[NextChar] /\ pc' = "digits"
  /\ UNCHANGED <<text, neg, cls, clauses, maxVar, given, varCount>>

MoreDigits ==
  /\ pc = "digits" /\ NextChar \in DOMAIN Digit
  /\ Fgetc /\ num' = num * 10 + Digit[NextChar]
  /\ UNCHANGED <<text, pc, neg, cls, clauses, maxVar, given, varCount>>

\* With a mistake: the sign is not reset.
EndNumberKeepSign ==
  /\ pc = "digits" /\ NextChar \notin DOMAIN Digit
  /\ Fgetc /\ pc' = "read"
  /\ IF num # 0
       THEN /\ cls' = Append(cls, IF neg THEN -num ELSE num)
            /\ UNCHANGED <<clauses, maxVar>>
       ELSE /\ clauses' = Append(clauses, cls)
            /\ maxVar' = MaxOf({maxVar} \cup {Abs(l) : l \in ToSet(cls)})
            /\ cls' = <<>>
  /\ UNCHANGED <<text, neg, num, given, varCount>>

\* The character after the number is consumed with it.  A zero ends the
\* clause, which gets one reference per solver.
EndNumber ==
  /\ pc = "digits" /\ NextChar \notin DOMAIN Digit
  /\ Fgetc /\ pc' = "read" /\ neg' = FALSE
  /\ IF num # 0
       THEN /\ cls' = Append(cls, IF neg THEN -num ELSE num)
            /\ UNCHANGED <<clauses, maxVar>>
       ELSE /\ clauses' = Append(clauses, cls)
            /\ maxVar' = MaxOf({maxVar} \cup {Abs(l) : l \in ToSet(cls)})
            /\ cls' = <<>>
  /\ UNCHANGED <<text, num, given, varCount>>

\* With a mistake: only a character read at the top of the loop can end it.
EndOfFileFresh ==
  /\ pc = "read" /\ c # EOF /\ NextChar = EOF
  /\ pc' = "add"
  /\ UNCHANGED <<text, pos, readVars, given, varCount>>

\* An end of file is read like a character, or was read after a number.
EndOfFile ==
  /\ pc = "read" /\ (c = EOF \/ NextChar = EOF)
  /\ pc' = "add"
  /\ UNCHANGED <<text, pos, readVars, given, varCount>>

Reading ==
  \/ OpenFails \/ ReadComment \/ Skip \/ ReadBlank \/ ReadMinus \/ ReadDigit
  \/ MoreDigits \/ EndNumber \/ EndOfFile

\* One turn of the parallel loop: kissat_add for every literal of every clause.
AddInitialClauses(s) ==
  /\ pc = "add" /\ varCount[s] = -1
  /\ given' = [given EXCEPT ![s] = @ \o clauses]
  /\ varCount' = [varCount EXCEPT ![s] = maxVar]
  /\ UNCHANGED <<text, pos, pc, readVars>>

\* The parallel loop has joined its threads.
JoinLoop ==
  /\ pc = "add" /\ \A s \in Solvers : varCount[s] # -1
  /\ pc' = "free"
  /\ UNCHANGED <<text, pos, readVars, given, varCount>>

\* free, whatever the counters say.
FreeClauses ==
  /\ pc = "free"
  /\ pc' = "loaded" /\ clauses' = <<>>
  /\ UNCHANGED <<text, pos, c, neg, num, cls, maxVar, given, varCount>>

Next ==
  \/ Reading \/ JoinLoop \/ FreeClauses
  \/ \E s \in Solvers : AddInitialClauses(s)

Spec == Init /\ [][Next]_vars /\ WF_vars(Next)

-----------------------------------------------------------------------------
(* What the file means, from its characters' places and not by a loop.      *)

\* Places of a comment line: from a "c" to the newline after it.
InComment(i) ==
  \E b \in 1 .. i : text[b] = "c" /\ \A j \in b .. (i - 1) : text[j] # "n"

At(i) == IF i \in DOMAIN text /\ ~InComment(i) THEN text[i] ELSE "n"

\* Places at which a number starts, the place of its last digit, and its value.
Starts == {i \in DOMAIN text : At(i) \in DOMAIN Digit
                                 /\ At(i - 1) \notin DOMAIN Digit}
RunEnd(i) ==
  CHOOSE j \in i .. Len(text) : /\ \A k \in i .. j : At(k) \in DOMAIN Digit
                               /\ At(j + 1) \notin DOMAIN Digit
Value(i, j) ==
  LET v[k \in 0 .. Len(text)] == IF k < i THEN 0 ELSE 10 * v[k - 1] + Digit[text[k]]
  IN  v[j]
Number(i) == (IF At(i - 1) = "-" THEN -1 ELSE 1) * Value(i, RunEnd(i))

\* The numbers in the order of their places.
Before(i) == {j \in Starts : j < i}
Nth(n) == CHOOSE i \in Starts : Cardinality(Before(i)) = n - 1
Numbers == [n \in 1 .. Cardinality(Starts) |-> Number(Nth(n))]

\* DIMACS: comments are whole lines that end in a newline, a minus stands
\* before a number and after a blank, a number before a blank or at the end.
WellFormed ==
  \A i \in DOMAIN text :
    /\ At(i) = "-" => At(i - 1) \in Spaces /\ At(i + 1) \in Numerals \ {"0"}
    /\ At(i) \in DOMAIN Digit => At(i + 1) \in DOMAIN Digit \cup Spaces
    /\ text[i] = "c" /\ ~(i > 1 /\ InComment(i - 1)) => i = 1 \/ text[i - 1] = "n"
    /\ InComment(i) => \E j \in i .. Len(text) : text[j] = "n"

-----------------------------------------------------------------------------
(* Properties. *)

\* The numbers read so far: the clauses with their closing zeros, and what
\* there is of the next one.
Taken == FlattenSeq([n \in 1 .. Len(clauses) |-> Append(clauses[n], 0)]) \o cls

\* When reading ends, the numbers read are those of the file in order: no sign
\* or digit is lost at a blank, a comment or the end of the file.
ReadsTheNumbers == WellFormed /\ pc = "add" => Taken = Numbers

\* A well-formed file is read to its end, although the loops look for other
\* characters than the end of the file.  (A file that ends inside a comment is
\* read for ever: see Skip.)
LoadsWellFormed == WellFormed ~> pc \in {"loaded", "failed"}
=============================================================================
