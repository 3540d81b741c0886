--------------------------- MODULE KissatExternal ---------------------------
(***************************************************************************)
(* The outside of kissat: external literals, which its user writes, and    *)
(* internal ones, over which it works; the extension stack, which turns a  *)
(* model of the simplified clauses into one of the formula.  The operators *)
(* are the functions of import.c, flags.c, weaken.c, extend.c, compact.c   *)
(* and internal.c that change them, at decision level 0.                   *)
(*                                                                         *)
(* Clauses are sets of internal literals, so copies of a clause are one.   *)
(* A solver is a record:                                                   *)
(*   imports     external variable -> [imported, eliminated, lit], where   *)
(*               lit is an internal literal or a position of "eliminated"  *)
(*   exports     internal variable -> its external one, 0 for none         *)
(*   flag        internal variable -> "inactive", "active", "fixed",       *)
(*               "eliminated"                                              *)
(*   true        the internal literals with value 1                        *)
(*   units       the external literals that were fixed                     *)
(*   clauses     the irredundant clauses                                   *)
(*   learned     the redundant clauses                                     *)
(*   extend      the extension stack: [blocking, others] for each clause   *)
(*   eliminated  the values of the eliminated variables: -1, 0, 1          *)
(*   inconsistent                                                          *)
(***************************************************************************)
EXTENDS KissatTrail, SequencesExt

CONSTANT Tumble  \* the option: variables are numbered as they appear

NotImported == [imported |-> FALSE, eliminated |-> FALSE, lit |-> 0]

NewSolver ==
  [imports |-> [e \in Var |-> NotImported], exports |-> <<>>, flag |-> <<>>,
   true |-> {}, units |-> {}, clauses |-> {}, learned |-> {},
   extend |-> <<>>, eliminated |-> <<>>, inconsistent |-> FALSE]

Sign(lit) == IF lit < 0 THEN -1 ELSE 1
Internal(s, elit) == Sign(elit) * s.imports[VarOf(elit)].lit
External(s, ilit) == Sign(ilit) * s.exports[VarOf(ilit)]
HasFlag(s, flag)  == {v \in DOMAIN s.flag : s.flag[v] = flag}
Active(s)         == HasFlag(s, "active")
WithActive(s, lits) == \A lit \in lits : s.flag[VarOf(lit)] = "active"
Negated(lits)     == {-lit : lit \in lits}

Satisfied(s, c) == c \cap s.true # {}
Live(s, c)      == c \ Negated(s.true)

-----------------------------------------------------------------------------
\* kissat_import_literal: without "tumble" all smaller variables come first.
Enter(s, e) ==
  IF s.imports[e].imported THEN s
  ELSE [s EXCEPT !.imports[e] = [imported |-> TRUE, eliminated |-> FALSE,
                                 lit |-> Len(s.exports) + 1],
                 !.exports = Append(@, e),
                 !.flag = Append(@, "inactive")]

Import(s, elit) ==
  LET eidx == VarOf(elit)
  IN FoldLeft(Enter, s, IF Tumble THEN <<eidx>> ELSE [e \in 1..eidx |-> e])

\* kissat_activate_literals
Activate(s, lits) ==
  LET vars == {VarOf(lit) : lit \in lits}
  IN [s EXCEPT !.flag = [v \in DOMAIN @ |->
                           IF v \in vars /\ @[v] = "inactive" THEN "active" ELSE @[v]]]

\* kissat_assign_unit and kissat_mark_fixed_literal
Fix(s, lits) ==
  [s EXCEPT !.true = @ \cup lits,
            !.units = @ \cup {External(s, lit) : lit \in lits},
            !.flag = [v \in DOMAIN @ |-> IF v \in lits \/ -v \in lits THEN "fixed" ELSE @[v]]]

\* All that unit propagation derives from some clauses and literals.
UnitClosure(clauses, lits) ==
  LET Derived(true) ==
        UNION {{lit \in c : c \ {lit} \subseteq Negated(true)} : c \in clauses}
      after[n \in Nat] ==
        IF n = 0 THEN lits ELSE LET known == after[n - 1] IN known \cup Derived(known)
  IN after[2 * N]

(* kissat_search_propagate, kissat_probing_propagate and, on irredundant   *)
(* clauses only, kissat_dense_propagate, at level 0.                       *)
Propagate(s, clauses) ==
  LET closure == UnitClosure(clauses, s.true)
      clash   == \/ closure \cap Negated(closure) # {}
                 \/ \E c \in clauses : c \subseteq Negated(closure)
  IN IF clash THEN [s EXCEPT !.inconsistent = TRUE] ELSE Fix(s, closure \ s.true)

PropagateAll(s) == Propagate(s, s.clauses \cup s.learned)

-----------------------------------------------------------------------------
\* kissat_add with a literal; "adding" is the clause so far.
NoClause == [lits |-> {}, satisfied |-> FALSE, trivial |-> FALSE]

AddLiteral(s, adding, lit) ==
  CASE lit \in adding.lits  -> adding
    [] -lit \in adding.lits -> [adding EXCEPT !.trivial = TRUE]
    [] OTHER -> CASE lit \in s.true  -> [adding EXCEPT !.satisfied = TRUE]
                  [] -lit \in s.true -> adding
                  [] OTHER           -> [adding EXCEPT !.lits = @ \cup {lit}]

\* kissat_add with zero: before the search there are no decisions.
AddClause(s, adding) ==
  IF s.inconsistent \/ adding.satisfied \/ adding.trivial THEN s
  ELSE LET t    == Activate(s, adding.lits)
           size == Cardinality(adding.lits)
       IN CASE size = 0 -> [t EXCEPT !.inconsistent = TRUE]
            [] size = 1 -> PropagateAll(Fix(t, adding.lits))
            [] size > 1 -> [t EXCEPT !.clauses = @ \cup {adding.lits}]

-----------------------------------------------------------------------------
\* kissat_weaken_clause, kissat_weaken_binary and kissat_weaken_unit
Weaken(s, lit, lits) ==
  [s EXCEPT !.extend =
     Append(@, [blocking |-> External(s, lit),
                others |-> {External(s, other) : other \in Live(s, lits \ {lit})}])]

\* kissat_mark_eliminated_variable
MarkEliminated(s, v) ==
  [s EXCEPT !.flag[v] = "eliminated",
            !.imports[s.exports[v]] = [imported |-> TRUE, eliminated |-> TRUE,
                                       lit |-> Len(s.eliminated) + 1],
            !.eliminated = Append(@, 0)]

\* kissat_value, without the extension it may start
Value(s, elit) ==
  LET import == s.imports[VarOf(elit)]
  IN CASE ~import.imported  -> 0
       [] import.eliminated -> Sign(elit) * s.eliminated[import.lit]
       [] OTHER             -> CASE Internal(s, elit) \in s.true  -> 1
                                 [] -Internal(s, elit) \in s.true -> -1
                                 [] OTHER                         -> 0

ExtendAssign(s, elit) ==
  [s EXCEPT !.eliminated[s.imports[VarOf(elit)].lit] = Sign(elit)]

\* With a mistake: a literal that has a value keeps it.
ExtendNoFlip(s, entry) ==
  LET elits == entry.others \cup {entry.blocking}
      free  == {e \in elits : s.imports[VarOf(e)].eliminated /\ Value(s, e) = 0}
  IN IF free # {} /\ \A e \in elits : Value(s, e) <= 0
     THEN ExtendAssign(s, CHOOSE e \in free : TRUE) ELSE s

(* One turn of the loop of kissat_extend: a clause no literal satisfies    *)
(* gets its literal that was eliminated last and has no value, or else its *)
(* blocking literal, which may so be flipped.                              *)
ExtendClause(s, entry) ==
  LET elits == entry.others \cup {entry.blocking}
      Pos(e) == s.imports[VarOf(e)].lit
      free  == {e \in elits : s.imports[VarOf(e)].eliminated /\ Value(s, e) = 0}
  IN CASE \E e \in elits : Value(s, e) > 0 -> s
       [] OTHER -> ExtendAssign(s, IF free = {} THEN entry.blocking
                                   ELSE CHOOSE e \in free : \A o \in free : Pos(o) <= Pos(e))

-----------------------------------------------------------------------------
(* Compaction: the active variables get the first numbers, and all fixed   *)
(* ones share one number, that of the first of them.                       *)
Kept(s) ==
  LET fixed == HasFlag(s, "fixed")
  IN Active(s) \cup {v \in fixed : \A w \in fixed : v <= w}

NewIndex(kept, v) == Cardinality({w \in kept : w <= v})

\* mfixed: the internal literal that stands for every fixed literal, or 0
Mfixed(s) ==
  LET fixed == Kept(s) \cap HasFlag(s, "fixed")
  IN IF fixed = {} THEN 0
     ELSE LET v == CHOOSE v \in fixed : TRUE
          IN NewIndex(Kept(s), v) * (IF v \in s.true THEN 1 ELSE -1)

\* kissat_compact_literals and kissat_map_literal
MapLiteral(s, lit) ==
  LET v == VarOf(lit)
  IN CASE s.flag[v] = "active" -> Sign(lit) * NewIndex(Kept(s), v)
       [] s.flag[v] = "fixed"  -> IF lit \in s.true THEN Mfixed(s) ELSE -Mfixed(s)

MapClause(s, c) == {MapLiteral(s, lit) : lit \in c}

\* kissat_compact_literals and compact_units: what an external variable refers to
\* With a mistake: variables whose number another one took are not mapped again.
CompactImportsOnce(s, e) ==
  LET import == s.imports[e]
  IN IF \E v \in DOMAIN s.exports : s.exports[v] = e /\ s.flag[v] \in {"active", "fixed"}
     THEN [import EXCEPT !.lit = MapLiteral(s, import.lit)]
     ELSE import

CompactImport(s, e) ==
  LET import == s.imports[e]
  IN CASE ~import.imported \/ import.eliminated -> import
       [] e \in s.units  -> [import EXCEPT !.lit = Mfixed(s)]
       [] -e \in s.units -> [import EXCEPT !.lit = -Mfixed(s)]
       [] OTHER -> IF s.flag[import.lit] = "active"
                   THEN [import EXCEPT !.lit = MapLiteral(s, import.lit)]
                   ELSE NotImported

\* kissat_finalize_compacting, for clauses that hold active variables only
Compact(s) ==
  LET kept == Kept(s)
      old  == [i \in 1..Cardinality(kept) |-> CHOOSE v \in kept : NewIndex(kept, v) = i]
  IN [s EXCEPT !.imports = [e \in Var |-> CompactImport(s, e)],
               !.exports = [i \in DOMAIN old |-> s.exports[old[i]]],
               !.flag = [i \in DOMAIN old |-> s.flag[old[i]]],
               !.true = MapClause(s, s.true),
               !.clauses = {MapClause(s, c) : c \in @},
               !.learned = {MapClause(s, c) : c \in @}]
=============================================================================
