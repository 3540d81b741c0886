--------------------------- MODULE KissatSimplify ---------------------------
(***************************************************************************)
(* What kissat does to a formula at decision level 0 so that it still      *)
(* answers for the formula it was given: variable elimination with gates   *)
(* and subsumption, substitution of equivalent literals, autarkies,        *)
(* compaction of the variables, and the extension of the model.            *)
(*                                                                         *)
(* pc                                                                      *)
(*   "add"         the formula is being added (kissat_add)                 *)
(*   "search"      in the loop of kissat_search, at level 0                *)
(*   "dense"       at the start of a round of eliminate_variables          *)
(*   "forward"     in forward_subsume_all_clauses                          *)
(*   "eliminate"   at the loop over the schedule                           *)
(*   "connect"     in connect_resolvents                                   *)
(*   "probe"       in the loop of probe_round over the probes              *)
(*   "substitute"  between two rounds of substitute_rounds                 *)
(*   "extend"      in the loop of kissat_extend, after the answer 10       *)
(*   "sat"         kissat_value gives the values                           *)
(*   "unsat"       the answer 20                                           *)
(*                                                                         *)
(* The search is abstracted: it learns implied clauses and finds a model   *)
(* if there is one.  Schedules, effort limits and the limits on sizes and  *)
(* occurrences choose what is tried; here every choice is possible.        *)
(***************************************************************************)
EXTENDS KissatGates, KissatProbing

CONSTANTS
  Formulas,       \* the formulas: sequences of clauses, which are sequences
  Extra,          \* bounds.eliminate.additional_clauses
  MaxLearned,     \* how many learned clauses there are at most
  LearnedSize     \* and how long they are

VARIABLES
  formula,  \* the formula
  given,    \* how many of its clauses were added
  s,        \* the solver
  pc,
  elim,     \* the elimination of a variable: its literal, whether there are
            \* clauses with the negation, the resolvents not yet connected
  probes,   \* the literals that probe_round still has to try
  top       \* the next entry of the extension stack

vars == <<formula, given, s, pc, elim, probes, top>>

NoElimination == [lit |-> 0, negative |-> FALSE, resolvents |-> {}]

Init ==
  /\ formula \in Formulas
  /\ given = 0
  /\ s = NewSolver
  /\ pc = "add"
  /\ elim = NoElimination
  /\ probes = {}
  /\ top = 0

Answered(t, next) == IF t.inconsistent THEN "unsat" ELSE next

\* The total assignments that satisfy some clauses.
Models(t, clauses) ==
  {m \in {t.true \cup pos \cup Negated(Active(t) \ pos) : pos \in SUBSET Active(t)} :
     \A c \in clauses : c \cap m # {}}

Implied(t, c) == \A m \in Models(t, t.clauses \cup t.learned) : c \cap m # {}

-----------------------------------------------------------------------------
(* Adding the formula and searching                                        *)

AddExternal(state, elit) ==
  LET t == Import(state.s, elit)
  IN [s |-> t, adding |-> AddLiteral(t, state.adding, Internal(t, elit))]

AddOriginal ==
  /\ pc = "add"
  /\ given < Len(formula)
  /\ LET added == FoldLeft(AddExternal, [s |-> s, adding |-> NoClause], formula[given + 1])
     IN s' = AddClause(added.s, added.adding)
  /\ given' = given + 1
  /\ UNCHANGED <<formula, pc, elim, probes, top>>

Solve ==
  /\ pc = "add"
  /\ given = Len(formula)
  /\ LET t == IF s.inconsistent THEN s ELSE PropagateAll(s)
     IN s' = t /\ pc' = Answered(t, "search")
  /\ UNCHANGED <<formula, given, elim, probes, top>>

LearnClause ==
  /\ pc = "search"
  /\ Cardinality(s.learned) < MaxLearned
  /\ \E c \in UNION {kSubset(k, Active(s) \cup Negated(Active(s))) : k \in 2..LearnedSize} :
       /\ ~Tautological(c) /\ c \notin s.learned \cup s.clauses
       /\ Implied(s, c)
       /\ s' = [s EXCEPT !.learned = @ \cup {c}]
  /\ UNCHANGED <<formula, given, pc, elim, probes, top>>

LearnUnit ==
  /\ pc = "search"
  /\ \E lit \in Active(s) \cup Negated(Active(s)) :
       /\ Implied(s, {lit})
       /\ s' = PropagateAll(Fix(s, {lit}))
  /\ pc' = Answered(s', "search")
  /\ UNCHANGED <<formula, given, elim, probes, top>>

FindModel ==
  /\ pc = "search"
  /\ \E m \in Models(s, s.clauses \cup s.learned) : s' = [s EXCEPT !.true = m]
  /\ pc' = "extend"
  /\ top' = Len(s.extend)
  /\ UNCHANGED <<formula, given, elim, probes>>

FindConflict ==
  /\ pc = "search"
  /\ Models(s, s.clauses \cup s.learned) = {}
  /\ pc' = "unsat"
  /\ UNCHANGED <<formula, given, s, elim, probes, top>>

\* kissat_extend
Extend ==
  /\ pc = "extend"
  /\ top > 0
  /\ s' = ExtendClause(s, s.extend[top])
  /\ top' = top - 1
  /\ UNCHANGED <<formula, given, pc, elim, probes>>

Extended ==
  /\ pc = "extend"
  /\ top = 0
  /\ pc' = "sat"
  /\ UNCHANGED <<formula, given, s, elim, probes, top>>

-----------------------------------------------------------------------------
(* Dense mode: irredundant clauses only, connected through all literals    *)

\* kissat_flush_units_while_connected
FlushUnits(t) ==
  LET u == Propagate(t, t.clauses)
  IN IF u.inconsistent THEN u
     ELSE [u EXCEPT !.clauses = {c \in @ : ~Satisfied(u, c)}]

\* kissat_resume_sparse_mode: what holds eliminated variables goes away.
\* With a mistake: the redundant clauses are kept whatever they hold.
ResumeKeepRedundant(t) ==
  PropagateAll([t EXCEPT !.clauses = {c \in @ : ~Satisfied(t, c)}])

Resume(t) ==
  LET Stays(c) == /\ ~Satisfied(t, c)
                  /\ \A lit \in c : t.flag[VarOf(lit)] # "eliminated"
  IN PropagateAll([t EXCEPT !.clauses = {c \in @ : Stays(c)},
                            !.learned = {c \in @ : Stays(c)}])

EnterElimination ==
  /\ pc = "search"
  /\ s.clauses # {}
  /\ pc' = "dense"
  /\ UNCHANGED <<formula, given, s, elim, probes, top>>

Binary(clauses) == {c \in clauses : ~IsLarge(c)}

\* Literals are assigned unless they are true, and propagated.
AssignUnits(t, units, clauses) ==
  IF units \cap Negated(units \cup t.true) # {} THEN [t EXCEPT !.inconsistent = TRUE]
  ELSE Propagate(Fix(t, units \ t.true), clauses)

\* The literals that two binary clauses imply together.
HyperUnary(t) == {lit \in Lit : \E other \in BinaryOther(t, lit) : -other \in BinaryOther(t, lit)}

\* remove_all_duplicated_binary_clauses; only binary clauses are connected yet.
RemoveDuplicates ==
  /\ pc = "dense"
  /\ s' = AssignUnits(s, HyperUnary(s), Binary(s.clauses))
  /\ pc' = Answered(s', "forward")
  /\ UNCHANGED <<formula, given, elim, probes, top>>

\* The clauses that subsume a clause, and its literals that a clause resolves away.
Subsumers(t, c) ==
  {d \in t.clauses \ {c} : ~Satisfied(t, d) /\ Live(t, d) # {} /\ Live(t, d) \subseteq c}

Removable(t, c) ==
  {lit \in c : \E d \in Occurrences(t, -lit) :
     /\ ~Satisfied(t, d)
     /\ Live(t, d) # {-lit}
     /\ Live(t, d) \ {-lit} \subseteq c \ {lit}}

Replace(t, c, new) == [t EXCEPT !.clauses = (@ \ {c}) \cup new]

\* forward_subsumed_clause, for any candidate
Forward(c) ==
  LET live  == Live(s, c)
      other == {d \in s.clauses \ {c} : Cardinality(d) <= Cardinality(c)}
      small == [s EXCEPT !.clauses = other]
      Units(lits) == AssignUnits(Replace(s, c, {}), lits, Binary(s.clauses))
  IN CASE Satisfied(s, c) -> s' = Replace(s, c, {})
       [] live = {} -> s' = [s EXCEPT !.inconsistent = TRUE]
       [] Cardinality(live) = 1 -> s' = Units(live)
       [] OTHER ->
            \/ Subsumers(small, live) # {} /\ s' = Replace(s, c, {})
            \/ \E lit \in Removable(small, live) :
                 s' = IF Cardinality(live) = 2 THEN Units(live \ {lit})
                      ELSE Replace(s, c, {live \ {lit}})

ForwardSubsume ==
  /\ pc = "forward"
  /\ \E c \in {d \in s.clauses : IsLarge(d) /\ ~Satisfied(s, d)} : Forward(c)
  /\ pc' = Answered(s', "forward")
  /\ UNCHANGED <<formula, given, elim, probes, top>>

\* The large clauses are connected and the units propagated once more.
ConnectLarge ==
  /\ pc = "forward"
  /\ s' = FlushUnits(s)
  /\ pc' = Answered(s', "eliminate")
  /\ UNCHANGED <<formula, given, elim, probes, top>>

\* eliminate_variable until the resolvents are connected
EliminateVariable ==
  /\ pc = "eliminate"
  /\ \E v \in Active(s) :
       LET lit == Rarer(s, v) IN
       \E gate \in Gates(s, lit) :
         /\ FewResolvents(s, lit, gate, Extra)
         /\ elim' = [lit |-> lit,
                     negative |-> Occurrences(s, -lit) # {},
                     resolvents |-> Resolvents(s, lit, gate)]
  /\ pc' = "connect"
  /\ UNCHANGED <<formula, given, s, probes, top>>

(* backward_subsume_lits through one literal of a new clause: the clauses  *)
(* with it are subsumed, or lose the one literal the new clause has negated.*)
\* With a mistake: any number of literals may be negated.
BackwardTwo(t, c, min) ==
  LET Flipped(d) == {lit \in d : -lit \in c}
      Hit(d) == /\ ~Satisfied(t, d)
                /\ c \subseteq d \cup Negated(Flipped(d))
      hit == {d \in Occurrences(t, min) \ {c} : Hit(d)}
  IN [t EXCEPT !.clauses = (@ \ hit) \cup
        {Live(t, d) \ Flipped(d) : d \in {e \in hit : Flipped(e) # {}}}]

Backward(t, c, min) ==
  LET Flipped(d) == {lit \in d : -lit \in c}
      Hit(d) == /\ ~Satisfied(t, d)
                /\ Cardinality(Flipped(d)) <= 1
                /\ c \subseteq d \cup Negated(Flipped(d))
      hit == {d \in Occurrences(t, min) \ {c} : Hit(d)}
      strengthened == {Live(t, d) \ Flipped(d) : d \in {e \in hit : Flipped(e) # {}}}
  IN IF {min} \in strengthened THEN Fix(t, {min})
     ELSE [t EXCEPT !.clauses = (@ \ hit) \cup strengthened]

\* kissat_forward_subsume_temporary and the rest for one resolvent
AddResolvent(lits) ==
  CASE lits = {} -> s' = [s EXCEPT !.inconsistent = TRUE]
    [] Cardinality(lits) = 1 -> s' = Fix(s, lits)
    [] OTHER -> \E min \in lits :
                  s' = Backward([s EXCEPT !.clauses = @ \cup {lits}], lits, min)

ConnectResolvent ==
  /\ pc = "connect"
  /\ ~s.inconsistent
  /\ \E r \in elim.resolvents :
       LET lits == Live(s, r) IN
       /\ \/ (Satisfied(s, r) \/ Subsumers(s, lits) # {}) /\ UNCHANGED s
          \/ /\ ~Satisfied(s, r) /\ Subsumers(s, lits) = {}
             /\ \/ Removable(s, lits) = {} /\ AddResolvent(lits)
                \/ \E lit \in Removable(s, lits) : AddResolvent(lits \ {lit})
       /\ elim' = [elim EXCEPT !.resolvents = @ \ {r}]
  /\ pc' = "connect"
  /\ UNCHANGED <<formula, given, probes, top>>

\* weaken_clauses and kissat_mark_eliminated_variable
WeakenClauses ==
  /\ pc = "connect"
  /\ elim.resolvents = {} \/ s.inconsistent
  /\ LET lit == elim.lit
         open == SetToSeq({c \in Occurrences(s, lit) : ~Satisfied(s, c)})
         pushed == FoldLeft(LAMBDA t, c : Weaken(t, lit, c), s, open)
         unit == IF elim.negative THEN Weaken(pushed, -lit, {}) ELSE pushed
         gone == Occurrences(s, lit) \cup Occurrences(s, -lit)
         weakened == IF s.inconsistent THEN s
                     ELSE FlushUnits([unit EXCEPT !.clauses = @ \ gone])
     IN s' = MarkEliminated(weakened, VarOf(lit))
  /\ elim' = NoElimination
  /\ pc' = Answered(s', "eliminate")
  /\ UNCHANGED <<formula, given, probes, top>>

NextRound ==
  /\ pc = "eliminate"
  /\ pc' = "dense"
  /\ UNCHANGED <<formula, given, s, elim, probes, top>>

LeaveElimination ==
  /\ pc = "eliminate"
  /\ s' = Resume(s)
  /\ pc' = Answered(s', "search")
  /\ UNCHANGED <<formula, given, elim, probes, top>>

-----------------------------------------------------------------------------
(* Substitution: literals that imply each other through binary clauses     *)
(* become one, the least of them in the order 1, -1, 2, -2, ...            *)

InOrder == [i \in 1..2 * N |-> IF i % 2 = 1 THEN (i + 1) \div 2 ELSE -(i \div 2)]
Ascending(set) == SetToSortSeq(set, LAMBDA a, b : a < b)

Reach(t) ==
  LET binary == {c \in Binary(t.clauses \cup t.learned) : WithActive(t, c)}
  IN [lit \in ActiveLiterals(t) |-> UnitClosure(binary, {lit})]

Component(reach, lit) == {other \in reach[lit] : lit \in reach[other]}

Representative(reach, lit) ==
  IF lit \notin DOMAIN reach THEN lit
  ELSE CHOOSE r \in Component(reach, lit) :
         \A other \in Component(reach, lit) : r = other \/ Before(r, other)

Clash(reach) == \E lit \in DOMAIN reach : -lit \in Component(reach, lit)

\* A root fails if it is the first to reach a literal and its negation.
FailedRoots(reach) ==
  LET Visit(found, root) ==
        IF root \notin DOMAIN reach \/ root \in found.visited THEN found
        ELSE LET new == reach[root] \ found.visited
             IN [visited |-> found.visited \cup new,
                 units |-> found.units \cup
                             IF Tautological(new) THEN {-root} ELSE {}]
  IN FoldLeft(Visit, [visited |-> {}, units |-> {}], InOrder).units

\* determine_representatives; after the first round no large clause is watched.
DetermineRepresentatives(t, reach, watched) ==
  IF Clash(reach) THEN [t EXCEPT !.inconsistent = TRUE]
  ELSE AssignUnits(t, FailedRoots(reach), watched)

\* The clauses of more than one literal, and the units, that are left.
WithMany(clauses)   == {c \in clauses : Cardinality(c) > 1}
UnitsAmong(clauses) == UNION {c \in clauses : Cardinality(c) = 1}
Represented(reach, c) == {Representative(reach, lit) : lit \in c}

\* substitute_binaries
SubstituteBinaries(t, reach) ==
  LET Images(clauses) ==
        {c \in {Represented(reach, b) : b \in Binary(clauses)} : ~Tautological(c)}
      Substituted(clauses) == (clauses \ Binary(clauses)) \cup WithMany(Images(clauses))
      u == [t EXCEPT !.clauses = Substituted(@), !.learned = Substituted(@)]
  IN IF t.inconsistent THEN t
     ELSE AssignUnits(u, UnitsAmong(Images(t.clauses) \cup Images(t.learned)),
                      Binary(u.clauses \cup u.learned))

\* substitute_clauses
SubstituteClauses(t, reach) ==
  LET Image(c) == Live(t, Represented(reach, Live(t, c)))
      Stays(c) == ~Satisfied(t, c \cup Represented(reach, c)) /\ ~Tautological(Image(c))
      Images(clauses) == {Image(c) : c \in {d \in clauses : IsLarge(d) /\ Stays(d)}}
      Substituted(clauses) == Binary(clauses) \cup WithMany(Images(clauses))
      u == [t EXCEPT !.clauses = Substituted(@), !.learned = Substituted(@)]
      all == Images(t.clauses) \cup Images(t.learned)
  IN CASE t.inconsistent -> t
       [] {} \in all     -> [t EXCEPT !.inconsistent = TRUE]
       [] OTHER -> AssignUnits(u, UnitsAmong(all), Binary(u.clauses \cup u.learned))

\* remove_representative_equivalences, for one variable and its representative
\* With a mistake: the variable is taken to be true whatever the other is.
RemoveEquivalenceUnit(t, v, other) == Weaken(MarkEliminated(t, v), v, {})

RemoveEquivalence(t, v, other) ==
  LET u == MarkEliminated(t, v)
  IN CASE other \in t.true  -> Weaken(u, v, {-other})
       [] -other \in t.true -> Weaken(u, -v, {other})
       [] OTHER -> Weaken(Weaken(u, -v, {other}), v, {})

SubstituteRound ==
  /\ pc \in {"search", "substitute"}
  /\ LET reach == Reach(s)
         all == s.clauses \cup s.learned
         t == DetermineRepresentatives(s, reach, IF pc = "search" THEN all ELSE Binary(all))
         u == SubstituteClauses(SubstituteBinaries(t, reach), reach)
         gone == {v \in Active(t) : Representative(reach, v) # v}
         Unify(r, v) == RemoveEquivalence(r, v, Representative(reach, v))
     IN s' = IF u.inconsistent THEN u ELSE FoldLeft(Unify, u, Ascending(gone))
  /\ pc' = Answered(s', "substitute")
  /\ UNCHANGED <<formula, given, elim, probes, top>>

EndSubstitution ==
  /\ pc = "substitute"
  /\ s' = PropagateAll(s)
  /\ pc' = Answered(s', "search")
  /\ UNCHANGED <<formula, given, elim, probes, top>>

-----------------------------------------------------------------------------
(* Autarkies: the largest part of the saved phases that satisfies every    *)
(* irredundant clause it touches                                           *)

\* propagate_clause: a clause touched and not satisfied takes its variables out.
TakenOut(t, autarky) ==
  {lit \in autarky : \E c \in Occurrences(t, -lit) : ~Satisfied(t, c) /\ c \cap autarky = {}}

\* With a mistake: what is taken out later is not propagated.
DetermineAutarkyOnce(t, phases) == phases \ TakenOut(t, phases)

DetermineAutarky(t, phases) ==
  LET after[n \in Nat] ==
        IF n = 0 THEN phases ELSE LET left == after[n - 1] IN left \ TakenOut(t, left)
  IN after[N]

\* autarky_literal
AutarkyLiteral(t, lit) == Weaken(MarkEliminated(t, VarOf(lit)), lit, {})

Autarky ==
  /\ pc = "search"
  /\ \E pos \in SUBSET Active(s) :
       LET autarky == DetermineAutarky(s, pos \cup Negated(Active(s) \ pos))
           LitOf(v) == IF v \in autarky THEN v ELSE -v
           Apply(t, v) == AutarkyLiteral(t, LitOf(v))
       IN /\ autarky # {}
          /\ s' = Resume(FoldLeft(Apply, s, Ascending({VarOf(lit) : lit \in autarky})))
  /\ pc' = Answered(s', "search")
  /\ UNCHANGED <<formula, given, elim, probes, top>>

-----------------------------------------------------------------------------
(* Probing                                                                 *)

Probe(solvers) ==
  /\ pc = "search"
  /\ s' \in solvers
  /\ pc' = Answered(s', "search")
  /\ UNCHANGED <<formula, given, elim, probes, top>>

Ternary    == Probe(TernaryResolutions(s)) /\ Cardinality(s'.learned) <= MaxLearned
Transitive == Probe(TransitiveReductions(s))
Vivify     == Probe(Vivifications(s))

\* kissat_failed_literal_probing: a round tries roots one after the other, but
\* not those that were implied by an earlier one without effect or are assigned
\* by now, and may be broken off.
StartProbing ==
  /\ pc = "search" /\ pc' = "probe"
  /\ s' = ScheduleProbes(s)
  /\ Roots(s) # {} /\ probes' = Roots(s)
  /\ UNCHANGED <<formula, given, elim, top>>

ProbeLiteral ==
  /\ pc = "probe"
  /\ \E probe \in probes :
       /\ probes' = probes \ {probe}
       /\ s' \in IF WithActive(s, {probe}) THEN Probed(s, probe) \cup {s} ELSE {s}
  /\ Cardinality(s'.learned) <= MaxLearned
  /\ pc' = Answered(s', "probe")
  /\ UNCHANGED <<formula, given, elim, top>>

EndProbing ==
  /\ pc = "probe" /\ pc' = "search"
  /\ probes' = {}
  /\ UNCHANGED <<formula, given, s, elim, top>>

-----------------------------------------------------------------------------
\* kissat_reduce and kissat_sparse_collect: some learned clauses go, the others
\* lose their false literals, and the variables may be numbered anew.
Collect ==
  /\ pc = "search"
  /\ \E kept \in SUBSET s.learned, compact \in BOOLEAN :
       LET Swept(clauses) == {Live(s, c) : c \in {d \in clauses : ~Satisfied(s, d)}}
           t == [s EXCEPT !.clauses = Swept(@), !.learned = Swept(kept)]
       IN s' = IF compact THEN Compact(t) ELSE t
  /\ UNCHANGED <<formula, given, pc, elim, probes, top>>

Next ==
  \/ AddOriginal \/ Solve \/ LearnClause \/ LearnUnit \/ FindModel \/ FindConflict
  \/ Extend \/ Extended
  \/ EnterElimination \/ RemoveDuplicates \/ ForwardSubsume \/ ConnectLarge
  \/ EliminateVariable \/ ConnectResolvent \/ WeakenClauses \/ NextRound \/ LeaveElimination
  \/ SubstituteRound \/ EndSubstitution \/ Ternary \/ Transitive \/ Vivify
  \/ StartProbing \/ ProbeLiteral \/ EndProbing
  \/ Autarky \/ Collect

Spec == Init /\ [][Next]_vars

-----------------------------------------------------------------------------
(* Properties                                                              *)

\* KissatSolver::getModel: a variable without a value is taken to be true.
InModel(elit) ==
  LET value == Value(s, VarOf(elit))
  IN IF elit > 0 THEN value >= 0 ELSE value < 0

SatisfiesGiven(IsIn(_)) ==
  \A i \in 1..given : \E j \in DOMAIN formula[i] : IsIn(formula[i][j])

Satisfiable ==
  \E pos \in SUBSET Var :
    SatisfiesGiven(LAMBDA elit : IF elit > 0 THEN elit \in pos ELSE -elit \notin pos)

(* The model that is read out satisfies every clause of the formula,        *)
(* whatever was eliminated, substituted and renumbered before.              *)
ModelExtended == pc = "sat" => SatisfiesGiven(InModel)

(* Simplification never loses the last model: a satisfiable formula leaves  *)
(* clauses with a model, at every step, and is not answered by 20.          *)
NoModelLost ==
  Satisfiable =>
    /\ pc # "unsat" /\ ~s.inconsistent
    /\ pc \notin {"extend", "sat"} => Models(s, s.clauses) # {}

(* Whenever the search goes on, the learned clauses follow from the          *)
(* irredundant ones, so that any of them may be dropped, and hold no         *)
(* eliminated variable.                                                      *)
LearnedImplied ==
  pc = "search" =>
    \A c \in s.learned :
      /\ \A lit \in c : s.flag[VarOf(lit)] # "eliminated"
      /\ \A m \in Models(s, s.clauses) : c \cap m # {}

(* The two maps between the variables of the user and those of the solver    *)
(* agree: an active variable is the one its image comes from, fixed ones     *)
(* that share a number have the value with which they were fixed, and no two *)
(* eliminated ones share a place.                                            *)
ImportsAgree ==
  \A e \in {x \in Var : s.imports[x].imported} :
    LET import == s.imports[e]  v == VarOf(import.lit) IN
    IF import.eliminated
    THEN \A x \in Var \ {e} : s.imports[x].eliminated => s.imports[x].lit # import.lit
    ELSE /\ v \in DOMAIN s.flag
         /\ CASE s.flag[v] = "fixed"      -> Value(s, e) = IF e \in s.units THEN 1 ELSE -1
              [] s.flag[v] = "eliminated" -> FALSE
              [] OTHER                    -> import.lit = v /\ s.exports[v] = e
=============================================================================
