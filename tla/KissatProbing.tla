---------------------------- MODULE KissatProbing ----------------------------
(***************************************************************************)
(* Probing: resolution of ternary clauses, transitive reduction of the     *)
(* binary ones, failed literals with hyper binary resolution, and          *)
(* vivification: ternary.c, transitive.c, failed.c with prophyper.c and    *)
(* dominate.c, and vivify.c.  Each operator is the set of the solvers that *)
(* one step of a procedure may leave.                                      *)
(*                                                                         *)
(* The procedures treat irredundant and redundant clauses alike but for    *)
(* one rule: an irredundant clause is only given up for irredundant ones.  *)
(***************************************************************************)
EXTENDS KissatExternal

Copy(lits, redundant) == [lits |-> lits, redundant |-> redundant]
Copies(s) == {Copy(c, FALSE) : c \in s.clauses} \cup {Copy(c, TRUE) : c \in s.learned}
LitsOfCopies(copies) == {c.lits : c \in copies}

Drop(s, copy) == IF copy.redundant THEN [s EXCEPT !.learned = @ \ {copy.lits}]
                 ELSE [s EXCEPT !.clauses = @ \ {copy.lits}]
Put(s, copy)  == IF copy.redundant THEN [s EXCEPT !.learned = @ \cup {copy.lits}]
                 ELSE [s EXCEPT !.clauses = @ \cup {copy.lits}]

Untouched(s, lits) == \A lit \in lits : lit \notin s.true /\ -lit \notin s.true
OfSize(s, size) == {c \in Copies(s) : Cardinality(c.lits) = size /\ Untouched(s, c.lits)}

ActiveLiterals(s) == Active(s) \cup Negated(Active(s))

\* Literals in the order of the solver: 1, -1, 2, -2, ...
Before(a, b) == VarOf(a) < VarOf(b) \/ (a > 0 /\ b = -a)

-----------------------------------------------------------------------------
\* ternary_resolution: a resolvent of two literals replaces both antecedents.
\* With a mistake: a resolvent of an irredundant and a redundant clause is redundant.
TernaryKindEither(c, d) == c.redundant \/ d.redundant

TernaryKind(c, d) == c.redundant /\ d.redundant

\* find_binary and find_ternary: what makes the resolvent superfluous
FoundAlready(s, new) ==
  IF Cardinality(new.lits) = 2
  THEN new.lits \in s.clauses \/ (new.redundant /\ new.lits \in s.learned)
  ELSE \E c \in Copies(s) : c.lits \subseteq new.lits

\* resolve_ternary_clauses, for one literal and two clauses
TernaryResolutions(s) ==
  LET ternary == OfSize(s, 3)
      Pairs(v) == {p \in ternary \X ternary : v \in p[1].lits /\ -v \in p[2].lits}
      Lits(v, p) == (p[1].lits \ {v}) \cup (p[2].lits \ {-v})
      New(v, p) == Copy(Lits(v, p), Cardinality(Lits(v, p)) = 3 \/ TernaryKind(p[1], p[2]))
      Add(t, new) == IF FoundAlready(s, new) THEN t ELSE Put(t, new)
      Resolve(v, p) ==
        IF Cardinality(Lits(v, p)) = 2 THEN Add(Drop(Drop(s, p[1]), p[2]), New(v, p))
        ELSE Add(s, New(v, p))
      Useful(v, p) == /\ Cardinality(Lits(v, p)) < 4
                      /\ \A lit \in Lits(v, p) : -lit \notin Lits(v, p)
  IN UNION {{Resolve(v, p) : p \in {q \in Pairs(v) : Useful(v, q)}} : v \in Active(s)}

-----------------------------------------------------------------------------
\* The binary clauses by which transitive_reduce may go from "src" to "dst".
\* With a mistake: an irredundant clause is removed because of redundant ones.
TransitiveWaysAny(s, copy) == OfSize(s, 2) \ {copy}

TransitiveWays(s, copy) ==
  {c \in OfSize(s, 2) \ {copy} : copy.redundant \/ ~c.redundant}

\* transitive_reduce, for one clause, and what follows if the literal fails
TransitiveReductions(s) ==
  LET Reached(copy, src) == UnitClosure(LitsOfCopies(TransitiveWays(s, copy)), {-src})
      Src(copy) == CHOOSE src \in copy.lits : \A dst \in copy.lits \ {src} : Before(src, dst)
      Transitive == {c \in OfSize(s, 2) : c.lits \ {Src(c)} \subseteq Reached(c, Src(c))}
      Failed == {src \in {Src(c) : c \in OfSize(s, 2)} :
                   \E c \in OfSize(s, 2) : /\ Src(c) = src
                                           /\ Reached(c, src) \cap Negated(Reached(c, src)) # {}}
  IN {Drop(s, c) : c \in Transitive} \cup {PropagateAll(Fix(s, {src})) : src \in Failed}

-----------------------------------------------------------------------------
\* schedule_probes: the roots of the binary implication graph.  Satisfied large
\* clauses go; one with two literals left counts as binary.
ScheduleProbes(s) ==
  LET Stays(c) == Cardinality(c) = 2 \/ ~Satisfied(s, c)
  IN [s EXCEPT !.clauses = {c \in @ : Stays(c)}, !.learned = {c \in @ : Stays(c)}]

Roots(s) ==
  LET binary == {c \in s.clauses \cup s.learned : ~Satisfied(s, c) /\ Cardinality(Live(s, c)) = 2}
      occurring == UNION {Live(s, c) : c \in binary}
  IN {lit \in Negated(occurring) : lit \notin occurring}

(* A probe is assumed at level 1 and propagated.  Each literal gets a       *)
(* binary reason, if need be a hyper binary resolvent, so that the reasons  *)
(* form a tree: "path" maps a true literal to those between the probe and   *)
(* it, "hyper" are the resolvents.                                          *)

\* With a mistake: the literal with the longest path, which need not dominate all.
DominatorDeepest(path, lits) ==
  CHOOSE d \in lits : \A lit \in lits : Cardinality(path[lit]) <= Cardinality(path[d])

\* kissat_find_dominator: the last literal common to the paths of all.
Dominator(path, lits) ==
  CHOOSE d \in DOMAIN path : path[d] = {o \in DOMAIN path : \A lit \in lits : o \in path[lit]}

\* The literals true at level 1 that make those of a clause false.
FalseAt(path, c) == {lit \in DOMAIN path : -lit \in c}

\* binary_propagate_literal and large_propagate_literal: one assignment
Assigning(s, t) ==
  LET true == s.true \cup DOMAIN t.path
      units == {u \in (s.clauses \cup s.learned) \X ActiveLiterals(s) :
                  /\ u[2] \in u[1] \ Negated(true) /\ u[2] \notin true
                  /\ u[1] \ {u[2]} \subseteq Negated(true)}
      Grown(c, lit) ==
        LET falsified == FalseAt(t.path, c)
            dom == Dominator(t.path, falsified)
        IN [path |-> [o \in DOMAIN t.path \cup {lit} |->
                        IF o = lit THEN t.path[dom] \cup {lit} ELSE t.path[o]],
            hyper |-> t.hyper \cup (IF Cardinality(falsified) > 1 THEN {{-dom, lit}} ELSE {})]
  IN {Grown(u[1], u[2]) : u \in units}

\* kissat_hyper_propagate: what may be reached, in any order of the clauses
HyperPropagated(s, probe) ==
  LET start == [path |-> [lit \in {probe} |-> {probe}], hyper |-> {}]
      after[n \in 0..N] ==
        IF n = 0 THEN {start}
        ELSE after[n - 1] \cup UNION {Assigning(s, t) : t \in after[n - 1]}
  IN after[N]

\* probe_round, for one probe: on a conflict kissat_analyze learns that the
\* dominator of the falsified clause fails, and with it the probe does.
Probed(s, probe) ==
  LET Conflicts(t) == {c \in s.clauses \cup s.learned :
                         c \subseteq Negated(s.true \cup DOMAIN t.path)}
      Learned(t) == [s EXCEPT !.learned = @ \cup t.hyper]
      Failed(t, c) ==
        LET uip == Dominator(t.path, FalseAt(t.path, c))
        IN PropagateAll(Fix(Learned(t), {-uip, -probe}))
      reached == HyperPropagated(s, probe)
  IN {Learned(t) : t \in {r \in reached : Conflicts(r) = {} /\ Assigning(s, r) = {}}}
       \cup UNION {{Failed(t, c) : c \in Conflicts(t)} : t \in reached}

-----------------------------------------------------------------------------
\* vivify_analyze: the clauses because of which a candidate may go
\* With a mistake: redundant clauses count for an irredundant candidate.
VivifyWitnessesAny(s, copy) == Copies(s) \ {copy}

VivifyWitnesses(s, copy) ==
  {c \in Copies(s) \ {copy} : copy.redundant \/ ~c.redundant}

(* vivify_clause and vivify_learn: the negations of some literals of the    *)
(* candidate are assumed and the other clauses propagated.  On a conflict   *)
(* the candidate is removed if it is subsumed or, when irredundant, implied *)
(* by irredundant clauses, and is otherwise shrunken to the literals that   *)
(* took part.  A redundant candidate with an implied literal is removed     *)
(* (the option "vivifyimply" is 2).                                         *)
Vivified(s, copy) ==
  LET lits == Live(s, copy.lits)
      others == Copies(s) \ {copy}
      Assumed(from, some) == UnitClosure(LitsOfCopies(from), s.true \cup Negated(some))
      Conflict(from, some) ==
        LET all == Assumed(from, some) IN all \cap Negated(all) # {}
      witnesses == VivifyWitnesses(s, copy)
      subsumed == \E c \in witnesses : Live(s, c.lits) \subseteq lits
      implied == IF copy.redundant
                 THEN \E lit \in lits : lit \in Assumed(others, lits \ {lit})
                 ELSE Conflict(witnesses, lits)
      Shrink(some) ==
        IF Cardinality(some) = 1 THEN PropagateAll(Fix(Drop(s, copy), some))
        ELSE Put(Drop(s, copy), Copy(some, copy.redundant))
  IN {Shrink(some) : some \in {part \in SUBSET lits \ {{}, lits} : Conflict(others, part)}}
       \cup (IF subsumed \/ implied THEN {Drop(s, copy)} ELSE {})

\* simplify_vivification_candidate: a candidate loses its false literals first.
Vivifications(s) ==
  LET candidates == {c \in Copies(s) : Cardinality(c.lits) > 2}
      Simplified(c) == IF Satisfied(s, c.lits) THEN Drop(s, c)
                       ELSE Put(Drop(s, c), Copy(Live(s, c.lits), c.redundant))
      Open(c) == Cardinality(Live(s, c.lits)) > 2 /\ ~Satisfied(s, c.lits)
  IN IF s.learned = {} THEN {}
     ELSE {Simplified(c) : c \in candidates}
            \cup UNION {Vivified(s, c) : c \in {d \in candidates : Open(d)}}
=============================================================================
