----------------------------- MODULE KissatGates -----------------------------
(***************************************************************************)
(* Gates: clauses of the formula that define a variable by others.  When   *)
(* the variable is eliminated, the clauses of its gate are resolved with   *)
(* the remaining clauses only.  The operators are the functions of gates.c,*)
(* equivalences.c, ands.c, ifthenelse.c, xors.c and resolve.c.             *)
(*                                                                         *)
(* A gate of a literal is a record: the gate clauses with the literal, the *)
(* gate clauses with its negation, and whether these two sets must be      *)
(* resolved with each other too, which the code needs if one of them is    *)
(* stronger than the gate asks for.                                        *)
(***************************************************************************)
EXTENDS KissatExternal

CONSTANT XorSize  \* bounds.xor.clause_size: the largest clause of a XOR gate

Occurrences(s, lit) == {c \in s.clauses : lit \in c}
IsLarge(c)          == Cardinality(c) > 2
Large(s, lit)       == {c \in Occurrences(s, lit) : IsLarge(c)}
BinaryOther(s, lit) == {other \in Lit : other # lit /\ {lit, other} \in s.clauses}

Gate(with, without, resolve) == [with |-> with, without |-> without, resolve |-> resolve]
Turned(gates) == {Gate(g.without, g.with, g.resolve) : g \in gates}
NoGate == Gate({}, {}, FALSE)

-----------------------------------------------------------------------------
\* kissat_find_equivalence_gate
EquivalenceGates(s, lit) ==
  {Gate({{lit, -other}}, {{-lit, other}}, FALSE) :
     other \in BinaryOther(s, -lit) \cap Negated(BinaryOther(s, lit))}

\* kissat_find_and_gate: the literal implies each of several literals, and a
\* large base clause says that these together imply the literal.
AndGates(s, lit) ==
  LET Inputs(base) == Negated(Live(s, base) \ {-lit})
  IN {Gate({{lit, other} : other \in Inputs(base)}, {base}, FALSE) :
        base \in {c \in Large(s, -lit) : /\ Cardinality(BinaryOther(s, lit)) > 1
                                         /\ Inputs(c) \subseteq BinaryOther(s, lit)}}

\* match_ternary_watch and match_lits_watch: a clause that has no other literals
Matching(s, lit, lits) == {c \in Occurrences(s, lit) : Live(s, c) \subseteq lits}
Strict(s, matches, size) == \E c \in matches : Cardinality(Live(s, c)) < size

\* kissat_find_if_then_else_gate: -lit = IF -cond THEN -arm of the first clause
\* ELSE -arm of the second
IteGates(s, lit) ==
  LET Ternary == {c \in Large(s, lit) : Cardinality(Live(s, c)) = 3}
      Arm(c, cond) == CHOOSE arm \in Live(s, c) : arm \notin {lit, cond}
      Found == {t \in Ternary \X Ternary \X (Lit \ {lit}) :
                  /\ t[3] \in Live(s, t[1]) /\ -t[3] \in Live(s, t[2])
                  /\ VarOf(Arm(t[1], t[3])) # VarOf(Arm(t[2], -t[3]))}
      Matches(c, cond) == Matching(s, -lit, {-lit, cond, -Arm(c, cond)})
  IN UNION {{Gate({t[1], t[2]}, {c, d}, Strict(s, {c, d}, 3)) :
               c \in Matches(t[1], t[3]), d \in Matches(t[2], -t[3])} : t \in Found}

\* kissat_find_xor_gate: every clause with an even number of its signs changed
XorGates(s, lit) ==
  LET Base == {c \in Large(s, lit) : /\ Cardinality(c) <= XorSize
                                     /\ Cardinality(Live(s, c)) >= 3}
      Patterns(base) ==
        {(base \ flips) \cup Negated(flips) :
           flips \in {f \in SUBSET base : f # {} /\ Cardinality(f) % 2 = 0}}
      LitOf(pattern) == IF lit \in pattern THEN lit ELSE -lit
      Matchings(base) ==
        {m \in [Patterns(base) -> s.clauses] :
           \A p \in Patterns(base) : m[p] \in Matching(s, LitOf(p), p)}
      Found(base, m) ==
        LET all == {m[p] : p \in DOMAIN m}
        IN Gate({base} \cup {c \in all : lit \in c}, {c \in all : -lit \in c},
                Strict(s, all, Cardinality(Live(s, base))))
  IN IF Cardinality(Large(s, lit)) < 2 \/ Cardinality(Large(s, -lit)) < 2 THEN {}
     ELSE UNION {{Found(base, m) : m \in Matchings(Live(s, base))} : base \in Base}

\* kissat_find_gates; the searches for the last two kinds may reach their limits.
Gates(s, lit) ==
  LET equivalence == EquivalenceGates(s, lit)
      and    == AndGates(s, lit)
      andNot == AndGates(s, -lit)
  IN CASE Occurrences(s, -lit) = {} -> {NoGate}
       [] equivalence # {} -> equivalence
       [] OTHER -> CASE and # {}    -> and
                     [] andNot # {} -> Turned(andNot)
                     [] OTHER -> UNION {IteGates(s, lit), Turned(IteGates(s, -lit)),
                                        XorGates(s, lit), Turned(XorGates(s, -lit)), {NoGate}}

-----------------------------------------------------------------------------
\* generate_resolvents: the literals of the second clause that are false are
\* dropped here, those of the first one later.
Resolvent(s, lit, c, d) == (c \ {lit}) \cup (Live(s, d) \ {-lit})
Tautological(lits) == \E lit \in lits : -lit \in lits

ResolvingPairs(s, lit, with, without) ==
  {p \in with \X without :
     ~Tautological((p[1] \ {lit}) \cup (p[2] \ {-lit}))}

\* The clauses that resolve with each other when "lit" is eliminated.
\* With a mistake: the two sides of a gate are never resolved.
PairsNoGateGate(s, lit, gate) ==
  LET with    == Occurrences(s, lit) \ gate.with
      without == Occurrences(s, -lit) \ gate.without
  IN IF gate = NoGate THEN ResolvingPairs(s, lit, with, without)
     ELSE ResolvingPairs(s, lit, gate.with, without)
            \cup ResolvingPairs(s, lit, with, gate.without)

\* get_antecedents and kissat_generate_resolvents
Pairs(s, lit, gate) ==
  LET with    == Occurrences(s, lit) \ gate.with
      without == Occurrences(s, -lit) \ gate.without
  IN IF gate = NoGate THEN ResolvingPairs(s, lit, with, without)
     ELSE ResolvingPairs(s, lit, gate.with, without)
            \cup ResolvingPairs(s, lit, with, gate.without)
            \cup (IF gate.resolve THEN ResolvingPairs(s, lit, gate.with, gate.without) ELSE {})

\* A variable is eliminated by its rarer literal, if few resolvents replace
\* the clauses; the literal of which all clauses are dropped is then pure.
Rarer(s, v) == IF Cardinality(Occurrences(s, v)) > Cardinality(Occurrences(s, -v)) THEN -v ELSE v

FewResolvents(s, lit, gate, bound) ==
  LET with    == Cardinality(Occurrences(s, lit))
      without == Cardinality(Occurrences(s, -lit))
  IN Cardinality(Pairs(s, lit, gate)) <= with + without + (IF with = 0 THEN 0 ELSE bound)

Resolvents(s, lit, gate) ==
  {Resolvent(s, lit, p[1], p[2]) : p \in Pairs(s, lit, gate)}
=============================================================================
