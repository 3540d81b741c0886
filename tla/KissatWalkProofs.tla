-------------------------- MODULE KissatWalkProofs --------------------------
(***************************************************************************)
(* Theorems about KissatWalk for any formula: the counters are exact and    *)
(* the best assignment is saved.                                            *)
(***************************************************************************)
EXTENDS KissatWalk, FiniteSetTheorems, SequenceTheorems, TLAPS

Nats == INSTANCE Induction WITH Op <- LAMBDA p, d, x : d  \* for its lemmas about numbers

-----------------------------------------------------------------------------
(* The operators. *)

\* Ascending lists each element of a set once.
LEMMA AscendingLists ==
  ASSUME NEW S, S \subseteq Nat, IsFiniteSet(S)
  PROVE  /\ Cardinality(S) \in Nat
         /\ Ascending(S) \in [1..Cardinality(S) -> S]
         /\ \A i, j \in 1..Cardinality(S) : Ascending(S)[i] = Ascending(S)[j] => i = j
         /\ \A x \in S : \E i \in 1..Cardinality(S) : Ascending(S)[i] = x
<1> DEFINE n == Cardinality(S)
           Below(x) == {y \in S : y < x}
           rank == [x \in S |-> Cardinality(Below(x)) + 1]
<1>1. n \in Nat BY FS_CardinalityType
<1>2. ASSUME NEW x \in S
      PROVE  /\ IsFiniteSet(Below(x)) /\ Cardinality(Below(x)) \in Nat
             /\ IsFiniteSet(Below(x) \cup {x})
             /\ Cardinality(Below(x) \cup {x}) = Cardinality(Below(x)) + 1
             /\ Cardinality(Below(x)) + 1 <= n
  <2>1. Below(x) \in SUBSET S /\ Below(x) \cup {x} \in SUBSET S OBVIOUS
  <2>2. IsFiniteSet(Below(x)) BY <2>1, FS_Subset
  <2>3. Cardinality(Below(x)) \in Nat BY <2>2, FS_CardinalityType
  <2>4. x \notin Below(x) OBVIOUS
  <2>5. /\ IsFiniteSet(Below(x) \cup {x})
        /\ Cardinality(Below(x) \cup {x}) = Cardinality(Below(x)) + 1
    BY <2>2, <2>4, FS_AddElement
  <2>6. Cardinality(Below(x) \cup {x}) <= n BY <2>1, FS_Subset
  <2>7. QED BY <2>2, <2>3, <2>5, <2>6
<1>3. ASSUME NEW x \in S, NEW z \in S, x < z
      PROVE  Cardinality(Below(x)) # Cardinality(Below(z))
  <2>1. ASSUME NEW y \in Below(x) \cup {x} PROVE y \in Below(z)
    <3>1. y \in S /\ y <= x BY <2>1
    <3>2. y \in Nat /\ x \in Nat /\ z \in Nat BY <3>1
    <3>3. QED BY <1>3, <3>1, <3>2
  <2> HIDE DEF Below
  <2>2. Below(x) \cup {x} \in SUBSET Below(z) BY <2>1
  <2>3. IsFiniteSet(Below(z)) BY <1>2
  <2>4. Cardinality(Below(x) \cup {x}) <= Cardinality(Below(z)) BY <2>2, <2>3, FS_Subset
  <2>5. /\ Cardinality(Below(x)) \in Nat /\ Cardinality(Below(z)) \in Nat
        /\ Cardinality(Below(x) \cup {x}) = Cardinality(Below(x)) + 1
    BY <1>2
  <2>6. QED BY <2>4, <2>5
<1> HIDE DEF Below
<1>4. rank \in [S -> 1..n]
  <2>1. ASSUME NEW x \in S PROVE Cardinality(Below(x)) + 1 \in 1..n
    <3>1. Cardinality(Below(x)) \in Nat /\ Cardinality(Below(x)) + 1 <= n BY <1>2
    <3>2. QED BY <1>1, <3>1
  <2>2. QED BY <2>1
<1>5. ASSUME NEW x \in S, NEW z \in S, rank[x] = rank[z] PROVE x = z
  <2>1. Cardinality(Below(x)) = Cardinality(Below(z))
    <3>1. Cardinality(Below(x)) \in Nat /\ Cardinality(Below(z)) \in Nat BY <1>2
    <3>2. Cardinality(Below(x)) + 1 = Cardinality(Below(z)) + 1 BY <1>5
    <3>3. QED BY <3>1, <3>2
  <2>2. x \in Nat /\ z \in Nat OBVIOUS
  <2>3. ~ (x < z) /\ ~ (z < x) BY <2>1, <1>3
  <2>4. QED BY <2>2, <2>3
<1>6. rank \in Injection(S, 1..n) BY <1>4, <1>5 DEF Injection, IsInjective
<1>7. IsFiniteSet(1..n) /\ Cardinality(1..n) = n BY <1>1, FS_Interval
<1>8. rank \in Surjection(S, 1..n) BY <1>6, <1>7, FS_Injection
<1>9. ASSUME NEW i \in 1..n PROVE \E x \in S : rank[x] = i
  BY <1>8 DEF Surjection
<1>10. Ascending(S) = [i \in 1..n |-> CHOOSE x \in S : Cardinality(Below(x)) = i - 1]
  BY DEF Ascending, Below
<1>11. ASSUME NEW i \in 1..n PROVE Ascending(S)[i] \in S /\ rank[Ascending(S)[i]] = i
  <2>1. PICK z \in S : rank[z] = i BY <1>9
  <2>2. Cardinality(Below(z)) \in Nat BY <1>2
  <2>3. Cardinality(Below(z)) = i - 1 BY <2>1, <2>2
  <2>4. Ascending(S)[i] \in S /\ Cardinality(Below(Ascending(S)[i])) = i - 1
    BY <1>10, <2>3
  <2>5. QED BY <2>4
<1>12. Ascending(S) \in [1..n -> S] BY <1>10, <1>11
<1>13. ASSUME NEW i \in 1..n, NEW j \in 1..n, Ascending(S)[i] = Ascending(S)[j]
       PROVE  i = j
  BY <1>11, <1>13
<1>14. ASSUME NEW x \in S PROVE \E i \in 1..n : Ascending(S)[i] = x
  <2>1. rank[x] \in 1..n BY <1>4
  <2>2. rank[Ascending(S)[rank[x]]] = rank[x] /\ Ascending(S)[rank[x]] \in S BY <1>11, <2>1
  <2>3. Ascending(S)[rank[x]] = x BY <1>5, <2>2
  <2>4. QED BY <2>1, <2>3
<1>15. QED BY <1>1, <1>12, <1>13, <1>14

\* The list unsat of the walker w holds the counters Z among R, each once and
\* at the place that it knows.
Listed(w, R, Z) ==
  /\ w \in [counters : [R -> [count : Nat, pos : Nat]], unsat : Seq(R)]
  /\ Z \subseteq R
  /\ \A r \in Z : w.counters[r].pos \in 1..Len(w.unsat) /\ w.unsat[w.counters[r].pos] = r
  /\ \A i \in 1..Len(w.unsat) : w.unsat[i] \in Z /\ w.counters[w.unsat[i]].pos = i

\* The list after a change keeps the counts.
SameCounts(w, x, R) == \A r \in R : x.counters[r].count = w.counters[r].count

LEMMA PushLists ==
  ASSUME NEW R, NEW Z, NEW w, Listed(w, R, Z), NEW r \in R, r \notin Z
  PROVE  Listed(Push(w, r), R, Z \cup {r}) /\ SameCounts(w, Push(w, r), R)
<1> DEFINE x == Push(w, r)
           n == Len(w.unsat)
<1>1. w.unsat \in Seq(R) /\ n \in Nat BY LenProperties DEF Listed
<1>2. w.counters \in [R -> [count : Nat, pos : Nat]] BY DEF Listed
<1>3. x = [counters |-> [w.counters EXCEPT ![r].pos = n + 1], unsat |-> Append(w.unsat, r)]
  BY DEF Push
<1>4. x.unsat \in Seq(R) /\ Len(x.unsat) = n + 1 /\ x.unsat[n + 1] = r
      /\ \A i \in 1..n : x.unsat[i] = w.unsat[i]
  BY <1>1, <1>3, AppendProperties
<1>5. x.counters \in [R -> [count : Nat, pos : Nat]]
      /\ x.counters[r].pos = n + 1
      /\ \A q \in R : x.counters[q].count = w.counters[q].count
                   /\ (q # r => x.counters[q].pos = w.counters[q].pos)
  BY <1>1, <1>2, <1>3
<1>6. x \in [counters : [R -> [count : Nat, pos : Nat]], unsat : Seq(R)]
  BY <1>3, <1>4, <1>5
<1> HIDE DEF x
<1>7. ASSUME NEW q \in Z \cup {r}
      PROVE  x.counters[q].pos \in 1..n + 1 /\ x.unsat[x.counters[q].pos] = q
  <2>1. CASE q = r BY <2>1, <1>1, <1>4, <1>5
  <2>2. CASE q # r
    <3>1. q \in R /\ w.counters[q].pos \in 1..n /\ w.unsat[w.counters[q].pos] = q
      BY <2>2 DEF Listed
    <3>2. x.counters[q].pos = w.counters[q].pos BY <3>1, <2>2, <1>5
    <3>3. QED BY <1>1, <1>4, <3>1, <3>2
  <2>3. QED BY <2>1, <2>2
<1>8. ASSUME NEW i \in 1..n + 1
      PROVE  x.unsat[i] \in Z \cup {r} /\ x.counters[x.unsat[i]].pos = i
  <2>1. CASE i = n + 1 BY <2>1, <1>4, <1>5
  <2>2. CASE i # n + 1
    <3>1. i \in 1..n BY <2>2, <1>1
    <3>2. w.unsat[i] \in Z /\ w.unsat[i] \in R /\ w.counters[w.unsat[i]].pos = i
      BY <3>1 DEF Listed
    <3>3. QED BY <3>1, <3>2, <1>4, <1>5
  <2>3. QED BY <2>1, <2>2
<1>9. QED BY <1>4, <1>5, <1>6, <1>7, <1>8 DEF Listed, SameCounts, x

LEMMA PopLists ==
  ASSUME NEW R, NEW Z, NEW w, Listed(w, R, Z), NEW r \in Z
  PROVE  Listed(Pop(w, r), R, Z \ {r}) /\ SameCounts(w, Pop(w, r), R)
<1> DEFINE x == Pop(w, r)
           n == Len(w.unsat)
           pos == w.counters[r].pos
           other == w.unsat[n]
           moved == [w.unsat EXCEPT ![pos] = other]
<1>1. w.unsat \in Seq(R) /\ n \in Nat BY LenProperties DEF Listed
<1>2. w.counters \in [R -> [count : Nat, pos : Nat]] BY DEF Listed
<1>3. r \in R /\ pos \in 1..n /\ w.unsat[pos] = r BY DEF Listed
<1>4. n \in 1..n /\ n - 1 \in Nat BY <1>1, <1>3
<1>5. other \in Z /\ other \in R /\ w.counters[other].pos = n BY <1>4 DEF Listed
<1>6. x = [counters |-> [w.counters EXCEPT ![other].pos = pos, ![r].pos = 0],
           unsat |-> SubSeq(moved, 1, Len(moved) - 1)]
  BY DEF Pop, Front, Last
<1>7. moved \in Seq(R) /\ Len(moved) = n
      /\ \A i \in 1..n : moved[i] = IF i = pos THEN other ELSE w.unsat[i]
  BY <1>1, <1>3, <1>5, ExceptSeq
<1> HIDE DEF moved
<1>8. x.unsat \in Seq(R) /\ Len(x.unsat) = n - 1
      /\ \A i \in 1..n - 1 : x.unsat[i] = IF i = pos THEN other ELSE w.unsat[i]
  <2>1. \A i \in 1..n - 1 : moved[i] \in R BY <1>1, <1>7, ElementOfSeq
  <2>2. SubSeq(moved, 1, n - 1) \in Seq(R) BY <1>4, <2>1, SubSeqProperties
  <2>3. Len(SubSeq(moved, 1, n - 1)) = n - 1
        /\ \A i \in 1..n - 1 : SubSeq(moved, 1, n - 1)[i] = moved[i]
    BY <1>4, SubSeqProperties
  <2>4. QED BY <1>1, <1>4, <1>6, <1>7, <2>2, <2>3
<1>9. x.counters \in [R -> [count : Nat, pos : Nat]]
      /\ \A q \in R : x.counters[q].count = w.counters[q].count
                   /\ (q # r /\ q # other => x.counters[q].pos = w.counters[q].pos)
                   /\ (q # r /\ q = other => x.counters[q].pos = pos)
  <2>1. pos \in Nat /\ 0 \in Nat BY <1>3
  <2> HIDE DEF pos, other
  <2>2. x.counters = [w.counters EXCEPT ![other].pos = pos, ![r].pos = 0] BY <1>6
  <2> HIDE DEF x
  <2> DEFINE c == [w.counters EXCEPT ![other].pos = pos]
  <2>3. c \in [R -> [count : Nat, pos : Nat]]
        /\ \A q \in R : c[q].count = w.counters[q].count
                     /\ c[q].pos = IF q = other THEN pos ELSE w.counters[q].pos
    BY <1>2, <1>5, <2>1
  <2>4. x.counters = [c EXCEPT ![r].pos = 0] BY <2>2
  <2> HIDE DEF c
  <2>5. x.counters \in [R -> [count : Nat, pos : Nat]]
        /\ \A q \in R : x.counters[q].count = c[q].count
                     /\ (q # r => x.counters[q].pos = c[q].pos)
    <3>1. PICK f : f = x.counters OBVIOUS
    <3>2. f = [c EXCEPT ![r].pos = 0] BY <2>4, <3>1
    <3>3. c \in [R -> [count : Nat, pos : Nat]] BY <2>3
    <3>4. f \in [R -> [count : Nat, pos : Nat]] BY ONLY <3>2, <3>3
    <3>5. \A q \in R : f[q].count = c[q].count /\ (q # r => f[q].pos = c[q].pos)
      BY ONLY <3>2, <3>3
    <3>6. QED BY <3>1, <3>4, <3>5
  <2>6. QED BY <2>3, <2>5
<1>10. x \in [counters : [R -> [count : Nat, pos : Nat]], unsat : Seq(R)]
  BY <1>6, <1>8, <1>9
<1> HIDE DEF x
<1>11. ASSUME NEW q \in Z \ {r}
       PROVE  x.counters[q].pos \in 1..n - 1 /\ x.unsat[x.counters[q].pos] = q
  <2>1. w.counters[q].pos \in 1..n /\ w.unsat[w.counters[q].pos] = q /\ q \in R
    BY DEF Listed
  <2>2. CASE q = other
    <3>1. pos # n BY <1>3, <2>2
    <3>2. x.counters[q].pos = pos BY <2>1, <2>2, <1>9
    <3>3. pos \in 1..n - 1 BY <1>1, <1>3, <3>1
    <3>4. QED BY <1>8, <2>2, <3>2, <3>3
  <2>3. CASE q # other
    <3>1. w.counters[q].pos # n BY <2>1, <2>3
    <3>2. w.counters[q].pos # pos BY <1>3, <2>1
    <3>3. x.counters[q].pos = w.counters[q].pos BY <2>1, <2>3, <1>9
    <3>4. w.counters[q].pos \in 1..n - 1 BY <1>1, <2>1, <3>1
    <3>5. QED BY <1>8, <2>1, <3>2, <3>3, <3>4
  <2>4. QED BY <2>2, <2>3
<1>12. ASSUME NEW i \in 1..n - 1
       PROVE  x.unsat[i] \in Z \ {r} /\ x.counters[x.unsat[i]].pos = i
  <2>1. i \in 1..n /\ i # n BY <1>1
  <2>2. w.unsat[i] \in Z /\ w.unsat[i] \in R /\ w.counters[w.unsat[i]].pos = i
    BY <2>1 DEF Listed
  <2>3. CASE i = pos
    <3>1. other # r BY <1>3, <1>5, <2>1, <2>3
    <3>2. QED BY <1>5, <1>8, <1>9, <2>3, <3>1
  <2>4. CASE i # pos
    <3>1. w.unsat[i] # r BY <2>2, <2>4
    <3>2. w.unsat[i] # other BY <1>5, <2>1, <2>2
    <3>3. QED BY <1>8, <1>9, <2>2, <2>4, <3>1, <3>2
  <2>5. QED BY <2>3, <2>4
<1>13. Z \ {r} \subseteq R BY DEF Listed
<1>14. QED BY <1>8, <1>9, <1>10, <1>11, <1>12, <1>13 DEF Listed, SameCounts, x

-----------------------------------------------------------------------------
(* A flip. *)

Zero(w, R) == {r \in R : w.counters[r].count = 0}

\* The list unsat of w is that of the clauses with count 0.
Exact(w, R) == Listed(w, R, Zero(w, R))

LEMMA MakeExact ==
  ASSUME NEW R, NEW w, Exact(w, R), NEW r \in R
  PROVE  /\ Exact(Make(w, r), R)
         /\ \A q \in R : Make(w, r).counters[q].count
                           = w.counters[q].count + (IF q = r THEN 1 ELSE 0)
<1> DEFINE more == [counters |-> [w.counters EXCEPT ![r].count = @ + 1], unsat |-> w.unsat]
           Z == Zero(w, R)
<1>1. w \in [counters : [R -> [count : Nat, pos : Nat]], unsat : Seq(R)]
  BY DEF Exact, Listed
<1>2. more.unsat = w.unsat
      /\ more.counters \in [R -> [count : Nat, pos : Nat]]
      /\ more \in [counters : [R -> [count : Nat, pos : Nat]], unsat : Seq(R)]
      /\ \A q \in R : more.counters[q].pos = w.counters[q].pos
                   /\ more.counters[q].count
                        = w.counters[q].count + (IF q = r THEN 1 ELSE 0)
  <2>1. w.counters \in [R -> [count : Nat, pos : Nat]] /\ w.unsat \in Seq(R)
    BY <1>1
  <2>2. more = [counters |-> [w.counters EXCEPT ![r].count = @ + 1], unsat |-> w.unsat]
    OBVIOUS
  <2> HIDE DEF more
  <2>3. \A q \in R : w.counters[q].count \in Nat /\ w.counters[q].pos \in Nat BY <2>1
  <2>4. w.counters[r].count + 1 \in Nat BY <2>3
  <2>5. more.counters \in [R -> [count : Nat, pos : Nat]]
        /\ \A q \in R : more.counters[q].pos = w.counters[q].pos
                     /\ more.counters[q].count
                          = w.counters[q].count + (IF q = r THEN 1 ELSE 0)
    BY <2>1, <2>2, <2>3, <2>4
  <2>6. QED BY <2>1, <2>2, <2>5
<1>3. Make(w, r) = IF w.counters[r].count = 0 THEN Pop(more, r) ELSE more
  BY DEF Make
<1> HIDE DEF more
<1>4. Z \subseteq R BY DEF Zero
<1>5. Listed(more, R, Z) BY <1>2, <1>4, SMTT(30) DEF Exact, Listed
<1>6. \A q \in R : w.counters[q].count \in Nat BY <1>1
<1>7. CASE w.counters[r].count = 0
  <2>1. r \in Z BY <1>7 DEF Zero
  <2>2. Listed(Pop(more, r), R, Z \ {r}) /\ SameCounts(more, Pop(more, r), R)
    BY <1>5, <2>1, PopLists
  <2>3. \A q \in R : Pop(more, r).counters[q].count
                       = w.counters[q].count + (IF q = r THEN 1 ELSE 0)
    BY <1>2, <2>2 DEF SameCounts
  <2>4. Zero(Pop(more, r), R) = Z \ {r} BY <1>6, <2>3 DEF Zero
  <2>5. QED BY <1>3, <1>7, <2>2, <2>3, <2>4 DEF Exact
<1>8. CASE w.counters[r].count # 0
  <2>1. \A q \in R : more.counters[q].count = 0 <=> w.counters[q].count = 0
    BY <1>2, <1>6, <1>8, SMTT(30)
  <2>2. Zero(more, R) = Z BY <2>1 DEF Zero
  <2>3. QED BY <1>2, <1>3, <1>5, <1>8, <2>2 DEF Exact
<1>9. QED BY <1>7, <1>8

LEMMA BreakExact ==
  ASSUME NEW R, NEW w, Exact(w, R), NEW r \in R, w.counters[r].count > 0
  PROVE  /\ Exact(Break(w, r), R)
         /\ \A q \in R : Break(w, r).counters[q].count
                           = w.counters[q].count - (IF q = r THEN 1 ELSE 0)
<1> DEFINE less == [counters |-> [w.counters EXCEPT ![r].count = @ - 1], unsat |-> w.unsat]
           Z == Zero(w, R)
<1>1. w \in [counters : [R -> [count : Nat, pos : Nat]], unsat : Seq(R)]
  BY DEF Exact, Listed
<1>2. less.unsat = w.unsat
      /\ less.counters \in [R -> [count : Nat, pos : Nat]]
      /\ less \in [counters : [R -> [count : Nat, pos : Nat]], unsat : Seq(R)]
      /\ \A q \in R : less.counters[q].pos = w.counters[q].pos
                   /\ less.counters[q].count
                        = w.counters[q].count - (IF q = r THEN 1 ELSE 0)
  <2>1. w.counters \in [R -> [count : Nat, pos : Nat]] /\ w.unsat \in Seq(R)
    BY <1>1
  <2>2. less = [counters |-> [w.counters EXCEPT ![r].count = @ - 1], unsat |-> w.unsat]
    OBVIOUS
  <2> HIDE DEF less
  <2>3. \A q \in R : w.counters[q].count \in Nat /\ w.counters[q].pos \in Nat BY <2>1
  <2>4. w.counters[r].count - 1 \in Nat BY <2>3
  <2>5. less.counters \in [R -> [count : Nat, pos : Nat]]
        /\ \A q \in R : less.counters[q].pos = w.counters[q].pos
                     /\ less.counters[q].count
                          = w.counters[q].count - (IF q = r THEN 1 ELSE 0)
    BY <2>1, <2>2, <2>3, <2>4
  <2>6. QED BY <2>1, <2>2, <2>5
<1>3. Break(w, r) = IF less.counters[r].count = 0 THEN Push(less, r) ELSE less
  BY DEF Break
<1> HIDE DEF less
<1>4. Z \subseteq R /\ r \notin Z BY DEF Zero
<1>5. Listed(less, R, Z) BY <1>2, <1>4, SMTT(30) DEF Exact, Listed
<1>6. \A q \in R : w.counters[q].count \in Nat BY <1>1
<1>7. CASE less.counters[r].count = 0
  <2>1. Listed(Push(less, r), R, Z \cup {r}) /\ SameCounts(less, Push(less, r), R)
    BY <1>4, <1>5, PushLists
  <2>2. \A q \in R : Push(less, r).counters[q].count
                       = w.counters[q].count - (IF q = r THEN 1 ELSE 0)
    BY <1>2, <2>1 DEF SameCounts
  <2>3. w.counters[r].count = 1 BY <1>2, <1>6, <1>7
  <2>4. Zero(Push(less, r), R) = Z \cup {r} BY <1>6, <2>2, <2>3 DEF Zero
  <2>5. QED BY <1>3, <1>7, <2>1, <2>2, <2>4 DEF Exact
<1>8. CASE less.counters[r].count # 0
  <2>1. ASSUME NEW q \in R
        PROVE  less.counters[q].count = 0 <=> w.counters[q].count = 0
    <3>1. CASE q = r BY <3>1, <1>6, <1>8
    <3>2. CASE q # r
      <4>1. less.counters[q].count = w.counters[q].count - 0 BY <3>2, <1>2
      <4>2. QED BY <4>1, <1>6
    <3>3. QED BY <3>1, <3>2
  <2>2. Zero(less, R) = Z BY <2>1 DEF Zero
  <2>3. QED BY <1>2, <1>3, <1>5, <1>8, <2>2 DEF Exact
<1>9. QED BY <1>7, <1>8

\* Made as a run over the sequence.
MakeRun(f, w, seq) ==
  /\ f[0] = w
  /\ \A k \in 1..Len(seq) : f[k] = Make(f[k - 1], seq[k])
  /\ Made(w, seq) = f[Len(seq)]

LEMMA MadeRuns ==
  ASSUME NEW R, NEW seq \in Seq(R), NEW w
  PROVE  \E f : MakeRun(f, w, seq)
<1> DEFINE IsRun(g, m) == g = [k \in 0..m |-> IF k = 0 THEN w ELSE Make(g[k - 1], seq[k])]
           T == {m \in Nat : \E g : IsRun(g, m)}
<1>1. Len(seq) \in Nat BY LenProperties
<1>2. 0 \in T
  <2> DEFINE g == [k \in 0..0 |-> w]
  <2>1. \A k \in 0..0 : k = 0 OBVIOUS
  <2>2. IsRun(g, 0) BY <2>1
  <2>3. QED BY <2>2
<1>3. ASSUME NEW m \in Nat, m \in T PROVE m + 1 \in T
  <2>1. PICK g : IsRun(g, m) BY <1>3
  <2> DEFINE h == [k \in 0..m + 1 |-> IF k = m + 1 THEN Make(g[m], seq[m + 1]) ELSE g[k]]
  <2>2. ASSUME NEW k \in 0..m + 1
        PROVE  h[k] = IF k = 0 THEN w ELSE Make(h[k - 1], seq[k])
    <3>1. CASE k = 0 BY <3>1, <2>1
    <3>2. CASE k = m + 1
      <4>1. h[k - 1] = g[m] /\ k # 0 BY <3>2
      <4>2. QED BY <3>2, <4>1
    <3>3. CASE k # 0 /\ k # m + 1
      <4>1. k \in 0..m /\ k - 1 \in 0..m /\ k - 1 \in 0..m + 1 /\ k - 1 # m + 1 BY <3>3
      <4>2. g[k] = Make(g[k - 1], seq[k]) BY <2>1, <3>3, <4>1
      <4>3. h[k] = g[k] /\ h[k - 1] = g[k - 1] BY <3>3, <4>1
      <4>4. QED BY <3>3, <4>2, <4>3
    <3>4. QED BY <3>1, <3>2, <3>3
  <2>3. h = [k \in 0..m + 1 |-> h[k]] OBVIOUS
  <2> HIDE DEF h
  <2>4. IsRun(h, m + 1) BY <2>2, <2>3
  <2> HIDE DEF IsRun
  <2>5. \E x : IsRun(x, m + 1) BY <2>4
  <2>6. QED BY <2>5
<1> HIDE DEF T
<1>4. Nat \subseteq T BY <1>2, <1>3, Nats!NatSetInduction
<1>5. \E g : IsRun(g, Len(seq)) BY <1>1, <1>4 DEF T
<1> DEFINE f == CHOOSE g : IsRun(g, Len(seq))
<1>6. Made(w, seq) = f[Len(seq)] BY DEF Made
<1> HIDE DEF IsRun
<1>7. IsRun(f, Len(seq)) BY <1>5
<1> HIDE DEF f
<1>8. f = [k \in 0..Len(seq) |-> IF k = 0 THEN w ELSE Make(f[k - 1], seq[k])]
  BY <1>7 DEF IsRun
<1>9. f[0] = w BY <1>1, <1>8
<1>10. ASSUME NEW k \in 1..Len(seq) PROVE f[k] = Make(f[k - 1], seq[k])
  <2>1. k \in 0..Len(seq) /\ k # 0 BY <1>1
  <2>2. QED BY <1>8, <2>1
<1>11. QED BY <1>6, <1>9, <1>10 DEF MakeRun

\* Broken as a run over the sequence.
BreakRun(f, w, seq) ==
  /\ f[0] = w
  /\ \A k \in 1..Len(seq) : f[k] = Break(f[k - 1], seq[k])
  /\ Broken(w, seq) = f[Len(seq)]

LEMMA BrokenRuns ==
  ASSUME NEW R, NEW seq \in Seq(R), NEW w
  PROVE  \E f : BreakRun(f, w, seq)
<1> DEFINE IsRun(g, m) == g = [k \in 0..m |-> IF k = 0 THEN w ELSE Break(g[k - 1], seq[k])]
           T == {m \in Nat : \E g : IsRun(g, m)}
<1>1. Len(seq) \in Nat BY LenProperties
<1>2. 0 \in T
  <2> DEFINE g == [k \in 0..0 |-> w]
  <2>1. \A k \in 0..0 : k = 0 OBVIOUS
  <2>2. IsRun(g, 0) BY <2>1
  <2>3. QED BY <2>2
<1>3. ASSUME NEW m \in Nat, m \in T PROVE m + 1 \in T
  <2>1. PICK g : IsRun(g, m) BY <1>3
  <2> DEFINE h == [k \in 0..m + 1 |-> IF k = m + 1 THEN Break(g[m], seq[m + 1]) ELSE g[k]]
  <2>2. ASSUME NEW k \in 0..m + 1
        PROVE  h[k] = IF k = 0 THEN w ELSE Break(h[k - 1], seq[k])
    <3>1. CASE k = 0 BY <3>1, <2>1
    <3>2. CASE k = m + 1
      <4>1. h[k - 1] = g[m] /\ k # 0 BY <3>2
      <4>2. QED BY <3>2, <4>1
    <3>3. CASE k # 0 /\ k # m + 1
      <4>1. k \in 0..m /\ k - 1 \in 0..m /\ k - 1 \in 0..m + 1 /\ k - 1 # m + 1 BY <3>3
      <4>2. g[k] = Break(g[k - 1], seq[k]) BY <2>1, <3>3, <4>1
      <4>3. h[k] = g[k] /\ h[k - 1] = g[k - 1] BY <3>3, <4>1
      <4>4. QED BY <3>3, <4>2, <4>3
    <3>4. QED BY <3>1, <3>2, <3>3
  <2>3. h = [k \in 0..m + 1 |-> h[k]] OBVIOUS
  <2> HIDE DEF h
  <2>4. IsRun(h, m + 1) BY <2>2, <2>3
  <2> HIDE DEF IsRun
  <2>5. \E x : IsRun(x, m + 1) BY <2>4
  <2>6. QED BY <2>5
<1> HIDE DEF T
<1>4. Nat \subseteq T BY <1>2, <1>3, Nats!NatSetInduction
<1>5. \E g : IsRun(g, Len(seq)) BY <1>1, <1>4 DEF T
<1> DEFINE f == CHOOSE g : IsRun(g, Len(seq))
<1>6. Broken(w, seq) = f[Len(seq)] BY DEF Broken
<1> HIDE DEF IsRun
<1>7. IsRun(f, Len(seq)) BY <1>5
<1> HIDE DEF f
<1>8. f = [k \in 0..Len(seq) |-> IF k = 0 THEN w ELSE Break(f[k - 1], seq[k])]
  BY <1>7 DEF IsRun
<1>9. f[0] = w BY <1>1, <1>8
<1>10. ASSUME NEW k \in 1..Len(seq) PROVE f[k] = Break(f[k - 1], seq[k])
  <2>1. k \in 0..Len(seq) /\ k # 0 BY <1>1
  <2>2. QED BY <1>8, <2>1
<1>11. QED BY <1>6, <1>9, <1>10 DEF BreakRun

LEMMA MadeExact ==
  ASSUME NEW R, NEW w, Exact(w, R), NEW seq \in Seq(R),
         \A i, j \in 1..Len(seq) : seq[i] = seq[j] => i = j
  PROVE  /\ Exact(Made(w, seq), R)
         /\ \A q \in R : Made(w, seq).counters[q].count
              = w.counters[q].count + (IF \E i \in 1..Len(seq) : seq[i] = q THEN 1 ELSE 0)
<1> DEFINE n == Len(seq)
           Seen(q, k) == \E i \in 1..k : seq[i] = q
<1>1. n \in Nat BY LenProperties
<1>2. \A i \in 1..n : seq[i] \in R BY ElementOfSeq
<1>3. PICK g : MakeRun(g, w, seq) BY MadeRuns
<1> DEFINE Good(k) == /\ Exact(g[k], R)
                      /\ \A q \in R : g[k].counters[q].count
                           = w.counters[q].count + (IF Seen(q, k) THEN 1 ELSE 0)
           T == {k \in Nat : k <= n => Good(k)}
<1>4. \A q \in R : w.counters[q].count \in Nat BY DEF Exact, Listed
<1>5. 0 \in T
  <2>1. \A q \in R : ~ Seen(q, 0) OBVIOUS
  <2>2. Good(0) BY <1>3, <1>4, <2>1 DEF MakeRun
  <2>3. QED BY <2>2
<1>6. ASSUME NEW k \in Nat, k \in T PROVE k + 1 \in T
  <2> SUFFICES ASSUME k + 1 <= n PROVE Good(k + 1) BY SMTT(30)
  <2>1. Good(k) /\ k + 1 \in 1..n /\ (k + 1) - 1 = k BY <1>1, <1>6
  <2>2. g[k + 1] = Make(g[k], seq[k + 1]) BY <1>3, <2>1 DEF MakeRun
  <2>3. seq[k + 1] \in R BY <1>2, <2>1
  <2>4. ~ Seen(seq[k + 1], k) BY <1>1, <2>1
  <2> HIDE DEF Seen
  <2>5. Exact(g[k], R) BY <2>1
  <2>6. /\ Exact(Make(g[k], seq[k + 1]), R)
        /\ \A q \in R : Make(g[k], seq[k + 1]).counters[q].count
              = g[k].counters[q].count + (IF q = seq[k + 1] THEN 1 ELSE 0)
    BY ONLY <2>3, <2>5, MakeExact
  <2>7. \A q \in R : Seen(q, k + 1) <=> Seen(q, k) \/ q = seq[k + 1]
    <3>1. \A i \in 1..k + 1 : i \in 1..k \/ i = k + 1 OBVIOUS
    <3>2. 1..k \subseteq 1..k + 1 /\ k + 1 \in 1..k + 1 OBVIOUS
    <3>3. QED BY <3>1, <3>2 DEF Seen
  <2>8. ASSUME NEW q \in R
        PROVE  g[k + 1].counters[q].count
                 = w.counters[q].count + (IF Seen(q, k + 1) THEN 1 ELSE 0)
    <3>1. g[k + 1].counters[q].count
            = g[k].counters[q].count + (IF q = seq[k + 1] THEN 1 ELSE 0)
      BY <2>2, <2>6
    <3>2. g[k].counters[q].count = w.counters[q].count + (IF Seen(q, k) THEN 1 ELSE 0)
      BY <2>1
    <3>3. CASE q = seq[k + 1] BY <1>4, <2>4, <2>7, <3>1, <3>2, <3>3
    <3>4. CASE q # seq[k + 1] BY <1>4, <2>7, <3>1, <3>2, <3>4
    <3>5. QED BY <3>3, <3>4
  <2>9. QED BY <2>2, <2>6, <2>8
<1> HIDE DEF Good
<1>7. n \in T BY <1>1, <1>5, <1>6, Nats!NatSetInduction
<1>8. Good(n) BY <1>1, <1>7
<1>9. QED BY <1>3, <1>8 DEF Good, MakeRun

LEMMA BrokenExact ==
  ASSUME NEW R, NEW w, Exact(w, R), NEW seq \in Seq(R),
         \A i, j \in 1..Len(seq) : seq[i] = seq[j] => i = j,
         \A i \in 1..Len(seq) : w.counters[seq[i]].count > 0
  PROVE  /\ Exact(Broken(w, seq), R)
         /\ \A q \in R : Broken(w, seq).counters[q].count
              = w.counters[q].count - (IF \E i \in 1..Len(seq) : seq[i] = q THEN 1 ELSE 0)
<1> DEFINE n == Len(seq)
           Seen(q, k) == \E i \in 1..k : seq[i] = q
<1>1. n \in Nat BY LenProperties
<1>2. \A i \in 1..n : seq[i] \in R BY ElementOfSeq
<1>3. PICK g : BreakRun(g, w, seq) BY BrokenRuns
<1> DEFINE Good(k) == /\ Exact(g[k], R)
                      /\ \A q \in R : g[k].counters[q].count
                           = w.counters[q].count - (IF Seen(q, k) THEN 1 ELSE 0)
           T == {k \in Nat : k <= n => Good(k)}
<1>4. \A q \in R : w.counters[q].count \in Nat BY DEF Exact, Listed
<1>5. 0 \in T
  <2>1. \A q \in R : ~ Seen(q, 0) OBVIOUS
  <2>2. Good(0) BY <1>3, <1>4, <2>1 DEF BreakRun
  <2>3. QED BY <2>2
<1>6. ASSUME NEW k \in Nat, k \in T PROVE k + 1 \in T
  <2> SUFFICES ASSUME k + 1 <= n PROVE Good(k + 1) OBVIOUS
  <2>1. Good(k) /\ k + 1 \in 1..n /\ (k + 1) - 1 = k BY <1>1, <1>6
  <2>2. g[k + 1] = Break(g[k], seq[k + 1]) BY <1>3, <2>1 DEF BreakRun
  <2>3. seq[k + 1] \in R BY <1>2, <2>1
  <2>4. ~ Seen(seq[k + 1], k) BY <1>1, <2>1
  <2> HIDE DEF Seen
  <2>5. g[k].counters[seq[k + 1]].count > 0
    <3>1. g[k].counters[seq[k + 1]].count = w.counters[seq[k + 1]].count - 0
      BY <2>1, <2>3, <2>4
    <3>2. w.counters[seq[k + 1]].count > 0 BY <2>1
    <3>3. QED BY <1>4, <2>3, <3>1, <3>2
  <2>10. Exact(g[k], R) BY <2>1
  <2>6. /\ Exact(Break(g[k], seq[k + 1]), R)
        /\ \A q \in R : Break(g[k], seq[k + 1]).counters[q].count
              = g[k].counters[q].count - (IF q = seq[k + 1] THEN 1 ELSE 0)
    BY ONLY <2>3, <2>5, <2>10, BreakExact
  <2>7. \A q \in R : Seen(q, k + 1) <=> Seen(q, k) \/ q = seq[k + 1]
    <3>1. \A i \in 1..k + 1 : i \in 1..k \/ i = k + 1 OBVIOUS
    <3>2. 1..k \subseteq 1..k + 1 /\ k + 1 \in 1..k + 1 OBVIOUS
    <3>3. QED BY <3>1, <3>2 DEF Seen
  <2>8. ASSUME NEW q \in R
        PROVE  g[k + 1].counters[q].count
                 = w.counters[q].count - (IF Seen(q, k + 1) THEN 1 ELSE 0)
    <3>1. g[k + 1].counters[q].count
            = g[k].counters[q].count - (IF q = seq[k + 1] THEN 1 ELSE 0)
      BY <2>2, <2>6
    <3>2. g[k].counters[q].count = w.counters[q].count - (IF Seen(q, k) THEN 1 ELSE 0)
      BY <2>1
    <3>3. CASE q = seq[k + 1] BY <1>4, <2>4, <2>7, <3>1, <3>2, <3>3
    <3>4. CASE q # seq[k + 1] BY <1>4, <2>7, <3>1, <3>2, <3>4
    <3>5. QED BY <3>3, <3>4
  <2>9. QED BY <2>2, <2>6, <2>8
<1> HIDE DEF Good
<1>7. n \in T BY <1>1, <1>5, <1>6, Nats!NatSetInduction
<1>8. Good(n) BY <1>1, <1>7
<1>9. QED BY <1>3, <1>8 DEF Good, BreakRun

Having(lit) == {r \in DOMAIN refs : lit \in Clause(refs[r])}

LEMMA OccurrencesList ==
  ASSUME NEW S, refs \in Seq(S), NEW lit
  PROVE  /\ Occurrences(lit) \in Seq(DOMAIN refs)
         /\ \A i, j \in 1..Len(Occurrences(lit)) :
              Occurrences(lit)[i] = Occurrences(lit)[j] => i = j
         /\ \A i \in 1..Len(Occurrences(lit)) : Occurrences(lit)[i] \in Having(lit)
         /\ \A q \in DOMAIN refs :
              q \in Having(lit) <=> \E i \in 1..Len(Occurrences(lit)) : Occurrences(lit)[i] = q
<1> DEFINE H == Having(lit)
           n == Cardinality(H)
<1>1. Len(refs) \in Nat /\ DOMAIN refs = 1..Len(refs) BY LenProperties
<1>2. H \in SUBSET (1..Len(refs)) BY <1>1 DEF Having
<1>3. IsFiniteSet(H) /\ H \subseteq Nat
  <2>1. IsFiniteSet(1..Len(refs)) BY ONLY <1>1, FS_Interval
  <2> HIDE DEF H
  <2>2. IsFiniteSet(H) BY <1>2, <2>1, FS_Subset
  <2>3. QED BY <1>1, <1>2, <2>2
<1>4. Occurrences(lit) = Ascending(H) BY DEF Occurrences, Having
<1> HIDE DEF H
<1>5. /\ n \in Nat /\ Ascending(H) \in [1..n -> H]
      /\ \A i, j \in 1..n : Ascending(H)[i] = Ascending(H)[j] => i = j
      /\ \A x \in H : \E i \in 1..n : Ascending(H)[i] = x
  BY <1>3, AscendingLists
<1>6. Ascending(H) \in Seq(H) /\ Len(Ascending(H)) = n BY <1>5, IsASeq, LenProperties
<1> HIDE DEF n
<1>7. Ascending(H) \in [1..n -> DOMAIN refs]
  <2>1. H \subseteq DOMAIN refs BY <1>1, <1>2
  <2>2. QED BY <1>5, <2>1
<1>8. Ascending(H) \in Seq(DOMAIN refs) BY <1>5, <1>7, IsASeq
<1>9. QED BY <1>4, <1>5, <1>6, <1>8, SMTT(30) DEF H, n

\* A flip keeps the list exact, and each count changes by the literals that
\* become true and false.
LEMMA FlippedExact ==
  ASSUME NEW S, refs \in Seq(S), NEW lit,
         Exact([counters |-> counters, unsat |-> unsat], DOMAIN refs),
         \A q \in Having(-lit) : counters[q].count > 0
  PROVE  /\ Exact(Flipped(lit), DOMAIN refs)
         /\ \A q \in DOMAIN refs : Flipped(lit).counters[q].count
              = counters[q].count + (IF q \in Having(lit) THEN 1 ELSE 0)
                                  - (IF q \in Having(-lit) THEN 1 ELSE 0)
<1> DEFINE R == DOMAIN refs
           w == [counters |-> counters, unsat |-> unsat]
           made == Made(w, Occurrences(lit))
<1>1. w.counters = counters OBVIOUS
<1>2. /\ Occurrences(lit) \in Seq(R)
      /\ \A i, j \in 1..Len(Occurrences(lit)) :
           Occurrences(lit)[i] = Occurrences(lit)[j] => i = j
      /\ \A q \in R :
           q \in Having(lit) <=> \E i \in 1..Len(Occurrences(lit)) : Occurrences(lit)[i] = q
  BY OccurrencesList
<1>3. /\ Occurrences(-lit) \in Seq(R)
      /\ \A i, j \in 1..Len(Occurrences(-lit)) :
           Occurrences(-lit)[i] = Occurrences(-lit)[j] => i = j
      /\ \A i \in 1..Len(Occurrences(-lit)) : Occurrences(-lit)[i] \in Having(-lit)
      /\ \A q \in R :
           q \in Having(-lit) <=> \E i \in 1..Len(Occurrences(-lit)) : Occurrences(-lit)[i] = q
  BY OccurrencesList
<1>4. Having(-lit) \subseteq R BY DEF Having
<1>5. Flipped(lit) = Broken(made, Occurrences(-lit)) BY DEF Flipped
<1> HIDE DEF w, R
<1>6. /\ Exact(made, R)
      /\ \A q \in R : made.counters[q].count
           = w.counters[q].count
               + (IF \E i \in 1..Len(Occurrences(lit)) : Occurrences(lit)[i] = q THEN 1 ELSE 0)
  <2> DEFINE seq == Occurrences(lit)
  <2>1. Exact(w, R) BY DEF w, R
  <2>2. seq \in Seq(R) /\ \A i, j \in 1..Len(seq) : seq[i] = seq[j] => i = j BY <1>2
  <2> HIDE DEF seq
  <2>3. /\ Exact(Made(w, seq), R)
        /\ \A q \in R : Made(w, seq).counters[q].count
             = w.counters[q].count + (IF \E i \in 1..Len(seq) : seq[i] = q THEN 1 ELSE 0)
    BY ONLY <2>1, <2>2, MadeExact
  <2>4. QED BY <2>3 DEF seq
<1> HIDE DEF made
<1>7. ASSUME NEW q \in R
      PROVE  /\ counters[q].count \in Nat
             /\ made.counters[q].count
                  = counters[q].count + (IF q \in Having(lit) THEN 1 ELSE 0)
  BY <1>1, <1>2, <1>6 DEF Exact, Listed, w, R
<1>8. \A i \in 1..Len(Occurrences(-lit)) : made.counters[Occurrences(-lit)[i]].count > 0
  <2> SUFFICES ASSUME NEW i \in 1..Len(Occurrences(-lit))
               PROVE  made.counters[Occurrences(-lit)[i]].count > 0
    OBVIOUS
  <2> DEFINE q == Occurrences(-lit)[i]
  <2>1. q \in Having(-lit) /\ q \in R BY <1>3, <1>4
  <2>2. counters[q].count > 0 BY <2>1
  <2> HIDE DEF q
  <2>3. made.counters[q].count > 0 BY <1>7, <2>1, <2>2
  <2>4. QED BY <2>3 DEF q
<1>9. /\ Exact(Broken(made, Occurrences(-lit)), R)
      /\ \A q \in R : Broken(made, Occurrences(-lit)).counters[q].count
           = made.counters[q].count
               - (IF \E i \in 1..Len(Occurrences(-lit)) : Occurrences(-lit)[i] = q THEN 1 ELSE 0)
  BY <1>3, <1>6, <1>8, BrokenExact
<1>10. ASSUME NEW q \in R
       PROVE  Flipped(lit).counters[q].count
                = counters[q].count + (IF q \in Having(lit) THEN 1 ELSE 0)
                                    - (IF q \in Having(-lit) THEN 1 ELSE 0)
  BY <1>3, <1>5, <1>7, <1>9
<1>11. QED BY <1>5, <1>9, <1>10 DEF R

-----------------------------------------------------------------------------
(* The counters. *)

\* An assignment of the variables that are not fixed.
Total(A) ==
  /\ \A lit \in A : lit \in Lits /\ VarOf(lit) \in Unfixed /\ -lit \notin A
  /\ \A v \in Unfixed : v \in A \/ -v \in A

TypeInv ==
  /\ instance \in Instances /\ pc \in {"start", "walk", "done"}
  /\ refs \in Seq(DOMAIN instance.clauses)

CountInv ==
  pc # "start" =>
    /\ Total(values)
    /\ Exact([counters |-> counters, unsat |-> unsat], DOMAIN refs)
    /\ \A r \in DOMAIN refs : counters[r].count = TrueIn(refs[r])

LEMMA InstanceType ==
  ASSUME NEW i \in Instances
  PROVE  /\ i.clauses \in Seq(Seq(Lits)) /\ i.saved \in [Var -> {-1, 0, 1}]
         /\ i.best \in [Var -> {-1, 0, 1}] /\ i.phase \in {-1, 1}
         /\ i.initially \in BOOLEAN
BY WalkAssumption

LEMMA LitsAreInts ==
  ASSUME NEW lit \in Lits
  PROVE  /\ lit \in Int /\ -lit \in Int /\ -(-lit) = lit /\ lit # -lit
         /\ VarOf(lit) \in Var /\ VarOf(-lit) = VarOf(lit) /\ -lit \in Lits
         /\ lit = VarOf(lit) \/ lit = -VarOf(lit)
BY WalkAssumption DEF Lits, Var, VarOf

LEMMA ClauseFinite ==
  ASSUME instance \in Instances, NEW i \in DOMAIN instance.clauses
  PROVE  Clause(i) \subseteq Lits /\ IsFiniteSet(Clause(i))
<1>1. instance.clauses \in Seq(Seq(Lits)) BY InstanceType
<1> DEFINE s == instance.clauses[i]
<1>2. s \in Seq(Lits) BY <1>1, ElementOfSeq, LenProperties
<1> HIDE DEF s
<1>3. Len(s) \in Nat /\ DOMAIN s = 1..Len(s) /\ \A k \in 1..Len(s) : s[k] \in Lits
  BY <1>2, LenProperties, ElementOfSeq
<1> DEFINE T == {s[k] : k \in 1..Len(s)}
<1>4. Clause(i) = T BY <1>3 DEF Clause, ToSet, s
<1>5. T \subseteq Lits BY <1>3
<1>6. IsFiniteSet(1..Len(s)) BY ONLY <1>3, FS_Interval
<1> DEFINE f == [k \in 1..Len(s) |-> s[k]]
<1>7. f \in Surjection(1..Len(s), T) BY DEF Surjection
<1> HIDE DEF f, T
<1>8. IsFiniteSet(T) BY <1>6, <1>7, FS_Surjection
<1>9. QED BY <1>4, <1>5, <1>8

\* What a flip does to the number of true literals of a clause.
LEMMA FlipCounts ==
  ASSUME NEW C, IsFiniteSet(C), NEW A, NEW lit, NEW neg,
         lit \notin A, neg \in A, lit # neg
  PROVE  /\ Cardinality(C \cap A) \in Nat
         /\ neg \in C => Cardinality(C \cap A) > 0
         /\ Cardinality(C \cap ((A \ {neg}) \cup {lit}))
              = Cardinality(C \cap A) + (IF lit \in C THEN 1 ELSE 0)
                                      - (IF neg \in C THEN 1 ELSE 0)
<1> DEFINE B == C \cap A
           D == B \ {neg}
           E == C \cap ((A \ {neg}) \cup {lit})
<1>1. IsFiniteSet(B) BY FS_Intersection
<1>2. Cardinality(B) \in Nat BY <1>1, FS_CardinalityType
<1>3. neg \in B <=> neg \in C OBVIOUS
<1>4. neg \in C => Cardinality(B) > 0
  <2>1. Cardinality(B) = 0 <=> B = {} BY <1>1, FS_EmptySet
  <2>2. QED BY <1>2, <1>3, <2>1
<1>5. IsFiniteSet(D) /\ Cardinality(D) = IF neg \in B THEN Cardinality(B) - 1 ELSE Cardinality(B)
  BY <1>1, FS_RemoveElement
<1>6. Cardinality(D \cup {lit}) = Cardinality(D) + 1
  <2>1. lit \notin D OBVIOUS
  <2> HIDE DEF D
  <2>2. QED BY <1>5, <2>1, FS_AddElement
<1>7. E = IF lit \in C THEN D \cup {lit} ELSE D OBVIOUS
<1> HIDE DEF B, D, E
<1>8. Cardinality(E) = Cardinality(B) + (IF lit \in C THEN 1 ELSE 0)
                                      - (IF neg \in C THEN 1 ELSE 0)
  BY <1>2, <1>3, <1>5, <1>6, <1>7
<1>9. QED BY <1>2, <1>4, <1>8 DEF B, E

\* The literal that a step picks is false, and its clause is one of refs.
LEMMA PickedIsFalse ==
  ASSUME TypeInv, CountInv, pc = "walk",
         NEW r \in ToSet(unsat), NEW lit \in Clause(refs[r]), VarOf(lit) \in Unfixed
  PROVE  /\ r \in DOMAIN refs /\ lit \in Lits
         /\ lit \notin values /\ -lit \in values /\ lit # -lit /\ -(-lit) = lit
         /\ Total((values \ {-lit}) \cup {lit})
<1> DEFINE w == [counters |-> counters, unsat |-> unsat]
<1>1. Total(values) /\ Listed(w, DOMAIN refs, Zero(w, DOMAIN refs))
  BY DEF CountInv, Exact
<1>2. w.unsat = unsat /\ w.counters = counters OBVIOUS
<1> HIDE DEF w
<1>3. unsat \in Seq(DOMAIN refs) BY <1>1, <1>2 DEF Listed
<1>4. PICK k \in 1..Len(unsat) : unsat[k] = r BY <1>3, LenProperties DEF ToSet
<1>5. r \in Zero(w, DOMAIN refs) BY <1>1, <1>2, <1>4 DEF Listed
<1>6. r \in DOMAIN refs /\ TrueIn(refs[r]) = 0 BY <1>2, <1>5 DEF Zero, CountInv
<1>7. refs[r] \in DOMAIN instance.clauses BY <1>6, ElementOfSeq, LenProperties DEF TypeInv
<1>8. IsFiniteSet(Clause(refs[r]) \cap values) /\ lit \in Lits
  BY <1>7, ClauseFinite, FS_Intersection DEF TypeInv
<1>9. Clause(refs[r]) \cap values = {} BY <1>6, <1>8, FS_EmptySet DEF TrueIn
<1>10. lit \notin values BY <1>9
<1>11. /\ lit \in Int /\ -lit \in Int /\ -(-lit) = lit /\ lit # -lit
       /\ VarOf(-lit) = VarOf(lit) /\ -lit \in Lits
       /\ lit = VarOf(lit) \/ lit = -VarOf(lit)
  BY <1>8, LitsAreInts
<1>12. -lit \in values
  <2> DEFINE v == VarOf(lit)
  <2>1. v \in Unfixed /\ (lit = v \/ lit = -v) BY <1>11
  <2>2. v \in Int BY <2>1 DEF Unfixed, Var
  <2> HIDE DEF v
  <2>3. v \in values \/ -v \in values BY <1>1, <2>1 DEF Total
  <2>4. CASE lit = v BY <1>10, <2>3, <2>4
  <2>5. CASE lit = -v
    <3>1. -lit = v BY <2>2, <2>5
    <3>2. QED BY <1>10, <2>3, <2>5, <3>1
  <2>6. QED BY <2>1, <2>4, <2>5
<1> DEFINE now == (values \ {-lit}) \cup {lit}
<1>13. ASSUME NEW m \in now
       PROVE  m \in Lits /\ VarOf(m) \in Unfixed /\ -m \notin now
  <2>1. CASE m = lit BY <1>8, <1>10, <1>11, <2>1
  <2>2. CASE m # lit
    <3>1. m \in values /\ m # -lit BY <2>2
    <3>2. m \in Lits /\ VarOf(m) \in Unfixed /\ -m \notin values BY <1>1, <3>1 DEF Total
    <3>3. -m # lit
      <4>1. -(-m) = m BY <3>2, LitsAreInts
      <4>2. QED BY <3>1, <4>1
    <3>4. QED BY <3>2, <3>3
  <2>3. QED BY <2>1, <2>2
<1>14. ASSUME NEW v \in Unfixed PROVE v \in now \/ -v \in now
  <2>1. v \in values \/ -v \in values BY <1>1 DEF Total
  <2>2. v \in Lits BY DEF Unfixed, Lits
  <2>3. CASE v \in values /\ v = -lit BY <1>11, <2>3
  <2>4. CASE -v \in values /\ -v = -lit
    <3>1. v = lit BY <1>11, <2>2, <2>4, LitsAreInts
    <3>2. QED BY <3>1
  <2>5. QED BY <2>1, <2>3, <2>4
<1>15. Total(now) BY <1>13, <1>14 DEF Total
<1>16. QED BY <1>6, <1>8, <1>10, <1>11, <1>12, <1>15

\* A step keeps the counters exact.
LEMMA StepCountInv ==
  ASSUME TypeInv, CountInv,
         NEW r \in DOMAIN refs, NEW lit \in Clause(refs[r]), Step(r, lit)
  PROVE  TypeInv' /\ CountInv'
<1> DEFINE w == [counters |-> counters, unsat |-> unsat]
           R == DOMAIN refs
           now == (values \ {-lit}) \cup {lit}
<1>1. /\ pc = "walk" /\ r \in ToSet(unsat) /\ VarOf(lit) \in Unfixed
      /\ values' = now /\ counters' = Flipped(lit).counters /\ unsat' = Flipped(lit).unsat
      /\ UNCHANGED <<instance, pc, refs>>
  BY DEF Step
<1>2. /\ lit \notin values /\ -lit \in values /\ lit # -lit /\ Total(now)
  BY <1>1, PickedIsFalse
<1>3. TypeInv' BY <1>1 DEF TypeInv
<1>4. refs \in Seq(DOMAIN instance.clauses) BY DEF TypeInv
<1>5. Exact(w, R) /\ \A q \in R : counters[q].count = TrueIn(refs[q]) BY <1>1 DEF CountInv
<1> HIDE DEF now
<1>6. ASSUME NEW q \in R
      PROVE  /\ TrueIn(refs[q]) \in Nat
             /\ q \in Having(-lit) => TrueIn(refs[q]) > 0
             /\ Cardinality(Clause(refs[q]) \cap now)
                  = TrueIn(refs[q]) + (IF q \in Having(lit) THEN 1 ELSE 0)
                                    - (IF q \in Having(-lit) THEN 1 ELSE 0)
  <2>1. refs[q] \in DOMAIN instance.clauses BY <1>4, ElementOfSeq, LenProperties
  <2>2. IsFiniteSet(Clause(refs[q])) BY <2>1, ClauseFinite DEF TypeInv
  <2>3. /\ Cardinality(Clause(refs[q]) \cap values) \in Nat
        /\ -lit \in Clause(refs[q]) => Cardinality(Clause(refs[q]) \cap values) > 0
        /\ Cardinality(Clause(refs[q]) \cap ((values \ {-lit}) \cup {lit}))
             = Cardinality(Clause(refs[q]) \cap values)
                 + (IF lit \in Clause(refs[q]) THEN 1 ELSE 0)
                 - (IF -lit \in Clause(refs[q]) THEN 1 ELSE 0)
    BY <1>2, <2>2, FlipCounts
  <2>4. /\ q \in Having(lit) <=> lit \in Clause(refs[q])
        /\ q \in Having(-lit) <=> -lit \in Clause(refs[q])
    BY DEF Having
  <2>5. QED BY <2>3, <2>4 DEF TrueIn, now
<1>7. \A q \in Having(-lit) : counters[q].count > 0
  <2>1. Having(-lit) \subseteq R BY DEF Having
  <2>2. QED BY <1>5, <1>6, <2>1
<1>8. /\ Exact(Flipped(lit), R)
      /\ \A q \in R : Flipped(lit).counters[q].count
           = counters[q].count + (IF q \in Having(lit) THEN 1 ELSE 0)
                               - (IF q \in Having(-lit) THEN 1 ELSE 0)
  BY <1>4, <1>5, <1>7, FlippedExact
<1>9. Flipped(lit) = [counters |-> counters', unsat |-> unsat']
  <2>1. Flipped(lit) \in [counters : [R -> [count : Nat, pos : Nat]], unsat : Seq(R)]
    BY <1>8 DEF Exact, Listed
  <2>2. QED BY <1>1, <2>1
<1>10. ASSUME NEW q \in R PROVE counters'[q].count = TrueIn(refs[q])'
  <2>1. TrueIn(refs[q])' = Cardinality(Clause(refs[q]) \cap now)
    BY <1>1 DEF TrueIn, Clause
  <2>2. QED BY <1>1, <1>5, <1>6, <1>8, <2>1
<1>11. CountInv' BY <1>1, <1>2, <1>8, <1>9, <1>10 DEF CountInv, Total, Unfixed
<1>12. QED BY <1>3, <1>11

LEMMA InitTypeCount == Init => TypeInv /\ CountInv
<1> SUFFICES ASSUME Init PROVE TypeInv /\ CountInv OBVIOUS
<1>1. refs \in Seq(DOMAIN instance.clauses) BY DEF Init
<1>2. QED BY <1>1 DEF Init, TypeInv, CountInv

LEMMA ImportedTotal ==
  ASSUME instance \in Instances, saved \in [Var -> {-1, 0, 1}]
  PROVE  Total(Imported) /\ \A v \in Unfixed : v * Phase(v) \in Imported
<1>1. instance.phase \in {-1, 1} BY InstanceType
<1>2. ASSUME NEW v \in Unfixed
      PROVE  /\ v \in Var /\ v \in Lits /\ -v \in Lits /\ VarOf(v) = v /\ VarOf(-v) = v
             /\ Phase(v) \in {-1, 1}
             /\ v * Phase(v) = IF Phase(v) = 1 THEN v ELSE -v
  <2>1. v \in Var BY DEF Unfixed
  <2>2. Phase(v) \in {-1, 1} BY <1>1, <2>1 DEF Phase
  <2>3. v \in Nat \ {0} BY <2>1, WalkAssumption DEF Var
  <2>4. QED BY <2>1, <2>2, <2>3 DEF Lits, VarOf
<1>3. ASSUME NEW lit \in Imported
      PROVE  lit \in Lits /\ VarOf(lit) \in Unfixed /\ -lit \notin Imported
  <2>1. PICK v \in Unfixed : lit = v * Phase(v) BY DEF Imported
  <2>2. lit \in Lits /\ VarOf(lit) \in Unfixed BY <1>2, <2>1
  <2>3. ASSUME -lit \in Imported PROVE FALSE
    <3>1. PICK u \in Unfixed : -lit = u * Phase(u) BY <2>3 DEF Imported
    <3>2. VarOf(-lit) = u BY <1>2, <3>1
    <3>3. VarOf(lit) = v BY <1>2, <2>1
    <3>4. u = v /\ lit # -lit BY <2>2, <3>2, <3>3, LitsAreInts
    <3>5. QED BY <2>1, <3>1, <3>4
  <2>4. QED BY <2>2, <2>3
<1>4. ASSUME NEW v \in Unfixed PROVE v * Phase(v) \in Imported /\ (v \in Imported \/ -v \in Imported)
  BY <1>2 DEF Imported
<1>5. QED BY <1>3, <1>4 DEF Total

\* The two lists that connect_binary_counters and connect_large_counters make.
LEMMA ConnectedList ==
  ASSUME TypeInv
  PROVE  Ascending(Binaries) \o Ascending(Larges \ Satisfied) \in Seq(DOMAIN instance.clauses)
<1>1. instance.clauses \in Seq(Seq(Lits)) BY InstanceType DEF TypeInv
<1>2. Len(instance.clauses) \in Nat /\ DOMAIN instance.clauses = 1..Len(instance.clauses)
  BY <1>1, LenProperties
<1>3. ASSUME NEW S, S \subseteq DOMAIN instance.clauses
      PROVE  Ascending(S) \in Seq(DOMAIN instance.clauses)
  <2>1. IsFiniteSet(1..Len(instance.clauses))
    <3>1. PICK n \in Nat : n = Len(instance.clauses) BY <1>2
    <3>2. IsFiniteSet(1..n) BY ONLY n \in Nat, FS_Interval
    <3>3. QED BY <3>1, <3>2
  <2>2. S \in SUBSET (1..Len(instance.clauses)) BY <1>2, <1>3
  <2>3. IsFiniteSet(S) BY <2>1, <2>2, FS_Subset
  <2>4. S \subseteq Nat BY <1>2, <1>3
  <2>5. Cardinality(S) \in Nat /\ Ascending(S) \in [1..Cardinality(S) -> S]
    BY <2>3, <2>4, AscendingLists
  <2>6. Ascending(S) \in [1..Cardinality(S) -> DOMAIN instance.clauses] BY <1>3, <2>5
  <2>7. QED BY <2>5, <2>6, IsASeq
<1>4. Binaries \subseteq DOMAIN instance.clauses /\ Larges \ Satisfied \subseteq DOMAIN instance.clauses
  BY DEF Binaries, Larges
<1>5. Ascending(Binaries) \in Seq(DOMAIN instance.clauses) BY <1>3, <1>4
<1>6. Ascending(Larges \ Satisfied) \in Seq(DOMAIN instance.clauses)
  <2>1. PICK T : T = Larges \ Satisfied OBVIOUS
  <2>2. T \subseteq DOMAIN instance.clauses BY <1>4, <2>1
  <2>3. Ascending(T) \in Seq(DOMAIN instance.clauses) BY ONLY <1>3, <2>2
  <2>4. QED BY <2>1, <2>3
<1>7. QED BY <1>5, <1>6, ConcatProperties

\* The list of the falsified clauses begins exact.
LEMMA InitWalkerCountInv ==
  ASSUME TypeInv, saved \in [Var -> {-1, 0, 1}], InitWalker
  PROVE  /\ TypeInv' /\ CountInv'
         /\ minimum' = Cardinality({q \in DOMAIN refs' : counters'[q].count = 0})
<1> DEFINE R == DOMAIN refs'
           Count(q) == Cardinality(Clause(refs'[q]) \cap Imported)
           Z == {q \in R : Count(q) = 0}
           falsified == Ascending(Z)
           w == [counters |-> counters', unsat |-> unsat']
           n == Cardinality(Z)
<1>1. /\ refs' = Ascending(Binaries) \o Ascending(Larges \ Satisfied)
      /\ unsat' = falsified /\ minimum' = Len(falsified)
      /\ counters' = [q \in R |->
           [count |-> Count(q),
            pos |-> IF Count(q) = 0 THEN CHOOSE i \in DOMAIN falsified : falsified[i] = q ELSE 0]]
      /\ UNCHANGED instance /\ pc' = "walk" /\ values' = Imported
  BY DEF InitWalker
<1>2. refs' \in Seq(DOMAIN instance.clauses) BY <1>1, ConnectedList
<1>3. TypeInv' BY <1>1, <1>2 DEF TypeInv
<1>4. Len(refs') \in Nat /\ R = 1..Len(refs') BY <1>2, LenProperties
<1>5. \A q \in R : Count(q) \in Nat
  <2> SUFFICES ASSUME NEW q \in R PROVE Count(q) \in Nat OBVIOUS
  <2>1. refs'[q] \in DOMAIN instance.clauses BY <1>2, <1>4, ElementOfSeq
  <2>2. IsFiniteSet(Clause(refs'[q]) \cap Imported)
    BY <2>1, ClauseFinite, FS_Intersection DEF TypeInv
  <2>3. QED BY <2>2, FS_CardinalityType
<1> HIDE DEF Count
<1>6. IsFiniteSet(Z) /\ Z \subseteq Nat /\ Z \subseteq R
  <2>1. Z \in SUBSET (1..Len(refs')) BY <1>4
  <2>2. IsFiniteSet(1..Len(refs')) BY ONLY <1>4, FS_Interval
  <2> HIDE DEF Z
  <2>3. IsFiniteSet(Z) BY <2>1, <2>2, FS_Subset
  <2>4. QED BY <1>4, <2>1, <2>3
<1>7. \A q \in R : q \in Z <=> Count(q) = 0 OBVIOUS
<1> HIDE DEF Z
<1>8. /\ n \in Nat /\ falsified \in [1..n -> Z]
      /\ \A i, j \in 1..n : falsified[i] = falsified[j] => i = j
      /\ \A q \in Z : \E i \in 1..n : falsified[i] = q
  BY <1>6, AscendingLists
<1> HIDE DEF n, falsified
<1>9. /\ falsified \in Seq(R) /\ Len(falsified) = n /\ DOMAIN falsified = 1..n
  <2>1. falsified \in [1..n -> R] BY <1>6, <1>8
  <2>2. falsified \in Seq(R) BY <1>8, <2>1, IsASeq
  <2>3. DOMAIN falsified = 1..n /\ DOMAIN falsified = 1..Len(falsified) BY <2>1, <2>2, LenProperties
  <2>4. Len(falsified) = n BY <1>8, <2>2, <2>3, LenProperties
  <2>5. QED BY <2>2, <2>3, <2>4
<1> DEFINE place == [q \in R |->
                       IF Count(q) = 0 THEN CHOOSE i \in 1..n : falsified[i] = q ELSE 0]
<1>10. ASSUME NEW q \in R
       PROVE  /\ place[q] \in Nat
              /\ q \in Z => place[q] \in 1..n /\ falsified[place[q]] = q
  <2>1. CASE Count(q) = 0
    <3>1. \E i \in 1..n : falsified[i] = q BY <1>7, <1>8, <2>1
    <3>2. place[q] \in 1..n /\ falsified[place[q]] = q BY <2>1, <3>1
    <3>3. QED BY <1>8, <3>2
  <2>2. CASE Count(q) # 0 BY <1>7, <2>2
  <2>3. QED BY <2>1, <2>2
<1>11. counters' = [q \in R |-> [count |-> Count(q), pos |-> place[q]]] BY <1>1, <1>9
<1> HIDE DEF place
<1>12. /\ counters' \in [R -> [count : Nat, pos : Nat]]
       /\ \A q \in R : counters'[q].count = Count(q) /\ counters'[q].pos = place[q]
  BY <1>5, <1>10, <1>11
<1>13. /\ w \in [counters : [R -> [count : Nat, pos : Nat]], unsat : Seq(R)]
       /\ w.counters = counters' /\ w.unsat = falsified
  BY <1>1, <1>9, <1>12
<1> HIDE DEF w
<1>14. ASSUME NEW q \in Z
       PROVE  w.counters[q].pos \in 1..Len(w.unsat) /\ w.unsat[w.counters[q].pos] = q
  BY <1>6, <1>9, <1>10, <1>12, <1>13
<1>15. ASSUME NEW i \in 1..Len(w.unsat)
       PROVE  w.unsat[i] \in Z /\ w.counters[w.unsat[i]].pos = i
  <2>1. i \in 1..n /\ falsified[i] \in Z /\ falsified[i] \in R BY <1>6, <1>8, <1>9, <1>13
  <2>2. place[falsified[i]] = i BY <1>8, <1>10, <2>1
  <2>3. QED BY <1>12, <1>13, <2>1, <2>2
<1>16. Listed(w, R, Z) BY <1>6, <1>13, <1>14, <1>15 DEF Listed
<1>17. Zero(w, R) = Z
  <2>1. \A q \in R : w.counters[q].count = 0 <=> q \in Z BY <1>7, <1>12, <1>13
  <2>2. QED BY <1>6, <2>1 DEF Zero
<1>18. \A q \in R : TrueIn(refs[q])' = Count(q)
  BY <1>1 DEF TrueIn, Clause, Count
<1>19. Total(Imported) BY ImportedTotal DEF TypeInv
<1>20. CountInv'
  BY <1>1, <1>12, <1>16, <1>17, <1>18, <1>19 DEF CountInv, Exact, Total, Unfixed, w
<1>21. Z = {q \in R : counters'[q].count = 0} BY <1>6, <1>7, <1>12
<1>22. QED BY <1>1, <1>3, <1>9, <1>20, <1>21 DEF n

-----------------------------------------------------------------------------
(* The best assignment. *)

\* The literal that the phases s give variable v.
Lead(s, v) == IF s[v] = 1 \/ (s[v] = 0 /\ instance.phase = 1) THEN v ELSE -v

\* The variables of the first n flips on the trail t.
On(t, n) == {VarOf(t[i]) : i \in 1..n}

\* The phases s and the first b flips of the trail t describe the assignment B,
\* but for the variables X; s and the whole trail, the assignment A of now.
Kept(s, t, b, A, B, X) ==
  /\ s \in [Var -> {-1, 0, 1}]
  /\ t \in Seq(Lits) /\ \A i \in 1..Len(t) : VarOf(t[i]) \in Unfixed
  /\ (b = INVALID_BEST /\ t = <<>>) \/ (b \in Nat /\ b <= Len(t))
  /\ b # INVALID_BEST => \A v \in Unfixed : v \notin On(t, Len(t)) => Lead(s, v) \in A
  /\ b # INVALID_BEST => \A v \in Unfixed \ X : v \in On(t, b) => (v \in A <=> v \in B)
  /\ \A v \in Unfixed \ X : (b = INVALID_BEST \/ v \notin On(t, b)) => Lead(s, v) \in B
  /\ \A v \in Var \ Unfixed : s[v] = instance.saved[v]

\* Before the walk nothing was saved.
StartInv ==
  pc = "start" => saved = instance.saved /\ trail = <<>> /\ best = 0 /\ reflipped = {}

MinimumInv ==
  pc = "walk" =>
    /\ minimum \in Nat /\ initial \in Nat /\ minimum <= initial
    /\ Total(atBest)
    /\ Cardinality({r \in DOMAIN refs : Clause(refs[r]) \cap atBest = {}}) = minimum

KeptInv == pc = "walk" => Kept(saved, trail, best, values, atBest, reflipped)

\* Without improvement there is nothing to save.
UntouchedInv ==
  pc = "walk" /\ minimum = initial => saved = instance.saved /\ best \in {0, INVALID_BEST}

IInv == TypeInv /\ CountInv /\ StartInv /\ MinimumInv /\ KeptInv /\ UntouchedInv /\ SavedIsBest

LEMMA VarsAreInts ==
  ASSUME NEW v \in Var
  PROVE  v \in Nat /\ v # 0 /\ v # -v /\ v \in Lits /\ -v \in Lits /\ VarOf(v) = v /\ VarOf(-v) = v
BY WalkAssumption DEF Var, Lits, VarOf

LEMMA LeadIsPhase ==
  ASSUME instance \in Instances, NEW s \in [Var -> {-1, 0, 1}], NEW v \in Var
  PROVE  v * (IF s[v] # 0 THEN s[v] ELSE instance.phase) = Lead(s, v)
<1> DEFINE phase == IF s[v] # 0 THEN s[v] ELSE instance.phase
<1>1. instance.phase \in {-1, 1} BY InstanceType
<1>2. s[v] \in {-1, 0, 1} OBVIOUS
<1>3. v \in Nat BY VarsAreInts
<1>4. phase \in {-1, 1} /\ (phase = 1 <=> s[v] = 1 \/ (s[v] = 0 /\ instance.phase = 1))
  BY <1>1, <1>2
<1>5. v * 1 = v /\ v * (-1) = -v BY <1>3
<1> HIDE DEF phase
<1>6. CASE phase = 1 BY <1>4, <1>5, <1>6 DEF Lead, phase
<1>7. CASE phase = -1
  <2>1. 1 # -1 OBVIOUS
  <2>2. QED BY <1>4, <1>5, <1>7, <2>1 DEF Lead, phase
<1>8. QED BY <1>4, <1>6, <1>7

\* The variables that save_walker_trail writes.
LEMMA OnIsPrefix ==
  ASSUME trail \in Seq(Lits), best \in Nat, best <= Len(trail)
  PROVE  {VarOf(lit) : lit \in ToSet(SubSeq(trail, 1, best))} = On(trail, best)
<1>1. Len(trail) \in Nat /\ \A i \in 1..Len(trail) : trail[i] \in Lits
  BY LenProperties, ElementOfSeq
<1> DEFINE s == SubSeq(trail, 1, best)
<1>2. s \in Seq(Lits)
  <2>1. \A i \in 1..best : trail[i] \in Lits BY <1>1
  <2>2. QED BY <2>1, SubSeqProperties
<1>3. Len(s) = best /\ \A i \in 1..best : s[i] = trail[i] BY <1>1, SubSeqProperties
<1> HIDE DEF s
<1>4. DOMAIN s = 1..best BY <1>2, <1>3, LenProperties
<1>5. ToSet(s) = {trail[i] : i \in 1..best} BY <1>3, <1>4 DEF ToSet
<1>6. {VarOf(lit) : lit \in ToSet(s)} = {VarOf(trail[i]) : i \in 1..best} BY <1>5
<1>7. QED BY <1>6 DEF On, s

LEMMA SavedValues ==
  ASSUME trail \in Seq(Lits), best \in Nat, best <= Len(trail),
         saved \in [Var -> {-1, 0, 1}], NEW now
  PROVE  /\ Saved(now) \in [Var -> {-1, 0, 1}]
         /\ \A v \in Var : v \notin On(trail, best) => Saved(now)[v] = saved[v]
         /\ \A v \in Var : v \in On(trail, best) => Saved(now)[v] = IF v \in now THEN 1 ELSE -1
<1>1. Saved(now) = [v \in Var |-> IF v \notin On(trail, best) THEN saved[v]
                                  ELSE IF v \in now THEN 1 ELSE -1]
  BY OnIsPrefix DEF Saved
<1>2. QED BY <1>1

\* A variable that is saved with its value of now leads to it.
LEMMA LeadOfValue ==
  ASSUME NEW now, Total(now), NEW v \in Unfixed, NEW s,
         s[v] = IF v \in now THEN 1 ELSE -1
  PROVE  Lead(s, v) \in now
<1>1. 1 # -1 /\ 0 # -1 OBVIOUS
<1>2. QED BY <1>1 DEF Lead, Total

\* Only the flipped variable changes its value.
LEMMA OthersKeep ==
  ASSUME NEW A, NEW lit \in Lits, NEW v \in Var, v # VarOf(lit), NEW s
  PROVE  /\ v \in (A \ {-lit}) \cup {lit} <=> v \in A
         /\ Lead(s, v) \in (A \ {-lit}) \cup {lit} <=> Lead(s, v) \in A
<1>1. VarOf(v) = v /\ VarOf(-v) = v BY VarsAreInts
<1>2. VarOf(-lit) = VarOf(lit) BY LitsAreInts
<1>3. v # lit /\ v # -lit /\ -v # lit /\ -v # -lit BY <1>1, <1>2
<1>4. QED BY <1>3 DEF Lead

LEMMA OnAppended ==
  ASSUME NEW t \in Seq(Lits), NEW lit \in Lits
  PROVE  /\ On(Append(t, lit), Len(Append(t, lit))) = On(t, Len(t)) \cup {VarOf(lit)}
         /\ \A b \in Nat : b <= Len(t) => On(Append(t, lit), b) = On(t, b)
<1>1. Len(t) \in Nat BY LenProperties
<1>2. /\ Len(Append(t, lit)) = Len(t) + 1 /\ Append(t, lit)[Len(t) + 1] = lit
      /\ \A i \in 1..Len(t) : Append(t, lit)[i] = t[i]
  BY AppendProperties
<1> DEFINE u == Append(t, lit)
<1> HIDE DEF u
<1>3. On(u, Len(t) + 1) = On(t, Len(t)) \cup {VarOf(lit)}
  <2>1. 1..Len(t) + 1 = (1..Len(t)) \cup {Len(t) + 1} BY <1>1
  <2>2. ASSUME NEW x \in On(u, Len(t) + 1) PROVE x \in On(t, Len(t)) \cup {VarOf(lit)}
    BY <1>2, <2>1, <2>2 DEF On, u
  <2>3. ASSUME NEW x \in On(t, Len(t)) \cup {VarOf(lit)} PROVE x \in On(u, Len(t) + 1)
    BY <1>2, <2>1, <2>3 DEF On, u
  <2>4. QED BY <2>2, <2>3
<1>4. ASSUME NEW b \in Nat, b <= Len(t) PROVE On(u, b) = On(t, b)
  <2>1. \A i \in 1..b : u[i] = t[i] BY <1>1, <1>2, <1>4 DEF u
  <2>2. QED BY <2>1 DEF On
<1>5. QED BY <1>2, <1>3, <1>4 DEF u

\* push_flipped keeps what is known of the best assignment: the flipped variable
\* is excepted when its earlier flip leads to it.
LEMMA PushKept ==
  ASSUME instance \in Instances, NEW B, Total(B), NEW X, Kept(saved, trail, best, values, B, X),
         NEW lit \in Lits, VarOf(lit) \in Unfixed,
         NEW now, now = (values \ {-lit}) \cup {lit}, Total(now),
         NEW p, p = PushFlipped(lit, now),
         NEW again, again = IF best # INVALID_BEST /\ VarOf(lit) \in On(trail, best)
                            THEN {VarOf(lit)} ELSE {}
  PROVE  /\ Kept(p.saved, p.trail, p.best, now, B, X \cup again)
         /\ best \in {0, INVALID_BEST} => p.saved = saved /\ p.best \in {0, INVALID_BEST}
         /\ p.best = INVALID_BEST => p.saved = saved
<1> DEFINE x == VarOf(lit)
           Y == X \cup again
<1>1. /\ saved \in [Var -> {-1, 0, 1}] /\ trail \in Seq(Lits)
      /\ \A i \in 1..Len(trail) : VarOf(trail[i]) \in Unfixed
      /\ (best = INVALID_BEST /\ trail = <<>>) \/ (best \in Nat /\ best <= Len(trail))
      /\ \A v \in Var \ Unfixed : saved[v] = instance.saved[v]
  BY DEF Kept
<1>2. Len(trail) \in Nat BY <1>1, LenProperties
<1>3. Unfixed \subseteq Var BY DEF Unfixed
<1>4. \A v \in Unfixed : v # x => /\ v \in now <=> v \in values
                                 /\ \A s : Lead(s, v) \in now <=> Lead(s, v) \in values
  BY <1>3, OthersKeep
<1>5. INVALID_BEST \notin Nat BY WalkAssumption
<1>6. Total(now) OBVIOUS
<1>7. CASE best = INVALID_BEST
  <2>1. p = [saved |-> saved, trail |-> trail, best |-> best] BY <1>7 DEF PushFlipped
  <2>2. p.saved = saved /\ p.trail = trail /\ p.best = INVALID_BEST BY <1>7, <2>1
  <2>3. \A v \in Unfixed \ Y : Lead(saved, v) \in B BY <1>7 DEF Kept
  <2>4. Kept(saved, trail, INVALID_BEST, now, B, Y) BY <1>1, <1>5, <1>7, <2>3 DEF Kept
  <2>5. QED BY <1>7, <2>2, <2>4
<1>8. CASE best # INVALID_BEST /\ Len(trail) < Limit
  <2>1. p = [saved |-> saved, trail |-> Append(trail, lit), best |-> best]
    <3>1. Limit \in Int BY WalkAssumption DEF Limit
    <3>2. ~ (Len(trail) >= Limit) BY <1>2, <1>8, <3>1
    <3>3. QED BY <1>8, <3>2 DEF PushFlipped
  <2> DEFINE t == Append(trail, lit)
  <2>2. p.saved = saved /\ p.trail = t /\ p.best = best BY ONLY <2>1
  <2>3. best \in Nat /\ best <= Len(trail) BY <1>1, <1>8
  <2>4. t \in Seq(Lits) /\ Len(t) = Len(trail) + 1
        /\ \A i \in 1..Len(t) : VarOf(t[i]) \in Unfixed
    <3>1. /\ t \in Seq(Lits) /\ Len(t) = Len(trail) + 1 /\ t[Len(trail) + 1] = lit
          /\ \A i \in 1..Len(trail) : t[i] = trail[i]
      BY <1>1, AppendProperties
    <3>2. \A i \in 1..Len(t) : i = Len(trail) + 1 \/ i \in 1..Len(trail) BY <1>2, <3>1
    <3>3. QED BY <1>1, <3>1, <3>2
  <2>5. On(t, Len(t)) = On(trail, Len(trail)) \cup {x} /\ On(t, best) = On(trail, best)
    BY <1>1, <2>3, OnAppended
  <2> HIDE DEF t
  <2>6. ASSUME NEW v \in Unfixed, v \notin On(t, Len(t)) PROVE Lead(saved, v) \in now
    BY <1>4, <1>8, <2>5, <2>6 DEF Kept
  <2>7. ASSUME NEW v \in Unfixed \ Y, v \in On(t, best) PROVE v \in now <=> v \in B
    <3>1. v \in Unfixed \ X /\ v \in On(trail, best) /\ v # x BY <1>8, <2>5, <2>7
    <3>2. QED BY <1>4, <1>8, <3>1 DEF Kept
  <2>8. ASSUME NEW v \in Unfixed \ Y, v \notin On(t, best) PROVE Lead(saved, v) \in B
    BY <2>5, <2>8 DEF Kept
  <2>9. best <= Len(t) BY <1>2, <2>3, <2>4
  <2>10. Kept(saved, t, best, now, B, Y)
    BY <1>1, <1>8, <2>3, <2>4, <2>6, <2>7, <2>8, <2>9 DEF Kept
  <2>11. QED BY <2>2, <2>10
<1>9. CASE best # INVALID_BEST /\ Len(trail) >= Limit /\ best > 0
  <2> DEFINE rest == SubSeq(trail, best + 1, Len(trail))
             t == Append(rest, lit)
             s == Saved(now)
  <2>1. best \in Nat /\ best <= Len(trail) BY <1>1, <1>9
  <2>2. p = [saved |-> s, best |-> 0, trail |-> t]
    <3>1. Limit \in Int BY WalkAssumption DEF Limit
    <3>2. ~ (Len(trail) < Limit) BY <1>2, <1>9, <3>1
    <3>3. QED BY <1>9, <3>2 DEF PushFlipped
  <2> HIDE DEF s, t
  <2>3. p.saved = s /\ p.trail = t /\ p.best = 0 BY <2>2
  <2> USE DEF s, t
  <2>4. /\ s \in [Var -> {-1, 0, 1}]
        /\ \A v \in Var : v \notin On(trail, best) => s[v] = saved[v]
        /\ \A v \in Var : v \in On(trail, best) => s[v] = IF v \in now THEN 1 ELSE -1
    BY <1>1, <2>1, SavedValues
  <2> HIDE DEF s
  <2>5. rest \in Seq(Lits) /\ Len(rest) = Len(trail) - best
        /\ \A i \in 1..Len(trail) - best : rest[i] = trail[best + i]
    <3>1. \A i \in best + 1..Len(trail) : trail[i] \in Lits
      BY <1>1, <1>2, <2>1, ElementOfSeq
    <3>2. rest \in Seq(Lits) BY <1>2, <2>1, <3>1, SubSeqProperties
    <3>3. Len(rest) = IF best + 1 <= Len(trail) THEN Len(trail) - (best + 1) + 1 ELSE 0
      BY <1>2, <2>1, SubSeqProperties
    <3>4. \A i \in 1..Len(trail) - (best + 1) + 1 : rest[i] = trail[best + 1 + i - 1]
      BY <1>2, <2>1, SubSeqProperties
    <3>5. Len(rest) = Len(trail) - best BY <1>2, <2>1, <3>3
    <3>6. \A i \in 1..Len(trail) - best : i \in 1..Len(trail) - (best + 1) + 1 /\ best + 1 + i - 1 = best + i
      BY <1>2, <2>1
    <3>7. QED BY <3>2, <3>4, <3>5, <3>6
  <2> HIDE DEF rest
  <2>6. Len(rest) \in Nat BY <2>5, LenProperties
  <2>7. \A i \in 1..Len(rest) : VarOf(rest[i]) \in Unfixed
    <3>1. \A i \in 1..Len(rest) : best + i \in 1..Len(trail) BY <1>2, <2>1, <2>5
    <3>2. QED BY <1>1, <2>5, <3>1
  <2>8. ASSUME NEW v \in On(trail, Len(trail))
        PROVE  v \in On(trail, best) \cup On(rest, Len(rest))
    <3>1. PICK i \in 1..Len(trail) : v = VarOf(trail[i]) BY DEF On
    <3>2. CASE i <= best
      <4>1. i \in 1..best BY <2>1, <3>2
      <4>2. QED BY <3>1, <4>1 DEF On
    <3>3. CASE ~ (i <= best)
      <4>1. i - best \in 1..Len(trail) - best /\ best + (i - best) = i BY <1>2, <2>1, <3>3
      <4>2. rest[i - best] = trail[i] /\ i - best \in 1..Len(rest) BY <2>5, <4>1
      <4>3. QED BY <3>1, <4>2 DEF On
    <3>4. QED BY <3>2, <3>3
  <2>9. t \in Seq(Lits) /\ Len(t) = Len(rest) + 1
        /\ \A i \in 1..Len(t) : VarOf(t[i]) \in Unfixed
    <3>1. /\ t \in Seq(Lits) /\ Len(t) = Len(rest) + 1 /\ t[Len(rest) + 1] = lit
          /\ \A i \in 1..Len(rest) : t[i] = rest[i]
      BY <2>5, AppendProperties
    <3>2. \A i \in 1..Len(t) : i = Len(rest) + 1 \/ i \in 1..Len(rest) BY <2>6, <3>1
    <3>3. QED BY <2>7, <3>1, <3>2
  <2>10. On(t, Len(t)) = On(rest, Len(rest)) \cup {x} BY <2>5, OnAppended
  <2>11. On(t, 0) = {} BY DEF On
  <2> HIDE DEF t
  <2>12. ASSUME NEW v \in Unfixed, v \in On(trail, best) PROVE Lead(s, v) \in now
    BY <1>3, <1>6, <2>4, <2>12, LeadOfValue
  <2>13. ASSUME NEW v \in Unfixed, v \notin On(trail, best) PROVE Lead(s, v) = Lead(saved, v)
    BY <1>3, <2>4, <2>13 DEF Lead
  <2>14. ASSUME NEW v \in Unfixed, v \notin On(t, Len(t)) PROVE Lead(s, v) \in now
    <3>1. CASE v \in On(trail, best) BY <2>12, <3>1
    <3>2. CASE v \notin On(trail, best)
      <4>1. v \notin On(trail, Len(trail)) /\ v # x BY <2>8, <2>10, <2>14, <3>2
      <4>2. Lead(saved, v) \in values BY <1>9, <4>1 DEF Kept
      <4>3. QED BY <1>4, <2>13, <3>2, <4>1, <4>2
    <3>3. QED BY <3>1, <3>2
  <2>15. ASSUME NEW v \in Unfixed \ Y PROVE Lead(s, v) \in B
    <3>1. CASE v \in On(trail, best)
      <4>1. v # x /\ v \in Unfixed \ X BY <1>9, <3>1
      <4>2. v \in now <=> v \in B BY <1>4, <1>9, <3>1, <4>1 DEF Kept
      <4>3. s[v] = IF v \in now THEN 1 ELSE -1 BY <1>3, <2>4, <3>1
      <4>4. s[v] = IF v \in B THEN 1 ELSE -1 BY <4>2, <4>3
      <4>5. QED BY <4>1, <4>4, LeadOfValue
    <3>2. CASE v \notin On(trail, best)
      <4>1. v \in Unfixed \ X OBVIOUS
      <4>2. Lead(saved, v) \in B BY <3>2, <4>1 DEF Kept
      <4>3. QED BY <2>13, <3>2, <4>2
    <3>3. QED BY <3>1, <3>2
  <2>16. \A v \in Var \ Unfixed : s[v] = instance.saved[v]
    <3>1. \A v \in On(trail, best) : v \in Unfixed
      <4>1. 1..best \subseteq 1..Len(trail) BY <1>2, <2>1
      <4>2. QED BY <1>1, <4>1 DEF On
    <3>2. QED BY <1>1, <2>4, <3>1
  <2>17. 0 <= Len(t) /\ 0 # INVALID_BEST BY <1>5, <2>6, <2>9
  <2>18. Kept(s, t, 0, now, B, Y) BY <2>4, <2>9, <2>11, <2>14, <2>15, <2>16, <2>17 DEF Kept
  <2>19. best \notin {0, INVALID_BEST} BY <1>9, <2>1
  <2>20. QED BY <2>3, <2>17, <2>18, <2>19
<1>10. CASE best # INVALID_BEST /\ ~ (Len(trail) < Limit) /\ ~ (best > 0)
  <2>1. best = 0 BY <1>1, <1>10
  <2>2. p = [saved |-> saved, trail |-> <<>>, best |-> INVALID_BEST]
    BY <1>10 DEF PushFlipped
  <2>3. p.saved = saved /\ p.trail = <<>> /\ p.best = INVALID_BEST BY <2>2
  <2>4. On(trail, 0) = {} BY DEF On
  <2>5. \A v \in Unfixed \ Y : Lead(saved, v) \in B BY <2>1, <2>4 DEF Kept
  <2>6. <<>> \in Seq(Lits) /\ Len(<<>>) = 0 OBVIOUS
  <2>7. Kept(saved, <<>>, INVALID_BEST, now, B, Y) BY <1>1, <2>5, <2>6 DEF Kept
  <2>8. QED BY <2>1, <2>3, <2>7
<1>11. Len(trail) < Limit \/ Len(trail) >= Limit
  <2>1. Limit \in Int BY WalkAssumption DEF Limit
  <2>2. QED BY <1>2, <2>1
<1>12. QED BY <1>7, <1>8, <1>9, <1>10, <1>11

\* Where everything on the trail leads to the assignment of now, that one may
\* become the best without a copy.
LEMMA BetterKept ==
  ASSUME NEW s, NEW t, NEW b, NEW now, NEW B, NEW X,
         Kept(s, t, b, now, B, X), b # INVALID_BEST
  PROVE  Kept(s, t, Len(t), now, now, {})
<1>1. t \in Seq(Lits) /\ Len(t) \in Nat BY LenProperties DEF Kept
<1>2. Len(t) # INVALID_BEST BY <1>1, WalkAssumption
<1>3. \A v \in Unfixed : v \notin On(t, Len(t)) => Lead(s, v) \in now BY DEF Kept
<1>4. QED BY <1>1, <1>2, <1>3 DEF Kept

LEMMA AllKept ==
  ASSUME instance \in Instances, NEW t, NEW now, Total(now), NEW B, NEW X,
         Kept(saved, t, INVALID_BEST, now, B, X)
  PROVE  Kept(AllSaved(now), t, 0, now, now, {})
<1> DEFINE s == AllSaved(now)
<1>1. t = <<>> /\ saved \in [Var -> {-1, 0, 1}]
      /\ \A v \in Var \ Unfixed : saved[v] = instance.saved[v]
  BY WalkAssumption DEF Kept
<1>2. s \in [Var -> {-1, 0, 1}] BY <1>1 DEF AllSaved
<1>3. ASSUME NEW v \in Unfixed PROVE Lead(s, v) \in now
  <2>1. v \in Var BY DEF Unfixed
  <2>2. s[v] = IF v \in now THEN 1 ELSE -1 BY <2>1 DEF AllSaved, Total
  <2> HIDE DEF s
  <2>3. QED BY <2>2, LeadOfValue
<1>4. ASSUME NEW v \in Var \ Unfixed PROVE s[v] = instance.saved[v]
  <2>1. VarOf(v) = v /\ VarOf(-v) = v BY VarsAreInts
  <2>2. v \notin now /\ -v \notin now BY <2>1 DEF Total
  <2>3. s[v] = saved[v] BY <2>2 DEF AllSaved
  <2>4. QED BY <1>1, <2>3
<1>5. t \in Seq(Lits) /\ Len(t) = 0 /\ On(t, 0) = {} BY <1>1 DEF On
<1> HIDE DEF s
<1>6. \A i \in 1..Len(t) : VarOf(t[i]) \in Unfixed BY <1>5
<1>7. 0 # INVALID_BEST BY WalkAssumption
<1>8. Kept(s, t, 0, now, now, {}) BY <1>2, <1>3, <1>4, <1>5, <1>6, <1>7 DEF Kept
<1>9. QED BY <1>8 DEF s

\* The length of the list is the number of the clauses that it lists.
LEMMA ListedLength ==
  ASSUME NEW R, NEW w, Exact(w, R)
  PROVE  Len(w.unsat) \in Nat /\ Cardinality(Zero(w, R)) = Len(w.unsat)
<1> DEFINE n == Len(w.unsat)
           Z == Zero(w, R)
           f == [i \in 1..n |-> w.unsat[i]]
<1>1. Listed(w, R, Z) BY DEF Exact
<1> HIDE DEF Z
<1>2. n \in Nat BY <1>1, LenProperties DEF Listed
<1>3. f \in [1..n -> Z] BY <1>1 DEF Listed
<1>4. \A i, j \in 1..n : f[i] = f[j] => i = j BY <1>1 DEF Listed
<1>5. \A z \in Z : \E i \in 1..n : f[i] = z BY <1>1 DEF Listed
<1> HIDE DEF f
<1>6. f \in Bijection(1..n, Z)
  BY <1>3, <1>4, <1>5 DEF Bijection, Injection, Surjection, IsInjective
<1>7. ExistsBijection(1..n, Z) BY <1>6 DEF ExistsBijection
<1>8. IsFiniteSet(1..n) /\ Cardinality(1..n) = n BY <1>2, FS_Interval
<1>9. Cardinality(Z) = n BY <1>7, <1>8, FS_Bijection
<1>10. QED BY <1>2, <1>9 DEF Z

\* The clauses that an assignment falsifies.
Falsified(A) == {r \in DOMAIN refs : Clause(refs[r]) \cap A = {}}

\* Once the counters are exact, those with count 0 are the falsified clauses.
LEMMA FalsifiedNext ==
  ASSUME TypeInv', CountInv', pc' # "start", UNCHANGED instance, instance \in Instances
  PROVE  /\ Len(unsat') \in Nat /\ Cardinality(Falsified(values)') = Len(unsat')
         /\ Falsified(values)' = {r \in DOMAIN refs' : counters'[r].count = 0}
<1> DEFINE w == [counters |-> counters', unsat |-> unsat']
           R == DOMAIN refs'
<1>1. Exact(w, R) /\ \A r \in R : counters'[r].count = Cardinality(Clause(refs'[r]) \cap values')
  BY DEF CountInv, TrueIn, Clause
<1>2. w.unsat = unsat' /\ w.counters = counters' OBVIOUS
<1> HIDE DEF w
<1>3. refs' \in Seq(DOMAIN instance.clauses) BY DEF TypeInv
<1>4. ASSUME NEW r \in R
      PROVE  counters'[r].count = 0 <=> Clause(refs'[r]) \cap values' = {}
  <2>1. refs'[r] \in DOMAIN instance.clauses BY <1>3, ElementOfSeq, LenProperties
  <2>2. IsFiniteSet(Clause(refs'[r]) \cap values') BY <2>1, ClauseFinite, FS_Intersection
  <2>3. QED BY <1>1, <2>2, FS_EmptySet
<1>5. Falsified(values)' = {r \in R : Clause(refs'[r]) \cap values' = {}}
  BY DEF Falsified, Clause
<1>6. Falsified(values)' = {r \in R : counters'[r].count = 0} BY <1>4, <1>5
<1>7. Zero(w, R) = Falsified(values)' BY <1>2, <1>6 DEF Zero
<1>8. QED BY <1>1, <1>2, <1>6, <1>7, ListedLength

-----------------------------------------------------------------------------
(* The steps. *)

LEMMA InitInv == Init => IInv
<1> SUFFICES ASSUME Init PROVE IInv OBVIOUS
<1>1. TypeInv /\ CountInv BY InitTypeCount
<1>2. StartInv /\ MinimumInv /\ KeptInv /\ UntouchedInv /\ SavedIsBest
  BY DEF Init, StartInv, MinimumInv, KeptInv, UntouchedInv, SavedIsBest
<1>3. QED BY <1>1, <1>2 DEF IInv

\* The phases that the walker imports are the best it knows.
LEMMA InitWalkerInv == IInv /\ InitWalker => IInv'
<1> SUFFICES ASSUME IInv, InitWalker PROVE IInv' OBVIOUS
<1>1. /\ pc' = "walk" /\ values' = Imported /\ atBest' = Imported
      /\ minimum' = Len(unsat') /\ initial' = minimum'
      /\ UNCHANGED <<instance, saved, trail, best, reflipped>>
  BY DEF InitWalker
<1>2. /\ instance \in Instances /\ saved = instance.saved /\ trail = <<>> /\ best = 0
      /\ reflipped = {}
  BY DEF IInv, TypeInv, StartInv, InitWalker
<1>3. saved \in [Var -> {-1, 0, 1}] BY <1>2, InstanceType
<1>4. TypeInv' /\ CountInv' BY <1>3, InitWalkerCountInv DEF IInv
<1>5. /\ Len(unsat') \in Nat /\ Cardinality(Falsified(values)') = Len(unsat')
  BY <1>1, <1>2, <1>4, FalsifiedNext
<1>6. Total(Imported) /\ \A v \in Unfixed : v * Phase(v) \in Imported
  BY <1>2, <1>3, ImportedTotal
<1>7. MinimumInv'
  BY <1>1, <1>5, <1>6 DEF MinimumInv, Falsified, Total, Unfixed
<1>8. ASSUME NEW v \in Unfixed PROVE Lead(saved, v) \in Imported
  <2>1. v \in Var BY DEF Unfixed
  <2>2. v * Phase(v) = Lead(saved, v) BY <1>2, <1>3, <2>1, LeadIsPhase DEF Phase
  <2>3. QED BY <1>6, <2>2
<1>9. Kept(saved, <<>>, 0, Imported, Imported, {})
  <2>1. <<>> \in Seq(Lits) /\ Len(<<>>) = 0 /\ On(<<>>, 0) = {} BY DEF On
  <2>2. \A i \in 1..0 : VarOf(<<>>[i]) \in Unfixed OBVIOUS
  <2>3. QED BY <1>2, <1>3, <1>8, <2>1, <2>2 DEF Kept
<1>10. KeptInv'
  <2>1. Kept(saved', trail', best', values', atBest', reflipped') BY <1>1, <1>2, <1>9
  <2>2. QED BY <1>1, <2>1 DEF KeptInv, Kept, Unfixed, Lead
<1>11. UntouchedInv' BY <1>1, <1>2 DEF UntouchedInv
<1>12. StartInv' /\ SavedIsBest' BY <1>1 DEF StartInv, SavedIsBest
<1>13. QED BY <1>4, <1>7, <1>10, <1>11, <1>12 DEF IInv

LEMMA StepInv ==
  ASSUME IInv, NEW r \in DOMAIN refs, NEW lit \in Clause(refs[r]), Step(r, lit)
  PROVE  IInv'
<1> DEFINE now == (values \ {-lit}) \cup {lit}
           p == PushFlipped(lit, now)
           again == IF best # INVALID_BEST /\ VarOf(lit) \in On(trail, best)
                    THEN {VarOf(lit)} ELSE {}
           flips == {VarOf(f) : f \in ToSet(SubSeq(trail, 1, best))}
           better == Len(unsat') < minimum
<1>1. /\ pc = "walk" /\ pc' = "walk" /\ r \in ToSet(unsat) /\ VarOf(lit) \in Unfixed
      /\ values' = now /\ trail' = p.trail
      /\ UNCHANGED <<instance, refs, initial>>
      /\ better =>
           /\ minimum' = Len(unsat') /\ atBest' = now /\ reflipped' = {}
           /\ p.best = INVALID_BEST => saved' = AllSaved(now) /\ best' = 0
           /\ p.best # INVALID_BEST => saved' = p.saved /\ best' = Len(p.trail)
      /\ ~better =>
           /\ saved' = p.saved /\ best' = p.best /\ UNCHANGED <<minimum, atBest>>
           /\ reflipped' = reflipped \cup
                (IF best # INVALID_BEST /\ VarOf(lit) \in flips THEN {VarOf(lit)} ELSE {})
  BY DEF Step
<1>2. TypeInv /\ CountInv /\ instance \in Instances BY DEF IInv, TypeInv
<1>3. Kept(saved, trail, best, values, atBest, reflipped) BY <1>1 DEF IInv, KeptInv
<1>4. /\ minimum \in Nat /\ initial \in Nat /\ minimum <= initial /\ Total(atBest)
      /\ Cardinality(Falsified(atBest)) = minimum
  BY <1>1 DEF IInv, MinimumInv, Falsified
<1>5. TypeInv' /\ CountInv' BY <1>2, StepCountInv
<1>6. Len(unsat') \in Nat /\ Cardinality(Falsified(values)') = Len(unsat')
  BY <1>1, <1>2, <1>5, FalsifiedNext
<1>7. lit \in Lits /\ Total(now) BY <1>1, <1>2, PickedIsFalse
<1>8. best # INVALID_BEST => flips = On(trail, best) BY <1>3, OnIsPrefix DEF Kept
<1> HIDE DEF now, p, again, flips, better
<1>9. /\ Kept(p.saved, p.trail, p.best, now, atBest, reflipped \cup again)
      /\ best \in {0, INVALID_BEST} => p.saved = saved /\ p.best \in {0, INVALID_BEST}
      /\ p.best = INVALID_BEST => p.saved = saved
  <2>1. /\ now = (values \ {-lit}) \cup {lit} /\ p = PushFlipped(lit, now)
        /\ again = IF best # INVALID_BEST /\ VarOf(lit) \in On(trail, best)
                     THEN {VarOf(lit)} ELSE {}
    BY DEF now, p, again
  <2>2. /\ instance \in Instances /\ Total(atBest) /\ lit \in Lits
        /\ VarOf(lit) \in Unfixed /\ Total(now)
    BY <1>1, <1>2, <1>4, <1>7
  <2>3. QED BY ONLY <1>3, <2>1, <2>2, PushKept
<1>10. ASSUME Kept(saved', trail', best', now, atBest', reflipped') PROVE KeptInv'
  BY <1>1, <1>10 DEF KeptInv, Kept, Unfixed, Lead
<1>11. StartInv' /\ SavedIsBest' BY <1>1 DEF StartInv, SavedIsBest
<1>12. CASE better
  <2>1. minimum' \in Nat /\ initial' \in Nat /\ minimum' < initial'
    BY <1>1, <1>4, <1>6, <1>12 DEF better
  <2>2. Cardinality(Falsified(atBest)') = minimum'
    BY <1>1, <1>6, <1>12 DEF Falsified
  <2>3. MinimumInv'
    BY <1>1, <1>7, <1>12, <2>1, <2>2 DEF MinimumInv, Falsified, Total, Unfixed
  <2>4. UntouchedInv' BY <2>1 DEF UntouchedInv
  <2>5. CASE p.best = INVALID_BEST
    <3>1. Kept(saved, p.trail, INVALID_BEST, now, atBest, reflipped \cup again)
      BY <1>9, <2>5
    <3>2. Kept(AllSaved(now), p.trail, 0, now, now, {}) BY <1>2, <1>7, <3>1, AllKept
    <3>3. KeptInv' BY <1>1, <1>10, <1>12, <2>5, <3>2
    <3>4. QED BY <1>5, <1>11, <2>3, <2>4, <3>3 DEF IInv
  <2>6. CASE p.best # INVALID_BEST
    <3>1. Kept(p.saved, p.trail, Len(p.trail), now, now, {}) BY <1>9, <2>6, BetterKept
    <3>2. KeptInv' BY <1>1, <1>10, <1>12, <2>6, <3>1
    <3>3. QED BY <1>5, <1>11, <2>3, <2>4, <3>2 DEF IInv
  <2>7. QED BY <2>5, <2>6
<1>13. CASE ~better
  <2>1. MinimumInv'
    BY <1>1, <1>4, <1>13 DEF MinimumInv, Falsified, Total, Unfixed, Clause
  <2>2. UntouchedInv'
    <3>1. SUFFICES ASSUME minimum' = initial'
                   PROVE  saved' = instance'.saved /\ best' \in {0, INVALID_BEST}
      BY DEF UntouchedInv
    <3>2. saved = instance.saved /\ best \in {0, INVALID_BEST}
      BY <1>1, <1>13, <3>1 DEF IInv, UntouchedInv
    <3>3. QED BY <1>1, <1>9, <1>13, <3>2
  <2>3. reflipped' = reflipped \cup again BY <1>1, <1>8, <1>13 DEF again
  <2>4. KeptInv' BY <1>1, <1>9, <1>10, <1>13, <2>3
  <2>5. QED BY <1>5, <1>11, <2>1, <2>2, <2>4 DEF IInv
<1>14. QED BY <1>12, <1>13

\* save_final_minimum writes what the trail still holds of the best assignment.
LEMMA FinishInv == IInv /\ Finish => IInv'
<1> SUFFICES ASSUME IInv, Finish PROVE IInv' OBVIOUS
<1>1. /\ pc = "walk" /\ pc' = "done"
      /\ UNCHANGED <<instance, values, refs, counters, unsat, trail, best, minimum,
                     initial, atBest, reflipped>>
      /\ minimum < initial =>
           /\ best \in {0, INVALID_BEST} => saved' = saved
           /\ best \notin {0, INVALID_BEST} => saved' = Saved(values)
      /\ ~(minimum < initial) =>
           saved' = [v \in Var |-> IF ~instance.initially /\ instance.best[v] # 0
                                   THEN instance.best[v] ELSE saved[v]]
  BY DEF Finish
<1>2. TypeInv /\ CountInv /\ instance \in Instances BY DEF IInv, TypeInv
<1>3. Kept(saved, trail, best, values, atBest, reflipped) BY <1>1 DEF IInv, KeptInv
<1>4. /\ minimum \in Nat /\ initial \in Nat /\ minimum <= initial /\ Total(atBest)
      /\ Cardinality(Falsified(atBest)) = minimum
  BY <1>1 DEF IInv, MinimumInv, Falsified
<1>5. TypeInv' BY <1>1, <1>2 DEF TypeInv
<1>6. CountInv' BY <1>1, <1>2 DEF CountInv, TrueIn, Clause, Total, Unfixed
<1>7. StartInv' /\ MinimumInv' /\ KeptInv' /\ UntouchedInv'
  BY <1>1 DEF StartInv, MinimumInv, KeptInv, UntouchedInv
<1>8. CASE minimum = initial
  <2>1. saved = instance.saved BY <1>1, <1>8 DEF IInv, UntouchedInv
  <2>2. ~(minimum < initial) BY <1>4, <1>8
  <2>3. SavedIsBest' BY <1>1, <1>8, <2>1, <2>2 DEF SavedIsBest
  <2>4. QED BY <1>5, <1>6, <1>7, <2>3 DEF IInv
<1>9. CASE minimum < initial
  <2>1. Cardinality({q \in DOMAIN refs : Clause(refs[q]) \cap atBest = {}})' = minimum'
    BY <1>1, <1>4 DEF Falsified, Clause
  <2>2. Unfixed \subseteq Var BY DEF Unfixed
  <2>3. /\ saved' \in [Var -> {-1, 0, 1}]
        /\ \A v \in Unfixed \ reflipped : Lead(saved', v) \in atBest
        /\ \A v \in Var \ Unfixed : saved'[v] = instance.saved[v]
    <3>1. CASE best \in {0, INVALID_BEST}
      <4>1. On(trail, 0) = {} BY DEF On
      <4>2. QED BY <1>1, <1>3, <1>9, <3>1, <4>1 DEF Kept
    <3>2. CASE best \notin {0, INVALID_BEST}
      <4>1. /\ saved \in [Var -> {-1, 0, 1}] /\ trail \in Seq(Lits)
            /\ \A i \in 1..Len(trail) : VarOf(trail[i]) \in Unfixed
            /\ best \in Nat /\ best <= Len(trail)
        BY <1>3, <3>2 DEF Kept
      <4>2. saved' = Saved(values) BY <1>1, <1>9, <3>2
      <4>3. /\ saved' \in [Var -> {-1, 0, 1}]
            /\ \A v \in Var : v \notin On(trail, best) => saved'[v] = saved[v]
            /\ \A v \in Var :
                 v \in On(trail, best) => saved'[v] = IF v \in values THEN 1 ELSE -1
        BY <4>1, <4>2, SavedValues
      <4>4. ASSUME NEW v \in Unfixed \ reflipped PROVE Lead(saved', v) \in atBest
        <5>1. CASE v \in On(trail, best)
          <6>1. v \in values <=> v \in atBest BY <1>3, <3>2, <5>1 DEF Kept
          <6>2. saved'[v] = IF v \in atBest THEN 1 ELSE -1 BY <2>2, <4>3, <5>1, <6>1
          <6>3. QED BY <1>4, <6>2, LeadOfValue
        <5>2. CASE v \notin On(trail, best)
          <6>1. Lead(saved, v) \in atBest BY <1>3, <5>2 DEF Kept
          <6>2. saved'[v] = saved[v] BY <2>2, <4>3, <5>2
          <6>3. QED BY <6>1, <6>2 DEF Lead
        <5>3. QED BY <5>1, <5>2
      <4>5. ASSUME NEW v \in Var \ Unfixed PROVE saved'[v] = instance.saved[v]
        <5>1. Len(trail) \in Nat BY <4>1, LenProperties
        <5>2. 1..best \subseteq 1..Len(trail) BY <4>1, <5>1
        <5>3. v \notin On(trail, best) BY <4>1, <5>2 DEF On
        <5>4. QED BY <1>3, <4>3, <5>3 DEF Kept
      <4>6. QED BY <4>3, <4>4, <4>5
    <3>3. QED BY <3>1, <3>2
  <2>4. ASSUME NEW v \in Unfixed \ reflipped
        PROVE  v * (IF saved'[v] # 0 THEN saved'[v] ELSE instance.phase) \in atBest
    <3>1. v * (IF saved'[v] # 0 THEN saved'[v] ELSE instance.phase) = Lead(saved', v)
      BY <1>2, <2>2, <2>3, LeadIsPhase
    <3>2. QED BY <2>3, <3>1
  <2>5. minimum' # initial' BY <1>1, <1>4, <1>9
  <2>6. \A v \in (Unfixed \ reflipped)' : v * Phase(v)' \in atBest'
    BY <1>1, <2>4 DEF Phase, Unfixed
  <2>7. \A v \in (Var \ Unfixed)' : saved'[v] = instance'.saved[v]
    BY <1>1, <2>3 DEF Unfixed
  <2>8. SavedIsBest' BY <2>1, <2>5, <2>6, <2>7 DEF SavedIsBest
  <2>9. QED BY <1>5, <1>6, <1>7, <2>8 DEF IInv
<1>10. QED BY <1>4, <1>8, <1>9

LEMMA NextInv == IInv /\ [Next]_vars => IInv'
<1> SUFFICES ASSUME IInv, [Next]_vars PROVE IInv' OBVIOUS
<1>1. CASE InitWalker BY <1>1, InitWalkerInv
<1>2. ASSUME NEW r \in DOMAIN refs, NEW lit \in Clause(refs[r]), Step(r, lit) PROVE IInv'
  BY <1>2, StepInv
<1>3. CASE Finish BY <1>3, FinishInv
<1>4. CASE UNCHANGED vars
  <2>1. TypeInv' /\ CountInv'
    BY <1>4 DEF vars, IInv, TypeInv, CountInv, TrueIn, Clause, Total, Unfixed
  <2>2. StartInv' /\ UntouchedInv' BY <1>4 DEF vars, IInv, StartInv, UntouchedInv
  <2>3. MinimumInv' BY <1>4 DEF vars, IInv, MinimumInv, Total, Clause, Unfixed
  <2>4. KeptInv' BY <1>4 DEF vars, IInv, KeptInv, Kept, Lead, Unfixed
  <2>5. SavedIsBest' BY <1>4 DEF vars, IInv, SavedIsBest, Clause, Unfixed, Phase
  <2>6. QED BY <2>1, <2>2, <2>3, <2>4, <2>5 DEF IInv
<1>5. QED BY <1>1, <1>2, <1>3, <1>4 DEF Next, Returned

LEMMA Invariance == Spec => []IInv
BY InitInv, NextInv, PTL DEF Spec

-----------------------------------------------------------------------------
\* The counters say how many literals of each clause are true, unsat lists the
\* falsified clauses once each, and each knows its place, through all the swaps
\* of pop_unsat.
THEOREM CountersAreExact == Spec => []CountersExact
<1>1. IInv => CountersExact
  <2> SUFFICES ASSUME IInv, pc = "walk"
               PROVE  /\ \A r \in DOMAIN refs : counters[r].count = TrueIn(refs[r])
                      /\ ToSet(unsat) = {r \in DOMAIN refs : counters[r].count = 0}
                      /\ \A i \in DOMAIN unsat : counters[unsat[i]].pos = i
    BY DEF CountersExact
  <2> DEFINE w == [counters |-> counters, unsat |-> unsat]
             R == DOMAIN refs
  <2>1. Exact(w, R) /\ \A r \in R : counters[r].count = TrueIn(refs[r])
    BY DEF IInv, CountInv
  <2>2. w.counters = counters /\ w.unsat = unsat OBVIOUS
  <2> HIDE DEF w
  <2>3. Listed(w, R, Zero(w, R)) BY <2>1 DEF Exact
  <2>4. unsat \in Seq(R) /\ DOMAIN unsat = 1..Len(unsat)
    BY <2>2, <2>3, LenProperties DEF Listed
  <2>5. Zero(w, R) = {r \in R : counters[r].count = 0} BY <2>2 DEF Zero
  <2>6. \A i \in DOMAIN unsat : unsat[i] \in Zero(w, R) /\ counters[unsat[i]].pos = i
    BY <2>2, <2>3, <2>4 DEF Listed
  <2>7. \A r \in Zero(w, R) : r \in ToSet(unsat) BY <2>2, <2>3, <2>4 DEF Listed, ToSet
  <2>8. \A r \in ToSet(unsat) : r \in Zero(w, R) BY <2>6 DEF ToSet
  <2>9. QED BY <2>1, <2>5, <2>6, <2>7, <2>8
<1>2. QED BY <1>1, Invariance, PTL

\* The walk leaves the assignment that falsified minimum clauses in the saved
\* phases, but for the variables whose flips on the trail were flipped again.
THEOREM BestIsSaved == Spec => []SavedIsBest
<1>1. IInv => SavedIsBest BY DEF IInv
<1>2. QED BY <1>1, Invariance, PTL
=============================================================================
