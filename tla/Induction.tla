------------------------------ MODULE Induction ------------------------------
(***************************************************************************)
(* Induction over the numbers as a fact about a set of them, which the     *)
(* provers can use where the rules with an operator parameter are of no    *)
(* help; and what a recursive function over 0..n and a fold over a         *)
(* sequence compute, for the operator that a module gives when it          *)
(* instantiates this one.                                                  *)
(***************************************************************************)
EXTENDS Integers, Sequences

LOCAL INSTANCE WellFoundedInduction

CONSTANT Op(_, _, _)  \* a step: a parameter, the value so far, what the step is made with

LEMMA Smallest ==
  ASSUME NEW T, T \subseteq Nat, T # {}
  PROVE  \E x \in T : \A y \in T : x <= y
<1>1. PICK x \in T : \A y \in T : ~ (<<y, x>> \in OpToRel(<, Nat))
  BY WFMin, NatLessThanWellFounded
<1>2. \A y \in T : ~ (y < x) BY <1>1 DEF OpToRel
<1>3. ASSUME NEW y \in T PROVE x <= y
  <2>1. x \in Nat /\ y \in Nat /\ ~ (y < x) BY <1>2
  <2>2. QED BY <2>1
<1>4. QED BY <1>3

LEMMA NatSetInduction ==
  ASSUME NEW S, 0 \in S, \A n \in Nat : n \in S => n + 1 \in S
  PROVE  Nat \subseteq S
<1>1. SUFFICES ASSUME Nat \ S # {} PROVE FALSE OBVIOUS
<1>2. PICK x \in Nat \ S : \A y \in Nat \ S : x <= y BY <1>1, Smallest
<1>3. x \in Nat /\ x # 0 BY <1>2
<1>4. x - 1 \in Nat /\ (x - 1) + 1 = x BY <1>3
<1>5. x - 1 \in S BY <1>2, <1>4
<1>6. QED BY <1>2, <1>4, <1>5

-----------------------------------------------------------------------------
(* Recursion over 0..n.                                                    *)
IsRun(after, p, b, n) ==
  after = [k \in 0..n |-> IF k = 0 THEN b ELSE Op(p, after[k - 1], k)]

Iterated(p, b, n) ==
  LET after[k \in 0..n] == IF k = 0 THEN b ELSE Op(p, after[k - 1], k)
  IN after[n]

LEMMA RunExists ==
  ASSUME NEW p, NEW b, NEW n \in Nat
  PROVE  \E after : IsRun(after, p, b, n)
<1> DEFINE T == {m \in Nat : \E after : IsRun(after, p, b, m)}
<1>1. 0 \in T
  <2> DEFINE f == [k \in 0..0 |-> b]
  <2>1. IsRun(f, p, b, 0) BY DEF IsRun
  <2>2. QED BY <2>1
<1>2. ASSUME NEW m \in Nat, m \in T PROVE m + 1 \in T
  <2>1. PICK g : IsRun(g, p, b, m) BY <1>2
  <2> DEFINE f == [k \in 0..(m + 1) |-> IF k = m + 1 THEN Op(p, g[m], m + 1) ELSE g[k]]
  <2>2. ASSUME NEW k \in 0..(m + 1) PROVE f[k] = IF k = 0 THEN b ELSE Op(p, f[k - 1], k)
    <3>1. CASE k = m + 1
      <4>1. k # 0 /\ k - 1 = m /\ m \in 0..(m + 1) /\ m # m + 1 BY <3>1
      <4>2. QED BY <3>1, <4>1
    <3>2. CASE k # m + 1 /\ k # 0
      <4>1. k \in 0..m /\ k - 1 \in 0..m /\ k - 1 \in 0..(m + 1) /\ k - 1 # m + 1 BY <3>2
      <4>2. g[k] = Op(p, g[k - 1], k) BY <2>1, <3>2, <4>1 DEF IsRun
      <4>3. QED BY <3>2, <4>1, <4>2
    <3>3. CASE k = 0
      <4>1. k \in 0..m /\ k # m + 1 BY <3>3
      <4>2. g[k] = b BY <2>1, <3>3, <4>1 DEF IsRun
      <4>3. QED BY <3>3, <4>1, <4>2
    <3>4. QED BY <3>1, <3>2, <3>3
  <2>3. f = [k \in 0..(m + 1) |-> IF k = 0 THEN b ELSE Op(p, f[k - 1], k)] BY <2>2
  <2> HIDE DEF f
  <2>4. IsRun(f, p, b, m + 1) BY <2>3 DEF IsRun
  <2>5. QED BY <2>4
<1> HIDE DEF T
<1>3. Nat \subseteq T BY <1>1, <1>2, NatSetInduction
<1>4. QED BY <1>3 DEF T

\* Where the steps lead from one of a family of sets into the next, the run stays in them.
LEMMA RunIn ==
  ASSUME NEW p, NEW b, NEW n \in Nat, NEW G, b \in G[0],
         \A k \in 1..n : \A d \in G[k - 1] : Op(p, d, k) \in G[k],
         NEW after, IsRun(after, p, b, n)
  PROVE  \A k \in 0..n : after[k] \in G[k]
<1> DEFINE T == {k \in Nat : k <= n => after[k] \in G[k]}
<1>1. 0 \in T
  <2>1. after[0] = b BY DEF IsRun
  <2>2. QED BY <2>1
<1>2. ASSUME NEW k \in Nat, k \in T PROVE k + 1 \in T
  <2> SUFFICES ASSUME k + 1 <= n PROVE after[k + 1] \in G[k + 1] OBVIOUS
  <2>1. k + 1 \in 1..n /\ k + 1 \in 0..n /\ k + 1 # 0 /\ (k + 1) - 1 = k /\ k <= n OBVIOUS
  <2>2. after[k + 1] = Op(p, after[k], k + 1) BY <2>1 DEF IsRun
  <2>3. after[k] \in G[k] BY <1>2, <2>1
  <2>4. QED BY <2>1, <2>2, <2>3
<1> HIDE DEF T
<1>3. Nat \subseteq T BY <1>1, <1>2, NatSetInduction
<1>4. QED BY <1>3 DEF T

THEOREM IteratedIn ==
  ASSUME NEW p, NEW b, NEW n \in Nat, NEW G, b \in G[0],
         \A k \in 1..n : \A d \in G[k - 1] : Op(p, d, k) \in G[k]
  PROVE  Iterated(p, b, n) \in G[n]
<1> DEFINE after == CHOOSE f : IsRun(f, p, b, n)
<1>1. IsRun(after, p, b, n) BY RunExists
<1>2. Iterated(p, b, n) = after[n] BY DEF Iterated, IsRun
<1> HIDE DEF after
<1>3. after[n] \in G[n] BY <1>1, RunIn
<1>4. QED BY <1>2, <1>3

-----------------------------------------------------------------------------
(* FoldLeft of the community modules, written out.                         *)
Greatest(s) == CHOOSE x \in s : \A y \in s : x >= y

IsFold(iter, p, b, seq, n) ==
  iter = [s \in SUBSET (1..n) |->
            IF s = {} THEN b
            ELSE Op(p, iter[s \ {Greatest(s)}], seq[Greatest(s)])]

Folded(p, b, seq) ==
  LET iter[s \in SUBSET (DOMAIN seq)] ==
        IF s = {} THEN b
        ELSE LET i == CHOOSE x \in s : \A y \in s : x >= y
             IN Op(p, iter[s \ {i}], seq[i])
  IN iter[DOMAIN seq]

LEMMA GreatestIs ==
  ASSUME NEW s, s \subseteq Int, NEW m \in s, \A y \in s : m >= y
  PROVE  Greatest(s) = m
<1> DEFINE x == Greatest(s)
<1>1. x \in s /\ \A y \in s : x >= y BY DEF Greatest
<1> HIDE DEF x
<1>2. x >= m /\ m >= x BY <1>1
<1>3. x = m BY <1>1, <1>2
<1>4. QED BY <1>3 DEF x

LEMMA FoldExists ==
  ASSUME NEW p, NEW b, NEW seq, NEW n \in Nat
  PROVE  \E iter : IsFold(iter, p, b, seq, n)
<1> DEFINE T == {m \in Nat : \E iter : IsFold(iter, p, b, seq, m)}
<1>1. 0 \in T
  <2> DEFINE f == [s \in SUBSET (1..0) |-> b]
  <2>1. \A s \in SUBSET (1..0) : s = {} OBVIOUS
  <2>2. f = [s \in SUBSET (1..0) |-> IF s = {} THEN b
               ELSE Op(p, f[s \ {Greatest(s)}], seq[Greatest(s)])] BY <2>1
  <2> HIDE DEF f
  <2>3. IsFold(f, p, b, seq, 0) BY <2>2 DEF IsFold
  <2>4. QED BY <2>3
<1>2. ASSUME NEW m \in Nat, m \in T PROVE m + 1 \in T
  <2>1. PICK g : IsFold(g, p, b, seq, m) BY <1>2
  <2> DEFINE f == [s \in SUBSET (1..(m + 1)) |->
                     IF m + 1 \in s THEN Op(p, g[s \ {m + 1}], seq[m + 1]) ELSE g[s]]
  <2>2. ASSUME NEW s \in SUBSET (1..(m + 1))
        PROVE  f[s] = IF s = {} THEN b ELSE Op(p, f[s \ {Greatest(s)}], seq[Greatest(s)])
    <3>1. CASE m + 1 \in s
      <4>0. s \subseteq Int /\ \A y \in s : m + 1 >= y OBVIOUS
      <4>1. Greatest(s) = m + 1 BY ONLY <3>1, <4>0, GreatestIs
      <4>2. s \ {m + 1} \in SUBSET (1..(m + 1)) /\ m + 1 \notin s \ {m + 1} OBVIOUS
      <4>3. f[s] = Op(p, g[s \ {m + 1}], seq[m + 1]) BY <3>1
      <4>4. f[s \ {m + 1}] = g[s \ {m + 1}] BY <4>2
      <4>5. s # {} BY <3>1
      <4> HIDE DEF f
      <4>6. QED BY <4>1, <4>3, <4>4, <4>5
    <3>2. CASE m + 1 \notin s
      <4>1. s \in SUBSET (1..m) BY <3>2
      <4>2. f[s] = g[s] BY <3>2
      <4>3. CASE s = {} BY <2>1, <4>1, <4>2, <4>3 DEF IsFold
      <4>4. CASE s # {}
        <5>1. g[s] = Op(p, g[s \ {Greatest(s)}], seq[Greatest(s)])
          BY <2>1, <4>1, <4>4 DEF IsFold
        <5>2. s \ {Greatest(s)} \in SUBSET (1..(m + 1)) /\ m + 1 \notin s \ {Greatest(s)}
          BY <3>2
        <5>3. f[s \ {Greatest(s)}] = g[s \ {Greatest(s)}] BY <5>2
        <5> HIDE DEF f
        <5>4. QED BY <4>2, <4>4, <5>1, <5>3
      <4>5. QED BY <4>3, <4>4
    <3>3. QED BY <3>1, <3>2
  <2>3. f = [s \in SUBSET (1..(m + 1)) |->
               IF s = {} THEN b ELSE Op(p, f[s \ {Greatest(s)}], seq[Greatest(s)])]
    BY <2>2
  <2> HIDE DEF f
  <2>4. IsFold(f, p, b, seq, m + 1) BY <2>3 DEF IsFold
  <2>5. QED BY <2>4
<1> HIDE DEF T
<1>3. Nat \subseteq T BY <1>1, <1>2, NatSetInduction
<1>4. QED BY <1>3 DEF T

\* The same of a fold, whose steps are made with the elements of the sequence.
THEOREM FoldedIn ==
  ASSUME NEW p, NEW b, NEW S, NEW seq \in Seq(S), NEW G, b \in G[0],
         \A k \in 1..Len(seq) : \A d \in G[k - 1] : Op(p, d, seq[k]) \in G[k]
  PROVE  Folded(p, b, seq) \in G[Len(seq)]
<1> DEFINE n == Len(seq)
           iter == CHOOSE f : IsFold(f, p, b, seq, n)
<1>1. n \in Nat /\ DOMAIN seq = 1..n OBVIOUS
<1> HIDE DEF n
<1>2. IsFold(iter, p, b, seq, n) BY <1>1, FoldExists
<1>3. Folded(p, b, seq) = iter[1..n] BY <1>1 DEF Folded, IsFold, Greatest
<1> HIDE DEF iter
<1> DEFINE T == {k \in Nat : k <= n => iter[1..k] \in G[k]}
<1>4. 0 \in T
  <2>1. 1..0 = {} /\ 1..0 \in SUBSET (1..n) OBVIOUS
  <2>2. iter[1..0] = b BY <1>2, <2>1 DEF IsFold
  <2>3. QED BY <2>2
<1>5. ASSUME NEW k \in Nat, k \in T PROVE k + 1 \in T
  <2> SUFFICES ASSUME k + 1 <= n PROVE iter[1..(k + 1)] \in G[k + 1] OBVIOUS
  <2>1. k + 1 \in 1..n /\ (k + 1) - 1 = k /\ k <= n BY <1>1
  <2>2. /\ 1..(k + 1) \in SUBSET (1..n) /\ 1..(k + 1) # {}
        /\ (1..(k + 1)) \ {k + 1} = 1..k
    BY <1>1
  <2>3. Greatest(1..(k + 1)) = k + 1
    <3>1. 1..(k + 1) \subseteq Int /\ k + 1 \in 1..(k + 1) /\ \A y \in 1..(k + 1) : k + 1 >= y
      OBVIOUS
    <3>2. QED BY <3>1, GreatestIs
  <2>4. iter[1..(k + 1)] = Op(p, iter[1..k], seq[k + 1])
    BY <1>2, <2>2, <2>3 DEF IsFold
  <2>5. iter[1..k] \in G[k] BY <1>5, <2>1
  <2>6. QED BY <2>1, <2>4, <2>5 DEF n
<1> HIDE DEF T
<1>6. Nat \subseteq T BY <1>4, <1>5, NatSetInduction
<1>7. QED BY <1>1, <1>3, <1>6 DEF T, n
=============================================================================
