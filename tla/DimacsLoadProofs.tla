--------------------------- MODULE DimacsLoadProofs ---------------------------
(***************************************************************************)
(* Theorem: from a well-formed file of any length the reader takes the      *)
(* numbers that the file spells, in their order.                            *)
(***************************************************************************)
EXTENDS DimacsLoad, SequenceTheorems, FiniteSetTheorems, TLAPS

Nats == INSTANCE Induction WITH Op <- LAMBDA p, d, x : d  \* for its lemmas about numbers

TypeInv ==
  /\ text \in Seq(Chars) /\ pos \in 1 .. Len(text) + 2
  /\ num \in Nat /\ neg \in BOOLEAN
  /\ cls \in Seq(Int) /\ clauses \in Seq(Seq(Int))

\* A comment that starts before the place p is still open at p.
Open(p) ==
  \E b \in 1 .. p - 1 : text[b] = "c" /\ \A j \in b .. p - 1 : text[j] # "n"

\* The numbers that start before the place p.
UpTo(p) == [n \in 1 .. Cardinality(Before(p)) |-> Numbers[n]]

\* The digits from i to the place before p have been read.
InNumber(i, p) ==
  /\ i \in Starts /\ i < p /\ p <= Len(text) + 1
  /\ \A k \in i .. p - 1 : At(k) \in DOMAIN Digit
  /\ num = Value(i, p - 1)
  /\ neg <=> At(i - 1) = "-"
  /\ Taken = UpTo(i)

\* Between two numbers: a minus before the place, and nothing else, is pending.
Between ==
  /\ pos <= Len(text) + 1 => ~ Open(pos)
  /\ neg <=> At(pos - 1) = "-"
  /\ At(pos - 1) \notin DOMAIN Digit
  /\ c = EOF => pos > Len(text)
  /\ Taken = UpTo(pos)

\* In a comment, which a pending minus cannot precede.
Commented == pos <= Len(text) + 1 /\ Open(pos) /\ neg = FALSE /\ Taken = UpTo(pos)

ReadInv ==
  /\ pc = "read" => Between
  /\ pc = "skip" => Commented
  /\ pc = "digits" => \E i \in Starts : InNumber(i, pos)
  /\ pc = "add" => Taken = Numbers

IInv == TypeInv /\ (WellFormed => ReadInv)

-----------------------------------------------------------------------------
(* FlattenSeq and a sequence that is appended: the library's recursive      *)
(* function, here f on the first m places of s, exists and is unique.       *)

Flat(s, m, f) == f = [i \in 1 .. m |-> IF i = 1 THEN s[i] ELSE f[i - 1] \o s[i]]

First(s, f) == f[1] = s[1]
Agree(s, t, m) == \A i \in 1 .. m : s[i] = t[i]
Step(s, f, i) == f[i + 1] = f[i] \o s[i + 1]

LEMMA FlatStep ==
  ASSUME NEW s, NEW m \in Nat, NEW f, Flat(s, m, f), NEW i \in Nat, 0 < i, i + 1 <= m
  PROVE  Step(s, f, i)
<1> DEFINE h == [j \in 1 .. m |-> IF j = 1 THEN s[j] ELSE f[j - 1] \o s[j]]
<1>1. i + 1 \in 1 .. m /\ i + 1 # 1 /\ (i + 1) - 1 = i OBVIOUS
<1>2. h[i + 1] = f[(i + 1) - 1] \o s[i + 1] BY ONLY <1>1, Zenon
<1>3. f = h BY DEF Flat
<1> HIDE DEF h
<1>4. f[i + 1] = h[i + 1] BY <1>3
<1>5. QED BY ONLY <1>1, <1>2, <1>4 DEF Step

LEMMA FlatFirst ==
  ASSUME NEW s, NEW m \in Nat, NEW f, Flat(s, m, f), 0 < m
  PROVE  First(s, f)
<1> DEFINE h == [j \in 1 .. m |-> IF j = 1 THEN s[j] ELSE f[j - 1] \o s[j]]
<1>1. 1 \in 1 .. m OBVIOUS
<1>2. h[1] = s[1] BY ONLY <1>1, Zenon
<1>3. f = h BY DEF Flat
<1> HIDE DEF h
<1>4. QED BY ONLY <1>2, <1>3 DEF First

LEMMA FlatIntro ==
  ASSUME NEW S, NEW s, NEW m \in Nat, NEW f \in [1 .. m -> S],
         0 < m => First(s, f),
         \A i \in Nat : 0 < i /\ i + 1 <= m => Step(s, f, i)
  PROVE  Flat(s, m, f)
<1> DEFINE h == [j \in 1 .. m |-> IF j = 1 THEN s[j] ELSE f[j - 1] \o s[j]]
<1>1. ASSUME NEW j \in 1 .. m PROVE f[j] = h[j]
  <2>1. CASE j = 1
    <3>1. f[1] = s[1] BY <2>1 DEF First
    <3>2. h[j] = s[j] BY ONLY <2>1, j \in 1 .. m, Zenon
    <3>3. QED BY ONLY <3>1, <3>2, <2>1
  <2>2. CASE j # 1
    <3>1. j - 1 \in Nat /\ 0 < j - 1 /\ (j - 1) + 1 = j /\ j <= m BY <2>2
    <3>2. Step(s, f, j - 1) BY <3>1
    <3>3. f[(j - 1) + 1] = f[j - 1] \o s[(j - 1) + 1] BY ONLY <3>2 DEF Step
    <3>4. f[j] = f[j - 1] \o s[j] BY ONLY <3>1, <3>3
    <3>5. h[j] = f[j - 1] \o s[j] BY ONLY <2>2, j \in 1 .. m, Zenon
    <3>6. QED BY ONLY <3>4, <3>5
  <2>3. QED BY <2>1, <2>2
<1>2. h = [j \in 1 .. m |-> h[j]] OBVIOUS
<1>3. h = [j \in 1 .. m |-> IF j = 1 THEN s[j] ELSE f[j - 1] \o s[j]] OBVIOUS
<1> HIDE DEF h
<1>4. f = [j \in 1 .. m |-> f[j]] OBVIOUS
<1>5. f = h BY ONLY <1>1, <1>2, <1>4
<1>6. QED BY ONLY <1>3, <1>5, Zenon DEF Flat

LEMMA FlatExists ==
  ASSUME NEW S, NEW s \in Seq(Seq(S)), NEW m \in Nat, m <= Len(s)
  PROVE  \E f \in [1 .. m -> Seq(S)] : Flat(s, m, f)
<1> DEFINE T == {k \in Nat : k <= Len(s) => \E f \in [1 .. k -> Seq(S)] : Flat(s, k, f)}
<1>1. 0 \in T
  <2>1. [i \in 1 .. 0 |-> <<>>] \in [1 .. 0 -> Seq(S)] OBVIOUS
  <2>2. Flat(s, 0, [i \in 1 .. 0 |-> <<>>]) BY DEF Flat
  <2>3. QED BY <2>1, <2>2
<1>2. ASSUME NEW k \in Nat, k \in T PROVE k + 1 \in T
  <2>1. SUFFICES ASSUME k + 1 <= Len(s)
                 PROVE  \E f \in [1 .. k + 1 -> Seq(S)] : Flat(s, k + 1, f)
    OBVIOUS
  <2>2. PICK f \in [1 .. k -> Seq(S)] : Flat(s, k, f) BY <1>2, <2>1
  <2>3. s[k + 1] \in Seq(S) BY <2>1, ElementOfSeq
  <2>4. \E e \in Seq(S) : (k = 0 => e = s[1]) /\ (k # 0 => e = f[k] \o s[k + 1])
    <3>1. CASE k = 0 BY <2>3, <3>1
    <3>2. CASE k # 0
      <4>1. f[k] \in Seq(S) BY <3>2
      <4>2. f[k] \o s[k + 1] \in Seq(S) BY <4>1, <2>3, ConcatProperties
      <4>3. QED BY <3>2, <4>2
    <3>3. QED BY <3>1, <3>2
  <2>5. PICK e \in Seq(S) : (k = 0 => e = s[1]) /\ (k # 0 => e = f[k] \o s[k + 1])
    BY <2>4
  <2> DEFINE g == [i \in 1 .. k + 1 |-> IF i = k + 1 THEN e ELSE f[i]]
  <2>6. (\A i \in 1 .. k : g[i] = f[i]) /\ g[k + 1] = e /\ g \in [1 .. k + 1 -> Seq(S)]
    BY ONLY <2>2, <2>5, k \in Nat
  <2> HIDE DEF g
  <2>7. First(s, g)
    <3>1. CASE k = 0 BY ONLY <3>1, <2>5, <2>6 DEF First
    <3>2. CASE k # 0
      <4>1. First(s, f) /\ 1 \in 1 .. k BY <3>2, <2>2, FlatFirst
      <4>2. QED BY ONLY <4>1, <2>6 DEF First
    <3>3. QED BY <3>1, <3>2
  <2>8. ASSUME NEW i \in Nat, 0 < i, i + 1 <= k + 1 PROVE Step(s, g, i)
    <3>1. CASE i = k
      <4>1. k \in 1 .. k /\ k # 0 BY <2>8, <3>1
      <4>2. g[k] = f[k] /\ g[k + 1] = f[k] \o s[k + 1] BY ONLY <4>1, <2>5, <2>6, Zenon
      <4>3. QED BY ONLY <4>2, <3>1 DEF Step
    <3>2. CASE i # k
      <4>1. i + 1 <= k /\ i \in 1 .. k /\ i + 1 \in 1 .. k BY <2>8, <3>2
      <4>2. Step(s, f, i) BY ONLY <4>1, <2>2, <2>8, k \in Nat, FlatStep
      <4>3. g[i] = f[i] /\ g[i + 1] = f[i + 1] BY ONLY <4>1, <2>6
      <4>4. QED BY ONLY <4>2, <4>3 DEF Step
    <3>3. QED BY <3>1, <3>2
  <2>9. Flat(s, k + 1, g)
    <3>1. k + 1 \in Nat OBVIOUS
    <3>2. QED BY ONLY <3>1, <2>6, <2>7, <2>8, FlatIntro
  <2>10. QED BY <2>6, <2>9
<1> HIDE DEF T
<1>3. Nat \subseteq T BY <1>1, <1>2, Nats!NatSetInduction
<1>4. QED BY <1>3 DEF T

LEMMA FlatUnique ==
  ASSUME NEW s, NEW t, NEW m \in Nat, NEW n \in Nat, m <= n, NEW f, NEW g,
         Flat(s, m, f), Flat(t, n, g), Agree(s, t, m)
  PROVE  Agree(f, g, m)
<1> DEFINE T == {k \in Nat : k + 1 <= m => f[k + 1] = g[k + 1]}
<1>1. 0 \in T
  <2>1. CASE 0 < m
    <3>1. First(s, f) /\ First(t, g) /\ s[1] = t[1] BY <2>1, FlatFirst DEF Agree
    <3>2. QED BY ONLY <3>1 DEF First
  <2>2. QED BY <2>1
<1>2. ASSUME NEW k \in Nat, k \in T PROVE k + 1 \in T
  <2>1. CASE k + 2 <= m
    <3>1. f[k + 1] = g[k + 1] BY <1>2, <2>1
    <3>2. /\ k + 1 \in Nat /\ 0 < k + 1 /\ (k + 1) + 1 <= m /\ (k + 1) + 1 <= n
          /\ (k + 1) + 1 \in 1 .. m
      BY <2>1
    <3>3. Step(s, f, k + 1) BY ONLY <3>2, m \in Nat, Flat(s, m, f), FlatStep
    <3>4. Step(t, g, k + 1) BY ONLY <3>2, n \in Nat, Flat(t, n, g), FlatStep
    <3>5. s[(k + 1) + 1] = t[(k + 1) + 1] BY <3>2 DEF Agree
    <3>6. f[(k + 1) + 1] = g[(k + 1) + 1] BY ONLY <3>1, <3>3, <3>4, <3>5 DEF Step
    <3>7. QED BY ONLY <3>6, <3>2
  <2>2. CASE ~ (k + 2 <= m)
    <3>1. ~ ((k + 1) + 1 <= m) BY <2>2
    <3>2. QED BY <3>1
  <2>3. QED BY <2>1, <2>2
<1> HIDE DEF T
<1>3. Nat \subseteq T BY <1>1, <1>2, Nats!NatSetInduction
<1>4. ASSUME NEW i \in 1 .. m PROVE f[i] = g[i]
  <2>1. i - 1 \in T /\ (i - 1) + 1 = i BY <1>3
  <2>2. QED BY <2>1 DEF T
<1>5. QED BY <1>4 DEF Agree

LEMMA FlattenIs ==
  ASSUME NEW S, NEW s \in Seq(Seq(S)), s # <<>>
  PROVE  \E f \in [1 .. Len(s) -> Seq(S)] :
           Flat(s, Len(s), f) /\ FlattenSeq(s) = f[Len(s)]
<1>1. Len(s) \in Nat /\ Len(s) # 0 BY EmptySeq, LenProperties
<1>2. PICK f \in [1 .. Len(s) -> Seq(S)] : Flat(s, Len(s), f) BY <1>1, FlatExists, SMTT(30)
<1> DEFINE g == CHOOSE g : g = [i \in 1 .. Len(s) |-> IF i = 1 THEN s[i] ELSE g[i - 1] \o s[i]]
<1>3. Flat(s, Len(s), g) BY <1>2 DEF Flat
<1>4. FlattenSeq(s) = g[Len(s)] BY <1>1 DEF FlattenSeq
<1> HIDE DEF g
<1>5. g[Len(s)] = f[Len(s)]
  <2>1. Agree(s, s, Len(s)) /\ Len(s) <= Len(s) BY <1>1 DEF Agree
  <2>2. Agree(g, f, Len(s)) BY ONLY <1>1, <1>2, <1>3, <2>1, FlatUnique
  <2>3. QED BY <2>2, <1>1 DEF Agree
<1>6. QED BY <1>2, <1>4, <1>5

LEMMA FlattenAppend ==
  ASSUME NEW S, NEW s \in Seq(Seq(S)), NEW x \in Seq(S)
  PROVE  /\ FlattenSeq(s) \in Seq(S)
         /\ FlattenSeq(Append(s, x)) = FlattenSeq(s) \o x
<1> DEFINE t == Append(s, x)
<1>1. /\ t \in Seq(Seq(S)) /\ Len(t) = Len(s) + 1 /\ Len(s) \in Nat
      /\ \A i \in 1 .. Len(s) : t[i] = s[i]
      /\ t[Len(s) + 1] = x
  BY AppendProperties, LenProperties
<1> HIDE DEF t
<1>2. t # <<>> BY <1>1, EmptySeq
<1>3. PICK g \in [1 .. Len(t) -> Seq(S)] : Flat(t, Len(t), g) /\ FlattenSeq(t) = g[Len(t)]
  BY <1>1, <1>2, FlattenIs
<1>5. CASE s = <<>>
  <2>1. Len(s) = 0 /\ FlattenSeq(s) = <<>> BY <1>5 DEF FlattenSeq
  <2>2. First(t, g) BY ONLY <1>1, <1>3, <2>1, FlatFirst
  <2>3. <<>> \o x = x BY ConcatEmptySeq
  <2>4. g[1] = x BY <1>1, <2>1, <2>2 DEF First
  <2>5. FlattenSeq(s) \in Seq(S) BY <2>1
  <2>6. QED BY <1>1, <1>3, <2>1, <2>3, <2>4, <2>5 DEF t
<1>6. CASE s # <<>>
  <2>1. PICK f \in [1 .. Len(s) -> Seq(S)] : Flat(s, Len(s), f) /\ FlattenSeq(s) = f[Len(s)]
    BY <1>6, FlattenIs
  <2>2. Len(s) # 0 BY <1>6, EmptySeq
  <2>3. f[Len(s)] = g[Len(s)]
    <3>1. Len(s) <= Len(t) /\ Len(t) \in Nat /\ Len(s) \in Nat /\ Agree(s, t, Len(s))
      BY <1>1 DEF Agree
    <3>2. Flat(t, Len(t), g) /\ Flat(s, Len(s), f) BY <1>3, <2>1
    <3>3. Agree(f, g, Len(s)) BY ONLY <3>1, <3>2, FlatUnique
    <3>4. QED BY <3>3, <1>1, <2>2 DEF Agree
  <2>4. g[Len(t)] = g[Len(s)] \o x
    <3>1. Len(s) \in Nat /\ 0 < Len(s) /\ Len(s) + 1 <= Len(t) /\ Len(t) \in Nat BY <1>1, <2>2
    <3>2. Step(t, g, Len(s)) BY ONLY <1>3, <3>1, FlatStep
    <3>3. QED BY ONLY <1>1, <3>2 DEF Step
  <2>5. FlattenSeq(s) \in Seq(S) BY <1>1, <2>1, <2>2, SMTT(30)
  <2>6. QED BY ONLY <1>3, <2>1, <2>3, <2>4, <2>5 DEF t
<1>7. QED BY <1>5, <1>6

-----------------------------------------------------------------------------
(* The value of the digits from a place on: its recursive function exists.  *)

More(x, k) == 10 * x + Digit[text[k]]
ValueTo(i, m, v) == v = [k \in 0 .. m |-> IF k < i THEN 0 ELSE More(v[k - 1], k)]
Low(i, v) == \A k \in 0 .. i - 1 : v[k] = 0
Grows(v, k) == v[k] = More(v[k - 1], k)

LEMMA ValueElim ==
  ASSUME NEW i \in Nat, NEW m \in Nat, i <= m, NEW v, ValueTo(i, m, v)
  PROVE  Low(i, v) /\ \A k \in i .. m : Grows(v, k)
<1> DEFINE h == [k \in 0 .. m |-> IF k < i THEN 0 ELSE More(v[k - 1], k)]
<1>1. v = h BY DEF ValueTo
<1>2. ASSUME NEW k \in 0 .. i - 1 PROVE h[k] = 0
  <2>1. k \in 0 .. m /\ k < i OBVIOUS
  <2>2. QED BY ONLY <2>1, Zenon
<1>3. ASSUME NEW k \in i .. m PROVE h[k] = More(v[k - 1], k)
  <2>1. k \in 0 .. m /\ ~ (k < i) OBVIOUS
  <2>2. QED BY ONLY <2>1, Zenon
<1> HIDE DEF h
<1>4. QED BY ONLY <1>1, <1>2, <1>3 DEF Low, Grows

LEMMA ValueIntro ==
  ASSUME NEW i \in Nat, NEW m \in Nat, NEW S, NEW v \in [0 .. m -> S],
         \A k \in 0 .. m : k < i => v[k] = 0,
         \A k \in 0 .. m : ~ (k < i) => Grows(v, k)
  PROVE  ValueTo(i, m, v)
<1> DEFINE h == [k \in 0 .. m |-> IF k < i THEN 0 ELSE More(v[k - 1], k)]
<1>1. ASSUME NEW k \in 0 .. m PROVE v[k] = h[k]
  <2>1. CASE k < i
    <3>1. h[k] = 0 BY ONLY <2>1, k \in 0 .. m, Zenon
    <3>2. QED BY <2>1, <3>1
  <2>2. CASE ~ (k < i)
    <3>1. h[k] = More(v[k - 1], k) BY ONLY <2>2, k \in 0 .. m, Zenon
    <3>2. Grows(v, k) BY <2>2
    <3>3. QED BY ONLY <3>1, <3>2 DEF Grows
  <2>3. QED BY <2>1, <2>2
<1>2. h = [k \in 0 .. m |-> h[k]] OBVIOUS
<1>3. h = [k \in 0 .. m |-> IF k < i THEN 0 ELSE More(v[k - 1], k)] OBVIOUS
<1> HIDE DEF h
<1>4. v = [k \in 0 .. m |-> v[k]] OBVIOUS
<1>5. v = h BY ONLY <1>1, <1>2, <1>4
<1>6. QED BY ONLY <1>3, <1>5, Zenon DEF ValueTo

LEMMA ValueExists ==
  ASSUME NEW i \in Nat, 0 < i, NEW m \in Nat
  PROVE  \E v : ValueTo(i, m, v)
<1> DEFINE IsTo(k, v) == \E S : v \in [0 .. k -> S] /\ ValueTo(i, k, v)
           T == {k \in Nat : \E v : IsTo(k, v)}
<1>1. 0 \in T
  <2> DEFINE v == [k \in 0 .. 0 |-> 0]
  <2>1. v \in [0 .. 0 -> Int] /\ v[0] = 0 OBVIOUS
  <2> HIDE DEF v
  <2>2. (\A k \in 0 .. 0 : k < i => v[k] = 0) /\ \A k \in 0 .. 0 : k < i BY <2>1
  <2>3. 0 \in Nat /\ \A k \in 0 .. 0 : ~ (k < i) => Grows(v, k) BY <2>2
  <2>4. ValueTo(i, 0, v) BY ONLY i \in Nat, <2>1, <2>2, <2>3, ValueIntro
  <2>5. IsTo(0, v) BY <2>1, <2>4
  <2>6. QED BY <2>5
<1>2. ASSUME NEW k \in Nat, k \in T PROVE k + 1 \in T
  <2>1. PICK v : IsTo(k, v) BY <1>2
  <2>2. PICK S : v \in [0 .. k -> S] /\ ValueTo(i, k, v) BY <2>1
  <2> DEFINE h == [j \in 0 .. k |-> IF j < i THEN 0 ELSE More(v[j - 1], j)]
  <2>3. \A j \in 0 .. k : (j < i => v[j] = 0) /\ (~ (j < i) => Grows(v, j))
    <3>1. v = h BY <2>2 DEF ValueTo
    <3>2. \A j \in 0 .. k : (j < i => h[j] = 0) /\ (~ (j < i) => h[j] = More(v[j - 1], j)) OBVIOUS
    <3> HIDE DEF h
    <3>3. QED BY ONLY <3>1, <3>2 DEF Grows
  <2>4. PICK e : e = IF k + 1 < i THEN 0 ELSE More(v[k], k + 1) OBVIOUS
  <2>5. (k + 1 < i => e = 0) /\ (~ (k + 1 < i) => e = More(v[k], k + 1))
    BY ONLY <2>4, Zenon
  <2> DEFINE w == [j \in 0 .. k + 1 |-> IF j = k + 1 THEN e ELSE v[j]]
  <2>6. /\ w \in [0 .. k + 1 -> S \cup {e}]
        /\ w[k + 1] = e /\ \A j \in 0 .. k : w[j] = v[j]
    BY ONLY k \in Nat, <2>2
  <2> HIDE DEF w, IsTo
  <2>7. ASSUME NEW j \in 0 .. k + 1, j < i PROVE w[j] = 0
    <3>1. CASE j = k + 1 BY <3>1, <2>5, <2>6, <2>7
    <3>2. CASE j # k + 1
      <4>1. j \in 0 .. k BY <3>2
      <4>2. QED BY <4>1, <2>3, <2>6, <2>7
    <3>3. QED BY <3>1, <3>2
  <2>8. ASSUME NEW j \in 0 .. k + 1, ~ (j < i) PROVE Grows(w, j)
    <3>1. CASE j = k + 1
      <4>1. k \in 0 .. k /\ j - 1 = k BY <3>1
      <4>2. w[k] = v[k] /\ w[j] = More(v[k], j) BY ONLY <4>1, <3>1, <2>5, <2>6, <2>8
      <4>3. QED BY ONLY <4>1, <4>2 DEF Grows
    <3>2. CASE j # k + 1
      <4>1. j \in 0 .. k /\ j - 1 \in 0 .. k BY <3>2, <2>8
      <4>2. Grows(v, j) /\ w[j] = v[j] /\ w[j - 1] = v[j - 1] BY ONLY <4>1, <2>3, <2>6, <2>8
      <4>3. QED BY ONLY <4>2 DEF Grows
    <3>3. QED BY <3>1, <3>2
  <2>9. ValueTo(i, k + 1, w)
    <3>1. k + 1 \in Nat OBVIOUS
    <3>2. QED BY ONLY i \in Nat, <3>1, <2>6, <2>7, <2>8, ValueIntro
  <2>10. IsTo(k + 1, w) BY <2>6, <2>9 DEF IsTo
  <2>11. QED BY <2>10
<1> HIDE DEF T
<1>3. Nat \subseteq T BY <1>1, <1>2, Nats!NatSetInduction
<1>4. m \in T BY <1>3
<1>5. QED BY <1>4 DEF T

LEMMA ValueIs ==
  ASSUME Len(text) \in Nat, NEW i \in 1 .. Len(text)
  PROVE  /\ Value(i, i) = More(0, i)
         /\ \A k \in i .. Len(text) : i < k => Value(i, k) = More(Value(i, k - 1), k)
<1> DEFINE v == CHOOSE v : v = [k \in 0 .. Len(text) |->
                                  IF k < i THEN 0 ELSE 10 * v[k - 1] + Digit[text[k]]]
<1>1. i \in Nat /\ 0 < i /\ i <= Len(text) OBVIOUS
<1>2. PICK w : ValueTo(i, Len(text), w) BY <1>1, ValueExists
<1>3. ValueTo(i, Len(text), v) BY <1>2 DEF ValueTo, More
<1>4. \A k : Value(i, k) = v[k] BY DEF Value
<1> HIDE DEF v
<1>5. Low(i, v) /\ \A k \in i .. Len(text) : Grows(v, k)
  BY ONLY <1>1, <1>3, Len(text) \in Nat, ValueElim
<1>6. Value(i, i) = More(0, i)
  <2>1. i - 1 \in 0 .. i - 1 /\ i \in i .. Len(text) OBVIOUS
  <2>2. v[i - 1] = 0 BY ONLY <2>1, <1>5 DEF Low
  <2>3. v[i] = More(v[i - 1], i) BY ONLY <2>1, <1>5 DEF Grows
  <2>4. QED BY ONLY <2>2, <2>3, <1>4
<1>7. ASSUME NEW k \in i .. Len(text), i < k PROVE Value(i, k) = More(Value(i, k - 1), k)
  <2>1. v[k] = More(v[k - 1], k) BY ONLY <1>5, k \in i .. Len(text) DEF Grows
  <2>2. QED BY ONLY <2>1, <1>4
<1>8. QED BY <1>6, <1>7

-----------------------------------------------------------------------------
(* Comments, the places where numbers start, and the order of these.        *)

LEMMA Comments ==
  ASSUME TypeInv, NEW i \in 1 .. Len(text)
  PROVE  /\ InComment(i) <=> text[i] = "c" \/ Open(i)
         /\ Open(i + 1) <=> InComment(i) /\ text[i] # "n"
<1>1. Len(text) \in Nat BY LenProperties DEF TypeInv
<1>2. InComment(i) <=> text[i] = "c" \/ Open(i)
  <2>1. ASSUME InComment(i), text[i] # "c" PROVE Open(i)
    <3>1. PICK b \in 1 .. i : text[b] = "c" /\ \A j \in b .. i - 1 : text[j] # "n"
      BY <2>1 DEF InComment
    <3>2. b \in 1 .. i - 1 BY <1>1, <2>1, <3>1
    <3>3. QED BY <3>1, <3>2 DEF Open
  <2>2. ASSUME text[i] = "c" PROVE InComment(i)
    <3>1. i \in 1 .. i /\ i .. i - 1 = {} BY <1>1
    <3>2. QED BY <2>2, <3>1 DEF InComment
  <2>3. ASSUME Open(i) PROVE InComment(i)
    <3>1. 1 .. i - 1 \subseteq 1 .. i BY <1>1
    <3>2. QED BY <2>3, <3>1 DEF InComment, Open
  <2>4. QED BY <2>1, <2>2, <2>3
<1>3. ASSUME Open(i + 1) PROVE InComment(i) /\ text[i] # "n"
  <2>1. PICK b \in 1 .. i : text[b] = "c" /\ \A j \in b .. i : text[j] # "n"
    BY <1>1, <1>3 DEF Open
  <2>2. QED BY <1>1, <2>1 DEF InComment
<1>4. ASSUME InComment(i), text[i] # "n" PROVE Open(i + 1)
  <2>1. PICK b \in 1 .. i : text[b] = "c" /\ \A j \in b .. i - 1 : text[j] # "n"
    BY <1>4 DEF InComment
  <2>2. \A j \in b .. i : text[j] # "n" BY <1>1, <1>4, <2>1
  <2>3. (i + 1) - 1 = i BY <1>1
  <2>4. QED BY <2>1, <2>2, <2>3 DEF Open
<1>5. QED BY <1>2, <1>3, <1>4

LEMMA AtIs ==
  ASSUME TypeInv
  PROVE  /\ \A i \in 1 .. Len(text) : At(i) = IF InComment(i) THEN "n" ELSE text[i]
         /\ \A i \in Int \ 1 .. Len(text) : At(i) = "n"
<1>1. DOMAIN text = 1 .. Len(text) BY LenProperties DEF TypeInv
<1>2. QED BY <1>1 DEF At

LEMMA Digits ==
  /\ DOMAIN Digit = Numerals /\ \A d \in Numerals : Digit[d] \in 0 .. 9
  /\ \A d \in Numerals : d \notin {"s", "n", "-", "c", EOF}
<1>1. ASSUME NEW d \in Numerals PROVE Digit[d] \in 0 .. 9
  <2>1. \/ d = "0" \/ d = "1" \/ d = "2" \/ d = "3" \/ d = "4"
        \/ d = "5" \/ d = "6" \/ d = "7" \/ d = "8" \/ d = "9"
    BY DEF Numerals
  <2>2. QED BY <2>1 DEF Digit
<1>2. QED BY <1>1 DEF Digit, Numerals, EOF

LEMMA StartsFinite ==
  ASSUME TypeInv
  PROVE  /\ Starts \subseteq 1 .. Len(text) /\ IsFiniteSet(Starts)
         /\ Cardinality(Starts) \in Nat
         /\ \A p : IsFiniteSet(Before(p)) /\ Cardinality(Before(p)) \in Nat
<1>1. Len(text) \in Nat /\ DOMAIN text = 1 .. Len(text) BY LenProperties DEF TypeInv
<1>2. Starts \in SUBSET (1 .. Len(text)) BY <1>1 DEF Starts
<1>3. IsFiniteSet(1 .. Len(text)) BY ONLY <1>1, FS_Interval
<1>4. IsFiniteSet(Starts) BY <1>2, <1>3, FS_Subset
<1>5. ASSUME NEW p PROVE IsFiniteSet(Before(p))
  <2>1. Before(p) \in SUBSET Starts BY DEF Before
  <2>2. QED BY <1>4, <2>1, FS_Subset
<1>6. QED BY <1>2, <1>4, <1>5, FS_CardinalityType

LEMMA BeforeNext ==
  ASSUME TypeInv, NEW i \in Starts, NEW p \in Nat, i < p
  PROVE  /\ Cardinality(Before(i)) < Cardinality(Before(p))
         /\ (\A k \in i + 1 .. p - 1 : k \notin Starts)
              => Cardinality(Before(p)) = Cardinality(Before(i)) + 1
<1>1. Starts \subseteq Nat BY StartsFinite
<1>2. i \notin Before(i) BY <1>1 DEF Before
<1>3. /\ IsFiniteSet(Before(i) \cup {i})
      /\ Cardinality(Before(i) \cup {i}) = Cardinality(Before(i)) + 1
  BY <1>2, StartsFinite, FS_AddElement
<1>4. Before(i) \cup {i} \in SUBSET Before(p)
  <2>1. \A k \in Before(i) : k \in Nat /\ k < i /\ k \in Starts BY <1>1 DEF Before
  <2>2. i \in Nat BY <1>1
  <2>3. \A k \in Before(i) : k < p BY <2>1, <2>2
  <2>4. QED BY <2>1, <2>3 DEF Before
<1>5. Cardinality(Before(i) \cup {i}) <= Cardinality(Before(p)) BY <1>4, StartsFinite, FS_Subset
<1>6. ASSUME \A k \in i + 1 .. p - 1 : k \notin Starts
      PROVE  Before(p) = Before(i) \cup {i}
  <2>1. \A k \in Starts : k < p => k < i \/ k = i BY <1>1, <1>6
  <2>2. QED BY <1>4, <2>1 DEF Before
<1>7. Cardinality(Before(i)) \in Nat /\ Cardinality(Before(p)) \in Nat BY StartsFinite
<1>8. Cardinality(Before(i)) < Cardinality(Before(p)) BY ONLY <1>3, <1>5, <1>7
<1>9. QED BY ONLY <1>3, <1>6, <1>8

LEMMA NthIs ==
  ASSUME TypeInv, NEW i \in Starts
  PROVE  Nth(Cardinality(Before(i)) + 1) = i
<1>1. Starts \subseteq Nat BY StartsFinite
<1>2. ASSUME NEW x \in Starts, Cardinality(Before(x)) = Cardinality(Before(i)) PROVE x = i
  <2>1. ~ (x < i) BY <1>1, <1>2, BeforeNext, StartsFinite
  <2>2. ~ (i < x) BY <1>1, <1>2, BeforeNext, StartsFinite
  <2>3. QED BY <1>1, <2>1, <2>2
<1>3. PICK m \in Nat : m = Cardinality(Before(i)) BY StartsFinite
<1>4. (m + 1) - 1 = m BY <1>3
<1>5. QED BY <1>2, <1>3, <1>4 DEF Nth

\* Where no number starts, the numbers that start before do not change.
LEMMA UpToSame ==
  ASSUME TypeInv, NEW p \in Nat, NEW q \in Nat, p <= q,
         \A k \in p .. q - 1 : k \notin Starts
  PROVE  UpTo(q) = UpTo(p)
<1>1. \A k \in Starts : k \in Nat BY StartsFinite
<1>2. \A k \in Starts : k < p <=> k < q BY <1>1
<1>3. Before(p) = Before(q) BY <1>2 DEF Before
<1>4. QED BY <1>3 DEF UpTo

LEMMA UpToAll ==
  ASSUME TypeInv, NEW p \in Nat, Len(text) < p
  PROVE  UpTo(p) = Numbers
<1>1. Starts \subseteq 1 .. Len(text) /\ Len(text) \in Nat
  BY StartsFinite, LenProperties DEF TypeInv
<1>2. \A k \in Starts : k < p BY <1>1
<1>3. Before(p) = Starts BY <1>2 DEF Before
<1>4. QED BY <1>3 DEF UpTo, Numbers

\* A number whose digits end before p is the next one.
LEMMA UpToNext ==
  ASSUME TypeInv, NEW i \in Starts, NEW p \in Nat, i < p,
         \A k \in i + 1 .. p - 1 : k \notin Starts,
         UpTo(i) \in Seq(Int), NEW x \in Int, x = Number(i)
  PROVE  UpTo(p) = Append(UpTo(i), x)
<1>1. PICK m \in Nat : m = Cardinality(Before(i)) BY StartsFinite
<1>2. Cardinality(Before(p)) = m + 1 BY <1>1, BeforeNext
<1>3. m + 1 <= Cardinality(Starts)
  <2>1. Before(p) \in SUBSET Starts BY DEF Before
  <2>2. QED BY <1>2, <2>1, StartsFinite, FS_Subset
<1>4. Numbers[m + 1] = x
  <2>1. Nth(m + 1) = i BY <1>1, NthIs
  <2>2. m + 1 \in 1 .. Cardinality(Starts) BY <1>3, StartsFinite
  <2>3. Numbers[m + 1] = Number(Nth(m + 1)) BY ONLY <2>2, Zenon DEF Numbers
  <2>4. QED BY ONLY <2>1, <2>3, x = Number(i)
<1>5. UpTo(p) = [n \in 1 .. m + 1 |-> Numbers[n]] /\ UpTo(i) = [n \in 1 .. m |-> Numbers[n]]
  BY <1>1, <1>2 DEF UpTo
<1>6. PICK s \in Seq(Int) : s = UpTo(i) OBVIOUS
<1>7. DOMAIN s = 1 .. m /\ \A n \in 1 .. m : s[n] = Numbers[n] BY ONLY <1>5, <1>6
<1>8. Len(s) = m BY <1>1, <1>7, LenProperties
<1>9. /\ DOMAIN Append(s, x) = 1 .. m + 1
      /\ \A n \in 1 .. m : Append(s, x)[n] = s[n]
      /\ Append(s, x)[m + 1] = x
      /\ Append(s, x) \in Seq(Int)
  <2>1. Append(s, x) \in Seq(Int) /\ Len(Append(s, x)) = m + 1 BY <1>8, AppendProperties
  <2>2. DOMAIN Append(s, x) = 1 .. m + 1 BY <2>1, LenProperties
  <2>3. QED BY <2>1, <2>2, <1>8, AppendProperties
<1>10. PICK t \in Seq(Int) : t = Append(s, x) BY <1>9
<1>11. t = [n \in 1 .. m + 1 |-> t[n]]
  <2>1. DOMAIN t = 1 .. m + 1 BY ONLY <1>9, <1>10
  <2>2. t \in [1 .. Len(t) -> Int] /\ DOMAIN t = 1 .. Len(t) BY LenProperties
  <2>3. t \in [1 .. m + 1 -> Int] BY ONLY <2>1, <2>2
  <2>4. QED BY <2>3
<1>12. ASSUME NEW n \in 1 .. m + 1 PROVE t[n] = Numbers[n]
  <2>1. t[m + 1] = Numbers[m + 1] BY ONLY <1>4, <1>9, <1>10
  <2>2. \A k \in 1 .. m : t[k] = Numbers[k] BY ONLY <1>7, <1>9, <1>10
  <2>3. n \in 1 .. m \/ n = m + 1 OBVIOUS
  <2>4. QED BY ONLY <2>1, <2>2, <2>3
<1>13. QED BY ONLY <1>5, <1>6, <1>10, <1>11, <1>12

\* The place of the last digit of a number that has been read.
LEMMA RunEndIs ==
  ASSUME TypeInv, NEW i \in 1 .. Len(text), NEW p \in i .. Len(text),
         \A k \in i .. p : At(k) \in DOMAIN Digit, At(p + 1) \notin DOMAIN Digit
  PROVE  RunEnd(i) = p
<1>1. Len(text) \in Nat BY LenProperties DEF TypeInv
<1>2. ASSUME NEW j \in i .. Len(text), \A k \in i .. j : At(k) \in DOMAIN Digit,
             At(j + 1) \notin DOMAIN Digit
      PROVE  j = p
  <2>1. ~ (j < p)
    <3>1. j < p => j + 1 \in i .. p BY <1>1
    <3>2. QED BY <3>1, <1>2
  <2>2. ~ (p < j)
    <3>1. p < j => p + 1 \in i .. j BY <1>1
    <3>2. QED BY <3>1, <1>2
  <2>3. QED BY <1>1, <2>1, <2>2
<1>3. QED BY <1>2 DEF RunEnd

-----------------------------------------------------------------------------
(* The numbers taken so far.                                                *)

Closed(cs) == [n \in 1 .. Len(cs) |-> Append(cs[n], 0)]

LEMMA ClosedType ==
  ASSUME NEW cs \in Seq(Seq(Int))
  PROVE  Closed(cs) \in Seq(Seq(Int)) /\ Len(Closed(cs)) = Len(cs)
<1>1. Len(cs) \in Nat BY LenProperties
<1>2. ASSUME NEW n \in 1 .. Len(cs) PROVE Append(cs[n], 0) \in Seq(Int)
  <2>1. cs[n] \in Seq(Int) BY ElementOfSeq
  <2>2. 0 \in Int OBVIOUS
  <2>3. QED BY ONLY <2>1, <2>2, AppendProperties
<1>3. Closed(cs) \in [1 .. Len(cs) -> Seq(Int)] BY <1>2 DEF Closed
<1>4. Closed(cs) \in Seq(Seq(Int)) BY <1>1, <1>3, SeqDef
<1>5. DOMAIN Closed(cs) = 1 .. Len(cs) BY <1>3
<1>6. QED BY <1>1, <1>4, <1>5, LenProperties

LEMMA ClosedAppend ==
  ASSUME NEW cs \in Seq(Seq(Int)), NEW x \in Seq(Int)
  PROVE  Closed(Append(cs, x)) = Append(Closed(cs), Append(x, 0))
<1>1. PICK m \in Nat : m = Len(cs) BY LenProperties
<1>2. PICK ds \in Seq(Seq(Int)) : ds = Append(cs, x) BY AppendProperties
<1>3. Len(ds) = m + 1 /\ ds[m + 1] = x /\ \A n \in 1 .. m : ds[n] = cs[n]
  BY <1>1, <1>2, AppendProperties
<1>4. PICK x0 \in Seq(Int) : x0 = Append(x, 0)
  <2>1. 0 \in Int OBVIOUS
  <2>2. QED BY ONLY <2>1, x \in Seq(Int), AppendProperties
<1>5. PICK s \in Seq(Seq(Int)) : s = Closed(cs) BY ClosedType
<1>6. Len(s) = m /\ \A n \in 1 .. m : s[n] = Append(cs[n], 0)
  <2>1. Len(s) = m BY <1>1, <1>5, ClosedType
  <2>2. ASSUME NEW n \in 1 .. m PROVE s[n] = Append(cs[n], 0)
    <3>1. n \in 1 .. Len(cs) BY <1>1
    <3>2. QED BY ONLY <1>5, <3>1, Zenon DEF Closed
  <2>3. QED BY <2>1, <2>2
<1>7. PICK t \in Seq(Seq(Int)) : t = Closed(ds) BY ClosedType
<1>8. Len(t) = m + 1 /\ \A n \in 1 .. m + 1 : t[n] = Append(ds[n], 0)
  <2>1. Len(t) = m + 1 BY <1>3, <1>7, ClosedType
  <2>2. ASSUME NEW n \in 1 .. m + 1 PROVE t[n] = Append(ds[n], 0)
    <3>1. n \in 1 .. Len(ds) BY <1>3
    <3>2. QED BY ONLY <1>7, <3>1, Zenon DEF Closed
  <2>3. QED BY <2>1, <2>2
<1>9. PICK u \in Seq(Seq(Int)) : u = Append(s, x0) BY AppendProperties
<1>10. Len(u) = m + 1 /\ u[m + 1] = x0 /\ \A n \in 1 .. m : u[n] = s[n]
  BY <1>6, <1>9, AppendProperties
<1>11. ASSUME NEW n \in 1 .. m + 1 PROVE t[n] = u[n]
  <2>1. CASE n = m + 1
    <3>1. t[n] = Append(ds[n], 0) BY ONLY <1>8, n \in 1 .. m + 1
    <3>2. ds[n] = x /\ u[n] = x0 BY ONLY <1>3, <1>10, <2>1
    <3>3. QED BY ONLY <3>1, <3>2, <1>4
  <2>2. CASE n \in 1 .. m
    <3>1. t[n] = Append(ds[n], 0) BY ONLY <1>8, n \in 1 .. m + 1
    <3>2. ds[n] = cs[n] /\ u[n] = s[n] BY ONLY <1>3, <1>10, <2>2
    <3>3. s[n] = Append(cs[n], 0) BY ONLY <1>6, <2>2
    <3>4. QED BY ONLY <3>1, <3>2, <3>3
  <2>3. QED BY <2>1, <2>2
<1>12. t = u BY ONLY <1>8, <1>10, <1>11, t \in Seq(Seq(Int)), u \in Seq(Seq(Int)), SeqEqual
<1>13. QED BY ONLY <1>2, <1>4, <1>5, <1>7, <1>9, <1>12

LEMMA TakenType ==
  ASSUME TypeInv
  PROVE  /\ FlattenSeq(Closed(clauses)) \in Seq(Int)
         /\ Taken = FlattenSeq(Closed(clauses)) \o cls
         /\ Taken \in Seq(Int)
<1>1. Closed(clauses) \in Seq(Seq(Int)) BY ClosedType DEF TypeInv
<1>2. <<>> \in Seq(Int) OBVIOUS
<1>3. FlattenSeq(Closed(clauses)) \in Seq(Int) BY ONLY <1>1, <1>2, FlattenAppend
<1>4. Taken = FlattenSeq(Closed(clauses)) \o cls BY DEF Taken, Closed
<1>5. FlattenSeq(Closed(clauses)) \o cls \in Seq(Int) BY <1>3, ConcatProperties DEF TypeInv
<1>6. QED BY <1>3, <1>4, <1>5

LEMMA AppendConcat ==
  ASSUME NEW S, NEW s \in Seq(S), NEW t \in Seq(S), NEW x \in S
  PROVE  s \o Append(t, x) = Append(s \o t, x)
<1>1. Append(t, x) = t \o <<x>> /\ <<x>> \in Seq(S) BY AppendIsConcat
<1>2. s \o t \in Seq(S) BY ConcatProperties
<1>3. Append(s \o t, x) = (s \o t) \o <<x>> BY <1>2, AppendIsConcat
<1>4. QED BY <1>1, <1>3, ConcatAssociative

\* A number that ends is appended to those taken.
LEMMA TakesNumber ==
  ASSUME TypeInv, EndNumber
  PROVE  Taken' = Append(Taken, IF neg THEN -num ELSE num)
<1>1. PICK F \in Seq(Int) : F = FlattenSeq(Closed(clauses)) BY TakenType
<1>2. Taken = F \o cls BY <1>1, TakenType
<1>3. Taken' = FlattenSeq(Closed(clauses')) \o cls' BY DEF Taken, Closed
<1>4. cls \in Seq(Int) /\ clauses \in Seq(Seq(Int)) /\ num \in Nat BY DEF TypeInv
<1>5. CASE num # 0
  <2>1. PICK x \in Int : x = IF neg THEN -num ELSE num BY <1>4
  <2>2. clauses' = clauses /\ cls' = Append(cls, x) BY <1>5, <2>1 DEF EndNumber
  <2>3. F \o Append(cls, x) = Append(F \o cls, x) BY ONLY <1>4, F \in Seq(Int), x \in Int, AppendConcat
  <2>4. QED BY ONLY <1>1, <1>2, <1>3, <2>1, <2>2, <2>3
<1>6. CASE num = 0
  <2>1. clauses' = Append(clauses, cls) /\ cls' = <<>> BY <1>6 DEF EndNumber
  <2>2. Closed(clauses') = Append(Closed(clauses), Append(cls, 0)) BY <1>4, <2>1, ClosedAppend
  <2>3. Append(cls, 0) \in Seq(Int) /\ Closed(clauses) \in Seq(Seq(Int))
    BY <1>4, AppendProperties, ClosedType
  <2>4. FlattenSeq(Closed(clauses')) = F \o Append(cls, 0)
    BY ONLY <1>1, <2>2, <2>3, FlattenAppend
  <2>5. F \o Append(cls, 0) = Append(F \o cls, 0) BY <1>4, AppendConcat
  <2>6. F \o Append(cls, 0) \in Seq(Int) BY ONLY <2>3, F \in Seq(Int), ConcatProperties
  <2>7. Taken' = F \o Append(cls, 0) BY ONLY <1>3, <2>1, <2>4, <2>6, ConcatEmptySeq
  <2>8. (IF neg THEN -num ELSE num) = 0
    <3>1. -num = 0
      <4>1. \A z \in Int : -z = 0 - z OBVIOUS
      <4>2. -num = 0 - num BY ONLY <4>1, <1>4
      <4>3. 0 - num = 0 BY <1>6
      <4>4. QED BY ONLY <4>2, <4>3
    <3>2. QED BY ONLY <3>1, <1>6, Zenon
  <2>9. QED BY ONLY <1>2, <2>5, <2>7, <2>8
<1>7. QED BY <1>5, <1>6

-----------------------------------------------------------------------------
(* The text does not change: the invariant's parts after a step.            *)

LEMMA TextStays ==
  ASSUME text' = text
  PROVE  /\ Starts' = Starts /\ Numbers' = Numbers
         /\ WellFormed' <=> WellFormed
<1>1. Starts' = Starts BY DEF Starts, At, InComment
<1>2. Numbers' = Numbers
  BY SMT DEF Starts, At, InComment, Numbers, Number, Nth, Before, Value, RunEnd
<1>3. WellFormed' <=> WellFormed BY DEF WellFormed, At, InComment
<1>4. QED BY <1>1, <1>2, <1>3

LEMMA BetweenNext ==
  ASSUME text' = text, NEW q, pos' = q,
         q <= Len(text) + 1 => ~ Open(q),
         neg' <=> At(q - 1) = "-",
         At(q - 1) \notin DOMAIN Digit,
         c' = EOF => q > Len(text),
         Taken' = UpTo(q)
  PROVE  Between'
<1>1. Open(pos)' <=> Open(q) BY DEF Open
<1>2. At(pos - 1)' = At(q - 1) BY DEF At, InComment
<1>3. UpTo(pos)' = UpTo(q)
  <2>1. Before(pos)' = Before(q) BY TextStays DEF Before
  <2>2. QED BY <2>1, TextStays DEF UpTo
<1>4. QED BY <1>1, <1>2, <1>3 DEF Between

LEMMA CommentedNext ==
  ASSUME text' = text, NEW q, pos' = q,
         q <= Len(text) + 1, Open(q), neg' = FALSE, Taken' = UpTo(q)
  PROVE  Commented'
<1>1. Open(pos)' <=> Open(q) BY DEF Open
<1>2. UpTo(pos)' = UpTo(q)
  <2>1. Before(pos)' = Before(q) BY TextStays DEF Before
  <2>2. QED BY <2>1, TextStays DEF UpTo
<1>3. QED BY <1>1, <1>2 DEF Commented

LEMMA InNumberNext ==
  ASSUME text' = text, NEW q, pos' = q, NEW i \in Starts, i < q, q <= Len(text) + 1,
         \A k \in i .. q - 1 : At(k) \in DOMAIN Digit,
         num' = Value(i, q - 1),
         neg' <=> At(i - 1) = "-",
         Taken' = UpTo(i)
  PROVE  (\E j \in Starts : InNumber(j, pos))'
<1>1. \A k : At(k)' = At(k) BY DEF At, InComment
<1>2. UpTo(i)' = UpTo(i)
  <2>1. Before(i)' = Before(i) BY TextStays DEF Before
  <2>2. QED BY <2>1, TextStays DEF UpTo
<1>3. Value(i, pos - 1)' = Value(i, q - 1) BY DEF Value
<1>4. i \in Starts' BY TextStays
<1>5. InNumber(i, pos)' BY <1>1, <1>2, <1>3, <1>4 DEF InNumber
<1>6. QED BY <1>4, <1>5

-----------------------------------------------------------------------------
(* Each step keeps the invariant.                                           *)

LEMMA TypeInit == Init => TypeInv
<1> SUFFICES ASSUME Init PROVE TypeInv OBVIOUS
<1>1. text \in Seq(Chars) BY TextAssumption DEF Init
<1>2. Len(text) \in Nat BY <1>1, LenProperties
<1>3. <<>> \in Seq(Int) /\ <<>> \in Seq(Seq(Int)) OBVIOUS
<1>4. pos = 1 /\ neg = FALSE /\ num = 0 /\ cls = <<>> /\ clauses = <<>> BY DEF Init
<1>5. pos \in 1 .. Len(text) + 2 BY ONLY <1>2, <1>4
<1>6. QED BY ONLY <1>1, <1>3, <1>4, <1>5 DEF TypeInv

LEMMA FgetcType ==
  ASSUME TypeInv, Fgetc
  PROVE  pos' \in 1 .. Len(text) + 2
<1>1. Len(text) \in Nat BY LenProperties DEF TypeInv
<1>2. QED BY <1>1 DEF TypeInv, Fgetc

LEMMA EndNumberType ==
  ASSUME TypeInv, EndNumber
  PROVE  cls' \in Seq(Int) /\ clauses' \in Seq(Seq(Int))
<1>1. cls \in Seq(Int) /\ clauses \in Seq(Seq(Int)) /\ num \in Nat BY DEF TypeInv
<1>2. CASE num # 0
  <2>1. PICK x \in Int : x = IF neg THEN -num ELSE num BY <1>1
  <2>2. Append(cls, x) \in Seq(Int) BY <1>1, AppendProperties
  <2>3. QED BY <1>1, <1>2, <2>1, <2>2 DEF EndNumber
<1>3. CASE num = 0
  <2>1. Append(clauses, cls) \in Seq(Seq(Int)) BY <1>1, AppendProperties
  <2>2. <<>> \in Seq(Int) OBVIOUS
  <2>3. QED BY <1>3, <2>1, <2>2 DEF EndNumber
<1>4. QED BY <1>2, <1>3

LEMMA TypeStep == TypeInv /\ [Next]_vars => TypeInv'
<1> SUFFICES ASSUME TypeInv, [Next]_vars PROVE TypeInv' OBVIOUS
<1>1. Len(text) \in Nat BY LenProperties DEF TypeInv
<1>2. CASE OpenFails BY <1>2 DEF OpenFails, readVars, TypeInv
<1>3. CASE ReadComment BY <1>3, FgetcType DEF ReadComment, TypeInv
<1>4. CASE Skip BY <1>4, FgetcType DEF Skip, TypeInv
<1>5. CASE ReadBlank BY <1>5, FgetcType DEF ReadBlank, TypeInv
<1>6. CASE ReadMinus BY <1>6, FgetcType DEF ReadMinus, TypeInv
<1>7. CASE ReadDigit
  <2>1. num' \in Nat BY <1>7, Digits DEF ReadDigit
  <2>2. QED BY <1>7, <2>1, FgetcType DEF ReadDigit, TypeInv
<1>8. CASE MoreDigits
  <2>1. PICK d \in Nat : d = Digit[NextChar] BY <1>8, Digits DEF MoreDigits
  <2>2. num' = num * 10 + d BY <1>8, <2>1 DEF MoreDigits
  <2>3. num' \in Nat BY <2>2 DEF TypeInv
  <2>4. QED BY <1>8, <2>3, FgetcType DEF MoreDigits, TypeInv
<1>9. CASE EndNumber
  <2>1. cls' \in Seq(Int) /\ clauses' \in Seq(Seq(Int)) BY <1>9, EndNumberType
  <2>2. Fgetc /\ neg' = FALSE /\ UNCHANGED <<text, num>> BY <1>9 DEF EndNumber
  <2>3. QED BY <2>1, <2>2, FgetcType DEF TypeInv
<1>10. CASE EndOfFile BY <1>10 DEF EndOfFile, readVars, TypeInv
<1>11. CASE JoinLoop BY <1>11 DEF JoinLoop, readVars, TypeInv
<1>12. CASE FreeClauses BY <1>12 DEF FreeClauses, TypeInv
<1>13. ASSUME NEW s \in Solvers, AddInitialClauses(s) PROVE TypeInv'
  BY <1>13 DEF AddInitialClauses, readVars, TypeInv
<1>14. CASE UNCHANGED vars BY <1>14 DEF vars, readVars, TypeInv
<1>15. QED
  BY <1>2, <1>3, <1>4, <1>5, <1>6, <1>7, <1>8, <1>9, <1>10, <1>11, <1>12, <1>13, <1>14
  DEF Next, Reading

LEMMA InitRead == ASSUME Init PROVE WellFormed => ReadInv
<1>1. TypeInv BY TypeInit
<1>2. Len(text) \in Nat BY <1>1, LenProperties DEF TypeInv
<1>3. ~ Open(1) BY DEF Open
<1>4. pos = 1 /\ At(0) = "n" BY <1>1, <1>2, AtIs DEF Init
<1>5. Taken = UpTo(1)
  <2>1. Starts \subseteq 1 .. Len(text) BY <1>1, StartsFinite
  <2>2. \A k \in Starts : ~ (k < 1) BY <1>2, <2>1
  <2>3. Before(1) = {} BY <2>2 DEF Before
  <2>4. UpTo(1) = <<>> BY <2>3, FS_EmptySet DEF UpTo
  <2>5. clauses = <<>> /\ cls = <<>> BY DEF Init
  <2>6. Taken = FlattenSeq(Closed(<<>>)) \o <<>> BY <2>5, <1>1, TakenType
  <2>7. Closed(<<>>) = <<>> BY DEF Closed
  <2>8. FlattenSeq(<<>>) = <<>> BY DEF FlattenSeq
  <2>9. QED BY <2>4, <2>6, <2>7, <2>8
<1>6. Between
  <2>1. c = "0" /\ neg = FALSE BY DEF Init
  <2>2. pos - 1 = 0 BY <1>4
  <2>3. QED BY <1>3, <1>4, <1>5, <2>1, <2>2, Digits DEF Between, EOF
<1>7. QED BY <1>6 DEF Init, ReadInv

\* The character at the reading place.
LEMMA Here ==
  ASSUME TypeInv
  PROVE  /\ Len(text) \in Nat /\ pos \in Nat /\ 0 < pos
         /\ NextChar # EOF <=> pos <= Len(text)
         /\ pos <= Len(text) =>
              /\ pos \in 1 .. Len(text) /\ NextChar = text[pos]
              /\ text[pos] \in Numerals \cup {"s", "n", "-", "c"}
<1>1. Len(text) \in Nat BY LenProperties DEF TypeInv
<1>2. Chars = Numerals \cup {"s", "n", "-", "c"} BY Digits DEF Chars, Spaces
<1>3. \A p \in 1 .. Len(text) : text[p] \in Chars BY ElementOfSeq DEF TypeInv
<1>4. pos \in Nat /\ 0 < pos BY <1>1 DEF TypeInv
<1>5. pos <= Len(text) => text[pos] \in Numerals \cup {"s", "n", "-", "c"} /\ text[pos] # EOF
  BY <1>1, <1>2, <1>3, <1>4, Digits DEF EOF
<1>6. QED BY <1>1, <1>4, <1>5 DEF NextChar

LEMMA WellFormedAt ==
  ASSUME TypeInv, WellFormed, NEW i \in 1 .. Len(text)
  PROVE  /\ At(i) = "-" => At(i - 1) \in Spaces /\ At(i + 1) \in Numerals \ {"0"}
         /\ At(i) \in DOMAIN Digit => At(i + 1) \in DOMAIN Digit \cup Spaces
         /\ text[i] = "c" /\ ~ (i > 1 /\ InComment(i - 1)) => i = 1 \/ text[i - 1] = "n"
         /\ InComment(i) => \E j \in i .. Len(text) : text[j] = "n"
<1>1. DOMAIN text = 1 .. Len(text) BY LenProperties DEF TypeInv
<1>2. QED BY <1>1 DEF WellFormed

\* What follows a minus is the digit of a number.
LEMMA AfterMinus ==
  ASSUME TypeInv, WellFormed, NEW p \in Nat, At(p - 1) = "-"
  PROVE  At(p) \in Numerals
<1>1. Len(text) \in Nat BY Here
<1>2. p - 1 \in 1 .. Len(text) BY <1>1, AtIs
<1>3. (p - 1) + 1 = p OBVIOUS
<1>4. At((p - 1) + 1) \in Numerals BY <1>2, WellFormedAt
<1>5. QED BY ONLY <1>3, <1>4

\* A place outside comments.
LEMMA Outside ==
  ASSUME TypeInv, NEW p \in 1 .. Len(text), ~ Open(p), text[p] # "c"
  PROVE  At(p) = text[p] /\ ~ InComment(p) /\ ~ Open(p + 1)
BY Comments, AtIs

\* No number starts at a place without a digit.
LEMMA NoStart ==
  ASSUME TypeInv, NEW p \in Nat, At(p) \notin DOMAIN Digit
  PROVE  UpTo(p + 1) = UpTo(p)
<1>1. p \notin Starts BY DEF Starts
<1>2. \A k \in p .. (p + 1) - 1 : k \notin Starts BY <1>1
<1>3. QED BY <1>2, UpToSame

LEMMA TakenStays == ASSUME clauses' = clauses, cls' = cls PROVE Taken' = Taken
BY DEF Taken

LEMMA BlankStep ==
  ASSUME TypeInv, WellFormed, ReadInv, ReadBlank
  PROVE  ReadInv'
<1>1. /\ pc = "read" /\ pc' = "read" /\ Fgetc /\ NextChar \in Spaces
      /\ text' = text /\ neg' = neg /\ Taken' = Taken
  BY TakenStays DEF ReadBlank
<1>2. Between BY <1>1 DEF ReadInv
<1>3. PICK p \in 1 .. Len(text) : p = pos /\ NextChar = text[p] BY <1>1, Here DEF Spaces, EOF
<1>4. p \in Nat /\ Len(text) \in Nat /\ p <= Len(text) + 1 BY Here
<1>5. text[p] # "c" /\ text[p] # "-" /\ text[p] \notin DOMAIN Digit
  BY <1>1, <1>3, Digits DEF Spaces
<1>6. ~ Open(p) BY <1>2, <1>3, <1>4 DEF Between
<1>7. At(p) = text[p] /\ ~ Open(p + 1) BY <1>5, <1>6, Outside
<1>8. At(p - 1) # "-" BY <1>4, <1>5, <1>7, AfterMinus, Digits
<1>9. ~ neg BY <1>2, <1>3, <1>8 DEF Between
<1>10. UpTo(p + 1) = UpTo(p) BY <1>4, <1>5, <1>7, NoStart
<1>11. pos' = p + 1 /\ c' # EOF BY <1>1, <1>3, <1>4, Here DEF Fgetc
<1>12. Taken' = UpTo(p + 1) BY <1>1, <1>2, <1>3, <1>10 DEF Between
<1>13. (p + 1) - 1 = p BY <1>4
<1>14. Between' BY <1>1, <1>5, <1>7, <1>9, <1>11, <1>12, <1>13, BetweenNext
<1>15. QED BY <1>1, <1>14 DEF ReadInv

LEMMA MinusStep ==
  ASSUME TypeInv, WellFormed, ReadInv, ReadMinus
  PROVE  ReadInv'
<1>1. /\ pc = "read" /\ pc' = "read" /\ Fgetc /\ NextChar = "-"
      /\ text' = text /\ neg' = TRUE /\ Taken' = Taken
  BY TakenStays DEF ReadMinus
<1>2. Between BY <1>1 DEF ReadInv
<1>3. PICK p \in 1 .. Len(text) : p = pos /\ NextChar = text[p] BY <1>1, Here DEF EOF
<1>4. p \in Nat /\ Len(text) \in Nat /\ p <= Len(text) + 1 BY Here
<1>5. text[p] = "-" /\ text[p] # "c" /\ text[p] \notin DOMAIN Digit BY <1>1, <1>3, Digits
<1>6. ~ Open(p) BY <1>2, <1>3, <1>4 DEF Between
<1>7. At(p) = text[p] /\ ~ Open(p + 1) BY <1>5, <1>6, Outside
<1>8. UpTo(p + 1) = UpTo(p) BY <1>4, <1>5, <1>7, NoStart
<1>9. pos' = p + 1 /\ c' # EOF BY <1>1, <1>3, <1>4, Here DEF Fgetc
<1>10. Taken' = UpTo(p + 1) BY <1>1, <1>2, <1>3, <1>8 DEF Between
<1>11. (p + 1) - 1 = p BY <1>4
<1>12. Between' BY <1>1, <1>5, <1>7, <1>9, <1>10, <1>11, BetweenNext
<1>13. QED BY <1>1, <1>12 DEF ReadInv

LEMMA CommentStep ==
  ASSUME TypeInv, WellFormed, ReadInv, ReadComment
  PROVE  ReadInv'
<1>1. /\ pc = "read" /\ pc' = "skip" /\ Fgetc /\ NextChar = "c"
      /\ text' = text /\ neg' = neg /\ neg \in BOOLEAN /\ Taken' = Taken
  BY TakenStays DEF ReadComment, TypeInv
<1>2. Between BY <1>1 DEF ReadInv
<1>3. PICK p \in 1 .. Len(text) : p = pos /\ NextChar = text[p] BY <1>1, Here DEF EOF
<1>4. p \in Nat /\ Len(text) \in Nat /\ p + 1 <= Len(text) + 1 BY Here
<1>5. InComment(p) /\ Open(p + 1) /\ At(p) = "n" BY <1>1, <1>3, Comments, AtIs
<1>6. At(p) \notin DOMAIN Digit BY <1>5, Digits
<1>7. At(p - 1) # "-" BY <1>4, <1>6, AfterMinus, Digits
<1>8. neg = FALSE BY <1>1, <1>2, <1>3, <1>7 DEF Between
<1>9. UpTo(p + 1) = UpTo(p) BY <1>4, <1>6, NoStart
<1>10. pos' = p + 1 BY <1>1, <1>3, <1>4, Here DEF Fgetc
<1>11. Taken' = UpTo(p + 1) BY <1>1, <1>2, <1>3, <1>9 DEF Between
<1>12. Commented' BY <1>1, <1>4, <1>5, <1>8, <1>10, <1>11, CommentedNext
<1>13. QED BY <1>1, <1>12 DEF ReadInv

LEMMA SkipStep ==
  ASSUME TypeInv, WellFormed, ReadInv, Skip
  PROVE  ReadInv'
<1>1. /\ pc = "skip" /\ Fgetc /\ pc' = IF c' = "n" THEN "read" ELSE "skip"
      /\ text' = text /\ neg' = neg /\ Taken' = Taken
  BY TakenStays DEF Skip
<1>2. Commented BY <1>1 DEF ReadInv
<1>3. pos <= Len(text)
  <2>1. SUFFICES ASSUME pos = Len(text) + 1 PROVE FALSE BY <1>2, Here DEF Commented
  <2>2. PICK n \in Nat : n = Len(text) /\ Open(n + 1) BY <1>2, <2>1, Here DEF Commented
  <2>3. n # 0 BY <2>2 DEF Open
  <2>4. n \in 1 .. Len(text) BY <2>2, <2>3
  <2>5. InComment(n) /\ text[n] # "n" BY <2>2, <2>4, Comments
  <2>6. PICK j \in n .. Len(text) : text[j] = "n" BY <2>4, <2>5, WellFormedAt
  <2>7. j = n BY <2>2, <2>6
  <2>8. QED BY <2>5, <2>6, <2>7
<1>4. PICK p \in 1 .. Len(text) : p = pos /\ NextChar = text[p] BY <1>3, Here
<1>5. p \in Nat /\ Len(text) \in Nat /\ p + 1 <= Len(text) + 1 BY Here
<1>6. Open(p) BY <1>2, <1>4 DEF Commented
<1>7. InComment(p) /\ At(p) = "n" /\ (Open(p + 1) <=> text[p] # "n") BY <1>6, Comments, AtIs
<1>8. At(p) # "-" /\ At(p) \notin DOMAIN Digit BY <1>7, Digits
<1>9. UpTo(p + 1) = UpTo(p) BY <1>5, <1>8, NoStart
<1>10. pos' = p + 1 /\ c' = text[p] BY <1>1, <1>4, <1>5 DEF Fgetc
<1>11. Taken' = UpTo(p + 1) BY <1>1, <1>2, <1>4, <1>9 DEF Commented
<1>12. neg' = FALSE BY <1>1, <1>2 DEF Commented
<1>13. (p + 1) - 1 = p BY <1>5
<1>14. CASE text[p] = "n"
  <2>1. ~ Open(p + 1) /\ c' # EOF /\ pc' = "read" BY <1>1, <1>7, <1>10, <1>14 DEF EOF
  <2>2. Between' BY <1>1, <1>8, <1>10, <1>11, <1>12, <1>13, <2>1, BetweenNext
  <2>3. QED BY <2>1, <2>2 DEF ReadInv
<1>15. CASE text[p] # "n"
  <2>1. Open(p + 1) /\ pc' = "skip" BY <1>1, <1>7, <1>10, <1>15
  <2>2. Commented' BY <1>1, <1>5, <1>10, <1>11, <1>12, <2>1, CommentedNext
  <2>3. QED BY <2>1, <2>2 DEF ReadInv
<1>16. QED BY <1>14, <1>15

LEMMA DigitStep ==
  ASSUME TypeInv, WellFormed, ReadInv, ReadDigit
  PROVE  ReadInv'
<1>1. /\ pc = "read" /\ pc' = "digits" /\ Fgetc /\ NextChar \in DOMAIN Digit
      /\ text' = text /\ neg' = neg /\ Taken' = Taken /\ num' = Digit[NextChar]
  BY TakenStays DEF ReadDigit
<1>2. Between BY <1>1 DEF ReadInv
<1>3. PICK p \in 1 .. Len(text) : p = pos /\ NextChar = text[p] BY <1>1, Here, Digits DEF EOF
<1>4. p \in Nat /\ Len(text) \in Nat /\ p + 1 <= Len(text) + 1 /\ p < p + 1 BY Here
<1>5. text[p] \in DOMAIN Digit /\ text[p] # "c" BY <1>1, <1>3, Digits
<1>6. ~ Open(p) BY <1>2, <1>3, <1>4 DEF Between
<1>7. At(p) = text[p] BY <1>5, <1>6, Outside
<1>8. p \in Starts
  <2>1. At(p - 1) \notin DOMAIN Digit BY <1>2, <1>3 DEF Between
  <2>2. DOMAIN text = 1 .. Len(text) BY LenProperties DEF TypeInv
  <2>3. QED BY <1>5, <1>7, <2>1, <2>2 DEF Starts
<1>9. num' = Value(p, p)
  <2>1. Value(p, p) = More(0, p) BY <1>4, ValueIs
  <2>2. PICK d \in Nat : d = Digit[text[p]] BY <1>5, Digits
  <2>3. More(0, p) = d BY <2>2 DEF More
  <2>4. QED BY <1>1, <1>3, <2>1, <2>2, <2>3
<1>10. pos' = p + 1 BY <1>1, <1>3, <1>4 DEF Fgetc
<1>11. Taken' = UpTo(p) /\ (neg' <=> At(p - 1) = "-") BY <1>1, <1>2, <1>3 DEF Between
<1>12. (p + 1) - 1 = p BY <1>4
<1>13. \A k \in p .. (p + 1) - 1 : At(k) \in DOMAIN Digit BY <1>4, <1>5, <1>7
<1>14. num' = Value(p, (p + 1) - 1) BY <1>9, <1>12
<1>15. (\E j \in Starts : InNumber(j, pos))'
  BY ONLY <1>1, <1>4, <1>8, <1>10, <1>11, <1>13, <1>14, InNumberNext
<1>16. QED BY <1>1, <1>15 DEF ReadInv

\* Within a number: the place is outside comments, for a digit is before it.
LEMMA InDigits ==
  ASSUME TypeInv, WellFormed, NEW i \in Starts, InNumber(i, pos)
  PROVE  /\ i \in Nat /\ i \in 1 .. Len(text) /\ i < pos /\ pos <= Len(text) + 1
         /\ pos - 1 \in i .. Len(text) /\ At(pos - 1) \in DOMAIN Digit
         /\ ~ Open(pos)
<1>1. Len(text) \in Nat /\ pos \in Nat BY Here
<1>2. i \in 1 .. Len(text) BY StartsFinite
<1>3. i < pos /\ pos <= Len(text) + 1 BY DEF InNumber
<1>4. pos - 1 \in i .. pos - 1 /\ pos - 1 \in 1 .. Len(text) /\ (pos - 1) + 1 = pos
  BY <1>1, <1>2, <1>3
<1>5. At(pos - 1) \in DOMAIN Digit BY <1>4 DEF InNumber
<1>6. ~ InComment(pos - 1) BY <1>4, <1>5, AtIs, Digits
<1>7. ~ Open(pos) BY <1>4, <1>6, Comments
<1>8. QED BY <1>1, <1>2, <1>3, <1>5, <1>7

LEMMA MoreStep ==
  ASSUME TypeInv, WellFormed, ReadInv, MoreDigits
  PROVE  ReadInv'
<1>1. /\ pc = "digits" /\ pc' = "digits" /\ Fgetc /\ NextChar \in DOMAIN Digit
      /\ text' = text /\ neg' = neg /\ Taken' = Taken
      /\ num' = num * 10 + Digit[NextChar]
  BY TakenStays DEF MoreDigits
<1>2. PICK i \in Starts : InNumber(i, pos) BY <1>1 DEF ReadInv
<1>3. PICK p \in 1 .. Len(text) : p = pos /\ NextChar = text[p] BY <1>1, Here, Digits DEF EOF
<1>4. p \in Nat /\ Len(text) \in Nat /\ p + 1 <= Len(text) + 1 /\ (p + 1) - 1 = p BY Here
<1>5. text[p] \in DOMAIN Digit /\ text[p] # "c" BY <1>1, <1>3, Digits
<1>6. i \in 1 .. Len(text) /\ i < p /\ ~ Open(p) BY <1>2, <1>3, InDigits
<1>7. At(p) = text[p] BY <1>5, <1>6, Outside
<1>8. num' = Value(i, p)
  <2>1. p \in i .. Len(text) BY <1>4, <1>6
  <2>2. Value(i, p) = More(Value(i, p - 1), p) BY <1>4, <1>6, <2>1, ValueIs
  <2>3. PICK d \in Nat : d = Digit[text[p]] BY <1>5, Digits
  <2>4. PICK m \in Nat : m = num BY DEF TypeInv
  <2>5. Value(i, p - 1) = m BY <1>2, <1>3, <2>4 DEF InNumber
  <2>6. More(m, p) = 10 * m + d BY <2>3 DEF More
  <2>7. num' = m * 10 + d BY <1>1, <1>3, <2>3, <2>4
  <2>8. m * 10 + d = 10 * m + d BY <2>3, <2>4
  <2>9. QED BY ONLY <2>2, <2>5, <2>6, <2>7, <2>8
<1>9. pos' = p + 1 BY <1>1, <1>3, <1>4 DEF Fgetc
<1>10. Taken' = UpTo(i) /\ (neg' <=> At(i - 1) = "-") BY <1>1, <1>2, <1>3 DEF InNumber
<1>11. \A k \in i .. (p + 1) - 1 : At(k) \in DOMAIN Digit
  <2>1. \A k \in i .. p - 1 : At(k) \in DOMAIN Digit BY <1>2, <1>3 DEF InNumber
  <2>2. At(p) \in DOMAIN Digit BY <1>5, <1>7
  <2>3. \A k \in i .. p : k \in i .. p - 1 \/ k = p BY <1>4, <1>6
  <2>4. QED BY <1>4, <2>1, <2>2, <2>3
<1>12. num' = Value(i, (p + 1) - 1) BY <1>4, <1>8
<1>13. i < p + 1 BY <1>4, <1>6
<1>14. (\E j \in Starts : InNumber(j, pos))'
  BY ONLY <1>1, <1>4, <1>9, <1>10, <1>11, <1>12, <1>13, i \in Starts, InNumberNext
<1>15. QED BY <1>1, <1>14 DEF ReadInv

LEMMA EndStep ==
  ASSUME TypeInv, WellFormed, ReadInv, EndNumber
  PROVE  ReadInv'
<1>1. /\ pc = "digits" /\ pc' = "read" /\ Fgetc /\ NextChar \notin DOMAIN Digit
      /\ text' = text /\ neg' = FALSE
  BY DEF EndNumber
<1>2. PICK i \in Starts : InNumber(i, pos) BY <1>1 DEF ReadInv
<1>3. PICK p \in Nat : p = pos BY Here
<1>4. /\ i \in 1 .. Len(text) /\ i < p /\ p <= Len(text) + 1 /\ p - 1 \in i .. Len(text)
      /\ At(p - 1) \in DOMAIN Digit /\ ~ Open(p) /\ Len(text) \in Nat
  BY <1>2, <1>3, InDigits, Here
<1>5. (p - 1) + 1 = p /\ (p + 1) - 1 = p BY <1>3
<1>6. p <= Len(text) => p \in 1 .. Len(text) /\ NextChar = text[p] BY <1>3, Here
\* The character that is consumed with the number is a blank or the end.
<1>7. At(p) \notin DOMAIN Digit /\ At(p) # "-"
  <2>1. CASE p <= Len(text)
    <3>1. At(p) = "n" \/ At(p) = text[p] BY <1>6, <2>1, AtIs
    <3>2. At(p) \notin DOMAIN Digit BY <1>1, <1>6, <2>1, <3>1, Digits
    <3>3. p - 1 \in 1 .. Len(text) BY <1>4
    <3>4. At((p - 1) + 1) \in DOMAIN Digit \cup Spaces BY <1>4, <3>3, WellFormedAt
    <3>5. At(p) \in Spaces BY <1>5, <3>2, <3>4
    <3>6. QED BY <3>2, <3>5 DEF Spaces
  <2>2. CASE ~ (p <= Len(text))
    <3>1. At(p) = "n" BY <2>2, AtIs
    <3>2. QED BY <3>1, Digits
  <2>3. QED BY <2>1, <2>2
<1>8. p + 1 <= Len(text) + 1 => ~ Open(p + 1)
  <2>1. SUFFICES ASSUME p <= Len(text) PROVE ~ Open(p + 1) BY <1>3, <1>4
  <2>2. p \in 1 .. Len(text) /\ p - 1 \in 1 .. Len(text) /\ p # 1 BY <1>4, <1>6, <2>1
  <2>3. At(p - 1) # "n" BY <1>4, Digits
  <2>4. ~ InComment(p - 1) /\ text[p - 1] # "n" BY <2>2, <2>3, AtIs
  <2>5. text[p] # "c" BY <2>2, <2>4, WellFormedAt
  <2>6. QED BY <1>4, <2>2, <2>5, Outside
<1>9. UpTo(i) = Taken BY <1>2 DEF InNumber
<1>10. PICK x \in Int : x = IF neg THEN -num ELSE num BY DEF TypeInv
<1>11. x = Number(i)
  <2>1. \A k \in i .. p - 1 : At(k) \in DOMAIN Digit BY <1>2, <1>3 DEF InNumber
  <2>2. At((p - 1) + 1) \notin DOMAIN Digit BY <1>5, <1>7
  <2>3. RunEnd(i) = p - 1 BY <1>4, <2>1, <2>2, RunEndIs
  <2>4. PICK m \in Nat : m = num BY DEF TypeInv
  <2>5. Value(i, RunEnd(i)) = m BY <1>2, <1>3, <2>3, <2>4 DEF InNumber
  <2>6. CASE neg
    <3>1. At(i - 1) = "-" BY <1>2, <2>6 DEF InNumber
    <3>2. Number(i) = (-1) * m BY <2>5, <3>1 DEF Number
    <3>3. \A z \in Nat : (-1) * z = -z OBVIOUS
    <3>4. QED BY <1>10, <2>4, <2>6, <3>2, <3>3
  <2>7. CASE ~ neg
    <3>1. At(i - 1) # "-" BY <1>2, <2>7 DEF InNumber
    <3>2. Number(i) = 1 * m BY <2>5, <3>1 DEF Number
    <3>3. 1 * m = m OBVIOUS
    <3>4. QED BY <1>10, <2>4, <2>7, <3>2, <3>3
  <2>8. QED BY <2>6, <2>7
<1>12. UpTo(p + 1) = Append(UpTo(i), x)
  <2>1. ASSUME NEW k \in i + 1 .. (p + 1) - 1 PROVE k \notin Starts
    <3>1. CASE k = p BY <3>1, <1>7 DEF Starts
    <3>2. CASE k # p
      <4>1. k - 1 \in i .. p - 1 BY <1>3, <1>4, <1>5, <3>2
      <4>2. At(k - 1) \in DOMAIN Digit BY <1>2, <1>3, <4>1 DEF InNumber
      <4>3. QED BY <4>2 DEF Starts
    <3>3. QED BY <3>1, <3>2
  <2>2. i < p + 1 /\ p + 1 \in Nat BY <1>3, <1>4
  <2>3. UpTo(i) \in Seq(Int) BY <1>9, TakenType
  <2>4. QED
    BY ONLY TypeInv, i \in Starts, x \in Int, <1>11, <2>1, <2>2, <2>3, UpToNext
<1>13. Taken' = UpTo(p + 1)
  <2>1. Taken' = Append(Taken, x) BY <1>10, TakesNumber
  <2>2. QED BY ONLY <1>9, <1>12, <2>1
<1>14. pos' = p + 1 BY <1>1, <1>3, <1>4 DEF Fgetc
<1>15. c' = EOF => p + 1 > Len(text)
  <2>1. c' = NextChar BY <1>1 DEF Fgetc
  <2>2. c' = EOF => ~ (p <= Len(text)) BY <1>3, <2>1, Here
  <2>3. QED BY <1>4, <2>2
<1>16. Between' BY <1>1, <1>5, <1>7, <1>8, <1>13, <1>14, <1>15, BetweenNext
<1>17. QED BY <1>1, <1>16 DEF ReadInv

LEMMA EndOfFileStep ==
  ASSUME TypeInv, WellFormed, ReadInv, EndOfFile
  PROVE  ReadInv'
<1>1. /\ pc = "read" /\ (c = EOF \/ NextChar = EOF) /\ pc' = "add"
      /\ text' = text /\ Taken' = Taken
  BY TakenStays DEF EndOfFile, readVars
<1>2. Between BY <1>1 DEF ReadInv
<1>3. Len(text) < pos /\ pos \in Nat BY <1>1, <1>2, Here DEF Between
<1>4. Taken = Numbers BY <1>2, <1>3, UpToAll DEF Between
<1>5. Taken' = Numbers' BY <1>1, <1>4, TextStays
<1>6. QED BY <1>1, <1>5 DEF ReadInv

\* What is done with the clauses when the file has been read.
LEMMA LaterStep ==
  ASSUME ReadInv, text' = text,
         \/ pc' \notin {"read", "skip", "digits", "add"}
         \/ pc = "add" /\ UNCHANGED <<pc, cls, clauses>>
  PROVE  ReadInv'
<1>1. CASE pc' \notin {"read", "skip", "digits", "add"} BY <1>1 DEF ReadInv
<1>2. CASE pc = "add" /\ UNCHANGED <<pc, cls, clauses>>
  <2>1. Taken' = Taken /\ Numbers' = Numbers BY <1>2, TakenStays, TextStays
  <2>2. QED BY <1>2, <2>1 DEF ReadInv
<1>3. QED BY <1>1, <1>2

LEMMA SameStep ==
  ASSUME ReadInv, UNCHANGED vars
  PROVE  ReadInv'
<1>1. UNCHANGED <<text, pos, pc, c, neg, num, cls, clauses>> BY DEF vars, readVars
<1>2. Taken' = Taken /\ Numbers' = Numbers /\ Starts' = Starts
  BY <1>1, TakenStays, TextStays
<1>3. CASE pc = "read"
  <2>1. Between BY <1>3 DEF ReadInv
  <2>2. PICK q : q = pos OBVIOUS
  <2>3. Between' BY <1>1, <1>2, <2>1, <2>2, BetweenNext DEF Between
  <2>4. QED BY <1>1, <1>3, <2>3 DEF ReadInv
<1>4. CASE pc = "skip"
  <2>1. Commented BY <1>4 DEF ReadInv
  <2>2. PICK q : q = pos OBVIOUS
  <2>3. Commented' BY <1>1, <1>2, <2>1, <2>2, CommentedNext DEF Commented
  <2>4. QED BY <1>1, <1>4, <2>3 DEF ReadInv
<1>5. CASE pc = "digits"
  <2>1. PICK i \in Starts : InNumber(i, pos) BY <1>5 DEF ReadInv
  <2>2. PICK q : q = pos OBVIOUS
  <2>3. /\ i < q /\ q <= Len(text) + 1 /\ (\A k \in i .. q - 1 : At(k) \in DOMAIN Digit)
        /\ num' = Value(i, q - 1) /\ (neg' <=> At(i - 1) = "-") /\ Taken' = UpTo(i)
    BY <1>1, <1>2, <2>1, <2>2 DEF InNumber
  <2>4. (\E j \in Starts : InNumber(j, pos))'
    BY ONLY <1>1, <2>2, <2>3, i \in Starts, InNumberNext
  <2>5. QED BY <1>1, <1>5, <2>4 DEF ReadInv
<1>6. CASE pc \notin {"read", "skip", "digits"}
  BY <1>1, <1>2, <1>6 DEF ReadInv
<1>7. QED BY <1>3, <1>4, <1>5, <1>6

LEMMA ReadStep ==
  ASSUME TypeInv, WellFormed => ReadInv, [Next]_vars
  PROVE  (WellFormed => ReadInv)'
<1>1. text' = text
  BY DEF Next, Reading, OpenFails, ReadComment, Skip, ReadBlank, ReadMinus, ReadDigit,
         MoreDigits, EndNumber, EndOfFile, JoinLoop, FreeClauses, AddInitialClauses, vars
<1>2. WellFormed' => WellFormed BY <1>1, TextStays
<1>3. SUFFICES ASSUME WellFormed, ReadInv PROVE ReadInv' BY <1>2
<1>4. CASE OpenFails BY <1>4, <1>1, <1>3, LaterStep DEF OpenFails
<1>5. CASE ReadComment BY <1>3, <1>5, CommentStep
<1>6. CASE Skip BY <1>3, <1>6, SkipStep
<1>7. CASE ReadBlank BY <1>3, <1>7, BlankStep
<1>8. CASE ReadMinus BY <1>3, <1>8, MinusStep
<1>9. CASE ReadDigit BY <1>3, <1>9, DigitStep
<1>10. CASE MoreDigits BY <1>3, <1>10, MoreStep
<1>11. CASE EndNumber BY <1>3, <1>11, EndStep
<1>12. CASE EndOfFile BY <1>3, <1>12, EndOfFileStep
<1>13. CASE JoinLoop BY <1>13, <1>1, <1>3, LaterStep DEF JoinLoop
<1>14. CASE FreeClauses BY <1>14, <1>1, <1>3, LaterStep DEF FreeClauses
<1>15. ASSUME NEW s \in Solvers, AddInitialClauses(s) PROVE ReadInv'
  BY <1>15, <1>1, <1>3, LaterStep DEF AddInitialClauses, readVars
<1>16. CASE UNCHANGED vars BY <1>3, <1>16, SameStep
<1>17. QED
  BY <1>4, <1>5, <1>6, <1>7, <1>8, <1>9, <1>10, <1>11, <1>12, <1>13, <1>14, <1>15, <1>16
  DEF Next, Reading

-----------------------------------------------------------------------------
\* For any set of files of any length: if the file is well-formed, the clauses
\* with their zeros and the rest of the last one are, when loadFormulaToSolvers
\* has read it, the numbers that the file spells, in order.
THEOREM NumbersAreRead == Spec => []ReadsTheNumbers
<1>1. Init => IInv BY TypeInit, InitRead DEF IInv
<1>2. IInv /\ [Next]_vars => IInv'
  <2>1. SUFFICES ASSUME IInv, [Next]_vars PROVE IInv' OBVIOUS
  <2>2. TypeInv /\ (WellFormed => ReadInv) BY <2>1 DEF IInv
  <2>3. TypeInv' BY <2>1, <2>2, TypeStep
  <2>4. (WellFormed => ReadInv)' BY <2>1, <2>2, ReadStep
  <2>5. QED BY <2>3, <2>4 DEF IInv
<1>3. IInv => ReadsTheNumbers BY DEF IInv, ReadInv, ReadsTheNumbers
<1>4. QED BY <1>1, <1>2, <1>3, PTL DEF Spec
=============================================================================
