------------------------- MODULE ClauseSharingProofs -------------------------
(***************************************************************************)
(* Theorems about ClauseSharing for any solvers, clauses, lists of         *)
(* producers and consumers, and limits.                                    *)
(***************************************************************************)
EXTENDS ClauseSharing, SequenceTheorems, FiniteSetTheorems, SequencesExt, TLAPS

-----------------------------------------------------------------------------
(* What the operations on sequences do to the number of times an element   *)
(* occurs.                                                                 *)

LEMMA CountType ==
  ASSUME NEW S, NEW seq \in Seq(S), NEW e
  PROVE  IsFiniteSet(Occurrences(e, seq)) /\ Count(e, seq) \in Nat
<1>1. DOMAIN seq = 1 .. Len(seq) /\ Len(seq) \in Nat BY LenProperties
<1>2. IsFiniteSet(1 .. Len(seq)) BY ONLY <1>1, FS_Interval
<1>3. Occurrences(e, seq) \in SUBSET (1 .. Len(seq)) BY <1>1 DEF Occurrences
<1>4. IsFiniteSet(Occurrences(e, seq)) BY <1>2, <1>3, FS_Subset
<1>5. QED BY <1>4, FS_CardinalityType DEF Count

LEMMA CountEmpty == \A e : Count(e, <<>>) = 0
<1> TAKE e
<1>1. Occurrences(e, <<>>) = {} BY DEF Occurrences
<1>2. QED BY <1>1, FS_EmptySet DEF Count

LEMMA CountPositive ==
  ASSUME NEW S, NEW seq \in Seq(S), NEW e
  PROVE  Count(e, seq) > 0 <=> \E n \in 1 .. Len(seq) : seq[n] = e
<1>1. IsFiniteSet(Occurrences(e, seq)) /\ Count(e, seq) \in Nat BY CountType
<1>2. Count(e, seq) = 0 <=> Occurrences(e, seq) = {} BY <1>1, FS_EmptySet DEF Count
<1>3. DOMAIN seq = 1 .. Len(seq) BY LenProperties
<1>4. QED BY <1>1, <1>2, <1>3 DEF Occurrences

LEMMA CountConcat ==
  ASSUME NEW S, NEW s \in Seq(S), NEW t \in Seq(S), NEW e
  PROVE  Count(e, s \o t) = Count(e, s) + Count(e, t)
<1> DEFINE A == Occurrences(e, s)
           B == Occurrences(e, t)
           C == Occurrences(e, s \o t)
           D == C \ (1 .. Len(s))
           shift == [n \in B |-> n + Len(s)]
<1>1. /\ Len(s) \in Nat /\ Len(t) \in Nat
      /\ DOMAIN s = 1 .. Len(s) /\ DOMAIN t = 1 .. Len(t)
  BY LenProperties
<1>2. /\ s \o t \in Seq(S) /\ Len(s \o t) = Len(s) + Len(t)
      /\ \A i \in 1 .. Len(s) + Len(t) : (s \o t)[i] = IF i <= Len(s) THEN s[i] ELSE t[i - Len(s)]
  BY ConcatProperties
<1>3. DOMAIN (s \o t) = 1 .. Len(s) + Len(t) BY <1>2, LenProperties
<1>4. C = {i \in 1 .. Len(s) + Len(t) : (IF i <= Len(s) THEN s[i] ELSE t[i - Len(s)]) = e}
  BY <1>2, <1>3 DEF Occurrences
<1>5. A = {i \in 1 .. Len(s) : s[i] = e} /\ B = {i \in 1 .. Len(t) : t[i] = e}
  BY <1>1 DEF Occurrences
<1> HIDE DEF A, B, C
<1>6. C = A \cup D /\ A \cap D = {} BY <1>1, <1>4, <1>5
<1>7. ExistsBijection(B, D)
  <2>1. shift \in [B -> D] BY <1>1, <1>4, <1>5
  <2>2. \A m, n \in B : shift[m] = shift[n] => m = n BY <1>1, <1>5
  <2>3. ASSUME NEW d \in D PROVE \E n \in B : shift[n] = d
    <3>1. d - Len(s) \in B BY <1>1, <1>4, <1>5
    <3>2. shift[d - Len(s)] = d BY <1>1, <1>4, <3>1
    <3>3. QED BY <3>1, <3>2
  <2>4. QED BY <2>1, <2>2, <2>3 DEF ExistsBijection, Bijection, Injection, Surjection, IsInjective
<1>8. IsFiniteSet(A) /\ IsFiniteSet(B) BY CountType DEF A, B
<1>9. IsFiniteSet(D) /\ Cardinality(D) = Cardinality(B) BY <1>7, <1>8, FS_Bijection
<1>10. Cardinality(C) = Cardinality(A) + Cardinality(D) - Cardinality(A \cap D)
  BY <1>6, <1>8, <1>9, FS_Union
<1>11. Cardinality(A \cap D) = 0 BY <1>6, FS_EmptySet
<1>12. Cardinality(A) \in Nat /\ Cardinality(D) \in Nat BY <1>8, <1>9, FS_CardinalityType
<1>13. QED BY <1>9, <1>10, <1>11, <1>12 DEF Count, A, B, C

LEMMA CountSingle == \A e, x : Count(e, <<x>>) = One(x, e)
<1> TAKE e, x
<1>1. CASE x = e
  <2>1. Occurrences(e, <<x>>) = {1} BY <1>1 DEF Occurrences
  <2>2. QED BY <2>1, <1>1, FS_Singleton DEF Count, One
<1>2. CASE x # e
  <2>1. Occurrences(e, <<x>>) = {} BY <1>2 DEF Occurrences
  <2>2. QED BY <2>1, <1>2, FS_EmptySet DEF Count, One
<1>3. QED BY <1>1, <1>2

LEMMA CountAppend ==
  ASSUME NEW S, NEW seq \in Seq(S), NEW x \in S, NEW e
  PROVE  Count(e, Append(seq, x)) = Count(e, seq) + One(x, e)
<1>1. <<x>> \in Seq(S) OBVIOUS
<1>2. Count(e, seq \o <<x>>) = Count(e, seq) + Count(e, <<x>>) BY <1>1, CountConcat
<1>3. Append(seq, x) = seq \o <<x>> BY AppendIsConcat
<1>4. Count(e, <<x>>) = One(x, e) BY CountSingle
<1>5. QED BY <1>2, <1>3, <1>4

LEMMA CountSplit ==
  ASSUME NEW S, NEW seq \in Seq(S), NEW n \in 0 .. Len(seq), NEW e
  PROVE  /\ SubSeq(seq, 1, n) \in Seq(S) /\ SubSeq(seq, n + 1, Len(seq)) \in Seq(S)
         /\ Count(e, seq) = Count(e, SubSeq(seq, 1, n)) + Count(e, SubSeq(seq, n + 1, Len(seq)))
<1>1. Len(seq) \in Nat /\ n \in Nat BY LenProperties
<1>2. \A i \in 1 .. Len(seq) : seq[i] \in S BY ElementOfSeq
<1>3. SubSeq(seq, 1, n) \in Seq(S) BY <1>1, <1>2, SubSeqProperties
<1>4. SubSeq(seq, n + 1, Len(seq)) \in Seq(S) BY <1>1, <1>2, SubSeqProperties
<1>5. SubSeq(seq, 1, n) \o SubSeq(seq, n + 1, Len(seq)) = SubSeq(seq, 1, Len(seq))
  <2>1. /\ 1 \in 1 .. Len(seq) + 1 /\ n \in (1 - 1) .. Len(seq)
        /\ Len(seq) \in n .. Len(seq)
    BY <1>1
  <2>2. QED BY <2>1, ConcatAdjacentSubSeq
<1>6. SubSeq(seq, 1, Len(seq)) = seq BY SubSeqFull
<1>7. Count(e, SubSeq(seq, 1, n) \o SubSeq(seq, n + 1, Len(seq)))
        = Count(e, SubSeq(seq, 1, n)) + Count(e, SubSeq(seq, n + 1, Len(seq)))
  BY <1>3, <1>4, CountConcat
<1>8. QED BY <1>3, <1>4, <1>5, <1>6, <1>7

\* The rest of a sequence from place m on, with and without place m.
LEMMA CountSuffix ==
  ASSUME NEW S, NEW seq \in Seq(S), NEW m \in 1 .. Len(seq), NEW e
  PROVE  Count(e, SubSeq(seq, m, Len(seq)))
           = One(seq[m], e) + Count(e, SubSeq(seq, m + 1, Len(seq)))
<1>1. Len(seq) \in Nat BY LenProperties
<1>2. \A i \in 1 .. Len(seq) : seq[i] \in S BY ElementOfSeq
<1>3. SubSeq(seq, m, Len(seq)) = <<seq[m]>> \o SubSeq(seq, m + 1, Len(seq))
  <2>1. PICK n : n = Len(seq) OBVIOUS
  <2>2. m \in 1 .. Len(seq) /\ n \in m .. Len(seq) BY <1>1, <2>1
  <2>3. SubSeq(seq, m, n) = <<seq[m]>> \o SubSeq(seq, m + 1, n)
    BY ONLY seq \in Seq(S), <2>2, SubSeqRecursiveFirst
  <2>4. QED BY <2>1, <2>3
<1>4. SubSeq(seq, m + 1, Len(seq)) \in Seq(S) BY <1>1, <1>2, SubSeqProperties
<1>5. <<seq[m]>> \in Seq(S) BY <1>2
<1>6. Count(e, <<seq[m]>> \o SubSeq(seq, m + 1, Len(seq)))
        = Count(e, <<seq[m]>>) + Count(e, SubSeq(seq, m + 1, Len(seq)))
  BY <1>4, <1>5, CountConcat
<1>7. QED BY <1>3, <1>6, CountSingle

LEMMA CountPrefix ==
  ASSUME NEW S, NEW seq \in Seq(S), NEW m \in 1 .. Len(seq), NEW e
  PROVE  Count(e, SubSeq(seq, 1, m)) = Count(e, SubSeq(seq, 1, m - 1)) + One(seq[m], e)
<1>1. Len(seq) \in Nat /\ 1 \in 1 .. Len(seq) /\ m \in 1 .. Len(seq) BY LenProperties
<1>2. \A i \in 1 .. Len(seq) : seq[i] \in S BY ElementOfSeq
<1>3. SubSeq(seq, 1, m) = SubSeq(seq, 1, m - 1) \o <<seq[m]>>
  BY <1>1, SubSeqRecursiveSecond
<1>4. SubSeq(seq, 1, m - 1) \in Seq(S) BY <1>1, <1>2, SubSeqProperties
<1>5. <<seq[m]>> \in Seq(S) BY <1>2
<1>6. Count(e, SubSeq(seq, 1, m - 1) \o <<seq[m]>>)
        = Count(e, SubSeq(seq, 1, m - 1)) + Count(e, <<seq[m]>>)
  BY <1>4, <1>5, CountConcat
<1>7. Count(e, <<seq[m]>>) = One(seq[m], e) BY CountSingle
<1>8. QED BY <1>3, <1>6, <1>7

LEMMA CountTail ==
  ASSUME NEW S, NEW seq \in Seq(S), seq # <<>>, NEW e
  PROVE  /\ Tail(seq) \in Seq(S) /\ Head(seq) \in S
         /\ Count(e, seq) = One(Head(seq), e) + Count(e, Tail(seq))
<1>1. Len(seq) \in Nat \ {0} BY EmptySeq
<1>2. Tail(seq) \in Seq(S) /\ Head(seq) \in S BY HeadTailProperties
<1>3. Tail(seq) = SubSeq(seq, 2, Len(seq)) BY TailIsSubSeq
<1>4. SubSeq(seq, 1, Len(seq)) = seq BY SubSeqFull
<1>5. 1 \in 1 .. Len(seq) /\ 1 + 1 = 2 BY <1>1
<1>6. Head(seq) = seq[1] BY <1>1
<1>7. Count(e, SubSeq(seq, 1, Len(seq))) = One(seq[1], e) + Count(e, SubSeq(seq, 1 + 1, Len(seq)))
  BY <1>5, CountSuffix
<1>8. QED BY <1>2, <1>3, <1>4, <1>5, <1>6, <1>7

LEMMA CountReverse ==
  ASSUME NEW S, NEW seq \in Seq(S), NEW e
  PROVE  Reverse(seq) \in Seq(S) /\ Count(e, Reverse(seq)) = Count(e, seq)
<1> DEFINE A == Occurrences(e, seq)
           B == Occurrences(e, Reverse(seq))
           mirror == [n \in A |-> Len(seq) - n + 1]
<1>1. Len(seq) \in Nat /\ DOMAIN seq = 1 .. Len(seq) BY LenProperties
<1>2. \A i \in 1 .. Len(seq) : seq[i] \in S BY ElementOfSeq
<1>3. Reverse(seq) = [i \in 1 .. Len(seq) |-> seq[(Len(seq) - i) + 1]] BY DEF Reverse
<1>4. Reverse(seq) \in Seq(S) BY <1>1, <1>2, <1>3
<1>5. A = {i \in 1 .. Len(seq) : seq[i] = e} BY <1>1 DEF Occurrences
<1>6. B = {i \in 1 .. Len(seq) : seq[Len(seq) - i + 1] = e}
  BY <1>1, <1>3 DEF Occurrences
<1> HIDE DEF A, B
<1>7. ExistsBijection(A, B)
  <2>1. mirror \in [A -> B] BY <1>1, <1>5, <1>6
  <2>2. \A m, n \in A : mirror[m] = mirror[n] => m = n BY <1>1, <1>5
  <2>3. ASSUME NEW d \in B PROVE \E n \in A : mirror[n] = d
    <3>1. Len(seq) - d + 1 \in A BY <1>1, <1>5, <1>6
    <3>2. mirror[Len(seq) - d + 1] = d BY <1>1, <1>6, <3>1
    <3>3. QED BY <3>1, <3>2
  <2>4. QED BY <2>1, <2>2, <2>3 DEF ExistsBijection, Bijection, Injection, Surjection, IsInjective
<1>8. IsFiniteSet(A) BY CountType DEF A
<1>9. QED BY <1>4, <1>7, <1>8, FS_Bijection DEF Count, A, B

-----------------------------------------------------------------------------
(* Families of sequences. *)

LEMMA CountAtPlace ==
  ASSUME NEW e, NEW i, NEW seq, IsFiniteSet(Occurrences(e, seq))
  PROVE  /\ IsFiniteSet({i} \X Occurrences(e, seq))
         /\ Cardinality({i} \X Occurrences(e, seq)) = Count(e, seq)
<1> DEFINE A == Occurrences(e, seq)
           pair == [n \in A |-> <<i, n>>]
<1>1. ExistsBijection(A, {i} \X A)
  <2>1. pair \in [A -> {i} \X A] OBVIOUS
  <2>2. \A m, n \in A : pair[m] = pair[n] => m = n OBVIOUS
  <2>3. \A p \in {i} \X A : \E n \in A : pair[n] = p OBVIOUS
  <2>4. QED BY <2>1, <2>2, <2>3 DEF ExistsBijection, Bijection, Injection, Surjection, IsInjective
<1>2. QED BY <1>1, FS_Bijection DEF Count

\* Kept as a definition so that a fact about a family is found by its name.
Families(I, S) == [I -> Seq(S)]

\* The places of a family, without those of one member.
Elsewhere(e, family, i) ==
  UNION {{j} \X Occurrences(e, family[j]) : j \in DOMAIN family \ {i}}

LEMMA TotalSplit ==
  ASSUME NEW S, NEW I, IsFiniteSet(I), NEW family \in Families(I, S), NEW i \in I, NEW e
  PROVE  /\ IsFiniteSet(Elsewhere(e, family, i)) /\ IsFiniteSet(AllOccurrences(e, family))
         /\ Cardinality(Elsewhere(e, family, i)) \in Nat /\ Total(e, family) \in Nat
         /\ Total(e, family) = Cardinality(Elsewhere(e, family, i)) + Count(e, family[i])
<1> DEFINE E == Elsewhere(e, family, i)
           H == {i} \X Occurrences(e, family[i])
           Members == {{j} \X Occurrences(e, family[j]) : j \in I \ {i}}
<1>1. \A j \in I : IsFiniteSet(Occurrences(e, family[j])) /\ Count(e, family[j]) \in Nat
  BY CountType DEF Families
<1>2. \A j \in I : IsFiniteSet({j} \X Occurrences(e, family[j]))
  BY <1>1, CountAtPlace
<1>3. IsFiniteSet(Members)
  <2> DEFINE f == [j \in I \ {i} |-> {j} \X Occurrences(e, family[j])]
  <2>1. f \in Surjection(I \ {i}, Members) BY DEF Surjection
  <2>2. IsFiniteSet(I \ {i}) BY FS_RemoveElement
  <2>3. QED BY <2>1, <2>2, FS_Surjection
<1>4. IsFiniteSet(UNION Members) BY <1>2, <1>3, FS_UNION
<1>5. E = UNION Members BY DEF Elsewhere, Families
<1>6. IsFiniteSet(H) /\ Cardinality(H) = Count(e, family[i]) BY <1>1, CountAtPlace
<1>7. E \cap H = {} BY DEF Elsewhere, Families
<1>8. AllOccurrences(e, family) = E \cup H BY DEF AllOccurrences, Elsewhere, Families
<1>9. Cardinality(E \cap H) = 0 BY <1>7, FS_EmptySet
<1>10. /\ IsFiniteSet(E \cup H)
       /\ Cardinality(E \cup H) = Cardinality(E) + Cardinality(H) - Cardinality(E \cap H)
  BY <1>4, <1>5, <1>6, FS_Union
<1>11. Cardinality(E) \in Nat /\ Cardinality(E \cup H) \in Nat
  BY <1>4, <1>5, <1>10, FS_CardinalityType
<1>12. Count(e, family[i]) \in Nat BY <1>1
<1>13. QED BY <1>4, <1>5, <1>6, <1>8, <1>9, <1>10, <1>11, <1>12 DEF Total

\* One member of a family is replaced.
LEMMA TotalUpdate ==
  ASSUME NEW S, NEW I, IsFiniteSet(I), NEW family \in Families(I, S),
         NEW changed \in Families(I, S), NEW i \in I, NEW e,
         \A j \in I \ {i} : changed[j] = family[j]
  PROVE  /\ Total(e, changed) \in Nat /\ Total(e, family) \in Nat
         /\ Count(e, changed[i]) \in Nat /\ Count(e, family[i]) \in Nat
         /\ Total(e, changed) - Count(e, changed[i]) = Total(e, family) - Count(e, family[i])
<1> DEFINE rest == Cardinality(Elsewhere(e, family, i))
<1>1. ASSUME NEW f \in Families(I, S)
      PROVE  /\ Cardinality(Elsewhere(e, f, i)) \in Nat /\ Total(e, f) \in Nat
             /\ Total(e, f) = Cardinality(Elsewhere(e, f, i)) + Count(e, f[i])
  BY TotalSplit
<1>2. Elsewhere(e, changed, i) = Elsewhere(e, family, i) BY DEF Elsewhere, Families
<1>3. Total(e, changed) \in Nat /\ Total(e, changed) = rest + Count(e, changed[i])
  BY <1>1, <1>2
<1>4. rest \in Nat /\ Total(e, family) \in Nat /\ Total(e, family) = rest + Count(e, family[i])
  BY <1>1
<1>5. Count(e, family[i]) \in Nat /\ Count(e, changed[i]) \in Nat BY CountType DEF Families
<1> HIDE DEF rest
<1>6. QED BY <1>3, <1>4, <1>5

\* The members that are added, or left out, are empty.
LEMMA TotalGrown ==
  ASSUME NEW family, NEW grown, NEW e, DOMAIN family \subseteq DOMAIN grown,
         \A i \in DOMAIN family : grown[i] = family[i],
         \A i \in DOMAIN grown \ DOMAIN family : grown[i] = <<>>
  PROVE  Total(e, grown) = Total(e, family)
<1>1. \A i \in DOMAIN grown \ DOMAIN family : {i} \X Occurrences(e, grown[i]) = {}
  BY DEF Occurrences
<1>2. AllOccurrences(e, grown) = AllOccurrences(e, family) BY <1>1 DEF AllOccurrences
<1>3. QED BY <1>2 DEF Total

LEMMA TotalEmpty ==
  ASSUME NEW family, NEW e, \A i \in DOMAIN family : family[i] = <<>>
  PROVE  Total(e, family) = 0
<1>1. \A i \in DOMAIN family : {i} \X Occurrences(e, family[i]) = {}
  BY DEF Occurrences
<1>2. AllOccurrences(e, family) = {} BY <1>1 DEF AllOccurrences
<1>3. QED BY <1>2, FS_EmptySet DEF Total

LEMMA TotalAtLeast ==
  ASSUME NEW S, NEW I, IsFiniteSet(I), NEW family \in Families(I, S), NEW i \in I, NEW e
  PROVE  /\ Count(e, family[i]) \in Nat /\ Total(e, family) \in Nat
         /\ Count(e, family[i]) <= Total(e, family)
<1>1. Count(e, family[i]) \in Nat BY CountType DEF Families
<1>2. QED BY <1>1, TotalSplit

\* An element is appended to one member of a family.
Appended(S, I, family, i, x, changed) ==
  /\ changed \in Families(I, S)
  /\ \A e : \A j \in I :
       Count(e, changed[j]) = Count(e, family[j]) + (IF j = i THEN One(x, e) ELSE 0)
  /\ \A e : Total(e, changed) = Total(e, family) + One(x, e)

LEMMA FamilyAppend ==
  ASSUME NEW S, NEW I, IsFiniteSet(I), NEW family \in Families(I, S), NEW i \in I, NEW x \in S
  PROVE  \A changed : changed = [family EXCEPT ![i] = Append(@, x)]
                        => Appended(S, I, family, i, x, changed)
<1>1. SUFFICES ASSUME NEW changed, changed = [family EXCEPT ![i] = Append(@, x)]
               PROVE  Appended(S, I, family, i, x, changed)
  OBVIOUS
<1>2. family[i] \in Seq(S) /\ Append(family[i], x) \in Seq(S) BY DEF Families
<1>3. changed \in Families(I, S) BY <1>1, <1>2 DEF Families
<1>4. changed[i] = Append(family[i], x) BY <1>1 DEF Families
<1>5. ASSUME NEW e PROVE Count(e, changed[i]) = Count(e, family[i]) + One(x, e)
  BY <1>2, <1>4, CountAppend
<1>6. \A j \in I \ {i} : changed[j] = family[j] BY <1>1 DEF Families
<1>7. ASSUME NEW e, NEW j \in I
      PROVE  Count(e, changed[j]) = Count(e, family[j]) + (IF j = i THEN One(x, e) ELSE 0)
  <2>1. CASE j = i BY <2>1, <1>5
  <2>2. CASE j # i
    <3>1. family[j] \in Seq(S) BY DEF Families
    <3>2. Count(e, family[j]) \in Nat BY <3>1, CountType
    <3>3. QED BY <2>2, <1>6, <3>2
  <2>3. QED BY <2>1, <2>2
<1>8. ASSUME NEW e PROVE Total(e, changed) = Total(e, family) + One(x, e)
  <2>1. /\ Total(e, changed) \in Nat /\ Total(e, family) \in Nat
        /\ Count(e, changed[i]) \in Nat /\ Count(e, family[i]) \in Nat
        /\ Total(e, changed) - Count(e, changed[i]) = Total(e, family) - Count(e, family[i])
    BY <1>3, <1>6, TotalUpdate
  <2>2. Count(e, changed[i]) = Count(e, family[i]) + One(x, e) BY <1>5
  <2>3. One(x, e) \in Nat BY DEF One
  <2>4. QED BY <2>1, <2>2, <2>3
<1>9. QED BY <1>3, <1>7, <1>8 DEF Appended

\* The first element of one member of a family is taken off: seen from the end,
\* it was in front of what is left.
TailTaken(S, I, family, i, changed) ==
  /\ changed \in Families(I, S)
  /\ \A e : \A j \in I :
       Count(e, family[j])
         = Count(e, changed[j]) + (IF j = i THEN One(Head(family[i]), e) ELSE 0)
  /\ \A e : Total(e, family) = Total(e, changed) + One(Head(family[i]), e)

LEMMA FamilyTail ==
  ASSUME NEW S, NEW I, IsFiniteSet(I), NEW family \in Families(I, S), NEW i \in I,
         family[i] # <<>>
  PROVE  /\ Head(family[i]) \in S
         /\ \A changed : changed = [family EXCEPT ![i] = Tail(@)]
                          => TailTaken(S, I, family, i, changed)
<1>1. family[i] \in Seq(S) BY DEF Families
<1>2. Head(family[i]) \in S /\ Tail(family[i]) \in Seq(S) BY <1>1, CountTail
<1>3. ASSUME NEW changed, changed = [family EXCEPT ![i] = Tail(@)]
      PROVE  TailTaken(S, I, family, i, changed)
  <2>1. changed[i] = Tail(family[i]) BY <1>3 DEF Families
  <2>2. changed \in Families(I, S) BY <1>2, <1>3 DEF Families
  <2>3. ASSUME NEW e
        PROVE  Count(e, family[i]) = One(Head(family[i]), e) + Count(e, changed[i])
    BY <1>1, <2>1, CountTail
  <2>4. \A j \in I \ {i} : changed[j] = family[j] BY <1>3 DEF Families
  <2>5. ASSUME NEW e, NEW j \in I
        PROVE  Count(e, family[j])
                 = Count(e, changed[j]) + (IF j = i THEN One(Head(family[i]), e) ELSE 0)
    <3>1. changed[j] \in Seq(S) BY <2>2 DEF Families
    <3>2. Count(e, changed[j]) \in Nat BY <3>1, CountType
    <3>3. CASE j = i
      <4>1. Count(e, family[i]) = One(Head(family[i]), e) + Count(e, changed[i]) BY <2>3
      <4>2. One(Head(family[i]), e) \in Nat BY DEF One
      <4>3. QED BY <3>2, <3>3, <4>1, <4>2
    <3>4. CASE j # i BY <3>2, <3>4, <2>4
    <3>5. QED BY <3>3, <3>4
  <2>6. ASSUME NEW e PROVE Total(e, family) = Total(e, changed) + One(Head(family[i]), e)
    <3>1. /\ Total(e, changed) \in Nat /\ Total(e, family) \in Nat
          /\ Count(e, changed[i]) \in Nat /\ Count(e, family[i]) \in Nat
          /\ Total(e, changed) - Count(e, changed[i]) = Total(e, family) - Count(e, family[i])
      BY <2>2, <2>4, TotalUpdate
    <3>2. Count(e, family[i]) = One(Head(family[i]), e) + Count(e, changed[i]) BY <2>3
    <3>3. One(Head(family[i]), e) \in Nat BY DEF One
    <3>4. QED BY <3>1, <3>2, <3>3
  <2>7. QED BY <2>2, <2>5, <2>6 DEF TailTaken
<1>4. QED BY <1>2, <1>3

-----------------------------------------------------------------------------
(* Type correctness. *)

PcValues == {"begin", "drain", "store", "selecting", "produce", "increase", "push", "release"}

ClauseTypes ==
  /\ refs \in [Clauses -> Int] /\ from \in [Clauses -> Solvers \cup {NoSolver}]
  /\ alive \subseteq Clauses /\ freedAccess \in BOOLEAN

BufferTypes ==
  /\ exports \in Families(Solvers, Clauses)
  /\ units \in Families(Solvers, Clauses) /\ imports \in Families(Solvers, Clauses)
  /\ received \in Families(Solvers, Clauses)
  /\ hand \in [Solvers -> Clauses \cup {NoClause}]

DatabaseTypes ==
  /\ clauses \in Seq(Seq(Clauses)) /\ released \subseteq Clauses
  /\ dbPc \in {"idle", "select"} /\ bucket \in Nat \ {0}
  /\ totalSize \in Int /\ used \in Int
  /\ selected \in Seq(Clauses)

\* The loops stay within the vectors they run over.
LoopTypes ==
  /\ strategy \in {"simple", "horde"} /\ pc \in PcValues
  /\ tmp \in Seq(Clauses)
  /\ fi \in Nat \ {0} /\ ti \in Nat \ {0} /\ k \in Nat \ {0}
  /\ pc # "begin" => fi <= Len(From)
  /\ pc \in {"store", "increase", "push", "release"} => k <= Len(tmp) + 1

TypeInv == ClauseTypes /\ BufferTypes /\ DatabaseTypes /\ LoopTypes

\* What is selected is in tmp, between the rounds tmp is empty, and references
\* are counted for a consumer other than the producer only.
TmpInv ==
  /\ pc = "increase" /\ ~Others => k = 1
  /\ pc = "selecting" => tmp = selected
  /\ pc = "begin" => tmp = <<>>

\* The references to a clause that the sharer has, or will take over: an export
\* buffer, the database, tmp.
Owned(c) == InTmp(c) + Total(c, clauses) + Total(c, exports)

OwnedOnce ==
  \A c \in Clauses :
    /\ Owned(c) <= 1
    /\ c \in released => Owned(c) = 0 /\ from[c] # NoSolver
    /\ from[c] = NoSolver => refs[c] = 0

\* The t-th consumer is still to be given c.
Due(t, c) ==
  \/ Total(c, clauses) + Total(c, exports) > 0
  \/ InTmp(c) > 0 /\ pc \in {"drain", "store", "selecting", "produce"}
  \/ InTmp(c) > 0 /\ pc = "increase" /\ t >= ti
  \/ InTmp(c) > 0 /\ pc = "push" /\ (t > ti \/ (t = ti /\ Pending(c) > 0))

DueIsNew ==
  \A c \in Clauses :
    /\ \A t \in DOMAIN To : Due(t, c) => Got(To[t], c) = 0
    /\ from[c] = NoSolver => \A s \in Solvers : Got(s, c) = 0

IInv == TypeInv /\ TmpInv /\ RefsMatchHolders /\ OwnedOnce /\ NoTouchFreed

LEMMA InitTypeInv == Init => TypeInv /\ TmpInv
<1> SUFFICES ASSUME Init PROVE TypeInv /\ TmpInv OBVIOUS
<1> USE SharerAssumption DEF Init
<1>1. ClauseTypes
  <2>1. refs \in [Clauses -> Int] /\ from \in [Clauses -> Solvers \cup {NoSolver}] OBVIOUS
  <2>2. alive \subseteq Clauses OBVIOUS
  <2>3. freedAccess \in BOOLEAN OBVIOUS
  <2>4. QED BY <2>1, <2>2, <2>3 DEF ClauseTypes
<1>2. BufferTypes BY DEF BufferTypes, Families
<1>3. DatabaseTypes BY DEF DatabaseTypes, DBInit
<1>4. LoopTypes BY DEF LoopTypes, PcValues
<1>5. TmpInv BY DEF TmpInv, Others
<1>6. QED BY <1>1, <1>2, <1>3, <1>4, <1>5 DEF TypeInv

LEMMA TmpElement ==
  ASSUME TypeInv, k <= Len(tmp)
  PROVE  tmp[k] \in Clauses /\ k \in 1 .. Len(tmp) /\ Len(tmp) \in Nat
BY DEF TypeInv, LoopTypes

LEMMA FromTo ==
  ASSUME TypeInv
  PROVE  /\ pc # "begin" => From[fi] \in Solvers
         /\ ti <= Len(To) => To[ti] \in Solvers
         /\ Len(To) \in Nat /\ Len(From) \in Nat
BY SharerAssumption DEF TypeInv, LoopTypes

LEMMA CallbackTypeInv ==
  ASSUME TypeInv, TmpInv, NEW s \in Solvers, Callback(s), UNCHANGED strategy
  PROVE  TypeInv' /\ TmpInv'
<1> USE DEF TypeInv, TmpInv, Others
<1>1. ASSUME NEW c \in Clauses, ExportClause(s, c) PROVE TypeInv' /\ TmpInv'
  <2> USE <1>1 DEF ExportClause, loopVars, dbVars, solverVars
  <2>1. ClauseTypes' BY DEF ClauseTypes
  <2>2. BufferTypes' BY DEF BufferTypes, Families
  <2>3. DatabaseTypes' /\ LoopTypes' BY DEF DatabaseTypes, LoopTypes
  <2>4. QED BY <2>1, <2>2, <2>3
<1>2. ASSUME NEW c \in Clauses, Receive(s, c),
             \/ UNCHANGED imports /\ units' = [units EXCEPT ![s] = Tail(@)] /\ units[s] # <<>>
             \/ UNCHANGED units /\ imports' = [imports EXCEPT ![s] = Tail(@)] /\ imports[s] # <<>>
      PROVE  TypeInv' /\ TmpInv'
  <2> USE <1>2 DEF Receive, Use, loopVars, dbVars
  <2>1. ClauseTypes' BY DEF ClauseTypes
  <2>2. /\ exports' \in Families(Solvers, Clauses) /\ received' \in Families(Solvers, Clauses)
        /\ hand' \in [Solvers -> Clauses \cup {NoClause}]
    BY DEF BufferTypes, Families
  <2>0. \A q \in Seq(Clauses) : q # <<>> => Tail(q) \in Seq(Clauses) BY HeadTailProperties
  <2>3. units' \in Families(Solvers, Clauses)
    <3>1. CASE UNCHANGED units BY <3>1 DEF BufferTypes
    <3>2. CASE units' = [units EXCEPT ![s] = Tail(@)] /\ units[s] # <<>>
      BY <2>0, <3>2 DEF BufferTypes, Families
    <3>3. QED BY <3>1, <3>2
  <2>4. imports' \in Families(Solvers, Clauses)
    <3>1. CASE UNCHANGED imports BY <3>1 DEF BufferTypes
    <3>2. CASE imports' = [imports EXCEPT ![s] = Tail(@)] /\ imports[s] # <<>>
      BY <2>0, <3>2 DEF BufferTypes, Families
    <3>3. QED BY <3>1, <3>2
  <2>5. DatabaseTypes' /\ LoopTypes' BY DEF DatabaseTypes, LoopTypes
  <2>6. QED BY <2>1, <2>2, <2>3, <2>4, <2>5 DEF BufferTypes
<1>3. CASE ImportUnit(s)
  <2>1. Head(units[s]) \in Clauses BY <1>3 DEF ImportUnit, BufferTypes, Families
  <2>2. QED BY <1>2, <1>3, <2>1 DEF ImportUnit
<1>4. CASE ImportClause(s)
  <2>1. Head(imports[s]) \in Clauses BY <1>4 DEF ImportClause, BufferTypes, Families
  <2>2. QED BY <1>2, <1>4, <2>1 DEF ImportClause
<1>5. CASE ReleaseImported(s)
  <2> USE <1>5 DEF ReleaseImported, ReleaseClause, Use, loopVars, dbVars, bufferVars
  <2>1. ClauseTypes' BY DEF ClauseTypes, BufferTypes
  <2>2. BufferTypes' BY DEF BufferTypes, Families
  <2>3. DatabaseTypes' /\ LoopTypes' BY DEF DatabaseTypes, LoopTypes
  <2>4. QED BY <2>1, <2>2, <2>3
<1>6. QED BY <1>1, <1>3, <1>4, <1>5 DEF Callback

\* The vectors of the database stay sequences of clauses.
LEMMA GrownType ==
  ASSUME DatabaseTypes, NEW s \in Nat \ {0}
  PROVE  /\ Grown(s) \in Seq(Seq(Clauses))
         /\ Len(Grown(s)) \in Nat /\ Len(Grown(s)) >= s /\ Len(Grown(s)) >= Len(clauses)
         /\ \A t \in 1 .. Len(clauses) : Grown(s)[t] = clauses[t]
         /\ \A t \in 1 .. Len(Grown(s)) : t > Len(clauses) => Grown(s)[t] = <<>>
<1> DEFINE n == IF Len(clauses) < s THEN s ELSE Len(clauses)
<1>1. clauses \in Seq(Seq(Clauses)) /\ Len(clauses) \in Nat BY DEF DatabaseTypes
<1>2. \A t \in 1 .. Len(clauses) : clauses[t] \in Seq(Clauses) BY <1>1, ElementOfSeq
<1>3. n \in Nat /\ n >= s /\ n >= Len(clauses) BY <1>1
<1>4. Grown(s) = [t \in 1 .. n |-> IF t <= Len(clauses) THEN clauses[t] ELSE <<>>] BY DEF Grown
<1> HIDE DEF n
<1>5. \A t \in 1 .. n : (IF t <= Len(clauses) THEN clauses[t] ELSE <<>>) \in Seq(Clauses)
  BY <1>1, <1>2, <1>3
<1>6. Grown(s) \in [1 .. n -> Seq(Clauses)] BY <1>4, <1>5
<1>7. Grown(s) \in Seq(Seq(Clauses)) /\ Len(Grown(s)) = n BY <1>3, <1>6
<1>8. QED BY <1>1, <1>3, <1>4, <1>7

LEMMA AddClauseType ==
  ASSUME DatabaseTypes, NEW c \in Clauses, AddClause(c)
  PROVE  DatabaseTypes'
<1> USE DEF AddClause
<1>1. Size[c] \in Nat \ {0} BY SizeAssumption
<1>2. Grown(Size[c]) \in Seq(Seq(Clauses)) /\ Size[c] \in 1 .. Len(Grown(Size[c]))
  <2>1. /\ Grown(Size[c]) \in Seq(Seq(Clauses)) /\ Len(Grown(Size[c])) \in Nat
        /\ Len(Grown(Size[c])) >= Size[c]
    BY <1>1, GrownType
  <2>2. QED BY <1>1, <2>1
<1>3. Append(Grown(Size[c])[Size[c]], c) \in Seq(Clauses)
  BY <1>2, ElementOfSeq, AppendProperties
<1>4. [Grown(Size[c]) EXCEPT ![Size[c]] = Append(@, c)] \in Seq(Seq(Clauses))
  BY <1>2, <1>3, ExceptSeq
<1>5. clauses' \in Seq(Seq(Clauses)) /\ released' \subseteq Clauses
  BY <1>2, <1>4 DEF DatabaseTypes
<1>6. QED BY <1>5 DEF DatabaseTypes

\* How many clauses fit is at most how many there are, when not all fit.
LEMMA FitBound ==
  ASSUME NEW room \in Nat, NEW size \in Nat \ {0}, NEW n \in Nat, room < size * n
  PROVE  room \div size \in 0 .. n
<1>1. room \div size \in Nat BY SMT
<1>2. size * (room \div size) <= room BY SMT
<1>3. ASSUME room \div size > n PROVE FALSE
  <2> DEFINE q == room \div size
  <2>1. q \in Nat /\ q > n /\ size * q <= room BY <1>1, <1>2, <1>3
  <2> HIDE DEF q
  <2>2. size * q >= size * n BY <2>1, SMT
  <2>3. QED BY <2>1, <2>2, SMT
<1>4. QED BY <1>1, <1>3

\* In the loop of giveSelection there is a vector of clauses to take from.
LEMMA InLoopVector ==
  ASSUME DatabaseTypes, InLoop
  PROVE  /\ bucket \in 1 .. Len(clauses) /\ clauses[bucket] \in Seq(Clauses)
         /\ left \in Nat /\ Len(clauses[bucket]) \in Nat
<1>1. clauses \in Seq(Seq(Clauses)) /\ bucket \in 1 .. Len(clauses) BY DEF DatabaseTypes, InLoop
<1>2. clauses[bucket] \in Seq(Clauses) BY <1>1, ElementOfSeq
<1>3. left \in Nat BY DEF InLoop, left, DatabaseTypes
<1>4. QED BY <1>1, <1>2, <1>3, LenProperties

\* TakeSome leaves the front of the vector and takes the rest of it.
LEMMA TakeSomeSplit ==
  ASSUME DatabaseTypes, TakeSome
  PROVE  LET kept == Len(clauses[bucket]) - nCls
         IN  /\ kept \in 0 .. Len(clauses[bucket])
             /\ SubSeq(clauses[bucket], 1, kept) \in Seq(Clauses)
             /\ SubSeq(clauses[bucket], kept + 1, Len(clauses[bucket])) \in Seq(Clauses)
             /\ Reverse(SubSeq(clauses[bucket], kept + 1, Len(clauses[bucket]))) \in Seq(Clauses)
             /\ nCls \in Nat
<1> DEFINE n == Len(clauses[bucket])
           kept == n - nCls
<1>1. InLoop /\ left < bucket * n BY DEF TakeSome
<1>2. bucket \in Nat \ {0} /\ left \in Nat /\ n \in Nat /\ clauses[bucket] \in Seq(Clauses)
  BY <1>1, InLoopVector DEF DatabaseTypes
<1> HIDE DEF n
<1>3. nCls \in 0 .. n BY <1>1, <1>2, FitBound DEF nCls
<1>4. kept \in 0 .. n /\ nCls \in Nat BY <1>2, <1>3
<1> HIDE DEF kept
<1>5. /\ SubSeq(clauses[bucket], 1, kept) \in Seq(Clauses)
      /\ SubSeq(clauses[bucket], kept + 1, n) \in Seq(Clauses)
  BY <1>2, <1>4, CountSplit DEF n
<1>6. Reverse(SubSeq(clauses[bucket], kept + 1, n)) \in Seq(Clauses) BY <1>5, CountReverse
<1>7. QED BY <1>4, <1>5, <1>6 DEF n, kept

LEMMA SelectingType ==
  ASSUME DatabaseTypes, Selecting
  PROVE  DatabaseTypes'
<1>1. CASE TakeAll
  <2> USE <1>1 DEF TakeAll
  <2>1. /\ bucket \in 1 .. Len(clauses) /\ clauses[bucket] \in Seq(Clauses)
        /\ Len(clauses[bucket]) \in Nat
    BY InLoopVector
  <2>2. <<>> \in Seq(Clauses) OBVIOUS
  <2>3. clauses' \in Seq(Seq(Clauses)) BY <2>1, <2>2, ExceptSeq DEF DatabaseTypes
  <2>4. selected' \in Seq(Clauses) BY <2>1, ConcatProperties DEF DatabaseTypes
  <2>5. used' \in Int
    <3>1. bucket * Len(clauses[bucket]) \in Int BY <2>1
    <3>2. QED BY <3>1 DEF DatabaseTypes
  <2>6. QED BY <2>3, <2>4, <2>5 DEF DatabaseTypes
<1>2. CASE TakeSome
  <2> DEFINE kept == Len(clauses[bucket]) - nCls
  <2>1. /\ SubSeq(clauses[bucket], 1, kept) \in Seq(Clauses)
        /\ Reverse(SubSeq(clauses[bucket], kept + 1, Len(clauses[bucket]))) \in Seq(Clauses)
        /\ nCls \in Nat
    BY <1>2, TakeSomeSplit
  <2>2. bucket \in 1 .. Len(clauses) BY <1>2, InLoopVector DEF TakeSome
  <2>3. clauses' \in Seq(Seq(Clauses)) BY <1>2, <2>1, <2>2, ExceptSeq DEF DatabaseTypes, TakeSome
  <2>4. selected' \in Seq(Clauses) BY <1>2, <2>1, ConcatProperties DEF DatabaseTypes, TakeSome
  <2>5. used' \in Int
    <3>1. bucket * nCls \in Int BY <2>1 DEF DatabaseTypes
    <3>2. QED BY <1>2, <3>1 DEF DatabaseTypes, TakeSome
  <2>6. QED BY <1>2, <2>3, <2>4, <2>5, SMTT(30) DEF DatabaseTypes, TakeSome
<1>3. CASE EndSelection BY <1>3 DEF EndSelection, DatabaseTypes
<1>4. QED BY <1>1, <1>2, <1>3 DEF Selecting

LEMMA RoundTypeInv ==
  ASSUME TypeInv, TmpInv, Round, UNCHANGED strategy
  PROVE  TypeInv' /\ TmpInv'
<1> USE DEF TypeInv, TmpInv, Goto, clauseVars, bufferVars, solverVars, loopVars
<1>1. CASE BeginRound
  <2> USE <1>1 DEF BeginRound, dbVars
  <2>1. ClauseTypes' /\ BufferTypes' /\ DatabaseTypes'
    BY DEF ClauseTypes, BufferTypes, DatabaseTypes
  <2>2. From # <<>> => Len(From) >= 1 BY SharerAssumption
  <2>3. LoopTypes' BY <2>2 DEF LoopTypes, PcValues
  <2>4. QED BY <2>1, <2>3
<1>2. CASE Drain
  <2> USE <1>2 DEF Drain, dbVars
  <2>1. From[fi] \in Solvers BY FromTo
  <2>2. /\ exports[From[fi]] \in Seq(Clauses) /\ Head(exports[From[fi]]) \in Clauses
        /\ Tail(exports[From[fi]]) \in Seq(Clauses)
    BY <2>1, HeadTailProperties DEF BufferTypes, Families
  <2>3. ClauseTypes' /\ DatabaseTypes' BY DEF ClauseTypes, DatabaseTypes
  <2>4. BufferTypes' BY <2>2 DEF BufferTypes, Families
  <2>5. tmp' \in Seq(Clauses) BY <2>2, AppendProperties DEF LoopTypes
  <2>6. LoopTypes' BY <2>5 DEF LoopTypes
  <2>7. QED BY <2>3, <2>4, <2>6
<1>3. CASE Drained
  <2> USE <1>3 DEF Drained, dbVars
  <2>1. ClauseTypes' /\ BufferTypes' /\ DatabaseTypes'
    BY DEF ClauseTypes, BufferTypes, DatabaseTypes
  <2>2. LoopTypes' BY DEF LoopTypes, PcValues
  <2>3. QED BY <2>1, <2>2
<1>4. CASE Store
  <2> USE <1>4 DEF Store
  <2>1. tmp[k] \in Clauses /\ Len(tmp) \in Nat BY TmpElement
  <2>2. DatabaseTypes' BY <2>1, AddClauseType
  <2>3. ClauseTypes'
    <3>1. CASE ReleaseClause(tmp[k]) BY <2>1, <3>1 DEF ClauseTypes, ReleaseClause, Use
    <3>2. CASE Use(tmp[k]) /\ UNCHANGED <<refs, from, alive>> BY <3>2 DEF ClauseTypes, Use
    <3>3. QED BY <3>1, <3>2
  <2>4. BufferTypes' BY DEF BufferTypes
  <2>5. LoopTypes' BY <2>1 DEF LoopTypes
  <2>6. QED BY <2>2, <2>3, <2>4, <2>5
<1>5. CASE Select
  <2> USE <1>5 DEF Select, BeginSelection
  <2>1. ClauseTypes' /\ BufferTypes' BY DEF ClauseTypes, BufferTypes
  <2>2. DatabaseTypes' BY SharerAssumption DEF DatabaseTypes
  <2>3. LoopTypes' BY DEF LoopTypes, PcValues
  <2>4. QED BY <2>1, <2>2, <2>3
<1>6. CASE SelectTurn
  <2> USE <1>6 DEF SelectTurn
  <2>1. ClauseTypes' /\ BufferTypes' BY DEF ClauseTypes, BufferTypes
  <2>2. DatabaseTypes' BY SelectingType
  <2>3. LoopTypes' BY <2>2 DEF LoopTypes, PcValues, DatabaseTypes
  <2>4. QED BY <2>1, <2>2, <2>3
<1>7. CASE Produce
  <2> USE <1>7 DEF Produce, dbVars
  <2>1. ClauseTypes' /\ BufferTypes' /\ DatabaseTypes'
    BY DEF ClauseTypes, BufferTypes, DatabaseTypes
  <2>2. LoopTypes' BY DEF LoopTypes, PcValues
  <2>3. QED BY <2>1, <2>2
<1>8. CASE Increase
  <2> USE <1>8 DEF Increase, Others, dbVars
  <2>1. k <= Len(tmp) => tmp[k] \in Clauses BY TmpElement
  <2>2. ClauseTypes'
    <3>1. CASE k <= Len(tmp) BY <2>1, <3>1 DEF ClauseTypes, IncreaseClause, Use
    <3>2. CASE ~(k <= Len(tmp)) BY <3>2 DEF ClauseTypes
    <3>3. QED BY <3>1, <3>2
  <2>3. BufferTypes' /\ DatabaseTypes' BY DEF BufferTypes, DatabaseTypes
  <2>4. LoopTypes' BY DEF LoopTypes, PcValues
  <2>5. QED BY <2>2, <2>3, <2>4
<1>9. CASE Push
  <2> USE <1>9 DEF Push, Others, dbVars
  <2>1. tmp[k] \in Clauses /\ To[ti] \in Solvers BY TmpElement, FromTo
  <2>2. ClauseTypes' BY DEF ClauseTypes, Use
  <2>3. units' = units \/ Appended(Clauses, Solvers, units, To[ti], tmp[k], units')
    BY <2>1, FamilyAppend, SharerAssumption DEF BufferTypes
  <2>4. imports' = imports \/ Appended(Clauses, Solvers, imports, To[ti], tmp[k], imports')
    BY <2>1, FamilyAppend, SharerAssumption DEF BufferTypes
  <2>5. BufferTypes' /\ DatabaseTypes' BY <2>3, <2>4 DEF BufferTypes, DatabaseTypes, Appended
  <2>6. LoopTypes' BY DEF LoopTypes
  <2>7. QED BY <2>2, <2>5, <2>6
<1>10. CASE NextConsumer
  <2> USE <1>10 DEF NextConsumer, Others, dbVars
  <2>1. ClauseTypes' /\ BufferTypes' /\ DatabaseTypes'
    BY DEF ClauseTypes, BufferTypes, DatabaseTypes
  <2>2. LoopTypes' BY DEF LoopTypes, PcValues
  <2>3. QED BY <2>1, <2>2
<1>11. CASE NoConsumer
  <2> USE <1>11 DEF NoConsumer, dbVars
  <2>1. ClauseTypes' /\ BufferTypes' /\ DatabaseTypes'
    BY DEF ClauseTypes, BufferTypes, DatabaseTypes
  <2>2. LoopTypes' BY DEF LoopTypes, PcValues
  <2>3. QED BY <2>1, <2>2
<1>12. CASE Release
  <2> USE <1>12 DEF Release, dbVars
  <2>1. tmp[k] \in Clauses BY TmpElement
  <2>2. ClauseTypes' BY <2>1 DEF ClauseTypes, ReleaseClause, Use
  <2>3. BufferTypes' /\ DatabaseTypes' BY DEF BufferTypes, DatabaseTypes
  <2>4. LoopTypes' BY DEF LoopTypes
  <2>5. QED BY <2>2, <2>3, <2>4
<1>13. CASE NextProducer
  <2> USE <1>13 DEF NextProducer, dbVars
  <2>1. ClauseTypes' /\ BufferTypes' /\ DatabaseTypes'
    BY DEF ClauseTypes, BufferTypes, DatabaseTypes
  <2>2. LoopTypes' BY FromTo DEF LoopTypes, PcValues
  <2>3. QED BY <2>1, <2>2
<1>14. QED
  BY <1>1, <1>2, <1>3, <1>4, <1>5, <1>6, <1>7, <1>8, <1>9, <1>10, <1>11, <1>12, <1>13 DEF Round

LEMMA NextTypeInv ==
  ASSUME TypeInv, TmpInv, [Next]_vars
  PROVE  TypeInv' /\ TmpInv'
<1>1. CASE Sharer BY <1>1, RoundTypeInv DEF Sharer
<1>2. CASE \E s \in Solvers : Solver(s) BY <1>2, CallbackTypeInv DEF Solver
<1>3. CASE UNCHANGED vars
  BY <1>3 DEF TypeInv, TmpInv, ClauseTypes, BufferTypes, DatabaseTypes, LoopTypes, vars, Others,
              clauseVars, bufferVars, solverVars, loopVars, dbVars
<1>4. QED BY <1>1, <1>2, <1>3 DEF Next

-----------------------------------------------------------------------------
(* How the steps move the references to a clause. *)

LEMMA HolderTypes ==
  ASSUME TypeInv, NEW c
  PROVE  /\ InTmp(c) \in Nat /\ Pending(c) \in Nat /\ InHand(c) \in Nat
         /\ Total(c, clauses) \in Nat /\ Total(c, exports) \in Nat
         /\ Total(c, units) \in Nat /\ Total(c, imports) \in Nat
         /\ \A s \in Solvers : Got(s, c) \in Nat
<1> USE SharerAssumption DEF TypeInv
<1>1. tmp \in Seq(Clauses) /\ k \in Nat \ {0} /\ Len(tmp) \in Nat BY DEF LoopTypes
<1>2. Count(c, tmp) \in Nat BY <1>1, CountType
<1>3. pc \in {"store", "increase", "push", "release"} =>
        /\ Count(c, SubSeq(tmp, k, Len(tmp))) \in Nat
        /\ Count(c, SubSeq(tmp, 1, k - 1)) \in Nat
  <2>1. SUFFICES ASSUME pc \in {"store", "increase", "push", "release"}
                 PROVE  /\ Count(c, SubSeq(tmp, k, Len(tmp))) \in Nat
                        /\ Count(c, SubSeq(tmp, 1, k - 1)) \in Nat
    OBVIOUS
  <2>2. k - 1 \in 0 .. Len(tmp) BY <1>1, <2>1 DEF LoopTypes
  <2>3. /\ SubSeq(tmp, 1, k - 1) \in Seq(Clauses)
        /\ SubSeq(tmp, (k - 1) + 1, Len(tmp)) \in Seq(Clauses)
    BY <1>1, <2>2, CountSplit
  <2>4. (k - 1) + 1 = k BY <1>1
  <2>5. QED BY <2>3, <2>4, CountType
<1>4. InTmp(c) \in Nat /\ Pending(c) \in Nat BY <1>2, <1>3 DEF InTmp, Pending
<1>5. InHand(c) \in Nat
  <2>1. IsFiniteSet({s \in Solvers : hand[s] = c}) BY FS_Subset
  <2>2. QED BY <2>1, FS_CardinalityType DEF InHand
<1>6. \A S, I, family : IsFiniteSet(I) /\ family \in Families(I, S) =>
        Total(c, family) \in Nat
  <2>1. SUFFICES ASSUME NEW S, NEW I, NEW family \in Families(I, S), IsFiniteSet(I)
                 PROVE  Total(c, family) \in Nat
    OBVIOUS
  <2>2. CASE I = {}
    <3>1. DOMAIN family = {} BY <2>2 DEF Families
    <3>2. QED BY <3>1, TotalEmpty
  <2>3. CASE I # {} BY <2>1, <2>3, TotalSplit
  <2>4. QED BY <2>2, <2>3
<1>7. /\ Total(c, exports) \in Nat /\ Total(c, units) \in Nat /\ Total(c, imports) \in Nat
  BY <1>6 DEF BufferTypes
<1>8. Total(c, clauses) \in Nat
  <2>1. clauses \in Families(1 .. Len(clauses), Clauses) /\ Len(clauses) \in Nat
    BY DEF DatabaseTypes, Families
  <2>2. IsFiniteSet(1 .. Len(clauses)) BY ONLY <2>1, FS_Interval
  <2>3. QED BY <1>6, <2>1, <2>2
<1>9. ASSUME NEW s \in Solvers PROVE Got(s, c) \in Nat
  <2>1. /\ received[s] \in Seq(Clauses) /\ units[s] \in Seq(Clauses)
        /\ imports[s] \in Seq(Clauses)
    BY DEF BufferTypes, Families
  <2>2. /\ Count(c, received[s]) \in Nat /\ Count(c, units[s]) \in Nat
        /\ Count(c, imports[s]) \in Nat
    BY <2>1, CountType
  <2>3. QED BY <2>2 DEF Got
<1>10. QED BY <1>4, <1>5, <1>7, <1>8, <1>9

\* By how much a step changes each group of the holders of c.
Moves(c, inTmp, pending, inHand, inDatabase, exported, unit, imported) ==
  /\ InTmp(c)' = InTmp(c) + inTmp
  /\ Pending(c)' = Pending(c) + pending
  /\ InHand(c)' = InHand(c) + inHand
  /\ Total(c, clauses)' = Total(c, clauses) + inDatabase
  /\ Total(c, exports)' = Total(c, exports) + exported
  /\ Total(c, units)' = Total(c, units) + unit
  /\ Total(c, imports)' = Total(c, imports) + imported

\* A solver takes a clause into its hand, or lets go of the one it has.
LEMMA HandMoves ==
  ASSUME TypeInv, NEW s \in Solvers, NEW x \in Clauses, NEW c \in Clauses
  PROVE  /\ hand[s] = NoClause /\ hand' = [hand EXCEPT ![s] = x]
              => InHand(c)' = InHand(c) + One(x, c)
         /\ hand[s] = x /\ hand' = [hand EXCEPT ![s] = NoClause]
              => InHand(c)' = InHand(c) - One(x, c)
<1> DEFINE before == {t \in Solvers : hand[t] = c}
           after == {t \in Solvers : hand'[t] = c}
<1> USE SharerAssumption DEF TypeInv
<1>1. IsFiniteSet(before) /\ Cardinality(before) \in Nat
  BY FS_Subset, FS_CardinalityType
<1>2. ASSUME hand[s] = NoClause, hand' = [hand EXCEPT ![s] = x]
      PROVE  InHand(c)' = InHand(c) + One(x, c)
  <2>1. s \notin before BY <1>2
  <2>2. x = c => after = before \cup {s} BY <1>2 DEF BufferTypes
  <2>3. x # c => after = before BY <1>2 DEF BufferTypes
  <2> HIDE DEF before, after
  <2>4. Cardinality(before \cup {s}) = Cardinality(before) + 1 BY <1>1, <2>1, FS_AddElement
  <2>5. Cardinality(after) = Cardinality(before) + One(x, c)
    <3>1. CASE x = c BY <1>1, <2>2, <2>4, <3>1 DEF One
    <3>2. CASE x # c BY <1>1, <2>3, <3>2 DEF One
    <3>3. QED BY <3>1, <3>2
  <2>6. QED BY <2>5 DEF InHand, before, after
<1>3. ASSUME hand[s] = x, hand' = [hand EXCEPT ![s] = NoClause]
      PROVE  InHand(c)' = InHand(c) - One(x, c)
  <2>1. x = c => s \in before BY <1>3
  <2>2. x = c => after = before \ {s} BY <1>3 DEF BufferTypes
  <2>3. x # c => after = before BY <1>3 DEF BufferTypes
  <2> HIDE DEF before, after
  <2>4. x = c => Cardinality(before \ {s}) = Cardinality(before) - 1
    BY <1>1, <2>1, FS_RemoveElement
  <2>5. Cardinality(after) = Cardinality(before) - One(x, c)
    <3>1. CASE x = c BY <1>1, <2>2, <2>4, <3>1 DEF One
    <3>2. CASE x # c BY <1>1, <2>3, <3>2 DEF One
    <3>3. QED BY <3>1, <3>2
  <2>6. QED BY <2>5 DEF InHand, before, after
<1>4. QED BY <1>2, <1>3

\* The groups of holders that a callback leaves alone.
LEMMA SharerStill ==
  ASSUME TypeInv, NEW c \in Clauses
  PROVE  /\ UNCHANGED <<pc, k, tmp>> => InTmp(c)' = InTmp(c) + 0 /\ Pending(c)' = Pending(c) + 0
         /\ UNCHANGED hand => InHand(c)' = InHand(c) + 0
         /\ UNCHANGED clauses => Total(c, clauses)' = Total(c, clauses) + 0
         /\ UNCHANGED exports => Total(c, exports)' = Total(c, exports) + 0
         /\ UNCHANGED units => Total(c, units)' = Total(c, units) + 0
         /\ UNCHANGED imports => Total(c, imports)' = Total(c, imports) + 0
<1>1. /\ InTmp(c) \in Nat /\ Pending(c) \in Nat /\ InHand(c) \in Nat
      /\ Total(c, clauses) \in Nat /\ Total(c, exports) \in Nat
      /\ Total(c, units) \in Nat /\ Total(c, imports) \in Nat
  BY HolderTypes
<1>2. UNCHANGED <<pc, k, tmp>> => InTmp(c)' = InTmp(c) /\ Pending(c)' = Pending(c)
  BY DEF InTmp, Pending
<1>3. UNCHANGED hand => InHand(c)' = InHand(c) BY DEF InHand
<1>4. QED BY <1>1, <1>2, <1>3

LEMMA ExportMoves ==
  ASSUME TypeInv, NEW s \in Solvers, NEW x \in Clauses, ExportClause(s, x), NEW c \in Clauses
  PROVE  Moves(c, 0, 0, 0, 0, One(x, c), 0, 0)
<1> USE DEF ExportClause, loopVars, dbVars, solverVars
<1>1. Appended(Clauses, Solvers, exports, s, x, exports')
  BY FamilyAppend, SharerAssumption DEF TypeInv, BufferTypes
<1>2. Total(c, exports') = Total(c, exports) + One(x, c) BY <1>1 DEF Appended
<1>3. QED BY <1>2, SharerStill DEF Moves

LEMMA ReceiveMoves ==
  ASSUME TypeInv, NEW s \in Solvers, NEW x \in Clauses, NEW c \in Clauses
  PROVE  /\ ImportUnit(s) /\ x = Head(units[s]) => Moves(c, 0, 0, One(x, c), 0, 0, -One(x, c), 0)
         /\ ImportClause(s) /\ x = Head(imports[s])
              => Moves(c, 0, 0, One(x, c), 0, 0, 0, -One(x, c))
<1>1. One(x, c) \in Nat BY DEF One
<1>2. Receive(s, x) => InHand(c)' = InHand(c) + One(x, c)
  <2>1. hand[s] = NoClause /\ hand' = [hand EXCEPT ![s] = x]
          => InHand(c)' = InHand(c) + One(x, c)
    BY HandMoves
  <2>2. QED BY <2>1 DEF Receive
<1>3. Total(c, units) \in Nat /\ Total(c, imports) \in Nat BY HolderTypes
<1>4. ASSUME ImportUnit(s), x = Head(units[s])
      PROVE  Moves(c, 0, 0, One(x, c), 0, 0, -One(x, c), 0)
  <2>1. TailTaken(Clauses, Solvers, units, s, units')
    BY <1>4, FamilyTail, SharerAssumption DEF TypeInv, BufferTypes, ImportUnit
  <2>2. Total(c, units) = Total(c, units') + One(x, c) /\ units' \in Families(Solvers, Clauses)
    BY <1>4, <2>1 DEF TailTaken
  <2>3. Total(c, units') \in Nat BY <2>2, TotalSplit, SharerAssumption
  <2>4. Total(c, units') = Total(c, units) + -One(x, c) BY <1>1, <1>3, <2>2, <2>3
  <2>5. QED BY <1>2, <1>4, <2>4, SharerStill DEF Moves, ImportUnit, Receive, loopVars, dbVars
<1>5. ASSUME ImportClause(s), x = Head(imports[s])
      PROVE  Moves(c, 0, 0, One(x, c), 0, 0, 0, -One(x, c))
  <2>1. TailTaken(Clauses, Solvers, imports, s, imports')
    BY <1>5, FamilyTail, SharerAssumption DEF TypeInv, BufferTypes, ImportClause
  <2>2. Total(c, imports) = Total(c, imports') + One(x, c) /\ imports' \in Families(Solvers, Clauses)
    BY <1>5, <2>1 DEF TailTaken
  <2>3. Total(c, imports') \in Nat BY <2>2, TotalSplit, SharerAssumption
  <2>4. Total(c, imports') = Total(c, imports) + -One(x, c) BY <1>1, <1>3, <2>2, <2>3
  <2>5. QED BY <1>2, <1>5, <2>4, SharerStill DEF Moves, ImportClause, Receive, loopVars, dbVars
<1>6. QED BY <1>4, <1>5

LEMMA ReleaseImportedMoves ==
  ASSUME TypeInv, NEW s \in Solvers, ReleaseImported(s), NEW c \in Clauses
  PROVE  hand[s] \in Clauses /\ Moves(c, 0, 0, -One(hand[s], c), 0, 0, 0, 0)
<1> USE DEF ReleaseImported, loopVars, dbVars, bufferVars
<1>1. hand[s] \in Clauses BY DEF TypeInv, BufferTypes
<1>2. InHand(c) \in Nat /\ One(hand[s], c) \in Nat BY HolderTypes DEF One
<1>3. InHand(c)' = InHand(c) - One(hand[s], c)
  <2>1. PICK x \in Clauses : x = hand[s] BY <1>1
  <2>2. hand[s] = x /\ hand' = [hand EXCEPT ![s] = NoClause]
          => InHand(c)' = InHand(c) - One(x, c)
    BY HandMoves
  <2>3. QED BY <2>1, <2>2
<1>4. InHand(c)' = InHand(c) + -One(hand[s], c) BY <1>2, <1>3
<1>5. QED BY <1>1, <1>4, SharerStill DEF Moves

\* What is in tmp from place k on, before it and in all of it.
LEMMA TmpParts ==
  ASSUME TypeInv, NEW c \in Clauses, k <= Len(tmp) + 1
  PROVE  /\ Count(c, tmp) \in Nat
         /\ Count(c, SubSeq(tmp, 1, k - 1)) \in Nat /\ Count(c, SubSeq(tmp, k, Len(tmp))) \in Nat
         /\ Count(c, tmp) = Count(c, SubSeq(tmp, 1, k - 1)) + Count(c, SubSeq(tmp, k, Len(tmp)))
         /\ Count(c, SubSeq(tmp, 1, Len(tmp))) = Count(c, tmp)
         /\ Count(c, SubSeq(tmp, 1, 0)) = 0
         /\ k > Len(tmp) => Count(c, SubSeq(tmp, k, Len(tmp))) = 0
         /\ k <= Len(tmp) =>
              /\ Count(c, SubSeq(tmp, 1, (k + 1) - 1)) = Count(c, SubSeq(tmp, 1, k - 1)) + One(tmp[k], c)
              /\ Count(c, SubSeq(tmp, k, Len(tmp)))
                   = One(tmp[k], c) + Count(c, SubSeq(tmp, k + 1, Len(tmp)))
              /\ Count(c, SubSeq(tmp, k + 1, Len(tmp))) \in Nat
<1>1. tmp \in Seq(Clauses) /\ k \in Nat \ {0} /\ Len(tmp) \in Nat BY DEF TypeInv, LoopTypes
<1>2. k - 1 \in 0 .. Len(tmp) /\ (k - 1) + 1 = k /\ (k + 1) - 1 = k BY <1>1
<1>3. /\ SubSeq(tmp, 1, k - 1) \in Seq(Clauses) /\ SubSeq(tmp, (k - 1) + 1, Len(tmp)) \in Seq(Clauses)
      /\ Count(c, tmp) = Count(c, SubSeq(tmp, 1, k - 1)) + Count(c, SubSeq(tmp, (k - 1) + 1, Len(tmp)))
  BY <1>1, <1>2, CountSplit
<1>4. /\ Count(c, tmp) \in Nat
      /\ Count(c, SubSeq(tmp, 1, k - 1)) \in Nat /\ Count(c, SubSeq(tmp, k, Len(tmp))) \in Nat
  BY <1>1, <1>2, <1>3, CountType
<1>5. SubSeq(tmp, 1, Len(tmp)) = tmp BY <1>1, SubSeqFull
<1>6. SubSeq(tmp, 1, 0) = <<>> /\ (k > Len(tmp) => SubSeq(tmp, k, Len(tmp)) = <<>>)
  BY <1>1, SubSeqEmpty
<1>7. ASSUME k <= Len(tmp)
      PROVE  /\ Count(c, SubSeq(tmp, 1, k)) = Count(c, SubSeq(tmp, 1, k - 1)) + One(tmp[k], c)
             /\ Count(c, SubSeq(tmp, k, Len(tmp)))
                  = One(tmp[k], c) + Count(c, SubSeq(tmp, k + 1, Len(tmp)))
             /\ SubSeq(tmp, k + 1, Len(tmp)) \in Seq(Clauses)
  <2>1. k \in 1 .. Len(tmp) /\ k \in 0 .. Len(tmp) BY <1>1, <1>7
  <2>2. SubSeq(tmp, k + 1, Len(tmp)) \in Seq(Clauses) BY <1>1, <2>1, CountSplit
  <2>3. QED BY <1>1, <2>1, <2>2, CountPrefix, CountSuffix
<1>8. QED BY <1>2, <1>3, <1>4, <1>5, <1>6, <1>7, CountEmpty, CountType

LEMMA DrainMoves ==
  ASSUME TypeInv, Drain, NEW c \in Clauses
  PROVE  \E x \in Clauses : Moves(c, One(x, c), 0, 0, 0, -One(x, c), 0, 0)
<1> USE DEF Drain, loopVars, dbVars, solverVars
<1> DEFINE p == From[fi]
           x == Head(exports[p])
<1>1. p \in Solvers BY FromTo
<1>2. exports \in Families(Solvers, Clauses) BY DEF TypeInv, BufferTypes
<1>3. x \in Clauses /\ TailTaken(Clauses, Solvers, exports, p, exports')
  BY <1>1, <1>2, FamilyTail, SharerAssumption
<1>4. Total(c, exports) = Total(c, exports') + One(x, c) /\ exports' \in Families(Solvers, Clauses)
  BY <1>3 DEF TailTaken
<1>5. Total(c, exports') \in Nat BY <1>1, <1>4, TotalSplit, SharerAssumption
<1>6. One(x, c) \in Nat BY DEF One
<1>7. Total(c, exports)' = Total(c, exports) + -One(x, c) BY <1>4, <1>5, <1>6
<1>8. InTmp(c)' = InTmp(c) + One(x, c)
  <2>1. tmp \in Seq(Clauses) BY DEF TypeInv, LoopTypes
  <2>2. Count(c, tmp') = Count(c, tmp) + One(x, c) BY <1>3, <2>1, CountAppend
  <2>3. QED BY <2>2 DEF InTmp
<1>9. Pending(c)' = Pending(c) + 0 BY DEF Pending
<1> HIDE DEF x
<1>10. QED BY <1>3, <1>7, <1>8, <1>9, SharerStill DEF Moves

\* The steps of the loops that touch no reference.
LEMMA ControlMoves ==
  ASSUME TypeInv, TmpInv, NEW c \in Clauses,
         BeginRound \/ Drained \/ Produce \/ NextConsumer \/ NoConsumer \/ NextProducer
  PROVE  Moves(c, 0, 0, 0, 0, 0, 0, 0) /\ UNCHANGED clauseVars /\ UNCHANGED <<bufferVars, solverVars, dbVars>>
<1> USE DEF Goto, loopVars, solverVars, bufferVars
<1>1. InTmp(c) \in Nat /\ Pending(c) \in Nat BY HolderTypes
<1>2. tmp \in Seq(Clauses) /\ k \in Nat \ {0} /\ Len(tmp) \in Nat BY DEF TypeInv, LoopTypes
<1>3. Count(c, <<>>) = 0 BY CountEmpty
<1>4. UNCHANGED clauseVars /\ UNCHANGED <<bufferVars, solverVars, dbVars>>
  BY DEF BeginRound, Drained, Produce, NextConsumer, NoConsumer, NextProducer
<1>5. InTmp(c)' = InTmp(c) + 0 /\ Pending(c)' = Pending(c) + 0
  <2>1. CASE BeginRound
    <3>1. pc' \in {"begin", "drain"} /\ tmp = <<>> /\ tmp' = <<>> /\ pc = "begin"
      BY <2>1 DEF BeginRound, TmpInv
    <3>2. QED BY <1>3, <3>1 DEF InTmp, Pending
  <2>2. CASE Drained
    <3>1. /\ Count(c, SubSeq(tmp, 1, Len(tmp))) = Count(c, tmp) /\ Count(c, SubSeq(tmp, 1, 0)) = 0
          /\ Count(c, tmp) \in Nat
      <4>1. SubSeq(tmp, 1, Len(tmp)) = tmp /\ SubSeq(tmp, 1, 0) = <<>>
        BY <1>2, SubSeqFull, SubSeqEmpty
      <4>2. QED BY <1>2, <1>3, <4>1, CountType
    <3>2. pc = "drain" /\ pc' \in {"store", "increase"} /\ k' = 1 /\ tmp' = tmp /\ k' - 1 = 0
      BY <2>2 DEF Drained
    <3>3. QED BY <3>1, <3>2 DEF InTmp, Pending
  <2>3. CASE Produce
    <3>1. SubSeq(tmp, 1, 0) = <<>> BY <1>2, SubSeqEmpty
    <3>2. pc = "produce" /\ pc' = "increase" /\ k' = 1 /\ tmp' = tmp /\ k' - 1 = 0
      BY <2>3 DEF Produce
    <3>3. InTmp(c)' = InTmp(c) BY <3>2 DEF InTmp
    <3>4. Pending(c)' = 0 /\ Pending(c) = 0 BY <1>3, <3>1, <3>2 DEF Pending
    <3>5. QED BY <1>1, <3>3, <3>4
  <2>4. CASE NextConsumer
    <3>1. /\ (pc = "push" /\ k > Len(tmp)) \/ (pc = "increase" /\ k = 1)
          /\ pc' = "increase" /\ k' = 1 /\ tmp' = tmp /\ k' - 1 = 0
      BY <2>4 DEF NextConsumer, TmpInv, Others
    <3>2. SubSeq(tmp, 1, 0) = <<>> /\ (k > Len(tmp) => SubSeq(tmp, k, Len(tmp)) = <<>>)
      BY <1>2, SubSeqEmpty
    <3>3. InTmp(c)' = Count(c, tmp) /\ InTmp(c) = Count(c, tmp) /\ Pending(c)' = 0
      BY <1>3, <3>1, <3>2 DEF InTmp, Pending
    <3>4. Pending(c) = 0
      <4>1. CASE pc = "push" /\ k > Len(tmp) BY <1>3, <4>1, <3>2 DEF Pending
      <4>2. CASE pc = "increase" /\ k = 1
        <5>1. k - 1 = 0 BY <4>2
        <5>2. QED BY <1>3, <4>2, <5>1, <3>2 DEF Pending
      <4>3. QED BY <3>1, <4>1, <4>2
    <3>5. QED BY <1>1, <3>3, <3>4
  <2>5. CASE NoConsumer
    <3>1. pc = "increase" /\ pc' = "release" /\ k' = 1 /\ tmp' = tmp /\ k - 1 = 0
      BY <2>5, <1>2 DEF NoConsumer, TmpInv, Others, TypeInv, LoopTypes
    <3>2. SubSeq(tmp, 1, 0) = <<>> /\ SubSeq(tmp, 1, Len(tmp)) = tmp BY <1>2, SubSeqEmpty, SubSeqFull
    <3>3. InTmp(c)' = InTmp(c) BY <3>1, <3>2 DEF InTmp
    <3>4. Pending(c)' = 0 /\ Pending(c) = 0 BY <1>3, <3>1, <3>2 DEF Pending
    <3>5. QED BY <1>1, <3>3, <3>4
  <2>6. CASE NextProducer
    <3>1. pc = "release" /\ k > Len(tmp) /\ tmp' = <<>> /\ pc' \in {"drain", "begin"}
      BY <2>6 DEF NextProducer
    <3>2. SubSeq(tmp, k, Len(tmp)) = <<>> BY <1>2, <3>1, SubSeqEmpty
    <3>3. QED BY <1>3, <3>1, <3>2 DEF InTmp, Pending
  <2>7. QED BY <2>1, <2>2, <2>3, <2>4, <2>5, <2>6
<1>6. QED BY <1>4, <1>5, SharerStill DEF Moves, dbVars

\* addClause puts the clause into the database or drops it.
LEMMA AddClauseMoves ==
  ASSUME DatabaseTypes, NEW x \in Clauses, x \notin released, AddClause(x), NEW c \in Clauses
  PROVE  \/ /\ released' = released
            /\ Total(c, clauses)' = Total(c, clauses) + One(x, c)
         \/ /\ released' = released \cup {x} /\ released' # released
            /\ Total(c, clauses)' = Total(c, clauses) + 0
<1> DEFINE size == Size[x]
           grown == Grown(size)
           n == Len(grown)
<1>1. size \in Nat \ {0} BY SizeAssumption
<1>2. /\ grown \in Seq(Seq(Clauses)) /\ n \in Nat /\ n >= size /\ n >= Len(clauses)
      /\ \A t \in 1 .. Len(clauses) : grown[t] = clauses[t]
      /\ \A t \in 1 .. n : t > Len(clauses) => grown[t] = <<>>
  BY <1>1, GrownType
<1>3. DOMAIN clauses = 1 .. Len(clauses) /\ DOMAIN grown = 1 .. n /\ Len(clauses) \in Nat
  BY <1>2, LenProperties DEF DatabaseTypes
<1>4. Total(c, grown) = Total(c, clauses)
  <2>1. DOMAIN clauses \subseteq DOMAIN grown BY <1>2, <1>3
  <2>2. \A i \in DOMAIN clauses : grown[i] = clauses[i] BY <1>2, <1>3
  <2>3. \A i \in DOMAIN grown \ DOMAIN clauses : grown[i] = <<>> BY <1>2, <1>3
  <2> HIDE DEF grown
  <2>4. QED BY <2>1, <2>2, <2>3, TotalGrown
<1>5. grown \in Families(1 .. n, Clauses) BY <1>2, <1>3 DEF Families
<1>6. size \in 1 .. n /\ IsFiniteSet(1 .. n)
  <2>1. size \in 1 .. n BY <1>1, <1>2
  <2>2. IsFiniteSet(1 .. n) BY <1>2, FS_Interval
  <2>3. QED BY <2>1, <2>2
<1>7. \/ clauses' = [grown EXCEPT ![size] = Append(@, x)] /\ released' = released
      \/ clauses' = grown /\ released' = released \cup {x}
  BY DEF AddClause
<1> HIDE DEF grown, n, size
<1>8. Total(c, grown) \in Nat BY <1>5, <1>6, TotalSplit
<1>9. CASE clauses' = [grown EXCEPT ![size] = Append(@, x)] /\ released' = released
  <2>1. Appended(Clauses, 1 .. n, grown, size, x, clauses') BY <1>5, <1>6, <1>9, FamilyAppend
  <2>2. Total(c, clauses') = Total(c, grown) + One(x, c) BY <2>1 DEF Appended
  <2>3. QED BY <1>4, <1>9, <2>2
<1>10. CASE clauses' = grown /\ released' = released \cup {x}
  <2>1. Total(c, clauses') = Total(c, clauses) + 0 BY <1>4, <1>8, <1>10
  <2>2. QED BY <1>10, <2>1
<1>11. QED BY <1>7, <1>9, <1>10

LEMMA StoreMoves ==
  ASSUME TypeInv, Store, tmp[k] \notin released, NEW c \in Clauses
  PROVE  LET x == tmp[k]
         IN  \/ /\ released' = released
                /\ Moves(c, -One(x, c), 0, 0, One(x, c), 0, 0, 0)
             \/ /\ released' = released \cup {x} /\ released' # released
                /\ Moves(c, -One(x, c), 0, 0, 0, 0, 0, 0)
<1> USE DEF Store, loopVars, bufferVars, solverVars
<1> DEFINE x == tmp[k]
<1>1. x \in Clauses /\ k \in 1 .. Len(tmp) /\ Len(tmp) \in Nat BY TmpElement
<1>2. InTmp(c)' = InTmp(c) + -One(x, c)
  <2>1. /\ Count(c, SubSeq(tmp, k, Len(tmp))) = One(x, c) + Count(c, SubSeq(tmp, k + 1, Len(tmp)))
        /\ Count(c, SubSeq(tmp, k + 1, Len(tmp))) \in Nat
    BY <1>1, TmpParts
  <2>2. InTmp(c) = Count(c, SubSeq(tmp, k, Len(tmp))) BY DEF InTmp
  <2>3. InTmp(c)' = Count(c, SubSeq(tmp, k + 1, Len(tmp))) BY DEF InTmp
  <2>4. One(x, c) \in Nat BY DEF One
  <2>5. QED BY <2>1, <2>2, <2>3, <2>4
<1>3. Pending(c)' = Pending(c) + 0 BY DEF Pending
<1>4. AddClause(x) /\ DatabaseTypes BY DEF TypeInv
<1> HIDE DEF x
<1>5. \/ /\ released' = released
         /\ Total(c, clauses)' = Total(c, clauses) + One(x, c)
      \/ /\ released' = released \cup {x} /\ released' # released
         /\ Total(c, clauses)' = Total(c, clauses) + 0
  BY <1>1, <1>4, AddClauseMoves DEF x
<1>6. /\ InHand(c)' = InHand(c) + 0 /\ Total(c, exports)' = Total(c, exports) + 0
      /\ Total(c, units)' = Total(c, units) + 0 /\ Total(c, imports)' = Total(c, imports) + 0
  BY SharerStill
<1>7. \/ /\ released' = released
         /\ Moves(c, -One(x, c), 0, 0, One(x, c), 0, 0, 0)
      \/ /\ released' = released \cup {x} /\ released' # released
         /\ Moves(c, -One(x, c), 0, 0, 0, 0, 0, 0)
  BY <1>2, <1>3, <1>5, <1>6 DEF Moves
<1>8. QED BY <1>7 DEF x

LEMMA SelectMoves ==
  ASSUME TypeInv, Select, NEW c \in Clauses
  PROVE  Moves(c, 0, 0, 0, 0, 0, 0, 0)
<1> USE DEF Select, Goto, BeginSelection, bufferVars, solverVars
<1>1. tmp \in Seq(Clauses) /\ k \in Nat \ {0} /\ Len(tmp) \in Nat BY DEF TypeInv, LoopTypes
<1>2. SubSeq(tmp, k, Len(tmp)) = <<>> BY <1>1, SubSeqEmpty
<1>3. Count(c, <<>>) = 0 BY CountEmpty
<1>4. InTmp(c)' = InTmp(c) + 0 BY <1>2, <1>3 DEF InTmp
<1>5. Pending(c)' = Pending(c) + 0 BY DEF Pending
<1>6. QED BY <1>4, <1>5, SharerStill DEF Moves

\* giveSelection moves clauses from the database to the selection.
LEMMA SelectingMoves ==
  ASSUME DatabaseTypes, Selecting, NEW c \in Clauses
  PROVE  \E n \in Nat : /\ Count(c, selected') = Count(c, selected) + n
                        /\ Total(c, clauses)' = Total(c, clauses) + -n
                        /\ n <= Total(c, clauses)
<1>1. clauses \in Families(1 .. Len(clauses), Clauses) /\ Len(clauses) \in Nat
  BY DEF DatabaseTypes, Families
<1>2. IsFiniteSet(1 .. Len(clauses)) BY ONLY <1>1, FS_Interval
<1>3. selected \in Seq(Clauses) BY DEF DatabaseTypes
<1>4. Count(c, selected) \in Nat BY <1>3, CountType
<1>5. ASSUME InLoop, NEW kept \in Seq(Clauses), NEW taken \in Seq(Clauses),
             Count(c, clauses[bucket]) = Count(c, kept) + Count(c, taken),
             clauses' = [clauses EXCEPT ![bucket] = kept],
             selected' = selected \o taken
      PROVE  \E n \in Nat : /\ Count(c, selected') = Count(c, selected) + n
                            /\ Total(c, clauses)' = Total(c, clauses) + -n
                            /\ n <= Total(c, clauses)
  <2>1. bucket \in 1 .. Len(clauses) BY <1>5, InLoopVector
  <2>2. clauses' \in Families(1 .. Len(clauses), Clauses) BY <1>1, <1>5, <2>1 DEF Families
  <2>3. clauses'[bucket] = kept /\ \A j \in 1 .. Len(clauses) \ {bucket} : clauses'[j] = clauses[j]
    BY <1>1, <1>5, <2>1 DEF Families
  <2> DEFINE I == 1 .. Len(clauses)
             changed == clauses'
  <2>4. /\ changed \in Families(I, Clauses) /\ clauses \in Families(I, Clauses)
        /\ IsFiniteSet(I) /\ bucket \in I /\ \A j \in I \ {bucket} : changed[j] = clauses[j]
        /\ changed[bucket] = kept
    BY <1>1, <1>2, <2>1, <2>2, <2>3
  <2> HIDE DEF I, changed
  <2>5. /\ Total(c, changed) \in Nat /\ Total(c, clauses) \in Nat
        /\ Total(c, changed) - Count(c, changed[bucket])
             = Total(c, clauses) - Count(c, clauses[bucket])
    BY <2>4, TotalUpdate
  <2>6. Count(c, taken) \in Nat /\ Count(c, kept) \in Nat BY <1>5, CountType
  <2>7. Count(c, selected') = Count(c, selected) + Count(c, taken) BY <1>3, <1>5, CountConcat
  <2>8. Count(c, clauses[bucket]) = Count(c, kept) + Count(c, taken) BY <1>5
  <2>9. Total(c, changed) = Total(c, clauses) + -Count(c, taken) /\ Count(c, taken) <= Total(c, clauses)
    BY <2>4, <2>5, <2>6, <2>8
  <2>10. QED BY <2>6, <2>7, <2>9 DEF changed
<1>6. CASE TakeAll
  <2>1. InLoop /\ clauses[bucket] \in Seq(Clauses) BY <1>6, InLoopVector DEF TakeAll
  <2>2. <<>> \in Seq(Clauses) /\ Count(c, <<>>) = 0 /\ Count(c, clauses[bucket]) \in Nat
    BY <2>1, CountEmpty, CountType
  <2>3. Count(c, clauses[bucket]) = Count(c, <<>>) + Count(c, clauses[bucket]) BY <2>2
  <2>4. QED BY <1>5, <1>6, <2>1, <2>2, <2>3 DEF TakeAll
<1>7. CASE TakeSome
  <2> DEFINE q == clauses[bucket]
             kept == Len(q) - nCls
             last == SubSeq(q, kept + 1, Len(q))
  <2>1. InLoop /\ q \in Seq(Clauses) BY <1>7, InLoopVector DEF TakeSome
  <2>2. /\ kept \in 0 .. Len(q) /\ SubSeq(q, 1, kept) \in Seq(Clauses)
        /\ last \in Seq(Clauses) /\ Reverse(last) \in Seq(Clauses)
    BY <1>7, TakeSomeSplit
  <2>3. /\ clauses' = [clauses EXCEPT ![bucket] = SubSeq(q, 1, kept)]
        /\ selected' = selected \o Reverse(last)
    BY <1>7 DEF TakeSome
  <2> HIDE DEF q, kept
  <2>4. Count(c, q) = Count(c, SubSeq(q, 1, kept)) + Count(c, last) BY <2>1, <2>2, CountSplit
  <2> HIDE DEF last
  <2>5. Count(c, Reverse(last)) = Count(c, last) BY <2>2, CountReverse
  <2>6. QED BY <1>5, <2>1, <2>2, <2>3, <2>4, <2>5 DEF q
<1>8. CASE EndSelection
  <2>1. Total(c, clauses) \in Nat
    <3>1. CASE Len(clauses) = 0
      <4>1. DOMAIN clauses = {} BY <1>1, <3>1 DEF Families
      <4>2. QED BY <4>1, TotalEmpty
    <3>2. CASE Len(clauses) # 0
      <4>1. 1 \in 1 .. Len(clauses) BY <1>1, <3>2
      <4>2. QED BY <1>1, <1>2, <4>1, TotalSplit
    <3>3. QED BY <3>1, <3>2
  <2>2. Count(c, selected') = Count(c, selected) + 0 /\ Total(c, clauses)' = Total(c, clauses) + -0
    BY <1>4, <1>8, <2>1 DEF EndSelection
  <2>3. 0 <= Total(c, clauses) BY <2>1
  <2>4. QED BY <2>2, <2>3
<1>9. QED BY <1>6, <1>7, <1>8 DEF Selecting

LEMMA SelectTurnMoves ==
  ASSUME TypeInv, TmpInv, SelectTurn, NEW c \in Clauses
  PROVE  \E n \in Nat : Moves(c, n, 0, 0, -n, 0, 0, 0) /\ n <= Total(c, clauses)
<1> USE DEF SelectTurn, clauseVars, bufferVars, solverVars, loopVars
<1>1. PICK n \in Nat : /\ Count(c, selected') = Count(c, selected) + n
                       /\ Total(c, clauses)' = Total(c, clauses) + -n
                       /\ n <= Total(c, clauses)
  BY SelectingMoves DEF TypeInv
<1>2. tmp = selected /\ tmp' = selected' BY DEF TmpInv
<1>3. InTmp(c)' = InTmp(c) + n BY <1>1, <1>2 DEF InTmp
<1>4. Pending(c)' = Pending(c) + 0 BY DEF Pending
<1>5. Moves(c, n, 0, 0, -n, 0, 0, 0) BY <1>1, <1>3, <1>4, SharerStill DEF Moves
<1>6. QED BY <1>1, <1>5

LEMMA IncreaseMoves ==
  ASSUME TypeInv, Increase, NEW c \in Clauses
  PROVE  /\ k <= Len(tmp) => Moves(c, 0, One(tmp[k], c), 0, 0, 0, 0, 0)
         /\ ~(k <= Len(tmp)) => Moves(c, 0, 0, 0, 0, 0, 0, 0)
<1> USE DEF Increase, bufferVars, solverVars, dbVars
<1>1. tmp \in Seq(Clauses) /\ k \in Nat \ {0} /\ Len(tmp) \in Nat /\ k <= Len(tmp) + 1
  BY DEF TypeInv, LoopTypes
<1>2. InTmp(c)' = InTmp(c) + 0
  <2>1. Count(c, tmp) \in Nat BY <1>1, CountType
  <2>2. pc = "increase" /\ pc' \in {"increase", "push"} /\ tmp' = tmp BY DEF Others
  <2>3. QED BY <2>1, <2>2 DEF InTmp
<1>3. ASSUME k <= Len(tmp) PROVE Pending(c)' = Pending(c) + One(tmp[k], c)
  <2>1. Count(c, SubSeq(tmp, 1, (k + 1) - 1)) = Count(c, SubSeq(tmp, 1, k - 1)) + One(tmp[k], c)
    BY <1>1, <1>3, TmpParts
  <2>2. Pending(c)' = Count(c, SubSeq(tmp, 1, (k + 1) - 1)) BY <1>3 DEF Pending
  <2>3. Pending(c) = Count(c, SubSeq(tmp, 1, k - 1)) BY DEF Pending
  <2>4. QED BY <2>1, <2>2, <2>3
<1>4. ASSUME ~(k <= Len(tmp)) PROVE Pending(c)' = Pending(c) + 0
  <2>1. k - 1 = Len(tmp) BY <1>1, <1>4
  <2>2. Pending(c) = Count(c, SubSeq(tmp, 1, Len(tmp))) BY <2>1 DEF Pending
  <2>3. Pending(c)' = Count(c, SubSeq(tmp, 1, Len(tmp))) BY <1>4 DEF Pending
  <2>4. Count(c, SubSeq(tmp, 1, Len(tmp))) = Count(c, tmp) /\ Count(c, tmp) \in Nat
    BY <1>1, TmpParts
  <2>5. QED BY <2>2, <2>3, <2>4
<1>5. QED BY <1>2, <1>3, <1>4, SharerStill DEF Moves

\* The consumer's buffer takes over the reference that was added for it.
Handed(x, s, c) ==
  \/ /\ Moves(c, 0, -One(x, c), 0, 0, 0, One(x, c), 0)
     /\ UNCHANGED imports
     /\ \A t \in Solvers : Count(c, units'[t])
                             = Count(c, units[t]) + (IF t = s THEN One(x, c) ELSE 0)
  \/ /\ Moves(c, 0, -One(x, c), 0, 0, 0, 0, One(x, c))
     /\ UNCHANGED units
     /\ \A t \in Solvers : Count(c, imports'[t])
                             = Count(c, imports[t]) + (IF t = s THEN One(x, c) ELSE 0)

LEMMA PushMoves ==
  ASSUME TypeInv, Push, NEW c \in Clauses
  PROVE  Handed(tmp[k], To[ti], c)
<1> USE DEF Push, solverVars, dbVars
<1> DEFINE x == tmp[k]
           s == To[ti]
<1>1. x \in Clauses /\ k \in 1 .. Len(tmp) /\ Len(tmp) \in Nat BY TmpElement
<1>2. s \in Solvers BY FromTo DEF Others
<1>3. InTmp(c)' = InTmp(c) + 0
  <2>1. InTmp(c) \in Nat BY HolderTypes
  <2>2. QED BY <2>1 DEF InTmp
<1>4. Pending(c)' = Pending(c) + -One(x, c)
  <2>1. /\ Count(c, SubSeq(tmp, k, Len(tmp))) = One(x, c) + Count(c, SubSeq(tmp, k + 1, Len(tmp)))
        /\ Count(c, SubSeq(tmp, k + 1, Len(tmp))) \in Nat
    BY <1>1, TmpParts
  <2>2. Pending(c) = Count(c, SubSeq(tmp, k, Len(tmp))) BY DEF Pending
  <2>3. Pending(c)' = Count(c, SubSeq(tmp, k + 1, Len(tmp))) BY DEF Pending
  <2>4. One(x, c) \in Nat BY DEF One
  <2>5. QED BY <2>1, <2>2, <2>3, <2>4
<1>5. /\ InHand(c)' = InHand(c) + 0 /\ Total(c, clauses)' = Total(c, clauses) + 0
      /\ Total(c, exports)' = Total(c, exports) + 0
      /\ UNCHANGED units => Total(c, units)' = Total(c, units) + 0
      /\ UNCHANGED imports => Total(c, imports)' = Total(c, imports) + 0
  BY SharerStill
<1>6. units \in Families(Solvers, Clauses) /\ imports \in Families(Solvers, Clauses)
  BY DEF TypeInv, BufferTypes
<1>7. \/ units' = [units EXCEPT ![s] = Append(@, x)] /\ UNCHANGED imports
      \/ imports' = [imports EXCEPT ![s] = Append(@, x)] /\ UNCHANGED units
  OBVIOUS
<1> HIDE DEF x, s
<1>8. CASE units' = [units EXCEPT ![s] = Append(@, x)] /\ UNCHANGED imports
  <2>1. Appended(Clauses, Solvers, units, s, x, units')
    BY <1>1, <1>2, <1>6, <1>8, FamilyAppend, SharerAssumption
  <2>2. /\ Total(c, units') = Total(c, units) + One(x, c)
        /\ \A t \in Solvers : Count(c, units'[t])
                                = Count(c, units[t]) + (IF t = s THEN One(x, c) ELSE 0)
    BY <2>1 DEF Appended
  <2>3. Moves(c, 0, -One(x, c), 0, 0, 0, One(x, c), 0)
    BY <1>3, <1>4, <1>5, <1>8, <2>2 DEF Moves
  <2>4. QED BY <1>8, <2>2, <2>3 DEF Handed, x, s
<1>9. CASE imports' = [imports EXCEPT ![s] = Append(@, x)] /\ UNCHANGED units
  <2>1. Appended(Clauses, Solvers, imports, s, x, imports')
    BY <1>1, <1>2, <1>6, <1>9, FamilyAppend, SharerAssumption
  <2>2. /\ Total(c, imports') = Total(c, imports) + One(x, c)
        /\ \A t \in Solvers : Count(c, imports'[t])
                                = Count(c, imports[t]) + (IF t = s THEN One(x, c) ELSE 0)
    BY <2>1 DEF Appended
  <2>3. Moves(c, 0, -One(x, c), 0, 0, 0, 0, One(x, c))
    BY <1>3, <1>4, <1>5, <1>9, <2>2 DEF Moves
  <2>4. QED BY <1>9, <2>2, <2>3 DEF Handed, x, s
<1>10. QED BY <1>7, <1>8, <1>9

LEMMA ReleaseMoves ==
  ASSUME TypeInv, Release, NEW c \in Clauses
  PROVE  Moves(c, -One(tmp[k], c), 0, 0, 0, 0, 0, 0)
<1> USE DEF Release, bufferVars, solverVars, dbVars
<1>1. k \in 1 .. Len(tmp) /\ Len(tmp) \in Nat BY TmpElement
<1>2. InTmp(c)' = InTmp(c) + -One(tmp[k], c)
  <2>1. /\ Count(c, SubSeq(tmp, k, Len(tmp))) = One(tmp[k], c) + Count(c, SubSeq(tmp, k + 1, Len(tmp)))
        /\ Count(c, SubSeq(tmp, k + 1, Len(tmp))) \in Nat
    BY <1>1, TmpParts
  <2>2. InTmp(c) = Count(c, SubSeq(tmp, k, Len(tmp))) BY DEF InTmp
  <2>3. InTmp(c)' = Count(c, SubSeq(tmp, k + 1, Len(tmp))) BY DEF InTmp
  <2>4. One(tmp[k], c) \in Nat BY DEF One
  <2>5. QED BY <2>1, <2>2, <2>3, <2>4
<1>3. Pending(c)' = Pending(c) + 0 BY DEF Pending
<1>4. QED BY <1>2, <1>3, SharerStill DEF Moves

OwnedTypes == \A c \in Clauses : Owned(c) \in Nat

LEMMA OwnedType == TypeInv => OwnedTypes
BY HolderTypes DEF Owned, OwnedTypes

LEMMA OwnedTypeNext == TypeInv' => OwnedTypes'
BY OwnedType, PTL

-----------------------------------------------------------------------------
(* The counters follow the holders. *)

\* What a move of references adds up to.
LEMMA MovesSum ==
  ASSUME TypeInv, RefsMatchHolders, NEW c \in Clauses,
         NEW inTmp \in Int, NEW pending \in Int, NEW inHand \in Int, NEW inDatabase \in Int,
         NEW exported \in Int, NEW unit \in Int, NEW imported \in Int,
         Moves(c, inTmp, pending, inHand, inDatabase, exported, unit, imported)
  PROVE  /\ Holders(c)' = refs[c] + (inTmp + pending + inHand + inDatabase + exported + unit + imported)
         /\ Owned(c)' = Owned(c) + (inTmp + inDatabase + exported)
         /\ Owned(c) \in Nat
<1>1. /\ InTmp(c) \in Nat /\ Pending(c) \in Nat /\ InHand(c) \in Nat
      /\ Total(c, clauses) \in Nat /\ Total(c, exports) \in Nat
      /\ Total(c, units) \in Nat /\ Total(c, imports) \in Nat
  BY HolderTypes
<1>2. refs[c] = InTmp(c) + Pending(c) + InHand(c) + Total(c, clauses) + Total(c, exports)
                  + Total(c, units) + Total(c, imports)
  BY DEF RefsMatchHolders, Holders
<1>3. Holders(c)' = InTmp(c)' + Pending(c)' + InHand(c)' + Total(c, clauses)' + Total(c, exports)'
                      + Total(c, units)' + Total(c, imports)'
  BY DEF Holders
<1>4. Owned(c)' = InTmp(c)' + Total(c, clauses)' + Total(c, exports)' BY DEF Owned
<1>5. Owned(c) = InTmp(c) + Total(c, clauses) + Total(c, exports) BY DEF Owned
<1>6. QED BY <1>1, <1>2, <1>3, <1>4, <1>5 DEF Moves

\* Whoever holds a clause may touch it: it is not freed, and it was exported.
LEMMA HeldIsAlive ==
  ASSUME IInv, NEW c \in Clauses,
         \/ InTmp(c) > 0 \/ Pending(c) > 0 \/ InHand(c) > 0 \/ Total(c, clauses) > 0
         \/ Total(c, exports) > 0 \/ Total(c, units) > 0 \/ Total(c, imports) > 0
  PROVE  /\ refs[c] > 0 /\ c \in alive /\ from[c] # NoSolver
         /\ Use(c) => ~freedAccess'
<1>1. /\ InTmp(c) \in Nat /\ Pending(c) \in Nat /\ InHand(c) \in Nat
      /\ Total(c, clauses) \in Nat /\ Total(c, exports) \in Nat
      /\ Total(c, units) \in Nat /\ Total(c, imports) \in Nat
  BY HolderTypes DEF IInv
<1>2. refs[c] = InTmp(c) + Pending(c) + InHand(c) + Total(c, clauses) + Total(c, exports)
                  + Total(c, units) + Total(c, imports)
  BY DEF IInv, RefsMatchHolders, Holders
<1>3. refs[c] > 0 BY <1>1, <1>2
<1>4. c \in alive /\ from[c] # NoSolver BY <1>3 DEF IInv, RefsMatchHolders, OwnedOnce
<1>5. QED BY <1>3, <1>4 DEF IInv, NoTouchFreed, Use

\* The sharer holds what its loops are at.
LEMMA TmpHeld ==
  ASSUME TypeInv, k <= Len(tmp), pc \in {"store", "increase", "push", "release"}
  PROVE  tmp[k] \in Clauses /\ InTmp(tmp[k]) > 0
<1>1. tmp[k] \in Clauses /\ k \in 1 .. Len(tmp) /\ Len(tmp) \in Nat BY TmpElement
<1>2. PICK c \in Clauses : c = tmp[k] BY <1>1
<1>3. /\ Count(c, SubSeq(tmp, 1, k - 1)) \in Nat
      /\ Count(c, tmp) = Count(c, SubSeq(tmp, 1, k - 1)) + Count(c, SubSeq(tmp, k, Len(tmp)))
      /\ Count(c, SubSeq(tmp, k, Len(tmp))) = One(tmp[k], c) + Count(c, SubSeq(tmp, k + 1, Len(tmp)))
      /\ Count(c, SubSeq(tmp, k + 1, Len(tmp))) \in Nat
  BY <1>1, TmpParts
<1>4. One(tmp[k], c) = 1 BY <1>2 DEF One
<1>5. Count(c, SubSeq(tmp, k, Len(tmp))) > 0 /\ Count(c, tmp) > 0 BY <1>3, <1>4
<1>6. QED BY <1>1, <1>2, <1>5 DEF InTmp

\* The counters stay right when they change as the holders do.
LEMMA RefsFollow ==
  ASSUME TypeInv, RefsMatchHolders, NEW x \in Clauses, NEW d \in {-1, 0, 1},
         \A c \in Clauses : Holders(c)' = refs[c] + d * One(x, c),
         refs' = [refs EXCEPT ![x] = @ + d],
         \/ d = 0 /\ alive' = alive
         \/ d = 1 /\ alive' = alive \cup {x} /\ refs[x] >= 0
         \/ d = -1 /\ alive' = IF refs[x] - 1 <= 0 THEN alive \ {x} ELSE alive
  PROVE  RefsMatchHolders'
<1>1. refs \in [Clauses -> Int] BY DEF TypeInv, ClauseTypes
<1>2. SUFFICES ASSUME NEW c \in Clauses
               PROVE  refs'[c] = Holders(c)' /\ (c \in alive' <=> refs'[c] > 0)
  BY DEF RefsMatchHolders
<1>3. (c \in alive <=> refs[c] > 0) /\ Holders(c)' = refs[c] + d * One(x, c) /\ refs[c] \in Int
  BY <1>1 DEF RefsMatchHolders
<1>4. CASE x = c
  <2>1. One(x, c) = 1 BY <1>4 DEF One
  <2>2. refs'[c] = refs[c] + d BY <1>1, <1>4
  <2>3. QED BY <1>3, <1>4, <2>1, <2>2
<1>5. CASE x # c
  <2>1. One(x, c) = 0 BY <1>5 DEF One
  <2>2. refs'[c] = refs[c] BY <1>1, <1>5
  <2>3. c \in alive' <=> c \in alive BY <1>5
  <2>4. QED BY <1>3, <2>1, <2>2, <2>3
<1>6. QED BY <1>4, <1>5

LEMMA RefsKept ==
  ASSUME RefsMatchHolders, \A c \in Clauses : Holders(c)' = refs[c], UNCHANGED <<refs, alive>>
  PROVE  RefsMatchHolders'
BY DEF RefsMatchHolders

\* No clause gets a second owner, none that was dropped gets one again.
LEMMA OwnedKept ==
  ASSUME OwnedOnce, TypeInv, TypeInv', UNCHANGED <<from, released>>,
         \A c \in Clauses : Owned(c)' <= Owned(c),
         \A c \in Clauses : refs[c] = 0 /\ from[c] = NoSolver => refs'[c] = 0
  PROVE  OwnedOnce'
<1>1. SUFFICES ASSUME NEW c \in Clauses
               PROVE  /\ Owned(c)' <= 1
                      /\ c \in released' => Owned(c)' = 0 /\ from'[c] # NoSolver
                      /\ from'[c] = NoSolver => refs'[c] = 0
  BY DEF OwnedOnce
<1>2. Owned(c) \in Nat /\ Owned(c)' \in Nat BY OwnedType, OwnedTypeNext DEF OwnedTypes
<1>3. Owned(c) <= 1 /\ (c \in released => Owned(c) = 0 /\ from[c] # NoSolver) BY DEF OwnedOnce
<1>4. from'[c] = NoSolver => refs'[c] = 0 BY DEF OwnedOnce
<1>5. QED BY <1>2, <1>3, <1>4

LEMMA OneType == \A x, e : One(x, e) \in {0, 1} /\ (x # e => One(x, e) = 0) /\ One(x, x) = 1
BY DEF One

\* A clause is used, and its reference at most handed on.
LEMMA TouchRefs ==
  ASSUME IInv, TypeInv', NEW x \in Clauses, Use(x), refs[x] > 0, x \in alive,
         UNCHANGED <<refs, from, alive, released>>,
         \A c \in Clauses : Holders(c)' = refs[c] /\ Owned(c)' <= Owned(c)
  PROVE  RefsMatchHolders' /\ OwnedOnce' /\ NoTouchFreed'
<1> USE DEF IInv
<1>1. RefsMatchHolders' BY RefsKept
<1>2. OwnedOnce' BY OwnedKept
<1>3. NoTouchFreed' BY DEF NoTouchFreed, Use
<1>4. QED BY <1>1, <1>2, <1>3

\* A reference is given back.
LEMMA LowerRefs ==
  ASSUME IInv, TypeInv', NEW x \in Clauses, ReleaseClause(x), refs[x] > 0, x \in alive,
         from[x] # NoSolver,
         \A c \in Clauses : Holders(c)' = refs[c] + -1 * One(x, c)
  PROVE  /\ RefsMatchHolders' /\ NoTouchFreed'
         /\ UNCHANGED released /\ (\A c \in Clauses : Owned(c)' <= Owned(c)) => OwnedOnce'
         /\ \A c \in Clauses : refs[c] = 0 /\ from[c] = NoSolver => refs'[c] = 0
<1> USE DEF IInv
<1>1. refs \in [Clauses -> Int] BY DEF TypeInv, ClauseTypes
<1>2. RefsMatchHolders'
  <2>1. PICK d \in {-1, 0, 1} : d = -1 OBVIOUS
  <2>2. refs' = [refs EXCEPT ![x] = @ + d] BY <1>1, <2>1 DEF ReleaseClause
  <2>3. d = -1 /\ alive' = IF refs[x] - 1 <= 0 THEN alive \ {x} ELSE alive
    BY <2>1 DEF ReleaseClause
  <2>4. ASSUME NEW c \in Clauses PROVE Holders(c)' = refs[c] + d * One(x, c)
    <3>1. Holders(c)' = refs[c] + -1 * One(x, c) OBVIOUS
    <3>2. -1 * One(x, c) = d * One(x, c)
      <4>1. One(x, c) = 0 \/ One(x, c) = 1 BY OneType
      <4>2. QED BY <2>1, <4>1
    <3>3. QED BY <3>1, <3>2
  <2>5. QED BY <2>2, <2>3, <2>4, RefsFollow
<1>3. \A c \in Clauses : refs[c] = 0 /\ from[c] = NoSolver => refs'[c] = 0
  BY <1>1 DEF ReleaseClause
<1>4. UNCHANGED from BY DEF ReleaseClause
<1>5. NoTouchFreed' BY DEF ReleaseClause, Use, NoTouchFreed
<1>6. QED BY <1>2, <1>3, <1>4, <1>5, OwnedKept

\* A callback keeps the counters, the owners and the clauses it uses.
LEMMA CallbackRefs ==
  ASSUME IInv, NEW s \in Solvers, Callback(s), TypeInv'
  PROVE  RefsMatchHolders' /\ OwnedOnce' /\ NoTouchFreed'
<1> USE DEF IInv
<1>1. refs \in [Clauses -> Int] /\ from \in [Clauses -> Solvers \cup {NoSolver}]
  BY DEF TypeInv, ClauseTypes
<1>2. ASSUME NEW x \in Clauses, ExportClause(s, x)
      PROVE  RefsMatchHolders' /\ OwnedOnce' /\ NoTouchFreed'
  <2> USE <1>2 DEF ExportClause
  <2>1. from[x] = NoSolver /\ refs[x] = 0 BY DEF OwnedOnce
  <2>2. ASSUME NEW c \in Clauses
        PROVE  /\ Holders(c)' = refs[c] + One(x, c) /\ Owned(c)' = Owned(c) + One(x, c)
               /\ Owned(c) \in Nat
    <3>1. Moves(c, 0, 0, 0, 0, One(x, c), 0, 0) BY ExportMoves
    <3>2. One(x, c) \in Int /\ 0 \in Int BY OneType
    <3>3. /\ Holders(c)' = refs[c] + (0 + 0 + 0 + 0 + One(x, c) + 0 + 0)
          /\ Owned(c)' = Owned(c) + (0 + 0 + One(x, c)) /\ Owned(c) \in Nat
      BY <3>1, <3>2, MovesSum
    <3>4. QED BY <3>2, <3>3
  <2>3. RefsMatchHolders'
    <3>1. refs' = [refs EXCEPT ![x] = @ + 1] BY <1>1, <2>1
    <3>2. \A c \in Clauses : Holders(c)' = refs[c] + 1 * One(x, c)
      <4>1. \A c \in Clauses : One(x, c) \in Int BY OneType
      <4>2. QED BY <2>2, <4>1
    <3>3. alive' = alive \cup {x} /\ refs[x] >= 0 BY <2>1
    <3>4. QED BY <3>1, <3>2, <3>3, RefsFollow
  <2>4. OwnedOnce'
    <3>1. SUFFICES ASSUME NEW c \in Clauses
                   PROVE  /\ Owned(c)' <= 1
                          /\ c \in released' => Owned(c)' = 0 /\ from'[c] # NoSolver
                          /\ from'[c] = NoSolver => refs'[c] = 0
      BY DEF OwnedOnce
    <3>2. UNCHANGED released BY DEF dbVars
    <3>3. CASE x = c
      <4>1. Holders(c) = 0 BY <2>1, <3>3 DEF RefsMatchHolders
      <4>2. Owned(c) = 0
        <5>1. /\ InTmp(c) \in Nat /\ Pending(c) \in Nat /\ InHand(c) \in Nat
              /\ Total(c, clauses) \in Nat /\ Total(c, exports) \in Nat
              /\ Total(c, units) \in Nat /\ Total(c, imports) \in Nat
          BY HolderTypes
        <5>2. QED BY <4>1, <5>1 DEF Holders, Owned
      <4>3. Owned(c)' = 1 BY <2>2, <3>3, <4>2, OneType
      <4>4. c \notin released' BY <2>1, <3>2, <3>3 DEF OwnedOnce
      <4>5. from'[c] # NoSolver BY <1>1, <3>3, SharerAssumption
      <4>6. QED BY <4>3, <4>4, <4>5
    <3>4. CASE x # c
      <4>1. Owned(c)' = Owned(c) /\ from'[c] = from[c] /\ refs'[c] = refs[c]
        BY <1>1, <2>2, <3>4, OneType
      <4>2. QED BY <3>2, <4>1 DEF OwnedOnce
    <3>5. QED BY <3>3, <3>4
  <2>5. QED BY <2>3, <2>4 DEF NoTouchFreed
<1>3. ASSUME NEW x \in Clauses, Use(x), UNCHANGED <<refs, from, alive, released>>,
             \/ \A c \in Clauses : Moves(c, 0, 0, One(x, c), 0, 0, -One(x, c), 0)
             \/ \A c \in Clauses : Moves(c, 0, 0, One(x, c), 0, 0, 0, -One(x, c)),
             Total(x, units) > 0 \/ Total(x, imports) > 0
      PROVE  RefsMatchHolders' /\ OwnedOnce' /\ NoTouchFreed'
  <2>1. ASSUME NEW c \in Clauses
        PROVE  Holders(c)' = refs[c] /\ Owned(c)' <= Owned(c)
    <3>1. One(x, c) \in Int /\ -One(x, c) \in Int /\ 0 \in Int BY OneType
    <3>2. CASE Moves(c, 0, 0, One(x, c), 0, 0, -One(x, c), 0)
      <4>1. /\ Holders(c)' = refs[c] + (0 + 0 + One(x, c) + 0 + 0 + (-One(x, c)) + 0)
            /\ Owned(c)' = Owned(c) + (0 + 0 + 0) /\ Owned(c) \in Nat
        BY <3>1, <3>2, MovesSum
      <4>2. QED BY <1>1, <3>1, <4>1
    <3>3. CASE Moves(c, 0, 0, One(x, c), 0, 0, 0, -One(x, c))
      <4>1. /\ Holders(c)' = refs[c] + (0 + 0 + One(x, c) + 0 + 0 + 0 + (-One(x, c)))
            /\ Owned(c)' = Owned(c) + (0 + 0 + 0) /\ Owned(c) \in Nat
        BY <3>1, <3>3, MovesSum
      <4>2. QED BY <1>1, <3>1, <4>1
    <3>4. QED BY <1>3, <3>2, <3>3
  <2>2. refs[x] > 0 /\ x \in alive BY <1>3, HeldIsAlive
  <2>3. QED BY <1>3, <2>1, <2>2, TouchRefs
<1>4. ASSUME NEW buffer \in Families(Solvers, Clauses), buffer[s] # <<>>
      PROVE  Head(buffer[s]) \in Clauses /\ Total(Head(buffer[s]), buffer) > 0
  <2> DEFINE x == Head(buffer[s])
  <2>1. buffer[s] \in Seq(Clauses) BY <1>4 DEF Families
  <2>2. x \in Clauses /\ Count(x, buffer[s]) = One(x, x) + Count(x, Tail(buffer[s]))
    BY <1>4, <2>1, CountTail
  <2>3. Tail(buffer[s]) \in Seq(Clauses) BY <1>4, <2>1, CountTail
  <2>4. Count(x, Tail(buffer[s])) \in Nat BY <2>3, CountType
  <2>5. /\ Count(x, buffer[s]) <= Total(x, buffer) /\ Count(x, buffer[s]) \in Nat
        /\ Total(x, buffer) \in Nat
    BY TotalAtLeast, SharerAssumption
  <2> HIDE DEF x
  <2>6. One(x, x) = 1 BY OneType
  <2>7. QED BY <2>2, <2>4, <2>5, <2>6 DEF x
<1>5. CASE ImportUnit(s)
  <2>1. units \in Families(Solvers, Clauses) /\ units[s] # <<>>
    BY <1>5 DEF TypeInv, BufferTypes, ImportUnit
  <2>2. PICK x \in Clauses : x = Head(units[s]) /\ Total(x, units) > 0 BY <1>4, <2>1
  <2>3. \A c \in Clauses : Moves(c, 0, 0, One(x, c), 0, 0, -One(x, c), 0)
    BY <1>5, <2>2, ReceiveMoves
  <2>4. Use(x) /\ UNCHANGED <<refs, from, alive, released>>
    BY <1>5, <2>2 DEF ImportUnit, Receive, dbVars
  <2>5. QED BY <1>3, <2>2, <2>3, <2>4
<1>6. CASE ImportClause(s)
  <2>1. imports \in Families(Solvers, Clauses) /\ imports[s] # <<>>
    BY <1>6 DEF TypeInv, BufferTypes, ImportClause
  <2>2. PICK x \in Clauses : x = Head(imports[s]) /\ Total(x, imports) > 0 BY <1>4, <2>1
  <2>3. \A c \in Clauses : Moves(c, 0, 0, One(x, c), 0, 0, 0, -One(x, c))
    BY <1>6, <2>2, ReceiveMoves
  <2>4. Use(x) /\ UNCHANGED <<refs, from, alive, released>>
    BY <1>6, <2>2 DEF ImportClause, Receive, dbVars
  <2>5. QED BY <1>3, <2>2, <2>3, <2>4
<1>7. CASE ReleaseImported(s)
  <2>1. hand[s] \in Clauses BY <1>7 DEF ReleaseImported, TypeInv, BufferTypes
  <2>2. PICK x \in Clauses : x = hand[s] BY <2>1
  <2>3. \A c \in Clauses : Moves(c, 0, 0, -One(x, c), 0, 0, 0, 0)
    BY <1>7, <2>2, ReleaseImportedMoves
  <2>4. InHand(x) > 0
    <3>1. s \in {t \in Solvers : hand[t] = x} BY <2>2
    <3>2. IsFiniteSet({t \in Solvers : hand[t] = x}) BY FS_Subset, SharerAssumption
    <3>3. QED BY <3>1, <3>2, FS_EmptySet, FS_CardinalityType DEF InHand
  <2>5. ReleaseClause(x) /\ UNCHANGED released BY <1>7, <2>2 DEF ReleaseImported, dbVars
  <2>6. refs[x] > 0 /\ x \in alive /\ from[x] # NoSolver BY <2>4, HeldIsAlive
  <2>7. ASSUME NEW c \in Clauses
        PROVE  Holders(c)' = refs[c] + -1 * One(x, c) /\ Owned(c)' <= Owned(c)
    <3>1. -One(x, c) \in Int /\ 0 \in Int /\ One(x, c) \in Int BY OneType
    <3>2. /\ Holders(c)' = refs[c] + (0 + 0 + (-One(x, c)) + 0 + 0 + 0 + 0)
          /\ Owned(c)' = Owned(c) + (0 + 0 + 0) /\ Owned(c) \in Nat
      BY <2>3, <3>1, MovesSum
    <3>3. QED BY <1>1, <3>1, <3>2
  <2>8. QED BY <2>5, <2>6, <2>7, LowerRefs
<1>8. QED BY <1>2, <1>5, <1>6, <1>7 DEF Callback

\* A step of the sharer that uses no clause.
LEMMA StillRefs ==
  ASSUME IInv, TypeInv', UNCHANGED clauseVars, UNCHANGED released,
         \A c \in Clauses : Holders(c)' = refs[c] /\ Owned(c)' <= Owned(c)
  PROVE  RefsMatchHolders' /\ OwnedOnce' /\ NoTouchFreed'
<1> USE DEF IInv, clauseVars
<1>1. RefsMatchHolders' BY RefsKept
<1>2. OwnedOnce' BY OwnedKept
<1>3. QED BY <1>1, <1>2 DEF NoTouchFreed

\* A step of the sharer keeps the counters, the owners and the clauses it uses.
LEMMA RoundRefs ==
  ASSUME IInv, Round, TypeInv'
  PROVE  RefsMatchHolders' /\ OwnedOnce' /\ NoTouchFreed'
<1> USE DEF IInv
<1>1. refs \in [Clauses -> Int] BY DEF TypeInv, ClauseTypes
<1>2. \A c \in Clauses : refs[c] \in Int /\ Owned(c) \in Nat BY <1>1, OwnedType DEF OwnedTypes
<1>3. \A x, c : One(x, c) \in Int /\ -One(x, c) \in Int /\ One(x, c) >= 0 BY OneType
<1>4. ASSUME BeginRound \/ Drained \/ Produce \/ NextConsumer \/ NoConsumer \/ NextProducer \/ Select
      PROVE  RefsMatchHolders' /\ OwnedOnce' /\ NoTouchFreed'
  <2>1. ASSUME NEW c \in Clauses PROVE Holders(c)' = refs[c] /\ Owned(c)' <= Owned(c)
    <3>1. Moves(c, 0, 0, 0, 0, 0, 0, 0) BY <1>4, ControlMoves, SelectMoves
    <3>2. Holders(c)' = refs[c] + (0 + 0 + 0 + 0 + 0 + 0 + 0) /\ Owned(c)' = Owned(c) + (0 + 0 + 0)
      BY <3>1, MovesSum
    <3>3. QED BY <1>2, <3>2
  <2>2. UNCHANGED clauseVars /\ UNCHANGED released
    <3>1. CASE Select BY <3>1 DEF Select, BeginSelection
    <3>2. CASE ~Select
      BY <1>4, <3>2 DEF BeginRound, Drained, Produce, NextConsumer, NoConsumer, NextProducer, dbVars
    <3>3. QED BY <3>1, <3>2
  <2>3. QED BY <2>1, <2>2, StillRefs
<1>5. CASE Drain
  <2>1. ASSUME NEW c \in Clauses PROVE Holders(c)' = refs[c] /\ Owned(c)' <= Owned(c)
    <3>1. PICK x \in Clauses : Moves(c, One(x, c), 0, 0, 0, -One(x, c), 0, 0) BY <1>5, DrainMoves
    <3>2. /\ Holders(c)' = refs[c] + (One(x, c) + 0 + 0 + 0 + (-One(x, c)) + 0 + 0)
          /\ Owned(c)' = Owned(c) + (One(x, c) + 0 + (-One(x, c)))
      BY <1>3, <3>1, MovesSum
    <3>3. QED BY <1>2, <1>3, <3>2
  <2>2. UNCHANGED clauseVars /\ UNCHANGED released BY <1>5 DEF Drain, dbVars
  <2>3. QED BY <2>1, <2>2, StillRefs
<1>6. CASE SelectTurn
  <2>1. ASSUME NEW c \in Clauses PROVE Holders(c)' = refs[c] /\ Owned(c)' <= Owned(c)
    <3>1. PICK n \in Nat : Moves(c, n, 0, 0, -n, 0, 0, 0) BY <1>6, SelectTurnMoves
    <3>2. /\ Holders(c)' = refs[c] + (n + 0 + 0 + (-n) + 0 + 0 + 0)
          /\ Owned(c)' = Owned(c) + (n + (-n) + 0)
      BY <3>1, MovesSum
    <3>3. QED BY <1>2, <3>2
  <2>2. UNCHANGED clauseVars /\ UNCHANGED released
    BY <1>6 DEF SelectTurn, Selecting, TakeAll, TakeSome, EndSelection
  <2>3. QED BY <2>1, <2>2, StillRefs
<1>7. CASE Store
  <2>1. k <= Len(tmp) /\ pc = "store" BY <1>7 DEF Store
  <2>2. PICK x \in Clauses : x = tmp[k] /\ InTmp(x) > 0 BY <2>1, TmpHeld
  <2>3. refs[x] > 0 /\ x \in alive /\ from[x] # NoSolver BY <2>2, HeldIsAlive
  <2>4. x \notin released
    <3>1. InTmp(x) \in Nat /\ Total(x, clauses) \in Nat /\ Total(x, exports) \in Nat BY HolderTypes
    <3>2. Owned(x) > 0 BY <2>2, <3>1 DEF Owned
    <3>3. QED BY <3>2 DEF OwnedOnce
  <2>5. ASSUME NEW c \in Clauses
        PROVE  \/ released' = released /\ Moves(c, -One(x, c), 0, 0, One(x, c), 0, 0, 0)
               \/ /\ released' = released \cup {x} /\ released' # released
                  /\ Moves(c, -One(x, c), 0, 0, 0, 0, 0, 0)
    BY <1>7, <2>2, <2>4, StoreMoves
  <2>6. CASE released' = released
    <3>1. ASSUME NEW c \in Clauses PROVE Holders(c)' = refs[c] /\ Owned(c)' <= Owned(c)
      <4>1. Moves(c, -One(x, c), 0, 0, One(x, c), 0, 0, 0) BY <2>5, <2>6
      <4>2. /\ Holders(c)' = refs[c] + ((-One(x, c)) + 0 + 0 + One(x, c) + 0 + 0 + 0)
            /\ Owned(c)' = Owned(c) + ((-One(x, c)) + One(x, c) + 0)
        BY <1>3, <4>1, MovesSum
      <4>3. QED BY <1>2, <1>3, <4>2
    <3>2. Use(x) /\ UNCHANGED <<refs, from, alive, released>> BY <1>7, <2>2, <2>6 DEF Store
    <3>3. QED BY <2>3, <3>1, <3>2, TouchRefs
  <2>7. CASE released' # released
    <3>1. ReleaseClause(x) /\ released' = released \cup {x} BY <1>7, <2>2, <2>5, <2>7 DEF Store
    <3>2. ASSUME NEW c \in Clauses
          PROVE  Holders(c)' = refs[c] + -1 * One(x, c) /\ Owned(c)' = Owned(c) + -1 * One(x, c)
      <4>1. Moves(c, -One(x, c), 0, 0, 0, 0, 0, 0) BY <2>5, <2>7
      <4>2. /\ Holders(c)' = refs[c] + ((-One(x, c)) + 0 + 0 + 0 + 0 + 0 + 0)
            /\ Owned(c)' = Owned(c) + ((-One(x, c)) + 0 + 0)
        BY <1>3, <4>1, MovesSum
      <4>3. QED BY <1>2, <1>3, <4>2
    <3>3. /\ RefsMatchHolders' /\ NoTouchFreed'
          /\ \A c \in Clauses : refs[c] = 0 /\ from[c] = NoSolver => refs'[c] = 0
      BY <2>3, <3>1, <3>2, LowerRefs
    <3>4. OwnedOnce'
      <4>1. SUFFICES ASSUME NEW c \in Clauses
                     PROVE  /\ Owned(c)' <= 1
                            /\ c \in released' => Owned(c)' = 0 /\ from'[c] # NoSolver
                            /\ from'[c] = NoSolver => refs'[c] = 0
        BY DEF OwnedOnce
      <4>2. from' = from BY <3>1 DEF ReleaseClause
      <4>3. Owned(c)' \in Nat BY OwnedTypeNext DEF OwnedTypes
      <4>4. Owned(c) \in Nat /\ Owned(c) <= 1 /\ (c \in released => Owned(c) = 0 /\ from[c] # NoSolver)
        BY <1>2 DEF OwnedOnce
      <4>5. from'[c] = NoSolver => refs'[c] = 0 BY <3>3, <4>2 DEF OwnedOnce
      <4>6. Owned(c)' <= Owned(c) BY <1>2, <1>3, <3>2, <4>4
      <4>7. x = c => Owned(c)' = 0 BY <3>2, <4>3, <4>4, OneType
      <4>8. QED BY <2>3, <3>1, <4>2, <4>3, <4>4, <4>5, <4>6, <4>7
    <3>5. QED BY <3>3, <3>4
  <2>8. QED BY <2>6, <2>7
<1>8. CASE Increase /\ k <= Len(tmp)
  <2>1. pc = "increase" /\ IncreaseClause(tmp[k]) /\ UNCHANGED released BY <1>8 DEF Increase, dbVars
  <2>2. PICK x \in Clauses : x = tmp[k] /\ InTmp(x) > 0 BY <1>8, <2>1, TmpHeld
  <2>3. refs[x] > 0 /\ x \in alive /\ from[x] # NoSolver /\ (Use(x) => ~freedAccess')
    BY <2>2, HeldIsAlive
  <2>4. ASSUME NEW c \in Clauses
        PROVE  Holders(c)' = refs[c] + One(x, c) /\ Owned(c)' <= Owned(c)
    <3>1. Moves(c, 0, One(x, c), 0, 0, 0, 0, 0) BY <1>8, <2>2, IncreaseMoves
    <3>2. /\ Holders(c)' = refs[c] + (0 + One(x, c) + 0 + 0 + 0 + 0 + 0)
          /\ Owned(c)' = Owned(c) + (0 + 0 + 0)
      BY <1>3, <3>1, MovesSum
    <3>3. QED BY <1>2, <1>3, <3>2
  <2>5. RefsMatchHolders'
    <3>1. refs' = [refs EXCEPT ![x] = @ + 1] BY <2>1, <2>2 DEF IncreaseClause
    <3>2. \A c \in Clauses : Holders(c)' = refs[c] + 1 * One(x, c) BY <1>3, <2>4
    <3>3. alive' = alive \cup {x} /\ refs[x] >= 0 BY <1>2, <2>1, <2>3 DEF IncreaseClause
    <3>4. QED BY <3>1, <3>2, <3>3, RefsFollow
  <2>6. OwnedOnce'
    <3>1. \A c \in Clauses : refs[c] = 0 /\ from[c] = NoSolver => refs'[c] = 0
      BY <1>1, <2>1, <2>2, <2>3 DEF IncreaseClause
    <3>2. UNCHANGED from BY <2>1 DEF IncreaseClause
    <3>3. QED BY <2>1, <2>4, <3>1, <3>2, OwnedKept
  <2>7. NoTouchFreed' BY <2>1, <2>2, <2>3 DEF IncreaseClause, NoTouchFreed
  <2>8. QED BY <2>5, <2>6, <2>7
<1>9. CASE Increase /\ ~(k <= Len(tmp))
  <2>1. ASSUME NEW c \in Clauses PROVE Holders(c)' = refs[c] /\ Owned(c)' <= Owned(c)
    <3>1. Moves(c, 0, 0, 0, 0, 0, 0, 0) BY <1>9, IncreaseMoves
    <3>2. Holders(c)' = refs[c] + (0 + 0 + 0 + 0 + 0 + 0 + 0) /\ Owned(c)' = Owned(c) + (0 + 0 + 0)
      BY <3>1, MovesSum
    <3>3. QED BY <1>2, <3>2
  <2>2. UNCHANGED clauseVars /\ UNCHANGED released BY <1>9 DEF Increase, dbVars
  <2>3. QED BY <2>1, <2>2, StillRefs
<1>10. CASE Push
  <2>1. k <= Len(tmp) /\ pc = "push" BY <1>10 DEF Push
  <2>2. PICK x \in Clauses : x = tmp[k] /\ InTmp(x) > 0 BY <2>1, TmpHeld
  <2>3. refs[x] > 0 /\ x \in alive BY <2>2, HeldIsAlive
  <2>4. ASSUME NEW c \in Clauses PROVE Holders(c)' = refs[c] /\ Owned(c)' <= Owned(c)
    <3>1. \/ Moves(c, 0, -One(x, c), 0, 0, 0, One(x, c), 0)
          \/ Moves(c, 0, -One(x, c), 0, 0, 0, 0, One(x, c))
      BY <1>10, <2>2, PushMoves DEF Handed
    <3>2. CASE Moves(c, 0, -One(x, c), 0, 0, 0, One(x, c), 0)
      <4>1. /\ Holders(c)' = refs[c] + (0 + (-One(x, c)) + 0 + 0 + 0 + One(x, c) + 0)
            /\ Owned(c)' = Owned(c) + (0 + 0 + 0)
        BY <1>3, <3>2, MovesSum
      <4>2. QED BY <1>2, <1>3, <4>1
    <3>3. CASE Moves(c, 0, -One(x, c), 0, 0, 0, 0, One(x, c))
      <4>1. /\ Holders(c)' = refs[c] + (0 + (-One(x, c)) + 0 + 0 + 0 + 0 + One(x, c))
            /\ Owned(c)' = Owned(c) + (0 + 0 + 0)
        BY <1>3, <3>3, MovesSum
      <4>2. QED BY <1>2, <1>3, <4>1
    <3>4. QED BY <3>1, <3>2, <3>3
  <2>5. Use(x) /\ UNCHANGED <<refs, from, alive, released>> BY <1>10, <2>2 DEF Push, dbVars
  <2>6. QED BY <2>3, <2>4, <2>5, TouchRefs
<1>11. CASE Release
  <2>1. k <= Len(tmp) /\ pc = "release" BY <1>11 DEF Release
  <2>2. PICK x \in Clauses : x = tmp[k] /\ InTmp(x) > 0 BY <2>1, TmpHeld
  <2>3. refs[x] > 0 /\ x \in alive /\ from[x] # NoSolver BY <2>2, HeldIsAlive
  <2>4. ASSUME NEW c \in Clauses
        PROVE  Holders(c)' = refs[c] + -1 * One(x, c) /\ Owned(c)' <= Owned(c)
    <3>1. Moves(c, -One(x, c), 0, 0, 0, 0, 0, 0) BY <1>11, <2>2, ReleaseMoves
    <3>2. /\ Holders(c)' = refs[c] + ((-One(x, c)) + 0 + 0 + 0 + 0 + 0 + 0)
          /\ Owned(c)' = Owned(c) + ((-One(x, c)) + 0 + 0)
      BY <1>3, <3>1, MovesSum
    <3>3. QED BY <1>2, <1>3, <3>2
  <2>5. ReleaseClause(x) /\ UNCHANGED released BY <1>11, <2>2 DEF Release, dbVars
  <2>6. QED BY <2>3, <2>4, <2>5, LowerRefs
<1>12. QED BY <1>4, <1>5, <1>6, <1>7, <1>8, <1>9, <1>10, <1>11 DEF Round

THEOREM IInvariant == Spec => []IInv
<1>1. Init => IInv
  <2>1. SUFFICES ASSUME Init PROVE IInv OBVIOUS
  <2>2. TypeInv /\ TmpInv BY <2>1, InitTypeInv
  <2>3. ASSUME NEW c \in Clauses
        PROVE  /\ InTmp(c) = 0 /\ Pending(c) = 0 /\ InHand(c) = 0 /\ Total(c, clauses) = 0
               /\ Total(c, exports) = 0 /\ Total(c, units) = 0 /\ Total(c, imports) = 0
    <3>1. Count(c, <<>>) = 0 BY CountEmpty
    <3>2. InTmp(c) = 0 /\ Pending(c) = 0 BY <2>1, <3>1 DEF Init, InTmp, Pending
    <3>3. InHand(c) = 0
      <4>1. {s \in Solvers : hand[s] = c} = {} BY <2>1, SharerAssumption DEF Init
      <4>2. QED BY <4>1, FS_EmptySet DEF InHand
    <3>4. Total(c, clauses) = 0 BY <2>1, TotalEmpty DEF Init, DBInit
    <3>5. /\ \A i \in DOMAIN exports : exports[i] = <<>>
          /\ \A i \in DOMAIN units : units[i] = <<>>
          /\ \A i \in DOMAIN imports : imports[i] = <<>>
      BY <2>1 DEF Init
    <3>6. Total(c, exports) = 0 /\ Total(c, units) = 0 /\ Total(c, imports) = 0
      <4>1. Total(c, exports) = 0 BY <3>5, TotalEmpty
      <4>2. Total(c, units) = 0 BY <3>5, TotalEmpty
      <4>3. Total(c, imports) = 0 BY <3>5, TotalEmpty
      <4>4. QED BY <4>1, <4>2, <4>3
    <3>7. QED BY <3>2, <3>3, <3>4, <3>6
  <2>4. \A c \in Clauses : Holders(c) = 0 /\ Owned(c) = 0 BY <2>3 DEF Holders, Owned
  <2>5. RefsMatchHolders /\ OwnedOnce /\ NoTouchFreed
    BY <2>1, <2>4 DEF Init, DBInit, RefsMatchHolders, OwnedOnce, NoTouchFreed
  <2>6. QED BY <2>2, <2>5 DEF IInv
<1>2. IInv /\ [Next]_vars => IInv'
  <2>1. SUFFICES ASSUME IInv, [Next]_vars PROVE IInv' OBVIOUS
  <2>2. TypeInv' /\ TmpInv' BY <2>1, NextTypeInv DEF IInv
  <2>3. CASE Sharer BY <2>1, <2>2, <2>3, RoundRefs DEF Sharer, IInv
  <2>4. CASE \E s \in Solvers : Solver(s)
    BY <2>1, <2>2, <2>4, CallbackRefs DEF Solver, IInv
  <2>5. CASE UNCHANGED vars
    <3>1. \A c \in Clauses : Holders(c)' = refs[c] /\ Owned(c)' <= Owned(c)
      <4>1. SUFFICES ASSUME NEW c \in Clauses
                     PROVE  Holders(c)' = refs[c] /\ Owned(c)' <= Owned(c)
        OBVIOUS
      <4>2. Moves(c, 0, 0, 0, 0, 0, 0, 0)
        BY <2>1, <2>5, SharerStill DEF IInv, Moves, vars, bufferVars, solverVars, loopVars, dbVars
      <4>3. /\ Holders(c)' = refs[c] + (0 + 0 + 0 + 0 + 0 + 0 + 0)
            /\ Owned(c)' = Owned(c) + (0 + 0 + 0) /\ Owned(c) \in Nat
        BY <2>1, <4>2, MovesSum DEF IInv
      <4>4. refs[c] \in Int BY <2>1 DEF IInv, TypeInv, ClauseTypes
      <4>5. QED BY <4>3, <4>4
    <3>2. UNCHANGED clauseVars /\ UNCHANGED released BY <2>5 DEF vars, dbVars
    <3>3. QED BY <2>1, <2>2, <3>1, <3>2, StillRefs DEF IInv
  <2>6. QED BY <2>1, <2>3, <2>4, <2>5 DEF Next
<1>3. QED BY <1>1, <1>2, PTL DEF Spec

\* The counter of a clause is the number of those who hold it, whatever the
\* number of solvers and clauses and the order of the steps of the sharer and of
\* the callbacks (ClauseManager.h, SimpleSharing.cpp, HordeSatSharing.cpp): the
\* clause is freed by the last holder and by no other.
THEOREM CountersAreRight == Spec => []RefsMatchHolders
<1>1. IInv => RefsMatchHolders BY DEF IInv
<1>2. QED BY <1>1, IInvariant, PTL

\* No clause is read, pushed or counted after it was freed.
THEOREM NothingFreedIsUsed == Spec => []NoTouchFreed
<1>1. IInv => NoTouchFreed BY DEF IInv
<1>2. QED BY <1>1, IInvariant, PTL

-----------------------------------------------------------------------------
(* Nobody is given a clause twice. *)

\* A consumer appears once in the list of consumers.
ConsumersDiffer == \A m, n \in DOMAIN To : To[m] = To[n] => m = n

\* An import is counted before and after, where the clause is then.
LEMMA ReceivedStays ==
  ASSUME TypeInv, NEW s \in Solvers, ImportUnit(s) \/ ImportClause(s),
         NEW t \in Solvers, NEW c \in Clauses
  PROVE  Got(t, c)' = Got(t, c)
<1>1. /\ units \in Families(Solvers, Clauses) /\ imports \in Families(Solvers, Clauses)
      /\ received \in Families(Solvers, Clauses)
  BY DEF TypeInv, BufferTypes
<1>2. ASSUME NEW buffer, NEW buffer1, buffer \in Families(Solvers, Clauses), buffer[s] # <<>>,
             buffer1 = [buffer EXCEPT ![s] = Tail(@)],
             received' = [received EXCEPT ![s] = Append(@, Head(buffer[s]))]
      PROVE  /\ Count(c, received'[t]) + Count(c, buffer1[t])
                  = Count(c, received[t]) + Count(c, buffer[t])
             /\ Count(c, received[t]) \in Nat /\ Count(c, received'[t]) \in Nat
             /\ Count(c, buffer[t]) \in Nat /\ Count(c, buffer1[t]) \in Nat
  <2> DEFINE x == Head(buffer[s])
  <2>1. x \in Clauses /\ TailTaken(Clauses, Solvers, buffer, s, buffer1)
    BY <1>2, FamilyTail, SharerAssumption
  <2>2. received' = [received EXCEPT ![s] = Append(@, x)] BY <1>2
  <2> HIDE DEF x
  <2>3. Appended(Clauses, Solvers, received, s, x, received')
    BY <1>1, <2>1, <2>2, FamilyAppend, SharerAssumption
  <2>4. Count(c, received'[t]) = Count(c, received[t]) + (IF t = s THEN One(x, c) ELSE 0)
    BY <2>3 DEF Appended
  <2>5. Count(c, buffer[t]) = Count(c, buffer1[t]) + (IF t = s THEN One(x, c) ELSE 0)
    BY <2>1 DEF TailTaken, x
  <2>6. /\ received[t] \in Seq(Clauses) /\ received'[t] \in Seq(Clauses)
        /\ buffer[t] \in Seq(Clauses) /\ buffer1[t] \in Seq(Clauses)
    BY <1>1, <1>2, <2>1, <2>3 DEF Families, Appended, TailTaken
  <2>7. /\ Count(c, received[t]) \in Nat /\ Count(c, received'[t]) \in Nat
        /\ Count(c, buffer[t]) \in Nat /\ Count(c, buffer1[t]) \in Nat
    BY <2>6, CountType
  <2>8. One(x, c) \in {0, 1} BY OneType
  <2>9. QED BY <2>4, <2>5, <2>7, <2>8
<1>3. /\ Count(c, units[t]) \in Nat /\ Count(c, imports[t]) \in Nat
  BY <1>1, CountType DEF Families
<1>4. CASE ImportUnit(s)
  <2>1. /\ units[s] # <<>> /\ units' = [units EXCEPT ![s] = Tail(@)]
        /\ received' = [received EXCEPT ![s] = Append(@, Head(units[s]))] /\ imports' = imports
    BY <1>4 DEF ImportUnit, Receive
  <2>2. /\ Count(c, received'[t]) + Count(c, units'[t]) = Count(c, received[t]) + Count(c, units[t])
        /\ Count(c, received[t]) \in Nat /\ Count(c, received'[t]) \in Nat
        /\ Count(c, units'[t]) \in Nat
    BY <1>1, <1>2, <2>1
  <2>3. QED BY <1>3, <2>1, <2>2 DEF Got
<1>5. CASE ImportClause(s)
  <2>1. /\ imports[s] # <<>> /\ imports' = [imports EXCEPT ![s] = Tail(@)]
        /\ received' = [received EXCEPT ![s] = Append(@, Head(imports[s]))] /\ units' = units
    BY <1>5 DEF ImportClause, Receive
  <2>2. /\ Count(c, received'[t]) + Count(c, imports'[t])
             = Count(c, received[t]) + Count(c, imports[t])
        /\ Count(c, received[t]) \in Nat /\ Count(c, received'[t]) \in Nat
        /\ Count(c, imports'[t]) \in Nat
    BY <1>1, <1>2, <2>1
  <2>3. Count(c, units'[t]) = Count(c, units[t]) BY <2>1
  <2>4. Got(t, c)' = Count(c, received'[t]) + Count(c, units'[t]) + Count(c, imports'[t])
    BY DEF Got
  <2>5. Got(t, c) = Count(c, received[t]) + Count(c, units[t]) + Count(c, imports[t])
    BY DEF Got
  <2>6. QED BY <1>3, <2>2, <2>3, <2>4, <2>5
<1>6. QED BY <1>4, <1>5

\* Only Push gives a clause to a solver, and no other step of the sharer makes
\* one due.
LEMMA RoundDue ==
  ASSUME IInv, Round, ~Push, NEW c \in Clauses
  PROVE  /\ \A t \in DOMAIN To : Due(t, c)' => Due(t, c)
         /\ \A s \in Solvers : Got(s, c)' = Got(s, c)
         /\ from' = from
<1> USE DEF IInv
<1>1. /\ InTmp(c) \in Nat /\ Total(c, clauses) \in Nat /\ Total(c, exports) \in Nat
  BY HolderTypes
<1>2. \A s \in Solvers : Got(s, c)' = Got(s, c)
  BY DEF Got, Round, BeginRound, Drain, Drained, Store, Select, SelectTurn, Produce, Increase, Push,
         NextConsumer, NoConsumer, Release, NextProducer, bufferVars, solverVars
<1>3. from' = from
  <2>1. CASE Store BY <2>1 DEF Store, ReleaseClause
  <2>2. CASE ~Store
    BY <2>2 DEF Round, BeginRound, Drain, Drained, Select, SelectTurn, Produce, Increase, Push,
                NextConsumer, NoConsumer, Release, NextProducer, clauseVars, ReleaseClause,
                IncreaseClause
  <2>3. QED BY <2>1, <2>2
<1>4. ti \in Nat \ {0} /\ \A t \in DOMAIN To : t \in Nat BY SharerAssumption DEF TypeInv, LoopTypes
<1>5. \A x : One(x, c) \in {0, 1} /\ (x # c => One(x, c) = 0) /\ -One(x, c) \in Int BY OneType
<1>6. CASE BeginRound \/ Drained \/ Produce \/ NextConsumer \/ NoConsumer \/ NextProducer
  <2>1. /\ InTmp(c)' = InTmp(c) /\ Total(c, clauses)' = Total(c, clauses)
        /\ Total(c, exports)' = Total(c, exports)
    BY <1>1, <1>6, ControlMoves DEF Moves
  <2>2. Count(c, <<>>) = 0 BY CountEmpty
  <2>3. \/ pc = "drain" /\ pc' \in {"store", "increase"}
        \/ pc = "produce" /\ pc' = "increase"
        \/ pc = "push" /\ pc' = "increase" /\ ti' = ti + 1
        \/ pc = "increase" /\ pc' = "increase" /\ ti' = ti + 1
        \/ pc = "increase" /\ pc' = "release"
        \/ InTmp(c)' = 0
    <3>1. CASE BeginRound \/ NextProducer
      <4>1. tmp' = <<>> /\ pc' \in {"begin", "drain"}
        BY <3>1 DEF BeginRound, NextProducer, Goto
      <4>2. QED BY <2>2, <4>1 DEF InTmp
    <3>2. CASE Drained \/ Produce \/ NextConsumer \/ NoConsumer
      BY <3>2 DEF Drained, Produce, NextConsumer, NoConsumer, Goto
    <3>3. QED BY <1>6, <3>1, <3>2
  <2>4. ASSUME NEW t \in DOMAIN To, Due(t, c)' PROVE Due(t, c)
    BY <1>1, <1>4, <2>1, <2>3, <2>4 DEF Due
  <2>5. QED BY <1>2, <1>3, <2>4
<1>7. CASE Drain
  <2>1. PICK x \in Clauses : Moves(c, One(x, c), 0, 0, 0, -One(x, c), 0, 0) BY <1>7, DrainMoves
  <2>2. pc = "drain" /\ pc' = "drain" BY <1>7 DEF Drain
  <2>3. /\ InTmp(c)' = InTmp(c) + One(x, c) /\ Total(c, clauses)' = Total(c, clauses)
        /\ Total(c, exports)' = Total(c, exports) + -One(x, c)
    BY <1>1, <2>1 DEF Moves
  <2>4. Total(c, exports)' \in Nat
    <3>1. exports' \in Families(Solvers, Clauses) /\ From[fi] \in Solvers
      <4>1. From[fi] \in Solvers BY <1>7, FromTo DEF Drain
      <4>2. exports \in Families(Solvers, Clauses) BY DEF TypeInv, BufferTypes
      <4>3. TailTaken(Clauses, Solvers, exports, From[fi], exports')
        BY <1>7, <4>1, <4>2, FamilyTail, SharerAssumption DEF Drain
      <4>4. QED BY <4>1, <4>3 DEF TailTaken
    <3>2. QED BY <3>1, TotalSplit, SharerAssumption
  <2>5. ASSUME NEW t \in DOMAIN To, Due(t, c)' PROVE Due(t, c)
    BY <1>1, <1>5, <2>2, <2>3, <2>4, <2>5 DEF Due
  <2>6. QED BY <1>2, <1>3, <2>5
<1>8. CASE Store
  <2>1. k <= Len(tmp) /\ pc = "store" /\ pc' = "store" BY <1>8 DEF Store
  <2>2. PICK x \in Clauses : x = tmp[k] /\ InTmp(x) > 0 BY <2>1, TmpHeld
  <2>3. x \notin released
    <3>1. InTmp(x) \in Nat /\ Total(x, clauses) \in Nat /\ Total(x, exports) \in Nat BY HolderTypes
    <3>2. Owned(x) > 0 BY <2>2, <3>1 DEF Owned
    <3>3. QED BY <3>2 DEF OwnedOnce
  <2>4. \/ Moves(c, -One(x, c), 0, 0, One(x, c), 0, 0, 0)
        \/ Moves(c, -One(x, c), 0, 0, 0, 0, 0, 0)
    BY <1>8, <2>2, <2>3, StoreMoves
  <2>5. /\ InTmp(c)' = InTmp(c) + -One(x, c) /\ Total(c, exports)' = Total(c, exports)
        /\ \/ Total(c, clauses)' = Total(c, clauses)
           \/ Total(c, clauses)' = Total(c, clauses) + One(x, c)
    BY <1>1, <2>4 DEF Moves
  <2>6. ASSUME NEW t \in DOMAIN To, Due(t, c)' PROVE Due(t, c)
    <3>1. CASE x = c BY <2>1, <2>2, <3>1 DEF Due
    <3>2. CASE x # c
      <4>1. One(x, c) = 0 BY <3>2, OneType
      <4>2. QED BY <1>1, <2>1, <2>5, <2>6, <4>1 DEF Due
    <3>3. QED BY <3>1, <3>2
  <2>7. QED BY <1>2, <1>3, <2>6
<1>9. CASE Select
  <2>1. pc = "store" /\ pc' = "selecting" BY <1>9 DEF Select, Goto
  <2>2. Moves(c, 0, 0, 0, 0, 0, 0, 0) BY <1>9, SelectMoves
  <2>3. \A t \in DOMAIN To : Due(t, c)' => Due(t, c) BY <1>1, <2>1, <2>2 DEF Due, Moves
  <2>4. QED BY <1>2, <1>3, <2>3
<1>10. CASE SelectTurn
  <2>1. pc = "selecting" /\ pc' \in {"selecting", "produce"} BY <1>10 DEF SelectTurn
  <2>2. PICK n \in Nat : Moves(c, n, 0, 0, -n, 0, 0, 0) /\ n <= Total(c, clauses)
    BY <1>10, SelectTurnMoves
  <2>3. /\ InTmp(c)' = InTmp(c) + n /\ Total(c, clauses)' = Total(c, clauses) + -n
        /\ Total(c, exports)' = Total(c, exports) /\ n <= Total(c, clauses)
    BY <1>1, <2>2 DEF Moves
  <2>4. ASSUME NEW t \in DOMAIN To, Due(t, c)' PROVE Due(t, c)
    <3>1. \/ Total(c, clauses)' + Total(c, exports)' > 0 \/ InTmp(c)' > 0 BY <2>4 DEF Due
    <3>2. Total(c, clauses) + Total(c, exports) > 0 \/ InTmp(c) > 0 BY <1>1, <2>3, <3>1
    <3>3. QED BY <2>1, <3>2 DEF Due
  <2>5. QED BY <1>2, <1>3, <2>4
<1>11. CASE Increase
  <2>1. /\ pc = "increase" /\ ti' = ti /\ pc' \in {"increase", "push"}
    BY <1>11 DEF Increase
  <2>2. /\ InTmp(c)' = InTmp(c) /\ Total(c, clauses)' = Total(c, clauses)
        /\ Total(c, exports)' = Total(c, exports)
    BY <1>1, <1>11, IncreaseMoves DEF Moves
  <2>3. \A t \in DOMAIN To : Due(t, c)' => Due(t, c) BY <1>1, <1>4, <2>1, <2>2 DEF Due
  <2>4. QED BY <1>2, <1>3, <2>3
<1>12. CASE Release
  <2>1. pc = "release" /\ pc' = "release" BY <1>12 DEF Release
  <2>2. /\ Total(c, clauses)' = Total(c, clauses) /\ Total(c, exports)' = Total(c, exports)
    BY <1>1, <1>12, ReleaseMoves DEF Moves
  <2>3. \A t \in DOMAIN To : Due(t, c)' => Due(t, c) BY <1>1, <2>1, <2>2 DEF Due
  <2>4. QED BY <1>2, <1>3, <2>3
<1>13. QED BY <1>6, <1>7, <1>8, <1>9, <1>10, <1>11, <1>12 DEF Round

DInv == DueIsNew /\ AtMostOnce

LEMMA CallbackDue ==
  ASSUME IInv, DInv, NEW s \in Solvers, Callback(s)
  PROVE  DInv'
<1> USE DEF IInv, DInv
<1>1. \A n \in DOMAIN To : To[n] \in Solvers BY SharerAssumption
<1>2. ASSUME \A c \in Clauses, t \in Solvers : Got(t, c)' = Got(t, c),
             \A c \in Clauses : from'[c] = NoSolver => from[c] = NoSolver,
             \A c \in Clauses : \/ \A n \in DOMAIN To : Due(n, c)' => Due(n, c)
                                \/ from[c] = NoSolver
      PROVE  DInv'
  <2>1. ASSUME NEW c \in Clauses, NEW n \in DOMAIN To, Due(n, c)' PROVE Got(To[n], c)' = 0
    BY <1>1, <1>2, <2>1 DEF DueIsNew
  <2>2. ASSUME NEW c \in Clauses, from'[c] = NoSolver, NEW t \in Solvers PROVE Got(t, c)' = 0
    BY <1>2, <2>2 DEF DueIsNew
  <2>3. DueIsNew' BY <2>1, <2>2 DEF DueIsNew
  <2>4. AtMostOnce' BY <1>2 DEF AtMostOnce
  <2>5. QED BY <2>3, <2>4
<1>3. ASSUME NEW c \in Clauses, UNCHANGED <<clauses, exports, pc, ti, k, tmp>>
      PROVE  \A n \in DOMAIN To : Due(n, c)' => Due(n, c)
  <2>1. InTmp(c)' = InTmp(c) /\ Pending(c)' = Pending(c) BY <1>3 DEF InTmp, Pending
  <2>2. QED BY <1>3, <2>1 DEF Due
<1>4. ASSUME NEW x \in Clauses, ExportClause(s, x) PROVE DInv'
  <2> USE <1>4 DEF ExportClause
  <2>1. \A c \in Clauses, t \in Solvers : Got(t, c)' = Got(t, c) BY DEF Got, solverVars
  <2>2. \A c \in Clauses : from'[c] = NoSolver => from[c] = NoSolver
    BY DEF TypeInv, ClauseTypes
  <2>3. ASSUME NEW c \in Clauses, x # c PROVE \A n \in DOMAIN To : Due(n, c)' => Due(n, c)
    <3>1. Moves(c, 0, 0, 0, 0, One(x, c), 0, 0) /\ One(x, c) = 0 BY <2>3, ExportMoves, OneType
    <3>2. /\ Total(c, clauses)' = Total(c, clauses) /\ Total(c, exports)' = Total(c, exports)
          /\ InTmp(c)' = InTmp(c) /\ Pending(c)' = Pending(c)
      BY <3>1, HolderTypes DEF Moves
    <3>3. UNCHANGED <<pc, ti>> BY DEF loopVars
    <3>4. QED BY <3>2, <3>3 DEF Due
  <2>4. QED BY <1>2, <2>1, <2>2, <2>3
<1>5. CASE ImportUnit(s) \/ ImportClause(s)
  <2>1. \A c \in Clauses, t \in Solvers : Got(t, c)' = Got(t, c) BY <1>5, ReceivedStays
  <2>2. from' = from /\ UNCHANGED <<clauses, exports, pc, ti, k, tmp>>
    BY <1>5 DEF ImportUnit, ImportClause, Receive, loopVars, dbVars
  <2>3. QED BY <1>2, <1>3, <2>1, <2>2
<1>6. CASE ReleaseImported(s)
  <2>1. \A c \in Clauses, t \in Solvers : Got(t, c)' = Got(t, c)
    BY <1>6 DEF Got, ReleaseImported, bufferVars
  <2>2. from' = from /\ UNCHANGED <<clauses, exports, pc, ti, k, tmp>>
    BY <1>6 DEF ReleaseImported, ReleaseClause, bufferVars, loopVars, dbVars
  <2>3. QED BY <1>2, <1>3, <2>1, <2>2
<1>7. QED BY <1>4, <1>5, <1>6 DEF Callback

LEMMA PushDue ==
  ASSUME ConsumersDiffer, IInv, DInv, Push
  PROVE  DInv'
<1> USE DEF IInv, DInv
<1>1. k <= Len(tmp) /\ pc = "push" /\ ti <= Len(To) /\ UNCHANGED <<from, pc, ti, tmp, clauses, exports>>
  BY DEF Push, Others, dbVars
<1>2. PICK x \in Clauses : x = tmp[k] /\ InTmp(x) > 0 BY <1>1, TmpHeld
<1>3. ti \in DOMAIN To /\ ti \in Nat /\ \A n \in DOMAIN To : To[n] \in Solvers /\ n \in Nat
  BY <1>1, SharerAssumption DEF TypeInv, LoopTypes
<1>4. PICK s \in Solvers : s = To[ti] BY <1>3
<1>5. \A c \in Clauses : Handed(x, s, c) BY <1>2, <1>4, PushMoves
<1>6. \A y, c : One(y, c) \in {0, 1} /\ (y # c => One(y, c) = 0) /\ One(y, y) = 1 BY OneType
<1>7. ASSUME NEW c \in Clauses, NEW t \in Solvers
      PROVE  Got(t, c)' = Got(t, c) + (IF t = s THEN One(x, c) ELSE 0) /\ Got(t, c) \in Nat
  <2>1. received' = received BY DEF Push, solverVars
  <2>2. received[t] \in Seq(Clauses) /\ units[t] \in Seq(Clauses) /\ imports[t] \in Seq(Clauses)
    BY DEF TypeInv, BufferTypes, Families
  <2>3. /\ Count(c, received[t]) \in Nat /\ Count(c, units[t]) \in Nat
        /\ Count(c, imports[t]) \in Nat
    BY <2>2, CountType
  <2>4. \/ /\ Count(c, units'[t]) = Count(c, units[t]) + (IF t = s THEN One(x, c) ELSE 0)
           /\ imports' = imports
        \/ /\ Count(c, imports'[t]) = Count(c, imports[t]) + (IF t = s THEN One(x, c) ELSE 0)
           /\ units' = units
    BY <1>5 DEF Handed
  <2>5. Got(t, c) = Count(c, received[t]) + Count(c, units[t]) + Count(c, imports[t])
    BY DEF Got
  <2>6. Got(t, c)' = Count(c, received[t]) + Count(c, units'[t]) + Count(c, imports'[t])
    BY <2>1 DEF Got
  <2>7. One(x, c) \in {0, 1} BY <1>6
  <2>8. QED BY <2>3, <2>4, <2>5, <2>6, <2>7
<1>8. ASSUME NEW c \in Clauses
      PROVE  /\ InTmp(c)' = InTmp(c) /\ Pending(c)' = Pending(c) - One(x, c)
             /\ Pending(c) \in Nat /\ InTmp(c) \in Nat /\ Pending(c) <= InTmp(c)
             /\ Total(c, clauses) \in Nat /\ Total(c, exports) \in Nat
  <2>1. InTmp(c) \in Nat /\ Pending(c) \in Nat /\ Total(c, clauses) \in Nat /\ Total(c, exports) \in Nat
    BY HolderTypes
  <2>2. InTmp(c)' = InTmp(c) + 0 /\ Pending(c)' = Pending(c) + -One(x, c)
    BY <1>5 DEF Handed, Moves
  <2>3. Pending(c) <= InTmp(c)
    <3>1. /\ Count(c, SubSeq(tmp, 1, k - 1)) \in Nat /\ Count(c, SubSeq(tmp, k, Len(tmp))) \in Nat
          /\ Count(c, tmp) = Count(c, SubSeq(tmp, 1, k - 1)) + Count(c, SubSeq(tmp, k, Len(tmp)))
      BY <1>1, TmpElement, TmpParts
    <3>2. QED BY <1>1, <3>1 DEF InTmp, Pending
  <2>4. QED BY <1>6, <2>1, <2>2, <2>3
<1>9. InTmp(x) = 1 /\ Pending(x) = 1 /\ Total(x, clauses) = 0 /\ Total(x, exports) = 0
  <2>1. Owned(x) <= 1 BY DEF OwnedOnce
  <2>2. Pending(x) > 0
    <3>1. /\ Count(x, SubSeq(tmp, k, Len(tmp))) = One(tmp[k], x) + Count(x, SubSeq(tmp, k + 1, Len(tmp)))
          /\ Count(x, SubSeq(tmp, k + 1, Len(tmp))) \in Nat
      BY <1>1, TmpElement, TmpParts, SMTT(30)
    <3>2. QED BY <1>1, <1>2, <1>6, <3>1 DEF Pending
  <2>3. QED BY <1>2, <1>8, <2>1, <2>2 DEF Owned
<1>10. Due(ti, x) BY <1>1, <1>3, <1>9 DEF Due
<1>11. Got(s, x) = 0 BY <1>3, <1>4, <1>10 DEF DueIsNew
<1>12. ASSUME NEW c \in Clauses, NEW n \in DOMAIN To, Due(n, c)' PROVE Got(To[n], c)' = 0
  <2>1. CASE c # x
    <3>1. Due(n, c) BY <1>1, <1>6, <1>8, <1>12, <2>1 DEF Due
    <3>2. Got(To[n], c) = 0 BY <3>1 DEF DueIsNew
    <3>3. QED BY <1>3, <1>6, <1>7, <2>1, <3>2
  <2>2. CASE c = x
    <3>1. Pending(x)' = 0 BY <1>6, <1>8, <1>9
    <3>2. n > ti BY <1>1, <1>3, <1>9, <1>12, <2>2, <3>1 DEF Due
    <3>3. Due(n, x) BY <1>1, <1>9, <3>2 DEF Due
    <3>4. Got(To[n], x) = 0 BY <3>3 DEF DueIsNew
    <3>5. To[n] # s BY <1>3, <1>4, <3>2 DEF ConsumersDiffer
    <3>6. QED BY <1>3, <1>7, <2>2, <3>4, <3>5
  <2>3. QED BY <2>1, <2>2
<1>13. ASSUME NEW c \in Clauses, from'[c] = NoSolver, NEW t \in Solvers PROVE Got(t, c)' = 0
  <2>1. from[x] # NoSolver BY <1>2, HeldIsAlive
  <2>2. c # x BY <1>1, <1>13, <2>1
  <2>3. Got(t, c) = 0 BY <1>1, <1>13 DEF DueIsNew
  <2>4. QED BY <1>6, <1>7, <2>2, <2>3
<1>14. ASSUME NEW c \in Clauses, NEW t \in Solvers PROVE Got(t, c)' <= 1
  <2>1. Got(t, c) <= 1 BY DEF AtMostOnce
  <2>2. CASE t = s /\ c = x BY <1>6, <1>7, <1>11, <2>2
  <2>3. CASE ~(t = s /\ c = x) BY <1>6, <1>7, <2>1, <2>3
  <2>4. QED BY <2>2, <2>3
<1>15. DueIsNew' BY <1>12, <1>13 DEF DueIsNew
<1>16. AtMostOnce' BY <1>14 DEF AtMostOnce
<1>17. QED BY <1>15, <1>16

\* When a consumer appears once in the list of consumers, no solver is given a
\* clause twice: whatever was handed to it, imported or still in a buffer, was
\* handed once (SharingStrategy's doSharing and the import callbacks).
THEOREM NobodyGetsItTwice == ConsumersDiffer => (Spec => []AtMostOnce)
<1> SUFFICES ASSUME ConsumersDiffer PROVE Spec => []AtMostOnce OBVIOUS
<1>1. Init => DInv
  <2>1. SUFFICES ASSUME Init PROVE DInv OBVIOUS
  <2>2. \A c : Count(c, <<>>) = 0 BY CountEmpty
  <2>3. \A s \in Solvers, c \in Clauses : Got(s, c) = 0 BY <2>1, <2>2 DEF Init, Got
  <2>4. \A n \in DOMAIN To : To[n] \in Solvers BY SharerAssumption
  <2>5. QED BY <2>3, <2>4 DEF DInv, DueIsNew, AtMostOnce
<1>2. IInv /\ DInv /\ [Next]_vars => DInv'
  <2>1. SUFFICES ASSUME IInv, DInv, [Next]_vars PROVE DInv' OBVIOUS
  <2>2. CASE Sharer
    <3>1. CASE Push BY <2>1, <3>1, PushDue
    <3>2. CASE Round /\ ~Push
      <4>1. \A c \in Clauses : /\ \A n \in DOMAIN To : Due(n, c)' => Due(n, c)
                               /\ \A s \in Solvers : Got(s, c)' = Got(s, c)
                               /\ from' = from
        BY <2>1, <3>2, RoundDue
      <4>2. \A n \in DOMAIN To : To[n] \in Solvers BY SharerAssumption
      <4>3. DueIsNew' BY <2>1, <4>1, <4>2 DEF DInv, DueIsNew
      <4>4. AtMostOnce' BY <2>1, <4>1 DEF DInv, AtMostOnce
      <4>5. QED BY <4>3, <4>4 DEF DInv
    <3>3. QED BY <2>2, <3>1, <3>2 DEF Sharer
  <2>3. CASE \E s \in Solvers : Solver(s) BY <2>1, <2>3, CallbackDue DEF Solver
  <2>4. CASE UNCHANGED vars
    <3>1. \A c \in Clauses, s \in Solvers : Got(s, c)' = Got(s, c)
      BY <2>4 DEF vars, Got, bufferVars, solverVars
    <3>2. UNCHANGED <<from, pc, ti, k, tmp, clauses, exports>>
      BY <2>4 DEF vars, clauseVars, loopVars, bufferVars, dbVars
    <3>3. ASSUME NEW c \in Clauses, NEW n \in DOMAIN To PROVE Due(n, c)' => Due(n, c)
      <4>1. InTmp(c)' = InTmp(c) /\ Pending(c)' = Pending(c) BY <3>2 DEF InTmp, Pending
      <4>2. QED BY <3>2, <4>1 DEF Due
    <3>4. \A n \in DOMAIN To : To[n] \in Solvers BY SharerAssumption
    <3>5. DueIsNew' BY <2>1, <3>1, <3>2, <3>3, <3>4 DEF DInv, DueIsNew
    <3>6. AtMostOnce' BY <2>1, <3>1 DEF DInv, AtMostOnce
    <3>7. QED BY <3>5, <3>6 DEF DInv
  <2>5. QED BY <2>1, <2>2, <2>3, <2>4 DEF Next
<1>3. DInv => AtMostOnce BY DEF DInv
<1>4. QED BY <1>1, <1>2, <1>3, IInvariant, PTL DEF Spec
=============================================================================
