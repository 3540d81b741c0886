-------------------------- MODULE ClauseBufferProofs --------------------------
(***************************************************************************)
(* Theorems about a ClauseBuffer between one producer and one consumer, for *)
(* any number of nodes and of additions: the way the program uses a buffer  *)
(* when a solver has one sharer.                                            *)
(***************************************************************************)
EXTENDS ClauseBuffer, FiniteSetTheorems, SequenceTheorems, TLAPS

Nats == INSTANCE Induction WITH Op <- LAMBDA p, d, x : d  \* for its lemmas about numbers

\* A sequence without repetition is no longer than what it is made of.
LEMMA SeqBound ==
  ASSUME NEW S, IsFiniteSet(S), NEW seq \in Seq(S),
         \A i, j \in DOMAIN seq : seq[i] = seq[j] => i = j
  PROVE  Len(seq) \in Nat /\ Cardinality(S) \in Nat /\ Len(seq) <= Cardinality(S)
<1>1. Len(seq) \in Nat /\ DOMAIN seq = 1 .. Len(seq) BY LenProperties
<1>2. seq \in [1 .. Len(seq) -> S] BY <1>1, ElementOfSeq
<1>3. seq \in Injection(1 .. Len(seq), S) BY <1>1, <1>2 DEF Injection, IsInjective
<1>4. Cardinality(1 .. Len(seq)) <= Cardinality(S) BY <1>3, FS_Injection
<1>5. Cardinality(1 .. Len(seq)) = Len(seq) BY ONLY <1>1, FS_Interval
<1>6. QED BY <1>1, <1>4, <1>5, FS_CardinalityType

OneEach == \E p, c : Producers = {p} /\ Consumers = {c}

-----------------------------------------------------------------------------
(* The inductive invariant, for producer p and consumer c. *)

Adding == {"readTail", "readNext", "check", "link"}
Linked == {"count", "swing"}
Getting == {"getHead", "getTail", "getNext", "getCheck", "getHelp", "getClause",
            "getSwing", "free", "uncount"}
Labels == {"idle"} \cup Adding \cup Linked \cup Getting

TypeInv ==
  /\ pc \in [Threads -> Labels]
  /\ allocated \subseteq Nodes
  /\ clause \in [Nodes -> {NoClause} \cup (Producers \X Nat)]
  /\ next \in [Nodes -> Nodes \cup {NULL}]
  /\ node \in [Producers -> Nodes \cup {NULL}]
  /\ myHead \in [Consumers -> Nodes \cup {NULL}]
  /\ myTail \in [Threads -> Nodes \cup {NULL}]
  /\ myNext \in [Threads -> Nodes \cup {NULL}]
  /\ myClause \in [Consumers -> {NoClause} \cup (Producers \X Nat)]
  /\ sent \in [Producers -> 0 .. MaxAdds]
  /\ taken \in [Consumers -> Seq(Producers \X Nat)]
  /\ visible \in [Consumers -> Nat]

last == List[Len(List)]

\* The nodes of the list are different and allocated, and hold what was sent
\* and not taken, in order.
ListInv(p, c) ==
  /\ List \in Paths /\ IsPath(List, head, next)
  /\ \A i, j \in DOMAIN List : List[i] = List[j] => i = j
  /\ \A i \in DOMAIN List : List[i] \in allocated
  /\ sent[p] = Len(taken[c]) + Len(List) - 1
  /\ \A i \in DOMAIN List : i > 1 => clause[List[i]] = <<p, Len(taken[c]) + i - 1>>
  /\ \A i \in DOMAIN taken[c] : taken[c][i] = <<p, i>>

\* The tail is the last node, or the one before it while addClause is at work.
TailInv(p) ==
  \/ tail = last
  \/ /\ pc[p] \in Linked /\ Len(List) > 1
     /\ tail = List[Len(List) - 1] /\ myTail[p] = tail

ProducerInv(p, c) ==
  /\ pc[p] \in {"idle"} \cup Adding \cup Linked
  /\ pc[p] \in Adding =>
       /\ node[p] \in allocated /\ \A i \in DOMAIN List : node[p] # List[i]
       /\ next[node[p]] = NULL /\ clause[node[p]] = <<p, sent[p] + 1>>
       /\ sent[p] < MaxAdds
  /\ pc[p] \in {"readNext", "check", "link"} => myTail[p] = last
  /\ pc[p] \in {"check", "link"} => myNext[p] = NULL
  /\ pc[p] \in Linked => node[p] = last

\* What the consumer has read is still so, for it alone moves the head.
ConsumerInv(p, c) ==
  /\ pc[c] \in {"idle"} \cup Getting
  /\ pc[c] \in {"getTail", "getNext", "getCheck", "getHelp", "getClause", "getSwing"} =>
       myHead[c] = head
  /\ pc[c] \in {"getNext", "getCheck"} => myTail[c] = head \/ tail # head
  /\ pc[c] = "getCheck" =>
       /\ myNext[c] # NULL \/ myTail[c] # head => Len(List) > 1 /\ myNext[c] = List[2]
       /\ myNext[c] = NULL => visible[c] <= Len(taken[c])
  /\ pc[c] = "getHelp" => Len(List) > 1 /\ myTail[c] = head /\ myNext[c] = List[2]
  /\ pc[c] \in {"getClause", "getSwing"} => Len(List) > 1 /\ myNext[c] = List[2] /\ tail # head
  /\ pc[c] = "getSwing" => myClause[c] = clause[List[2]]
  /\ pc[c] = "free" =>
       /\ myHead[c] \in allocated /\ \A i \in DOMAIN List : myHead[c] # List[i]
       /\ pc[p] \in Adding => myHead[c] # node[p]
  /\ visible[c] <= sent[p]

IInv(p, c) ==
  TypeInv /\ ListInv(p, c) /\ TailInv(p) /\ ProducerInv(p, c) /\ ConsumerInv(p, c) /\ ~dangling

-----------------------------------------------------------------------------
(* Paths. *)

LEMMA PathType ==
  ASSUME NEW path \in Paths
  PROVE  /\ path \in Seq(Nodes) /\ Len(path) \in Nat \ {0} /\ Len(path) <= Cardinality(Nodes)
         /\ DOMAIN path = 1 .. Len(path)
<1>1. Cardinality(Nodes) \in Nat BY NodeAssumption, FS_CardinalityType
<1>2. PICK n \in 1 .. Cardinality(Nodes) : path \in [1 .. n -> Nodes] BY DEF Paths
<1>3. n \in Nat \ {0} /\ n <= Cardinality(Nodes) BY <1>1, <1>2
<1>4. path \in Seq(Nodes) /\ Len(path) = n BY <1>2, <1>3
<1>5. QED BY <1>2, <1>3, <1>4

LEMMA PathUnique ==
  ASSUME NEW first, NEW link, NEW a \in Paths, NEW b \in Paths,
         IsPath(a, first, link), IsPath(b, first, link)
  PROVE  \A i \in DOMAIN a : i \in DOMAIN b /\ a[i] = b[i]
<1> DEFINE S == {i \in Nat : i \in DOMAIN a => i \in DOMAIN b /\ a[i] = b[i]}
<1>1. /\ a \in Seq(Nodes) /\ Len(a) \in Nat \ {0} /\ DOMAIN a = 1 .. Len(a)
      /\ b \in Seq(Nodes) /\ Len(b) \in Nat \ {0} /\ DOMAIN b = 1 .. Len(b)
  BY PathType
<1>2. 0 \in S BY <1>1
<1>3. ASSUME NEW n \in Nat, n \in S PROVE n + 1 \in S
  <2>1. CASE n = 0 BY <1>1, <2>1 DEF IsPath
  <2>2. CASE n # 0
    <3>1. SUFFICES ASSUME n + 1 \in DOMAIN a PROVE n + 1 \in DOMAIN b /\ a[n + 1] = b[n + 1]
      OBVIOUS
    <3>2. n \in DOMAIN a BY <1>1, <2>2, <3>1
    <3>3. n \in DOMAIN b /\ a[n] = b[n] BY <1>3, <3>2
    <3>4. link[a[n]] = a[n + 1] /\ a[n + 1] \in Nodes BY <1>1, <3>1, <3>2 DEF IsPath
    <3>5. link[b[n]] = IF n + 1 \in DOMAIN b THEN b[n + 1] ELSE NULL BY <3>3 DEF IsPath
    <3>6. QED BY <3>3, <3>4, <3>5, NodeAssumption
  <2>3. QED BY <2>1, <2>2
<1>4. Nat \subseteq S
  <2> HIDE DEF S
  <2>1. QED BY <1>2, <1>3, Nats!NatSetInduction
<1>5. QED BY <1>1, <1>4

\* There is one path, and the list is it.
LEMMA PathIs ==
  ASSUME NEW first, NEW link, NEW a \in Paths, IsPath(a, first, link)
  PROVE  PathFrom(first, link) = a
<1> DEFINE b == CHOOSE path \in Paths : IsPath(path, first, link)
<1>1. b \in Paths /\ IsPath(b, first, link) OBVIOUS
<1>2. PathFrom(first, link) = b BY DEF PathFrom
<1> HIDE DEF b
<1>3. /\ a \in Seq(Nodes) /\ DOMAIN a = 1 .. Len(a) /\ Len(a) \in Nat
      /\ b \in Seq(Nodes) /\ DOMAIN b = 1 .. Len(b) /\ Len(b) \in Nat
  BY <1>1, PathType
<1>4. \A i \in DOMAIN a : i \in DOMAIN b /\ a[i] = b[i] BY <1>1, PathUnique
<1>5. \A i \in DOMAIN b : i \in DOMAIN a /\ b[i] = a[i] BY <1>1, PathUnique
<1>6. a = b BY <1>3, <1>4, <1>5
<1>7. QED BY <1>2, <1>6

Distinct(path) == \A i, j \in DOMAIN path : path[i] = path[j] => i = j

\* What a step may do to the list: nothing, a node at its end, the first one off.
LEMMA PathKept ==
  ASSUME NEW a \in Paths, NEW first, NEW link, NEW changed, IsPath(a, first, link),
         \A i \in DOMAIN a : changed[a[i]] = link[a[i]]
  PROVE  PathFrom(first, changed) = a /\ IsPath(a, first, changed)
<1>1. IsPath(a, first, changed) BY DEF IsPath
<1>2. QED BY <1>1, PathIs

Appends(path, x, link, changed) ==
  /\ \A i \in DOMAIN path : x # path[i]
  /\ link[x] = NULL
  /\ changed[path[Len(path)]] = x
  /\ \A m \in Nodes : m # path[Len(path)] => changed[m] = link[m]

LEMMA PathExtended ==
  ASSUME NEW a \in Paths, NEW first, NEW link,
         IsPath(a, first, link), Distinct(a),
         NEW x \in Nodes, NEW changed, Appends(a, x, link, changed)
  PROVE  /\ Append(a, x) \in Paths /\ IsPath(Append(a, x), first, changed)
         /\ Distinct(Append(a, x)) /\ PathFrom(first, changed) = Append(a, x)
<1> DEFINE n == Len(a)
           b == Append(a, x)
<1> USE DEF Appends
<1>1. a \in Seq(Nodes) /\ n \in Nat \ {0} /\ DOMAIN a = 1 .. n BY PathType
<1>2. \A i \in 1 .. n : a[i] \in Nodes BY <1>1
<1>3. /\ b \in Seq(Nodes) /\ Len(b) = n + 1 /\ DOMAIN b = 1 .. n + 1 /\ b[n + 1] = x
      /\ \A i \in 1 .. n : b[i] = a[i]
  BY <1>1
<1>4. Distinct(b)
  <2>1. SUFFICES ASSUME NEW i \in DOMAIN b, NEW j \in DOMAIN b, b[i] = b[j] PROVE i = j
    BY DEF Distinct
  <2>2. CASE i \in 1 .. n /\ j \in 1 .. n BY <1>1, <1>3, <2>1, <2>2 DEF Distinct
  <2>3. CASE ~(i \in 1 .. n /\ j \in 1 .. n) BY <1>1, <1>3, <2>1, <2>3
  <2>4. QED BY <2>2, <2>3
<1>5. Len(b) \in Nat /\ Cardinality(Nodes) \in Nat /\ Len(b) <= Cardinality(Nodes)
  BY <1>3, <1>4, SeqBound, NodeAssumption DEF Distinct
<1>6. b \in Paths
  <2>1. b \in [1 .. n + 1 -> Nodes] BY <1>3, LenProperties
  <2>2. n + 1 \in 1 .. Cardinality(Nodes) BY <1>1, <1>3, <1>5
  <2>3. QED BY <2>1, <2>2 DEF Paths
<1>7. IsPath(b, first, changed)
  <2>1. b[1] = first BY <1>1, <1>3 DEF IsPath
  <2>2. ASSUME NEW i \in DOMAIN b
        PROVE  changed[b[i]] = IF i + 1 \in DOMAIN b THEN b[i + 1] ELSE NULL
    <3>1. a[n] \in Nodes /\ x # a[n] BY <1>1, <1>2
    <3>2. CASE i = n + 1
      <4>1. changed[x] = NULL BY <3>1
      <4>2. ~(i + 1 \in 1 .. n + 1) BY <1>1, <3>2
      <4>3. QED BY <1>3, <3>2, <4>1, <4>2
    <3>3. CASE i = n
      <4>1. changed[a[n]] = x BY <3>1
      <4>2. i + 1 \in 1 .. n + 1 BY <1>1, <3>3
      <4>3. QED BY <1>1, <1>3, <3>3, <4>1, <4>2
    <3>4. CASE i \in 1 .. n /\ i # n
      <4>1. i + 1 \in 1 .. n BY <1>1, <3>4
      <4>2. a[i] # a[n] BY <1>1, <3>4 DEF Distinct
      <4>3. changed[a[i]] = link[a[i]] BY <1>2, <3>4, <4>2
      <4>4. link[a[i]] = a[i + 1] BY <1>1, <3>4, <4>1 DEF IsPath
      <4>5. QED BY <1>1, <1>3, <3>4, <4>1, <4>3, <4>4
    <3>5. QED BY <1>1, <1>3, <3>2, <3>3, <3>4
  <2>3. QED BY <2>1, <2>2 DEF IsPath
<1> HIDE DEF b
<1>8. PathFrom(first, changed) = b BY <1>6, <1>7, PathIs
<1>9. QED BY <1>4, <1>6, <1>7, <1>8 DEF b

LEMMA PathShortened ==
  ASSUME NEW a \in Paths, NEW first, NEW link, IsPath(a, first, link), Distinct(a), Len(a) > 1
  PROVE  LET b == Tail(a)
         IN  /\ b \in Paths /\ IsPath(b, a[2], link) /\ Distinct(b)
             /\ PathFrom(a[2], link) = b
             /\ Len(b) = Len(a) - 1 /\ \A i \in 1 .. Len(b) : b[i] = a[i + 1]
<1> DEFINE b == Tail(a)
           n == Len(a)
<1>1. /\ a \in Seq(Nodes) /\ n \in Nat \ {0} /\ DOMAIN a = 1 .. n
      /\ n <= Cardinality(Nodes) /\ Cardinality(Nodes) \in Nat
  BY PathType, NodeAssumption, FS_CardinalityType
<1>2. \A i \in 1 .. n : a[i] \in Nodes BY <1>1
<1>3. /\ b \in Seq(Nodes) /\ Len(b) = n - 1 /\ DOMAIN b = 1 .. n - 1
      /\ \A i \in 1 .. n - 1 : b[i] = a[i + 1]
  BY <1>1
<1>4. b \in Paths
  <2>1. b \in [1 .. n - 1 -> Nodes] BY <1>3, LenProperties
  <2>2. n - 1 \in 1 .. Cardinality(Nodes) BY <1>1
  <2>3. QED BY <2>1, <2>2 DEF Paths
<1>5. Distinct(b) BY <1>1, <1>3 DEF Distinct
<1>6. IsPath(b, a[2], link)
  <2>1. b[1] = a[2] BY <1>1, <1>3
  <2>2. ASSUME NEW i \in DOMAIN b
        PROVE  link[b[i]] = IF i + 1 \in DOMAIN b THEN b[i + 1] ELSE NULL
    <3>1. i \in 1 .. n - 1 /\ i + 1 \in 1 .. n /\ b[i] = a[i + 1] BY <1>1, <1>3
    <3>2. link[a[i + 1]] = IF (i + 1) + 1 \in 1 .. n THEN a[(i + 1) + 1] ELSE NULL
      BY <1>1, <3>1 DEF IsPath
    <3>3. (i + 1) + 1 \in 1 .. n <=> i + 1 \in 1 .. n - 1 BY <1>1, <3>1
    <3>4. QED BY <1>3, <3>1, <3>2, <3>3
  <2>3. QED BY <2>1, <2>2 DEF IsPath
<1> HIDE DEF b
<1>7. PathFrom(a[2], link) = b BY <1>4, <1>6, PathIs
<1>8. QED BY <1>1, <1>3, <1>4, <1>5, <1>6, <1>7 DEF b

-----------------------------------------------------------------------------
(* The steps. *)

LEMMA ListType ==
  ASSUME NEW p, NEW c, ListInv(p, c)
  PROVE  /\ List \in Seq(Nodes) /\ Len(List) \in Nat \ {0} /\ DOMAIN List = 1 .. Len(List)
         /\ head = List[1] /\ head \in Nodes /\ last \in Nodes
         /\ next[last] = NULL
         /\ \A i \in DOMAIN List : List[i] \in Nodes
         /\ Len(List) > 1 => next[head] = List[2]
<1>1. /\ List \in Seq(Nodes) /\ Len(List) \in Nat \ {0} /\ DOMAIN List = 1 .. Len(List)
      /\ IsPath(List, head, next)
  BY PathType DEF ListInv
<1>2. \A i \in DOMAIN List : List[i] \in Nodes BY <1>1
<1>3. head = List[1] BY <1>1 DEF IsPath
<1>4. Len(List) \in DOMAIN List /\ 1 \in DOMAIN List /\ ~(Len(List) + 1 \in DOMAIN List) BY <1>1
<1>5. next[last] = NULL BY <1>1, <1>4 DEF IsPath, last
<1>6. Len(List) > 1 => next[head] = List[2]
  <2>1. Len(List) > 1 => 1 + 1 \in DOMAIN List BY <1>1
  <2>2. 1 + 1 = 2 OBVIOUS
  <2>3. QED BY <1>1, <1>3, <1>4, <2>1, <2>2 DEF IsPath
<1>7. QED BY <1>1, <1>2, <1>3, <1>4, <1>5, <1>6 DEF last

LEMMA Ends ==
  ASSUME NEW p, NEW c, ListInv(p, c), TailInv(p)
  PROVE  /\ tail \in Nodes /\ head \in allocated /\ last \in allocated
         /\ tail # head => Len(List) > 1
         /\ Len(List) > 1 => /\ last # head
                             /\ List[2] \in Nodes /\ List[2] \in allocated /\ List[2] # NULL
                             /\ 2 \in DOMAIN List
         /\ Len(List) = 1 \/ Len(List) > 1
         /\ Len(List) = 1 => last = head
<1>1. /\ Len(List) \in Nat \ {0} /\ DOMAIN List = 1 .. Len(List) /\ head = List[1]
      /\ last \in Nodes /\ \A i \in DOMAIN List : List[i] \in Nodes
  BY ListType
<1>2. \A n \in Nat \ {0} : /\ n \in 1 .. n /\ 1 \in 1 .. n
                            /\ (n = 1 \/ (n > 1 /\ 2 \in 1 .. n /\ n - 1 \in 1 .. n))
  OBVIOUS
<1>3. Len(List) > 1 => Len(List) # 1 BY <1>1
<1>4. Len(List) > 1 => last # head BY <1>1, <1>2, <1>3 DEF ListInv, last
<1>5. Len(List) = 1 \/ Len(List) > 1 BY <1>1, <1>2
<1>6. tail \in Nodes BY <1>1, <1>2 DEF TailInv
<1>7. Len(List) = 1 => tail = head /\ last = head BY <1>1, <1>3 DEF TailInv, last
<1>8. head \in allocated /\ last \in allocated BY <1>1, <1>2 DEF ListInv, last
<1>9. Len(List) > 1 => /\ List[2] \in Nodes /\ List[2] \in allocated
                       /\ 2 \in DOMAIN List
  BY <1>1, <1>2, <1>3 DEF ListInv
<1>10. QED BY <1>4, <1>5, <1>6, <1>7, <1>8, <1>9, NodeAssumption

\* A step that leaves the nodes of the list and the head alone.
LEMMA ListKept ==
  ASSUME NEW p, NEW c, ListInv(p, c), UNCHANGED head,
         \A i \in DOMAIN List : next'[List[i]] = next[List[i]]
  PROVE  List' = List /\ last' = last /\ IsPath(List, head', next')
<1>1. PathFrom(head, next') = List /\ IsPath(List, head, next') BY PathKept DEF ListInv
<1>2. List' = List BY <1>1 DEF List
<1>3. QED BY <1>1, <1>2 DEF last

LEMMA QuietList ==
  ASSUME NEW p, NEW c, ListInv(p, c), UNCHANGED <<head, heapVars, sent, taken>>
  PROVE  List' = List /\ last' = last /\ ListInv(p, c)'
<1>1. List' = List /\ last' = last /\ IsPath(List, head', next') BY ListKept DEF heapVars
<1>2. QED BY <1>1 DEF ListInv, heapVars

\* The steps of addClause that only read.
LEMMA ProducerReads ==
  ASSUME NEW p, NEW c, Producers = {p}, Consumers = {c}, IInv(p, c),
         ReadTail(p) \/ ReadNext(p) \/ CheckTail(p) \/ Count(p)
  PROVE  IInv(p, c)'
<1> USE DEF Goto
<1>1. p # c /\ p \in Threads /\ c \in Threads BY ThreadAssumption DEF Threads
<1>2. /\ TypeInv /\ ListInv(p, c) /\ TailInv(p) /\ ProducerInv(p, c)
      /\ ConsumerInv(p, c) /\ ~dangling
  BY DEF IInv
<1>3. UNCHANGED <<head, tail, heapVars, sent, taken, visible>>
  BY DEF ReadTail, ReadNext, CheckTail, Count, heapVars, rootVars, callVars
<1>4. List' = List /\ last' = last /\ ListInv(p, c)' BY <1>2, <1>3, QuietList
<1>5. UNCHANGED <<allocated, clause, next>> BY <1>3 DEF heapVars
<1>6. /\ List \in Seq(Nodes) /\ Len(List) \in Nat \ {0} /\ DOMAIN List = 1 .. Len(List)
      /\ next[last] = NULL /\ last \in allocated /\ last \in Nodes
  <2>1. /\ List \in Seq(Nodes) /\ Len(List) \in Nat \ {0} /\ DOMAIN List = 1 .. Len(List)
        /\ next[last] = NULL /\ last \in Nodes
    BY <1>2, ListType
  <2>2. Len(List) \in DOMAIN List BY <2>1
  <2>3. QED BY <1>2, <2>1, <2>2 DEF ListInv, last
<1>7. CASE ReadTail(p)
  <2> USE <1>7 DEF ReadTail
  <2>0. pc' \in [Threads -> Labels] BY <1>1, <1>2 DEF TypeInv, Labels, Adding, Linked
  <2>2. tail = last BY <1>2 DEF TailInv, Linked
  <2>1. TypeInv' BY <1>1, <1>2, <1>6, <2>0, <2>2 DEF TypeInv, heapVars, rootVars, callVars
  <2>3. TailInv(p)' BY <1>3, <1>4, <2>2 DEF TailInv
  <2>4. ProducerInv(p, c)'
    BY <1>1, <1>2, <1>3, <1>4, <1>5, <2>2 DEF TypeInv, ProducerInv, Adding, Linked, callVars
  <2>5. ConsumerInv(p, c)'
    BY <1>1, <1>2, <1>3, <1>4, <1>5 DEF TypeInv, ConsumerInv, Adding, Getting, callVars
  <2>6. QED BY <1>2, <1>4, <2>1, <2>3, <2>4, <2>5 DEF IInv
<1>8. CASE ReadNext(p)
  <2> USE <1>8 DEF ReadNext
  <2>0. pc' \in [Threads -> Labels] BY <1>1, <1>2 DEF TypeInv, Labels, Adding, Linked
  <2>1. myTail[p] = last BY <1>2 DEF ProducerInv
  <2>2. dangling' = FALSE /\ myNext' = [myNext EXCEPT ![p] = NULL]
    BY <1>2, <1>6, <2>1 DEF Access, NextOf
  <2>3. TypeInv' BY <1>1, <1>2, <2>0, <2>2 DEF TypeInv, heapVars, rootVars, callVars
  <2>4. TailInv(p)' BY <1>1, <1>2, <1>3, <1>4 DEF TailInv, Linked, TypeInv
  <2>5. ProducerInv(p, c)'
    BY <1>1, <1>2, <1>3, <1>4, <1>5, <2>2 DEF TypeInv, ProducerInv, Adding, Linked, callVars
  <2>6. ConsumerInv(p, c)'
    BY <1>1, <1>2, <1>3, <1>4, <1>5, <2>2 DEF TypeInv, ConsumerInv, Adding, Getting, callVars
  <2>7. QED BY <1>2, <1>4, <2>2, <2>3, <2>4, <2>5, <2>6 DEF IInv
<1>9. CASE CheckTail(p)
  <2> USE <1>9 DEF CheckTail, localVars
  <2>0. pc' \in [Threads -> Labels] BY <1>1, <1>2 DEF TypeInv, Labels, Adding, Linked
  <2>1. TypeInv' BY <1>1, <1>2, <2>0 DEF TypeInv, heapVars, rootVars, callVars
  <2>2. TailInv(p)' BY <1>1, <1>2, <1>3, <1>4 DEF TailInv, Linked, TypeInv
  <2>3. ProducerInv(p, c)'
    BY <1>1, <1>2, <1>3, <1>4, <1>5 DEF TypeInv, ProducerInv, Adding, Linked, callVars
  <2>4. ConsumerInv(p, c)'
    BY <1>1, <1>2, <1>3, <1>4, <1>5 DEF TypeInv, ConsumerInv, Adding, Getting, callVars
  <2>5. QED BY <1>2, <1>4, <2>1, <2>2, <2>3, <2>4 DEF IInv
<1>10. CASE Count(p)
  <2> USE <1>10 DEF Count, localVars
  <2>0. pc' \in [Threads -> Labels] BY <1>1, <1>2 DEF TypeInv, Labels, Adding, Linked
  <2>1. TypeInv' BY <1>1, <1>2, <2>0 DEF TypeInv, heapVars, rootVars, callVars
  <2>2. TailInv(p)' BY <1>1, <1>2, <1>3, <1>4 DEF TailInv, Linked, TypeInv
  <2>3. ProducerInv(p, c)'
    BY <1>1, <1>2, <1>3, <1>4, <1>5 DEF TypeInv, ProducerInv, Adding, Linked, callVars
  <2>4. ConsumerInv(p, c)'
    BY <1>1, <1>2, <1>3, <1>4, <1>5 DEF TypeInv, ConsumerInv, Adding, Getting, callVars
  <2>5. QED BY <1>2, <1>4, <2>1, <2>2, <2>3, <2>4 DEF IInv
<1>11. QED BY <1>7, <1>8, <1>9, <1>10

LEMMA ProducerAllocates ==
  ASSUME NEW p, NEW c, Producers = {p}, Consumers = {c}, IInv(p, c), NewElement(p)
  PROVE  IInv(p, c)'
<1> USE DEF NewElement
<1>1. p # c /\ p \in Threads /\ c \in Threads BY ThreadAssumption DEF Threads
<1>2. /\ TypeInv /\ ListInv(p, c) /\ TailInv(p) /\ ProducerInv(p, c)
      /\ ConsumerInv(p, c) /\ ~dangling
  BY DEF IInv
<1>3. PICK n \in Nodes \ allocated :
        /\ allocated' = allocated \cup {n}
        /\ clause' = [clause EXCEPT ![n] = <<p, sent[p] + 1>>]
        /\ next' = [next EXCEPT ![n] = NULL]
        /\ node' = [node EXCEPT ![p] = n]
  OBVIOUS
<1>4. /\ UNCHANGED <<head, tail, myHead, myTail, myNext, myClause, sent, taken, visible,
                     dangling>>
      /\ pc[p] = "idle" /\ pc' = [pc EXCEPT ![p] = "readTail"]
      /\ sent[p] < MaxAdds
  BY DEF rootVars, callVars, Goto
<1> HIDE DEF NewElement
<1>5. sent[p] \in Nat /\ Len(taken[c]) \in Nat BY <1>2, AddsAssumption DEF TypeInv
<1>6. /\ List \in Seq(Nodes) /\ Len(List) \in Nat \ {0} /\ DOMAIN List = 1 .. Len(List)
      /\ \A i \in DOMAIN List : List[i] \in Nodes /\ List[i] # n
  <2>1. /\ List \in Seq(Nodes) /\ Len(List) \in Nat \ {0} /\ DOMAIN List = 1 .. Len(List)
        /\ \A i \in DOMAIN List : List[i] \in Nodes
    BY <1>2, ListType
  <2>2. \A i \in DOMAIN List : List[i] # n BY <1>2, <1>3 DEF ListInv
  <2>3. QED BY <2>1, <2>2
<1>7. /\ next' \in [Nodes -> Nodes \cup {NULL}] /\ \A m \in Nodes \ {n} : next'[m] = next[m]
      /\ next'[n] = NULL
  BY <1>2, <1>3 DEF TypeInv
<1>8. /\ clause' \in [Nodes -> {NoClause} \cup (Producers \X Nat)]
      /\ \A m \in Nodes \ {n} : clause'[m] = clause[m]
      /\ clause'[n] = <<p, sent[p] + 1>>
  BY <1>2, <1>3, <1>5 DEF TypeInv
<1>9. List' = List /\ last' = last /\ IsPath(List, head', next')
  BY <1>2, <1>4, <1>6, <1>7, ListKept
<1>10. ListInv(p, c)' BY <1>2, <1>3, <1>4, <1>6, <1>8, <1>9 DEF ListInv
<1>11. pc' \in [Threads -> Labels] /\ pc'[p] = "readTail" /\ pc'[c] = pc[c]
  BY <1>1, <1>2, <1>4 DEF TypeInv, Labels, Adding
<1>12. node' \in [Producers -> Nodes \cup {NULL}] /\ node'[p] = n BY <1>2, <1>3 DEF TypeInv
<1>13. TypeInv' BY <1>2, <1>3, <1>4, <1>7, <1>8, <1>11, <1>12 DEF TypeInv
<1>14. TailInv(p)' BY <1>2, <1>4, <1>9 DEF TailInv, Linked
<1>15. ProducerInv(p, c)'
  BY <1>3, <1>4, <1>6, <1>7, <1>8, <1>9, <1>11, <1>12 DEF ProducerInv, Adding, Linked
<1>16. Len(List) > 1 => List[2] \in Nodes \ {n} BY <1>6
<1>17. ConsumerInv(p, c)'
  BY <1>2, <1>3, <1>4, <1>8, <1>9, <1>11, <1>12, <1>16 DEF ConsumerInv, Getting
<1>18. QED BY <1>2, <1>4, <1>10, <1>13, <1>14, <1>15, <1>17 DEF IInv

\* The exchange succeeds, for what addClause read is still so, and the new
\* node is the last one.
LEMMA ProducerLinks ==
  ASSUME NEW p, NEW c, Producers = {p}, Consumers = {c}, IInv(p, c), Link(p)
  PROVE  /\ IInv(p, c)'
         /\ List' = Append(List, node[p]) /\ sent' = [sent EXCEPT ![p] = @ + 1]
         /\ UNCHANGED <<clause, taken>>
<1>1. p # c /\ p \in Threads /\ c \in Threads BY ThreadAssumption DEF Threads
<1>2. /\ TypeInv /\ ListInv(p, c) /\ TailInv(p) /\ ProducerInv(p, c)
      /\ ConsumerInv(p, c) /\ ~dangling
  BY DEF IInv
<1>3. pc[p] = "link" BY DEF Link
<1>4. /\ myTail[p] = last /\ myNext[p] = NULL
      /\ node[p] \in allocated /\ \A i \in DOMAIN List : node[p] # List[i]
      /\ next[node[p]] = NULL /\ clause[node[p]] = <<p, sent[p] + 1>> /\ sent[p] < MaxAdds
  BY <1>2, <1>3 DEF ProducerInv, Adding
<1>5. tail = last BY <1>2, <1>3 DEF TailInv, Linked
<1>6. /\ List \in Seq(Nodes) /\ Len(List) \in Nat \ {0} /\ DOMAIN List = 1 .. Len(List)
      /\ next[last] = NULL /\ last \in Nodes /\ List \in Paths
  BY <1>2, ListType DEF ListInv
<1>7. last \in allocated BY <1>2, <1>6 DEF ListInv, last
<1>8. /\ pc' = [pc EXCEPT ![p] = "count"] /\ next' = [next EXCEPT ![last] = node[p]]
      /\ sent' = [sent EXCEPT ![p] = @ + 1] /\ dangling' = FALSE
      /\ UNCHANGED <<tail, allocated, clause, head, size, node, myHead, myTail, myNext,
                     myClause, taken, visible>>
  BY <1>2, <1>4, <1>6, <1>7 DEF Link, CompareExchangeNext, NextOf, Access, Goto, localVars
<1>9. sent[p] \in Nat /\ Len(taken[c]) \in Nat /\ sent'[p] = sent[p] + 1
  BY <1>2, <1>8, AddsAssumption DEF TypeInv
<1>10. node[p] \in Nodes BY <1>2, <1>4 DEF TypeInv
<1>11. /\ Append(List, node[p]) \in Paths /\ Distinct(Append(List, node[p]))
       /\ IsPath(Append(List, node[p]), head, next') /\ List' = Append(List, node[p])
  <2>1. next \in [Nodes -> Nodes \cup {NULL}] /\ IsPath(List, head, next) /\ Distinct(List)
    BY <1>2 DEF TypeInv, ListInv, Distinct
  <2>2. /\ next'[List[Len(List)]] = node[p]
        /\ \A m \in Nodes : m # List[Len(List)] => next'[m] = next[m]
    BY <1>2, <1>6, <1>8 DEF TypeInv, last
  <2>3. /\ Append(List, node[p]) \in Paths /\ IsPath(Append(List, node[p]), head, next')
        /\ Distinct(Append(List, node[p])) /\ PathFrom(head, next') = Append(List, node[p])
    <3>1. List \in Paths /\ Appends(List, node[p], next, next') BY <1>4, <1>6, <2>2 DEF Appends
    <3>2. QED BY ONLY <1>10, <2>1, <3>1, PathExtended
  <2>4. List' = PathFrom(head', next') BY DEF List
  <2>5. QED BY <1>8, <2>3, <2>4
<1>12. /\ Len(List') = Len(List) + 1 /\ DOMAIN List' = 1 .. Len(List) + 1
       /\ \A i \in DOMAIN List : List'[i] = List[i]
       /\ List'[Len(List) + 1] = node[p] /\ last' = node[p]
       /\ last = List'[Len(List') - 1]
  <2>1. /\ Len(List') = Len(List) + 1 /\ DOMAIN List' = 1 .. Len(List) + 1
        /\ \A i \in DOMAIN List : List'[i] = List[i]
        /\ List'[Len(List) + 1] = node[p]
    BY <1>6, <1>10, <1>11
  <2>2. last' = node[p] BY <2>1 DEF last
  <2>3. (Len(List) + 1) - 1 = Len(List) /\ Len(List) \in DOMAIN List BY <1>6
  <2>4. QED BY <2>1, <2>2, <2>3 DEF last
<1>13. ListInv(p, c)'
  <2>1. \A i, j \in DOMAIN List' : List'[i] = List'[j] => i = j BY <1>11 DEF Distinct
  <2>2. \A i \in DOMAIN List' : i \in DOMAIN List \/ i = Len(List) + 1 BY <1>6, <1>12
  <2>3. \A i \in DOMAIN List' : List'[i] \in allocated'
    BY <1>2, <1>4, <1>8, <1>12, <2>2 DEF ListInv
  <2>4. sent[p] = Len(taken[c]) + Len(List) - 1 BY <1>2 DEF ListInv
  <2>5. sent'[p] = Len(taken'[c]) + Len(List') - 1 BY <1>6, <1>8, <1>9, <1>12, <2>4
  <2>6. \A i \in DOMAIN List' : i > 1 => clause'[List'[i]] = <<p, Len(taken'[c]) + i - 1>>
    <3>1. SUFFICES ASSUME NEW i \in DOMAIN List', i > 1
                   PROVE  clause[List'[i]] = <<p, Len(taken[c]) + i - 1>>
      BY <1>8
    <3>2. CASE i \in DOMAIN List BY <1>2, <1>12, <3>1, <3>2 DEF ListInv
    <3>3. CASE i = Len(List) + 1
      <4>1. sent[p] + 1 = Len(taken[c]) + i - 1 BY <1>6, <1>9, <2>4, <3>3
      <4>2. QED BY <1>4, <1>12, <3>3, <4>1
    <3>4. QED BY <2>2, <3>2, <3>3
  <2>7. \A i \in DOMAIN taken'[c] : taken'[c][i] = <<p, i>> BY <1>2, <1>8 DEF ListInv
  <2>8. List' \in Paths /\ IsPath(List', head', next') BY <1>8, <1>11
  <2>9. QED BY <2>1, <2>3, <2>5, <2>6, <2>7, <2>8 DEF ListInv
<1>14. pc' \in [Threads -> Labels] /\ pc'[p] = "count" /\ pc'[c] = pc[c]
  BY <1>1, <1>2, <1>8 DEF TypeInv, Labels, Linked
<1>15. TypeInv'
  <2>1. sent' \in [Producers -> 0 .. MaxAdds]
    <3>1. sent[p] + 1 \in 0 .. MaxAdds BY <1>4, <1>9, AddsAssumption
    <3>2. QED BY <1>2, <1>8, <3>1 DEF TypeInv
  <2>2. next' \in [Nodes -> Nodes \cup {NULL}] BY <1>2, <1>8, <1>10 DEF TypeInv
  <2>3. QED BY <1>2, <1>8, <1>14, <2>1, <2>2 DEF TypeInv
<1>16. TailInv(p)' BY <1>4, <1>5, <1>6, <1>8, <1>12, <1>14 DEF TailInv, Linked
<1>17. ProducerInv(p, c)' BY <1>8, <1>12, <1>14 DEF ProducerInv, Adding, Linked
<1>18. ConsumerInv(p, c)'
  <2>1. Len(List) > 1 => Len(List') > 1 /\ List'[2] = List[2] /\ 2 \in DOMAIN List
    BY <1>6, <1>12
  <2>2. myHead[c] # node[p] => (pc[c] = "free" => \A i \in DOMAIN List' : myHead[c] # List'[i])
    <3>1. \A i \in DOMAIN List' : i \in DOMAIN List \/ i = Len(List) + 1 BY <1>6, <1>12
    <3>2. QED BY <1>2, <1>12, <3>1 DEF ConsumerInv
  <2>3. visible[c] <= sent'[p] BY <1>2, <1>9 DEF TypeInv, ConsumerInv
  <2>4. QED
    BY <1>2, <1>3, <1>8, <1>14, <2>1, <2>2, <2>3 DEF ConsumerInv, Getting, Adding, Linked
<1>19. QED BY <1>8, <1>11, <1>13, <1>15, <1>16, <1>17, <1>18 DEF IInv

LEMMA ProducerSwings ==
  ASSUME NEW p, NEW c, Producers = {p}, Consumers = {c}, IInv(p, c), SwingTail(p)
  PROVE  IInv(p, c)'
<1>1. p # c /\ p \in Threads /\ c \in Threads BY ThreadAssumption DEF Threads
<1>2. /\ TypeInv /\ ListInv(p, c) /\ TailInv(p) /\ ProducerInv(p, c)
      /\ ConsumerInv(p, c) /\ ~dangling
  BY DEF IInv
<1>3. /\ pc[p] = "swing" /\ pc' = [pc EXCEPT ![p] = "idle"]
      /\ tail' = IF tail = myTail[p] THEN node[p] ELSE tail
      /\ UNCHANGED <<head, heapVars, size, node, myHead, myTail, myNext, myClause, sent,
                     taken, visible, dangling>>
  BY DEF SwingTail, CompareExchangeTail, Goto, localVars, callVars
<1>4. List' = List /\ last' = last /\ ListInv(p, c)' BY <1>2, <1>3, QuietList
<1>5. UNCHANGED <<allocated, clause, next>> BY <1>3 DEF heapVars
<1>6. node[p] = last BY <1>2, <1>3 DEF ProducerInv, Linked
<1>7. tail' = last BY <1>2, <1>3, <1>6 DEF TailInv
<1>8. pc' \in [Threads -> Labels] /\ pc'[p] = "idle" /\ pc'[c] = pc[c]
  BY <1>1, <1>2, <1>3 DEF TypeInv, Labels
<1>9. TypeInv' BY <1>2, <1>3, <1>5, <1>8 DEF TypeInv
<1>10. TailInv(p)' BY <1>4, <1>7 DEF TailInv
<1>11. ProducerInv(p, c)' BY <1>8 DEF ProducerInv, Adding, Linked
<1>12. Len(List) > 1 => last # head BY <1>2, Ends
<1>13. tail # head => Len(List) > 1 BY <1>2, Ends
<1>14. ConsumerInv(p, c)'
  BY <1>2, <1>3, <1>4, <1>5, <1>7, <1>8, <1>12, <1>13 DEF ConsumerInv, Getting, Adding
<1>15. QED BY <1>2, <1>3, <1>4, <1>9, <1>10, <1>11, <1>14 DEF IInv

\* Fewer additions have returned than were made.
LEMMA ReturnedBound ==
  ASSUME NEW p, Producers = {p}, NEW n \in Nat, sent[p] = n
  PROVE  Cardinality(Returned) \in Nat /\ Cardinality(Returned) <= n
<1> DEFINE f == [k \in 1 .. n |-> <<p, k>>]
           T == {<<p, k>> : k \in 1 .. n}
<1>1. f \in Surjection(1 .. n, T) BY DEF Surjection
<1>2. IsFiniteSet(1 .. n) /\ Cardinality(1 .. n) = n BY FS_Interval
<1>3. IsFiniteSet(T) /\ Cardinality(T) <= n BY <1>1, <1>2, FS_Surjection
<1>4. Returned \subseteq T
  <2>1. SUFFICES ASSUME NEW d \in Returned PROVE d \in T OBVIOUS
  <2>2. PICK k \in 1 .. MaxAdds : d = <<p, k>> BY DEF Returned, Clauses
  <2>3. k <= n - (IF pc[p] \in {"count", "swing"} THEN 1 ELSE 0) BY <2>2 DEF Returned
  <2>4. k \in 1 .. n BY <2>2, <2>3, AddsAssumption
  <2>5. QED BY <2>2, <2>4
<1>5. IsFiniteSet(Returned) /\ Cardinality(Returned) <= Cardinality(T) BY <1>3, <1>4, FS_Subset
<1>6. Cardinality(Returned) \in Nat /\ Cardinality(T) \in Nat BY <1>3, <1>5, FS_CardinalityType
<1>7. QED BY <1>3, <1>5, <1>6

\* The steps of getClause that leave the list and the tail alone.
LEMMA ConsumerReads ==
  ASSUME NEW p, NEW c, Producers = {p}, Consumers = {c}, IInv(p, c),
         \/ BeginGet(c) \/ GetHead(c) \/ GetTail(c) \/ GetNext(c) \/ GetCheck(c)
         \/ GetClause(c) \/ Uncount(c)
  PROVE  IInv(p, c)'
<1> USE DEF Goto
<1>1. p # c /\ p \in Threads /\ c \in Threads BY ThreadAssumption DEF Threads
<1>2. /\ TypeInv /\ ListInv(p, c) /\ TailInv(p) /\ ProducerInv(p, c)
      /\ ConsumerInv(p, c) /\ ~dangling
  BY DEF IInv
<1>3. UNCHANGED <<head, tail, heapVars, sent, taken, node>>
  BY DEF BeginGet, GetHead, GetTail, GetNext, GetCheck, GetClause, Uncount,
         heapVars, rootVars, callVars, localVars
<1>4. List' = List /\ last' = last /\ ListInv(p, c)' BY <1>2, <1>3, QuietList
<1>5. UNCHANGED <<allocated, clause, next>> BY <1>3 DEF heapVars
<1>6. /\ Len(List) \in Nat \ {0} /\ head \in Nodes /\ next[last] = NULL
      /\ Len(List) > 1 => next[head] = List[2]
  BY <1>2, ListType
<1>7. /\ tail \in Nodes /\ head \in allocated /\ (tail # head => Len(List) > 1)
      /\ Len(List) = 1 \/ Len(List) > 1
      /\ Len(List) > 1 => List[2] \in Nodes /\ List[2] \in allocated /\ List[2] # NULL
      /\ Len(List) = 1 => last = head
  BY <1>2, Ends
<1>8. pc' \in [Threads -> Labels] /\ pc'[p] = pc[p]
  BY <1>1, <1>2 DEF BeginGet, GetHead, GetTail, GetNext, GetCheck, GetClause, Uncount,
                    TypeInv, Labels, Getting
<1>9. TailInv(p)' \/ myTail'[p] # myTail[p] BY <1>2, <1>3, <1>4, <1>8 DEF TailInv
<1>10. ProducerInv(p, c)' \/ myTail'[p] # myTail[p] \/ myNext'[p] # myNext[p]
  BY <1>2, <1>3, <1>4, <1>5, <1>8 DEF ProducerInv
<1>11. CASE BeginGet(c)
  <2> USE <1>11 DEF BeginGet, localVars
  <2>1. visible'[c] \in Nat /\ visible'[c] <= sent[p] /\ visible' \in [Consumers -> Nat]
    <3>1. sent[p] \in Nat BY <1>2, AddsAssumption DEF TypeInv
    <3>2. Cardinality(Returned) \in Nat /\ Cardinality(Returned) <= sent[p]
      BY <3>1, ReturnedBound
    <3>3. QED BY <1>2, <3>2 DEF TypeInv
  <2>2. TypeInv' BY <1>2, <1>3, <1>5, <1>8, <2>1 DEF TypeInv
  <2>3. ConsumerInv(p, c)' BY <1>1, <1>2, <1>3, <2>1 DEF TypeInv, ConsumerInv, Getting
  <2>4. QED BY <1>2, <1>4, <1>9, <1>10, <2>2, <2>3 DEF IInv
<1>12. CASE GetHead(c)
  <2> USE <1>12 DEF GetHead, callVars
  <2>1. TypeInv' BY <1>2, <1>3, <1>5, <1>6, <1>8 DEF TypeInv
  <2>2. ConsumerInv(p, c)' BY <1>1, <1>2, <1>3 DEF TypeInv, ConsumerInv, Getting
  <2>3. QED BY <1>2, <1>4, <1>9, <1>10, <2>1, <2>2 DEF IInv
<1>13. CASE GetTail(c)
  <2> USE <1>13 DEF GetTail, callVars
  <2>1. TypeInv' BY <1>2, <1>3, <1>5, <1>7, <1>8 DEF TypeInv
  <2>2. myTail'[p] = myTail[p] BY <1>1, <1>2 DEF TypeInv
  <2>3. ConsumerInv(p, c)' BY <1>1, <1>2, <1>3 DEF TypeInv, ConsumerInv, Getting
  <2>4. QED BY <1>2, <1>4, <1>9, <1>10, <2>1, <2>2, <2>3 DEF IInv
<1>14. CASE GetNext(c)
  <2> USE <1>14 DEF GetNext, callVars
  <2>1. pc[c] = "getNext" /\ pc'[c] = "getCheck" /\ myHead[c] = head
    BY <1>1, <1>2 DEF TypeInv, ConsumerInv
  <2>2. dangling' = FALSE /\ myNext' = [myNext EXCEPT ![c] = next[head]]
    BY <1>2, <1>7, <2>1 DEF Access, NextOf
  <2>3. TypeInv' BY <1>2, <1>3, <1>5, <1>6, <1>8, <2>2 DEF TypeInv
  <2>4. myNext'[p] = myNext[p] /\ myNext'[c] = next[head] BY <1>1, <1>2, <2>2 DEF TypeInv
  <2>5. sent[p] = Len(taken[c]) + Len(List) - 1 /\ Len(taken[c]) \in Nat
    BY <1>2 DEF ListInv, TypeInv
  <2>6. next[head] = NULL => Len(List) = 1 BY <1>6, <1>7
  <2>7. next[head] = NULL => sent[p] = Len(taken[c])
    <3>1. \A n \in Nat : n + 1 - 1 = n OBVIOUS
    <3>2. QED BY <2>5, <2>6, <3>1
  <2>8. next[head] # NULL => Len(List) > 1 BY <1>6, <1>7
  <2>9. ConsumerInv(p, c)'
    BY <1>2, <1>3, <1>4, <1>5, <1>6, <1>7, <2>1, <2>4, <2>7, <2>8 DEF ConsumerInv, Getting
  <2>10. QED BY <1>2, <1>4, <1>9, <1>10, <2>2, <2>3, <2>4, <2>9 DEF IInv
<1>15. CASE GetCheck(c)
  <2> USE <1>15 DEF GetCheck, callVars, localVars
  <2>1. TypeInv' BY <1>2, <1>3, <1>5, <1>8 DEF TypeInv
  <2>2. pc[c] = "getCheck" /\ myHead[c] = head BY <1>2 DEF ConsumerInv
  <2>3. pc'[c] = IF head # myTail[c] THEN "getClause"
                 ELSE IF myNext[c] = NULL THEN "idle" ELSE "getHelp"
    BY <1>1, <1>2, <2>2 DEF TypeInv
  <2>4. ConsumerInv(p, c)' BY <1>2, <1>3, <1>4, <1>5, <2>2, <2>3 DEF ConsumerInv, Getting
  <2>5. QED BY <1>2, <1>4, <1>9, <1>10, <2>1, <2>4 DEF IInv
<1>16. CASE GetClause(c)
  <2> USE <1>16 DEF GetClause, callVars
  <2>1. pc[c] = "getClause" /\ pc'[c] = "getSwing" /\ Len(List) > 1 /\ myNext[c] = List[2]
    BY <1>1, <1>2 DEF TypeInv, ConsumerInv
  <2>2. dangling' = FALSE /\ myClause' = [myClause EXCEPT ![c] = clause[List[2]]]
    BY <1>2, <1>7, <2>1 DEF Access, ClauseOf
  <2>3. TypeInv' BY <1>2, <1>3, <1>5, <1>7, <1>8, <2>1, <2>2 DEF TypeInv
  <2>4. myClause'[c] = clause[List[2]] BY <1>2, <2>2 DEF TypeInv
  <2>5. ConsumerInv(p, c)' BY <1>2, <1>3, <1>4, <1>5, <1>8, <2>1, <2>4 DEF ConsumerInv, Getting
  <2>6. QED BY <1>2, <1>4, <1>9, <1>10, <2>2, <2>3, <2>5 DEF IInv
<1>17. CASE Uncount(c)
  <2> USE <1>17 DEF Uncount, callVars, localVars
  <2>1. TypeInv' BY <1>2, <1>3, <1>5, <1>8 DEF TypeInv
  <2>2. ConsumerInv(p, c)' BY <1>1, <1>2, <1>3 DEF TypeInv, ConsumerInv, Getting
  <2>3. QED BY <1>2, <1>4, <1>9, <1>10, <2>1, <2>2 DEF IInv
<1>18. QED BY <1>11, <1>12, <1>13, <1>14, <1>15, <1>16, <1>17

LEMMA ConsumerHelps ==
  ASSUME NEW p, NEW c, Producers = {p}, Consumers = {c}, IInv(p, c), GetHelp(c)
  PROVE  IInv(p, c)'
<1>1. p # c /\ p \in Threads /\ c \in Threads BY ThreadAssumption DEF Threads
<1>2. /\ TypeInv /\ ListInv(p, c) /\ TailInv(p) /\ ProducerInv(p, c)
      /\ ConsumerInv(p, c) /\ ~dangling
  BY DEF IInv
<1>3. /\ pc[c] = "getHelp" /\ pc' = [pc EXCEPT ![c] = "getHead"]
      /\ tail' = IF tail = myTail[c] THEN myNext[c] ELSE tail
      /\ UNCHANGED <<head, heapVars, size, node, myHead, myTail, myNext, myClause, sent,
                     taken, visible, dangling>>
  BY DEF GetHelp, CompareExchangeTail, Goto, localVars, callVars
<1>4. List' = List /\ last' = last /\ ListInv(p, c)' BY <1>2, <1>3, QuietList
<1>5. UNCHANGED <<allocated, clause, next>> BY <1>3 DEF heapVars
<1>6. Len(List) > 1 /\ myTail[c] = head /\ myNext[c] = List[2] BY <1>2, <1>3 DEF ConsumerInv
<1>7. tail = myTail[c] => myNext[c] = last
  <2>1. SUFFICES ASSUME tail = head PROVE List[2] = last BY <1>6
  <2>2. last # head BY <1>2, <1>6, Ends
  <2>3. tail = List[Len(List) - 1] BY <1>2, <2>1, <2>2 DEF TailInv
  <2>4. /\ Len(List) \in Nat \ {0} /\ DOMAIN List = 1 .. Len(List) /\ head = List[1]
    BY <1>2, ListType
  <2>5. Len(List) - 1 \in DOMAIN List /\ 1 \in DOMAIN List BY <1>6, <2>4
  <2>6. Len(List) - 1 = 1 BY <1>2, <2>1, <2>3, <2>4, <2>5 DEF ListInv
  <2>7. \A n \in Nat : n - 1 = 1 => n = 2 OBVIOUS
  <2>8. QED BY <2>4, <2>6, <2>7 DEF last
<1>8. TailInv(p)' \/ pc'[p] # pc[p] BY <1>2, <1>3, <1>4, <1>7 DEF TailInv
<1>9. pc' \in [Threads -> Labels] /\ pc'[p] = pc[p] /\ pc'[c] = "getHead"
  BY <1>1, <1>2, <1>3 DEF TypeInv, Labels, Getting
<1>10. TypeInv' BY <1>2, <1>3, <1>5, <1>9 DEF TypeInv
<1>11. ProducerInv(p, c)' BY <1>2, <1>3, <1>4, <1>5, <1>9 DEF ProducerInv
<1>12. ConsumerInv(p, c)' BY <1>2, <1>3, <1>9 DEF ConsumerInv, Getting
<1>13. QED BY <1>2, <1>3, <1>4, <1>8, <1>9, <1>10, <1>11, <1>12 DEF IInv

\* The exchange succeeds, and the consumer has read the first clause.
LEMMA ConsumerTakes ==
  ASSUME NEW p, NEW c, Producers = {p}, Consumers = {c}, IInv(p, c), GetSwing(c)
  PROVE  /\ IInv(p, c)'
         /\ Len(List) > 1 /\ List' = Tail(List)
         /\ taken' = [taken EXCEPT ![c] = Append(@, clause[List[2]])]
         /\ UNCHANGED <<clause, sent>>
<1>1. p # c /\ p \in Threads /\ c \in Threads BY ThreadAssumption DEF Threads
<1>2. /\ TypeInv /\ ListInv(p, c) /\ TailInv(p) /\ ProducerInv(p, c)
      /\ ConsumerInv(p, c) /\ ~dangling
  BY DEF IInv
<1>3. /\ pc[c] = "getSwing" /\ myHead[c] = head /\ Len(List) > 1 /\ tail # head
      /\ myNext[c] = List[2] /\ myClause[c] = clause[List[2]]
  BY <1>2 DEF GetSwing, ConsumerInv
<1>4. /\ pc' = [pc EXCEPT ![c] = "free"] /\ head' = List[2]
      /\ taken' = [taken EXCEPT ![c] = Append(@, clause[List[2]])]
      /\ UNCHANGED <<tail, allocated, clause, next, size, node, myHead, myTail, myNext,
                     myClause, sent, visible, dangling>>
  BY <1>3 DEF GetSwing, Goto, heapVars, localVars
<1>5. /\ List \in Seq(Nodes) /\ Len(List) \in Nat \ {0} /\ DOMAIN List = 1 .. Len(List)
      /\ head = List[1] /\ List \in Paths /\ IsPath(List, head, next) /\ Distinct(List)
  BY <1>2, ListType DEF ListInv, Distinct
<1>6. /\ List[2] \in Nodes /\ head \in allocated /\ 2 \in DOMAIN List BY <1>2, <1>3, Ends
<1>7. /\ Tail(List) \in Paths /\ IsPath(Tail(List), List[2], next) /\ Distinct(Tail(List))
      /\ PathFrom(List[2], next) = Tail(List)
      /\ Len(Tail(List)) = Len(List) - 1
      /\ \A i \in 1 .. Len(Tail(List)) : Tail(List)[i] = List[i + 1]
  BY <1>3, <1>5, PathShortened
<1>8. List' = Tail(List)
  <2>1. List' = PathFrom(head', next') BY DEF List
  <2>2. QED BY <1>4, <1>7, <2>1
<1>9. /\ Len(List') = Len(List) - 1 /\ Len(List') \in Nat \ {0} /\ DOMAIN List' = 1 .. Len(List')
      /\ \A i \in DOMAIN List' : List'[i] = List[i + 1] /\ i + 1 \in DOMAIN List /\ i + 1 # 1
      /\ last' = last
  <2>1. /\ Len(List') = Len(List) - 1 /\ DOMAIN List' = 1 .. Len(List')
        /\ \A i \in 1 .. Len(List') : List'[i] = List[i + 1]
    BY <1>7, <1>8, PathType
  <2>2. Len(List) - 1 \in Nat \ {0} /\ (Len(List) - 1) + 1 = Len(List) BY <1>3, <1>5
  <2>3. \A i \in 1 .. Len(List) - 1 : i + 1 \in 1 .. Len(List) /\ i + 1 # 1 BY <1>5
  <2>4. Len(List') \in 1 .. Len(List') BY <2>1, <2>2
  <2>5. last' = List'[Len(List')] BY DEF last
  <2>6. last' = last BY <2>1, <2>2, <2>4, <2>5 DEF last
  <2>7. QED BY <1>5, <2>1, <2>2, <2>3, <2>6
<1>10. /\ sent[p] \in Nat /\ Len(taken[c]) \in Nat /\ taken[c] \in Seq(Producers \X Nat)
       /\ sent[p] = Len(taken[c]) + Len(List) - 1
  BY <1>2, AddsAssumption DEF TypeInv, ListInv
<1>11. clause[List[2]] = <<p, Len(taken[c]) + 1>>
  <2>1. clause[List[2]] = <<p, Len(taken[c]) + 2 - 1>> BY <1>2, <1>6 DEF ListInv
  <2>2. Len(taken[c]) + 2 - 1 = Len(taken[c]) + 1 BY <1>10
  <2>3. QED BY <2>1, <2>2
<1>12. /\ taken'[c] = Append(taken[c], <<p, Len(taken[c]) + 1>>)
       /\ taken' \in [Consumers -> Seq(Producers \X Nat)]
  <2>1. <<p, Len(taken[c]) + 1>> \in Producers \X Nat BY <1>10
  <2>2. Append(taken[c], <<p, Len(taken[c]) + 1>>) \in Seq(Producers \X Nat) BY <1>10, <2>1
  <2>3. QED BY <1>2, <1>4, <1>11, <2>2 DEF TypeInv
<1>13. /\ Len(taken'[c]) = Len(taken[c]) + 1
       /\ \A i \in DOMAIN taken'[c] : taken'[c][i] = <<p, i>>
  <2>1. DOMAIN taken[c] = 1 .. Len(taken[c]) /\ \A i \in DOMAIN taken[c] : taken[c][i] = <<p, i>>
    BY <1>2, <1>10 DEF ListInv
  <2>2. <<p, Len(taken[c]) + 1>> \in Producers \X Nat BY <1>10
  <2>3. /\ Len(taken'[c]) = Len(taken[c]) + 1 /\ DOMAIN taken'[c] = 1 .. Len(taken[c]) + 1
        /\ taken'[c][Len(taken[c]) + 1] = <<p, Len(taken[c]) + 1>>
        /\ \A i \in 1 .. Len(taken[c]) : taken'[c][i] = taken[c][i]
    BY <1>10, <1>12, <2>2
  <2>4. \A i \in 1 .. Len(taken[c]) + 1 : i \in 1 .. Len(taken[c]) \/ i = Len(taken[c]) + 1
    BY <1>10
  <2>5. QED BY <2>1, <2>3, <2>4
<1>14. ListInv(p, c)'
  <2>1. \A i, j \in DOMAIN List' : List'[i] = List'[j] => i = j BY <1>7, <1>8 DEF Distinct
  <2>2. \A i \in DOMAIN List' : List'[i] \in allocated' BY <1>2, <1>4, <1>9 DEF ListInv
  <2>3. sent'[p] = Len(taken'[c]) + Len(List') - 1 BY <1>4, <1>5, <1>9, <1>10, <1>13
  <2>4. \A i \in DOMAIN List' : i > 1 => clause'[List'[i]] = <<p, Len(taken'[c]) + i - 1>>
    <3>1. SUFFICES ASSUME NEW i \in DOMAIN List', i > 1
                   PROVE  clause[List[i + 1]] = <<p, Len(taken[c]) + 1 + i - 1>>
      BY <1>4, <1>9, <1>13
    <3>2. i \in Nat /\ i + 1 > 1 /\ i + 1 \in DOMAIN List BY <1>9
    <3>3. clause[List[i + 1]] = <<p, Len(taken[c]) + (i + 1) - 1>> BY <1>2, <3>2 DEF ListInv
    <3>4. Len(taken[c]) + (i + 1) - 1 = Len(taken[c]) + 1 + i - 1 BY <1>10, <3>2
    <3>5. QED BY <3>3, <3>4
  <2>5. List' \in Paths /\ IsPath(List', head', next') BY <1>4, <1>7, <1>8
  <2>6. QED BY <1>13, <2>1, <2>2, <2>3, <2>4, <2>5 DEF ListInv
<1>15. pc' \in [Threads -> Labels] /\ pc'[p] = pc[p] /\ pc'[c] = "free"
  BY <1>1, <1>2, <1>4 DEF TypeInv, Labels, Getting
<1>16. TypeInv' BY <1>2, <1>4, <1>12, <1>15 DEF TypeInv
<1>17. TailInv(p)'
  <2>1. CASE tail = last BY <1>4, <1>9, <2>1 DEF TailInv
  <2>2. CASE tail # last
    <3>1. /\ pc[p] \in Linked /\ tail = List[Len(List) - 1] /\ myTail[p] = tail
      BY <1>2, <2>2 DEF TailInv
    <3>2. Len(List) - 1 # 1 BY <1>3, <1>5, <3>1
    <3>3. /\ Len(List') > 1 /\ Len(List') - 1 \in 1 .. Len(List')
          /\ (Len(List') - 1) + 1 = Len(List) - 1
      BY <1>5, <1>9, <3>2
    <3>4. List'[Len(List') - 1] = List[Len(List) - 1] BY <1>9, <3>3
    <3>5. QED BY <1>4, <1>15, <3>1, <3>3, <3>4 DEF TailInv
  <2>3. QED BY <2>1, <2>2
<1>18. ProducerInv(p, c)' BY <1>2, <1>4, <1>9, <1>15 DEF ProducerInv
<1>19. ConsumerInv(p, c)'
  <2>1. \A i \in DOMAIN List' : head # List'[i]
    <3>1. 1 \in DOMAIN List BY <1>5
    <3>2. QED BY <1>5, <1>9, <3>1 DEF Distinct
  <2>2. pc[p] \in Adding => head # node[p]
    <3>1. 1 \in DOMAIN List BY <1>5
    <3>2. QED BY <1>2, <1>5, <3>1 DEF ProducerInv
  <2>3. visible'[c] <= sent'[p] BY <1>2, <1>4 DEF ConsumerInv
  <2>4. QED BY <1>3, <1>4, <1>6, <1>15, <2>1, <2>2, <2>3 DEF ConsumerInv, Getting
<1>20. QED BY <1>2, <1>3, <1>4, <1>8, <1>14, <1>16, <1>17, <1>18, <1>19 DEF IInv

LEMMA ConsumerFrees ==
  ASSUME NEW p, NEW c, Producers = {p}, Consumers = {c}, IInv(p, c), Free(c)
  PROVE  IInv(p, c)'
<1>1. p # c /\ p \in Threads /\ c \in Threads BY ThreadAssumption DEF Threads
<1>2. /\ TypeInv /\ ListInv(p, c) /\ TailInv(p) /\ ProducerInv(p, c)
      /\ ConsumerInv(p, c) /\ ~dangling
  BY DEF IInv
<1>3. /\ pc[c] = "free" /\ pc' = [pc EXCEPT ![c] = "uncount"]
      /\ allocated' = allocated \ {myHead[c]}
      /\ UNCHANGED <<head, tail, size, clause, next, node, myHead, myTail, myNext,
                     myClause, sent, taken, visible>>
  BY DEF Free, Goto, rootVars, localVars, callVars
<1>4. /\ myHead[c] \in allocated /\ \A i \in DOMAIN List : myHead[c] # List[i]
      /\ pc[p] \in Adding => myHead[c] # node[p]
  BY <1>2, <1>3 DEF ConsumerInv
<1>5. dangling' = FALSE BY <1>2, <1>4 DEF Free, Access
<1>6. List' = List /\ last' = last /\ IsPath(List, head', next') BY <1>2, <1>3, ListKept
<1>7. ListInv(p, c)' BY <1>2, <1>3, <1>4, <1>6 DEF ListInv
<1>8. pc' \in [Threads -> Labels] /\ pc'[p] = pc[p] /\ pc'[c] = "uncount"
  BY <1>1, <1>2, <1>3 DEF TypeInv, Labels, Getting
<1>9. TypeInv' BY <1>2, <1>3, <1>8 DEF TypeInv
<1>10. TailInv(p)' BY <1>2, <1>3, <1>6, <1>8 DEF TailInv
<1>11. ProducerInv(p, c)' BY <1>2, <1>3, <1>4, <1>6, <1>8 DEF ProducerInv
<1>12. ConsumerInv(p, c)' BY <1>2, <1>3, <1>8 DEF ConsumerInv, Getting
<1>13. QED BY <1>5, <1>7, <1>9, <1>10, <1>11, <1>12 DEF IInv

LEMMA InitInv ==
  ASSUME NEW p, NEW c, Producers = {p}, Consumers = {c}, Init
  PROVE  IInv(p, c) /\ List = <<head>>
<1> USE DEF Init
<1>1. p # c /\ p \in Threads /\ c \in Threads BY ThreadAssumption DEF Threads
<1>2. head \in Nodes /\ tail = head /\ allocated = {head} OBVIOUS
<1>3. <<head>> \in Paths
  <2>1. <<head>> \in [1 .. 1 -> Nodes] BY <1>2
  <2>2. 1 \in 1 .. Cardinality(Nodes) BY NodeAssumption, FS_CardinalityType
  <2>3. QED BY <2>1, <2>2 DEF Paths
<1>4. IsPath(<<head>>, head, next)
  <2>1. DOMAIN <<head>> = {1} /\ <<head>>[1] = head OBVIOUS
  <2>2. next[head] = NULL /\ ~(1 + 1 \in {1}) BY <1>2
  <2>3. QED BY <2>1, <2>2 DEF IsPath
<1>5. List = <<head>> BY <1>3, <1>4, PathIs DEF List
<1>6. Len(List) = 1 /\ DOMAIN List = {1} /\ List[1] = head /\ last = head BY <1>5 DEF last
<1>7. ListInv(p, c)
  <2>1. sent[p] = Len(taken[c]) + Len(List) - 1 BY <1>6
  <2>2. \A i \in DOMAIN List : ~(i > 1) BY <1>6
  <2>3. \A i \in DOMAIN taken[c] : taken[c][i] = <<p, i>> OBVIOUS
  <2>4. QED BY <1>2, <1>3, <1>4, <1>5, <1>6, <2>1, <2>2, <2>3 DEF ListInv
<1>8. TypeInv
  <2>1. pc \in [Threads -> Labels] BY DEF Labels
  <2>2. 0 \in 0 .. MaxAdds BY AddsAssumption
  <2>3. taken \in [Consumers -> Seq(Producers \X Nat)] OBVIOUS
  <2>4. QED BY <1>2, <2>1, <2>2, <2>3 DEF TypeInv
<1>9. TailInv(p) BY <1>2, <1>6 DEF TailInv
<1>10. ProducerInv(p, c) BY <1>1 DEF ProducerInv, Adding, Linked
<1>11. ConsumerInv(p, c) BY <1>1 DEF ConsumerInv, Getting
<1>12. QED BY <1>5, <1>7, <1>8, <1>9, <1>10, <1>11 DEF IInv

LEMMA NextInv ==
  ASSUME NEW p, NEW c, Producers = {p}, Consumers = {c}, IInv(p, c), [Next]_vars
  PROVE  IInv(p, c)'
<1>1. CASE Add(p)
  <2>1. CASE NewElement(p) BY <2>1, ProducerAllocates
  <2>2. CASE ReadTail(p) \/ ReadNext(p) \/ CheckTail(p) \/ Count(p) BY <2>2, ProducerReads
  <2>3. CASE Link(p) BY <2>3, ProducerLinks
  <2>4. CASE SwingTail(p) BY <2>4, ProducerSwings
  <2>5. QED BY <1>1, <2>1, <2>2, <2>3, <2>4 DEF Add
<1>2. CASE Get(c)
  <2>1. CASE \/ BeginGet(c) \/ GetHead(c) \/ GetTail(c) \/ GetNext(c) \/ GetCheck(c)
             \/ GetClause(c) \/ Uncount(c)
    BY <2>1, ConsumerReads
  <2>2. CASE GetHelp(c) BY <2>2, ConsumerHelps
  <2>3. CASE GetSwing(c) BY <2>3, ConsumerTakes
  <2>4. CASE Free(c) BY <2>4, ConsumerFrees
  <2>5. QED BY <1>2, <2>1, <2>2, <2>3, <2>4 DEF Get
<1>3. CASE UNCHANGED vars
  <2>1. List' = List BY <1>3 DEF vars, heapVars, rootVars, List, PathFrom, IsPath
  <2>2. last' = last BY <2>1 DEF last
  <2>3. TypeInv' BY <1>3 DEF IInv, TypeInv, vars, heapVars, rootVars, localVars, callVars
  <2>4. ListInv(p, c)'
    BY <1>3, <2>1 DEF IInv, ListInv, IsPath, vars, heapVars, rootVars, localVars, callVars
  <2>5. TailInv(p)'
    BY <1>3, <2>1, <2>2 DEF IInv, TailInv, vars, heapVars, rootVars, localVars, callVars
  <2>6. ProducerInv(p, c)'
    BY <1>3, <2>1, <2>2 DEF IInv, ProducerInv, vars, heapVars, rootVars, localVars, callVars
  <2>7. ConsumerInv(p, c)'
    BY <1>3, <2>1 DEF IInv, ConsumerInv, vars, heapVars, rootVars, localVars, callVars
  <2>8. QED BY <1>3, <2>3, <2>4, <2>5, <2>6, <2>7 DEF IInv, vars
<1>4. QED BY <1>1, <1>2, <1>3 DEF Next

LEMMA Invariance ==
  ASSUME NEW p, NEW c, Producers = {p}, Consumers = {c}
  PROVE  Spec => []IInv(p, c)
<1>1. Init => IInv(p, c) BY InitInv
<1>2. IInv(p, c) /\ [Next]_vars => IInv(p, c)' BY NextInv
<1>3. QED BY <1>1, <1>2, PTL DEF Spec

\* However the producer's and the consumer's accesses interleave and whichever
\* address malloc reuses, neither accesses or deletes a deleted ListElement.
THEOREM NothingDeletedIsUsed == OneEach => (Spec => []NoUseAfterFree)
<1> SUFFICES ASSUME OneEach PROVE Spec => []NoUseAfterFree OBVIOUS
<1>1. PICK p, c : Producers = {p} /\ Consumers = {c} BY DEF OneEach
<1>2. Spec => []IInv(p, c) BY <1>1, Invariance
<1>3. IInv(p, c) => NoUseAfterFree BY DEF IInv, NoUseAfterFree
<1>4. QED BY <1>2, <1>3, PTL

-----------------------------------------------------------------------------
(* The list as a queue of clauses. *)

Values == {NoClause} \cup (Producers \X Nat)

\* The clauses that a list of nodes holds.
Contents(list, content) == [i \in 1 .. Len(list) - 1 |-> content[list[i + 1]]]

LEMMA ContentsType ==
  ASSUME NEW list \in Seq(Nodes), Len(list) > 0, NEW content \in [Nodes -> Values]
  PROVE  /\ Contents(list, content) \in Seq(Values)
         /\ Len(Contents(list, content)) = Len(list) - 1
         /\ \A i \in 1 .. Len(list) - 1 : Contents(list, content)[i] = content[list[i + 1]]
<1> DEFINE n == Len(list)
<1>1. n \in Nat /\ DOMAIN list = 1 .. n /\ n - 1 \in Nat /\ (n - 1) + 1 = n BY LenProperties
<1>2. \A i \in 1 .. n - 1 : i + 1 \in 1 .. n BY <1>1
<1>3. \A i \in 1 .. n - 1 : content[list[i + 1]] \in Values BY <1>1, <1>2
<1>4. Contents(list, content) \in [1 .. n - 1 -> Values] BY <1>3 DEF Contents
<1> DEFINE q == Contents(list, content)
           m == n - 1
<1>5. m \in Nat /\ q \in [1 .. m -> Values] BY <1>1, <1>4
<1> HIDE DEF q, m
<1>6. q \in Seq(Values) /\ Len(q) = m BY <1>5
<1>7. \A i \in 1 .. n - 1 : Contents(list, content)[i] = content[list[i + 1]] BY DEF Contents
<1>8. QED BY <1>6, <1>7 DEF q, m

LEMMA ContentsAppend ==
  ASSUME NEW list \in Seq(Nodes), Len(list) > 0, NEW content \in [Nodes -> Values],
         NEW x \in Nodes
  PROVE  Contents(Append(list, x), content) = Append(Contents(list, content), content[x])
<1> DEFINE n == Len(list)
           s == Contents(Append(list, x), content)
           t == Append(Contents(list, content), content[x])
<1>1. n \in Nat /\ n > 0 /\ content[x] \in Values BY LenProperties
<1>2. /\ Append(list, x) \in Seq(Nodes) /\ Len(Append(list, x)) = n + 1
      /\ Append(list, x)[n + 1] = x /\ \A i \in 1 .. n : Append(list, x)[i] = list[i]
  BY AppendProperties
<1>3. Len(Append(list, x)) > 0 /\ Len(Append(list, x)) - 1 = n BY <1>1, <1>2
<1>4. /\ s \in Seq(Values) /\ Len(s) = n
      /\ \A i \in 1 .. n : s[i] = content[Append(list, x)[i + 1]]
  <2>1. PICK l \in Seq(Nodes) : l = Append(list, x) BY <1>2
  <2>2. Len(l) > 0 /\ Len(l) - 1 = n BY <1>3, <2>1
  <2>3. /\ Contents(l, content) \in Seq(Values) /\ Len(Contents(l, content)) = Len(l) - 1
        /\ \A i \in 1 .. Len(l) - 1 : Contents(l, content)[i] = content[l[i + 1]]
    BY ONLY <2>2, content \in [Nodes -> Values], ContentsType
  <2>4. QED BY ONLY <2>1, <2>2, <2>3
<1>5. /\ Contents(list, content) \in Seq(Values) /\ Len(Contents(list, content)) = n - 1
      /\ \A i \in 1 .. n - 1 : Contents(list, content)[i] = content[list[i + 1]]
  BY ContentsType
<1>6. /\ t \in Seq(Values) /\ Len(t) = n - 1 + 1 /\ t[n - 1 + 1] = content[x]
      /\ \A i \in 1 .. n - 1 : t[i] = Contents(list, content)[i]
  BY <1>1, <1>5, AppendProperties
<1>7. n - 1 + 1 = n BY <1>1
<1> HIDE DEF s, t
<1>8. ASSUME NEW i \in 1 .. n PROVE s[i] = t[i]
  <2>1. CASE i = n BY <1>2, <1>4, <1>6, <1>7, <2>1
  <2>2. CASE i # n
    <3>1. i \in 1 .. n - 1 /\ i + 1 \in 1 .. n BY <1>1, <2>2
    <3>2. s[i] = content[list[i + 1]] BY <1>2, <1>4, <3>1
    <3>3. t[i] = content[list[i + 1]] BY <1>5, <1>6, <3>1
    <3>4. QED BY <3>2, <3>3
  <2>3. QED BY <2>1, <2>2
<1>9. s = t BY <1>4, <1>6, <1>7, <1>8, SeqEqual
<1>10. QED BY <1>9 DEF s, t

LEMMA ContentsTail ==
  ASSUME NEW list \in Seq(Nodes), Len(list) > 1, NEW content \in [Nodes -> Values]
  PROVE  /\ Contents(list, content) # <<>>
         /\ Head(Contents(list, content)) = content[list[2]]
         /\ Contents(Tail(list), content) = Tail(Contents(list, content))
<1> DEFINE n == Len(list)
           q == Contents(list, content)
           s == Contents(Tail(list), content)
           t == Tail(q)
<1>1. n \in Nat /\ n > 1 /\ n > 0 BY LenProperties
<1>2. list # <<>> BY <1>1
<1>3. /\ Tail(list) \in Seq(Nodes) /\ Len(Tail(list)) = n - 1
      /\ \A i \in 1 .. Len(Tail(list)) : Tail(list)[i] = list[i + 1]
  BY <1>2, HeadTailProperties
<1>4. Len(Tail(list)) > 0 BY <1>1, <1>3
<1>5. /\ q \in Seq(Values) /\ Len(q) = n - 1
      /\ \A i \in 1 .. n - 1 : q[i] = content[list[i + 1]]
  BY ONLY list \in Seq(Nodes), content \in [Nodes -> Values], <1>1, ContentsType
<1>6. /\ s \in Seq(Values) /\ Len(s) = (n - 1) - 1
      /\ \A i \in 1 .. (n - 1) - 1 : s[i] = content[Tail(list)[i + 1]]
  <2>1. PICK tl : tl = Tail(list) OBVIOUS
  <2>2. tl \in Seq(Nodes) /\ Len(tl) > 0 /\ Len(tl) = n - 1 BY <1>3, <1>4, <2>1
  <2>3. /\ Contents(tl, content) \in Seq(Values)
        /\ Len(Contents(tl, content)) = Len(tl) - 1
        /\ \A i \in 1 .. Len(tl) - 1 : Contents(tl, content)[i] = content[tl[i + 1]]
    BY ONLY content \in [Nodes -> Values], <2>2, ContentsType
  <2>4. QED BY <2>1, <2>2, <2>3
<1> HIDE DEF q, s
<1>7. q # <<>>
  <2>1. \A k \in Nat : k > 1 => k - 1 # 0 OBVIOUS
  <2>2. QED BY <1>1, <1>5, <2>1
<1>8. /\ t \in Seq(Values) /\ Len(t) = (n - 1) - 1
      /\ \A i \in 1 .. (n - 1) - 1 : t[i] = q[i + 1]
  BY <1>5, <1>7, HeadTailProperties
<1>9. ASSUME NEW i \in 1 .. (n - 1) - 1 PROVE s[i] = t[i]
  <2>1. i + 1 \in 1 .. n - 1 /\ i \in 1 .. (n - 1) - 1 BY <1>1
  <2>2. s[i] = content[list[(i + 1) + 1]] BY <1>3, <1>6, <2>1
  <2>3. t[i] = content[list[(i + 1) + 1]] BY <1>5, <1>8, <2>1
  <2>4. QED BY <2>2, <2>3
<1> HIDE DEF t
<1>10. s = t BY <1>6, <1>8, <1>9, SeqEqual
<1>11. Head(q) = content[list[2]]
  <2>1. 1 \in 1 .. n - 1 /\ 1 + 1 = 2 BY <1>1
  <2>2. Head(q) = q[1] BY <1>5, <1>7
  <2>3. q[1] = content[list[1 + 1]] BY <1>5, <2>1
  <2>4. QED BY <2>1, <2>2, <2>3
<1>12. QED BY <1>7, <1>10, <1>11 DEF q, s, t

LEMMA QueuedIs == Queued = Contents(List, clause)
BY DEF Queued, Contents

LEMMA QueuedIsNext == Queued' = Contents(List', clause')
BY DEF Queued, Contents

\* Only the two exchanges change what is queued.
LEMMA QuietSteps ==
  ASSUME NEW p, NEW c, Producers = {p}, Consumers = {c}, IInv(p, c),
         [Next]_vars, ~ Link(p), ~ GetSwing(c)
  PROVE  UNCHANGED <<sent, Queued, taken>>
<1>1. /\ ListInv(p, c) /\ TypeInv BY DEF IInv
<1>2. /\ List \in Seq(Nodes) /\ Len(List) \in Nat \ {0} /\ DOMAIN List = 1 .. Len(List)
      /\ \A i \in DOMAIN List : List[i] \in Nodes
  BY <1>1, ListType
<1>3. /\ UNCHANGED <<head, sent, taken>>
      /\ \A i \in DOMAIN List : next'[List[i]] = next[List[i]] /\ clause'[List[i]] = clause[List[i]]
  <2>1. CASE NewElement(p)
    <3>1. UNCHANGED <<head, sent, taken>> BY <2>1 DEF NewElement, rootVars, callVars
    <3>2. PICK n \in Nodes \ allocated :
            clause' = [clause EXCEPT ![n] = <<p, sent[p] + 1>>] /\ next' = [next EXCEPT ![n] = NULL]
      BY <2>1 DEF NewElement
    <3>3. \A m \in Nodes \ {n} : next'[m] = next[m] /\ clause'[m] = clause[m]
      BY <1>1, <3>2 DEF TypeInv
    <3>4. \A i \in DOMAIN List : List[i] \in Nodes \ {n} BY <1>1, <1>2 DEF ListInv
    <3>5. QED BY <3>1, <3>3, <3>4
  <2>2. CASE ReadTail(p) \/ ReadNext(p) \/ CheckTail(p) \/ Count(p) \/ SwingTail(p)
    BY <2>2 DEF ReadTail, ReadNext, CheckTail, Count, SwingTail, heapVars, rootVars, callVars
  <2>3. CASE BeginGet(c) \/ GetHead(c) \/ GetTail(c) \/ GetNext(c) \/ GetCheck(c)
    BY <2>3 DEF BeginGet, GetHead, GetTail, GetNext, GetCheck, heapVars, rootVars, callVars
  <2>4. CASE GetHelp(c) \/ GetClause(c) \/ Free(c) \/ Uncount(c)
    BY <2>4 DEF GetHelp, GetClause, Free, Uncount, heapVars, rootVars, callVars
  <2>5. CASE UNCHANGED vars BY <2>5 DEF vars, heapVars, rootVars, callVars
  <2>6. QED BY <2>1, <2>2, <2>3, <2>4, <2>5 DEF Next, Add, Get
<1>4. List' = List BY <1>1, <1>3, ListKept
<1>5. \A i \in 1 .. Len(List) - 1 : i + 1 \in DOMAIN List BY <1>2
<1>6. Queued' = Queued
  <2>1. Queued' = [i \in 1 .. Len(List) - 1 |-> clause'[List[i + 1]]] BY <1>4 DEF Queued
  <2>2. \A i \in 1 .. Len(List) - 1 : clause'[List[i + 1]] = clause[List[i + 1]] BY <1>3, <1>5
  <2>3. QED BY <2>1, <2>2 DEF Queued
<1>7. QED BY <1>3, <1>6

LEMMA FifoStep ==
  ASSUME NEW p, NEW c, Producers = {p}, Consumers = {c}, IInv(p, c), [Next]_vars
  PROVE  [Fifo!Next]_(Fifo!vars)
<1>1. /\ TypeInv /\ ListInv(p, c) /\ ProducerInv(p, c) BY DEF IInv
<1>2. /\ List \in Seq(Nodes) /\ Len(List) \in Nat \ {0} /\ clause \in [Nodes -> Values]
  BY <1>1, ListType DEF TypeInv, Values
<1>3. Len(List) > 0 BY <1>2
<1>4. CASE Link(p)
  <2>1. /\ List' = Append(List, node[p]) /\ sent' = [sent EXCEPT ![p] = @ + 1]
        /\ clause' = clause /\ taken' = taken
    BY <1>4, ProducerLinks
  <2>2. pc[p] = "link" BY <1>4 DEF Link
  <2>3. node[p] \in Nodes /\ clause[node[p]] = <<p, sent[p] + 1>> /\ sent[p] < MaxAdds
    BY <1>1, <2>2 DEF TypeInv, ProducerInv, Adding
  <2>4. Queued' = Contents(Append(List, node[p]), clause) BY <2>1, QueuedIsNext
  <2>5. Queued' = Append(Queued, <<p, sent[p] + 1>>)
    BY <1>2, <1>3, <2>3, <2>4, QueuedIs, ContentsAppend
  <2>6. Fifo!Put(p) BY <2>1, <2>3, <2>5 DEF Fifo!Put
  <2>7. QED BY <2>6 DEF Fifo!Next
<1>5. CASE GetSwing(c)
  <2>1. /\ Len(List) > 1 /\ List' = Tail(List) /\ clause' = clause /\ sent' = sent
        /\ taken' = [taken EXCEPT ![c] = Append(@, clause[List[2]])]
    BY <1>5, ConsumerTakes
  <2>2. Queued' = Contents(Tail(List), clause) BY <2>1, QueuedIsNext
  <2>3. Queued # <<>> /\ Head(Queued) = clause[List[2]] /\ Queued' = Tail(Queued)
    BY <1>2, <2>1, <2>2, QueuedIs, ContentsTail
  <2>4. Fifo!Take(c) BY <2>1, <2>3 DEF Fifo!Take
  <2>5. QED BY <2>4 DEF Fifo!Next
<1>6. CASE ~ Link(p) /\ ~ GetSwing(c)
  <2>1. UNCHANGED <<sent, Queued, taken>> BY <1>6, QuietSteps
  <2>2. QED BY <2>1 DEF Fifo!vars
<1>7. QED BY <1>4, <1>5, <1>6

\* The buffer is a queue: the clauses come out in the order in which they went
\* in, each of them once, the exchange on next being the point where one enters
\* and the exchange on head the point where it leaves.
THEOREM QueueIsFifo == OneEach => (Spec => Implements)
<1> SUFFICES ASSUME OneEach PROVE Spec => Implements OBVIOUS
<1>1. PICK p, c : Producers = {p} /\ Consumers = {c} BY DEF OneEach
<1>2. Spec => []IInv(p, c) BY <1>1, Invariance
<1>3. Init => Fifo!Init
  <2>1. SUFFICES ASSUME Init PROVE Fifo!Init OBVIOUS
  <2>2. /\ List = <<head>> /\ head \in Nodes /\ clause \in [Nodes -> Values]
    BY <1>1, <2>1, InitInv DEF Init, Values
  <2>3. <<head>> \in Seq(Nodes) /\ Len(<<head>>) = 1 BY <2>2
  <2>4. Contents(<<head>>, clause) \in Seq(Values) /\ Len(Contents(<<head>>, clause)) = 0
    <3>1. Len(<<head>>) > 0 /\ 1 - 1 = 0 BY <2>3
    <3>2. Len(Contents(<<head>>, clause)) = Len(<<head>>) - 1 BY <2>2, <2>3, <3>1, ContentsType
    <3>3. QED BY <2>2, <2>3, <3>1, <3>2, ContentsType
  <2>5. Queued = Contents(<<head>>, clause) BY <2>2, QueuedIs
  <2>6. Queued = <<>> BY <2>4, <2>5, EmptySeq
  <2>7. QED BY <2>1, <2>6 DEF Init, Fifo!Init
<1>4. IInv(p, c) /\ [Next]_vars => [Fifo!Next]_(Fifo!vars) BY <1>1, FifoStep
<1>5. QED BY <1>2, <1>3, <1>4, PTL DEF Spec, Implements, Fifo!Spec

-----------------------------------------------------------------------------
(* The answer that the buffer is empty. *)

\* What the consumer was handed is as many clauses as its sequence is long.
LEMMA TakenCount ==
  ASSUME NEW p, NEW seq, NEW n \in Nat, DOMAIN seq = 1 .. n, \A i \in DOMAIN seq : seq[i] = <<p, i>>
  PROVE  Cardinality({seq[i] : i \in DOMAIN seq}) = n
<1> DEFINE f == [i \in 1 .. n |-> <<p, i>>]
           T == {seq[i] : i \in DOMAIN seq}
<1>1. T = {<<p, i>> : i \in 1 .. n} OBVIOUS
<1>2. f \in Bijection(1 .. n, T) BY <1>1 DEF Bijection, Injection, IsInjective, Surjection
<1>3. IsFiniteSet(1 .. n) /\ Cardinality(1 .. n) = n BY FS_Interval
<1>4. QED BY <1>2, <1>3, FS_Bijection DEF ExistsBijection

\* If getClause answers false, it had handed out every clause whose addition
\* had returned when it was called.
THEOREM EmptyIsEmpty == OneEach => (Spec => NoFalseEmpty)
<1> SUFFICES ASSUME OneEach PROVE Spec => NoFalseEmpty OBVIOUS
<1>1. PICK p, c : Producers = {p} /\ Consumers = {c} BY DEF OneEach
<1>2. Spec => []IInv(p, c) BY <1>1, Invariance
<1>3. IInv(p, c) /\ [Next]_vars => [EmptyAnswer]_vars
  <2>1. SUFFICES ASSUME IInv(p, c), Next, pc[c] = "getCheck", pc'[c] = "idle"
                 PROVE  visible[c] <= Cardinality(UNION {{taken[d][i] : i \in DOMAIN taken[d]} :
                                                            d \in Consumers})
    BY <1>1 DEF EmptyAnswer
  <2>2. /\ TypeInv /\ ListInv(p, c) /\ ConsumerInv(p, c) BY <2>1 DEF IInv
  <2>3. p # c /\ p \in Threads /\ c \in Threads BY <1>1, ThreadAssumption DEF Threads
  <2>4. GetCheck(c)
    <3>1. ~ Add(p)
      BY <2>1, <2>2, <2>3 DEF TypeInv, Add, NewElement, ReadTail, ReadNext, CheckTail, Link,
                              CompareExchangeNext, Count, SwingTail, Goto
    <3>2. QED
      BY <1>1, <2>1, <3>1 DEF Next, Get, BeginGet, GetHead, GetTail, GetNext, GetHelp,
                              GetClause, GetSwing, Free, Uncount, Goto
  <2>5. myNext[c] = NULL BY <2>1, <2>2, <2>3, <2>4 DEF GetCheck, Goto, TypeInv
  <2>6. visible[c] <= Len(taken[c]) BY <2>1, <2>2, <2>5 DEF ConsumerInv
  <2>7. Len(taken[c]) \in Nat /\ DOMAIN taken[c] = 1 .. Len(taken[c]) BY <1>1, <2>2 DEF TypeInv
  <2>8. \A i \in DOMAIN taken[c] : taken[c][i] = <<p, i>> BY <2>2 DEF ListInv
  <2>9. Cardinality({taken[c][i] : i \in DOMAIN taken[c]}) = Len(taken[c])
    BY <2>7, <2>8, TakenCount
  <2>10. UNION {{taken[d][i] : i \in DOMAIN taken[d]} : d \in Consumers}
           = {taken[c][i] : i \in DOMAIN taken[c]}
    BY <1>1
  <2>11. QED BY <2>6, <2>9, <2>10
<1>4. QED BY <1>2, <1>3, PTL DEF Spec, NoFalseEmpty
=============================================================================
