------------------------- MODULE KissatDecideProofs -------------------------
(***************************************************************************)
(* Theorems about KissatDecide for any number of variables and any         *)
(* instances, scores and stamps: the lemmas on the trail, on the queue and *)
(* on the heaps, what each operation does to the three together, and the   *)
(* invariant that its steps keep.                                          *)
(***************************************************************************)
EXTENDS KissatDecide, FiniteSetTheorems, SequenceTheorems, TLAPS

Nats == INSTANCE Induction WITH Op <- LAMBDA p, d, x : d

(* The assignment.  In this module only positive literals are assigned.    *)
Reasons == {NoReason, Unit, Decision}
Trails == [trail : Seq(Var), frames : Seq(Nat), true : SUBSET Var, level : [Var -> Nat],
           reason : [Var -> Reasons], propagated : Nat]

\* The frames cut the trail, in order, and what lies before a frame has a lower level.
FramesCut(s) ==
  /\ \A l \in 1..Level(s) : /\ s.frames[l] <= Len(s.trail)
                            /\ \A i \in 1..s.frames[l] : s.level[s.trail[i]] < l
  /\ \A k, l \in 1..Level(s) : k <= l => s.frames[k] <= s.frames[l]

TrailInv(s) ==
  /\ s \in Trails
  /\ LitsOf(s.trail) \subseteq s.true
  /\ \A v \in s.true : s.level[v] <= Level(s) /\ (s.level[v] > 0 => v \in LitsOf(s.trail))
  /\ FramesCut(s)

(* The queue.                                                              *)
Queues == [prev : [Var -> 0..N], next : [Var -> 0..N], stamps : [Var -> Nat], first : 0..N,
           last : 0..N, stamp : Nat, search : [idx : 0..N, stamp : Nat]]

\* The links hold the variables of a sequence, by increasing stamps.
Linking(q, ord) ==
  /\ ord \in Seq(Var)
  /\ \A i, j \in 1..Len(ord) : ord[i] = ord[j] => i = j
  /\ q.first = (IF Len(ord) = 0 THEN DISCONNECT ELSE ord[1])
  /\ q.last = (IF Len(ord) = 0 THEN DISCONNECT ELSE ord[Len(ord)])
  /\ \A i \in 1..Len(ord) :
       /\ q.prev[ord[i]] = (IF i = 1 THEN DISCONNECT ELSE ord[i - 1])
       /\ q.next[ord[i]] = (IF i = Len(ord) THEN DISCONNECT ELSE ord[i + 1])
Stamping(q, ord) ==
  /\ \A i, j \in 1..Len(ord) : i < j => q.stamps[ord[i]] < q.stamps[ord[j]]
  /\ \A i \in 1..Len(ord) : q.stamps[ord[i]] <= q.stamp
Holds(q, ord, A) == Linking(q, ord) /\ Stamping(q, ord) /\ LitsOf(ord) = A

SearchInv(q, A) ==
  IF q.search.idx = DISCONNECT THEN A = {}
  ELSE q.search.idx \in A /\ q.search.stamp = q.stamps[q.search.idx]

QueueInv(q, A) == q \in Queues /\ Holds(q, Order(q), A) /\ SearchInv(q, A)

\* The search is at or behind some variables.
Reaches(q, F) == \A v \in F : q.stamps[v] <= q.search.stamp

(* The heaps.                                                              *)
Heaps == [stack : Seq(Var), score : [Var -> Nat]]
Distinct(h) == \A i, j \in 1..Len(h.stack) : h.stack[i] = h.stack[j] => i = j
Ordered(h) == \A i \in 2..Len(h.stack) : ScoreAt(h, i \div 2) >= ScoreAt(h, i)
HeapInv(h, A) == h \in Heaps /\ Distinct(h) /\ Ordered(h) /\ LitsOf(h.stack) \subseteq A

(* All of it.                                                              *)
Bundles == [asg : Trails, active : SUBSET Var, queue : Queues,
            heaps : [{Vsids, Chb} -> Heaps], scinc : Nat \ {0}]

WithTrail(d, s) == [d EXCEPT !.asg = s]
WithQueue(d, q) == [d EXCEPT !.queue = q]
WithHeap(d, x, g) == [d EXCEPT !.heaps[x] = g]

FreeOf(d) == {v \in d.active : v \notin d.asg.true}

\* The next decision is among what the queue has before the search, or on the heap.
Offers(d, F) == IF stable THEN F \subseteq LitsOf(d.heaps[heuristic].stack) ELSE Reaches(d.queue, F)

Sound(d) ==
  /\ d \in Bundles
  /\ TrailInv(d.asg)
  /\ QueueInv(d.queue, d.active)
  /\ \A h \in Used : HeapInv(d.heaps[h], d.active)

\* Assigned variables are fixed, and no longer active, or were assigned above level 0.
Separate(d) == \A v \in d.asg.true : v \in d.active <=> d.asg.level[v] > 0

\* What stays the same but for a switch of the mode or of the heuristic, and the
\* inductive invariant.
Typed ==
  /\ instance \in Instances /\ stable \in BOOLEAN
  /\ heuristic \in {Vsids, Chb} /\ (~instance.mab => heuristic = Vsids)

Full(d) == Sound(d) /\ Separate(d) /\ Offers(d, FreeOf(d))

DecideInv == Typed /\ Full(Here)

-----------------------------------------------------------------------------
(* The trail.                                                              *)
LEMMA VarFacts ==
  /\ N \in Nat /\ N # 0 /\ Var = 1..N /\ IsFiniteSet(Var) /\ Cardinality(Var) = N
  /\ \A v \in Var : VarOf(v) = v /\ -v \notin Var /\ v # 0
<1>1. N \in Nat /\ N # 0 BY VariablesAssumption
<1>2. IsFiniteSet(1..N) /\ Cardinality(1..N) = N BY <1>1, FS_Interval
<1>3. ASSUME NEW v \in 1..N PROVE v > 0 /\ v \in Int /\ -v < 0 BY <1>1
<1>4. QED BY <1>1, <1>2, <1>3 DEF Var, VarOf

LEMMA FreeIs ==
  ASSUME NEW s, s.true \subseteq Var, NEW v \in Var
  PROVE  IsFree(s, v) <=> v \notin s.true
BY VarFacts DEF IsFree

\* The trail that a backtrack leaves, as a fold.
Stay == INSTANCE Induction WITH Op <- LAMBDA p, trail, lit :
          IF LevelOf(p[1], lit) <= p[2] THEN Append(trail, lit) ELSE trail

LEMMA StayFold ==
  ASSUME NEW s, NEW level, NEW pre, NEW late
  PROVE  FoldLeft(LAMBDA trail, lit : IF LevelOf(s, lit) <= level THEN Append(trail, lit) ELSE trail,
                  pre, late)
           = Stay!Folded(<<s, level>>, pre, late)
BY DEF FoldLeft, MapThenFoldSet, Max, Stay!Folded

LEMMA LitsOfIs ==
  ASSUME NEW S, NEW seq \in Seq(S)
  PROVE  /\ Len(seq) \in Nat /\ DOMAIN seq = 1..Len(seq) /\ LitsOf(seq) \subseteq S
         /\ LitsOf(seq) = {seq[i] : i \in 1..Len(seq)}
         /\ \A i \in 1..Len(seq) : seq[i] \in S /\ seq[i] \in LitsOf(seq)
BY LenProperties, ElementOfSeq DEF LitsOf

LEMMA LitsOfAppend ==
  ASSUME NEW S, NEW seq \in Seq(S), NEW v \in S
  PROVE  LitsOf(Append(seq, v)) = LitsOf(seq) \cup {v}
<1> DEFINE at == Append(seq, v)
<1>1. Len(seq) \in Nat /\ DOMAIN seq = 1..Len(seq) BY LenProperties
<1>2. /\ at \in Seq(S) /\ Len(at) = Len(seq) + 1 /\ at[Len(seq) + 1] = v
      /\ \A i \in 1..Len(seq) : at[i] = seq[i]
  BY AppendProperties
<1> HIDE DEF at
<1>3. DOMAIN at = 1..Len(seq) \cup {Len(seq) + 1}
  <2>1. DOMAIN at = 1..(Len(seq) + 1) BY <1>2, LenProperties
  <2>2. QED BY <1>1, <2>1
<1>4. LitsOf(at) = LitsOf(seq) \cup {v} BY <1>1, <1>2, <1>3 DEF LitsOf
<1>5. QED BY <1>4 DEF at

LEMMA AssignKeeps ==
  ASSUME NEW s, TrailInv(s), NEW v \in Var, v \notin s.true, NEW l \in 0..Level(s),
         NEW r \in Reasons, NEW t, t = Assign(s, v, l, r)
  PROVE  /\ TrailInv(t) /\ t.true = s.true \cup {v} /\ t.frames = s.frames
         /\ t.level = [s.level EXCEPT ![v] = l]
<1>1. s \in Trails /\ Level(s) \in Nat /\ Len(s.trail) \in Nat /\ VarOf(v) = v
  BY VarFacts DEF TrailInv, Trails, Level
<1>2. /\ t.trail = Append(s.trail, v) /\ t.frames = s.frames /\ t.true = s.true \cup {v}
      /\ t.level = [s.level EXCEPT ![v] = l] /\ t \in Trails
  <2> DEFINE w == IF l = 0 THEN Unit ELSE r
  <2>1. w \in Reasons BY DEF Reasons
  <2>2. t = [s EXCEPT !.trail = Append(@, v), !.true = @ \cup {v}, !.level[v] = l, !.reason[v] = w]
    BY <1>1 DEF Assign
  <2> HIDE DEF w
  <2>3. Append(s.trail, v) \in Seq(Var) BY <1>1, AppendProperties DEF Trails
  <2>4. l \in Nat BY <1>1
  <2>5. [s.level EXCEPT ![v] = l] \in [Var -> Nat] BY <1>1, <2>4 DEF Trails
  <2>6. [s.reason EXCEPT ![v] = w] \in [Var -> Reasons] BY <1>1, <2>1 DEF Trails
  <2>7. /\ t.trail = Append(s.trail, v) /\ t.frames = s.frames /\ t.true = s.true \cup {v}
        /\ t.level = [s.level EXCEPT ![v] = l] /\ t.reason = [s.reason EXCEPT ![v] = w]
        /\ t.propagated = s.propagated
        /\ t = [trail |-> t.trail, frames |-> t.frames, true |-> t.true, level |-> t.level,
                reason |-> t.reason, propagated |-> t.propagated]
    BY ONLY <1>1, <2>2 DEF Trails
  <2>8. t \in Trails
    BY ONLY <1>1, <2>3, <2>5, <2>6, <2>7, v \in Var DEF Trails
  <2>9. QED BY <2>7, <2>8
<1>3. /\ Len(t.trail) = Len(s.trail) + 1 /\ t.trail[Len(s.trail) + 1] = v
      /\ \A i \in 1..Len(s.trail) : t.trail[i] = s.trail[i]
  BY <1>1, <1>2, AppendProperties DEF Trails
<1>4. LitsOf(t.trail) = LitsOf(s.trail) \cup {v}
  BY <1>1, <1>2, LitsOfAppend DEF Trails
<1>5. LitsOf(t.trail) \subseteq t.true BY <1>2, <1>4 DEF TrailInv
<1>6. Level(t) = Level(s) BY <1>2 DEF Level
<1>7. \A u \in t.true : t.level[u] <= Level(t) /\ (t.level[u] > 0 => u \in LitsOf(t.trail))
  <2>1. \A u \in s.true : t.level[u] = s.level[u] BY <1>1, <1>2 DEF Trails
  <2>2. t.level[v] = l BY <1>1, <1>2 DEF Trails
  <2>3. QED BY <1>1, <1>2, <1>4, <1>6, <2>1, <2>2 DEF TrailInv
<1>8. FramesCut(t)
  <2>1. ASSUME NEW i \in 1..Len(s.trail) PROVE t.level[t.trail[i]] = s.level[s.trail[i]]
    <3>1. s.trail[i] \in LitsOf(s.trail) /\ s.trail[i] \in s.true BY <1>1 DEF LitsOf, TrailInv, Trails
    <3>2. QED BY <1>1, <1>2, <1>3, <3>1 DEF Trails
  <2>2. \A k \in 1..Level(s) : s.frames[k] \in Nat BY <1>1 DEF Trails, Level
  <2>3. FramesCut(s) BY DEF TrailInv
  <2>4. ASSUME NEW k \in 1..Level(s)
        PROVE  t.frames[k] <= Len(t.trail) /\ \A i \in 1..t.frames[k] : t.level[t.trail[i]] < k
    <3>1. s.frames[k] <= Len(s.trail) /\ \A i \in 1..s.frames[k] : s.level[s.trail[i]] < k
      BY <2>3 DEF FramesCut
    <3>2. \A i \in 1..s.frames[k] : i \in 1..Len(s.trail) BY <1>1, <2>2, <3>1
    <3>3. t.frames[k] = s.frames[k] /\ s.frames[k] <= Len(t.trail) BY <1>1, <1>2, <1>3, <2>2, <3>1
    <3>4. \A i \in 1..s.frames[k] : t.level[t.trail[i]] < k BY <2>1, <3>1, <3>2
    <3>5. QED BY <3>3, <3>4
  <2>5. \A j, k \in 1..Level(s) : j <= k => t.frames[j] <= t.frames[k] BY <1>2, <2>3 DEF FramesCut
  <2>6. QED BY <1>6, <2>4, <2>5 DEF FramesCut
<1>9. QED BY <1>2, <1>5, <1>7, <1>8 DEF TrailInv

LEMMA DecideKeeps ==
  ASSUME NEW s, TrailInv(s), NEW v \in Var, v \notin s.true, NEW t, t = Decide(s, v)
  PROVE  /\ TrailInv(t) /\ t.true = s.true \cup {v} /\ Level(t) = Level(s) + 1
         /\ t.level = [s.level EXCEPT ![v] = Level(s) + 1]
<1> DEFINE o == [s EXCEPT !.frames = Append(@, Len(s.trail))]
<1>1. s \in Trails /\ Level(s) \in Nat /\ Len(s.trail) \in Nat
  BY DEF TrailInv, Trails, Level
<1>2. /\ o \in Trails /\ o.trail = s.trail /\ o.true = s.true /\ o.level = s.level
      /\ o.frames = Append(s.frames, Len(s.trail))
  BY ONLY <1>1, AppendProperties DEF Trails
<1>3. t = Assign(o, v, Level(o), Decision) BY DEF Decide
<1> HIDE DEF o
<1>4. /\ Level(o) = Level(s) + 1 /\ o.frames[Level(s) + 1] = Len(s.trail)
      /\ \A k \in 1..Level(s) : o.frames[k] = s.frames[k]
  BY <1>1, <1>2, AppendProperties DEF Trails, Level
<1>5. \A i \in 1..Len(s.trail) : s.trail[i] \in s.true /\ s.level[s.trail[i]] <= Level(s)
  BY <1>1 DEF TrailInv, LitsOf, Trails
<1>6. FramesCut(o)
  <2>1. \A i \in 1..Len(s.trail) : s.level[s.trail[i]] \in Nat BY <1>1, <1>5 DEF Trails
  <2>2. \A k \in 1..Level(s) : s.frames[k] \in Nat BY <1>1 DEF Trails, Level
  <2>3. FramesCut(s) BY DEF TrailInv
  <2>4. ASSUME NEW k \in 1..Level(o)
        PROVE  o.frames[k] <= Len(o.trail) /\ \A i \in 1..o.frames[k] : o.level[o.trail[i]] < k
    <3>1. CASE k \in 1..Level(s)
      BY <1>2, <1>4, <2>3, <3>1 DEF FramesCut
    <3>2. CASE k = Level(s) + 1
      <4>1. o.frames[k] = Len(s.trail) /\ o.trail = s.trail /\ o.level = s.level BY <1>2, <1>4, <3>2
      <4>2. \A i \in 1..Len(s.trail) : s.level[s.trail[i]] < k
        BY ONLY <1>1, <1>5, <2>1, <3>2
      <4>3. QED BY ONLY <1>1, <4>1, <4>2
    <3>3. QED BY <1>1, <1>4, <3>1, <3>2
  <2>5. ASSUME NEW j \in 1..Level(o), NEW k \in 1..Level(o), j <= k
        PROVE  o.frames[j] <= o.frames[k]
    <3>1. CASE k \in 1..Level(s)
      <4>1. j \in 1..Level(s) BY <1>1, <2>5, <3>1
      <4>2. QED BY <1>4, <2>3, <2>5, <3>1, <4>1 DEF FramesCut
    <3>2. CASE k = Level(s) + 1
      <4>1. o.frames[k] = Len(s.trail) BY <1>4, <3>2
      <4>2. QED BY <1>2, <2>4, <4>1
    <3>3. QED BY <1>1, <1>4, <3>1, <3>2
  <2>6. QED BY <2>4, <2>5 DEF FramesCut
<1>7. \A u \in s.true : s.level[u] \in Nat BY <1>1 DEF Trails
<1>8. TrailInv(o) BY <1>1, <1>2, <1>4, <1>6, <1>7 DEF TrailInv
<1>9. Level(o) \in 0..Level(o) /\ Decision \in Reasons BY <1>1, <1>4 DEF Reasons
<1>10. /\ TrailInv(t) /\ t.true = o.true \cup {v} /\ t.frames = o.frames
       /\ t.level = [o.level EXCEPT ![v] = Level(o)]
  BY <1>2, <1>3, <1>8, <1>9, AssignKeeps
<1>11. QED BY <1>2, <1>4, <1>10 DEF Level

LEMMA FlushKeeps ==
  ASSUME NEW s, TrailInv(s), Level(s) = 0, NEW t, t = FlushTrail(s)
  PROVE  TrailInv(t) /\ t.true = s.true /\ t.level = s.level /\ Level(t) = 0
<1>1. s \in Trails BY DEF TrailInv
<1>2. /\ t \in Trails /\ t.true = s.true /\ t.level = s.level /\ t.frames = s.frames
      /\ t.trail = <<>>
  <2>1. t = [s EXCEPT !.trail = <<>>, !.propagated = 0] BY DEF FlushTrail
  <2>2. <<>> \in Seq(Var) OBVIOUS
  <2>3. QED BY ONLY <1>1, <2>1, <2>2 DEF Trails
<1>3. LitsOf(t.trail) = {} BY <1>2 DEF LitsOf
<1>4. \A u \in s.true : s.level[u] \in Nat /\ s.level[u] <= 0 BY <1>1 DEF Trails, TrailInv
<1>5. FramesCut(t) BY <1>2 DEF FramesCut, Level
<1>6. QED BY <1>2, <1>3, <1>4, <1>5 DEF TrailInv, Level

LEMMA EmptyHolds == TrailInv(Empty) /\ Empty.true = {}
<1>1. /\ Empty \in Trails /\ Empty.true = {} /\ Empty.frames = <<>> /\ Empty.trail = <<>>
  BY DEF Empty, Trails, Reasons
<1>2. LitsOf(<<>>) = {} BY DEF LitsOf
<1>3. FramesCut(Empty) BY <1>1 DEF FramesCut, Level
<1>4. QED BY <1>1, <1>2, <1>3 DEF TrailInv

\* The literals of a sequence that a backtrack to a level keeps, and those it unassigns.
Below(s, seq, l) == {v \in LitsOf(seq) : s.level[v] <= l}
Above(s, seq, l) == {v \in LitsOf(seq) : ~ (LevelOf(s, v) <= l)}
IsCut(s, tr, size, l, late, rest) ==
  /\ late = SubSeq(tr, size + 1, Len(tr))
  /\ rest = Stay!Folded(<<s, l>>, SubSeq(tr, 1, size), late)

\* What stays of a trail that is cut at size.
LEMMA StayIs ==
  ASSUME NEW s, s.level \in [Var -> Nat], NEW tr \in Seq(Var), NEW size \in 0..Len(tr), NEW l \in Nat,
         \A i \in 1..size : s.level[tr[i]] <= l,
         NEW late, NEW rest, IsCut(s, tr, size, l, late, rest)
  PROVE  /\ rest \in Seq(Var) /\ size <= Len(rest) /\ \A i \in 1..size : rest[i] = tr[i]
         /\ LitsOf(rest) = Below(s, tr, l)
         /\ Above(s, late, l) = Above(s, tr, l)
<1>p. PICK pre : pre = SubSeq(tr, 1, size) OBVIOUS
<1>q. late = SubSeq(tr, size + 1, Len(tr)) /\ rest = Stay!Folded(<<s, l>>, pre, late)
  BY <1>p DEF IsCut
<1> DEFINE n == Len(tr)  m == size + 1
<1>1. n \in Nat /\ size \in Nat /\ size <= n /\ m \in Nat /\ m = size + 1 BY LitsOfIs
<1>2. \A i \in 1..n : tr[i] \in Var BY LitsOfIs
<1>3. LitsOf(tr) = {tr[i] : i \in 1..n} BY LitsOfIs
<1> HIDE DEF n, m
<1>4. pre \in Seq(Var) /\ Len(pre) = size /\ \A i \in 1..size : pre[i] = tr[i]
  <2>1. \A i \in 1..size : tr[i] \in Var BY <1>1, <1>2
  <2>2. /\ pre \in Seq(Var) /\ Len(pre) = (IF 1 <= size THEN size - 1 + 1 ELSE 0)
        /\ \A i \in 1..(size - 1 + 1) : pre[i] = tr[1 + i - 1]
    BY ONLY <1>1, <2>1, <1>p, SubSeqProperties
  <2>3. size - 1 + 1 = size /\ \A i \in 1..size : 1 + i - 1 = i BY ONLY <1>1
  <2>4. QED BY ONLY <1>1, <2>2, <2>3
<1>5. late \in Seq(Var) /\ Len(late) = n - size /\ \A i \in 1..(n - size) : late[i] = tr[size + i]
  <2>1. \A i \in m..n : tr[i] \in Var BY <1>1, <1>2
  <2>2. /\ late \in Seq(Var) /\ Len(late) = (IF m <= n THEN n - m + 1 ELSE 0)
        /\ \A i \in 1..(n - m + 1) : late[i] = tr[m + i - 1]
    BY ONLY <1>1, <2>1, <1>q, SubSeqProperties DEF n, m
  <2>3. n - m + 1 = n - size /\ \A i \in 1..(n - size) : m + i - 1 = size + i BY ONLY <1>1
  <2>4. QED BY ONLY <1>1, <2>2, <2>3
<1>6. ASSUME NEW k \in 1..Len(late)
      PROVE  /\ late[k] \in Var /\ LevelOf(s, late[k]) = s.level[late[k]] /\ s.level[late[k]] \in Nat
  <2>1. late[k] \in Var BY ONLY <1>5, LitsOfIs, k \in 1..Len(late)
  <2>2. QED BY <2>1, VarFacts DEF LevelOf
<1>7. Len(late) \in Nat /\ LitsOf(late) = {late[i] : i \in 1..Len(late)}
  BY ONLY <1>5, LitsOfIs
<1> DEFINE Staying(k) == {tr[i] : i \in 1..size} \cup {late[j] : j \in {i \in 1..k : s.level[late[i]] <= l}}
           Good(k, t) == size <= Len(t) /\ (\A i \in 1..size : t[i] = tr[i]) /\ LitsOf(t) = Staying(k)
           G == [k \in Nat |-> {t \in Seq(Var) : Good(k, t)}]
<1> HIDE DEF Good
<1>g. \A k \in Nat : \A t : t \in G[k] <=> t \in Seq(Var) /\ Good(k, t) OBVIOUS
<1> HIDE DEF G
<1>8. pre \in G[0]
  <2>1. Staying(0) = {tr[i] : i \in 1..size} OBVIOUS
  <2>2. LitsOf(pre) = {pre[i] : i \in 1..size} BY ONLY <1>4, LitsOfIs
  <2>3. LitsOf(pre) = Staying(0) BY <1>4, <2>1, <2>2
  <2> HIDE DEF Staying
  <2>4. size <= Len(pre) BY <1>1, <1>4
  <2>5. Good(0, pre) BY <1>4, <2>3, <2>4 DEF Good
  <2>6. QED BY <1>4, <1>g, <2>5
<1>9. ASSUME NEW k \in 1..Len(late), NEW t \in G[k - 1]
      PROVE  (IF LevelOf(s, late[k]) <= l THEN Append(t, late[k]) ELSE t) \in G[k]
  <2>1. k \in Nat /\ k - 1 \in Nat /\ 1..k = 1..(k - 1) \cup {k} BY <1>7
  <2>2. /\ t \in Seq(Var) /\ size <= Len(t) /\ \A i \in 1..size : t[i] = tr[i]
        /\ LitsOf(t) = Staying(k - 1)
    <3> HIDE DEF Staying
    <3>1. t \in Seq(Var) /\ Good(k - 1, t) BY <1>g, <2>1
    <3>2. QED BY <3>1 DEF Good
  <2>3. CASE s.level[late[k]] <= l
    <3>1. Staying(k) = Staying(k - 1) \cup {late[k]}
      <4>1. {i \in 1..k : s.level[late[i]] <= l} = {i \in 1..(k - 1) : s.level[late[i]] <= l} \cup {k}
        BY <2>1, <2>3
      <4>2. {late[j] : j \in {i \in 1..k : s.level[late[i]] <= l}}
              = {late[j] : j \in {i \in 1..(k - 1) : s.level[late[i]] <= l}} \cup {late[k]}
        BY <4>1
      <4>3. QED BY <4>2
    <3> DEFINE at == Append(t, late[k])
    <3>2. at \in Seq(Var) /\ Len(at) = Len(t) + 1 /\ \A i \in 1..Len(t) : at[i] = t[i]
      BY <1>6, <2>2, AppendProperties
    <3>3. LitsOf(at) = LitsOf(t) \cup {late[k]} BY ONLY <1>6, <2>2, LitsOfAppend
    <3> HIDE DEF at, Staying
    <3>4. Len(t) \in Nat BY <2>2, LenProperties
    <3>5. size <= Len(at) /\ \A i \in 1..size : i \in 1..Len(t) BY <1>1, <2>2, <3>2, <3>4
    <3>6. Good(k, at) BY <2>2, <3>1, <3>2, <3>3, <3>5 DEF Good
    <3>7. at \in G[k] BY <1>g, <2>1, <3>2, <3>6
    <3>8. QED BY <1>6, <2>3, <3>7 DEF at
  <2>4. CASE ~ (s.level[late[k]] <= l)
    <3>1. Staying(k) = Staying(k - 1)
      <4>1. {i \in 1..k : s.level[late[i]] <= l} = {i \in 1..(k - 1) : s.level[late[i]] <= l}
        BY <2>1, <2>4
      <4>2. QED BY <4>1
    <3> HIDE DEF Staying
    <3>2. Good(k, t) BY <2>2, <3>1 DEF Good
    <3>3. t \in G[k] BY <1>g, <2>1, <2>2, <3>2
    <3>4. QED BY <1>6, <2>4, <3>3
  <2>5. QED BY <2>3, <2>4
<1>10. rest \in G[Len(late)]
  <2>1. Stay!Folded(<<s, l>>, pre, late) \in G[Len(late)]
    BY ONLY <1>5, <1>8, <1>9, Stay!FoldedIn
  <2>2. QED BY <1>q, <2>1
<1>11. /\ rest \in Seq(Var) /\ size <= Len(rest) /\ \A i \in 1..size : rest[i] = tr[i]
       /\ LitsOf(rest) = Staying(Len(late))
  <2> HIDE DEF Staying
  <2>1. QED BY <1>7, <1>10, <1>g DEF Good
\* A place in the trail is one before the cut or one behind it.
<1>12. ASSUME NEW i \in 1..n
       PROVE  i \in 1..size \/ (i - size \in 1..Len(late) /\ late[i - size] = tr[i])
  <2>1. CASE i <= size BY <1>1, <2>1
  <2>2. CASE ~ (i <= size)
    <3>1. i - size \in 1..(n - size) /\ size + (i - size) = i BY <1>1, <2>2
    <3>2. QED BY <1>5, <3>1
  <2>3. QED BY <2>1, <2>2
<1>13. ASSUME NEW j \in 1..Len(late) PROVE size + j \in 1..n /\ late[j] = tr[size + j]
  BY <1>1, <1>5
<1>14. Staying(Len(late)) = Below(s, tr, l)
  <2>1. ASSUME NEW v \in Staying(Len(late)) PROVE v \in LitsOf(tr) /\ s.level[v] <= l
    <3>1. CASE \E i \in 1..size : v = tr[i]
      <4>1. PICK i \in 1..size : v = tr[i] BY <3>1
      <4>2. i \in 1..n BY <1>1
      <4>3. QED BY <1>3, <4>1, <4>2
    <3>2. CASE \E j \in 1..Len(late) : v = late[j] /\ s.level[late[j]] <= l
      <4>1. PICK j \in 1..Len(late) : v = late[j] /\ s.level[late[j]] <= l BY <3>2
      <4>2. QED BY <1>3, <1>13, <4>1
    <3>3. QED BY <3>1, <3>2
  <2>2. ASSUME NEW v \in LitsOf(tr), s.level[v] <= l PROVE v \in Staying(Len(late))
    <3>1. PICK i \in 1..n : v = tr[i] BY <1>3
    <3>2. CASE i \in 1..size BY <3>1, <3>2
    <3>3. CASE i - size \in 1..Len(late) /\ late[i - size] = tr[i] BY <2>2, <3>1, <3>3
    <3>4. QED BY <1>12, <3>2, <3>3
  <2> HIDE DEF Staying
  <2>3. QED BY <2>1, <2>2 DEF Below
<1> HIDE DEF Staying
<1>15. ASSUME NEW v
       PROVE  v \in LitsOf(late) /\ ~ (LevelOf(s, v) <= l) <=> v \in LitsOf(tr) /\ ~ (LevelOf(s, v) <= l)
  <2>1. ASSUME v \in LitsOf(late), ~ (LevelOf(s, v) <= l) PROVE v \in LitsOf(tr) /\ ~ (LevelOf(s, v) <= l)
    <3>1. PICK j \in 1..Len(late) : v = late[j] BY <1>7, <2>1
    <3>2. QED BY <1>3, <1>6, <1>13, <2>1, <3>1
  <2>2. ASSUME v \in LitsOf(tr), ~ (LevelOf(s, v) <= l) PROVE v \in LitsOf(late) /\ ~ (LevelOf(s, v) <= l)
    <3>1. PICK i \in 1..n : v = tr[i] BY <1>3, <2>2
    <3>2. i \notin 1..size
      <4>1. LevelOf(s, v) = s.level[v] BY <1>2, <3>1, VarFacts DEF LevelOf
      <4>2. QED BY <2>2, <3>1, <4>1
    <3>3. i - size \in 1..Len(late) /\ late[i - size] = v BY <1>12, <3>1, <3>2
    <3>4. QED BY <1>6, <1>7, <2>2, <3>3
  <2>3. QED BY <2>1, <2>2
<1>16. Above(s, late, l) = Above(s, tr, l) BY <1>15 DEF Above
<1>17. QED BY <1>11, <1>14, <1>16

Undone(s, l) == [Backtrack(s, l) EXCEPT !.propagated = 0]

LEMMA BacktrackKeeps ==
  ASSUME NEW s, TrailInv(s), NEW l \in 0..Level(s),
         NEW t, t = Undone(s, l)
  PROVE  /\ TrailInv(t) /\ Level(t) = l
         /\ t.true = {v \in s.true : s.level[v] <= l}
         /\ \A v \in t.true : t.level[v] = s.level[v]
<1>1. /\ s \in Trails /\ Level(s) \in Nat /\ l \in Nat /\ s.trail \in Seq(Var) /\ s.frames \in Seq(Nat)
      /\ s.level \in [Var -> Nat] /\ s.true \subseteq Var /\ FramesCut(s)
  BY LitsOfIs DEF TrailInv, Trails, Level
<1>2. CASE l = Level(s)
  <2>1. t = [s EXCEPT !.propagated = 0] BY <1>2 DEF Backtrack, Undone
  <2>2. /\ t \in Trails /\ t.trail = s.trail /\ t.frames = s.frames /\ t.true = s.true
        /\ t.level = s.level
    BY ONLY <1>1, <2>1 DEF Trails
  <2>3. TrailInv(t) BY <2>2 DEF TrailInv, FramesCut, Level
  <2>4. \A v \in s.true : s.level[v] <= l BY <1>2 DEF TrailInv
  <2>5. QED BY <1>2, <2>2, <2>3, <2>4 DEF Level
<1>3. CASE l # Level(s)
  <2> DEFINE size == s.frames[l + 1]
             pre == SubSeq(s.trail, 1, size)
             late == SubSeq(s.trail, size + 1, Len(s.trail))
             gone == {lit \in LitsOf(late) : ~ (LevelOf(s, lit) <= l)}
             goneVar == {VarOf(lit) : lit \in gone}
             rest == FoldLeft(LAMBDA trail, lit :
                                IF LevelOf(s, lit) <= l THEN Append(trail, lit) ELSE trail, pre, late)
             level == [v \in Var |-> IF v \in goneVar THEN 0 ELSE s.level[v]]
             reason == [v \in Var |-> IF v \in goneVar THEN NoReason ELSE s.reason[v]]
             frames == SubSeq(s.frames, 1, l)
  <2>1. l + 1 \in 1..Level(s) BY <1>1, <1>3
  <2>2. size \in Nat /\ size <= Len(s.trail) /\ \A i \in 1..size : s.level[s.trail[i]] < l + 1
    BY <1>1, <2>1, LitsOfIs DEF FramesCut, Level
  <2>3. t = [trail |-> rest, frames |-> frames, true |-> s.true \ gone, level |-> level,
             reason |-> reason, propagated |-> 0]
    BY <1>3 DEF Backtrack, Undone
  <2>4. rest = Stay!Folded(<<s, l>>, pre, late)
    <3> HIDE DEF pre, late
    <3>1. QED BY StayFold
  <2>5. Len(s.trail) \in Nat /\ \A i \in 1..Len(s.trail) : s.trail[i] \in Var /\ s.trail[i] \in LitsOf(s.trail)
    BY <1>1, LitsOfIs
  <2>6. size \in 0..Len(s.trail) /\ \A i \in 1..size : s.level[s.trail[i]] <= l
    <3>1. ASSUME NEW i \in 1..size PROVE s.level[s.trail[i]] <= l
      <4>1. i \in 1..Len(s.trail) BY <2>2, <2>5
      <4>2. s.level[s.trail[i]] \in Nat BY <1>1, <2>5, <4>1
      <4>3. QED BY <1>1, <2>2, <4>2
    <3>2. QED BY <2>2, <2>5, <3>1
  <2> HIDE DEF size, rest
  <2>7. /\ rest \in Seq(Var) /\ size <= Len(rest) /\ \A i \in 1..size : rest[i] = s.trail[i]
        /\ LitsOf(rest) = {v \in LitsOf(s.trail) : s.level[v] <= l}
        /\ gone = {v \in LitsOf(s.trail) : ~ (s.level[v] <= l)}
    <3>1. pre = SubSeq(s.trail, 1, size) /\ late = SubSeq(s.trail, size + 1, Len(s.trail)) OBVIOUS
    <3> HIDE DEF pre, late
    <3>2. /\ rest \in Seq(Var) /\ size <= Len(rest) /\ \A i \in 1..size : rest[i] = s.trail[i]
          /\ LitsOf(rest) = {v \in LitsOf(s.trail) : s.level[v] <= l}
          /\ {lit \in LitsOf(late) : ~ (LevelOf(s, lit) <= l)} = {v \in LitsOf(s.trail) : ~ (s.level[v] <= l)}
      <4>1. PICK tr : tr = s.trail OBVIOUS
      <4>2. tr \in Seq(Var) /\ size \in 0..Len(tr) /\ \A i \in 1..size : s.level[tr[i]] <= l
        BY <1>1, <2>6, <4>1
      <4>3. IsCut(s, tr, size, l, late, rest) BY <2>4, <3>1, <4>1 DEF IsCut
      <4>4. /\ rest \in Seq(Var) /\ size <= Len(rest) /\ \A i \in 1..size : rest[i] = tr[i]
            /\ LitsOf(rest) = Below(s, tr, l) /\ Above(s, late, l) = Above(s, tr, l)
        <5> HIDE DEF gone, goneVar, level, reason, frames
        <5>1. s.level \in [Var -> Nat] /\ l \in Nat BY <1>1
        <5>2. QED BY ONLY <4>2, <4>3, <5>1, StayIs
      <4>5. \A v \in LitsOf(tr) : LevelOf(s, v) = s.level[v]
        BY <1>1, <4>2, LitsOfIs, VarFacts DEF LevelOf
      <4>6. QED BY <4>1, <4>4, <4>5 DEF Above, Below
    <3>3. QED BY <3>2
  <2> HIDE DEF gone
  <2>8. LitsOf(s.trail) \subseteq s.true /\ \A v \in s.true : s.level[v] > 0 => v \in LitsOf(s.trail)
    BY DEF TrailInv
  <2>9. gone = {v \in s.true : ~ (s.level[v] <= l)}
    <3>1. \A v \in s.true : s.level[v] \in Nat /\ (~ (s.level[v] <= l) => s.level[v] > 0) BY <1>1
    <3>2. QED BY <2>7, <2>8, <3>1
  <2>10. goneVar = gone
    <3>1. \A v \in gone : VarOf(v) = v BY <1>1, <2>9, VarFacts
    <3>2. QED BY <3>1
  <2> HIDE DEF goneVar
  <2>11. /\ t.trail = rest /\ t.frames = frames /\ t.true = s.true \ gone /\ t.level = level
         /\ t.reason = reason /\ t.propagated = 0
    BY ONLY <2>3
  <2>12. /\ t.true = {v \in s.true : s.level[v] <= l}
         /\ \A v \in t.true : t.level[v] = s.level[v]
    BY <1>1, <2>9, <2>10, <2>11
  <2>13. frames \in Seq(Nat) /\ Len(frames) = l /\ \A k \in 1..l : frames[k] = s.frames[k]
    <3>1. \A k \in 1..l : s.frames[k] \in Nat
      <4>1. \A k \in 1..l : k \in 1..Len(s.frames) BY <1>1, <2>1 DEF Level
      <4>2. QED BY <1>1, <4>1, LitsOfIs
    <3>2. /\ frames \in Seq(Nat) /\ Len(frames) = (IF 1 <= l THEN l - 1 + 1 ELSE 0)
          /\ \A k \in 1..(l - 1 + 1) : frames[k] = s.frames[1 + k - 1]
      BY ONLY <1>1, <3>1, SubSeqProperties
    <3>3. l - 1 + 1 = l /\ \A k \in 1..l : 1 + k - 1 = k BY ONLY <1>1
    <3>4. QED BY ONLY <1>1, <3>2, <3>3
  <2> HIDE DEF frames
  <2>14. Level(t) = l BY <2>11, <2>13 DEF Level
  <2>15. t \in Trails
    <3>1. level \in [Var -> Nat] BY <1>1
    <3>2. reason \in [Var -> Reasons] BY <1>1 DEF Trails, Reasons
    <3>3. s.true \ gone \in SUBSET Var BY <1>1
    <3> HIDE DEF level, reason
    <3>4. QED BY ONLY <2>3, <2>7, <2>13, <3>1, <3>2, <3>3 DEF Trails
  <2>16. LitsOf(t.trail) \subseteq t.true BY <2>7, <2>8, <2>11, <2>12
  <2>17. \A v \in t.true : t.level[v] <= l /\ (t.level[v] > 0 => v \in LitsOf(t.trail))
    BY <2>7, <2>8, <2>11, <2>12
  <2>18. ASSUME NEW k \in 1..l
         PROVE  /\ t.frames[k] = s.frames[k] /\ s.frames[k] \in Nat /\ s.frames[k] <= size
                /\ k \in 1..Level(s)
    <3>1. k \in 1..Level(s) /\ k <= l + 1 /\ k \in 1..Len(s.frames) BY <1>1, <2>1 DEF Level
    <3>2. s.frames[k] \in Nat BY <1>1, <3>1, LitsOfIs
    <3>3. s.frames[k] <= size BY <1>1, <2>1, <3>1 DEF FramesCut, size
    <3>4. QED BY <2>11, <2>13, <3>1, <3>2, <3>3
  <2>19. FramesCut(t)
    <3>1. ASSUME NEW k \in 1..l, NEW i \in 1..s.frames[k] PROVE t.level[t.trail[i]] < k
      <4>1. i \in 1..size /\ i \in 1..Len(s.trail) BY <2>6, <2>18
      <4>2. t.trail[i] = s.trail[i] BY <2>7, <2>11, <4>1
      <4>3. s.trail[i] \in t.true BY <2>5, <2>6, <2>8, <2>12, <4>1
      <4>4. s.level[s.trail[i]] < k BY <1>1, <2>18 DEF FramesCut
      <4>5. QED BY <2>12, <4>2, <4>3, <4>4
    <3>2. ASSUME NEW k \in 1..l PROVE t.frames[k] <= Len(t.trail)
      <4>1. Len(rest) \in Nat BY <2>7, LenProperties
      <4>2. QED BY <2>6, <2>7, <2>11, <2>18, <4>1
    <3>3. \A j, k \in 1..l : j <= k => t.frames[j] <= t.frames[k]
      BY <1>1, <2>18 DEF FramesCut
    <3>4. QED BY <2>14, <2>18, <3>1, <3>2, <3>3 DEF FramesCut
  <2>20. QED BY <2>12, <2>14, <2>15, <2>16, <2>17, <2>19 DEF TrailInv
<1>4. QED BY <1>2, <1>3

\* A sequence without repetition is no longer than what it is made of.
LEMMA SeqBound ==
  ASSUME NEW S, IsFiniteSet(S), NEW seq \in Seq(S),
         \A i, j \in DOMAIN seq : seq[i] = seq[j] => i = j
  PROVE  Len(seq) \in Nat /\ Cardinality(S) \in Nat /\ Len(seq) <= Cardinality(S)
<1>1. Len(seq) \in Nat /\ DOMAIN seq = 1 .. Len(seq) BY LenProperties
<1>2. seq \in [1 .. Len(seq) -> S] BY <1>1, ElementOfSeq
<1>3. seq \in Injection(1 .. Len(seq), S) BY <1>1, <1>2 DEF Injection, IsInjective
<1>4. Cardinality(1 .. Len(seq)) <= Cardinality(S) BY <1>3, FS_Injection
<1>5. Cardinality(1 .. Len(seq)) = Len(seq) BY ONLY <1>1, FS_Interval
<1>6. QED BY <1>1, <1>4, <1>5, FS_CardinalityType

-----------------------------------------------------------------------------
(* The place of a variable in a sequence without repetition.               *)
LEMMA ContainsIs ==
  ASSUME NEW S, NEW seq \in Seq(S), NEW v
  PROVE  Contains(seq, v) <=> v \in LitsOf(seq)
<1>1. LitsOf(seq) = {seq[i] : i \in 1..Len(seq)} BY LitsOfIs
<1>2. QED BY <1>1 DEF Contains

PlaceIn(seq, v) == SelectInSeq(seq, LAMBDA u : u = v)

LEMMA PlaceIs ==
  ASSUME NEW S, NEW seq \in Seq(S), \A i, j \in 1..Len(seq) : seq[i] = seq[j] => i = j,
         NEW i \in 1..Len(seq), NEW v, v = seq[i]
  PROVE  PlaceIn(seq, v) = i
<1> DEFINE I == {j \in 1..Len(seq) : seq[j] = v}
<1>1. I = {i} OBVIOUS
<1>2. PlaceIn(seq, v) = IF I # {} THEN Min(I) ELSE 0 BY DEF PlaceIn, SelectInSeq
<1> HIDE DEF I
<1>3. i \in Int BY LenProperties
<1>4. Min({i}) = i BY <1>3 DEF Min
<1>5. QED BY <1>1, <1>2, <1>4

-----------------------------------------------------------------------------
(* The queue.                                                              *)
LEMMA QueueTypes ==
  ASSUME NEW q \in Queues
  PROVE  /\ q.prev \in [Var -> 0..N] /\ q.next \in [Var -> 0..N] /\ q.stamps \in [Var -> Nat]
         /\ q.first \in 0..N /\ q.last \in 0..N /\ q.stamp \in Nat
         /\ q.search.idx \in 0..N /\ q.search.stamp \in Nat
         /\ \A v \in Var : q.prev[v] \in 0..N /\ q.next[v] \in 0..N /\ q.stamps[v] \in Nat
BY DEF Queues

LEMMA LinkingFacts ==
  ASSUME NEW q, NEW ord, Linking(q, ord)
  PROVE  /\ ord \in Seq(Var) /\ Len(ord) \in Nat /\ Len(ord) <= N /\ DOMAIN ord = 1..Len(ord)
         /\ \A i \in 1..Len(ord) : ord[i] \in Var /\ ord[i] \in LitsOf(ord)
         /\ \A i, j \in 1..Len(ord) : ord[i] = ord[j] => i = j
         /\ LitsOf(ord) = {ord[i] : i \in 1..Len(ord)} /\ LitsOf(ord) \subseteq Var
<1>1. ord \in Seq(Var) /\ \A i, j \in 1..Len(ord) : ord[i] = ord[j] => i = j
  BY DEF Linking
<1>2. /\ Len(ord) \in Nat /\ DOMAIN ord = 1..Len(ord)
      /\ LitsOf(ord) = {ord[i] : i \in 1..Len(ord)} /\ LitsOf(ord) \subseteq Var
      /\ \A i \in 1..Len(ord) : ord[i] \in Var /\ ord[i] \in LitsOf(ord)
  BY <1>1, LitsOfIs
<1>3. Len(ord) <= N
  <2>1. \A i, j \in DOMAIN ord : ord[i] = ord[j] => i = j BY <1>1, <1>2
  <2>2. IsFiniteSet(Var) /\ Cardinality(Var) = N BY VarFacts
  <2>3. Len(ord) <= Cardinality(Var)
    <3>1. ord \in Seq(Var) BY <1>1
    <3>2. QED BY ONLY <2>1, <2>2, <3>1, SeqBound
  <2>4. QED BY <2>2, <2>3
<1>4. QED BY <1>1, <1>2, <1>3

LEMMA HoldsFacts ==
  ASSUME NEW q, NEW A, NEW ord, Holds(q, ord, A)
  PROVE  /\ ord \in Seq(Var) /\ Len(ord) \in Nat /\ Len(ord) <= N /\ DOMAIN ord = 1..Len(ord)
         /\ \A i \in 1..Len(ord) : ord[i] \in Var /\ ord[i] \in A
         /\ \A i, j \in 1..Len(ord) : ord[i] = ord[j] => i = j
         /\ A \subseteq Var /\ \A v \in A : \E i \in 1..Len(ord) : ord[i] = v
         /\ Len(ord) = 0 <=> A = {}
<1>1. Linking(q, ord) /\ LitsOf(ord) = A BY DEF Holds
<1>2. Len(ord) # 0 => 1 \in 1..Len(ord) BY <1>1, LinkingFacts
<1>3. QED BY <1>1, <1>2, LinkingFacts

\* The walk along the links, as a recursion.
Along == INSTANCE Induction WITH Op <- LAMBDA q, at, n :
           IF at = DISCONNECT THEN at ELSE q.next[at]

LEMMA OrderRun ==
  ASSUME NEW q
  PROVE  \E at : /\ Along!IsRun(at, q, q.first, N)
                 /\ Order(q) = [n \in 1..Cardinality({m \in 1..N : at[m - 1] # DISCONNECT}) |-> at[n - 1]]
<1> DEFINE at == CHOOSE f : Along!IsRun(f, q, q.first, N)
<1>1. Along!IsRun(at, q, q.first, N) BY VariablesAssumption, Along!RunExists
<1>2. Order(q) = [n \in 1..Cardinality({m \in 1..N : at[m - 1] # DISCONNECT}) |-> at[n - 1]]
  BY DEF Order, Along!IsRun
<1>3. QED BY <1>1, <1>2

LEMMA LinkingOrder ==
  ASSUME NEW q, NEW ord, Linking(q, ord)
  PROVE  Order(q) = ord
<1> DEFINE n == Len(ord)
<1>1. /\ ord \in Seq(Var) /\ n \in Nat /\ n <= N /\ DOMAIN ord = 1..n /\ N \in Nat
      /\ \A i \in 1..n : ord[i] \in Var
  BY LinkingFacts, VariablesAssumption
<1>2. /\ q.first = (IF n = 0 THEN DISCONNECT ELSE ord[1])
      /\ \A i \in 1..n : q.next[ord[i]] = (IF i = n THEN DISCONNECT ELSE ord[i + 1])
  BY DEF Linking
<1>3. PICK at : /\ Along!IsRun(at, q, q.first, N)
                /\ Order(q) = [k \in 1..Cardinality({m \in 1..N : at[m - 1] # DISCONNECT}) |-> at[k - 1]]
  BY OrderRun
<1>4. \A i \in 1..n : ord[i] # DISCONNECT BY <1>1, VarFacts DEF DISCONNECT
<1> HIDE DEF n
<1> DEFINE G == [k \in Nat |-> {IF k < n THEN ord[k + 1] ELSE DISCONNECT}]
<1>5. \A k \in Nat : \A d : d \in G[k] <=> d = (IF k < n THEN ord[k + 1] ELSE DISCONNECT) OBVIOUS
<1> HIDE DEF G
<1>6. q.first \in G[0]
  <2>1. q.first = IF 0 < n THEN ord[0 + 1] ELSE DISCONNECT BY <1>1, <1>2
  <2>2. QED BY <1>5, <2>1
<1>7. ASSUME NEW k \in 1..N, NEW d \in G[k - 1]
      PROVE  (IF d = DISCONNECT THEN d ELSE q.next[d]) \in G[k]
  <2>1. k \in Nat /\ k - 1 \in Nat /\ (k - 1) + 1 = k BY <1>1
  <2>2. d = IF k - 1 < n THEN ord[k] ELSE DISCONNECT BY <1>5, <2>1
  <2>3. CASE k - 1 < n
    <3>1. k \in 1..n /\ d = ord[k] /\ d # DISCONNECT BY <1>1, <1>4, <2>1, <2>2, <2>3
    <3>2. q.next[d] = IF k = n THEN DISCONNECT ELSE ord[k + 1] BY <1>2, <3>1
    <3>3. q.next[d] = IF k < n THEN ord[k + 1] ELSE DISCONNECT BY <1>1, <3>1, <3>2
    <3>4. QED BY <1>5, <2>1, <3>1, <3>3
  <2>4. CASE ~ (k - 1 < n)
    <3>1. d = DISCONNECT /\ ~ (k < n) BY <1>1, <2>1, <2>2, <2>4
    <3>2. d \in G[k] BY <1>5, <2>1, <3>1
    <3>3. QED BY <3>1, <3>2
  <2>5. QED BY <2>3, <2>4
<1>8. \A k \in 0..N : at[k] \in G[k]
  BY ONLY <1>1, <1>3, <1>6, <1>7, Along!RunIn
<1>9. \A k \in 0..N : at[k] = IF k < n THEN ord[k + 1] ELSE DISCONNECT
  BY <1>1, <1>5, <1>8
<1>10. {m \in 1..N : at[m - 1] # DISCONNECT} = 1..n
  <2>1. ASSUME NEW m \in 1..N PROVE at[m - 1] # DISCONNECT <=> m <= n
    <3>1. m - 1 \in 0..N /\ (m - 1) + 1 = m /\ (m - 1 < n <=> m <= n) BY <1>1
    <3>2. m <= n => m \in 1..n BY <1>1
    <3>3. QED BY <1>4, <1>9, <3>1, <3>2
  <2>2. QED BY <1>1, <2>1
<1>11. Cardinality(1..n) = n BY <1>1, FS_Interval
<1>12. Order(q) = [k \in 1..n |-> at[k - 1]] BY <1>3, <1>10, <1>11
<1>13. \A k \in 1..n : at[k - 1] = ord[k]
  <2>1. ASSUME NEW k \in 1..n PROVE at[k - 1] = ord[k]
    <3>1. k - 1 \in 0..N /\ (k - 1) + 1 = k /\ k - 1 < n BY <1>1
    <3>2. QED BY <1>9, <3>1
  <2>2. QED BY <2>1
<1>14. ord = [k \in 1..n |-> ord[k]] BY <1>1
<1>15. QED BY <1>12, <1>13, <1>14

LEMMA OrderIs ==
  ASSUME NEW q, NEW ord, NEW A, Holds(q, ord, A)
  PROVE  Order(q) = ord
BY LinkingOrder DEF Holds

LEMMA QueueIs ==
  ASSUME NEW q \in Queues, NEW ord, NEW A, Holds(q, ord, A), SearchInv(q, A)
  PROVE  QueueInv(q, A)
BY OrderIs DEF QueueInv

\* The stamps tell the places.
LEMMA StampOrder ==
  ASSUME NEW q \in Queues, NEW ord, NEW A, Holds(q, ord, A), NEW i \in 1..Len(ord), NEW j \in 1..Len(ord)
  PROVE  /\ q.stamps[ord[i]] \in Nat /\ q.stamps[ord[j]] \in Nat
         /\ q.stamps[ord[i]] <= q.stamps[ord[j]] <=> i <= j
<1>1. q.stamps[ord[i]] \in Nat /\ q.stamps[ord[j]] \in Nat BY HoldsFacts, QueueTypes
<1>2. i \in Nat /\ j \in Nat BY HoldsFacts
<1>3. /\ i < j => q.stamps[ord[i]] < q.stamps[ord[j]]
      /\ j < i => q.stamps[ord[j]] < q.stamps[ord[i]]
  BY DEF Holds, Stamping
<1>4. i = j => q.stamps[ord[i]] = q.stamps[ord[j]] OBVIOUS
<1>5. QED BY ONLY <1>1, <1>2, <1>3, <1>4

SameLinks(r, q) == r.prev = q.prev /\ r.next = q.next /\ r.first = q.first /\ r.last = q.last
SameStamps(r, q) == r.stamps = q.stamps /\ r.stamp = q.stamp

LEMMA UpdateIs ==
  ASSUME NEW q \in Queues, NEW idx \in Var, NEW r, r = UpdateQueue(q, idx)
  PROVE  /\ r \in Queues /\ r.search.idx = idx /\ r.search.stamp = r.stamps[idx]
         /\ SameLinks(r, q) /\ SameStamps(r, q)
<1>1. r = [q EXCEPT !.search = [idx |-> idx, stamp |-> q.stamps[idx]]] BY DEF UpdateQueue
<1>2. idx \in 0..N /\ q.stamps[idx] \in Nat BY QueueTypes, VarFacts
<1>3. [idx |-> idx, stamp |-> q.stamps[idx]] \in [idx : 0..N, stamp : Nat] BY <1>2
<1>4. /\ r \in Queues /\ r.search = [idx |-> idx, stamp |-> q.stamps[idx]]
      /\ r.prev = q.prev /\ r.next = q.next /\ r.first = q.first /\ r.last = q.last
      /\ r.stamps = q.stamps /\ r.stamp = q.stamp
  BY ONLY <1>1, <1>3, q \in Queues DEF Queues
<1>5. QED BY <1>4 DEF SameLinks, SameStamps

LEMMA SameHolds ==
  ASSUME NEW q, NEW r, SameLinks(r, q), SameStamps(r, q), NEW ord, NEW A, Holds(q, ord, A)
  PROVE  Holds(r, ord, A)
BY DEF SameLinks, SameStamps, Holds, Linking, Stamping

LEMMA UpdateKeeps ==
  ASSUME NEW q, NEW A, QueueInv(q, A), NEW idx \in A, NEW r, r = UpdateQueue(q, idx)
  PROVE  QueueInv(r, A) /\ r.stamps = q.stamps /\ r.search.idx = idx /\ r.search.stamp = q.stamps[idx]
<1>1. q \in Queues /\ Holds(q, Order(q), A) BY DEF QueueInv
<1>2. idx \in Var BY <1>1, HoldsFacts
<1>3. /\ r \in Queues /\ r.search.idx = idx /\ r.search.stamp = r.stamps[idx]
      /\ SameLinks(r, q) /\ SameStamps(r, q)
  BY <1>1, <1>2, UpdateIs
<1>4. Holds(r, Order(q), A) BY <1>1, <1>3, SameHolds
<1>5. SearchInv(r, A) BY <1>2, <1>3, VarFacts DEF SearchInv, DISCONNECT
<1>6. QED BY <1>3, <1>4, <1>5, QueueIs DEF SameStamps

LEMMA CountedIs ==
  ASSUME NEW q \in Queues, NEW ord, Linking(q, ord), NEW c, c = Counted(q, ord)
  PROVE  c \in [Var -> Nat] /\ \A i \in 1..Len(ord) : c[ord[i]] = i
<1>1. ord \in Seq(Var) /\ \A i, j \in 1..Len(ord) : ord[i] = ord[j] => i = j BY DEF Linking
<1>2. Len(ord) \in Nat /\ LitsOf(ord) = {ord[i] : i \in 1..Len(ord)} /\ \A i \in 1..Len(ord) : ord[i] \in Var
  BY ONLY <1>1, LitsOfIs
<1>3. c = [v \in Var |-> IF Contains(ord, v) THEN PlaceIn(ord, v) ELSE q.stamps[v]]
  BY DEF Counted, PlaceIn
<1>4. \A i \in 1..Len(ord) : PlaceIn(ord, ord[i]) = i BY <1>1, PlaceIs
<1>5. \A v : Contains(ord, v) <=> \E i \in 1..Len(ord) : v = ord[i]
  BY <1>1, <1>2, ContainsIs
<1>6. \A v \in Var : c[v] = IF Contains(ord, v) THEN PlaceIn(ord, v) ELSE q.stamps[v] BY <1>3
<1>7. \A i \in 1..Len(ord) : c[ord[i]] = i BY <1>2, <1>4, <1>5, <1>6
<1>8. ASSUME NEW v \in Var PROVE c[v] \in Nat
  <2>1. CASE Contains(ord, v)
    <3>1. PICK i \in 1..Len(ord) : v = ord[i] BY <1>5, <2>1
    <3>2. QED BY <1>2, <1>7, <3>1
  <2>2. CASE ~ Contains(ord, v) BY <1>6, <2>2, QueueTypes
  <2>3. QED BY <2>1, <2>2
<1>9. QED BY <1>3, <1>7, <1>8

LEMMA ReassignStampsIs ==
  ASSUME NEW q \in Queues, NEW ord, Order(q) = ord, Linking(q, ord), NEW r, r = ReassignStamps(q)
  PROVE  /\ r \in Queues /\ SameLinks(r, q) /\ Stamping(r, ord)
         /\ \A i \in 1..Len(ord) : r.stamps[ord[i]] = i
         /\ r.search.idx = q.search.idx
         /\ q.search.idx # DISCONNECT => r.search.stamp = r.stamps[q.search.idx]
<1> DEFINE c == Counted(q, ord)
           m == [q EXCEPT !.stamp = Len(ord), !.stamps = c]
<1>1. ord \in Seq(Var) /\ Len(ord) \in Nat BY LitsOfIs DEF Linking
<1>2. c \in [Var -> Nat] /\ \A i \in 1..Len(ord) : c[ord[i]] = i BY CountedIs
<1>3. r = IF q.search.idx = DISCONNECT THEN m ELSE UpdateQueue(m, q.search.idx)
  BY DEF ReassignStamps
<1> HIDE DEF c
<1>4. /\ m \in Queues /\ SameLinks(m, q) /\ m.stamps = c /\ m.stamp = Len(ord) /\ m.search = q.search
  BY ONLY <1>1, <1>2, q \in Queues DEF Queues, SameLinks
<1> HIDE DEF m
<1>5. Stamping(m, ord) BY <1>1, <1>2, <1>4 DEF Stamping
<1>6. CASE q.search.idx = DISCONNECT BY <1>2, <1>3, <1>4, <1>5, <1>6
<1>7. CASE q.search.idx # DISCONNECT
  <2>1. q.search.idx \in Var BY <1>7, QueueTypes, VarFacts DEF DISCONNECT
  <2>2. r = UpdateQueue(m, q.search.idx) BY <1>3, <1>7
  <2>3. /\ r \in Queues /\ r.search.idx = q.search.idx /\ r.search.stamp = r.stamps[q.search.idx]
        /\ SameLinks(r, m) /\ SameStamps(r, m)
    BY <1>4, <2>1, <2>2, UpdateIs
  <2>4. SameLinks(r, q) /\ r.stamps = c /\ r.stamp = m.stamp BY <1>4, <2>3 DEF SameLinks, SameStamps
  <2>5. Stamping(r, ord) BY <1>4, <1>5, <2>4 DEF Stamping
  <2>6. QED BY <1>2, <2>3, <2>4, <2>5
<1>8. QED BY <1>6, <1>7

\* The static enqueue, up to the stamp.
Joined(q, i) ==
  [q EXCEPT !.next = [v \in Var |-> IF v = i THEN DISCONNECT ELSE IF v = q.last THEN i ELSE @[v]],
            !.prev[i] = q.last, !.last = i, !.first = IF q.last = DISCONNECT THEN i ELSE @]

LEMMA JoinedIs ==
  ASSUME NEW q \in Queues, NEW A, NEW ord, Holds(q, ord, A), NEW i \in Var, i \notin A,
         NEW new, new = Append(ord, i), NEW m, m = Joined(q, i)
  PROVE  /\ m \in Queues /\ Linking(m, new) /\ LitsOf(new) = A \cup {i} /\ Order(m) = new
         /\ SameStamps(m, q) /\ m.search = q.search
<1> DEFINE n == Len(ord)
<1>1. /\ ord \in Seq(Var) /\ n \in Nat /\ \A k \in 1..n : ord[k] \in Var /\ ord[k] \in A
      /\ \A j, k \in 1..n : ord[j] = ord[k] => j = k
  BY HoldsFacts
<1>2. /\ q.first = (IF n = 0 THEN DISCONNECT ELSE ord[1])
      /\ q.last = (IF n = 0 THEN DISCONNECT ELSE ord[n])
      /\ \A k \in 1..n : /\ q.prev[ord[k]] = (IF k = 1 THEN DISCONNECT ELSE ord[k - 1])
                         /\ q.next[ord[k]] = (IF k = n THEN DISCONNECT ELSE ord[k + 1])
  BY DEF Holds, Linking
<1>3. /\ new \in Seq(Var) /\ Len(new) = n + 1 /\ new[n + 1] = i /\ \A k \in 1..n : new[k] = ord[k]
  BY ONLY <1>1, i \in Var, new = Append(ord, i), AppendProperties
<1> HIDE DEF n
<1>4. LitsOf(new) = A \cup {i} BY <1>1, LitsOfAppend DEF Holds
<1> DEFINE next == [v \in Var |-> IF v = i THEN DISCONNECT ELSE IF v = q.last THEN i ELSE q.next[v]]
           prev == [q.prev EXCEPT ![i] = q.last]
           first == IF q.last = DISCONNECT THEN i ELSE q.first
<1>5. /\ q.prev \in [Var -> 0..N] /\ q.last \in 0..N /\ q.first \in 0..N /\ i \in 0..N
      /\ \A v \in Var : q.next[v] \in 0..N
      /\ DISCONNECT \in 0..N
  BY QueueTypes, VarFacts DEF DISCONNECT
<1>6. next \in [Var -> 0..N] /\ prev \in [Var -> 0..N] /\ first \in 0..N BY <1>5
<1>7. m = [q EXCEPT !.next = next, !.prev = prev, !.last = i, !.first = first]
  BY ONLY m = Joined(q, i), q \in Queues DEF Joined, Queues
<1>8. /\ \A v \in Var : next[v] = IF v = i THEN DISCONNECT ELSE IF v = q.last THEN i ELSE q.next[v]
      /\ \A v \in Var : prev[v] = IF v = i THEN q.last ELSE q.prev[v]
      /\ first = IF q.last = DISCONNECT THEN i ELSE q.first
  BY <1>5
<1> HIDE DEF next, prev, first
<1>9. /\ m \in Queues /\ m.next = next /\ m.prev = prev /\ m.last = i /\ m.first = first
      /\ m.stamps = q.stamps /\ m.stamp = q.stamp /\ m.search = q.search
  BY ONLY <1>5, <1>6, <1>7, q \in Queues DEF Queues
<1>10. n # 0 => q.last \in Var /\ q.last # DISCONNECT /\ q.last # i
  <2>1. n # 0 => n \in 1..n BY <1>1
  <2>2. QED BY <1>1, <1>2, <2>1, VarFacts DEF DISCONNECT
<1>11. \A j, k \in 1..Len(new) : new[j] = new[k] => j = k
  <2>1. \A k \in 1..(n + 1) : k \in 1..n \/ k = n + 1 BY <1>1
  <2>2. QED BY <1>1, <1>3, <2>1
<1>12. m.first = (IF Len(new) = 0 THEN DISCONNECT ELSE new[1])
  <2>1. n # 0 => 1 \in 1..n BY <1>1
  <2>2. QED BY <1>1, <1>2, <1>3, <1>8, <1>9, <1>10, <2>1
<1>13. m.last = (IF Len(new) = 0 THEN DISCONNECT ELSE new[Len(new)]) BY <1>1, <1>3, <1>9
<1>14. ASSUME NEW k \in 1..(n + 1)
       PROVE  /\ m.prev[new[k]] = (IF k = 1 THEN DISCONNECT ELSE new[k - 1])
              /\ m.next[new[k]] = (IF k = Len(new) THEN DISCONNECT ELSE new[k + 1])
  <2>1. CASE k = n + 1
    <3>1. new[k] = i /\ m.prev[i] = q.last /\ m.next[i] = DISCONNECT BY <1>3, <1>8, <1>9, <2>1
    <3>2. n = 0 <=> k = 1 BY <1>1, <2>1
    <3>3. n # 0 => k - 1 = n /\ n \in 1..n BY <1>1, <2>1
    <3>4. QED BY <1>2, <1>3, <2>1, <3>1, <3>2, <3>3
  <2>2. CASE k \in 1..n
    <3>1. new[k] = ord[k] /\ ord[k] \in Var /\ ord[k] # i /\ k # n + 1 BY <1>1, <1>3, <2>2
    <3>2. m.prev[ord[k]] = q.prev[ord[k]] BY <1>8, <1>9, <3>1
    <3>3. k # 1 => k - 1 \in 1..n BY <1>1, <2>2
    <3>4. m.prev[new[k]] = (IF k = 1 THEN DISCONNECT ELSE new[k - 1])
      BY <1>2, <1>3, <2>2, <3>1, <3>2, <3>3
    <3>5. CASE k = n
      <4>1. q.last = ord[k] BY <1>1, <1>2, <2>2, <3>5
      <4>2. m.next[ord[k]] = i BY <1>8, <1>9, <3>1, <4>1
      <4>3. QED BY <1>3, <3>1, <3>4, <3>5, <4>2
    <3>6. CASE k # n
      <4>1. n \in 1..n /\ n # 0 /\ k + 1 \in 1..n BY <1>1, <2>2, <3>6
      <4>2. q.last # ord[k] BY <1>1, <1>2, <2>2, <3>6, <4>1
      <4>3. m.next[ord[k]] = q.next[ord[k]] BY <1>8, <1>9, <3>1, <4>2
      <4>4. QED BY <1>2, <1>3, <2>2, <3>1, <3>4, <3>6, <4>1, <4>3
    <3>7. QED BY <3>5, <3>6
  <2>3. k = n + 1 \/ k \in 1..n BY <1>1
  <2>4. QED BY <2>1, <2>2, <2>3
<1>15. Linking(m, new) BY <1>3, <1>11, <1>12, <1>13, <1>14 DEF Linking
<1>16. Order(m) = new BY <1>9, <1>15, LinkingOrder
<1>17. QED BY <1>4, <1>9, <1>15, <1>16 DEF SameStamps

LEMMA LinkedIs ==
  ASSUME NEW q \in Queues, NEW A, NEW ord, Holds(q, ord, A), NEW i \in Var, i \notin A,
         NEW l, l = Linked(q, i)
  PROVE  /\ l \in Queues /\ Holds(l, Append(ord, i), A \cup {i})
         /\ l.search.idx = q.search.idx
         /\ q.search.idx \in A /\ q.search.stamp = q.stamps[q.search.idx]
              => l.search.stamp = l.stamps[q.search.idx]
         /\ \A u, v \in A : q.stamps[u] <= q.stamps[v] => l.stamps[u] <= l.stamps[v]
         /\ \A u \in A \cup {i} : l.stamps[u] <= l.stamps[i]
<1> DEFINE m == Joined(q, i)
           new == Append(ord, i)
           n == Len(ord)
<1>1. /\ m \in Queues /\ Linking(m, new) /\ LitsOf(new) = A \cup {i} /\ Order(m) = new
      /\ SameStamps(m, q) /\ m.search = q.search
  BY JoinedIs
<1>2. l = IF q.stamp = MaxStamp THEN ReassignStamps(m)
          ELSE [m EXCEPT !.stamp = @ + 1, !.stamps[i] = q.stamp + 1]
  BY DEF Linked, Joined
<1>3. /\ ord \in Seq(Var) /\ n \in Nat /\ \A k \in 1..n : ord[k] \in Var /\ ord[k] \in A
      /\ \A u \in A : \E k \in 1..n : ord[k] = u /\ A \subseteq Var
  BY HoldsFacts
<1>4. new \in Seq(Var) /\ Len(new) = n + 1 /\ new[n + 1] = i /\ \A k \in 1..n : new[k] = ord[k]
  BY <1>3, AppendProperties
<1> HIDE DEF m, new, n
<1>5. \A k \in 1..(n + 1) : k \in 1..n \/ k = n + 1 BY <1>3
<1>6. CASE q.stamp = MaxStamp
  <2>1. l = ReassignStamps(m) BY <1>2, <1>6
  <2>2. /\ l \in Queues /\ SameLinks(l, m) /\ Stamping(l, new)
        /\ \A k \in 1..Len(new) : l.stamps[new[k]] = k
        /\ l.search.idx = m.search.idx
        /\ m.search.idx # DISCONNECT => l.search.stamp = l.stamps[m.search.idx]
    BY <1>1, <2>1, ReassignStampsIs
  <2>3. Linking(l, new) BY <1>1, <2>2 DEF SameLinks, Linking
  <2>4. Holds(l, new, A \cup {i}) BY <1>1, <2>2, <2>3 DEF Holds
  <2>5. ASSUME NEW u \in A, NEW v \in A, q.stamps[u] <= q.stamps[v] PROVE l.stamps[u] <= l.stamps[v]
    <3>1. PICK j \in 1..n : ord[j] = u BY <1>3
    <3>2. PICK k \in 1..n : ord[k] = v BY <1>3
    <3>3. j <= k BY <2>5, <3>1, <3>2, StampOrder DEF n
    <3>4. j \in 1..Len(new) /\ k \in 1..Len(new) /\ new[j] = u /\ new[k] = v BY <1>3, <1>4, <3>1, <3>2
    <3>5. l.stamps[u] = j /\ l.stamps[v] = k BY <2>2, <3>4
    <3>6. QED BY <3>3, <3>5
  <2>6. ASSUME NEW u \in A \cup {i} PROVE l.stamps[u] <= l.stamps[i]
    <3>1. n + 1 \in 1..Len(new) /\ l.stamps[i] = n + 1 BY <1>3, <1>4, <2>2
    <3>2. CASE u = i BY <1>3, <3>1, <3>2
    <3>3. CASE u \in A
      <4>1. PICK k \in 1..n : ord[k] = u BY <1>3, <3>3
      <4>2. k \in 1..Len(new) /\ new[k] = u /\ k <= n + 1 BY <1>3, <1>4, <4>1
      <4>3. QED BY <2>2, <3>1, <4>2
    <3>4. QED BY <3>2, <3>3
  <2>7. q.search.idx \in A => q.search.idx # DISCONNECT BY <1>3, VarFacts DEF DISCONNECT
  <2>8. QED BY <1>1, <2>2, <2>4, <2>5, <2>6, <2>7 DEF new
<1>7. CASE q.stamp # MaxStamp
  <2>1. l = [m EXCEPT !.stamp = @ + 1, !.stamps[i] = q.stamp + 1] BY <1>2, <1>7
  <2>2. m.stamps = q.stamps /\ m.stamp = q.stamp BY <1>1 DEF SameStamps
  <2>3. /\ q.stamp \in Nat /\ q.stamps \in [Var -> Nat] /\ \A v \in Var : q.stamps[v] \in Nat
    BY QueueTypes
  <2> DEFINE w == [q.stamps EXCEPT ![i] = q.stamp + 1]
  <2>4. w \in [Var -> Nat] /\ w[i] = q.stamp + 1 /\ \A v \in A : w[v] = q.stamps[v] BY <1>3, <2>3
  <2>5. l = [m EXCEPT !.stamp = q.stamp + 1, !.stamps = w]
    BY ONLY <1>1, <2>1, <2>2 DEF Queues
  <2> HIDE DEF w
  <2>6. /\ l \in Queues /\ SameLinks(l, m) /\ l.stamps = w /\ l.stamp = q.stamp + 1
        /\ l.search = m.search
    BY ONLY <1>1, <2>3, <2>4, <2>5 DEF Queues, SameLinks
  <2>7. Linking(l, new) BY <1>1, <2>6 DEF SameLinks, Linking
  <2>8. /\ \A k \in 1..n : q.stamps[ord[k]] <= q.stamp
        /\ \A j, k \in 1..n : j < k => q.stamps[ord[j]] < q.stamps[ord[k]]
    BY DEF Holds, Stamping, n
  <2>9. /\ \A k \in 1..n : l.stamps[new[k]] = q.stamps[ord[k]] /\ q.stamps[ord[k]] \in Nat
        /\ l.stamps[new[n + 1]] = q.stamp + 1
    BY <1>3, <1>4, <2>3, <2>4, <2>6
  <2>10. Stamping(l, new)
    <3>1. ASSUME NEW j \in 1..(n + 1), NEW k \in 1..(n + 1), j < k PROVE l.stamps[new[j]] < l.stamps[new[k]]
      <4>1. j \in 1..n BY <1>3, <3>1
      <4>2. CASE k = n + 1 BY <2>3, <2>8, <2>9, <4>1, <4>2
      <4>3. CASE k \in 1..n BY <2>8, <2>9, <3>1, <4>1, <4>3
      <4>4. QED BY <1>5, <4>2, <4>3
    <3>2. ASSUME NEW k \in 1..(n + 1) PROVE l.stamps[new[k]] <= l.stamp
      <4>1. CASE k = n + 1 BY <2>3, <2>6, <2>9, <4>1
      <4>2. CASE k \in 1..n BY <2>3, <2>6, <2>8, <2>9, <4>2
      <4>3. QED BY <1>5, <4>1, <4>2
    <3>3. QED BY <1>4, <3>1, <3>2 DEF Stamping
  <2>11. Holds(l, new, A \cup {i}) BY <1>1, <2>7, <2>10 DEF Holds
  <2>12. q.search.idx \in A /\ q.search.stamp = q.stamps[q.search.idx]
           => l.search.stamp = l.stamps[q.search.idx]
    BY <1>1, <2>4, <2>6
  <2>13. \A u, v \in A : q.stamps[u] <= q.stamps[v] => l.stamps[u] <= l.stamps[v] BY <2>4, <2>6
  <2>14. ASSUME NEW u \in A \cup {i} PROVE l.stamps[u] <= l.stamps[i]
    <3>1. CASE u = i BY <2>3, <2>4, <2>6, <3>1
    <3>2. CASE u \in A
      <4>1. PICK k \in 1..n : ord[k] = u BY <1>3, <3>2
      <4>2. q.stamps[u] <= q.stamp /\ q.stamps[u] \in Nat BY <2>8, <2>9, <4>1
      <4>3. QED BY <2>3, <2>4, <2>6, <3>2, <4>2
    <3>3. QED BY <3>1, <3>2
  <2>15. QED BY <1>1, <2>6, <2>11, <2>12, <2>13, <2>14 DEF new
<1>8. QED BY <1>6, <1>7

LEMMA UnlinkedIs ==
  ASSUME NEW q \in Queues, NEW A, NEW ord, Holds(q, ord, A), NEW i \in A, NEW r, r = Unlinked(q, i)
  PROVE  /\ r \in Queues /\ \E new : Holds(r, new, A \ {i})
         /\ SameStamps(r, q) /\ r.search = q.search
<1> DEFINE n == Len(ord)
<1>1. /\ ord \in Seq(Var) /\ n \in Nat /\ \A k \in 1..n : ord[k] \in Var /\ ord[k] \in A
      /\ \A j, k \in 1..n : ord[j] = ord[k] => j = k
      /\ \A u \in A : \E k \in 1..n : ord[k] = u
      /\ A \subseteq Var
  BY HoldsFacts
<1>2. /\ q.first = (IF n = 0 THEN DISCONNECT ELSE ord[1])
      /\ q.last = (IF n = 0 THEN DISCONNECT ELSE ord[n])
      /\ \A k \in 1..n : /\ q.prev[ord[k]] = (IF k = 1 THEN DISCONNECT ELSE ord[k - 1])
                         /\ q.next[ord[k]] = (IF k = n THEN DISCONNECT ELSE ord[k + 1])
  BY DEF Holds, Linking
<1>3. /\ \A j, k \in 1..n : j < k => q.stamps[ord[j]] < q.stamps[ord[k]]
      /\ \A k \in 1..n : q.stamps[ord[k]] <= q.stamp
  BY DEF Holds, Stamping
<1> HIDE DEF n
<1>4. PICK p \in 1..n : ord[p] = i BY <1>1
<1>5. i \in Var /\ n # 0 /\ n \in 1..n /\ 1 \in 1..n /\ p \in Nat /\ \A k \in 1..n : ord[k] # DISCONNECT
  BY <1>1, <1>4, VarFacts DEF DISCONNECT
<1> DEFINE j == q.prev[i]
           k == q.next[i]
           next == [v \in Var |-> IF v = i THEN DISCONNECT ELSE IF v = j THEN k ELSE q.next[v]]
           prev == [v \in Var |-> IF v = i THEN DISCONNECT ELSE IF v = k THEN j ELSE q.prev[v]]
           first == IF j = DISCONNECT THEN k ELSE q.first
           last == IF k = DISCONNECT THEN j ELSE q.last
           At(x) == IF x < p THEN x ELSE x + 1
           new == [x \in 1..(n - 1) |-> ord[At(x)]]
<1>6. /\ \A v \in Var : q.next[v] \in 0..N /\ q.prev[v] \in 0..N
      /\ q.first \in 0..N /\ q.last \in 0..N /\ DISCONNECT \in 0..N /\ j \in 0..N /\ k \in 0..N
  BY <1>5, QueueTypes, VarFacts DEF DISCONNECT
<1>7. next \in [Var -> 0..N] /\ prev \in [Var -> 0..N] /\ first \in 0..N /\ last \in 0..N BY <1>6
<1>8. r = [q EXCEPT !.next = next, !.prev = prev, !.first = first, !.last = last]
  BY ONLY r = Unlinked(q, i), q \in Queues DEF Unlinked, Queues
<1>9. /\ \A v \in Var : next[v] = IF v = i THEN DISCONNECT ELSE IF v = j THEN k ELSE q.next[v]
      /\ \A v \in Var : prev[v] = IF v = i THEN DISCONNECT ELSE IF v = k THEN j ELSE q.prev[v]
      /\ first = (IF j = DISCONNECT THEN k ELSE q.first)
      /\ last = (IF k = DISCONNECT THEN j ELSE q.last)
  OBVIOUS
<1>10. j = (IF p = 1 THEN DISCONNECT ELSE ord[p - 1]) /\ k = (IF p = n THEN DISCONNECT ELSE ord[p + 1])
  BY <1>2, <1>4
<1> HIDE DEF next, prev, first, last, j, k
<1>11. /\ r \in Queues /\ r.next = next /\ r.prev = prev /\ r.first = first /\ r.last = last
       /\ r.stamps = q.stamps /\ r.stamp = q.stamp /\ r.search = q.search
  BY ONLY <1>7, <1>8, q \in Queues DEF Queues
<1>12. \A x \in 1..(n - 1) : /\ At(x) \in 1..n /\ At(x) # p /\ x \in 1..n
                            /\ (x < p => At(x) = x) /\ (~ (x < p) => At(x) = x + 1 /\ p < x + 1)
  BY <1>1, <1>5
<1>13. \A x, y \in 1..(n - 1) : (x < y => At(x) < At(y)) /\ (At(x) = At(y) => x = y)
  BY <1>1, <1>5
<1>14. \A x \in 1..(n - 1) : new[x] = ord[At(x)] OBVIOUS
<1>15. new \in Seq(Var) /\ Len(new) = n - 1
  <2>1. n - 1 \in Nat BY <1>1, <1>5
  <2>2. \A x \in 1..(n - 1) : ord[At(x)] \in Var BY <1>1, <1>12
  <2> HIDE DEF At
  <2>3. new \in [1..(n - 1) -> Var] BY <2>2
  <2>4. QED BY <2>1, <2>2
<1> HIDE DEF new, At
<1>16. LitsOf(new) = A \ {i}
  <2>1. LitsOf(new) = {new[x] : x \in 1..(n - 1)} BY <1>15, LitsOfIs
  <2>2. ASSUME NEW x \in 1..(n - 1) PROVE new[x] \in A \ {i}
    <3>1. new[x] = ord[At(x)] BY <1>14
    <3>2. At(x) \in 1..n /\ At(x) # p BY <1>12
    <3>3. QED BY <1>1, <1>4, <3>1, <3>2
  <2>3. ASSUME NEW u \in A \ {i} PROVE \E x \in 1..(n - 1) : new[x] = u
    <3>1. PICK y \in 1..n : ord[y] = u BY <1>1
    <3>2. y # p BY <1>4, <3>1
    <3>3. CASE y < p
      <4>1. y \in 1..(n - 1) /\ At(y) = y BY <1>1, <1>5, <3>3 DEF At
      <4>2. QED BY <1>14, <3>1, <4>1
    <3>4. CASE ~ (y < p)
      <4>1. y - 1 \in 1..(n - 1) /\ At(y - 1) = y BY <1>1, <1>5, <3>2, <3>4 DEF At
      <4>2. QED BY <1>14, <3>1, <4>1
    <3>5. QED BY <3>3, <3>4
  <2>4. QED BY <2>1, <2>2, <2>3
<1>17. ASSUME NEW x \in 1..(n - 1), NEW y \in 1..(n - 1), new[x] = new[y] PROVE x = y
  <2>1. ord[At(x)] = ord[At(y)] /\ At(x) \in 1..n /\ At(y) \in 1..n BY <1>12, <1>14, <1>17
  <2>2. At(x) = At(y) BY <1>1, <2>1
  <2>3. QED BY <1>13, <2>2
<1>18. Stamping(r, new)
  <2>1. \A x, y \in 1..(n - 1) : x < y => q.stamps[new[x]] < q.stamps[new[y]]
    BY <1>3, <1>12, <1>13, <1>14
  <2>2. \A x \in 1..(n - 1) : q.stamps[new[x]] <= q.stamp BY <1>3, <1>12, <1>14
  <2>3. QED BY <1>11, <1>15, <2>1, <2>2 DEF Stamping
<1>19. r.first = (IF Len(new) = 0 THEN DISCONNECT ELSE new[1])
  <2>1. CASE p = 1
    <3>1. r.first = k BY <1>9, <1>10, <1>11, <2>1
    <3>2. n # 1 => 1 \in 1..(n - 1) /\ At(1) = 2 BY <1>1, <1>5, <2>1 DEF At
    <3>3. QED BY <1>10, <1>14, <1>15, <2>1, <3>1, <3>2
  <2>2. CASE p # 1
    <3>1. p - 1 \in 1..n /\ j # DISCONNECT BY <1>5, <1>10, <2>2
    <3>2. r.first = ord[1] BY <1>2, <1>5, <1>9, <1>11, <3>1
    <3>3. 1 \in 1..(n - 1) /\ At(1) = 1 /\ n - 1 # 0 BY <1>1, <1>5, <2>2 DEF At
    <3>4. QED BY <1>14, <1>15, <3>2, <3>3
  <2>3. QED BY <2>1, <2>2
<1>20. r.last = (IF Len(new) = 0 THEN DISCONNECT ELSE new[Len(new)])
  <2>1. CASE p = n
    <3>1. r.last = j BY <1>9, <1>10, <1>11, <2>1
    <3>2. n # 1 => n - 1 \in 1..(n - 1) /\ At(n - 1) = n - 1 BY <1>1, <1>5, <2>1 DEF At
    <3>3. n - 1 = 0 <=> n = 1 BY <1>1
    <3>4. QED BY <1>10, <1>14, <1>15, <2>1, <3>1, <3>2, <3>3
  <2>2. CASE p # n
    <3>1. p + 1 \in 1..n /\ k # DISCONNECT BY <1>1, <1>5, <1>10, <2>2
    <3>2. r.last = ord[n] BY <1>2, <1>5, <1>9, <1>11, <3>1
    <3>3. n - 1 \in 1..(n - 1) /\ At(n - 1) = n /\ n - 1 # 0 BY <1>1, <1>5, <2>2 DEF At
    <3>4. QED BY <1>14, <1>15, <3>2, <3>3
  <2>3. QED BY <2>1, <2>2
<1>21. ASSUME NEW x \in 1..(n - 1)
       PROVE  /\ r.prev[new[x]] = (IF x = 1 THEN DISCONNECT ELSE new[x - 1])
              /\ r.next[new[x]] = (IF x = n - 1 THEN DISCONNECT ELSE new[x + 1])
  <2> DEFINE y == At(x)
  <2>1. new[x] = ord[y] /\ y \in 1..n /\ y # p /\ ord[y] \in Var /\ ord[y] # i
    BY <1>1, <1>4, <1>12, <1>14
  <2>2. /\ q.prev[ord[y]] = (IF y = 1 THEN DISCONNECT ELSE ord[y - 1])
        /\ q.next[ord[y]] = (IF y = n THEN DISCONNECT ELSE ord[y + 1])
    BY <1>2, <2>1
  <2>3. x # 1 => x - 1 \in 1..(n - 1) /\ new[x - 1] = ord[At(x - 1)] BY <1>1, <1>14
  <2>4. x # n - 1 => x + 1 \in 1..(n - 1) /\ new[x + 1] = ord[At(x + 1)] BY <1>1, <1>14
  <2>5. r.prev[ord[y]] = IF ord[y] = k THEN j ELSE q.prev[ord[y]] BY <1>9, <1>11, <2>1
  <2>6. r.next[ord[y]] = IF ord[y] = j THEN k ELSE q.next[ord[y]] BY <1>9, <1>11, <2>1
  <2>7. ord[y] = k <=> y = p + 1
    <3>1. p # n => p + 1 \in 1..n BY <1>1, <1>5
    <3>2. y = p + 1 => p # n BY <1>1, <2>1
    <3>3. QED BY <1>1, <1>5, <1>10, <2>1, <3>1, <3>2
  <2>8. ord[y] = j <=> y = p - 1
    <3>1. p # 1 => p - 1 \in 1..n BY <1>1, <1>5
    <3>2. y = p - 1 => p # 1 BY <1>1, <2>1
    <3>3. QED BY <1>1, <1>5, <1>10, <2>1, <3>1, <3>2
  <2>9. r.prev[new[x]] = (IF x = 1 THEN DISCONNECT ELSE new[x - 1])
    <3>1. CASE y = p + 1
      <4>1. x = p /\ (x # 1 => At(x - 1) = p - 1) BY <1>1, <1>5, <3>1 DEF At
      <4>2. QED BY <1>10, <2>1, <2>3, <2>5, <2>7, <3>1, <4>1
    <3>2. CASE y # p + 1
      <4>1. (x = 1 <=> y = 1) /\ (x # 1 => At(x - 1) = y - 1) BY <1>1, <1>5, <3>2 DEF At
      <4>2. QED BY <2>1, <2>2, <2>3, <2>5, <2>7, <3>2, <4>1
    <3>3. QED BY <3>1, <3>2
  <2>10. r.next[new[x]] = (IF x = n - 1 THEN DISCONNECT ELSE new[x + 1])
    <3>1. CASE y = p - 1
      <4>1. x = p - 1 /\ (x = n - 1 <=> p = n) /\ (x # n - 1 => At(x + 1) = p + 1)
        BY <1>1, <1>5, <3>1 DEF At
      <4>2. QED BY <1>10, <2>1, <2>4, <2>6, <2>8, <3>1, <4>1
    <3>2. CASE y # p - 1
      <4>1. (x = n - 1 <=> y = n) /\ (x # n - 1 => At(x + 1) = y + 1) BY <1>1, <1>5, <3>2 DEF At
      <4>2. QED BY <2>1, <2>2, <2>4, <2>6, <2>8, <3>2, <4>1
    <3>3. QED BY <3>1, <3>2
  <2>11. QED BY <2>9, <2>10
<1>22. Linking(r, new) BY <1>15, <1>17, <1>19, <1>20, <1>21 DEF Linking
<1>23. Holds(r, new, A \ {i}) BY <1>16, <1>18, <1>22 DEF Holds
<1>24. QED BY <1>11, <1>23 DEF SameStamps

\* kissat_enqueue.
LEMMA EnqueueFree ==
  ASSUME NEW q \in Queues, NEW A, NEW ord, Holds(q, ord, A), NEW i \in Var, i \notin A,
         NEW s, IsFree(s, i), NEW r, r = Enqueue(q, s, i)
  PROVE  QueueInv(r, A \cup {i}) /\ \A u \in A \cup {i} : r.stamps[u] <= r.search.stamp
<1> DEFINE l == Linked(q, i)
<1>1. /\ l \in Queues /\ Holds(l, Append(ord, i), A \cup {i})
      /\ \A u \in A \cup {i} : l.stamps[u] <= l.stamps[i]
  BY LinkedIs
<1>2. r = UpdateQueue(l, i) BY DEF Enqueue
<1> HIDE DEF l
<1>3. /\ r \in Queues /\ r.search.idx = i /\ r.search.stamp = r.stamps[i]
      /\ SameLinks(r, l) /\ SameStamps(r, l)
  BY <1>1, <1>2, UpdateIs
<1>4. Holds(r, Append(ord, i), A \cup {i}) BY <1>1, <1>3, SameHolds
<1>5. SearchInv(r, A \cup {i}) BY <1>3, VarFacts DEF SearchInv, DISCONNECT
<1>6. QED BY <1>1, <1>3, <1>4, <1>5, QueueIs DEF SameStamps

LEMMA EnqueueOther ==
  ASSUME NEW q, NEW A, QueueInv(q, A), A # {}, NEW i \in Var, i \notin A, NEW s, ~ IsFree(s, i),
         NEW r, r = Enqueue(q, s, i)
  PROVE  /\ QueueInv(r, A \cup {i})
         /\ \A u \in A : q.stamps[u] <= q.search.stamp => r.stamps[u] <= r.search.stamp
<1>1. q \in Queues /\ Holds(q, Order(q), A) BY DEF QueueInv
<1>2. q.search.idx \in A /\ q.search.stamp = q.stamps[q.search.idx] BY DEF QueueInv, SearchInv
<1>3. r = Linked(q, i) BY DEF Enqueue
<1>4. /\ r \in Queues /\ Holds(r, Append(Order(q), i), A \cup {i})
      /\ r.search.idx = q.search.idx /\ r.search.stamp = r.stamps[q.search.idx]
      /\ \A u, v \in A : q.stamps[u] <= q.stamps[v] => r.stamps[u] <= r.stamps[v]
  BY <1>1, <1>2, <1>3, LinkedIs
<1>5. SearchInv(r, A \cup {i})
  <2>1. q.search.idx # DISCONNECT BY <1>1, <1>2, HoldsFacts, VarFacts DEF DISCONNECT
  <2>2. QED BY <1>2, <1>4, <2>1 DEF SearchInv
<1>6. QED BY <1>2, <1>4, <1>5, QueueIs

\* Beside a variable of the queue: the one before it or else the one after it.
LEMMA Neighbours ==
  ASSUME NEW q, NEW A, QueueInv(q, A), NEW i \in A
  PROVE  /\ q.next[i] = DISCONNECT \/ (q.next[i] \in A \ {i} /\ q.stamps[i] <= q.stamps[q.next[i]])
         /\ q.prev[i] = DISCONNECT
              => \A u \in A \ {i} : q.stamps[i] < q.stamps[u]
         /\ q.prev[i] # DISCONNECT
              => /\ q.prev[i] \in A \ {i}
                 /\ \A u \in A \ {i} : q.stamps[u] <= q.stamps[i] => q.stamps[u] <= q.stamps[q.prev[i]]
         /\ q.next[i] = DISCONNECT
              => q.last = i /\ \A u \in A : q.stamps[u] <= q.stamps[i]
         /\ A # {i} => q.next[i] # DISCONNECT \/ q.prev[i] # DISCONNECT
<1> DEFINE ord == Order(q)
           n == Len(ord)
<1>1. q \in Queues /\ Holds(q, ord, A) BY DEF QueueInv
<1> HIDE DEF ord
<1>2. /\ n \in Nat /\ \A k \in 1..n : ord[k] \in Var /\ ord[k] \in A
      /\ \A j, k \in 1..n : ord[j] = ord[k] => j = k
      /\ \A u \in A : \E k \in 1..n : ord[k] = u
  BY <1>1, HoldsFacts
<1>3. /\ q.last = (IF n = 0 THEN DISCONNECT ELSE ord[n])
      /\ \A k \in 1..n : /\ q.prev[ord[k]] = (IF k = 1 THEN DISCONNECT ELSE ord[k - 1])
                         /\ q.next[ord[k]] = (IF k = n THEN DISCONNECT ELSE ord[k + 1])
  BY <1>1 DEF Holds, Linking
<1>4. \A j, k \in 1..n : /\ q.stamps[ord[j]] \in Nat
                         /\ (q.stamps[ord[j]] <= q.stamps[ord[k]] <=> j <= k)
  BY <1>1, StampOrder
<1> HIDE DEF n
<1>5. PICK p \in 1..n : ord[p] = i BY <1>2
<1>6. \A k \in 1..n : ord[k] # DISCONNECT BY <1>2, VarFacts DEF DISCONNECT
<1>7. q.next[i] = DISCONNECT \/ (q.next[i] \in A \ {i} /\ q.stamps[i] <= q.stamps[q.next[i]])
  <2>1. CASE p = n BY <1>3, <1>5, <2>1
  <2>2. CASE p # n
    <3>1. p + 1 \in 1..n /\ q.next[i] = ord[p + 1] /\ p # p + 1 /\ p <= p + 1
      BY <1>2, <1>3, <1>5, <2>2
    <3>2. QED BY <1>2, <1>4, <1>5, <3>1
  <2>3. QED BY <2>1, <2>2
<1>8. ASSUME q.prev[i] = DISCONNECT, NEW u \in A \ {i} PROVE q.stamps[i] < q.stamps[u]
  <2>1. p = 1
    <3>1. p # 1 => p - 1 \in 1..n BY <1>2
    <3>2. QED BY <1>3, <1>5, <1>6, <1>8, <3>1
  <2>2. PICK k \in 1..n : ord[k] = u BY <1>2
  <2>3. ~ (k <= 1) /\ 1 \in 1..n BY <1>2, <1>5, <2>1, <2>2
  <2>4. QED BY <1>4, <1>5, <2>1, <2>2, <2>3
<1>9. ASSUME q.prev[i] # DISCONNECT
      PROVE  /\ q.prev[i] \in A \ {i}
             /\ \A u \in A \ {i} : q.stamps[u] <= q.stamps[i] => q.stamps[u] <= q.stamps[q.prev[i]]
  <2>1. p # 1 /\ p - 1 \in 1..n /\ q.prev[i] = ord[p - 1] /\ p - 1 # p BY <1>2, <1>3, <1>5, <1>9
  <2>2. ASSUME NEW u \in A \ {i}, q.stamps[u] <= q.stamps[i] PROVE q.stamps[u] <= q.stamps[q.prev[i]]
    <3>1. PICK k \in 1..n : ord[k] = u BY <1>2
    <3>2. k <= p /\ k # p BY <1>4, <1>5, <2>2, <3>1
    <3>3. k <= p - 1 BY <1>2, <3>2
    <3>4. QED BY <1>4, <2>1, <3>1, <3>3
  <2>3. QED BY <1>2, <1>5, <2>1, <2>2
<1>10. ASSUME q.next[i] = DISCONNECT PROVE q.last = i /\ \A u \in A : q.stamps[u] <= q.stamps[i]
  <2>1. p = n
    <3>1. p # n => p + 1 \in 1..n BY <1>2
    <3>2. QED BY <1>3, <1>5, <1>6, <1>10, <3>1
  <2>2. ASSUME NEW u \in A PROVE q.stamps[u] <= q.stamps[i]
    <3>1. PICK k \in 1..n : ord[k] = u BY <1>2
    <3>2. k <= n BY <1>2
    <3>3. QED BY <1>4, <1>5, <2>1, <3>1, <3>2
  <2>3. n # 0 BY <1>2, <1>5
  <2>4. QED BY <1>3, <1>5, <2>1, <2>2, <2>3
<1>11. ASSUME A # {i}, q.next[i] = DISCONNECT, q.prev[i] = DISCONNECT PROVE FALSE
  <2>1. PICK u \in A : u # i BY <1>11
  <2>2. q.stamps[u] <= q.stamps[i] /\ q.stamps[i] < q.stamps[u] BY <1>8, <1>10, <1>11, <2>1
  <2>3. q.stamps[u] \in Nat /\ q.stamps[i] \in Nat
    <3>1. u \in Var /\ i \in Var BY <1>1, <2>1, HoldsFacts
    <3>2. QED BY <1>1, <3>1, QueueTypes
  <2>4. QED BY <2>2, <2>3
<1>12. QED BY <1>7, <1>8, <1>9, <1>10, <1>11

\* kissat_dequeue.
LEMMA DequeueKeeps ==
  ASSUME NEW q, NEW A, QueueInv(q, A), NEW i \in A, NEW r, r = Dequeue(q, i)
  PROVE  /\ QueueInv(r, A \ {i})
         /\ \A F \in SUBSET A : Reaches(q, F) => Reaches(r, F \ {i})
<1> DEFINE beside == Beside(q, q.next[i], q.prev[i])
           none == [idx |-> DISCONNECT, stamp |-> 0]
           m == IF q.search.idx # i THEN q
                ELSE IF beside = DISCONNECT THEN [q EXCEPT !.search = none] ELSE UpdateQueue(q, beside)
<1>1. q \in Queues /\ Holds(q, Order(q), A) /\ SearchInv(q, A) BY DEF QueueInv
<1>2. r = Unlinked(m, i) BY DEF Dequeue
<1>3. A \subseteq Var /\ \A v \in A : v # DISCONNECT /\ q.stamps[v] \in Nat
  BY <1>1, HoldsFacts, QueueTypes, VarFacts DEF DISCONNECT
<1>4. beside \in A \ {i} \/ (beside = DISCONNECT /\ A = {i}) BY <1>3, Neighbours DEF Beside
<1>5. q.search.idx = i => q.search.stamp = q.stamps[i] /\ i # DISCONNECT BY <1>1, <1>3 DEF SearchInv
\* Where the search moves it reaches what it reached.
<1>6. ASSUME q.search.idx = i, beside # DISCONNECT, NEW u \in A \ {i}, q.stamps[u] <= q.search.stamp
      PROVE  q.stamps[u] <= q.stamps[beside]
  <2>1. q.stamps[u] <= q.stamps[i] BY <1>5, <1>6
  <2>2. CASE q.next[i] # DISCONNECT
    <3>1. beside = q.next[i] /\ q.stamps[i] <= q.stamps[beside] /\ beside \in A
      BY <2>2, Neighbours DEF Beside
    <3>2. q.stamps[u] \in Nat /\ q.stamps[i] \in Nat /\ q.stamps[beside] \in Nat BY <1>3, <3>1
    <3>3. QED BY <2>1, <3>1, <3>2
  <2>3. CASE q.next[i] = DISCONNECT
    <3>1. beside = q.prev[i] BY <2>3 DEF Beside
    <3>2. QED BY <1>6, <2>1, <3>1, Neighbours
  <2>4. QED BY <2>2, <2>3
<1>7. m \in Queues /\ SameLinks(m, q) /\ SameStamps(m, q)
  <2>1. CASE q.search.idx # i BY <1>1, <2>1 DEF SameLinks, SameStamps
  <2>2. CASE q.search.idx = i /\ beside = DISCONNECT
    <3>1. m = [q EXCEPT !.search = none] BY <2>2
    <3>2. none \in [idx : 0..N, stamp : Nat] BY VarFacts DEF DISCONNECT
    <3> HIDE DEF m, none
    <3>3. QED BY ONLY <1>1, <3>1, <3>2 DEF Queues, SameLinks, SameStamps
  <2>3. CASE q.search.idx = i /\ beside # DISCONNECT
    <3>1. m = UpdateQueue(q, beside) /\ beside \in Var BY <1>3, <1>4, <2>3
    <3>2. QED BY <1>1, <3>1, UpdateIs
  <2>4. QED BY <2>1, <2>2, <2>3
<1>8. Holds(m, Order(q), A) BY <1>1, <1>7, SameHolds
<1>9. /\ q.search.idx # i => m.search = q.search
      /\ q.search.idx = i /\ beside # DISCONNECT
           => m.search.idx = beside /\ m.search.stamp = q.stamps[beside]
      /\ q.search.idx = i /\ beside = DISCONNECT => m.search.idx = DISCONNECT
  <2>1. q.search.idx # i => m.search = q.search OBVIOUS
  <2>2. ASSUME q.search.idx = i, beside # DISCONNECT
        PROVE  m.search.idx = beside /\ m.search.stamp = q.stamps[beside]
    <3>1. m = UpdateQueue(q, beside) /\ beside \in Var BY <1>3, <1>4, <2>2
    <3> HIDE DEF m, beside
    <3>2. m.search.idx = beside /\ m.search.stamp = m.stamps[beside] /\ SameStamps(m, q)
      BY ONLY <1>1, <3>1, UpdateIs
    <3>3. QED BY <3>2 DEF SameStamps
  <2>3. ASSUME q.search.idx = i, beside = DISCONNECT PROVE m.search.idx = DISCONNECT
    <3>1. m = [q EXCEPT !.search = none] BY <2>3
    <3> HIDE DEF m, none
    <3>2. m.search = none BY ONLY <1>1, <3>1 DEF Queues
    <3>3. QED BY <3>2 DEF none
  <2>4. QED BY <2>1, <2>2, <2>3
<1> HIDE DEF m, beside, none
<1>10. PICK new : Holds(r, new, A \ {i}) /\ r \in Queues /\ SameStamps(r, m) /\ r.search = m.search
  BY <1>2, <1>7, <1>8, UnlinkedIs
<1>11. r.stamps = q.stamps BY <1>7, <1>10 DEF SameStamps
<1>12. SearchInv(r, A \ {i})
  <2>1. CASE q.search.idx # i
    <3>1. r.search = q.search BY <1>9, <1>10, <2>1
    <3>2. q.search.idx = DISCONNECT => A = {} BY <1>1 DEF SearchInv
    <3>3. q.search.idx \in A /\ q.search.stamp = q.stamps[q.search.idx] BY <1>1, <3>2 DEF SearchInv
    <3>4. QED BY <1>11, <2>1, <3>1, <3>2, <3>3 DEF SearchInv
  <2>2. CASE q.search.idx = i /\ beside = DISCONNECT BY <1>4, <1>9, <1>10, <2>2, <1>3 DEF SearchInv
  <2>3. CASE q.search.idx = i /\ beside # DISCONNECT
    <3>1. beside \in A \ {i} BY <1>4, <2>3
    <3>2. QED BY <1>9, <1>10, <1>11, <2>3, <3>1 DEF SearchInv
  <2>4. QED BY <2>1, <2>2, <2>3
<1>13. ASSUME NEW F \in SUBSET A, Reaches(q, F) PROVE Reaches(r, F \ {i})
  <2> SUFFICES ASSUME NEW u \in F \ {i} PROVE r.stamps[u] <= r.search.stamp BY DEF Reaches
  <2>1. u \in A \ {i} /\ q.stamps[u] <= q.search.stamp BY <1>13 DEF Reaches
  <2>2. CASE q.search.idx # i BY <1>9, <1>10, <1>11, <2>1, <2>2
  <2>3. CASE q.search.idx = i /\ beside = DISCONNECT BY <1>3, <1>4, <2>1, <2>3
  <2>4. CASE q.search.idx = i /\ beside # DISCONNECT BY <1>6, <1>9, <1>10, <1>11, <2>1, <2>4
  <2>5. QED BY <2>2, <2>3, <2>4
<1>14. QED BY <1>10, <1>12, <1>13, QueueIs

\* kissat_move_to_front.
LEMMA MoveToFrontKeeps ==
  ASSUME NEW q, NEW A, QueueInv(q, A), NEW i \in A, NEW s, s.true \subseteq Var,
         NEW r, r = MoveToFront(q, s, i)
  PROVE  /\ QueueInv(r, A)
         /\ Reaches(q, {v \in A : v \notin s.true}) => Reaches(r, {v \in A : v \notin s.true})
<1> DEFINE F == {v \in A : v \notin s.true}
           beside == Beside(q, q.prev[i], q.next[i])
           m == IF ~ IsFree(s, i) /\ q.search.idx = i THEN UpdateQueue(q, beside) ELSE q
           u == Unlinked(m, i)
<1>1. q \in Queues /\ Holds(q, Order(q), A) /\ SearchInv(q, A) BY DEF QueueInv
<1>2. /\ A \subseteq Var /\ \A v \in A : v # DISCONNECT /\ q.stamps[v] \in Nat
      /\ (A \ {i}) \cup {i} = A
  <2>1. A \subseteq Var /\ \A v \in A : v # DISCONNECT /\ q.stamps[v] \in Nat
    BY <1>1, HoldsFacts, QueueTypes, VarFacts DEF DISCONNECT
  <2>2. (A \ {i}) \cup {i} = A OBVIOUS
  <2>3. QED BY <2>1, <2>2
<1>3. CASE i = q.last BY <1>3 DEF MoveToFront
<1>4. CASE i # q.last
  <2>1. r = Enqueue(u, s, i) BY <1>4 DEF MoveToFront
  <2>2. q.next[i] # DISCONNECT /\ beside \in A \ {i}
    <3>1. q.next[i] # DISCONNECT BY <1>4, Neighbours
    <3>2. QED BY <3>1, Neighbours DEF Beside
  <2>3. m \in Queues /\ SameLinks(m, q) /\ SameStamps(m, q)
    <3>1. CASE ~ (~ IsFree(s, i) /\ q.search.idx = i) BY <1>1, <3>1 DEF SameLinks, SameStamps
    <3>2. CASE ~ IsFree(s, i) /\ q.search.idx = i
      <4>1. m = UpdateQueue(q, beside) /\ beside \in Var BY <1>2, <2>2, <3>2
      <4> HIDE DEF m, beside
      <4>2. QED BY ONLY <1>1, <4>1, UpdateIs
    <3>3. QED BY <3>1, <3>2
  <2>4. Holds(m, Order(q), A) BY <1>1, <2>3, SameHolds
  <2>5. PICK new : Holds(u, new, A \ {i}) /\ u \in Queues /\ SameStamps(u, m) /\ u.search = m.search
    <3> HIDE DEF m
    <3>1. QED BY <2>3, <2>4, UnlinkedIs
  <2>6. i \in Var /\ i \notin A \ {i} /\ (IsFree(s, i) <=> i \notin s.true) BY <1>2, FreeIs
  <2> HIDE DEF u
  <2>7. CASE IsFree(s, i)
    <3>1. QueueInv(r, (A \ {i}) \cup {i}) /\ \A v \in (A \ {i}) \cup {i} : r.stamps[v] <= r.search.stamp
      BY <2>1, <2>5, <2>6, <2>7, EnqueueFree
    <3>2. QED BY <1>2, <3>1 DEF Reaches
  <2>8. CASE ~ IsFree(s, i)
    <3>1. /\ q.search.idx = i => m.search.idx = beside /\ m.search.stamp = q.stamps[beside]
          /\ q.search.idx # i => m = q
      <4>1. ASSUME q.search.idx = i PROVE m.search.idx = beside /\ m.search.stamp = q.stamps[beside]
        <5>1. m = UpdateQueue(q, beside) /\ beside \in Var BY <1>2, <2>2, <2>8, <4>1
        <5> HIDE DEF m, beside
        <5>2. m.search.idx = beside /\ m.search.stamp = m.stamps[beside] BY ONLY <1>1, <5>1, UpdateIs
        <5>3. QED BY <2>3, <5>2 DEF SameStamps
      <4>2. QED BY <4>1
    <3>2. u.stamps = q.stamps BY <2>3, <2>5 DEF SameStamps
    <3> HIDE DEF m
    <3>3. q.search.idx \in A /\ q.search.stamp = q.stamps[q.search.idx] BY <1>1 DEF SearchInv
    <3>4. SearchInv(u, A \ {i})
      <4>1. CASE q.search.idx = i
        <5>1. u.search.idx = beside /\ u.search.stamp = u.stamps[beside] /\ beside # DISCONNECT
          BY <1>2, <2>2, <2>5, <3>1, <3>2, <4>1
        <5>2. QED BY <2>2, <5>1 DEF SearchInv
      <4>2. CASE q.search.idx # i
        <5>1. u.search = q.search BY <2>5, <3>1, <4>2
        <5>2. QED BY <1>2, <3>2, <3>3, <4>2, <5>1 DEF SearchInv
      <4>3. QED BY <4>1, <4>2
    <3>5. QueueInv(u, A \ {i}) /\ A \ {i} # {} BY <2>2, <2>5, <3>4, QueueIs
    <3>6. /\ QueueInv(r, (A \ {i}) \cup {i})
          /\ \A v \in A \ {i} : u.stamps[v] <= u.search.stamp => r.stamps[v] <= r.search.stamp
      BY <2>1, <2>6, <2>8, <3>5, EnqueueOther
    <3>7. ASSUME Reaches(q, F), NEW v \in F PROVE r.stamps[v] <= r.search.stamp
      <4>1. v \in A \ {i} /\ q.stamps[v] <= q.search.stamp BY <2>6, <2>8, <3>7 DEF Reaches
      <4>2. u.stamps[v] <= u.search.stamp
        <5>1. CASE q.search.idx # i BY <2>5, <3>1, <3>2, <4>1, <5>1
        <5>2. CASE q.search.idx = i
          <6>1. q.stamps[v] <= q.stamps[i] BY <3>3, <4>1, <5>2
          <6>2. CASE q.prev[i] # DISCONNECT
            <7>1. beside = q.prev[i] BY <6>2 DEF Beside
            <7>2. q.stamps[v] <= q.stamps[beside] BY <4>1, <6>1, <6>2, <7>1, Neighbours
            <7>3. QED BY <2>5, <3>1, <3>2, <5>2, <7>2
          <6>3. CASE q.prev[i] = DISCONNECT
            <7>1. q.stamps[i] < q.stamps[v] BY <4>1, <6>3, Neighbours
            <7>2. QED BY <1>2, <4>1, <6>1, <7>1
          <6>4. QED BY <6>2, <6>3
        <5>3. QED BY <5>1, <5>2
      <4>3. QED BY <3>6, <4>1, <4>2
    <3>8. QED BY <1>2, <3>6, <3>7 DEF Reaches
  <2>9. QED BY <2>7, <2>8
<1>5. QED BY <1>3, <1>4

\* last_enqueued_unassigned_variable, as a recursion.
Behind == INSTANCE Induction WITH Op <- LAMBDA p, at, n :
            IF at = DISCONNECT \/ IsFree(p[2], at) THEN at ELSE p[1].prev[at]

LEMMA LastEnqueuedIs ==
  ASSUME NEW q, NEW A, QueueInv(q, A), NEW s, s.true \subseteq Var, NEW F, F = {v \in A : v \notin s.true},
         F # {}, Reaches(q, F), NEW idx, idx = LastEnqueued(q, s, q.search.idx)
  PROVE  idx \in F /\ \A v \in F : q.stamps[v] <= q.stamps[idx]
<1> DEFINE ord == Order(q)
           n == Len(ord)
<1>1. q \in Queues /\ Holds(q, ord, A) /\ SearchInv(q, A) BY DEF QueueInv
<1> HIDE DEF ord
<1>2. /\ n \in Nat /\ n <= N /\ N \in Nat /\ \A k \in 1..n : ord[k] \in Var /\ ord[k] \in A
      /\ \A j, k \in 1..n : ord[j] = ord[k] => j = k
      /\ \A u \in A : \E k \in 1..n : ord[k] = u
  BY <1>1, HoldsFacts, VariablesAssumption
<1>3. \A k \in 1..n : q.prev[ord[k]] = (IF k = 1 THEN DISCONNECT ELSE ord[k - 1])
  BY <1>1 DEF Holds, Linking
<1>4. \A j, k \in 1..n : q.stamps[ord[j]] <= q.stamps[ord[k]] <=> j <= k
  BY <1>1, StampOrder
<1>5. q.search.idx \in A /\ q.search.stamp = q.stamps[q.search.idx] BY <1>1 DEF SearchInv
<1>6. \A k \in 1..n : ord[k] # DISCONNECT /\ (IsFree(s, ord[k]) <=> ord[k] \in F)
  BY <1>2, FreeIs, VarFacts DEF DISCONNECT
<1> HIDE DEF n
<1>7. PICK j \in 1..n : ord[j] = q.search.idx BY <1>2, <1>5
<1> DEFINE Before(x) == \A v \in F : \E k \in 1..n : ord[k] = v /\ k <= x
           Good(k, at) == \/ at \in F /\ \A v \in F : q.stamps[v] <= q.stamps[at]
                          \/ j - k \in 1..n /\ at = ord[j - k] /\ Before(j - k)
           G == [k \in Nat |-> {at \in Var : Good(k, at)}]
<1> HIDE DEF Good
<1>8. \A k \in Nat : \A at : at \in G[k] <=> at \in Var /\ Good(k, at) OBVIOUS
<1> HIDE DEF G
<1>9. q.search.idx \in G[0]
  <2>1. Before(j)
    <3>1. ASSUME NEW v \in F PROVE \E k \in 1..n : ord[k] = v /\ k <= j
      <4>1. q.stamps[v] <= q.stamps[ord[j]] /\ v \in A BY <1>5, <1>7 DEF Reaches
      <4>2. PICK k \in 1..n : ord[k] = v BY <1>2, <4>1
      <4>3. QED BY <1>4, <4>1, <4>2
    <3>2. QED BY <3>1
  <2> HIDE DEF Before
  <2>2. j - 0 = j BY <1>2
  <2>3. Good(0, q.search.idx) BY <1>7, <2>1, <2>2 DEF Good
  <2>4. QED BY <1>2, <1>7, <1>8, <2>3
<1>10. ASSUME NEW k \in 1..N, NEW at \in G[k - 1]
       PROVE  (IF at = DISCONNECT \/ IsFree(s, at) THEN at ELSE q.prev[at]) \in G[k]
  <2>1. k \in Nat /\ k - 1 \in Nat BY <1>2
  <2>2. at \in Var /\ Good(k - 1, at) BY <1>8, <2>1
  <2>3. at # DISCONNECT BY <2>2, VarFacts DEF DISCONNECT
  <2>4. CASE at \in F /\ \A v \in F : q.stamps[v] <= q.stamps[at]
    <3>1. IsFree(s, at) BY <2>2, <2>4, FreeIs
    <3>2. Good(k, at) BY <2>4 DEF Good
    <3>3. at \in G[k] BY <1>8, <2>1, <2>2, <3>2
    <3>4. QED BY <3>1, <3>3
  <2>5. CASE j - (k - 1) \in 1..n /\ at = ord[j - (k - 1)] /\ Before(j - (k - 1))
    <3> DEFINE i == j - (k - 1)
    <3>1. i \in 1..n /\ at = ord[i] /\ Before(i) /\ i - 1 = j - k BY <1>2, <2>1, <2>5
    <3> HIDE DEF i
    <3>2. CASE at \in F
      <4>1. \A v \in F : q.stamps[v] <= q.stamps[at] BY <1>4, <3>1
      <4>2. QED BY <2>4, <3>2, <4>1
    <3>3. CASE at \notin F
      <4>1. ~ IsFree(s, at) BY <1>6, <3>1, <3>3
      <4>2. ASSUME NEW v \in F PROVE \E x \in 1..n : ord[x] = v /\ x <= i - 1
        <5>1. PICK x \in 1..n : ord[x] = v /\ x <= i BY <3>1
        <5>2. x # i BY <3>1, <3>3, <5>1
        <5>3. x <= i - 1 BY <1>2, <3>1, <5>1, <5>2
        <5>4. QED BY <5>1, <5>3
      <4>3. PICK v \in F : TRUE OBVIOUS
      <4>4. PICK x \in 1..n : ord[x] = v /\ x <= i - 1 BY <4>2
      <4>5. i - 1 \in 1..n /\ i # 1 BY <1>2, <3>1, <4>4
      <4>6. q.prev[at] = ord[i - 1] BY <1>3, <3>1, <4>5
      <4>7. Good(k, q.prev[at]) BY <3>1, <4>2, <4>5, <4>6 DEF Good
      <4>8. q.prev[at] \in G[k] BY <1>2, <1>8, <2>1, <4>5, <4>6, <4>7
      <4>9. QED BY <2>3, <4>1, <4>8
    <3>4. QED BY <3>2, <3>3
  <2>6. QED BY <2>2, <2>4, <2>5 DEF Good
<1>11. idx \in G[N]
  <2>1. idx = Behind!Iterated(<<q, s>>, q.search.idx, N) BY DEF LastEnqueued, Behind!Iterated
  <2>2. Behind!Iterated(<<q, s>>, q.search.idx, N) \in G[N]
    BY ONLY <1>2, <1>9, <1>10, Behind!IteratedIn
  <2>3. QED BY <2>1, <2>2
<1>12. ~ (j - N \in 1..n) BY <1>2
<1>13. QED BY <1>2, <1>8, <1>11, <1>12 DEF Good

\* The variable enqueued last reaches them all.
LEMMA LastReaches ==
  ASSUME NEW q, NEW A, QueueInv(q, A), A # {}, NEW r, r = UpdateQueue(q, q.last)
  PROVE  QueueInv(r, A) /\ Reaches(r, A)
<1> DEFINE ord == Order(q)
           n == Len(ord)
<1>1. q \in Queues /\ Holds(q, ord, A) BY DEF QueueInv
<1> HIDE DEF ord
<1>2. /\ n \in Nat /\ n # 0 /\ \A k \in 1..n : ord[k] \in Var /\ ord[k] \in A
      /\ \A u \in A : \E k \in 1..n : ord[k] = u
  BY <1>1, HoldsFacts
<1>3. q.last = ord[n] /\ n \in 1..n BY <1>1, <1>2 DEF Holds, Linking
<1>4. QueueInv(r, A) /\ r.stamps = q.stamps /\ r.search.stamp = q.stamps[q.last]
  BY <1>2, <1>3, UpdateKeeps
<1>5. ASSUME NEW u \in A PROVE q.stamps[u] <= q.stamps[q.last]
  <2>1. PICK k \in 1..n : ord[k] = u BY <1>2
  <2>2. k <= n BY <1>2
  <2>3. QED BY <1>1, <1>3, <2>1, <2>2, StampOrder DEF n
<1>6. QED BY <1>4, <1>5 DEF Reaches

\* What kissat_backtrack unassigns goes back to the queue, as a fold.
Back == INSTANCE Induction WITH Op <- LAMBDA s, q, v :
          IF IsFree(s, v) /\ q.stamps[v] > q.search.stamp THEN UpdateQueue(q, v) ELSE q

Freed(trail, s) == {v \in LitsOf(trail) : v \notin s.true}

LEMMA BackInQueue ==
  ASSUME NEW q, NEW A, QueueInv(q, A), NEW s, s.true \subseteq Var, NEW trail \in Seq(Var),
         \A v \in LitsOf(trail) : v \notin s.true => v \in A,
         NEW r, r = Back!Folded(s, q, trail)
  PROVE  /\ QueueInv(r, A) /\ r.stamps = q.stamps
         /\ \A F \in SUBSET A : Reaches(q, F) => Reaches(r, F)
         /\ Reaches(r, Freed(trail, s))
<1>2. /\ Len(trail) \in Nat /\ LitsOf(trail) = {trail[i] : i \in 1..Len(trail)}
      /\ \A i \in 1..Len(trail) : trail[i] \in Var /\ trail[i] \in LitsOf(trail)
  BY LitsOfIs
<1>3. /\ \A v \in Var : q.stamps[v] \in Nat
      /\ A \subseteq Var
      /\ \A p : QueueInv(p, A) => p.search.stamp \in Nat
  <2>1. Holds(q, Order(q), A) /\ q \in Queues BY DEF QueueInv
  <2>2. A \subseteq Var BY <2>1, HoldsFacts
  <2>3. \A v \in Var : q.stamps[v] \in Nat BY <2>1, QueueTypes
  <2>4. \A p : QueueInv(p, A) => p.search.stamp \in Nat BY QueueTypes DEF QueueInv
  <2>5. QED BY <2>2, <2>3, <2>4
<1> DEFINE Good(k, p) == /\ QueueInv(p, A) /\ p.stamps = q.stamps /\ q.search.stamp <= p.search.stamp
                         /\ \A i \in 1..k : trail[i] \notin s.true => q.stamps[trail[i]] <= p.search.stamp
           G == [k \in Nat |-> {p \in Queues : Good(k, p)}]
<1> HIDE DEF Good
<1>4. \A k \in Nat : \A p : p \in G[k] <=> p \in Queues /\ Good(k, p) OBVIOUS
<1> HIDE DEF G
<1>5. q \in G[0]
  <2>1. q.search.stamp <= q.search.stamp BY <1>3
  <2>2. Good(0, q) BY <2>1 DEF Good
  <2>3. QED BY <1>4, <2>2 DEF QueueInv
<1>6. ASSUME NEW k \in 1..Len(trail), NEW p \in G[k - 1]
      PROVE  (IF IsFree(s, trail[k]) /\ p.stamps[trail[k]] > p.search.stamp
              THEN UpdateQueue(p, trail[k]) ELSE p) \in G[k]
  <2> DEFINE v == trail[k]
  <2>1. /\ k \in Nat /\ k - 1 \in Nat
        /\ \A i \in 1..k : i \in 1..(k - 1) \/ i = k
    BY <1>2
  <2>2. /\ p \in Queues /\ QueueInv(p, A) /\ p.stamps = q.stamps /\ q.search.stamp <= p.search.stamp
        /\ \A i \in 1..(k - 1) : trail[i] \notin s.true => q.stamps[trail[i]] <= p.search.stamp
    BY <1>4, <2>1 DEF Good
  <2>3. v \in Var /\ v \in LitsOf(trail) /\ (IsFree(s, v) <=> v \notin s.true) BY <1>2, FreeIs
  <2>4. p.search.stamp \in Nat /\ q.search.stamp \in Nat /\ \A i \in 1..k : q.stamps[trail[i]] \in Nat
    <3>1. q.search.stamp \in Nat /\ p.search.stamp \in Nat BY <1>3, <2>2
    <3>2. \A u \in Var : q.stamps[u] \in Nat BY QueueTypes DEF QueueInv
    <3>3. QED BY <1>2, <3>1, <3>2
  <2>5. CASE v \notin s.true /\ q.stamps[v] > p.search.stamp
    <3> DEFINE w == UpdateQueue(p, v)
    <3>1. v \in A BY <2>3, <2>5
    <3>2. QueueInv(w, A) /\ w.stamps = p.stamps /\ w.search.stamp = p.stamps[v]
      BY <2>2, <3>1, UpdateKeeps
    <3> HIDE DEF w
    <3>3. ASSUME NEW i \in 1..k, trail[i] \notin s.true PROVE q.stamps[trail[i]] <= w.search.stamp
      <4>1. CASE i = k BY <2>2, <2>4, <3>2, <4>1
      <4>2. CASE i \in 1..(k - 1)
        <5>1. q.stamps[trail[i]] <= p.search.stamp BY <2>2, <3>3, <4>2
        <5>2. w.search.stamp = q.stamps[trail[k]] BY <2>2, <3>2
        <5>3. k \in 1..k BY <2>1
        <5>4. QED BY <2>4, <2>5, <5>1, <5>2, <5>3
      <4>3. QED BY <2>1, <4>1, <4>2
    <3>4. q.search.stamp <= w.search.stamp
      <4>1. k \in 1..k BY <2>1
      <4>2. QED BY <2>2, <2>4, <2>5, <3>2, <4>1
    <3>5. Good(k, w) BY <2>2, <3>2, <3>3, <3>4 DEF Good
    <3>6. w \in G[k] BY <1>4, <2>1, <3>2, <3>5 DEF QueueInv
    <3>7. QED BY <2>2, <2>3, <2>5, <3>6 DEF w
  <2>6. CASE ~ (v \notin s.true /\ q.stamps[v] > p.search.stamp)
    <3>1. ASSUME NEW i \in 1..k, trail[i] \notin s.true PROVE q.stamps[trail[i]] <= p.search.stamp
      <4>1. CASE i = k BY <2>4, <2>6, <3>1, <4>1
      <4>2. CASE i \in 1..(k - 1) BY <2>2, <3>1, <4>2
      <4>3. QED BY <2>1, <4>1, <4>2
    <3>2. Good(k, p) BY <2>2, <3>1 DEF Good
    <3>3. p \in G[k] BY <1>4, <2>1, <2>2, <3>2
    <3>4. QED BY <2>2, <2>3, <2>6, <3>3
  <2>7. QED BY <2>5, <2>6
<1>7. r \in G[Len(trail)]
  <2>1. Back!Folded(s, q, trail) \in G[Len(trail)] BY ONLY <1>5, <1>6, trail \in Seq(Var), Back!FoldedIn
  <2>2. QED BY <2>1
<1>8. /\ QueueInv(r, A) /\ r.stamps = q.stamps /\ q.search.stamp <= r.search.stamp
      /\ \A i \in 1..Len(trail) : trail[i] \notin s.true => q.stamps[trail[i]] <= r.search.stamp
  BY <1>2, <1>4, <1>7 DEF Good
<1>9. ASSUME NEW F \in SUBSET A, Reaches(q, F), NEW v \in F PROVE r.stamps[v] <= r.search.stamp
  <2>1. q.stamps[v] <= q.search.stamp BY <1>9 DEF Reaches
  <2>2. q.stamps[v] \in Nat /\ q.search.stamp \in Nat /\ r.search.stamp \in Nat BY <1>3, <1>8
  <2>3. QED BY <1>8, <2>1, <2>2
<1>10. QED BY <1>2, <1>8, <1>9 DEF Reaches, Freed

\* What is carried to the new numbers.
LEMMA CarriedIn ==
  ASSUME NEW K \in SUBSET Var, NEW map \in [K -> Var], NEW S, NEW f \in [Var -> S], NEW none \in S
  PROVE  Carried(map, f, none) \in [Var -> S]
<1> DEFINE Was(v) == {u \in DOMAIN map : map[u] = v}
<1>1. ASSUME NEW v \in Var PROVE (IF Was(v) = {} THEN none ELSE f[CHOOSE u \in Was(v) : TRUE]) \in S
  <2>1. CASE Was(v) # {}
    <3>1. (CHOOSE u \in Was(v) : TRUE) \in Was(v) BY <2>1
    <3>2. Was(v) \subseteq Var OBVIOUS
    <3> HIDE DEF Was
    <3>3. QED BY <2>1, <3>1, <3>2
  <2>2. QED BY <2>1
<1> HIDE DEF Was
<1>2. [v \in Var |-> IF Was(v) = {} THEN none ELSE f[CHOOSE u \in Was(v) : TRUE]] \in [Var -> S]
  BY <1>1
<1>3. QED BY <1>2 DEF Carried, Was

LEMMA CarriedIs ==
  ASSUME NEW K \in SUBSET Var, NEW map \in [K -> Var], \A u, v \in K : map[u] = map[v] => u = v,
         NEW f, NEW none, NEW v \in K
  PROVE  Carried(map, f, none)[map[v]] = f[v]
<1> DEFINE Was == {u \in DOMAIN map : map[u] = map[v]}
<1>1. Was = {v} /\ map[v] \in Var OBVIOUS
<1>2. (CHOOSE u \in {v} : TRUE) = v OBVIOUS
<1>3. Carried(map, f, none)[map[v]] = IF Was = {} THEN none ELSE f[CHOOSE u \in Was : TRUE]
  BY <1>1 DEF Carried
<1> HIDE DEF Was
<1>4. QED BY <1>1, <1>2, <1>3

\* compact_queue: the search that may be met again, as a fold.
Meets == INSTANCE Induction WITH Op <- LAMBDA p, search, i :
           IF search.idx = p[1][i]
           THEN [idx |-> IF i \in DOMAIN p[1] THEN p[2][p[1][i]] ELSE DISCONNECT, stamp |-> i]
           ELSE search

Mapped(map, V) == {map[v] : v \in V}

\* The search only moves on, and so what it reached it still reaches.
LEMMA CompactQueueKeeps ==
  ASSUME NEW q, NEW A, QueueInv(q, A), NEW K, A \subseteq K, NEW map \in [K -> Var],
         \A u, v \in K : map[u] = map[v] => u = v,
         NEW B, B = Mapped(map, A), NEW r, r = CompactQueue(q, map), NEW F \in SUBSET A
  PROVE  QueueInv(r, B) /\ (Reaches(q, F) => Reaches(r, Mapped(map, F)))
<1> DEFINE ord == Order(q)
           n == Len(ord)
           At(i) == IF i \in DOMAIN ord THEN map[ord[i]] ELSE DISCONNECT
           Is(v) == {i \in DOMAIN ord : At(i) = v}
           Near(v, by) == IF Is(v) = {} THEN DISCONNECT ELSE At((CHOOSE i \in Is(v) : TRUE) + by)
           new == [i \in 1..n |-> map[ord[i]]]
           met == Meets!Folded(<<ord, map>>, q.search, [i \in DOMAIN ord |-> i])
<1>1. q \in Queues /\ Holds(q, ord, A) /\ SearchInv(q, A) BY DEF QueueInv
<1>2. /\ r.prev = [v \in Var |-> Near(v, -1)] /\ r.next = [v \in Var |-> Near(v, 1)]
      /\ r.stamps = [v \in Var |-> Max({0} \cup Is(v))]
      /\ r.first = At(1) /\ r.last = At(n) /\ r.stamp = n
      /\ r = [prev |-> r.prev, next |-> r.next, stamps |-> r.stamps, first |-> r.first,
              last |-> r.last, stamp |-> r.stamp, search |-> r.search]
  BY DEF CompactQueue
<1>3. r.search = met BY DEF CompactQueue, FoldLeftDomain, FoldLeft, MapThenFoldSet, Max, Meets!Folded
<1> HIDE DEF ord
<1>4. /\ n \in Nat /\ n <= N /\ N \in Nat /\ DOMAIN ord = 1..n
      /\ \A k \in 1..n : ord[k] \in Var /\ ord[k] \in A
      /\ \A j, k \in 1..n : ord[j] = ord[k] => j = k
      /\ \A u \in A : \E k \in 1..n : ord[k] = u
      /\ (n = 0 <=> A = {}) /\ A \subseteq Var
  BY <1>1, HoldsFacts, VariablesAssumption
<1> HIDE DEF n
<1>0. \A k \in 1..n : ord[k] \in K BY <1>4
<1>5. /\ \A i \in 1..n : At(i) = map[ord[i]] /\ At(i) \in Var /\ At(i) # DISCONNECT /\ At(i) \in B
      /\ \A i : i \notin 1..n => At(i) = DISCONNECT
      /\ \A i : At(i) \in 0..N
  <2>1. \A i \in 1..n : At(i) = map[ord[i]] /\ At(i) \in Var /\ At(i) \in B BY <1>0, <1>4 DEF Mapped
  <2>2. \A v \in Var : v # DISCONNECT /\ v \in 0..N BY VarFacts DEF DISCONNECT
  <2>3. \A i : i \notin 1..n => At(i) = DISCONNECT BY <1>4
  <2>4. DISCONNECT \in 0..N BY <1>4 DEF DISCONNECT
  <2> HIDE DEF At
  <2>5. QED BY <2>1, <2>2, <2>3, <2>4
<1>6. \A i, j \in 1..n : At(i) = At(j) => i = j BY <1>0, <1>4
<1> HIDE DEF At
<1>7. \A v : Is(v) = {i \in 1..n : At(i) = v} BY <1>4
<1>8. \A i \in 1..n : Is(At(i)) = {i} BY <1>6, <1>7
<1> HIDE DEF Is
<1>9. ASSUME NEW v, NEW by PROVE Near(v, by) \in 0..N
  <2>1. DISCONNECT \in 0..N BY <1>4 DEF DISCONNECT
  <2>2. QED BY <1>5, <2>1
<1>10. ASSUME NEW i \in 1..n, NEW by PROVE Near(At(i), by) = At(i + by)
  <2>1. Is(At(i)) = {i} BY <1>8
  <2>2. (CHOOSE x \in {i} : TRUE) = i OBVIOUS
  <2>3. QED BY <2>1, <2>2
<1> HIDE DEF Near
<1>11. ASSUME NEW v \in Var PROVE Max({0} \cup Is(v)) \in Nat
  <2>0. \A i \in 1..n : i \in Nat BY <1>4
  <2>1. CASE Is(v) = {}
    <3>1. {0} \cup Is(v) = {0} BY <2>1
    <3>2. Max({0}) = 0 BY DEF Max
    <3>3. QED BY <3>1, <3>2
  <2>2. CASE Is(v) # {}
    <3>1. PICK i \in 1..n : At(i) = v BY <1>7, <2>2
    <3>2. {0} \cup Is(v) = {0, i} BY <1>8, <3>1
    <3>3. Max({0, i}) = i BY <1>4 DEF Max
    <3>4. QED BY <2>0, <3>2, <3>3
  <2>3. QED BY <2>1, <2>2
<1>12. ASSUME NEW i \in 1..n PROVE r.stamps[At(i)] = i
  <2>1. {0} \cup Is(At(i)) = {0, i} BY <1>8
  <2>2. Max({0, i}) = i BY <1>4 DEF Max
  <2>3. QED BY <1>2, <1>5, <2>1, <2>2
<1>13. /\ new \in Seq(Var) /\ Len(new) = n
       /\ \A i \in 1..n : new[i] = At(i)
  <2>1. new \in [1..n -> Var] BY <1>0, <1>4
  <2>2. \A i \in 1..n : new[i] = map[ord[i]] OBVIOUS
  <2> HIDE DEF new
  <2>3. new \in Seq(Var) /\ Len(new) = n BY <1>4, <2>1
  <2>4. QED BY <1>5, <2>2, <2>3
<1> HIDE DEF new
<1>14. LitsOf(new) = B
  <2>1. LitsOf(new) = {new[i] : i \in 1..n} BY <1>13, LitsOfIs
  <2>2. \A v \in A : \E i \in 1..n : map[v] = At(i) BY <1>4, <1>5
  <2>3. QED BY <1>5, <1>13, <2>1, <2>2 DEF Mapped
<1>15. CASE n = 0
  <2>1. met = q.search
    <3> DEFINE H == [k \in Nat |-> {q.search}]
    <3>1. q.search \in H[0] OBVIOUS
    <3>2. [i \in DOMAIN ord |-> i] \in Seq(Nat) /\ Len([i \in DOMAIN ord |-> i]) = 0 BY <1>4, <1>15
    <3>3. \A k \in 1..Len([i \in DOMAIN ord |-> i]) : FALSE BY <3>2
    <3> HIDE DEF H
    <3>4. met \in H[Len([i \in DOMAIN ord |-> i])] BY ONLY <3>1, <3>2, <3>3, Meets!FoldedIn
    <3>5. QED BY <3>2, <3>4 DEF H
  <2>2. B = {} /\ A = {} /\ Mapped(map, F) = {} BY <1>4, <1>15 DEF Mapped
  <2>3. q.search.idx = DISCONNECT BY <1>1, <2>2 DEF SearchInv
  <2>4. r.search \in [idx : 0..N, stamp : Nat] BY <1>1, <1>3, <2>1 DEF Queues
  <2>5. r \in Queues
    <3>1. r.prev \in [Var -> 0..N] /\ r.next \in [Var -> 0..N] BY <1>2, <1>9
    <3>2. r.stamps \in [Var -> Nat] BY <1>2, <1>11
    <3>3. r.first \in 0..N /\ r.last \in 0..N /\ r.stamp \in Nat BY <1>2, <1>4, <1>5
    <3>4. QED BY ONLY <1>2, <2>4, <3>1, <3>2, <3>3 DEF Queues
  <2>6. Linking(r, new) /\ Stamping(r, new)
    <3>1. 1 \notin 1..n /\ n \notin 1..n /\ \A i \in 1..n : FALSE BY <1>15
    <3>2. r.first = DISCONNECT /\ r.last = DISCONNECT BY <1>2, <1>5, <3>1
    <3>3. QED BY <1>13, <1>15, <3>1, <3>2 DEF Linking, Stamping
  <2>7. Holds(r, new, B) BY <1>14, <2>6 DEF Holds
  <2>8. SearchInv(r, B) BY <1>3, <2>1, <2>2, <2>3 DEF SearchInv
  <2>9. QED BY <2>2, <2>5, <2>7, <2>8, QueueIs DEF Reaches
<1>16. CASE n # 0
  <2>1. q.search.idx \in A /\ q.search.stamp = q.stamps[q.search.idx] BY <1>1, <1>4, <1>16 DEF SearchInv
  <2>2. n \in 1..n /\ 1 \in 1..n BY <1>4, <1>16
  <2>3. q.search \in [idx : 0..N, stamp : Nat] BY <1>1 DEF Queues
  <2>p. PICK p \in 1..n : ord[p] = q.search.idx BY <1>4, <2>1
\* The place of the search, and where it can be when k places have been passed.
  <2> DEFINE Good(k, search) == IF k < p THEN search = q.search
                                ELSE \E i \in p..k : search = [idx |-> At(i), stamp |-> i]
             G == [k \in Nat |-> {search \in [idx : 0..N, stamp : Nat] : Good(k, search)}]
  <2> HIDE DEF Good
  <2>4. \A k \in Nat : \A search : search \in G[k] <=> search \in [idx : 0..N, stamp : Nat] /\ Good(k, search)
    OBVIOUS
  <2> HIDE DEF G
  <2>5. q.search \in G[0]
    <3>1. 0 < p BY <1>4
    <3>2. Good(0, q.search) BY <3>1 DEF Good
    <3>3. QED BY <2>3, <2>4, <3>2
  <2>6. ASSUME NEW k \in 1..n, NEW search \in G[k - 1]
        PROVE  (IF search.idx = ord[k] THEN [idx |-> At(k), stamp |-> k] ELSE search) \in G[k]
    <3> DEFINE w == [idx |-> At(k), stamp |-> k]
    <3>1. /\ k \in Nat /\ k - 1 \in Nat /\ p \in Nat /\ \A i \in p..(k - 1) : i \in p..k
          /\ (k < p => k - 1 < p) /\ (k = p => k - 1 < p) /\ (p < k => ~ (k - 1 < p))
      BY <1>4
    <3>2. search \in [idx : 0..N, stamp : Nat] /\ Good(k - 1, search) BY <2>4, <3>1
    <3>3. w \in [idx : 0..N, stamp : Nat] BY <1>5, <3>1
    <3>4. ~ (k < p) => Good(k, w)
      <4>1. ~ (k < p) => k \in p..k BY <3>1
      <4>2. ~ (k < p) => \E i \in p..k : w = [idx |-> At(i), stamp |-> i] BY <4>1
      <4> HIDE DEF w
      <4>3. QED BY <4>2 DEF Good
    <3> HIDE DEF w
    <3>5. CASE k < p
      <4>1. search = q.search BY <3>1, <3>2, <3>5 DEF Good
      <4>2. p # k BY <3>1, <3>5
      <4>3. search.idx # ord[k] BY <1>4, <2>p, <4>1, <4>2
      <4>4. Good(k, search) BY <3>5, <4>1 DEF Good
      <4>5. QED BY <2>4, <3>1, <3>2, <4>3, <4>4
    <3>6. CASE k = p
      <4>1. search = q.search BY <3>1, <3>2, <3>6 DEF Good
      <4>2. search.idx = ord[k] BY <2>p, <3>6, <4>1
      <4>3. ~ (k < p) BY <3>1, <3>6
      <4>4. w \in G[k] BY <2>4, <3>1, <3>3, <3>4, <4>3
      <4>5. QED BY <4>2, <4>4 DEF w
    <3>7. CASE p < k
      <4>1. ~ (k < p) /\ ~ (k - 1 < p) BY <3>1, <3>7
      <4>2. \E i \in p..(k - 1) : search = [idx |-> At(i), stamp |-> i] BY <3>2, <4>1 DEF Good
      <4>3. \E i \in p..k : search = [idx |-> At(i), stamp |-> i] BY <3>1, <4>2
      <4>4. Good(k, search) BY <4>1, <4>3 DEF Good
      <4>5. search \in G[k] /\ w \in G[k] BY <2>4, <3>1, <3>2, <3>3, <3>4, <4>1, <4>4
      <4>6. QED BY <4>5 DEF w
    <3>8. QED BY <3>1, <3>5, <3>6, <3>7
  <2> DEFINE places == [i \in DOMAIN ord |-> i]
  <2>7. places \in Seq(Nat) /\ Len(places) = n /\ \A k \in 1..n : places[k] = k
    <3>1. places = [i \in 1..n |-> i] BY <1>4
    <3>2. [i \in 1..n |-> i] \in [1..n -> Nat] BY <1>4
    <3>3. QED BY <1>4, <3>1, <3>2
  <2>8. met = Meets!Folded(<<ord, map>>, q.search, places) OBVIOUS
  <2> HIDE DEF places, Good, met
  <2>9. \A k \in 1..Len(places) : \A search \in G[k - 1] :
          (IF search.idx = ord[places[k]]
           THEN [idx |-> IF places[k] \in DOMAIN ord THEN map[ord[places[k]]] ELSE DISCONNECT,
                 stamp |-> places[k]]
           ELSE search) \in G[k]
    <3>1. \A k \in 1..n : k \in DOMAIN ord /\ At(k) = IF k \in DOMAIN ord THEN map[ord[k]] ELSE DISCONNECT
      BY <1>4, <1>5
    <3>2. QED BY <2>6, <2>7, <3>1
  <2>10. met \in G[n]
    <3>1. Meets!Folded(<<ord, map>>, q.search, places) \in G[Len(places)]
      BY ONLY <2>5, <2>7, <2>9, Meets!FoldedIn
    <3>2. QED BY <2>7, <2>8, <3>1
  <2>11. /\ r.search \in [idx : 0..N, stamp : Nat] /\ Good(n, r.search) BY <1>3, <1>4, <2>4, <2>10
  <2>12. PICK i \in 1..n : p <= i /\ r.search = [idx |-> At(i), stamp |-> i]
    <3>1. ~ (n < p) BY <1>4
    <3>2. \E i \in p..n : r.search = [idx |-> At(i), stamp |-> i] BY <2>11, <3>1 DEF Good
    <3>3. \A i \in p..n : i \in 1..n /\ p <= i BY <1>4
    <3>4. QED BY <3>2, <3>3
  <2>14. r \in Queues
    <3>1. r.prev \in [Var -> 0..N] /\ r.next \in [Var -> 0..N] BY <1>2, <1>9
    <3>2. r.stamps \in [Var -> Nat] BY <1>2, <1>11
    <3>3. r.first \in 0..N /\ r.last \in 0..N /\ r.stamp \in Nat BY <1>2, <1>4, <1>5
    <3>4. QED BY ONLY <1>2, <2>11, <3>1, <3>2, <3>3 DEF Queues
  <2>15. Linking(r, new)
    <3>1. \A j, k \in 1..n : new[j] = new[k] => j = k BY <1>6, <1>13
    <3>2. r.first = new[1] /\ r.last = new[n] BY <1>2, <1>13, <2>2
    <3>3. ASSUME NEW k \in 1..n
          PROVE  /\ r.prev[new[k]] = (IF k = 1 THEN DISCONNECT ELSE new[k - 1])
                 /\ r.next[new[k]] = (IF k = n THEN DISCONNECT ELSE new[k + 1])
      <4>1. new[k] = At(k) /\ At(k) \in Var BY <1>5, <1>13
      <4>2. r.prev[new[k]] = At(k + (-1)) /\ r.next[new[k]] = At(k + 1) BY <1>2, <1>10, <4>1
      <4>3. k + (-1) = k - 1 BY <1>4
      <4>4. CASE k = 1
        <5>1. k - 1 \notin 1..n BY <1>4, <4>4
        <5>2. At(k - 1) = DISCONNECT BY <1>5, <5>1
        <5>3. k # n => k + 1 \in 1..n BY <1>4
        <5>4. k = n => k + 1 \notin 1..n BY <1>4
        <5>5. QED BY <1>5, <1>13, <4>2, <4>3, <4>4, <5>2, <5>3, <5>4
      <4>5. CASE k # 1
        <5>1. k - 1 \in 1..n BY <1>4, <4>5
        <5>2. k # n => k + 1 \in 1..n BY <1>4
        <5>3. k = n => k + 1 \notin 1..n BY <1>4
        <5>4. QED BY <1>5, <1>13, <4>2, <4>3, <4>5, <5>1, <5>2, <5>3
      <4>6. QED BY <4>4, <4>5
    <3>4. QED BY <1>13, <1>16, <3>1, <3>2, <3>3 DEF Linking
  <2>16. Stamping(r, new)
    <3>1. \A k \in 1..n : r.stamps[new[k]] = k BY <1>12, <1>13
    <3>2. \A k \in 1..n : k <= r.stamp /\ k \in Nat BY <1>2, <1>4
    <3>3. QED BY <1>13, <3>1, <3>2 DEF Stamping
  <2>17. Holds(r, new, B) BY <1>14, <2>15, <2>16 DEF Holds
  <2>18. SearchInv(r, B)
    <3>1. r.search.idx = At(i) /\ r.search.stamp = i /\ r.stamps[At(i)] = i BY <1>12, <2>12
    <3>2. QED BY <1>5, <3>1 DEF SearchInv
  <2>19. ASSUME Reaches(q, F), NEW v \in F PROVE r.stamps[map[v]] <= r.search.stamp
    <3>1. PICK k \in 1..n : ord[k] = v BY <1>4
    <3>2. q.stamps[ord[k]] <= q.stamps[ord[p]] BY <2>1, <2>p, <2>19, <3>1 DEF Reaches
    <3>3. k <= p BY <1>1, <3>2, StampOrder DEF n
    <3>4. r.stamps[At(k)] = k /\ At(k) = map[v] BY <1>5, <1>12, <3>1
    <3>5. r.search.stamp = i BY <2>12
    <3>6. k <= i BY <1>4, <2>12, <3>3
    <3>7. QED BY <3>4, <3>5, <3>6
  <2>20. QED BY <2>14, <2>17, <2>18, <2>19, QueueIs DEF Reaches, Mapped
<1>17. QED BY <1>15, <1>16

-----------------------------------------------------------------------------
(* The heaps.  What the operations keep and do is said of the scores along *)
(* the stack.                                                              *)
Keys(h) == [k \in 1..Len(h.stack) |-> ScoreAt(h, k)]
Heaped(t, n) == \A k \in 2..n : t[k \div 2] >= t[k]

\* Only one place may be above its parent, or below its children.
UpInv(t, n, at) ==
  /\ at \in 1..n
  /\ \A k \in 2..n : k # at => t[k \div 2] >= t[k]
  /\ \A k \in 2..n : k \div 2 = at /\ at > 1 => t[at \div 2] >= t[k]
DownInv(t, n, at) ==
  /\ at \in 1..n
  /\ \A k \in 2..n : k \div 2 # at => t[k \div 2] >= t[k]
  /\ \A k \in 2..n : k \div 2 = at /\ at > 1 => t[at \div 2] >= t[k]

\* A stack of n distinct variables, in any order, and a heap of them.
Stacked(h, V, sc, n) ==
  /\ h \in Heaps /\ Distinct(h) /\ LitsOf(h.stack) = V /\ h.score = sc /\ Len(h.stack) = n
HeapIs(h, V, sc) == Stacked(h, V, sc, Len(h.stack)) /\ Ordered(h)

LEMMA Halves ==
  ASSUME NEW k \in Nat, k >= 2
  PROVE  /\ k \div 2 \in Nat /\ 1 <= k \div 2 /\ k \div 2 < k
         /\ k = 2 * (k \div 2) \/ k = 2 * (k \div 2) + 1
OBVIOUS

LEMMA KeysAre ==
  ASSUME NEW h, NEW V, NEW sc, NEW n, Stacked(h, V, sc, n)
  PROVE  /\ n \in Nat /\ n <= N /\ V \subseteq Var /\ sc \in [Var -> Nat]
         /\ \A k \in 1..n : h.stack[k] \in Var /\ h.stack[k] \in V
         /\ \A v \in V : \E k \in 1..n : h.stack[k] = v
         /\ Keys(h) \in [1..n -> Nat]
         /\ \A k \in 1..n : Keys(h)[k] = sc[h.stack[k]] /\ ScoreAt(h, k) = sc[h.stack[k]]
         /\ Ordered(h) <=> Heaped(Keys(h), n)
<1>1. h.stack \in Seq(Var) /\ sc \in [Var -> Nat] /\ Len(h.stack) = n /\ h.score = sc
  BY DEF Stacked, Heaps
<1>2. /\ n \in Nat /\ V \subseteq Var /\ V = {h.stack[k] : k \in 1..n} /\ DOMAIN h.stack = 1..n
      /\ \A k \in 1..n : h.stack[k] \in Var /\ h.stack[k] \in V
  BY <1>1, LitsOfIs DEF Stacked
<1>3. n <= N
  <2>1. \A i, j \in DOMAIN h.stack : h.stack[i] = h.stack[j] => i = j BY <1>1, <1>2 DEF Stacked, Distinct
  <2>2. QED BY <1>1, <2>1, SeqBound, VarFacts
<1>4. \A k \in 1..n : Keys(h)[k] = sc[h.stack[k]] /\ ScoreAt(h, k) = sc[h.stack[k]]
  BY <1>1 DEF Keys, ScoreAt
<1>5. Keys(h) \in [1..n -> Nat] BY <1>1, <1>2 DEF Keys, ScoreAt
<1>6. \A k \in 2..n : k \in 1..n /\ k \div 2 \in 1..n BY <1>2
<1>7. Ordered(h) <=> Heaped(Keys(h), n) BY <1>1, <1>4, <1>6 DEF Ordered, Heaped
<1>8. QED BY <1>1, <1>2, <1>3, <1>4, <1>5, <1>7

\* The keys change places with the elements of the stack.
Exchanged(t, u, n, i, j) ==
  /\ u[i] = t[j] /\ u[j] = t[i] /\ \A k \in 1..n : k # i /\ k # j => u[k] = t[k]

LEMMA SwappedIs ==
  ASSUME NEW h, NEW V, NEW sc, NEW n, Stacked(h, V, sc, n), NEW i \in 1..n, NEW j \in 1..n,
         NEW r, r = Swapped(h, i, j)
  PROVE  Stacked(r, V, sc, n) /\ Exchanged(Keys(h), Keys(r), n, i, j)
<1>1. h.stack \in Seq(Var) /\ Len(h.stack) = n /\ h.score = sc /\ h \in Heaps /\ LitsOf(h.stack) = V
  BY DEF Stacked, Heaps
<1>2. /\ n \in Nat /\ sc \in [Var -> Nat] /\ DOMAIN h.stack = 1..n
      /\ \A k \in 1..n : h.stack[k] \in Var /\ h.stack[k] \in V
      /\ \A v \in V : \E k \in 1..n : h.stack[k] = v
  BY <1>1, KeysAre, LitsOfIs
<1> DEFINE x == h.stack[i]  y == h.stack[j]
           st == [[h.stack EXCEPT ![i] = y] EXCEPT ![j] = x]
<1>3. r = [h EXCEPT !.stack = st] BY <1>1 DEF Swapped, Heaps
<1>4. /\ DOMAIN st = 1..n
      /\ st[j] = x /\ (i # j => st[i] = y) /\ \A k \in 1..n : k # i /\ k # j => st[k] = h.stack[k]
  BY <1>2
<1>5. st[i] = y BY <1>4
<1>6. st \in [1..n -> Var] BY <1>2
<1> HIDE DEF st
<1>7. st \in Seq(Var) /\ Len(st) = n BY <1>2, <1>6
<1>8. r \in Heaps /\ r.stack = st /\ r.score = sc BY ONLY <1>1, <1>3, <1>7 DEF Heaps
<1>9. Distinct(r)
  <2>1. \A a, b \in 1..n : h.stack[a] = h.stack[b] => a = b BY <1>1 DEF Stacked, Distinct
  <2>2. \A a, b \in 1..n : st[a] = st[b] => a = b BY <1>4, <1>5, <2>1
  <2>3. QED BY <1>7, <1>8, <2>2 DEF Distinct
<1>10. LitsOf(st) = V
  <2>1. LitsOf(st) = {st[k] : k \in 1..n} BY <1>7, LitsOfIs
  <2>2. \A k \in 1..n : st[k] \in V BY <1>2, <1>4, <1>5
  <2>3. ASSUME NEW v \in V PROVE \E k \in 1..n : st[k] = v
    <3>1. PICK k \in 1..n : h.stack[k] = v BY <1>2
    <3>2. CASE k = i BY <1>4, <3>1, <3>2
    <3>3. CASE k = j BY <1>5, <3>1, <3>3
    <3>4. CASE k # i /\ k # j BY <1>4, <3>1, <3>4
    <3>5. QED BY <3>2, <3>3, <3>4
  <2>4. QED BY <2>1, <2>2, <2>3
<1>11. Stacked(r, V, sc, n) BY <1>7, <1>8, <1>9, <1>10 DEF Stacked
<1>12. /\ \A k \in 1..n : Keys(h)[k] = sc[h.stack[k]]
       /\ \A k \in 1..n : Keys(r)[k] = sc[st[k]]
  BY <1>8, <1>11, KeysAre
<1>13. QED BY <1>4, <1>5, <1>11, <1>12 DEF Exchanged

(* One turn of the loops, on the keys.                                     *)
LEMMA UpStep ==
  ASSUME NEW n \in Nat, NEW t \in [1..n -> Nat], NEW at, UpInv(t, n, at), at # 1,
         ~ (t[at \div 2] >= t[at]), NEW u \in [1..n -> Nat], Exchanged(t, u, n, at, at \div 2)
  PROVE  UpInv(u, n, at \div 2)
<1> DEFINE p == at \div 2
<1>1. at \in 2..n /\ p \in 1..n /\ p < at BY DEF UpInv
<1>2. t[at] > t[p] BY <1>1
<1>3. /\ \A k \in 2..n : k # at => t[k \div 2] >= t[k]
      /\ \A k \in 2..n : k \div 2 = at => t[p] >= t[k]
  BY <1>1 DEF UpInv
<1>4. u[at] = t[p] /\ u[p] = t[at] /\ \A k \in 1..n : k # at /\ k # p => u[k] = t[k]
  BY DEF Exchanged
<1>5. \A k \in 2..n : k \in 1..n /\ k \div 2 \in 1..n /\ k \div 2 # k OBVIOUS
<1>6. ASSUME NEW k \in 2..n, k # p PROVE u[k \div 2] >= u[k]
  <2>1. CASE k = at BY <1>1, <1>2, <1>4, <2>1
  <2>2. CASE k # at /\ k \div 2 = p
    <3>1. u[k] = t[k] /\ t[p] >= t[k] BY <1>3, <1>4, <1>5, <1>6, <2>2
    <3>2. QED BY <1>1, <1>2, <1>4, <1>5, <2>2, <3>1
  <2>3. CASE k # at /\ k \div 2 = at BY <1>3, <1>4, <1>5, <1>6, <2>3
  <2>4. CASE k # at /\ k \div 2 # at /\ k \div 2 # p BY <1>3, <1>4, <1>5, <1>6, <2>4
  <2>5. QED BY <2>1, <2>2, <2>3, <2>4
<1>7. ASSUME NEW k \in 2..n, k \div 2 = p, p > 1 PROVE u[p \div 2] >= u[k]
  <2>1. p \in 2..n /\ p # at /\ p \div 2 \in 1..n /\ p \div 2 # p /\ p \div 2 # at BY <1>1, <1>7
  <2>2. t[p \div 2] >= t[p] BY <1>3, <2>1
  <2>3. u[p \div 2] = t[p \div 2] BY <1>4, <2>1
  <2>4. CASE k = at BY <1>4, <2>2, <2>3, <2>4
  <2>5. CASE k # at
    <3>1. k # p /\ u[k] = t[k] /\ t[p] >= t[k] BY <1>3, <1>4, <1>5, <1>7, <2>5
    <3>2. t[p \div 2] \in Nat /\ t[p] \in Nat /\ t[k] \in Nat BY <1>1, <1>5, <2>1
    <3>3. QED BY <2>2, <2>3, <3>1, <3>2
  <2>6. QED BY <2>4, <2>5
<1>8. QED BY <1>1, <1>6, <1>7 DEF UpInv

LEMMA DownStep ==
  ASSUME NEW n \in Nat, NEW t \in [1..n -> Nat], NEW at, DownInv(t, n, at),
         NEW c \in 1..n, c \div 2 = at, t[c] > t[at], \A k \in 2..n : k \div 2 = at => t[c] >= t[k],
         NEW u \in [1..n -> Nat], Exchanged(t, u, n, at, c)
  PROVE  DownInv(u, n, c) /\ c > at
<1>1. at \in 1..n /\ c \in 2..n /\ at < c BY DEF DownInv
<1>2. /\ \A k \in 2..n : k \div 2 # at => t[k \div 2] >= t[k]
      /\ \A k \in 2..n : k \div 2 = at /\ at > 1 => t[at \div 2] >= t[k]
  BY DEF DownInv
<1>3. u[at] = t[c] /\ u[c] = t[at] /\ \A k \in 1..n : k # at /\ k # c => u[k] = t[k]
  BY DEF Exchanged
<1>4. \A k \in 2..n : k \in 1..n /\ k \div 2 \in 1..n /\ k \div 2 # k OBVIOUS
<1>5. ASSUME NEW k \in 2..n, k \div 2 # c PROVE u[k \div 2] >= u[k]
  <2>1. CASE k = c
    <3>1. u[k \div 2] = t[c] /\ u[k] = t[at] BY <1>3, <2>1
    <3>2. t[c] \in Nat /\ t[at] \in Nat BY <1>1
    <3>3. QED BY <3>1, <3>2
  <2>2. CASE k # c /\ k \div 2 = at
    <3>1. k # at /\ u[k] = t[k] BY <1>3, <1>4, <2>2
    <3>2. QED BY <1>3, <2>2, <3>1
  <2>3. CASE k = at
    <3>1. at > 1 /\ k \div 2 # at /\ u[k \div 2] = t[k \div 2] BY <1>3, <1>4, <1>5, <2>3
    <3>2. t[at \div 2] >= t[c] BY <1>1, <1>2, <3>1
    <3>3. QED BY <1>3, <2>3, <3>1, <3>2
  <2>4. CASE k # c /\ k # at /\ k \div 2 # at BY <1>2, <1>3, <1>4, <1>5, <2>4
  <2>5. QED BY <2>1, <2>2, <2>3, <2>4
<1>6. ASSUME NEW k \in 2..n, k \div 2 = c PROVE u[c \div 2] >= u[k]
  <2>1. k # c /\ k # at /\ c # at BY <1>1, <1>4, <1>6
  <2>2. t[c] >= t[k] /\ u[k] = t[k] BY <1>2, <1>3, <1>4, <1>6, <2>1
  <2>3. QED BY <1>3, <2>2
<1>7. QED BY <1>1, <1>5, <1>6 DEF DownInv

Up == INSTANCE Induction WITH Op <- LAMBDA p, b, n : Rise(b)
Down == INSTANCE Induction WITH Op <- LAMBDA p, b, n : Sink(b)

\* An element above its parent rises to its place; one that is not stays.
LEMMA BubbleUpKeeps ==
  ASSUME NEW h, NEW V, NEW sc, NEW n, Stacked(h, V, sc, n), NEW i, UpInv(Keys(h), n, i),
         NEW r, r = BubbleUp(h, i)
  PROVE  Stacked(r, V, sc, n) /\ Ordered(r)
<1> DEFINE Places == [heap : Heaps, at : 1..n]
           Good(k, b) == /\ Stacked(b.heap, V, sc, n)
                         /\ \/ Ordered(b.heap)
                            \/ UpInv(Keys(b.heap), n, b.at) /\ b.at <= N - k
           G == [k \in Nat |-> {b \in Places : Good(k, b)}]
           start == [heap |-> h, at |-> i]
<1> HIDE DEF Good
<1>1. \A k \in Nat : \A b : b \in G[k] <=> b \in Places /\ Good(k, b) OBVIOUS
<1> HIDE DEF G
<1>2. n \in Nat /\ n <= N /\ N \in Nat /\ i \in 1..n BY KeysAre, VariablesAssumption DEF UpInv
<1>3. start \in G[0]
  <2>1. start \in Places BY <1>2 DEF Stacked
  <2>2. i <= N - 0 BY <1>2
  <2>3. Good(0, start) BY <2>2 DEF Good
  <2>4. QED BY <1>1, <2>1, <2>3
<1>4. ASSUME NEW k \in 1..N, NEW b \in G[k - 1] PROVE Rise(b) \in G[k]
  <2>1. k \in Nat /\ k - 1 \in Nat BY <1>2
  <2>2. b \in Places /\ Good(k - 1, b) BY <1>1, <2>1
  <2> DEFINE g == b.heap  at == b.at  t == Keys(g)
  <2>3. /\ Stacked(g, V, sc, n) /\ at \in 1..n
        /\ Ordered(g) \/ (UpInv(t, n, at) /\ at <= N - (k - 1))
    BY <2>2 DEF Good
  <2>4. /\ t \in [1..n -> Nat] /\ \A x \in 1..n : t[x] = ScoreAt(g, x)
        /\ Ordered(g) <=> Heaped(t, n)
    BY <2>3, KeysAre
  <2> HIDE DEF t
  <2>5. CASE at = 1 \/ ScoreAt(g, at \div 2) >= ScoreAt(g, at)
    <3>1. Rise(b) = b BY <2>5 DEF Rise
    <3>2. Ordered(g)
      <4>1. CASE UpInv(t, n, at)
        <5>1. \A x \in 2..n : x # at => t[x \div 2] >= t[x] BY <4>1 DEF UpInv
        <5>2. at # 1 => t[at \div 2] >= t[at]
          <6>1. ASSUME at # 1 PROVE at \div 2 \in 1..n BY <1>2, <2>3, <6>1
          <6>2. QED BY <2>3, <2>4, <2>5, <6>1
        <5>3. \A x \in 2..n : x # 1 BY <1>2
        <5>4. Heaped(t, n) BY <5>1, <5>2, <5>3 DEF Heaped
        <5>5. QED BY <2>4, <5>4
      <4>2. QED BY <2>3, <4>1
    <3>3. Good(k, b) BY <2>3, <3>2 DEF Good
    <3>4. QED BY <1>1, <2>1, <2>2, <3>1, <3>3
  <2>6. CASE at # 1 /\ ~ (ScoreAt(g, at \div 2) >= ScoreAt(g, at))
    <3> DEFINE j == at \div 2  w == Swapped(g, at, j)
    <3>1. Rise(b) = [heap |-> w, at |-> j] BY <2>6 DEF Rise
    <3>2. at \in 2..n /\ j \in 1..n /\ j <= at - 1 BY <1>2, <2>3, <2>6
    <3>3. ~ (t[j] >= t[at]) BY <2>4, <2>6, <3>2
    <3>4. UpInv(t, n, at) /\ at <= N - (k - 1)
      <4>1. ~ Heaped(t, n) BY <3>2, <3>3 DEF Heaped
      <4>2. QED BY <2>3, <2>4, <4>1
    <3>5. Stacked(w, V, sc, n) /\ Exchanged(t, Keys(w), n, at, j)
      BY <2>3, <3>2, SwappedIs DEF t
    <3> HIDE DEF w
    <3>6. Keys(w) \in [1..n -> Nat] BY <3>5, KeysAre
    <3>7. UpInv(Keys(w), n, j) BY <1>2, <2>4, <2>6, <3>3, <3>4, <3>5, <3>6, UpStep
    <3>8. j <= N - k BY <1>2, <2>1, <3>2, <3>4
    <3> HIDE DEF j
    <3> DEFINE c == [heap |-> w, at |-> j]
    <3>9. c.heap = w /\ c.at = j OBVIOUS
    <3>10. c \in Places BY <3>2, <3>5 DEF Stacked
    <3> HIDE DEF c
    <3>11. Good(k, c) BY <3>5, <3>7, <3>8, <3>9 DEF Good
    <3>12. c \in G[k] BY <1>1, <2>1, <3>10, <3>11
    <3>13. QED BY <3>1, <3>12 DEF c
  <2>7. QED BY <2>5, <2>6
<1> DEFINE last == Up!Iterated(0, start, N)
<1>5. last \in G[N]
  <2> HIDE DEF start
  <2>1. QED BY ONLY <1>2, <1>3, <1>4, Up!IteratedIn
<1>6. r = last.heap BY DEF BubbleUp, Up!Iterated
<1> HIDE DEF last
<1>7. last \in Places /\ Good(N, last) BY <1>1, <1>2, <1>5
<1>8. ~ (last.at <= N - N) BY <1>2, <1>7
<1>9. QED BY <1>6, <1>7, <1>8 DEF Good

LEMMA BubbleUpStays ==
  ASSUME NEW h, NEW i, i = 1 \/ ScoreAt(h, i \div 2) >= ScoreAt(h, i)
  PROVE  BubbleUp(h, i) = h
<1> DEFINE start == [heap |-> h, at |-> i]
           G == [k \in Nat |-> {start}]
<1>1. Rise(start) = start BY DEF Rise
<1>2. BubbleUp(h, i) = Up!Iterated(0, start, N).heap BY DEF BubbleUp, Up!Iterated
<1>3. start.heap = h OBVIOUS
<1> HIDE DEF start
<1>4. start \in G[0] /\ \A k \in 1..N : \A b \in G[k - 1] : Rise(b) \in G[k]
  <2>1. \A k \in 1..N : k \in Nat /\ k - 1 \in Nat BY VariablesAssumption
  <2>2. QED BY <1>1, <2>1
<1>5. G[N] = {start} BY VariablesAssumption
<1> HIDE DEF G
<1>6. Up!Iterated(0, start, N) \in G[N] BY ONLY <1>4, VariablesAssumption, Up!IteratedIn
<1>7. QED BY <1>2, <1>3, <1>5, <1>6

\* An element below a child sinks to its place.
LEMMA BubbleDownKeeps ==
  ASSUME NEW h, NEW V, NEW sc, NEW n, Stacked(h, V, sc, n), NEW i, DownInv(Keys(h), n, i),
         NEW r, r = BubbleDown(h, i)
  PROVE  Stacked(r, V, sc, n) /\ Ordered(r)
<1> DEFINE Places == [heap : Heaps, at : 1..n]
           Good(k, b) == /\ Stacked(b.heap, V, sc, n)
                         /\ \/ Ordered(b.heap)
                            \/ DownInv(Keys(b.heap), n, b.at) /\ b.at >= k + 1
           G == [k \in Nat |-> {b \in Places : Good(k, b)}]
           start == [heap |-> h, at |-> i]
<1> HIDE DEF Good
<1>1. \A k \in Nat : \A b : b \in G[k] <=> b \in Places /\ Good(k, b) OBVIOUS
<1> HIDE DEF G
<1>2. n \in Nat /\ n <= N /\ N \in Nat /\ i \in 1..n BY KeysAre, VariablesAssumption DEF DownInv
<1>3. start \in G[0]
  <2>1. start \in Places BY <1>2 DEF Stacked
  <2>2. i >= 0 + 1 BY <1>2
  <2>3. Good(0, start) BY <2>2 DEF Good
  <2>4. QED BY <1>1, <2>1, <2>3
<1>4. ASSUME NEW k \in 1..N, NEW b \in G[k - 1] PROVE Sink(b) \in G[k]
  <2>1. k \in Nat /\ k - 1 \in Nat /\ (k - 1) + 1 = k BY <1>2
  <2>2. b \in Places /\ Good(k - 1, b) BY <1>1, <2>1
  <2> DEFINE g == b.heap  at == b.at  t == Keys(g)
             c == IF 2 * at + 1 <= n /\ ScoreAt(g, 2 * at + 1) > ScoreAt(g, 2 * at)
                  THEN 2 * at + 1 ELSE 2 * at
  <2>3. /\ Stacked(g, V, sc, n) /\ at \in 1..n
        /\ Ordered(g) \/ (DownInv(t, n, at) /\ at >= k)
    BY <2>1, <2>2 DEF Good
  <2>4. /\ t \in [1..n -> Nat] /\ \A x \in 1..n : t[x] = ScoreAt(g, x)
        /\ Ordered(g) <=> Heaped(t, n)
    BY <2>3, KeysAre
  <2> HIDE DEF t
  <2>5. Len(g.stack) = n BY <2>3 DEF Stacked
  <2>6. /\ 2 * at \in Nat
        /\ \A x \in 2..n : x \div 2 = at => 2 * at <= n /\ (x = 2 * at \/ x = 2 * at + 1)
    BY <1>2, <2>3
  <2>7. ASSUME 2 * at <= n
        PROVE  /\ c \in 2..n /\ c \div 2 = at
               /\ \A x \in 2..n : x \div 2 = at => t[c] >= t[x]
    <3>1. 2 * at \in 2..n /\ (2 * at) \div 2 = at /\ (2 * at + 1) \div 2 = at BY <1>2, <2>3, <2>7
    <3>2. 2 * at + 1 <= n => 2 * at + 1 \in 2..n BY <1>2, <2>3
    <3>3. \A x \in 2..n : x \in 1..n /\ t[x] \in Nat BY <1>2, <2>4
    <3>4. CASE 2 * at + 1 <= n /\ ScoreAt(g, 2 * at + 1) > ScoreAt(g, 2 * at)
      <4>1. c = 2 * at + 1 BY <3>4
      <4>2. t[2 * at + 1] >= t[2 * at]
        <5>1. 2 * at \in 1..n /\ 2 * at + 1 \in 1..n BY <3>1, <3>2, <3>3, <3>4
        <5>2. t[2 * at] \in Nat /\ t[2 * at + 1] \in Nat BY <2>4, <5>1
        <5>3. t[2 * at + 1] > t[2 * at] BY <2>4, <3>4, <5>1
        <5>4. QED BY <5>2, <5>3
      <4> HIDE DEF c
      <4>3. QED BY <2>6, <3>1, <3>2, <3>3, <3>4, <4>1, <4>2
    <3>5. CASE ~ (2 * at + 1 <= n /\ ScoreAt(g, 2 * at + 1) > ScoreAt(g, 2 * at))
      <4>1. c = 2 * at BY <3>5
      <4>2. ASSUME 2 * at + 1 <= n PROVE t[2 * at] >= t[2 * at + 1]
        <5>1. 2 * at \in 1..n /\ 2 * at + 1 \in 1..n BY <3>1, <3>2, <3>3, <4>2
        <5>2. t[2 * at] \in Nat /\ t[2 * at + 1] \in Nat BY <2>4, <5>1
        <5>3. ~ (t[2 * at + 1] > t[2 * at]) BY <2>4, <3>5, <4>2, <5>1
        <5>4. QED BY <5>2, <5>3
      <4> HIDE DEF c
      <4>3. \A x \in 2..n : x <= n BY <1>2
      <4>4. ASSUME NEW x \in 2..n, x \div 2 = at PROVE t[2 * at] >= t[x]
        <5>1. CASE x = 2 * at BY <3>3, <5>1
        <5>2. CASE x = 2 * at + 1 BY <4>2, <4>3, <5>2
        <5>3. QED BY <2>6, <4>4, <5>1, <5>2
      <4>5. QED BY <3>1, <4>1, <4>4
    <3>6. QED BY <3>4, <3>5
  <2>8. Sink(b) = IF 2 * at > n \/ ScoreAt(g, c) <= ScoreAt(g, at) THEN b
                  ELSE [heap |-> Swapped(g, at, c), at |-> c]
    BY <2>5 DEF Sink
  <2> HIDE DEF c
  <2>9. CASE 2 * at > n \/ ScoreAt(g, c) <= ScoreAt(g, at)
    <3>1. Ordered(g)
      <4>1. CASE DownInv(t, n, at)
        <5>1. \A x \in 2..n : x \div 2 # at => t[x \div 2] >= t[x] BY <4>1 DEF DownInv
        <5>2. ASSUME NEW x \in 2..n, x \div 2 = at PROVE t[at] >= t[x]
          <6>1. 2 * at <= n BY <2>6, <5>2
          <6>2. c \in 1..n /\ t[c] >= t[x] BY <2>7, <5>2, <6>1
          <6>3. t[c] <= t[at] BY <1>2, <2>3, <2>4, <2>6, <2>9, <6>1, <6>2
          <6>4. t[c] \in Nat /\ t[x] \in Nat /\ t[at] \in Nat
            <7>1. x \in 1..n BY <5>2
            <7>2. QED BY <2>3, <2>4, <6>2, <7>1
          <6>5. QED BY <6>2, <6>3, <6>4
        <5>3. Heaped(t, n) BY <5>1, <5>2 DEF Heaped
        <5>4. QED BY <2>4, <5>3
      <4>2. QED BY <2>3, <4>1
    <3>2. Good(k, b) BY <2>3, <3>1 DEF Good
    <3>3. QED BY <1>1, <2>1, <2>2, <2>8, <2>9, <3>2
  <2>10. CASE ~ (2 * at > n \/ ScoreAt(g, c) <= ScoreAt(g, at))
    <3> DEFINE w == Swapped(g, at, c)
    <3>1. Sink(b) = [heap |-> w, at |-> c] BY <2>8, <2>10
    <3>2. 2 * at <= n BY <1>2, <2>6, <2>10
    <3>3. /\ c \in 2..n /\ c \in 1..n /\ c \div 2 = at
          /\ \A x \in 2..n : x \div 2 = at => t[c] >= t[x]
      BY <2>7, <3>2
    <3>4. t[c] > t[at]
      <4>1. t[c] \in Nat /\ t[at] \in Nat BY <2>3, <2>4, <3>3
      <4>2. ~ (t[c] <= t[at]) BY <2>3, <2>4, <2>10, <3>3
      <4>3. QED BY <4>1, <4>2
    <3>5. DownInv(t, n, at) /\ at >= k
      <4>1. ~ Heaped(t, n)
        <5>1. t[c] \in Nat /\ t[at] \in Nat BY <2>3, <2>4, <3>3
        <5>2. ~ (t[at] >= t[c]) BY <3>4, <5>1
        <5>3. QED BY <3>3, <5>2 DEF Heaped
      <4>2. QED BY <2>3, <2>4, <4>1
    <3>6. Stacked(w, V, sc, n) /\ Exchanged(t, Keys(w), n, at, c)
      BY <2>3, <3>3, SwappedIs DEF t
    <3> HIDE DEF w
    <3>7. Keys(w) \in [1..n -> Nat] BY <3>6, KeysAre
    <3>8. DownInv(Keys(w), n, c) /\ c > at BY ONLY <1>2, <2>4, <3>3, <3>4, <3>5, <3>6, <3>7, DownStep
    <3>9. c >= k + 1 BY <2>1, <2>3, <3>3, <3>5, <3>8
    <3> DEFINE z == [heap |-> w, at |-> c]
    <3>10. z.heap = w /\ z.at = c OBVIOUS
    <3>11. z \in Places BY <3>3, <3>6 DEF Stacked
    <3> HIDE DEF z
    <3>12. Good(k, z) BY <3>6, <3>8, <3>9, <3>10 DEF Good
    <3>13. z \in G[k] BY <1>1, <2>1, <3>11, <3>12
    <3>14. QED BY <3>1, <3>13 DEF z
  <2>11. QED BY <2>9, <2>10
<1> DEFINE last == Down!Iterated(0, start, N)
<1>5. last \in G[N]
  <2> HIDE DEF start
  <2>1. QED BY ONLY <1>2, <1>3, <1>4, Down!IteratedIn
<1>6. r = last.heap BY DEF BubbleDown, Down!Iterated
<1> HIDE DEF last
<1>7. last \in Places /\ Good(N, last) BY <1>1, <1>2, <1>5
<1>8. ~ (last.at >= N + 1) BY <1>2, <1>7
<1>9. QED BY <1>6, <1>7, <1>8 DEF Good

LEMMA HeapFacts ==
  ASSUME NEW h, NEW V, NEW sc, HeapIs(h, V, sc)
  PROVE  /\ h \in Heaps /\ V \subseteq Var /\ sc \in [Var -> Nat] /\ h.score = sc
         /\ h.stack \in Seq(Var) /\ Len(h.stack) \in Nat /\ LitsOf(h.stack) = V
         /\ \A i, j \in 1..Len(h.stack) : h.stack[i] = h.stack[j] => i = j
         /\ \A k \in 1..Len(h.stack) : h.stack[k] \in Var /\ h.stack[k] \in V
         /\ \A v \in V : \E k \in 1..Len(h.stack) : h.stack[k] = v
         /\ \A k \in 2..Len(h.stack) : sc[h.stack[k \div 2]] >= sc[h.stack[k]]
<1>1. Stacked(h, V, sc, Len(h.stack)) /\ Ordered(h) BY DEF HeapIs
<1>2. \A k \in 2..Len(h.stack) : sc[h.stack[k \div 2]] >= sc[h.stack[k]]
  <2>1. h.score = sc BY <1>1 DEF Stacked
  <2>2. QED BY <1>1, <2>1 DEF Ordered, ScoreAt
<1>3. /\ h \in Heaps /\ h.score = sc /\ LitsOf(h.stack) = V
      /\ \A i, j \in 1..Len(h.stack) : h.stack[i] = h.stack[j] => i = j
  BY <1>1 DEF Stacked, Distinct
<1>4. h.stack \in Seq(Var) /\ h.score \in [Var -> Nat] BY <1>3 DEF Heaps
<1>5. PICK st \in Seq(Var) : st = h.stack BY <1>4
<1>6. /\ Len(st) \in Nat /\ LitsOf(st) \subseteq Var
      /\ \A k \in 1..Len(st) : st[k] \in Var /\ st[k] \in LitsOf(st)
      /\ \A v \in LitsOf(st) : \E k \in 1..Len(st) : st[k] = v
  BY ONLY st \in Seq(Var) DEF LitsOf
<1>7. QED BY <1>2, <1>3, <1>4, <1>5, <1>6

\* The place of a variable of the heap.
LEMMA PosIs ==
  ASSUME NEW h, h.stack \in Seq(Var), Distinct(h), NEW i \in 1..Len(h.stack), NEW v, v = h.stack[i]
  PROVE  Pos(h, v) = i
<1>1. PICK st : st = h.stack OBVIOUS
<1>2. PlaceIn(st, v) = i BY <1>1, PlaceIs DEF Distinct
<1>3. QED BY <1>1, <1>2 DEF Pos, PlaceIn

LEMMA ContainedIs ==
  ASSUME NEW h, NEW V, NEW sc, HeapIs(h, V, sc), NEW v
  PROVE  Contained(h, v) <=> v \in V
<1>1. PICK st : st = h.stack OBVIOUS
<1>2. st \in Seq(Var) /\ LitsOf(st) = V BY <1>1, HeapFacts
<1>3. Contains(st, v) <=> v \in LitsOf(st) BY <1>2, ContainsIs
<1>4. QED BY <1>1, <1>2, <1>3 DEF Contained

LEMMA PushHeapKeeps ==
  ASSUME NEW h, NEW V, NEW sc, HeapIs(h, V, sc), NEW v \in Var, v \notin V,
         NEW r, r = PushHeap(h, v)
  PROVE  HeapIs(r, V \cup {v}, sc)
<1> DEFINE n == Len(h.stack)
           m == n + 1
           st == Append(h.stack, v)
           g == [h EXCEPT !.stack = st]
<1>1. /\ h \in Heaps /\ V \subseteq Var /\ sc \in [Var -> Nat] /\ h.score = sc
      /\ h.stack \in Seq(Var) /\ n \in Nat /\ m \in Nat /\ LitsOf(h.stack) = V
      /\ \A i, j \in 1..n : h.stack[i] = h.stack[j] => i = j
      /\ \A k \in 1..n : h.stack[k] \in V
      /\ \A k \in 2..n : sc[h.stack[k \div 2]] >= sc[h.stack[k]]
  BY HeapFacts
<1>2. r = BubbleUp(g, m)
  <2>1. g = [h EXCEPT !.stack = Append(@, v)] BY <1>1 DEF Heaps
  <2>2. QED BY <2>1 DEF PushHeap
<1>3. LitsOf(st) = V \cup {v} BY <1>1, LitsOfAppend
<1>4. st \in Seq(Var) /\ Len(st) = m /\ st[m] = v /\ \A k \in 1..n : st[k] = h.stack[k]
  BY <1>1, AppendProperties
<1> HIDE DEF st
<1>5. g \in Heaps /\ g.stack = st /\ g.score = sc BY ONLY <1>1, <1>4 DEF Heaps
<1> HIDE DEF g
<1>6. \A k \in 1..m : k = m \/ k \in 1..n BY <1>1
<1>7. \A i, j \in 1..m : st[i] = st[j] => i = j BY <1>1, <1>4, <1>6
<1> HIDE DEF m
<1>8. Stacked(g, V \cup {v}, sc, m) BY <1>3, <1>4, <1>5, <1>7 DEF Stacked, Distinct
<1>9. Keys(g) \in [1..m -> Nat] /\ \A k \in 1..m : Keys(g)[k] = sc[st[k]]
  BY <1>5, <1>8, KeysAre
<1>10. UpInv(Keys(g), m, m)
  <2>1. m \in 1..m BY <1>1 DEF m
  <2>2. ASSUME NEW k \in 2..m, k # m PROVE Keys(g)[k \div 2] >= Keys(g)[k]
    <3>1. k \in 2..n /\ k \in 1..m BY <1>1, <2>2 DEF m
    <3>2. k \div 2 \in 1..n /\ k \in 1..n BY <1>1, <3>1
    <3>3. k \div 2 \in 1..m BY <1>1, <3>2 DEF m
    <3>4. Keys(g)[k \div 2] = sc[h.stack[k \div 2]] /\ Keys(g)[k] = sc[h.stack[k]]
      BY <1>4, <1>9, <3>1, <3>2, <3>3
    <3>5. QED BY <1>1, <3>1, <3>4
  <2>3. \A k \in 2..m : k \div 2 # m BY <1>1 DEF m
  <2>4. QED BY <2>1, <2>2, <2>3 DEF UpInv
<1>11. Stacked(r, V \cup {v}, sc, m) /\ Ordered(r) BY <1>2, <1>8, <1>10, BubbleUpKeeps
<1>12. QED BY <1>11 DEF HeapIs, Stacked

LEMMA PushMissingKeeps ==
  ASSUME NEW h, NEW V, NEW sc, HeapIs(h, V, sc), NEW v \in Var, NEW r, r = PushMissing(h, v)
  PROVE  HeapIs(r, V \cup {v}, sc)
<1>1. CASE v \in V
  <2>1. V \cup {v} = V BY <1>1
  <2>2. r = h BY <1>1, ContainedIs DEF PushMissing
  <2>3. QED BY <2>1, <2>2
<1>2. CASE v \notin V
  <2>1. r = PushHeap(h, v) BY <1>2, ContainedIs DEF PushMissing
  <2>2. QED BY <1>2, <2>1, PushHeapKeeps
<1>3. QED BY <1>1, <1>2

LEMMA FrontIs ==
  ASSUME NEW S, NEW seq \in Seq(S), Len(seq) # 0, NEW m, m = Len(seq) - 1
  PROVE  /\ m \in Nat /\ Front(seq) \in Seq(S) /\ Len(Front(seq)) = m
         /\ \A i \in 1..m : Front(seq)[i] = seq[i]
         /\ Last(seq) = seq[m + 1]
<1>1. /\ Len(seq) \in Nat /\ m \in Nat /\ m + 1 = Len(seq) /\ 1..m \subseteq 1..Len(seq)
      /\ \A i \in 1..Len(seq) : seq[i] \in S
  BY LitsOfIs
<1> DEFINE f == SubSeq(seq, 1, m)
<1>2. \A i \in 1..m : seq[i] \in S BY <1>1
<1>3. /\ f \in Seq(S) /\ Len(f) = (IF 1 <= m THEN m - 1 + 1 ELSE 0)
      /\ \A i \in 1..(m - 1 + 1) : f[i] = seq[1 + i - 1]
  BY ONLY <1>1, <1>2, SubSeqProperties
<1> HIDE DEF f
<1>4. m - 1 + 1 = m /\ \A i \in 1..m : 1 + i - 1 = i BY ONLY <1>1
<1>5. f \in Seq(S) /\ Len(f) = m /\ \A i \in 1..m : f[i] = seq[i] BY ONLY <1>1, <1>3, <1>4
<1>6. Front(seq) = f BY DEF Front, f
<1>7. QED BY <1>1, <1>5, <1>6 DEF Last

\* A new score for one variable.
LEMMA UpdateHeapKeeps ==
  ASSUME NEW h, NEW V, NEW sc, HeapIs(h, V, sc), NEW v \in Var, NEW x \in Nat,
         NEW r, r = UpdateHeap(h, v, x)
  PROVE  HeapIs(r, V, [sc EXCEPT ![v] = x])
<1> DEFINE n == Len(h.stack)
           new == [sc EXCEPT ![v] = x]
           g == [h EXCEPT !.score = new]
<1>1. /\ h \in Heaps /\ V \subseteq Var /\ sc \in [Var -> Nat] /\ h.score = sc
      /\ h.stack \in Seq(Var) /\ n \in Nat /\ LitsOf(h.stack) = V
      /\ \A i, j \in 1..n : h.stack[i] = h.stack[j] => i = j
      /\ \A k \in 1..n : h.stack[k] \in V /\ h.stack[k] \in Var
      /\ \A u \in V : \E k \in 1..n : h.stack[k] = u
      /\ \A k \in 2..n : sc[h.stack[k \div 2]] >= sc[h.stack[k]]
  BY HeapFacts
<1>2. g = [h EXCEPT !.score[v] = x] BY <1>1 DEF Heaps
<1>3. new \in [Var -> Nat] /\ new[v] = x /\ \A u \in Var : u # v => new[u] = sc[u] BY <1>1
<1> HIDE DEF new
<1>4. g \in Heaps /\ g.stack = h.stack /\ g.score = new BY ONLY <1>1, <1>3 DEF Heaps
<1>5. r = IF ~ Contained(h, v) THEN g
          ELSE IF x > sc[v] THEN BubbleUp(g, Pos(g, v)) ELSE BubbleDown(g, Pos(g, v))
  <2>1. r = IF ~ Contained(h, v) THEN [h EXCEPT !.score[v] = x]
            ELSE IF x > h.score[v] THEN BubbleUp([h EXCEPT !.score[v] = x], Pos(h, v))
                 ELSE BubbleDown([h EXCEPT !.score[v] = x], Pos(h, v))
    BY ONLY r = UpdateHeap(h, v, x), Zenon DEF UpdateHeap
  <2>2. h.score = sc BY <1>1
  <2> HIDE DEF g
  <2>3. Pos(h, v) = Pos(g, v) BY <1>4 DEF Pos
  <2>4. QED BY ONLY <1>2, <2>1, <2>2, <2>3
<1> HIDE DEF g
<1>6. Stacked(g, V, new, n) BY <1>1, <1>4 DEF Stacked, Distinct
<1>7. Keys(g) \in [1..n -> Nat] /\ \A k \in 1..n : Keys(g)[k] = new[h.stack[k]]
  BY <1>4, <1>6, KeysAre
<1>8. \A k \in 2..n : k \in 1..n /\ k \div 2 \in 1..n /\ k \div 2 # k BY <1>1
<1>9. \A k \in 1..n : sc[h.stack[k]] \in Nat /\ new[h.stack[k]] \in Nat BY <1>1, <1>3
<1>10. CASE v \notin V
  <2>1. r = g BY <1>5, <1>10, ContainedIs
  <2>2. \A k \in 1..n : Keys(g)[k] = sc[h.stack[k]] BY <1>1, <1>3, <1>7, <1>10
  <2>3. Heaped(Keys(g), n) BY <1>1, <1>8, <2>2 DEF Heaped
  <2>4. Ordered(g) BY <1>6, <2>3, KeysAre
  <2>5. QED BY <1>4, <1>6, <2>1, <2>4 DEF HeapIs, new
<1>11. CASE v \in V
  <2>1. Contained(h, v) BY <1>11, ContainedIs
  <2>2. PICK i \in 1..n : h.stack[i] = v BY <1>1, <1>11
  <2>3. Pos(g, v) = i BY <1>1, <1>4, <2>2, PosIs DEF Distinct
  <2>4. \A k \in 1..n : Keys(g)[k] = IF k = i THEN x ELSE sc[h.stack[k]] BY <1>1, <1>3, <1>7, <2>2
  <2>5. sc[h.stack[i]] = sc[v] /\ sc[v] \in Nat BY <1>1, <2>2
  <2>6. \A k \in 2..n : k \div 2 = i /\ i > 1 => /\ sc[h.stack[i \div 2]] >= sc[h.stack[k]]
                                                 /\ i \div 2 \in 1..n /\ i \div 2 # i /\ k # i
    <3>1. ASSUME NEW k \in 2..n, k \div 2 = i, i > 1
          PROVE  /\ sc[h.stack[i \div 2]] >= sc[h.stack[k]]
                 /\ i \div 2 \in 1..n /\ i \div 2 # i /\ k # i
      <4>1. i \in 2..n /\ i \div 2 \in 1..n /\ k \in 1..n BY <1>1, <1>8, <3>1
      <4>2. sc[h.stack[i \div 2]] >= sc[h.stack[i]] /\ sc[h.stack[i]] >= sc[h.stack[k]] BY <1>1, <3>1, <4>1
      <4>3. /\ sc[h.stack[i \div 2]] \in Nat /\ sc[h.stack[i]] \in Nat /\ sc[h.stack[k]] \in Nat
        BY <1>9, <4>1
      <4>4. QED BY <1>8, <3>1, <4>1, <4>2, <4>3
    <3>2. QED BY <3>1
  <2>7. CASE x > sc[v]
    <3>1. r = BubbleUp(g, i) BY <1>5, <2>1, <2>3, <2>7
    <3>2. ASSUME NEW k \in 2..n, k # i PROVE Keys(g)[k \div 2] >= Keys(g)[k]
      <4>1. sc[h.stack[k \div 2]] >= sc[h.stack[k]] BY <1>1
      <4>2. CASE k \div 2 = i BY <1>8, <1>9, <2>4, <2>5, <2>7, <3>2, <4>1, <4>2
      <4>3. CASE k \div 2 # i BY <1>8, <2>4, <3>2, <4>1, <4>3
      <4>4. QED BY <4>2, <4>3
    <3>3. \A k \in 2..n : k \div 2 = i /\ i > 1 => Keys(g)[i \div 2] >= Keys(g)[k] BY <1>8, <2>4, <2>6
    <3>4. UpInv(Keys(g), n, i) BY <3>2, <3>3 DEF UpInv
    <3>5. Stacked(r, V, new, n) /\ Ordered(r) BY <1>6, <3>1, <3>4, BubbleUpKeeps
    <3>6. QED BY <3>5 DEF HeapIs, Stacked, new
  <2>8. CASE ~ (x > sc[v])
    <3>1. r = BubbleDown(g, i) BY <1>5, <2>1, <2>3, <2>8
    <3>2. ASSUME NEW k \in 2..n, k \div 2 # i PROVE Keys(g)[k \div 2] >= Keys(g)[k]
      <4>1. sc[h.stack[k \div 2]] >= sc[h.stack[k]] BY <1>1
      <4>2. CASE k = i BY <1>8, <1>9, <2>4, <2>5, <2>8, <3>2, <4>1, <4>2
      <4>3. CASE k # i BY <1>8, <2>4, <3>2, <4>1, <4>3
      <4>4. QED BY <4>2, <4>3
    <3>3. \A k \in 2..n : k \div 2 = i /\ i > 1 => Keys(g)[i \div 2] >= Keys(g)[k] BY <1>8, <2>4, <2>6
    <3>4. DownInv(Keys(g), n, i) BY <3>2, <3>3 DEF DownInv
    <3>5. Stacked(r, V, new, n) /\ Ordered(r) BY <1>6, <3>1, <3>4, BubbleDownKeeps
    <3>6. QED BY <3>5 DEF HeapIs, Stacked, new
  <2>9. QED BY <2>7, <2>8
<1>12. QED BY <1>10, <1>11

\* The last element takes the place of the one that leaves.
LEMMA PopHeapKeeps ==
  ASSUME NEW h, NEW V, NEW sc, HeapIs(h, V, sc), NEW v \in V, NEW r, r = PopHeap(h, v)
  PROVE  HeapIs(r, V \ {v}, sc) /\ Len(r.stack) = Len(h.stack) - 1
<1> DEFINE n == Len(h.stack)
           m == n - 1
           st == Front(h.stack)
           last == Last(h.stack)
           g == [h EXCEPT !.stack = st]
<1>1. /\ h \in Heaps /\ V \subseteq Var /\ sc \in [Var -> Nat] /\ h.score = sc
      /\ h.stack \in Seq(Var) /\ n \in Nat /\ LitsOf(h.stack) = V
      /\ \A i, j \in 1..n : h.stack[i] = h.stack[j] => i = j
      /\ \A k \in 1..n : h.stack[k] \in V /\ h.stack[k] \in Var
      /\ \A u \in V : \E k \in 1..n : h.stack[k] = u
      /\ \A k \in 2..n : sc[h.stack[k \div 2]] >= sc[h.stack[k]]
  BY HeapFacts
<1>2. PICK i \in 1..n : h.stack[i] = v BY <1>1
<1>3. n # 0 BY <1>1, <1>2
<1>4. /\ m \in Nat /\ n = m + 1 /\ st \in Seq(Var) /\ Len(st) = m
      /\ \A k \in 1..m : st[k] = h.stack[k]
      /\ last = h.stack[n]
  <2>1. PICK seq : seq = h.stack OBVIOUS
  <2>2. seq \in Seq(Var) /\ Len(seq) # 0 /\ m = Len(seq) - 1 BY <1>1, <1>3, <2>1
  <2>3. /\ m \in Nat /\ Front(seq) \in Seq(Var) /\ Len(Front(seq)) = m
        /\ \A k \in 1..m : Front(seq)[k] = seq[k]
        /\ Last(seq) = seq[m + 1]
    <3> HIDE DEF m
    <3>1. QED BY ONLY <2>2, FrontIs
  <2>4. n = m + 1 BY <1>1
  <2>5. QED BY <2>1, <2>3, <2>4
<1>5. g = [h EXCEPT !.stack = Front(@)] BY <1>1 DEF Heaps
<1> DEFINE w == [g EXCEPT !.stack[i] = last]
           moved == BubbleUp(w, i)
<1>6. r = IF last = v THEN g ELSE BubbleDown(moved, Pos(moved, last))
  <2>1. Pos(h, v) = i BY <1>1, <1>2, PosIs DEF Distinct
  <2>2. r = IF last = v THEN [h EXCEPT !.stack = Front(@)]
            ELSE BubbleDown(BubbleUp([[h EXCEPT !.stack = Front(@)] EXCEPT !.stack[Pos(h, v)] = last], Pos(h, v)),
                            Pos(BubbleUp([[h EXCEPT !.stack = Front(@)] EXCEPT !.stack[Pos(h, v)] = last], Pos(h, v)), last))
    BY DEF PopHeap
  <2> HIDE DEF g, last
  <2>3. QED BY ONLY <1>5, <2>1, <2>2
<1> HIDE DEF st, last
<1>7. g \in Heaps /\ g.stack = st /\ g.score = sc BY ONLY <1>1, <1>4 DEF Heaps
<1> HIDE DEF g
<1>8. /\ \A k \in 1..m : k \in 1..n /\ k # n
      /\ \A k \in 1..n : k \in 1..m \/ k = n
      /\ n \in 1..n
  BY <1>1, <1>3, <1>4
<1> HIDE DEF m, n
<1>9. CASE last = v
  <2>1. i = n BY <1>1, <1>2, <1>4, <1>8, <1>9
  <2>2. LitsOf(st) = V \ {v}
    <3>1. LitsOf(st) = {st[k] : k \in 1..m} BY <1>4, LitsOfIs
    <3>2. ASSUME NEW k \in 1..m PROVE st[k] \in V \ {v}
      <4>1. k \in 1..n /\ k # n BY <1>8
      <4>2. st[k] = h.stack[k] /\ h.stack[k] \in V BY <1>1, <1>4, <4>1
      <4>3. h.stack[k] # v BY <1>1, <1>2, <1>8, <2>1, <4>1
      <4>4. QED BY <4>2, <4>3
    <3>3. ASSUME NEW u \in V \ {v} PROVE \E k \in 1..m : st[k] = u
      <4>1. PICK k \in 1..n : h.stack[k] = u BY <1>1
      <4>2. k # n BY <1>2, <2>1, <4>1
      <4>3. QED BY <1>4, <1>8, <4>1, <4>2
    <3>4. QED BY <3>1, <3>2, <3>3
  <2>3. Stacked(g, V \ {v}, sc, m)
    <3>1. \A j, k \in 1..m : st[j] = st[k] => j = k BY <1>1, <1>4, <1>8
    <3>2. QED BY <1>4, <1>7, <2>2, <3>1 DEF Stacked, Distinct
  <2>4. Heaped(Keys(g), m)
    <3>1. \A k \in 1..m : Keys(g)[k] = sc[h.stack[k]] BY <1>4, <1>7, <2>3, KeysAre
    <3>2. ASSUME NEW k \in 2..m PROVE Keys(g)[k \div 2] >= Keys(g)[k]
      <4>0. k \in 1..m /\ k \in 2..n BY <1>1, <1>4
      <4>1. k \div 2 \in 1..m BY <1>4, <4>0
      <4>2. QED BY <1>1, <3>1, <4>0, <4>1
    <3>3. QED BY <3>2 DEF Heaped
  <2>5. Ordered(g) BY <2>3, <2>4, KeysAre
  <2>6. QED BY <1>4, <1>6, <1>7, <1>9, <2>3, <2>5 DEF HeapIs, m, n
<1>10. CASE last # v
  <2>1. i \in 1..m BY <1>2, <1>4, <1>8, <1>10
  <2> DEFINE sw == [st EXCEPT ![i] = last]
  <2>2. last \in Var /\ last \in V /\ last = h.stack[n] BY <1>1, <1>4, <1>8
  <2>3. /\ sw \in Seq(Var) /\ Len(sw) = m /\ sw[i] = last
        /\ \A k \in 1..m : k # i => sw[k] = h.stack[k]
    <3>1. DOMAIN st = 1..m /\ st \in [1..m -> Var] BY <1>4, LitsOfIs
    <3>2. sw \in [1..m -> Var] BY <2>2, <3>1
    <3>3. sw[i] = last /\ \A k \in 1..m : k # i => sw[k] = h.stack[k] BY <1>4, <2>1, <3>1
    <3> HIDE DEF sw
    <3>4. QED BY <1>4, <3>2, <3>3
  <2>4. w = [g EXCEPT !.stack = sw] BY <1>7 DEF Heaps
  <2> HIDE DEF sw
  <2>5. w \in Heaps /\ w.stack = sw /\ w.score = sc BY ONLY <1>7, <2>3, <2>4 DEF Heaps
  <2> HIDE DEF w
  <2>6. LitsOf(sw) = V \ {v}
    <3>1. LitsOf(sw) = {sw[k] : k \in 1..m} BY <2>3, LitsOfIs
    <3>2. \A k \in 1..m : sw[k] \in V \ {v} BY <1>1, <1>2, <1>8, <1>10, <2>2, <2>3
    <3>3. ASSUME NEW u \in V \ {v} PROVE \E k \in 1..m : sw[k] = u
      <4>1. PICK k \in 1..n : h.stack[k] = u BY <1>1
      <4>2. k # i BY <1>2, <4>1
      <4>3. CASE k = n BY <2>1, <2>2, <2>3, <4>1, <4>3
      <4>4. CASE k \in 1..m BY <2>3, <4>1, <4>2, <4>4
      <4>5. QED BY <1>8, <4>3, <4>4
    <3>4. QED BY <3>1, <3>2, <3>3
  <2>7. Stacked(w, V \ {v}, sc, m)
    <3>1. ASSUME NEW j \in 1..m, NEW k \in 1..m, sw[j] = sw[k] PROVE j = k
      <4>1. CASE j # i /\ k # i BY <1>1, <1>8, <2>3, <3>1, <4>1
      <4>2. CASE j = i /\ k # i
        <5>1. h.stack[k] = h.stack[n] BY <2>2, <2>3, <3>1, <4>2
        <5>2. QED BY <1>1, <1>8, <5>1
      <4>3. CASE j # i /\ k = i
        <5>1. h.stack[j] = h.stack[n] BY <2>2, <2>3, <3>1, <4>3
        <5>2. QED BY <1>1, <1>8, <5>1
      <4>4. QED BY <4>1, <4>2, <4>3
    <3>2. QED BY <2>3, <2>5, <2>6, <3>1 DEF Stacked, Distinct
  <2>8. /\ Keys(w) \in [1..m -> Nat]
        /\ \A k \in 1..m : Keys(w)[k] = IF k = i THEN sc[last] ELSE sc[h.stack[k]]
    BY <2>3, <2>5, <2>7, KeysAre
  <2>9. ASSUME NEW k \in 2..m PROVE k \in 2..n /\ k \in 1..m /\ k \div 2 \in 1..m /\ k \div 2 # k
    <3>1. k \in 2..n /\ k \in 1..m BY <1>1, <1>4
    <3>2. m \in Nat BY <1>4
    <3>3. k \div 2 \in 1..m /\ k \div 2 # k BY ONLY <3>2
    <3>4. QED BY <3>1, <3>3
  <2>10. sc[last] \in Nat /\ \A k \in 1..m : sc[h.stack[k]] \in Nat BY <1>1, <1>8, <2>2
  <2>11. ASSUME NEW k \in 2..m, k # i, k \div 2 # i PROVE Keys(w)[k \div 2] >= Keys(w)[k]
    <3>1. sc[h.stack[k \div 2]] >= sc[h.stack[k]] BY <1>1, <2>9
    <3>2. QED BY <2>8, <2>9, <2>11, <3>1
  <2>12. ASSUME NEW k \in 2..m, k \div 2 = i, i > 1
         PROVE  /\ Keys(w)[i \div 2] >= Keys(w)[k] /\ sc[h.stack[i \div 2]] >= sc[h.stack[i]]
                /\ i \in 2..m
    <3>1. i \in 2..m BY <1>4, <2>1, <2>12
    <3>2. k # i /\ i \div 2 # i /\ i \div 2 \in 1..m BY <2>9, <2>12, <3>1
    <3>3. sc[h.stack[i \div 2]] >= sc[h.stack[i]] /\ sc[h.stack[i]] >= sc[h.stack[k]]
      BY <1>1, <2>9, <2>12, <3>1
    <3>4. sc[h.stack[i \div 2]] >= sc[h.stack[k]] BY <2>1, <2>9, <2>10, <3>2, <3>3
    <3>5. QED BY <2>8, <2>9, <3>1, <3>2, <3>3, <3>4
  <2>13. CASE i # 1 /\ ~ (Keys(w)[i \div 2] >= Keys(w)[i])
    <3>1. i \in 2..m /\ i \div 2 \in 1..m /\ i \div 2 # i /\ i > 1 BY <1>4, <2>1, <2>9, <2>13
    <3>2. sc[last] > sc[h.stack[i \div 2]] BY <2>1, <2>8, <2>10, <2>13, <3>1
    <3>3. sc[h.stack[i \div 2]] >= sc[h.stack[i]] BY <1>1, <2>9, <3>1
    <3>4. ASSUME NEW k \in 2..m, k \div 2 = i PROVE Keys(w)[k \div 2] >= Keys(w)[k]
      <4>1. sc[h.stack[i]] >= sc[h.stack[k]] /\ k # i BY <1>1, <2>9, <3>4
      <4>2. sc[last] >= sc[h.stack[k]] BY <2>1, <2>9, <2>10, <3>1, <3>2, <3>3, <4>1
      <4>3. QED BY <2>1, <2>8, <2>9, <3>4, <4>1, <4>2
    <3>5. UpInv(Keys(w), m, i) BY <2>1, <2>11, <2>12, <3>4 DEF UpInv
    <3>6. Stacked(moved, V \ {v}, sc, m) /\ Ordered(moved) BY <2>7, <3>5, BubbleUpKeeps
    <3> HIDE DEF moved
    <3>7. PICK p \in 1..m : moved.stack[p] = last
      <4>1. last \in V \ {v} BY <1>10, <2>2
      <4>2. \A u \in V \ {v} : \E p \in 1..m : moved.stack[p] = u
        <5>1. PICK mv : mv = moved OBVIOUS
        <5>2. Stacked(mv, V \ {v}, sc, m) BY <3>6, <5>1
        <5>3. \A u \in V \ {v} : \E p \in 1..m : mv.stack[p] = u BY ONLY <5>2, KeysAre
        <5>4. QED BY <5>1, <5>3
      <4>3. QED BY <4>1, <4>2
    <3>8. Pos(moved, last) = p BY <3>6, <3>7, PosIs DEF Stacked, Heaps
    <3>9. Keys(moved) \in [1..m -> Nat] /\ Heaped(Keys(moved), m) BY <3>6, KeysAre
    <3>10. DownInv(Keys(moved), m, p)
      <4>1. \A k \in 2..m : Keys(moved)[k \div 2] >= Keys(moved)[k] BY <3>9 DEF Heaped
      <4>2. ASSUME NEW k \in 2..m, k \div 2 = p, p > 1 PROVE Keys(moved)[p \div 2] >= Keys(moved)[k]
        <5>1. p \in 2..m BY <1>4, <3>7, <4>2
        <5>2. p \div 2 \in 1..m /\ k \in 1..m BY <2>9, <5>1
        <5>3. Keys(moved)[p \div 2] >= Keys(moved)[p] /\ Keys(moved)[p] >= Keys(moved)[k]
          BY <4>1, <4>2, <5>1
        <5>4. Keys(moved)[p \div 2] \in Nat /\ Keys(moved)[p] \in Nat /\ Keys(moved)[k] \in Nat
          BY <3>9, <5>2
        <5>5. QED BY <5>3, <5>4
      <4>3. QED BY <3>7, <4>1, <4>2 DEF DownInv
    <3>11. r = BubbleDown(moved, p) BY <1>6, <1>10, <3>8
    <3>12. Stacked(r, V \ {v}, sc, m) /\ Ordered(r) BY <3>6, <3>10, <3>11, BubbleDownKeeps
    <3>13. QED BY <3>12 DEF HeapIs, Stacked, m, n
  <2>14. CASE i = 1 \/ Keys(w)[i \div 2] >= Keys(w)[i]
    <3>1. i = 1 \/ ScoreAt(w, i \div 2) >= ScoreAt(w, i)
      <4>1. CASE i # 1
        <5>1. i \in 2..m BY <1>4, <2>1, <4>1
        <5>2. i \div 2 \in 1..m BY <2>9, <5>1
        <5>3. Len(w.stack) = m BY <2>7 DEF Stacked
        <5>4. QED BY <2>1, <2>14, <4>1, <5>2, <5>3 DEF Keys
      <4>2. QED BY <4>1
    <3>2. moved = w BY <3>1, BubbleUpStays
    <3>3. Pos(w, last) = i BY <2>1, <2>3, <2>5, <2>7, PosIs DEF Stacked
    <3>4. r = BubbleDown(w, i) BY <1>6, <1>10, <3>2, <3>3
    <3>5. ASSUME NEW k \in 2..m, k \div 2 # i PROVE Keys(w)[k \div 2] >= Keys(w)[k]
      <4>1. CASE k = i BY <1>4, <2>14, <3>5, <4>1
      <4>2. CASE k # i BY <2>11, <3>5, <4>2
      <4>3. QED BY <4>1, <4>2
    <3>6. DownInv(Keys(w), m, i) BY <2>1, <2>12, <3>5 DEF DownInv
    <3>7. Stacked(r, V \ {v}, sc, m) /\ Ordered(r) BY <2>7, <3>4, <3>6, BubbleDownKeeps
    <3>8. QED BY <3>7 DEF HeapIs, Stacked, m, n
  <2>15. QED BY <2>13, <2>14
<1>11. QED BY <1>9, <1>10

\* The first element has the largest score.
LEMMA TopIsBest ==
  ASSUME NEW h, NEW V, NEW sc, HeapIs(h, V, sc), Len(h.stack) # 0
  PROVE  h.stack[1] \in V /\ \A v \in V : sc[v] <= sc[h.stack[1]]
<1> DEFINE n == Len(h.stack)
           T == {m \in Nat : \A k \in 1..n : k <= m => sc[h.stack[k]] <= sc[h.stack[1]]}
<1>1. /\ sc \in [Var -> Nat] /\ n \in Nat
      /\ \A k \in 1..n : h.stack[k] \in V /\ h.stack[k] \in Var
      /\ \A u \in V : \E k \in 1..n : h.stack[k] = u
      /\ \A k \in 2..n : sc[h.stack[k \div 2]] >= sc[h.stack[k]]
  BY HeapFacts
<1>2. 1 \in 1..n /\ \A k \in 1..n : sc[h.stack[k]] \in Nat BY <1>1
<1>3. 0 \in T BY <1>1
<1>4. ASSUME NEW m \in Nat, m \in T PROVE m + 1 \in T
  <2>1. ASSUME NEW k \in 1..n, k <= m + 1 PROVE sc[h.stack[k]] <= sc[h.stack[1]]
    <3>1. CASE k <= m BY <1>4, <3>1
    <3>2. CASE k = 1 BY <1>2, <3>2
    <3>3. CASE k = m + 1 /\ k # 1
      <4>1. k \in 2..n /\ k \div 2 \in 1..n /\ k \div 2 <= m BY <1>1, <3>3
      <4>2. sc[h.stack[k \div 2]] <= sc[h.stack[1]] BY <1>4, <4>1
      <4>3. sc[h.stack[k \div 2]] >= sc[h.stack[k]] BY <1>1, <4>1
      <4>4. QED BY <1>2, <4>1, <4>2, <4>3
    <3>4. QED BY <1>1, <2>1, <3>1, <3>2, <3>3
  <2>2. QED BY <2>1
<1> HIDE DEF T
<1>5. Nat \subseteq T BY <1>3, <1>4, Nats!NatSetInduction
<1>6. n \in T BY <1>1, <1>5
<1>7. \A k \in 1..n : sc[h.stack[k]] <= sc[h.stack[1]] BY <1>1, <1>6 DEF T
<1>8. QED BY <1>1, <1>2, <1>7

\* largest_score_unassigned_variable: only assigned variables leave the heap.
Popped == INSTANCE Induction WITH Op <- LAMBDA s, g, n :
            IF g.stack = <<>> \/ IsFree(s, g.stack[1]) THEN g ELSE PopHeap(g, g.stack[1])

LEMMA PopAssignedKeeps ==
  ASSUME NEW h, NEW V, NEW sc, HeapIs(h, V, sc), NEW s, s.true \subseteq Var,
         NEW r, r = PopAssigned(h, s), NEW W, W = LitsOf(r.stack)
  PROVE  /\ HeapIs(r, W, sc) /\ W \subseteq V
         /\ \A v \in V : v \notin s.true => v \in W
         /\ Len(r.stack) # 0 => r.stack[1] \notin s.true
<1> DEFINE Done(g) == g.stack = <<>> \/ IsFree(s, g.stack[1])
           Good(k, g) == /\ HeapIs(g, LitsOf(g.stack), sc) /\ LitsOf(g.stack) \subseteq V
                         /\ \A v \in V : v \notin s.true => v \in LitsOf(g.stack)
                         /\ Done(g) \/ Len(g.stack) <= N - k
           G == [k \in Nat |-> {g \in Heaps : Good(k, g)}]
<1> HIDE DEF Good
<1>1. \A k \in Nat : \A g : g \in G[k] <=> g \in Heaps /\ Good(k, g) OBVIOUS
<1> HIDE DEF G
<1>2. N \in Nat /\ V \subseteq Var BY VariablesAssumption, HeapFacts
<1>3. h \in G[0]
  <2>1. h \in Heaps /\ LitsOf(h.stack) = V /\ Len(h.stack) \in Nat /\ Len(h.stack) <= N
    BY HeapFacts, KeysAre DEF HeapIs
  <2>2. Len(h.stack) <= N - 0 BY <1>2, <2>1
  <2>3. Good(0, h) BY <2>1, <2>2 DEF Good
  <2>4. QED BY <1>1, <2>1, <2>3
<1>4. ASSUME NEW k \in 1..N, NEW g \in G[k - 1]
      PROVE  (IF g.stack = <<>> \/ IsFree(s, g.stack[1]) THEN g ELSE PopHeap(g, g.stack[1])) \in G[k]
  <2>1. k \in Nat /\ k - 1 \in Nat BY <1>2
  <2> DEFINE X == LitsOf(g.stack)
  <2>2. /\ g \in Heaps /\ HeapIs(g, X, sc) /\ X \subseteq V
        /\ \A v \in V : v \notin s.true => v \in X
        /\ Done(g) \/ Len(g.stack) <= N - (k - 1)
    BY <1>1, <2>1 DEF Good
  <2>3. CASE Done(g)
    <3>1. Good(k, g) BY <2>2, <2>3 DEF Good
    <3>2. QED BY <1>1, <2>1, <2>2, <2>3, <3>1
  <2>4. CASE ~ Done(g)
    <3> DEFINE v == g.stack[1]  w == PopHeap(g, v)
    <3>1. /\ g.stack \in Seq(Var) /\ Len(g.stack) \in Nat
          /\ \A i \in 1..Len(g.stack) : g.stack[i] \in X /\ g.stack[i] \in Var
      BY <2>2, HeapFacts
    <3>2. Len(g.stack) # 0 BY <2>4, <3>1, EmptySeq
    <3>3. v \in X /\ v \in Var
      <4>1. 1 \in 1..Len(g.stack) BY <3>1, <3>2
      <4>2. QED BY <3>1, <4>1
    <3>4. v \in s.true BY <2>4, <3>3, FreeIs
    <3> HIDE DEF X
    <3>5. HeapIs(w, X \ {v}, sc) /\ Len(w.stack) = Len(g.stack) - 1 BY <2>2, <3>3, PopHeapKeeps
    <3>6. w \in Heaps /\ LitsOf(w.stack) = X \ {v} BY <3>5, HeapFacts
    <3>7. Len(w.stack) <= N - k BY <1>2, <2>1, <2>2, <2>4, <3>1, <3>5
    <3>8. \A u \in V : u \notin s.true => u \in X \ {v} BY <2>2, <3>4
    <3>9. X \ {v} \subseteq V BY <2>2
    <3> HIDE DEF w, Done
    <3>10. Good(k, w) BY <3>5, <3>6, <3>7, <3>8, <3>9 DEF Good
    <3>11. w \in G[k] BY <1>1, <2>1, <3>6, <3>10
    <3>12. QED BY <2>4, <3>11 DEF w, Done
  <2>5. QED BY <2>3, <2>4
<1>5. r \in G[N]
  <2>1. r = Popped!Iterated(s, h, N) BY DEF PopAssigned, Popped!Iterated
  <2>2. Popped!Iterated(s, h, N) \in G[N] BY ONLY <1>2, <1>3, <1>4, Popped!IteratedIn
  <2>3. QED BY <2>1, <2>2
<1>6. r \in Heaps /\ Good(N, r) BY <1>1, <1>2, <1>5
<1>7. /\ HeapIs(r, W, sc) /\ W \subseteq V
      /\ \A v \in V : v \notin s.true => v \in W
      /\ Done(r) \/ Len(r.stack) <= N - N
  BY <1>6 DEF Good
<1>8. /\ r.stack \in Seq(Var) /\ Len(r.stack) \in Nat
      /\ \A i \in 1..Len(r.stack) : r.stack[i] \in Var
  BY <1>7, HeapFacts
<1>9. ASSUME Len(r.stack) # 0 PROVE r.stack[1] \notin s.true
  <2>1. 1 \in 1..Len(r.stack) /\ ~ (Len(r.stack) <= N - N) BY <1>2, <1>8, <1>9
  <2>2. r.stack # <<>> BY <1>9
  <2>3. IsFree(s, r.stack[1]) BY <1>7, <2>1, <2>2
  <2>4. QED BY <1>8, <2>1, <2>3, FreeIs
<1>10. QED BY <1>7, <1>9

\* kissat_update_scores, and what a backtrack puts back on the heap.
Pushed == INSTANCE Induction WITH Op <- LAMBDA live, g, v : IF v \in live THEN PushMissing(g, v) ELSE g
PushedBack == INSTANCE Induction WITH Op <- LAMBDA s, g, v : IF IsFree(s, v) THEN PushMissing(g, v) ELSE g

LEMMA UpdateScoresKeeps ==
  ASSUME NEW h, NEW V, NEW sc, HeapIs(h, V, sc), NEW live \in SUBSET Var,
         NEW r, r = UpdateScores(h, live)
  PROVE  HeapIs(r, V \cup live, sc)
<1> DEFINE To(k) == V \cup {v \in live : v <= k}
           G == [k \in Nat |-> {g \in Heaps : HeapIs(g, To(k), sc)}]
           all == [v \in 1..N |-> v]
<1>1. \A k \in Nat : \A g : g \in G[k] <=> HeapIs(g, To(k), sc) BY HeapFacts
<1> HIDE DEF G
<1>2. N \in Nat /\ Var = 1..N BY VarFacts
<1>3. all \in Seq(Nat) /\ Len(all) = N /\ \A k \in 1..N : all[k] = k
  <2>1. all \in [1..N -> Nat] BY <1>2
  <2>2. QED BY <1>2, <2>1
<1>4. h \in G[0]
  <2>0. ASSUME NEW v \in live PROVE ~ (v <= 0) BY <1>2
  <2>1. {v \in live : v <= 0} = {} BY ONLY <2>0
  <2>2. To(0) = V BY ONLY <2>1
  <2> HIDE DEF To
  <2>3. QED BY <1>1, <2>2
<1>5. ASSUME NEW k \in 1..N, NEW g \in G[k - 1]
      PROVE  (IF k \in live THEN PushMissing(g, k) ELSE g) \in G[k]
  <2>1. k \in Nat /\ k - 1 \in Nat /\ k \in Var BY <1>2
  <2>2. HeapIs(g, To(k - 1), sc) BY <1>1, <2>1
  <2>3. \A v \in live : v <= k <=> v <= k - 1 \/ v = k BY <1>2, <2>1
  <2>4. CASE k \in live
    <3>1. To(k) = To(k - 1) \cup {k} BY <2>3, <2>4
    <3> HIDE DEF To
    <3>2. HeapIs(PushMissing(g, k), To(k), sc) BY <2>1, <2>2, <3>1, PushMissingKeeps
    <3>3. QED BY <1>1, <2>1, <2>4, <3>2
  <2>5. CASE k \notin live
    <3>1. To(k) = To(k - 1) BY <2>3, <2>5
    <3> HIDE DEF To
    <3>2. QED BY <1>1, <2>1, <2>2, <2>5, <3>1
  <2>6. QED BY <2>4, <2>5
<1>6. r = Pushed!Folded(live, h, all) BY DEF UpdateScores, FoldLeft, MapThenFoldSet, Max, Pushed!Folded
<1> HIDE DEF all
<1>7. \A k \in 1..Len(all) : \A g \in G[k - 1] :
        (IF all[k] \in live THEN PushMissing(g, all[k]) ELSE g) \in G[k]
  BY <1>3, <1>5
<1>8. Pushed!Folded(live, h, all) \in G[Len(all)] BY ONLY <1>3, <1>4, <1>7, Pushed!FoldedIn
<1>9. To(N) = V \cup live
  <2>0. ASSUME NEW v \in live PROVE v <= N BY <1>2
  <2>1. {v \in live : v <= N} = live BY ONLY <2>0
  <2>2. QED BY ONLY <2>1
<1> HIDE DEF To
<1>10. HeapIs(r, To(N), sc) BY ONLY <1>1, <1>2, <1>3, <1>6, <1>8
<1>11. QED BY ONLY <1>9, <1>10

LEMMA BackOnHeap ==
  ASSUME NEW h, NEW V, NEW sc, HeapIs(h, V, sc), NEW s, s.true \subseteq Var, NEW trail \in Seq(Var),
         NEW r, r = PushedBack!Folded(s, h, trail)
  PROVE  HeapIs(r, V \cup Freed(trail, s), sc)
<1> DEFINE n == Len(trail)
           To(k) == V \cup {trail[i] : i \in {j \in 1..k : trail[j] \notin s.true}}
           G == [k \in Nat |-> {g \in Heaps : HeapIs(g, To(k), sc)}]
<1>1. \A k \in Nat : \A g : g \in G[k] <=> HeapIs(g, To(k), sc) BY HeapFacts
<1> HIDE DEF G
<1>2. n \in Nat /\ LitsOf(trail) = {trail[i] : i \in 1..n} /\ \A i \in 1..n : trail[i] \in Var
  BY LitsOfIs
<1>3. h \in G[0]
  <2>1. To(0) = V
    <3>1. {j \in 1..0 : trail[j] \notin s.true} = {} OBVIOUS
    <3>2. QED BY <3>1
  <2> HIDE DEF To
  <2>2. QED BY <1>1, <2>1
<1>4. ASSUME NEW k \in 1..n, NEW g \in G[k - 1]
      PROVE  (IF IsFree(s, trail[k]) THEN PushMissing(g, trail[k]) ELSE g) \in G[k]
  <2>1. k \in Nat /\ k - 1 \in Nat /\ trail[k] \in Var BY <1>2
  <2>2. HeapIs(g, To(k - 1), sc) BY <1>1, <2>1
  <2>3. 1..k = 1..(k - 1) \cup {k} BY <2>1
  <2>4. IsFree(s, trail[k]) <=> trail[k] \notin s.true BY <2>1, FreeIs
  <2>5. CASE trail[k] \notin s.true
    <3>1. {j \in 1..k : trail[j] \notin s.true} = {j \in 1..(k - 1) : trail[j] \notin s.true} \cup {k}
      BY <2>3, <2>5
    <3>2. To(k) = To(k - 1) \cup {trail[k]} BY <3>1
    <3> HIDE DEF To
    <3>3. HeapIs(PushMissing(g, trail[k]), To(k), sc) BY <2>1, <2>2, <3>2, PushMissingKeeps
    <3>4. QED BY <1>1, <2>1, <2>4, <2>5, <3>3
  <2>6. CASE trail[k] \in s.true
    <3>1. {j \in 1..k : trail[j] \notin s.true} = {j \in 1..(k - 1) : trail[j] \notin s.true}
      BY <2>3, <2>6
    <3>2. To(k) = To(k - 1) BY <3>1
    <3> HIDE DEF To
    <3>3. QED BY <1>1, <2>1, <2>2, <2>4, <2>6, <3>2
  <2>7. QED BY <2>5, <2>6
<1>6. PushedBack!Folded(s, h, trail) \in G[n]
  <2>1. \A k \in 1..Len(trail) : \A g \in G[k - 1] :
          (IF IsFree(s, trail[k]) THEN PushMissing(g, trail[k]) ELSE g) \in G[k]
    BY <1>4
  <2>2. QED BY ONLY <1>3, <2>1, trail \in Seq(Var), PushedBack!FoldedIn
<1>7. To(n) = V \cup Freed(trail, s) BY <1>2 DEF Freed
<1> HIDE DEF To, n
<1>8. QED BY <1>1, <1>2, <1>6, <1>7

\* compact_scores: the heap is filled again with what its elements are mapped to.
Filled == INSTANCE Induction WITH Op <- LAMBDA p, g, v : PushHeap(g, v)

LEMMA CompactScoresKeeps ==
  ASSUME NEW h, NEW V, NEW sc, HeapIs(h, V, sc), NEW A \in SUBSET Var, V \subseteq A,
         NEW map \in [A -> Var], \A u, v \in A : map[u] = map[v] => u = v,
         NEW r, r = CompactScores(h, map)
  PROVE  HeapIs(r, Mapped(map, V), r.score)
<1> DEFINE new == Carried(map, h.score, 0)
           n == Len(h.stack)
           mapped == [i \in DOMAIN h.stack |-> map[h.stack[i]]]
           start == [stack |-> <<>>, score |-> new]
           To(k) == {mapped[i] : i \in 1..k}
           G == [k \in Nat |-> {g \in Heaps : HeapIs(g, To(k), new)}]
<1>1. \A k \in Nat : \A g : g \in G[k] <=> HeapIs(g, To(k), new) BY HeapFacts
<1> HIDE DEF G
<1>2. /\ h.stack \in Seq(Var) /\ n \in Nat /\ h.score \in [Var -> Nat]
      /\ \A i \in 1..n : h.stack[i] \in V
      /\ \A u \in V : \E k \in 1..n : h.stack[k] = u
      /\ \A i, j \in 1..n : h.stack[i] = h.stack[j] => i = j
  BY HeapFacts
<1>3. DOMAIN h.stack = 1..n BY <1>2, LenProperties
<1>4. mapped \in Seq(Var) /\ Len(mapped) = n /\ \A i \in 1..n : mapped[i] = map[h.stack[i]]
  <2>1. mapped \in [1..n -> Var] BY <1>2, <1>3
  <2>2. \A i \in 1..n : mapped[i] = map[h.stack[i]] BY <1>3
  <2> HIDE DEF mapped, n
  <2>3. n \in Nat BY <1>2
  <2>4. mapped \in Seq(Var) /\ Len(mapped) = n BY ONLY <2>1, <2>3
  <2>5. QED BY <2>2, <2>4
<1>5. r = FoldLeft(PushHeap, start, mapped) BY DEF CompactScores
<1>6. r = Filled!Folded(0, start, mapped)
  <2> HIDE DEF start, mapped
  <2>1. QED BY <1>5 DEF FoldLeft, MapThenFoldSet, Max, Filled!Folded
<1> HIDE DEF mapped
<1>7. new \in [Var -> Nat] BY ONLY <1>2, A \in SUBSET Var, map \in [A -> Var], CarriedIn
<1> HIDE DEF new
<1>8. start \in G[0]
  <2>1. start.stack = <<>> /\ start.score = new /\ start \in Heaps BY <1>7 DEF Heaps
  <2> HIDE DEF start
  <2>2. LitsOf(start.stack) = To(0) /\ Len(start.stack) = 0 BY <2>1 DEF LitsOf
  <2> HIDE DEF To
  <2>3. HeapIs(start, To(0), new) BY <2>1, <2>2 DEF HeapIs, Stacked, Distinct, Ordered
  <2>4. QED BY <1>1, <2>3
<1> HIDE DEF start
<1>9. ASSUME NEW k \in 1..Len(mapped), NEW g \in G[k - 1] PROVE PushHeap(g, mapped[k]) \in G[k]
  <2>1. k \in Nat /\ k - 1 \in Nat /\ k \in 1..n BY <1>2, <1>4
  <2>2. HeapIs(g, To(k - 1), new) BY <1>1, <2>1
  <2>3. mapped[k] \in Var BY <1>4, <2>1, LitsOfIs
  <2>4. mapped[k] \notin To(k - 1)
    <3>1. ASSUME NEW i \in 1..(k - 1), mapped[i] = mapped[k] PROVE FALSE
      <4>1. i \in 1..n /\ i # k BY <1>2, <2>1
      <4>2. h.stack[i] = h.stack[k] BY <1>2, <1>4, <2>1, <3>1, <4>1
      <4>3. QED BY <1>2, <2>1, <4>1, <4>2
    <3>2. QED BY <3>1
  <2>5. To(k) = To(k - 1) \cup {mapped[k]}
    <3>1. 1..k = 1..(k - 1) \cup {k} BY <2>1
    <3>2. QED BY <3>1
  <2> HIDE DEF To
  <2>6. HeapIs(PushHeap(g, mapped[k]), To(k), new) BY <2>2, <2>3, <2>4, <2>5, PushHeapKeeps
  <2>7. QED BY <1>1, <2>1, <2>6
<1>10. r \in G[n]
  <2>1. Filled!Folded(0, start, mapped) \in G[Len(mapped)] BY ONLY <1>4, <1>8, <1>9, Filled!FoldedIn
  <2>2. QED BY <1>4, <1>6, <2>1
<1>11. To(n) = Mapped(map, V)
  <2>1. ASSUME NEW i \in 1..n PROVE mapped[i] \in {map[u] : u \in V} BY <1>2, <1>4
  <2>2. ASSUME NEW u \in V PROVE \E i \in 1..n : mapped[i] = map[u]
    <3>1. PICK i \in 1..n : h.stack[i] = u BY <1>2
    <3>2. QED BY <1>4, <3>1
  <2>3. To(n) \subseteq Mapped(map, V) BY <2>1 DEF Mapped
  <2>4. Mapped(map, V) \subseteq To(n) BY <2>2 DEF Mapped
  <2>5. QED BY ONLY <2>3, <2>4
<1> HIDE DEF To
<1>12. HeapIs(r, Mapped(map, V), new) BY <1>1, <1>2, <1>10, <1>11
<1>13. r.score = new BY <1>12, HeapFacts
<1>14. QED BY <1>12, <1>13

\* The scores of the trail's end, as a fold.
BumpedTo == INSTANCE Induction WITH Op <- LAMBDA scores, g, v : UpdateHeap(g, v, scores[v])

LEMMA BumpedToKeeps ==
  ASSUME NEW h, NEW V, HeapIs(h, V, h.score), NEW S \in SUBSET Var, NEW scores \in [S -> Nat],
         NEW seq \in Seq(S),
         NEW r, r = BumpedTo!Folded(scores, h, seq)
  PROVE  HeapIs(r, V, r.score)
<1> DEFINE G == [k \in Nat |-> {g \in Heaps : HeapIs(g, V, g.score)}]
<1>1. \A k \in Nat : \A g : g \in G[k] <=> HeapIs(g, V, g.score)
  <2>1. \A g : HeapIs(g, V, g.score) => g \in Heaps BY HeapFacts
  <2>2. QED BY <2>1
<1> HIDE DEF G
<1>2. h \in G[0] BY <1>1
<1>3. Len(seq) \in Nat /\ \A k \in 1..Len(seq) : seq[k] \in S BY LitsOfIs
<1>4. ASSUME NEW k \in 1..Len(seq), NEW g \in G[k - 1] PROVE UpdateHeap(g, seq[k], scores[seq[k]]) \in G[k]
  <2>1. k \in Nat /\ k - 1 \in Nat /\ seq[k] \in Var /\ scores[seq[k]] \in Nat BY <1>3
  <2>2. HeapIs(g, V, g.score) BY <1>1, <2>1
  <2> DEFINE w == UpdateHeap(g, seq[k], scores[seq[k]])
  <2>3. PICK sc : HeapIs(w, V, sc) BY <2>1, <2>2, UpdateHeapKeeps
  <2>4. w.score = sc BY <2>3, HeapFacts
  <2> HIDE DEF w
  <2>5. w \in G[k] BY <1>1, <2>1, <2>3, <2>4
  <2>6. QED BY <2>5 DEF w
<1>5. BumpedTo!Folded(scores, h, seq) \in G[Len(seq)]
  BY ONLY <1>2, <1>4, seq \in Seq(S), BumpedTo!FoldedIn
<1>6. QED BY <1>1, <1>3, <1>5

(* The scale.                                                              *)
LEMMA LargestIs ==
  ASSUME NEW sc \in [Var -> Nat], NEW c \in Nat,
         NEW L, L = Max({sc[v] : v \in Var} \cup {c})
  PROVE  L \in Nat /\ c <= L /\ \A v \in Var : sc[v] <= L
<1> DEFINE S == {sc[v] : v \in Var} \cup {c}
           T == {m \in Nat : \E x \in S : c <= x /\ \A v \in Var : v <= m => sc[v] <= x}
<1>1. N \in Nat /\ Var = 1..N BY VarFacts
<1>2. 0 \in T
  <2>1. c \in S /\ c <= c OBVIOUS
  <2>2. \A v \in Var : ~ (v <= 0) BY <1>1
  <2> HIDE DEF S
  <2>3. QED BY <2>1, <2>2
<1>3. ASSUME NEW m \in Nat, m \in T PROVE m + 1 \in T
  <2>1. PICK x \in S : c <= x /\ \A v \in Var : v <= m => sc[v] <= x BY <1>3
  <2>2. x \in Nat BY <2>1
  <2>3. \A v \in Var : v <= m + 1 => v <= m \/ v = m + 1 BY <1>1
  <2>4. CASE m + 1 \in Var /\ sc[m + 1] > x
    <3>1. sc[m + 1] \in S /\ c <= sc[m + 1] BY <2>1, <2>2, <2>4
    <3>2. ASSUME NEW v \in Var, v <= m + 1 PROVE sc[v] <= sc[m + 1]
      <4>1. CASE v = m + 1 BY <2>4, <4>1
      <4>2. CASE v <= m BY <2>1, <2>2, <2>4, <4>2
      <4>3. QED BY <2>3, <3>2, <4>1, <4>2
    <3> HIDE DEF S
    <3>3. QED BY <3>1, <3>2
  <2>5. CASE ~ (m + 1 \in Var /\ sc[m + 1] > x)
    <3>1. ASSUME NEW v \in Var, v <= m + 1 PROVE sc[v] <= x
      <4>1. CASE v = m + 1 BY <2>2, <2>5, <4>1
      <4>2. CASE v <= m BY <2>1, <4>2
      <4>3. QED BY <2>3, <3>1, <4>1, <4>2
    <3> HIDE DEF S
    <3>2. QED BY <2>1, <3>1
  <2>6. QED BY <2>4, <2>5
<1> HIDE DEF T
<1>4. N \in T BY <1>1, <1>2, <1>3, Nats!NatSetInduction
<1>5. PICK x \in S : c <= x /\ \A v \in Var : sc[v] <= x BY <1>1, <1>4 DEF T
<1>6. x \in S /\ \A y \in S : x >= y BY <1>5
<1>7. L \in S /\ \A y \in S : L >= y BY <1>6 DEF Max
<1>8. S \subseteq Nat /\ c \in S /\ \A v \in Var : sc[v] \in S OBVIOUS
<1> HIDE DEF S
<1>9. QED BY <1>7, <1>8

Scaled(x, largest) == IF x = 0 THEN 0 ELSE Max({1, (x * One) \div largest})

LEMMA DivMonotone ==
  ASSUME NEW a \in Nat, NEW b \in Nat, a <= b, NEW d \in Nat, d > 0
  PROVE  a \div d \in Nat /\ b \div d \in Nat /\ a \div d <= b \div d
OBVIOUS

LEMMA MaxOfTwo ==
  ASSUME NEW y \in Nat
  PROVE  /\ Max({1, y}) \in Nat /\ Max({1, y}) >= 1 /\ Max({1, y}) >= y
         /\ Max({1, y}) = 1 \/ Max({1, y}) = y
<1>1. \E x \in {1, y} : \A z \in {1, y} : x >= z
  <2>1. CASE y >= 1 BY <2>1
  <2>2. CASE ~ (y >= 1) BY <2>2
  <2>3. QED BY <2>1, <2>2
<1>2. Max({1, y}) \in {1, y} /\ \A z \in {1, y} : Max({1, y}) >= z BY <1>1 DEF Max
<1>3. QED BY <1>2

LEMMA ScaledIs ==
  ASSUME NEW largest \in Nat, largest > 0, NEW x \in Nat, NEW y \in Nat, x <= y
  PROVE  /\ Scaled(x, largest) \in Nat /\ Scaled(x, largest) <= Scaled(y, largest)
         /\ x > 0 => Scaled(x, largest) > 0
<1>1. One \in Nat BY DecideAssumption
<1>2. x * One \in Nat /\ y * One \in Nat /\ x * One <= y * One BY <1>1
<1>3. /\ (x * One) \div largest \in Nat /\ (y * One) \div largest \in Nat
      /\ (x * One) \div largest <= (y * One) \div largest
  BY <1>2, DivMonotone
<1> DEFINE p == (x * One) \div largest  q == (y * One) \div largest
<1>4. Max({1, p}) \in Nat /\ Max({1, p}) >= 1 /\ (Max({1, p}) = 1 \/ Max({1, p}) = p)
      /\ Max({1, q}) \in Nat /\ Max({1, q}) >= 1 /\ Max({1, q}) >= q
  BY <1>3, MaxOfTwo
<1>5. /\ Scaled(x, largest) = IF x = 0 THEN 0 ELSE Max({1, p})
      /\ Scaled(y, largest) = IF y = 0 THEN 0 ELSE Max({1, q})
  BY DEF Scaled
<1>6. p \in Nat /\ q \in Nat /\ p <= q BY <1>3
<1> HIDE DEF p, q
<1>7. CASE x = 0 BY <1>4, <1>5, <1>7
<1>8. CASE x # 0
  <2>1. y # 0 BY <1>8
  <2>2. QED BY <1>4, <1>5, <1>6, <1>8, <2>1
<1>9. QED BY <1>7, <1>8

\* What the scores of stable mode change: the heap of VSIDS keeps its variables.
Rescored(d, e, V) ==
  /\ e \in Bundles /\ e.asg = d.asg /\ e.active = d.active /\ e.queue = d.queue
  /\ e.heaps[Chb] = d.heaps[Chb] /\ HeapIs(e.heaps[Vsids], V, e.heaps[Vsids].score)

LEMMA NewHeap ==
  ASSUME NEW d \in Bundles, NEW x \in {Vsids, Chb}, NEW g \in Heaps,
         NEW e, e = WithHeap(d, x, g)
  PROVE  /\ e \in Bundles /\ e.asg = d.asg /\ e.active = d.active /\ e.queue = d.queue
         /\ e.scinc = d.scinc /\ e.heaps[x] = g
         /\ \A y \in {Vsids, Chb} : y # x => e.heaps[y] = d.heaps[y]
<1>1. d.heaps \in [{Vsids, Chb} -> Heaps] BY DEF Bundles
<1> DEFINE hs == [d.heaps EXCEPT ![x] = g]
<1>2. hs \in [{Vsids, Chb} -> Heaps] BY <1>1
<1>3. hs[x] = g /\ \A y \in {Vsids, Chb} : y # x => hs[y] = d.heaps[y] BY <1>1
<1>4. e = [d EXCEPT !.heaps = hs] BY <1>1 DEF WithHeap, Bundles
<1> HIDE DEF hs
<1>5. /\ e \in Bundles /\ e.asg = d.asg /\ e.active = d.active /\ e.queue = d.queue
      /\ e.scinc = d.scinc /\ e.heaps = hs
  BY ONLY <1>2, <1>4, d \in Bundles DEF Bundles
<1>6. QED BY <1>3, <1>5

LEMMA RescaledKeeps ==
  ASSUME NEW d \in Bundles, NEW V, HeapIs(d.heaps[Vsids], V, d.heaps[Vsids].score),
         NEW e, e = Rescaled(d)
  PROVE  Rescored(d, e, V)
<1> DEFINE h == d.heaps[Vsids]
           n == Len(h.stack)
           largest == Max({h.score[v] : v \in Var} \cup {d.scinc})
           new == [v \in Var |-> Scaled(h.score[v], largest)]
           g == [h EXCEPT !.score = new]
           hs == [d.heaps EXCEPT ![Vsids] = g]
           inc == Scaled(d.scinc, largest)
<1>1. d.heaps \in [{Vsids, Chb} -> Heaps] /\ d.scinc \in Nat /\ d.scinc > 0 BY DEF Bundles
<1>2. /\ h \in Heaps /\ h.score \in [Var -> Nat] /\ V \subseteq Var /\ n \in Nat
      /\ \A k \in 1..n : h.stack[k] \in Var
      /\ \A k \in 2..n : h.score[h.stack[k \div 2]] >= h.score[h.stack[k]]
      /\ Stacked(h, V, h.score, n)
  <2>1. PICK hp, sc : hp = h /\ sc = h.score OBVIOUS
  <2>2. HeapIs(hp, V, sc) BY <2>1
  <2>3. /\ hp \in Heaps /\ sc \in [Var -> Nat] /\ V \subseteq Var /\ Len(hp.stack) \in Nat
        /\ \A k \in 1..Len(hp.stack) : hp.stack[k] \in Var
        /\ \A k \in 2..Len(hp.stack) : sc[hp.stack[k \div 2]] >= sc[hp.stack[k]]
    BY ONLY <2>2, HeapFacts
  <2>4. Stacked(hp, V, sc, Len(hp.stack)) BY ONLY <2>2 DEF HeapIs
  <2>5. QED BY <2>1, <2>3, <2>4
<1>3. largest \in Nat /\ largest > 0
  <2>1. PICK sc \in [Var -> Nat] : sc = h.score BY <1>2
  <2>2. largest = Max({sc[v] : v \in Var} \cup {d.scinc}) BY <2>1
  <2> HIDE DEF largest
  <2>3. largest \in Nat /\ d.scinc <= largest BY ONLY <1>1, <2>2, sc \in [Var -> Nat], LargestIs
  <2>4. QED BY <1>1, <2>3
<1>4. e = [d EXCEPT !.heaps = hs, !.scinc = inc]
  <2>1. e = [d EXCEPT !.heaps[Vsids].score = new, !.scinc = inc]
    BY DEF Rescaled, Scaled
  <2>2. QED BY <1>1, <2>1
<1> HIDE DEF largest
<1>5. \A x, y \in Nat : x <= y => /\ Scaled(x, largest) \in Nat
                                  /\ Scaled(x, largest) <= Scaled(y, largest)
                                  /\ x > 0 => Scaled(x, largest) > 0
  BY <1>3, ScaledIs
<1>6. new \in [Var -> Nat]
  <2>1. ASSUME NEW v \in Var PROVE Scaled(h.score[v], largest) \in Nat
    <3>1. h.score[v] \in Nat /\ h.score[v] <= h.score[v] BY <1>2
    <3>2. QED BY <1>5, <3>1
  <2>2. QED BY <2>1
<1>7. inc \in Nat /\ inc > 0
  <2>1. d.scinc <= d.scinc BY <1>1
  <2>2. QED BY <1>1, <1>5, <2>1
<1>8. \A v \in Var : new[v] = Scaled(h.score[v], largest) OBVIOUS
<1> HIDE DEF new, inc
<1>9. g \in Heaps /\ g.stack = h.stack /\ g.score = new
  <2> HIDE DEF h
  <2>1. QED BY ONLY <1>2, <1>6 DEF Heaps
<1> HIDE DEF g
<1>10. hs \in [{Vsids, Chb} -> Heaps] /\ hs[Vsids] = g /\ hs[Chb] = d.heaps[Chb]
  <2>1. Vsids # Chb BY DecideAssumption
  <2>2. QED BY <1>1, <1>9, <2>1
<1> HIDE DEF hs
<1>11. /\ e \in Bundles /\ e.asg = d.asg /\ e.active = d.active /\ e.queue = d.queue /\ e.heaps = hs
  <2>1. inc \in Nat \ {0} BY <1>7
  <2>2. QED BY ONLY <1>4, <1>10, <2>1, d \in Bundles DEF Bundles
<1>12. Stacked(g, V, new, n) BY <1>2, <1>9 DEF Stacked, Distinct
<1>13. Ordered(g)
  <2>1. ASSUME NEW k \in 2..n PROVE new[h.stack[k \div 2]] >= new[h.stack[k]]
    <3>1. k \in 1..n /\ k \div 2 \in 1..n BY <1>2
    <3>2. h.stack[k] \in Var /\ h.stack[k \div 2] \in Var BY <1>2, <3>1
    <3>3. h.score[h.stack[k]] \in Nat /\ h.score[h.stack[k \div 2]] \in Nat BY <1>2, <3>2
    <3>4. h.score[h.stack[k]] <= h.score[h.stack[k \div 2]] BY <1>2, <3>3
    <3>5. Scaled(h.score[h.stack[k]], largest) <= Scaled(h.score[h.stack[k \div 2]], largest)
      BY <1>5, <3>3, <3>4
    <3>6. new[h.stack[k]] <= new[h.stack[k \div 2]] BY <1>8, <3>2, <3>5
    <3>7. new[h.stack[k]] \in Nat /\ new[h.stack[k \div 2]] \in Nat BY <1>6, <3>2
    <3>8. QED BY <3>6, <3>7
  <2>2. QED BY <1>9, <2>1 DEF Ordered, ScoreAt
<1>14. HeapIs(g, V, g.score) BY <1>9, <1>12, <1>13 DEF HeapIs, Stacked
<1>15. QED BY <1>10, <1>11, <1>14 DEF Rescored

LEMMA BumpScoreKeeps ==
  ASSUME NEW d \in Bundles, NEW V, HeapIs(d.heaps[Vsids], V, d.heaps[Vsids].score),
         NEW v \in Var, NEW e, e = BumpScore(d, v)
  PROVE  Rescored(d, e, V)
<1> DEFINE h == d.heaps[Vsids]
           score == h.score[v] + d.scinc
           g == UpdateHeap(h, v, score)
           w == [d EXCEPT !.heaps = [@ EXCEPT ![Vsids] = g]]
<1>1. d.heaps \in [{Vsids, Chb} -> Heaps] /\ d.scinc \in Nat /\ Vsids # Chb
  BY DecideAssumption DEF Bundles
<1>2. h.score \in [Var -> Nat] BY HeapFacts
<1>3. score \in Nat BY <1>1, <1>2
<1>4. w = [d EXCEPT !.heaps[Vsids] = UpdateHeap(@, v, score)] BY <1>1 DEF Bundles
<1>5. e = IF v \notin d.active THEN d ELSE IF score > MaxScore THEN Rescaled(w) ELSE w
  <2> HIDE DEF w
  <2>1. QED BY <1>4 DEF BumpScore
<1>6. PICK sc : HeapIs(g, V, sc)
  <2> HIDE DEF score
  <2>1. QED BY <1>3, UpdateHeapKeeps
<1>7. g \in Heaps /\ g.score = sc BY <1>6, HeapFacts
<1> HIDE DEF g
<1>8. Rescored(d, w, V)
  <2>1. w = WithHeap(d, Vsids, g) BY <1>1 DEF WithHeap, Bundles
  <2> HIDE DEF w
  <2>2. /\ w \in Bundles /\ w.asg = d.asg /\ w.active = d.active /\ w.queue = d.queue
        /\ w.heaps[Vsids] = g /\ \A y \in {Vsids, Chb} : y # Vsids => w.heaps[y] = d.heaps[y]
    BY <1>7, <2>1, NewHeap
  <2>3. QED BY <1>1, <1>6, <1>7, <2>2 DEF Rescored
<1> HIDE DEF w
<1>9. Rescored(d, d, V) BY DEF Rescored
<1>10. Rescored(d, Rescaled(w), V)
  <2>1. Rescored(w, Rescaled(w), V) BY <1>8, RescaledKeeps DEF Rescored
  <2>2. QED BY <1>8, <2>1 DEF Rescored
<1>11. QED BY <1>5, <1>8, <1>9, <1>10

LEMMA BumpIncrementKeeps ==
  ASSUME NEW d \in Bundles, NEW V, HeapIs(d.heaps[Vsids], V, d.heaps[Vsids].score),
         NEW e, e = BumpIncrement(d)
  PROVE  Rescored(d, e, V)
<1> DEFINE w == [d EXCEPT !.scinc = @ + 1]
<1>1. d.scinc \in Nat /\ d.scinc + 1 \in Nat \ {0} BY DEF Bundles
<1>2. /\ w \in Bundles /\ w.asg = d.asg /\ w.active = d.active /\ w.queue = d.queue
      /\ w.heaps = d.heaps
  <2>1. w = [d EXCEPT !.scinc = d.scinc + 1] BY DEF Bundles
  <2> HIDE DEF w
  <2>2. QED BY ONLY <1>1, <2>1, d \in Bundles DEF Bundles
<1>3. e = IF w.scinc > MaxScore THEN Rescaled(w) ELSE w BY DEF BumpIncrement
<1> HIDE DEF w
<1>4. Rescored(d, w, V) BY <1>2 DEF Rescored
<1>5. Rescored(w, Rescaled(w), V) BY <1>2, RescaledKeeps
<1>6. Rescored(d, Rescaled(w), V) BY <1>4, <1>5 DEF Rescored
<1>7. QED BY <1>3, <1>4, <1>6

ScoreBumps == INSTANCE Induction WITH Op <- LAMBDA p, e, v : BumpScore(e, v)

LEMMA BumpScoresKeep ==
  ASSUME NEW d \in Bundles, NEW V, HeapIs(d.heaps[Vsids], V, d.heaps[Vsids].score),
         NEW seq \in Seq(Var), NEW e, e = FoldLeft(BumpScore, d, seq)
  PROVE  Rescored(d, e, V)
<1> DEFINE G == [k \in Nat |-> {w \in Bundles : Rescored(d, w, V)}]
<1>1. \A k \in Nat : \A w : w \in G[k] <=> Rescored(d, w, V) BY DEF Rescored
<1> HIDE DEF G
<1>2. d \in G[0]
  <2>1. Rescored(d, d, V) BY DEF Rescored
  <2>2. QED BY <1>1, <2>1
<1>3. Len(seq) \in Nat /\ \A k \in 1..Len(seq) : seq[k] \in Var BY LitsOfIs
<1>4. ASSUME NEW k \in 1..Len(seq), NEW w \in G[k - 1] PROVE BumpScore(w, seq[k]) \in G[k]
  <2>1. k \in Nat /\ k - 1 \in Nat /\ seq[k] \in Var BY <1>3
  <2>2. Rescored(d, w, V) BY <1>1, <2>1
  <2>3. Rescored(w, BumpScore(w, seq[k]), V) BY <2>1, <2>2, BumpScoreKeeps DEF Rescored
  <2>4. Rescored(d, BumpScore(w, seq[k]), V) BY <2>2, <2>3 DEF Rescored
  <2>5. QED BY <1>1, <2>1, <2>4
<1>5. e = ScoreBumps!Folded(0, d, seq) BY DEF FoldLeft, MapThenFoldSet, Max, ScoreBumps!Folded
<1>6. ScoreBumps!Folded(0, d, seq) \in G[Len(seq)]
  BY ONLY <1>2, <1>4, seq \in Seq(Var), ScoreBumps!FoldedIn
<1>7. QED BY <1>1, <1>3, <1>5, <1>6

-----------------------------------------------------------------------------
(* The end of the trail, which a propagation bumps.                        *)
LEMMA SuffixIs ==
  ASSUME NEW n \in Nat, NEW B \in SUBSET (1..n), \A i \in B : \A j \in i..n : j \in B
  PROVE  /\ n - Cardinality(B) + 1 \in 1..(n + 1)
         /\ \A i \in (n - Cardinality(B) + 1)..n : i \in B
<1>1. CASE B = {}
  <2>1. Cardinality(B) = 0 BY <1>1, FS_EmptySet
  <2>2. n - 0 + 1 = n + 1 /\ ~ (n + 1 <= n) OBVIOUS
  <2>3. QED BY <2>1, <2>2
<1>2. CASE B # {}
  <2>1. B \subseteq Nat OBVIOUS
  <2>2. PICK m \in B : \A y \in B : m <= y BY <1>2, <2>1, Nats!Smallest
  <2>3. B = m..n
    <3>1. \A y \in B : y \in m..n BY <2>1, <2>2
    <3>2. \A y \in m..n : y \in B BY <2>2
    <3>3. QED BY <3>1, <3>2
  <2>4. m \in Int /\ n \in Int /\ m <= n /\ m \in Nat /\ 1 <= m OBVIOUS
  <2>5. Cardinality(m..n) = n - m + 1 BY <2>4, FS_Interval
  <2>6. n - Cardinality(B) + 1 = m BY <2>3, <2>4, <2>5
  <2>7. QED BY <2>3, <2>4, <2>6
<1>3. QED BY <1>1, <1>2

LEMMA ReverseIs ==
  ASSUME NEW S, NEW tr \in Seq(S), NEW first \in 1..(Len(tr) + 1), NEW T,
         \A i \in first..Len(tr) : tr[i] \in T
  PROVE  Reverse(SubSeq(tr, first, Len(tr))) \in Seq(T)
<1> DEFINE n == Len(tr)
           sub == SubSeq(tr, first, n)
<1>1. n \in Nat /\ first \in Nat BY LenProperties
<1> HIDE DEF n
<1>2. /\ sub \in Seq(T) /\ Len(sub) \in Nat
  <2>1. \A i \in first..n : tr[i] \in T BY DEF n
  <2>2. sub \in Seq(T) BY ONLY <1>1, <2>1, SubSeqProperties
  <2> HIDE DEF sub
  <2>3. QED BY <2>2, LenProperties
<1>3. \A i \in 1..Len(sub) : sub[i] \in T BY <1>2, LitsOfIs
<1> HIDE DEF sub
<1>4. \A i \in 1..Len(sub) : Len(sub) - i + 1 \in 1..Len(sub) BY <1>2
<1>5. [i \in 1..Len(sub) |-> sub[(Len(sub) - i) + 1]] \in [1..Len(sub) -> T] BY <1>3, <1>4
<1>6. Reverse(sub) = [i \in 1..Len(sub) |-> sub[(Len(sub) - i) + 1]] BY DEF Reverse
<1>7. Reverse(sub) \in Seq(T) BY <1>2, <1>5, <1>6
<1>8. QED BY <1>7 DEF sub, n

LEMMA BumpChbKeeps ==
  ASSUME NEW d \in Bundles, NEW V, HeapIs(d.heaps[Chb], V, d.heaps[Chb].score),
         NEW scores \in [{d.asg.trail[i] : i \in BumpedChb(d.asg)} -> 0..MaxChb],
         NEW e, e = BumpChb(d, scores)
  PROVE  /\ e \in Bundles /\ e.asg = d.asg /\ e.active = d.active /\ e.queue = d.queue
         /\ e.heaps[Vsids] = d.heaps[Vsids] /\ HeapIs(e.heaps[Chb], V, e.heaps[Chb].score)
<1> DEFINE s == d.asg
           n == Len(s.trail)
           B == BumpedChb(s)
           S == {s.trail[i] : i \in B}
           first == n - Cardinality(B) + 1
           bumped == Reverse(SubSeq(s.trail, first, n))
           h == d.heaps[Chb]
           g == FoldLeft(LAMBDA x, v : UpdateHeap(x, v, scores[v]), h, bumped)
           w == [d EXCEPT !.heaps = [@ EXCEPT ![Chb] = g]]
<1>1. /\ d.heaps \in [{Vsids, Chb} -> Heaps] /\ Vsids # Chb /\ MaxChb \in Nat
      /\ s.trail \in Seq(Var)
  BY DecideAssumption DEF Bundles, Trails
<1>2. n \in Nat /\ DOMAIN s.trail = 1..n /\ \A i \in 1..n : s.trail[i] \in Var BY <1>1, LitsOfIs
<1>3. B \in SUBSET (1..n) /\ \A i \in B : \A j \in i..n : j \in B
  <2>1. B = {i \in 1..n : /\ LevelOf(s, Last(s.trail)) = Level(s)
                          /\ \A j \in i + 1 .. n : LevelOf(s, s.trail[j]) = Level(s)}
    BY <1>2 DEF BumpedChb
  <2>2. ASSUME NEW i \in B, NEW j \in i..n PROVE j \in B
    <3>1. j \in 1..n /\ \A k \in j + 1 .. n : k \in i + 1 .. n BY <1>2, <2>1
    <3>2. QED BY <2>1, <3>1
  <2>3. QED BY <2>1, <2>2
<1>4. e = w
  <2>1. e = [d EXCEPT !.heaps[Chb] = FoldLeft(LAMBDA x, v : UpdateHeap(x, v, scores[v]), @, bumped)]
    BY DEF BumpChb
  <2>2. QED BY <1>1, <2>1 DEF Bundles
<1> HIDE DEF w, B
<1>5. first \in 1..(n + 1) /\ \A i \in first..n : i \in B BY <1>2, <1>3, SuffixIs
<1>6. S \in SUBSET Var BY <1>2, <1>3
<1>7. bumped \in Seq(S)
  <2>1. \A i \in first..n : s.trail[i] \in S BY <1>5
  <2>2. PICK tr \in Seq(Var) : tr = s.trail BY <1>1
  <2> HIDE DEF S, first
  <2>3. first \in 1..(Len(tr) + 1) /\ \A i \in first..Len(tr) : tr[i] \in S BY <1>5, <2>1, <2>2
  <2>4. Reverse(SubSeq(tr, first, Len(tr))) \in Seq(S) BY ONLY <2>3, tr \in Seq(Var), ReverseIs
  <2>5. QED BY <2>2, <2>4
<1>8. scores \in [S -> Nat] BY <1>1 DEF B
<1> HIDE DEF S, bumped
<1>9. HeapIs(g, V, g.score)
  <2>1. g = BumpedTo!Folded(scores, h, bumped)
    BY DEF FoldLeft, MapThenFoldSet, Max, BumpedTo!Folded
  <2> HIDE DEF g, h
  <2>2. HeapIs(h, V, h.score) BY DEF h
  <2>3. QED BY ONLY <1>6, <1>7, <1>8, <2>1, <2>2, BumpedToKeeps
<1> HIDE DEF g
<1>10. g \in Heaps BY <1>9, HeapFacts
<1>11. /\ w \in Bundles /\ w.asg = d.asg /\ w.active = d.active /\ w.queue = d.queue
       /\ w.heaps[Chb] = g /\ \A y \in {Vsids, Chb} : y # Chb => w.heaps[y] = d.heaps[y]
  <2> DEFINE hs == [d.heaps EXCEPT ![Chb] = g]
  <2>1. w = [d EXCEPT !.heaps = hs] BY DEF w, Bundles
  <2>2. hs \in [{Vsids, Chb} -> Heaps] BY <1>1, <1>10
  <2>3. hs[Chb] = g /\ \A y \in {Vsids, Chb} : y # Chb => hs[y] = d.heaps[y] BY <1>1
  <2> HIDE DEF hs
  <2>4. /\ w \in Bundles /\ w.asg = d.asg /\ w.active = d.active /\ w.queue = d.queue
        /\ w.heaps = hs
    BY ONLY <2>1, <2>2, d \in Bundles DEF Bundles
  <2>5. QED BY <2>3, <2>4
<1>12. QED BY <1>1, <1>4, <1>9, <1>11

-----------------------------------------------------------------------------
(* The bundle that the handlers change.                                    *)

LEMMA UsedIs ==
  ASSUME Typed
  PROVE  Used \subseteq {Vsids, Chb} /\ heuristic \in Used /\ Vsids \in Used
BY DEF Typed, Used

LEMMA HeapInvIs ==
  ASSUME NEW h, NEW A, HeapInv(h, A)
  PROVE  HeapIs(h, LitsOf(h.stack), h.score) /\ LitsOf(h.stack) \subseteq A
BY DEF HeapInv, HeapIs, Stacked

LEMMA HeapInvFrom ==
  ASSUME NEW h, NEW V, NEW sc, HeapIs(h, V, sc), NEW A, V \subseteq A
  PROVE  HeapInv(h, A) /\ LitsOf(h.stack) = V /\ h.score = sc
BY DEF HeapInv, HeapIs, Stacked

LEMMA BundleTypes ==
  ASSUME NEW d, Full(d)
  PROVE  /\ d \in Bundles /\ d.asg \in Trails /\ d.asg.true \subseteq Var /\ d.active \subseteq Var
         /\ d.asg.trail \in Seq(Var) /\ d.asg.level \in [Var -> Nat] /\ Level(d.asg) \in Nat
         /\ d.queue \in Queues /\ d.heaps \in [{Vsids, Chb} -> Heaps]
         /\ FreeOf(d) \subseteq d.active
         /\ \A v \in Var : IsFree(d.asg, v) <=> v \notin d.asg.true
         /\ \A v \in d.active : IsFree(d.asg, v) <=> v \in FreeOf(d)
<1>1. /\ d \in Bundles /\ d.asg \in Trails /\ d.asg.true \subseteq Var /\ d.active \subseteq Var
      /\ d.asg.trail \in Seq(Var) /\ d.asg.level \in [Var -> Nat]
      /\ d.queue \in Queues /\ d.heaps \in [{Vsids, Chb} -> Heaps] /\ d.asg.frames \in Seq(Nat)
  BY DEF Full, Sound, Bundles, Trails
<1>2. Level(d.asg) \in Nat BY <1>1, LenProperties DEF Level
<1>3. FreeOf(d) \subseteq d.active BY DEF FreeOf
<1>4. \A v \in Var : IsFree(d.asg, v) <=> v \notin d.asg.true BY <1>1, FreeIs
<1>5. \A v \in d.active : IsFree(d.asg, v) <=> v \in FreeOf(d) BY <1>1, <1>4 DEF FreeOf
<1>6. QED BY <1>1, <1>2, <1>3, <1>4, <1>5

LEMMA OnHeapsIs ==
  ASSUME Typed, NEW d \in Bundles, NEW changed, \A h \in Used : changed[h] \in Heaps,
         NEW e, e = OnHeaps(d, changed)
  PROVE  /\ e \in Bundles /\ e.asg = d.asg /\ e.active = d.active /\ e.queue = d.queue
         /\ \A h \in Used : e.heaps[h] = changed[h]
<1> DEFINE hs == [h \in {Vsids, Chb} |-> IF h \in Used THEN changed[h] ELSE d.heaps[h]]
<1>1. d.heaps \in [{Vsids, Chb} -> Heaps] BY DEF Bundles
<1>3. e = [d EXCEPT !.heaps = hs] BY DEF OnHeaps, Bundles
<1>4. hs \in [{Vsids, Chb} -> Heaps] BY <1>1
<1>5. \A h \in Used : hs[h] = changed[h] BY UsedIs
<1> HIDE DEF hs
<1> HIDE DEF hs
<1>6. /\ e \in Bundles /\ e.asg = d.asg /\ e.active = d.active /\ e.queue = d.queue
      /\ e.heaps = hs
  BY ONLY <1>3, <1>4, d \in Bundles DEF Bundles
<1>7. QED BY <1>5, <1>6

LEMMA ActivatedKeeps ==
  ASSUME Typed, NEW d, Full(d), NEW v \in Var, v \notin d.active, v \notin d.asg.true,
         NEW e, e = Activated(d, v)
  PROVE  Full(e) /\ e.asg = d.asg /\ e.active = d.active \cup {v}
<1> DEFINE q == Enqueue(d.queue, d.asg, v)
           A == d.active \cup {v}
           w == [d EXCEPT !.active = A, !.queue = q]
           changed == [h \in Used |-> PushHeap(d.heaps[h], v)]
<1>1. /\ d \in Bundles /\ d.active \subseteq Var /\ d.asg.true \subseteq Var /\ IsFree(d.asg, v)
      /\ TrailInv(d.asg) /\ QueueInv(d.queue, d.active) /\ d.queue \in Queues
  BY BundleTypes DEF Full, Sound
<1>2. QueueInv(q, A) /\ \A u \in A : q.stamps[u] <= q.search.stamp
  <2>1. Holds(d.queue, Order(d.queue), d.active) BY <1>1 DEF QueueInv
  <2>2. QED BY <1>1, <2>1, EnqueueFree
<1>3. e = OnHeaps(w, changed)
  <2>1. w = [d EXCEPT !.active = @ \cup {v}, !.queue = Enqueue(@, d.asg, v)] BY <1>1 DEF Bundles
  <2>2. QED BY <2>1 DEF Activated
<1> HIDE DEF q
<1>4. /\ w \in Bundles /\ w.asg = d.asg /\ w.active = A /\ w.queue = q /\ w.heaps = d.heaps
  <2>1. A \in SUBSET Var /\ q \in Queues BY <1>1, <1>2 DEF QueueInv
  <2>2. w = [d EXCEPT !.active = A, !.queue = q] OBVIOUS
  <2> HIDE DEF A, w
  <2>3. QED BY ONLY <2>1, <2>2, <1>1 DEF Bundles
<1> HIDE DEF w
<1>5. ASSUME NEW h \in Used
      PROVE  /\ changed[h] \in Heaps /\ HeapInv(changed[h], A)
             /\ LitsOf(changed[h].stack) = LitsOf(d.heaps[h].stack) \cup {v}
  <2>1. HeapInv(d.heaps[h], d.active) BY DEF Full, Sound
  <2>2. PICK V, sc : HeapIs(d.heaps[h], V, sc) /\ V \subseteq d.active /\ V = LitsOf(d.heaps[h].stack)
    BY <2>1, HeapInvIs
  <2>3. v \notin V BY <2>2
  <2>4. HeapIs(changed[h], V \cup {v}, sc) BY <2>2, <2>3, PushHeapKeeps
  <2>5. V \cup {v} \subseteq A BY <2>2
  <2> HIDE DEF changed, A
  <2>6. HeapInv(changed[h], A) /\ LitsOf(changed[h].stack) = V \cup {v} BY <2>4, <2>5, HeapInvFrom
  <2>7. QED BY <2>2, <2>6 DEF HeapInv
<1> HIDE DEF changed
<1>6. /\ e \in Bundles /\ e.asg = d.asg /\ e.active = A /\ e.queue = q
      /\ \A h \in Used : e.heaps[h] = changed[h]
  BY <1>3, <1>4, <1>5, OnHeapsIs
<1>7. Sound(e) BY <1>1, <1>2, <1>5, <1>6 DEF Sound
<1>8. Separate(e) BY <1>6 DEF Separate, Full
<1>9. FreeOf(e) \subseteq A /\ FreeOf(e) \subseteq FreeOf(d) \cup {v} BY <1>6 DEF FreeOf
<1>10. Offers(e, FreeOf(e))
  <2>1. CASE stable
    <3>1. FreeOf(d) \subseteq LitsOf(d.heaps[heuristic].stack) BY <2>1 DEF Full, Offers
    <3>2. e.heaps[heuristic] = changed[heuristic] /\ heuristic \in Used BY <1>6, UsedIs
    <3>3. QED BY <1>5, <1>9, <2>1, <3>1, <3>2 DEF Offers
  <2>2. CASE ~ stable BY <1>2, <1>6, <1>9, <2>2 DEF Offers, Reaches
  <2>3. QED BY <2>1, <2>2
<1>11. QED BY <1>6, <1>7, <1>8, <1>10 DEF Full

LEMMA DeactivatedKeeps ==
  ASSUME Typed, NEW d, Sound(d), NEW v \in d.active, NEW F \in SUBSET d.active, Offers(d, F),
         NEW e, e = Deactivated(d, v)
  PROVE  Sound(e) /\ e.asg = d.asg /\ e.active = d.active \ {v} /\ Offers(e, F \ {v})
<1> DEFINE q == Dequeue(d.queue, v)
           A == d.active \ {v}
           w == [d EXCEPT !.active = A, !.queue = q]
           changed == [h \in Used |-> IF Contained(d.heaps[h], v) THEN PopHeap(d.heaps[h], v)
                                      ELSE d.heaps[h]]
<1>1. d \in Bundles /\ TrailInv(d.asg) /\ QueueInv(d.queue, d.active) /\ d.active \in SUBSET Var
  BY DEF Sound, Bundles
<1>2. QueueInv(q, A) /\ \A X \in SUBSET d.active : Reaches(d.queue, X) => Reaches(q, X \ {v})
  BY <1>1, DequeueKeeps
<1>3. e = OnHeaps(w, changed)
  <2>1. w = [d EXCEPT !.active = @ \ {v}, !.queue = Dequeue(@, v)] BY <1>1 DEF Bundles
  <2>2. QED BY <2>1 DEF Deactivated
<1> HIDE DEF q
<1>4. w \in Bundles /\ w.asg = d.asg /\ w.active = A /\ w.queue = q /\ w.heaps = d.heaps
  <2>1. A \in SUBSET Var /\ q \in Queues BY <1>1, <1>2 DEF QueueInv
  <2>2. w = [d EXCEPT !.active = A, !.queue = q] OBVIOUS
  <2> HIDE DEF A, w
  <2>3. QED BY ONLY <2>1, <2>2, <1>1 DEF Bundles
<1> HIDE DEF w
<1>5. ASSUME NEW h \in Used
      PROVE  /\ changed[h] \in Heaps /\ HeapInv(changed[h], A)
             /\ LitsOf(changed[h].stack) = LitsOf(d.heaps[h].stack) \ {v}
  <2> DEFINE g == d.heaps[h]
  <2>1. HeapInv(g, d.active) BY DEF Sound
  <2>2. PICK V, sc : HeapIs(g, V, sc) /\ V \subseteq d.active /\ V = LitsOf(g.stack)
    BY <2>1, HeapInvIs
  <2>3. changed[h] = IF Contained(g, v) THEN PopHeap(g, v) ELSE g OBVIOUS
  <2> HIDE DEF changed, g
  <2>4. HeapIs(changed[h], V \ {v}, sc)
    <3>1. CASE v \in V
      <4>1. changed[h] = PopHeap(g, v) BY <2>2, <2>3, <3>1, ContainedIs
      <4>2. QED BY <2>2, <3>1, <4>1, PopHeapKeeps
    <3>2. CASE v \notin V
      <4>1. changed[h] = g BY <2>2, <2>3, <3>2, ContainedIs
      <4>2. V \ {v} = V BY <3>2
      <4>3. QED BY <2>2, <4>1, <4>2
    <3>3. QED BY <3>1, <3>2
  <2>5. V \ {v} \subseteq A BY <2>2
  <2> HIDE DEF A
  <2>6. HeapInv(changed[h], A) /\ LitsOf(changed[h].stack) = V \ {v} BY <2>4, <2>5, HeapInvFrom
  <2>7. QED BY <2>2, <2>6 DEF HeapInv, g
<1> HIDE DEF changed
<1>6. /\ e \in Bundles /\ e.asg = d.asg /\ e.active = A /\ e.queue = q
      /\ \A h \in Used : e.heaps[h] = changed[h]
  BY <1>3, <1>4, <1>5, OnHeapsIs
<1>7. Sound(e) BY <1>1, <1>2, <1>5, <1>6 DEF Sound
<1>8. Offers(e, F \ {v})
  <2>1. CASE stable
    <3>1. F \subseteq LitsOf(d.heaps[heuristic].stack) BY <2>1 DEF Offers
    <3>2. e.heaps[heuristic] = changed[heuristic] /\ heuristic \in Used BY <1>6, UsedIs
    <3>3. QED BY <1>5, <2>1, <3>1, <3>2 DEF Offers
  <2>2. CASE ~ stable BY <1>2, <1>6, <2>2 DEF Offers
  <2>3. QED BY <2>1, <2>2
<1>9. QED BY <1>6, <1>7, <1>8

\* What the queue and the heaps offer goes on being offered.
LEMMA OffersLess ==
  ASSUME NEW d, NEW F, Offers(d, F), NEW X \in SUBSET F
  PROVE  Offers(d, X)
BY DEF Offers, Reaches

LEMMA SameOffers ==
  ASSUME Typed, NEW d, NEW F, Offers(d, F), NEW e, e.queue = d.queue, e.heaps = d.heaps
  PROVE  Offers(e, F)
BY DEF Offers

\* A new assignment leaves the rest as it is.
LEMMA TrailKeeps ==
  ASSUME Typed, NEW d, Full(d), NEW s, TrailInv(s), NEW e, e = WithTrail(d, s)
  PROVE  /\ Sound(e) /\ e.asg = s /\ e.active = d.active /\ e.queue = d.queue /\ e.heaps = d.heaps
         /\ e \in Bundles
<1>1. d \in Bundles /\ s \in Trails BY DEF Full, Sound, TrailInv
<1>2. /\ e \in Bundles /\ e.asg = s /\ e.active = d.active /\ e.queue = d.queue
      /\ e.heaps = d.heaps
  BY ONLY <1>1, e = WithTrail(d, s) DEF Bundles, WithTrail
<1>3. QED BY <1>2 DEF Full, Sound

LEMMA AssignedKeeps ==
  ASSUME Typed, NEW d, Full(d), NEW v \in FreeOf(d), NEW l \in 0..Level(d.asg),
         NEW a, a.var = v, a.level = l, NEW e, e = Assigned(d, a)
  PROVE  Full(e) /\ e.asg.trail = Append(d.asg.trail, v) /\ e.asg.frames = d.asg.frames
<1> DEFINE s == Assign(d.asg, v, l, NoReason)
           w == [d EXCEPT !.asg = s]
<1>1. /\ d \in Bundles /\ TrailInv(d.asg) /\ v \in d.active /\ v \in Var /\ v \notin d.asg.true
      /\ Level(d.asg) \in Nat /\ d.asg.level \in [Var -> Nat] /\ d.asg.true \subseteq Var
      /\ FreeOf(d) \subseteq d.active
  BY BundleTypes DEF Full, Sound, FreeOf
<1>2. /\ TrailInv(s) /\ s.true = d.asg.true \cup {v} /\ s.frames = d.asg.frames
      /\ s.level = [d.asg.level EXCEPT ![v] = l]
  <2>1. NoReason \in Reasons BY DEF Reasons
  <2>2. QED BY <1>1, <2>1, AssignKeeps
<1>3. s.trail = Append(d.asg.trail, v)
  <2>1. d.asg \in Trails BY <1>1 DEF TrailInv
  <2>2. QED BY <2>1 DEF Assign, Trails
<1>4. e = IF l = 0 THEN Deactivated(w, v) ELSE w
  <2>1. w = [d EXCEPT !.asg = Assign(@, a.var, a.level, NoReason)] BY <1>1 DEF Bundles
  <2> HIDE DEF w
  <2>2. QED BY <2>1 DEF Assigned
<1>5. w = WithTrail(d, s) BY DEF WithTrail
<1> HIDE DEF s, w
<1>6. Sound(w) /\ w.asg = s /\ w.active = d.active /\ w.queue = d.queue /\ w.heaps = d.heaps
  BY <1>2, <1>5, TrailKeeps
<1>7. Offers(w, FreeOf(d)) BY <1>6, SameOffers DEF Full
<1>8. \A u \in d.asg.true : s.level[u] = d.asg.level[u] BY <1>1, <1>2
<1>9. s.level[v] = l BY <1>1, <1>2
<1>10. CASE l = 0
  <2>1. Sound(e) /\ e.asg = s /\ e.active = d.active \ {v} /\ Offers(e, FreeOf(d) \ {v})
    BY <1>1, <1>4, <1>6, <1>7, <1>10, DeactivatedKeeps
  <2>2. FreeOf(e) \subseteq FreeOf(d) \ {v} BY <1>2, <2>1 DEF FreeOf
  <2>3. Separate(e)
    <3>1. \A u \in d.asg.true : u \in d.active <=> d.asg.level[u] > 0 BY DEF Full, Separate
    <3>2. ASSUME NEW u \in s.true PROVE u \in d.active \ {v} <=> s.level[u] > 0
      <4>1. CASE u = v BY <1>9, <1>10, <4>1
      <4>2. CASE u # v BY <1>2, <1>8, <3>1, <4>2
      <4>3. QED BY <4>1, <4>2
    <3>3. QED BY <2>1, <3>2 DEF Separate
  <2>4. Offers(e, FreeOf(e)) BY <2>1, <2>2, OffersLess
  <2>5. QED BY <1>2, <1>3, <2>1, <2>3, <2>4 DEF Full
<1>11. CASE l # 0
  <2>1. e = w BY <1>4, <1>11
  <2>2. FreeOf(e) \subseteq FreeOf(d) BY <1>2, <1>6, <2>1 DEF FreeOf
  <2>3. Separate(e)
    <3>1. \A u \in d.asg.true : u \in d.active <=> d.asg.level[u] > 0 BY DEF Full, Separate
    <3>2. l > 0 BY <1>1, <1>11
    <3>3. ASSUME NEW u \in s.true PROVE u \in d.active <=> s.level[u] > 0
      <4>1. CASE u = v BY <1>1, <1>9, <3>2, <4>1
      <4>2. CASE u # v BY <1>2, <1>8, <3>1, <4>2
      <4>3. QED BY <4>1, <4>2
    <3>4. QED BY <1>6, <2>1, <3>3 DEF Separate
  <2>4. Offers(e, FreeOf(e)) BY <1>7, <2>1, <2>2, OffersLess
  <2>5. QED BY <1>2, <1>3, <1>6, <2>1, <2>3, <2>4 DEF Full
<1>12. QED BY <1>10, <1>11

\* An assignment that differs in what it does not say of the variables.
LEMMA FlushedKeeps ==
  ASSUME Typed, NEW d, Full(d), Level(d.asg) = 0, NEW e, e = [d EXCEPT !.asg = FlushTrail(@)]
  PROVE  Full(e)
<1> DEFINE s == FlushTrail(d.asg)
<1>1. d \in Bundles /\ TrailInv(d.asg) BY DEF Full, Sound
<1>2. TrailInv(s) /\ s.true = d.asg.true /\ s.level = d.asg.level BY <1>1, FlushKeeps
<1>3. e = WithTrail(d, s) BY <1>1 DEF Bundles, WithTrail
<1> HIDE DEF s
<1>4. Sound(e) /\ e.asg = s /\ e.active = d.active /\ e.queue = d.queue /\ e.heaps = d.heaps
  BY ONLY Typed, Full(d), <1>2, <1>3, TrailKeeps
<1>5. FreeOf(e) = FreeOf(d) BY <1>2, <1>4 DEF FreeOf
<1>6. Offers(e, FreeOf(e)) BY <1>4, <1>5, SameOffers DEF Full
<1>7. Separate(e) BY <1>2, <1>4 DEF Separate, Full
<1>8. QED BY <1>4, <1>6, <1>7 DEF Full

LEMMA DecidedKeeps ==
  ASSUME Typed, NEW d, Full(d), NEW v \in FreeOf(d), NEW e, e = [d EXCEPT !.asg = Decide(@, v)]
  PROVE  Full(e)
<1> DEFINE s == Decide(d.asg, v)
<1>1. /\ d \in Bundles /\ TrailInv(d.asg) /\ v \in Var /\ v \in d.active /\ v \notin d.asg.true
      /\ Level(d.asg) \in Nat /\ d.asg.level \in [Var -> Nat] /\ d.asg.true \subseteq Var
  BY BundleTypes DEF Full, Sound, FreeOf
<1>2. /\ TrailInv(s) /\ s.true = d.asg.true \cup {v}
      /\ s.level = [d.asg.level EXCEPT ![v] = Level(d.asg) + 1]
  BY <1>1, DecideKeeps
<1>3. e = WithTrail(d, s) BY <1>1 DEF Bundles, WithTrail
<1> HIDE DEF s
<1>4. Sound(e) /\ e.asg = s /\ e.active = d.active /\ e.queue = d.queue /\ e.heaps = d.heaps
  BY ONLY Typed, Full(d), <1>2, <1>3, TrailKeeps
<1>5. FreeOf(e) \subseteq FreeOf(d) BY <1>2, <1>4 DEF FreeOf
<1>6. Offers(e, FreeOf(e))
  <2>1. Offers(e, FreeOf(d)) BY <1>4, SameOffers DEF Full
  <2>2. QED BY <1>5, <2>1, OffersLess
<1>7. Separate(e)
  <2>1. \A u \in d.asg.true : u \in d.active <=> d.asg.level[u] > 0 BY DEF Full, Separate
  <2>2. ASSUME NEW u \in s.true PROVE u \in d.active <=> s.level[u] > 0
    <3>1. CASE u = v BY <1>1, <1>2, <3>1
    <3>2. CASE u # v BY <1>1, <1>2, <2>1, <3>2
    <3>3. QED BY <3>1, <3>2
  <2>3. QED BY <1>4, <2>2 DEF Separate
<1>8. QED BY <1>4, <1>6, <1>7 DEF Full

\* One heap or the queue changes.
LEMMA HeapSet ==
  ASSUME Typed, NEW d, Sound(d), NEW x \in {Vsids, Chb}, NEW g, HeapInv(g, d.active),
         NEW e, e = WithHeap(d, x, g)
  PROVE  /\ Sound(e) /\ e.asg = d.asg /\ e.active = d.active /\ e.queue = d.queue
         /\ e.heaps[x] = g
         /\ \A y \in {Vsids, Chb} : y # x => e.heaps[y] = d.heaps[y]
<1> DEFINE hs == [d.heaps EXCEPT ![x] = g]
<1>1. d \in Bundles /\ g \in Heaps /\ d.heaps \in [{Vsids, Chb} -> Heaps]
  BY DEF Sound, HeapInv, Bundles
<1>2. hs \in [{Vsids, Chb} -> Heaps] BY <1>1
<1>3. hs[x] = g /\ \A y \in {Vsids, Chb} : y # x => hs[y] = d.heaps[y] BY <1>1
<1>4. e = [d EXCEPT !.heaps = hs] BY <1>1 DEF WithHeap, Bundles
<1> HIDE DEF hs
<1>5. /\ e \in Bundles /\ e.asg = d.asg /\ e.active = d.active /\ e.queue = d.queue
      /\ e.heaps = hs
  BY ONLY <1>2, <1>4, <1>1 DEF Bundles
<1>6. \A h \in Used : HeapInv(e.heaps[h], e.active)
  <2>1. \A h \in Used : HeapInv(d.heaps[h], d.active) BY DEF Sound
  <2>2. QED BY <1>3, <1>5, <2>1, UsedIs
<1>7. QED BY <1>3, <1>5, <1>6 DEF Sound

LEMMA QueueSet ==
  ASSUME Typed, NEW d, Sound(d), NEW q, QueueInv(q, d.active), NEW e, e = WithQueue(d, q)
  PROVE  Sound(e) /\ e.asg = d.asg /\ e.active = d.active /\ e.queue = q /\ e.heaps = d.heaps
<1>1. d \in Bundles /\ q \in Queues BY DEF Sound, QueueInv
<1>2. e \in Bundles /\ e.asg = d.asg /\ e.active = d.active /\ e.queue = q /\ e.heaps = d.heaps
  BY ONLY <1>1, e = WithQueue(d, q) DEF Bundles, WithQueue
<1>3. QED BY <1>2 DEF Sound

\* kissat_next_decision_variable.
LEMMA NextDecisionIs ==
  ASSUME Typed, NEW d, Full(d), FreeOf(d) # {}, NEW x, x = NextDecision(d)
  PROVE  /\ x.idx \in FreeOf(d)
         /\ Full(x.after) /\ x.after.asg = d.asg /\ x.after.active = d.active
         /\ stable => \A v \in FreeOf(d) : d.heaps[heuristic].score[v] <= d.heaps[heuristic].score[x.idx]
         /\ ~ stable => \A v \in FreeOf(d) : d.queue.stamps[v] <= d.queue.stamps[x.idx]
<1>1. /\ d \in Bundles /\ Sound(d) /\ QueueInv(d.queue, d.active) /\ d.active \subseteq Var
      /\ d.asg.true \subseteq Var /\ FreeOf(d) \subseteq d.active
      /\ Offers(d, FreeOf(d)) /\ Separate(d)
  BY BundleTypes DEF Full, Sound
<1>2. CASE stable
  <2> DEFINE g == d.heaps[heuristic]
             heap == PopAssigned(g, d.asg)
             e == [d EXCEPT !.heaps[heuristic] = heap]
  <2>1. /\ x.idx = IF heap.stack = <<>> THEN DISCONNECT ELSE heap.stack[1]
        /\ x.after = e
    BY <1>2 DEF NextDecision
  <2>2. HeapInv(g, d.active) BY <1>1, UsedIs DEF Sound
  <2> DEFINE V == LitsOf(g.stack)  W == LitsOf(heap.stack)
  <2>3. HeapIs(g, V, g.score) /\ V \subseteq d.active BY <2>2, HeapInvIs
  <2>4. /\ HeapIs(heap, W, g.score) /\ W \subseteq V
        /\ \A v \in V : v \notin d.asg.true => v \in W
        /\ Len(heap.stack) # 0 => heap.stack[1] \notin d.asg.true
    <3> HIDE DEF V, g
    <3>1. QED BY <1>1, <2>3, PopAssignedKeeps
  <2>5. FreeOf(d) \subseteq V BY <1>1, <1>2 DEF Offers
  <2>6. e = [d EXCEPT !.heaps[heuristic] = heap] OBVIOUS
  <2> HIDE DEF heap, V, W, e
  <2>7. FreeOf(d) \subseteq W BY <2>4, <2>5 DEF FreeOf
  <2>8. Len(heap.stack) # 0
    <3>1. PICK v \in W : TRUE BY <2>7
    <3>2. PICK k \in 1..Len(heap.stack) : heap.stack[k] = v BY <2>4, <3>1, HeapFacts
    <3>3. Len(heap.stack) \in Nat BY <2>4, HeapFacts
    <3>4. QED BY <3>2, <3>3
  <2>9. heap.stack[1] \in W /\ \A v \in W : g.score[v] <= g.score[heap.stack[1]]
    <3> HIDE DEF g
    <3>1. QED BY <2>4, <2>8, TopIsBest
  <2>10. x.idx = heap.stack[1] BY <2>1, <2>8
  <2>11. x.idx \in FreeOf(d) BY <2>3, <2>4, <2>8, <2>9, <2>10 DEF FreeOf
  <2>12. HeapInv(heap, d.active) BY <2>3, <2>4, HeapInvFrom
  <2>13. /\ Sound(e) /\ e.asg = d.asg /\ e.active = d.active /\ e.queue = d.queue
         /\ e.heaps[heuristic] = heap
    <3>1. heuristic \in {Vsids, Chb} BY UsedIs
    <3>2. PICK u \in {Vsids, Chb} : u = heuristic BY <3>1
    <3>3. e = WithHeap(d, u, heap) BY <2>6, <3>2 DEF WithHeap
    <3>4. Sound(e) /\ e.asg = d.asg /\ e.active = d.active /\ e.queue = d.queue /\ e.heaps[u] = heap
      BY <1>1, <2>12, <3>3, HeapSet
    <3>5. QED BY <3>2, <3>4
  <2>14. FreeOf(e) = FreeOf(d) BY <2>13 DEF FreeOf
  <2>15. Offers(e, FreeOf(e)) BY <1>2, <2>7, <2>13, <2>14 DEF Offers, W
  <2>16. Separate(e) BY <1>1, <2>13 DEF Separate
  <2>17. Full(e) BY <2>13, <2>15, <2>16 DEF Full
  <2>18. QED BY <1>2, <2>1, <2>7, <2>9, <2>10, <2>11, <2>13, <2>17
<1>3. CASE ~ stable
  <2> DEFINE q == d.queue
             idx == LastEnqueued(q, d.asg, q.search.idx)
             r == UpdateQueue(q, idx)
             e == [d EXCEPT !.queue = r]
  <2>1. x.idx = idx /\ x.after = IF idx = q.search.idx THEN d ELSE e
    <3>1. x.after = IF idx = q.search.idx THEN d ELSE [d EXCEPT !.queue = UpdateQueue(@, idx)]
      BY <1>3 DEF NextDecision
    <3>2. [d EXCEPT !.queue = UpdateQueue(@, idx)] = e BY <1>1 DEF Bundles
    <3>3. x.idx = idx BY <1>3 DEF NextDecision
    <3> HIDE DEF idx, e
    <3>4. QED BY <3>1, <3>2, <3>3
  <2>2. Reaches(q, FreeOf(d)) BY <1>1, <1>3 DEF Offers
  <2>3. idx \in FreeOf(d) /\ \A v \in FreeOf(d) : q.stamps[v] <= q.stamps[idx]
    <3>1. FreeOf(d) = {v \in d.active : v \notin d.asg.true} BY DEF FreeOf
    <3>2. QED BY <1>1, <2>2, <3>1, LastEnqueuedIs
  <2> HIDE DEF idx
  <2>4. QueueInv(r, d.active) /\ r.stamps = q.stamps /\ r.search.stamp = q.stamps[idx]
    BY <1>1, <2>3, UpdateKeeps
  <2>5. e = WithQueue(d, r) BY DEF WithQueue
  <2> HIDE DEF r, e
  <2>6. Sound(e) /\ e.asg = d.asg /\ e.active = d.active /\ e.queue = r /\ e.heaps = d.heaps
    BY <1>1, <2>4, <2>5, QueueSet
  <2>7. FreeOf(e) = FreeOf(d) BY <2>6 DEF FreeOf
  <2>8. Offers(e, FreeOf(e)) BY <1>3, <2>3, <2>4, <2>6, <2>7 DEF Offers, Reaches
  <2>9. Separate(e) BY <1>1, <2>6 DEF Separate
  <2>10. Full(e) BY <2>6, <2>8, <2>9 DEF Full
  <2>11. QED BY <1>3, <2>1, <2>3, <2>6, <2>10
<1>4. QED BY <1>2, <1>3 DEF Typed

\* kissat_backtrack.
LEMMA BacktrackedKeeps ==
  ASSUME Typed, NEW d, Full(d), NEW l \in 0..Level(d.asg), NEW e, e = Backtracked(d, l)
  PROVE  /\ Full(e) /\ Level(e.asg) = l /\ e.active = d.active
         /\ e.asg.true = {v \in d.asg.true : d.asg.level[v] <= l}
<1> DEFINE s == Undone(d.asg, l)
           b == [d EXCEPT !.asg = s]
           tr == d.asg.trail
           new == Freed(tr, s)
<1>1. /\ d \in Bundles /\ TrailInv(d.asg) /\ QueueInv(d.queue, d.active) /\ d.active \subseteq Var
      /\ d.asg.true \subseteq Var /\ tr \in Seq(Var) /\ d.asg.level \in [Var -> Nat]
      /\ FreeOf(d) \subseteq d.active /\ Offers(d, FreeOf(d)) /\ Separate(d)
  BY BundleTypes DEF Full, Sound
<1>2. /\ TrailInv(s) /\ Level(s) = l /\ s.true = {v \in d.asg.true : d.asg.level[v] <= l}
      /\ \A v \in s.true : s.level[v] = d.asg.level[v]
  <2>1. PICK u, t : u = d.asg /\ t = s OBVIOUS
  <2>2. TrailInv(u) /\ l \in 0..Level(u) /\ t = Undone(u, l) BY <1>1, <2>1
  <2> HIDE DEF s
  <2>3. /\ TrailInv(t) /\ Level(t) = l /\ t.true = {v \in u.true : u.level[v] <= l}
        /\ \A v \in t.true : t.level[v] = u.level[v]
    BY ONLY <2>2, BacktrackKeeps
  <2>4. QED BY <2>1, <2>3
<1>3. s.true \subseteq Var BY <1>1, <1>2
<1>4. new \subseteq d.active
  <2>1. ASSUME NEW v \in new PROVE v \in d.active
    <3>1. v \in d.asg.true /\ ~ (d.asg.level[v] <= l) BY <1>1, <1>2 DEF TrailInv, Freed
    <3>2. d.asg.level[v] \in Nat BY <1>1, <3>1
    <3>3. d.asg.level[v] > 0 BY <3>1, <3>2
    <3>4. QED BY <1>1, <3>1, <3>3 DEF Separate
  <2>2. QED BY <2>1
<1>5. \A v \in d.active : v \notin s.true => v \in FreeOf(d) \cup new
  <2>1. ASSUME NEW v \in d.active, v \notin s.true, v \in d.asg.true PROVE v \in LitsOf(tr)
    <3>1. d.asg.level[v] \in Nat /\ ~ (d.asg.level[v] <= l) BY <1>1, <1>2, <2>1
    <3>2. d.asg.level[v] > 0 BY <3>1
    <3>3. QED BY <1>1, <2>1, <3>2 DEF TrailInv
  <2>2. QED BY <2>1 DEF FreeOf, Freed
<1>6. b = WithTrail(d, s) BY DEF WithTrail
<1>7. CASE stable
  <2> DEFINE h == d.heaps[heuristic]
             g == FoldLeft(LAMBDA x, v : IF IsFree(s, v) THEN PushMissing(x, v) ELSE x, h, tr)
             V == LitsOf(h.stack)
  <2>1. e = [d EXCEPT !.asg = s,
                      !.heaps[heuristic] =
                        FoldLeft(LAMBDA x, v : IF IsFree(s, v) THEN PushMissing(x, v) ELSE x, @, tr)]
    BY <1>7 DEF Backtracked, Undone
  <2>2. HeapInv(h, d.active) /\ heuristic \in {Vsids, Chb} BY UsedIs DEF Full, Sound
  <2>3. HeapIs(h, V, h.score) /\ V \subseteq d.active BY <2>2, HeapInvIs
  <2>4. e = [b EXCEPT !.heaps[heuristic] = g] BY <1>1, <2>1, <2>2 DEF Bundles
  <2>5. HeapIs(g, V \cup new, h.score)
    <3>1. PICK t : t = s OBVIOUS
    <3>2. PICK seq \in Seq(Var) : seq = tr BY <1>1
    <3>3. PICK hp : hp = h OBVIOUS
    <3>4. g = PushedBack!Folded(s, h, tr)
      BY DEF FoldLeft, MapThenFoldSet, Max, PushedBack!Folded
    <3>5. t.true \subseteq Var BY <1>3, <3>1
    <3>6. HeapIs(hp, V, hp.score) BY <2>3, <3>3
    <3> HIDE DEF g, V
    <3>7. g = PushedBack!Folded(t, hp, seq) BY ONLY <3>1, <3>2, <3>3, <3>4
    <3>8. HeapIs(g, V \cup Freed(seq, t), hp.score)
      BY ONLY <3>5, <3>6, <3>7, seq \in Seq(Var), BackOnHeap
    <3>9. QED BY <3>1, <3>2, <3>3, <3>8
  <2> HIDE DEF g, s, b
  <2>6. Sound(b) /\ b.asg = s /\ b.active = d.active /\ b.queue = d.queue /\ b.heaps = d.heaps
    BY <1>2, <1>6, TrailKeeps
  <2>7. V \cup new \subseteq d.active BY <1>4, <2>3
  <2> HIDE DEF new, V
  <2>8. HeapInv(g, b.active) /\ LitsOf(g.stack) = V \cup new BY <2>5, <2>6, <2>7, HeapInvFrom
  <2>9. /\ Sound(e) /\ e.asg = b.asg /\ e.active = b.active /\ e.queue = b.queue
        /\ e.heaps[heuristic] = g
    <3>1. PICK u \in {Vsids, Chb} : u = heuristic BY <2>2
    <3>2. e = WithHeap(b, u, g) BY <2>4, <3>1 DEF WithHeap
    <3>3. Sound(e) /\ e.asg = b.asg /\ e.active = b.active /\ e.queue = b.queue /\ e.heaps[u] = g
      BY <2>6, <2>8, <3>2, HeapSet
    <3>4. QED BY <3>1, <3>3
  <2>10. FreeOf(e) \subseteq FreeOf(d) \cup new BY <1>5, <2>6, <2>9 DEF FreeOf
  <2>11. Offers(e, FreeOf(e))
    <3>1. FreeOf(d) \subseteq V BY <1>1, <1>7 DEF Offers, V
    <3>2. QED BY <1>7, <2>8, <2>9, <2>10, <3>1 DEF Offers
  <2>12. Separate(e) BY <1>1, <1>2, <2>6, <2>9 DEF Separate
  <2>13. QED BY <1>2, <2>6, <2>9, <2>11, <2>12 DEF Full
<1>8. CASE ~ stable
  <2> DEFINE q == FoldLeft(LAMBDA p, v : IF IsFree(s, v) /\ p.stamps[v] > p.search.stamp
                                         THEN UpdateQueue(p, v) ELSE p, d.queue, tr)
  <2>1. e = [d EXCEPT !.asg = s,
                      !.queue = FoldLeft(LAMBDA p, v : IF IsFree(s, v) /\ p.stamps[v] > p.search.stamp
                                                       THEN UpdateQueue(p, v) ELSE p, @, tr)]
    BY <1>8 DEF Backtracked, Undone
  <2>2. e = WithQueue(b, q) BY <1>1, <2>1 DEF Bundles, WithQueue
  <2>3. /\ QueueInv(q, d.active) /\ q.stamps = d.queue.stamps
        /\ \A F \in SUBSET d.active : Reaches(d.queue, F) => Reaches(q, F)
        /\ Reaches(q, new)
    <3>1. PICK t : t = s OBVIOUS
    <3>2. PICK seq \in Seq(Var) : seq = tr BY <1>1
    <3>3. PICK q0 : q0 = d.queue OBVIOUS
    <3>4. q = Back!Folded(s, d.queue, tr)
      BY DEF FoldLeft, MapThenFoldSet, Max, Back!Folded
    <3>5. /\ t.true \subseteq Var /\ QueueInv(q0, d.active)
          /\ \A v \in LitsOf(seq) : v \notin t.true => v \in d.active
      BY <1>1, <1>3, <1>4, <3>1, <3>2, <3>3 DEF Freed
    <3> HIDE DEF q
    <3>6. q = Back!Folded(t, q0, seq) BY ONLY <3>1, <3>2, <3>3, <3>4
    <3>7. /\ QueueInv(q, d.active) /\ q.stamps = q0.stamps
          /\ \A F \in SUBSET d.active : Reaches(q0, F) => Reaches(q, F)
          /\ Reaches(q, Freed(seq, t))
      BY ONLY <3>5, <3>6, seq \in Seq(Var), BackInQueue
    <3>8. QED BY <3>1, <3>2, <3>3, <3>7
  <2> HIDE DEF q, s, b
  <2>4. Sound(b) /\ b.asg = s /\ b.active = d.active /\ b.queue = d.queue /\ b.heaps = d.heaps
    BY <1>2, <1>6, TrailKeeps
  <2> HIDE DEF new
  <2>5. Sound(e) /\ e.asg = b.asg /\ e.active = b.active /\ e.queue = q
    BY <2>2, <2>3, <2>4, QueueSet
  <2>6. FreeOf(e) \subseteq FreeOf(d) \cup new BY <1>5, <2>4, <2>5 DEF FreeOf
  <2>7. Offers(e, FreeOf(e))
    <3>1. Reaches(q, FreeOf(d)) BY <1>1, <1>8, <2>3 DEF Offers
    <3>2. QED BY <1>8, <2>3, <2>5, <2>6, <3>1 DEF Offers, Reaches
  <2>8. Separate(e) BY <1>1, <1>2, <2>4, <2>5 DEF Separate
  <2>9. QED BY <1>2, <2>4, <2>5, <2>7, <2>8 DEF Full
<1>9. QED BY <1>7, <1>8 DEF Typed

-----------------------------------------------------------------------------
(* What a conflict bumps.                                                  *)
Moved == INSTANCE Induction WITH Op <- LAMBDA p, q, t :
           IF {v \in p[1] : p[2][v] = t} = {} THEN q
           ELSE MoveToFront(q, p[3], CHOOSE v \in {v \in p[1] : p[2][v] = t} : TRUE)

LEMMA MovedFold ==
  ASSUME NEW d, NEW an, NEW S, S = ToSet(an) \cap d.active
  PROVE  MoveAnalyzed(d, an)
           = [d EXCEPT !.queue = Moved!Folded(<<S, d.queue.stamps, d.asg>>, d.queue,
                                              [t \in 1..MaxStamp |-> t])]
BY DEF FoldLeft, MapThenFoldSet, Max, Moved!Folded, MoveAnalyzed

LEMMA MovedKeeps ==
  ASSUME NEW A, NEW S \in SUBSET A, NEW st, NEW s, s.true \subseteq Var,
         NEW q, QueueInv(q, A), A \subseteq Var,
         NEW F, F = {v \in A : v \notin s.true}, Reaches(q, F),
         NEW r, r = Moved!Folded(<<S, st, s>>, q, [t \in 1..MaxStamp |-> t])
  PROVE  QueueInv(r, A) /\ Reaches(r, F)
<1> DEFINE p == <<S, st, s>>
           seq == [t \in 1..MaxStamp |-> t]
           Good(x) == QueueInv(x, A) /\ Reaches(x, F)
           G == [k \in Nat |-> {x \in Queues : Good(x)}]
<1>1. MaxStamp \in Nat BY DecideAssumption
<1>2. seq \in Seq(Nat) /\ Len(seq) = MaxStamp
  <2>1. seq \in [1..MaxStamp -> Nat] BY <1>1
  <2>2. QED BY <1>1, <2>1
<1>3. \A k \in Nat : \A x : x \in G[k] <=> x \in Queues /\ Good(x) OBVIOUS
<1>4. q \in Queues /\ Good(q) BY DEF QueueInv
<1>5. ASSUME NEW t, NEW x \in Queues, Good(x)
      PROVE  LET y == IF {v \in S : st[v] = t} = {} THEN x
                      ELSE MoveToFront(x, s, CHOOSE v \in {v \in S : st[v] = t} : TRUE)
             IN y \in Queues /\ Good(y)
  <2>1. CASE {v \in S : st[v] = t} = {} BY <1>5, <2>1
  <2>2. CASE {v \in S : st[v] = t} # {}
    <3>1. PICK i \in S : i = CHOOSE v \in {v \in S : st[v] = t} : TRUE BY <2>2
    <3>2. PICK y : y = MoveToFront(x, s, i) OBVIOUS
    <3>3. i \in A OBVIOUS
    <3>4. QueueInv(x, A) /\ Reaches(x, F) BY <1>5
    <3>5. QueueInv(y, A) /\ Reaches(y, F) BY <3>2, <3>3, <3>4, MoveToFrontKeeps
    <3>6. y \in Queues BY <3>5 DEF QueueInv
    <3>7. QED BY <2>2, <3>1, <3>2, <3>5, <3>6
  <2>3. QED BY <2>1, <2>2
<1>6. \A k \in 1..MaxStamp : \A x \in G[k - 1] :
        (IF {v \in p[1] : p[2][v] = seq[k]} = {} THEN x
         ELSE MoveToFront(x, p[3], CHOOSE v \in {v \in p[1] : p[2][v] = seq[k]} : TRUE)) \in G[k]
  <2> HIDE DEF G, Good
  <2>1. TAKE k \in 1..MaxStamp
  <2>2. TAKE x \in G[k - 1]
  <2>3. k - 1 \in Nat /\ k \in Nat BY <1>1
  <2>4. x \in Queues /\ Good(x) BY <1>3, <2>3
  <2>5. p[1] = S /\ p[2] = st /\ p[3] = s /\ seq[k] = k OBVIOUS
  <2> DEFINE T == {v \in p[1] : p[2][v] = seq[k]}
             C(X) == CHOOSE v \in X : TRUE
             y == IF T = {} THEN x ELSE MoveToFront(x, p[3], C(T))
  <2>6. T = {v \in S : st[v] = k} BY <2>5
  <2>7. y \in Queues /\ Good(y)
    <3>1. y = IF {v \in S : st[v] = k} = {} THEN x
              ELSE MoveToFront(x, s, C({v \in S : st[v] = k}))
      <4> HIDE DEF T, C, p, seq
      <4>1. QED BY <2>5, <2>6
    <3> HIDE DEF y
    <3>2. QED BY <1>5, <2>4, <3>1
  <2> HIDE DEF y
  <2>8. y \in G[k] BY <1>3, <2>3, <2>7
  <2>9. QED BY <2>8 DEF y
<1> HIDE DEF Good
<1>7. q \in G[0] BY <1>3, <1>4
<1> HIDE DEF G, p, seq
<1>8. Moved!Folded(p, q, seq) \in G[Len(seq)] BY ONLY <1>2, <1>6, <1>7, Moved!FoldedIn
<1>9. r = Moved!Folded(p, q, seq) BY DEF p, seq
<1>10. Good(r) BY <1>1, <1>2, <1>3, <1>8, <1>9
<1>11. QED BY <1>10 DEF Good

\* The heaps may change as long as they stay heaps and lose nothing.
LEMMA HeapsKeep ==
  ASSUME Typed, NEW d, Full(d), NEW e \in Bundles, e.asg = d.asg, e.active = d.active,
         e.queue = d.queue,
         \A h \in Used : /\ HeapInv(e.heaps[h], d.active)
                         /\ LitsOf(d.heaps[h].stack) \subseteq LitsOf(e.heaps[h].stack)
  PROVE  Full(e)
<1>1. Sound(e) BY DEF Full, Sound
<1>2. FreeOf(e) = FreeOf(d) BY DEF FreeOf
<1>3. Offers(e, FreeOf(e))
  <2>1. Offers(d, FreeOf(d)) BY DEF Full
  <2>2. QED BY <1>2, <2>1, UsedIs DEF Offers
<1>4. Separate(e) BY DEF Full, Separate
<1>5. QED BY <1>1, <1>3, <1>4 DEF Full

LEMMA BumpedKeeps ==
  ASSUME Typed, NEW d, Full(d), NEW analyzed \in Seq(Var), NEW e, e = Bumped(d, analyzed)
  PROVE  Full(e)
<1>1. /\ d \in Bundles /\ Sound(d) /\ QueueInv(d.queue, d.active) /\ d.active \subseteq Var
      /\ d.asg.true \subseteq Var /\ Offers(d, FreeOf(d)) /\ Separate(d)
  BY BundleTypes DEF Full, Sound
<1>2. CASE ~ stable
  <2>1. PICK S : S = ToSet(analyzed) \cap d.active OBVIOUS
  <2>2. S \in SUBSET d.active BY <2>1
  <2>3. PICK st, s, q, F : st = d.queue.stamps /\ s = d.asg /\ q = d.queue /\ F = FreeOf(d)
    OBVIOUS
  <2>4. PICK r : r = Moved!Folded(<<S, st, s>>, q, [t \in 1..MaxStamp |-> t]) OBVIOUS
  <2>5. e = WithQueue(d, r)
    <3>1. e = MoveAnalyzed(d, analyzed) BY <1>2 DEF Bumped
    <3>2. QED BY <2>1, <2>3, <2>4, <3>1, MovedFold DEF WithQueue
  <2>6. QueueInv(r, d.active) /\ Reaches(r, F)
    <3>1. /\ s.true \subseteq Var /\ QueueInv(q, d.active)
          /\ F = {v \in d.active : v \notin s.true} /\ Reaches(q, F)
      BY <1>1, <1>2, <2>3 DEF FreeOf, Offers
    <3>2. QED BY <1>1, <2>2, <2>4, <3>1, MovedKeeps
  <2>7. Sound(e) /\ e.asg = d.asg /\ e.active = d.active /\ e.queue = r
    BY <1>1, <2>5, <2>6, QueueSet
  <2>8. FreeOf(e) = F BY <2>3, <2>7 DEF FreeOf
  <2>9. Offers(e, FreeOf(e)) BY <1>2, <2>6, <2>7, <2>8 DEF Offers
  <2>10. Separate(e) BY <1>1, <2>7 DEF Separate
  <2>11. QED BY <2>7, <2>9, <2>10 DEF Full
<1>3. CASE stable /\ heuristic = Vsids
  <2>1. PICK m : m = FoldLeft(BumpScore, d, analyzed) OBVIOUS
  <2>2. e = BumpIncrement(m) BY <1>3, <2>1 DEF Bumped
  <2>3. HeapInv(d.heaps[Vsids], d.active) BY <1>1, UsedIs DEF Sound
  <2>4. PICK V : /\ HeapIs(d.heaps[Vsids], V, d.heaps[Vsids].score) /\ V \subseteq d.active
                 /\ V = LitsOf(d.heaps[Vsids].stack)
    BY <2>3, HeapInvIs
  <2>5. Rescored(d, m, V) BY <1>1, <2>1, <2>4, BumpScoresKeep
  <2>6. Rescored(m, e, V) BY <2>2, <2>5, BumpIncrementKeeps DEF Rescored
  <2>7. /\ e \in Bundles /\ e.asg = d.asg /\ e.active = d.active /\ e.queue = d.queue
        /\ e.heaps[Chb] = d.heaps[Chb] /\ HeapIs(e.heaps[Vsids], V, e.heaps[Vsids].score)
    BY <2>5, <2>6 DEF Rescored
  <2>8. HeapInv(e.heaps[Vsids], d.active) /\ LitsOf(e.heaps[Vsids].stack) = V
    <3>1. PICK g, sc : g = e.heaps[Vsids] /\ sc = g.score OBVIOUS
    <3>2. HeapIs(g, V, sc) BY <2>7, <3>1
    <3>3. HeapInv(g, d.active) /\ LitsOf(g.stack) = V BY <2>4, <3>2, HeapInvFrom
    <3>4. QED BY <3>1, <3>3
  <2>9. \A h \in Used : /\ HeapInv(e.heaps[h], d.active)
                        /\ LitsOf(d.heaps[h].stack) \subseteq LitsOf(e.heaps[h].stack)
    <3>1. ASSUME NEW h \in Used
          PROVE  /\ HeapInv(e.heaps[h], d.active)
                 /\ LitsOf(d.heaps[h].stack) \subseteq LitsOf(e.heaps[h].stack)
      <4>1. CASE h = Vsids BY <2>4, <2>8, <4>1
      <4>2. CASE h = Chb BY <1>1, <2>7, <4>2 DEF Sound
      <4>3. QED BY <4>1, <4>2, UsedIs
    <3>2. QED BY <3>1
  <2>10. QED BY <2>7, <2>9, HeapsKeep
<1>4. CASE stable /\ heuristic # Vsids
  <2>1. e = d BY <1>4 DEF Bumped
  <2>2. QED BY <2>1
<1>5. QED BY <1>2, <1>3, <1>4 DEF Typed

LEMMA ChbBumpKeeps ==
  ASSUME Typed, NEW d, Full(d), heuristic = Chb,
         NEW scores \in [{d.asg.trail[i] : i \in BumpedChb(d.asg)} -> 0..MaxChb],
         NEW e, e = BumpChb(d, scores)
  PROVE  Full(e)
<1>1. d \in Bundles /\ HeapInv(d.heaps[Chb], d.active) BY UsedIs DEF Full, Sound
<1>2. PICK V : /\ HeapIs(d.heaps[Chb], V, d.heaps[Chb].score) /\ V \subseteq d.active
               /\ V = LitsOf(d.heaps[Chb].stack)
  BY <1>1, HeapInvIs
<1>3. /\ e \in Bundles /\ e.asg = d.asg /\ e.active = d.active /\ e.queue = d.queue
      /\ e.heaps[Vsids] = d.heaps[Vsids] /\ HeapIs(e.heaps[Chb], V, e.heaps[Chb].score)
  <2>1. PICK tr, B : tr = d.asg.trail /\ B = BumpedChb(d.asg) OBVIOUS
  <2>2. QED BY <1>1, <1>2, BumpChbKeeps
<1>4. HeapInv(e.heaps[Chb], d.active) /\ LitsOf(e.heaps[Chb].stack) = V
  BY <1>2, <1>3, HeapInvFrom
<1>5. \A h \in Used : /\ HeapInv(e.heaps[h], d.active)
                      /\ LitsOf(d.heaps[h].stack) \subseteq LitsOf(e.heaps[h].stack)
  <2>1. ASSUME NEW h \in Used
        PROVE  /\ HeapInv(e.heaps[h], d.active)
               /\ LitsOf(d.heaps[h].stack) \subseteq LitsOf(e.heaps[h].stack)
    <3>1. CASE h = Chb BY <1>2, <1>4, <3>1
    <3>2. CASE h = Vsids BY <1>3, <3>2 DEF Full, Sound
    <3>3. QED BY <3>1, <3>2, UsedIs
  <2>2. QED BY <2>1
<1>6. QED BY <1>3, <1>5, HeapsKeep

\* Every active variable is on a heap that was filled, and at or before the search
\* of a queue that starts at its end.
Filling(d, x) == [d EXCEPT !.heaps[x] = UpdateScores(@, d.active)]

LEMMA FilledOffers ==
  ASSUME Typed, NEW d, Full(d), NEW x \in {Vsids, Chb}, HeapInv(d.heaps[x], d.active),
         NEW e, e = Filling(d, x)
  PROVE  /\ e \in Bundles /\ TrailInv(e.asg) /\ QueueInv(e.queue, e.active)
         /\ e.asg = d.asg /\ e.active = d.active /\ e.queue = d.queue
         /\ HeapInv(e.heaps[x], e.active) /\ d.active \subseteq LitsOf(e.heaps[x].stack)
         /\ \A y \in {Vsids, Chb} : y # x => e.heaps[y] = d.heaps[y]
<1> DEFINE g == UpdateScores(d.heaps[x], d.active)
<1>1. /\ d \in Bundles /\ d.active \in SUBSET Var /\ TrailInv(d.asg) /\ QueueInv(d.queue, d.active)
      /\ d.heaps \in [{Vsids, Chb} -> Heaps]
  BY BundleTypes DEF Full, Sound
<1>2. PICK V, sc : HeapIs(d.heaps[x], V, sc) /\ V \subseteq d.active BY HeapInvIs
<1>3. HeapIs(g, V \cup d.active, sc) BY <1>1, <1>2, UpdateScoresKeeps
<1>4. e = WithHeap(d, x, g) BY <1>1 DEF Bundles, Filling, WithHeap
<1> HIDE DEF g
<1>5. V \cup d.active = d.active BY <1>2
<1>6. HeapInv(g, d.active) /\ LitsOf(g.stack) = d.active BY <1>3, <1>5, HeapInvFrom
<1>7. g \in Heaps BY <1>6 DEF HeapInv
<1>8. /\ e \in Bundles /\ e.asg = d.asg /\ e.active = d.active /\ e.queue = d.queue
      /\ e.heaps[x] = g /\ \A y \in {Vsids, Chb} : y # x => e.heaps[y] = d.heaps[y]
  <2>1. d \in Bundles BY <1>1
  <2>2. QED BY ONLY x \in {Vsids, Chb}, <1>4, <1>7, <2>1, NewHeap
<1>9. QED BY <1>1, <1>6, <1>8

\* How a restart reuses the trail.
LEMMA ReusedIs ==
  ASSUME NEW s, s = asg, Level(s) \in Nat, NEW better
  PROVE  Reused(better) \in 0..Level(s)
<1> DEFINE On(l) == s.trail[s.frames[l + 1] + 1] \in better
           T == {l \in 0..Level(s) : l = Level(s) \/ On(l)}
<1> HIDE DEF On
<1>1. T \subseteq Nat /\ Level(s) \in T OBVIOUS
<1>2. PICK l \in T : \A k \in T : l <= k BY <1>1, Nats!Smallest
<1>3. l \in 0..Level(s) /\ (l < Level(s) => On(l)) OBVIOUS
<1>4. \A k \in 1..l : ~ On(k - 1)
  <2>1. TAKE k \in 1..l
  <2>2. k - 1 \in 0..Level(s) /\ ~ (l <= k - 1) BY <1>1, <1>3
  <2>3. QED BY <1>2, <2>2
<1>5. \A k \in 1..l : s.trail[s.frames[k] + 1] \notin better
  <2>1. TAKE k \in 1..l
  <2>2. (k - 1) + 1 = k BY <1>3
  <2>3. ~ (s.trail[s.frames[(k - 1) + 1] + 1] \in better) BY <1>4 DEF On
  <2>4. QED BY <2>2, <2>3
<1>6. \E m \in 0..Level(s) : /\ m < Level(s) => s.trail[s.frames[m + 1] + 1] \in better
                             /\ \A k \in 1..m : s.trail[s.frames[k] + 1] \notin better
  BY <1>3, <1>5 DEF On
<1>7. QED BY <1>6 DEF Reused

-----------------------------------------------------------------------------
(* Compaction.                                                             *)

\* The new numbers are 1, 2 and so on without gaps.
LEMMA RanksAre ==
  ASSUME NEW A \in SUBSET Var, NEW map, map = Ranks(A)
  PROVE  /\ map \in [A -> Var] /\ \A u, v \in A : map[u] = map[v] => u = v
         /\ {map[v] : v \in A} = 1..Cardinality(A) /\ 1..Cardinality(A) \in SUBSET Var
<1> DEFINE n == Cardinality(A)
           Upto(v) == {u \in A : u <= v}
<1>1. IsFiniteSet(A) /\ n \in Nat /\ n <= N /\ A \subseteq Int
  <2>1. IsFiniteSet(Var) /\ Cardinality(Var) = N /\ Var \subseteq Int BY VarFacts
  <2>2. IsFiniteSet(A) /\ Cardinality(A) <= Cardinality(Var)
    BY ONLY <2>1, A \in SUBSET Var, FS_Subset
  <2>3. Cardinality(A) \in Nat BY ONLY <2>2, FS_CardinalityType
  <2>4. QED BY <2>1, <2>2, <2>3
<1>2. ASSUME NEW v \in A
      PROVE  IsFiniteSet(Upto(v)) /\ Cardinality(Upto(v)) \in 1..n /\ map[v] = Cardinality(Upto(v))
  <2> DEFINE U == Upto(v)
  <2>1. U \in SUBSET A /\ v \in U BY <1>1
  <2>2. map[v] = Cardinality(U) BY DEF Ranks
  <2> HIDE DEF U
  <2>3. IsFiniteSet(U) /\ Cardinality(U) <= n BY <1>1, <2>1, FS_Subset
  <2>4. Cardinality(U) \in Nat BY <2>3, FS_CardinalityType
  <2>5. Cardinality(U) # 0 BY <2>1, <2>3, FS_EmptySet
  <2>6. Cardinality(U) \in 1..n BY <1>1, <2>3, <2>4, <2>5
  <2>7. QED BY <2>2, <2>3, <2>6 DEF U
<1>3. ASSUME NEW u \in A, NEW v \in A, u < v PROVE map[u] # map[v]
  <2> DEFINE U == Upto(u)  V == Upto(v)
  <2>1. U \in SUBSET V /\ v \in V /\ v \notin U
    <3>1. u \in Int /\ v \in Int /\ \A w \in A : w \in Int BY <1>1
    <3>2. \A w \in A : w <= u => w <= v BY ONLY <1>3, <3>1
    <3>3. v <= v /\ ~ (v <= u) BY ONLY <1>3, <3>1
    <3>4. QED BY <3>2, <3>3
  <2>2. map[u] = Cardinality(U) /\ map[v] = Cardinality(V) /\ IsFiniteSet(V) BY <1>2
  <2> HIDE DEF U, V
  <2>3. Cardinality(V) # Cardinality(U) BY <2>1, <2>2, FS_Subset
  <2>4. QED BY <2>2, <2>3
<1>4. \A u, v \in A : map[u] = map[v] => u = v
  <2>1. TAKE u, v \in A
  <2>2. u \in Int /\ v \in Int BY <1>1
  <2>3. u < v \/ v < u \/ u = v BY <2>2
  <2>4. QED BY <1>3, <2>3
<1>5. map \in [A -> 1..n]
  <2>1. \A v \in A : map[v] \in 1..n BY <1>2
  <2> HIDE DEF n
  <2>2. map = [v \in A |-> map[v]] BY DEF Ranks
  <2>3. QED BY <2>1, <2>2
<1> HIDE DEF n
<1>6. map \in Injection(A, 1..n) BY <1>4, <1>5 DEF Injection, IsInjective
<1>7. IsFiniteSet(1..n) /\ Cardinality(1..n) = n BY <1>1, FS_Interval
<1>8. map \in Surjection(A, 1..n) BY <1>6, <1>7, FS_Injection DEF n
<1>9. {map[v] : v \in A} = 1..n BY <1>5, <1>8 DEF Surjection
<1>10. 1..n \in SUBSET Var BY <1>1, VarFacts
<1>11. map \in [A -> Var] BY <1>5, <1>10
<1>12. QED BY <1>4, <1>9, <1>10, <1>11 DEF n

\* Those that keep a number.
LEMMA KeptAre ==
  ASSUME NEW d, Full(d), ~ Unflushed(d.asg), NEW K, K = Kept(d)
  PROVE  K \in SUBSET Var /\ d.active \subseteq K /\ LitsOf(d.asg.trail) \subseteq d.active
<1>1. /\ d.asg.true \subseteq Var /\ d.active \subseteq Var /\ d.asg.trail \in Seq(Var)
      /\ d.asg.level \in [Var -> Nat] /\ LitsOf(d.asg.trail) \subseteq d.asg.true
      /\ \A v \in d.asg.true : v \in d.active <=> d.asg.level[v] > 0
  BY BundleTypes DEF Full, Sound, TrailInv, Separate
<1>2. K \in SUBSET Var /\ d.active \subseteq K BY <1>1 DEF Kept, Fixed
<1>3. ASSUME NEW v \in LitsOf(d.asg.trail) PROVE v \in d.active
  <2>1. v \in Var /\ v \in d.asg.true BY <1>1
  <2>2. PICK i \in DOMAIN d.asg.trail : d.asg.trail[i] = v BY DEF LitsOf
  <2>3. LevelOf(d.asg, v) # 0 BY <2>2 DEF Unflushed
  <2>4. d.asg.level[v] # 0 BY <2>1, <2>3, VarFacts DEF LevelOf
  <2>5. d.asg.level[v] > 0 BY <1>1, <2>1, <2>4
  <2>6. QED BY <1>1, <2>1, <2>5
<1>4. QED BY <1>2, <1>3

\* The assignment is the same under the new numbers.
LEMMA RenamedKeeps ==
  ASSUME NEW s, TrailInv(s), NEW K \in SUBSET Var, LitsOf(s.trail) \subseteq K,
         NEW map \in [K -> Var], \A u, v \in K : map[u] = map[v] => u = v,
         NEW t, t = Renamed(s, map)
  PROVE  /\ TrailInv(t) /\ t.true = Mapped(map, s.true \cap K)
         /\ \A v \in K : t.level[map[v]] = s.level[v]
<1> DEFINE tr == [i \in DOMAIN s.trail |-> map[s.trail[i]]]
           lev == Carried(map, s.level, 0)
           rea == Carried(map, s.reason, NoReason)
           tru == Mapped(map, s.true \cap K)
           n == Len(s.trail)
<1>1. /\ s \in Trails /\ Level(s) \in Nat /\ n \in Nat /\ DOMAIN s.trail = 1..n
      /\ s.trail \in Seq(Var) /\ s.true \subseteq Var /\ s.frames \in Seq(Nat)
      /\ s.level \in [Var -> Nat] /\ s.reason \in [Var -> Reasons] /\ s.propagated \in Nat
      /\ \A i \in 1..n : s.trail[i] \in K /\ s.trail[i] \in s.true
      /\ \A v \in LitsOf(s.trail) : \E i \in 1..n : s.trail[i] = v
  <2>1. s \in Trails /\ LitsOf(s.trail) \subseteq s.true BY DEF TrailInv
  <2>2. /\ s.trail \in Seq(Var) /\ s.true \subseteq Var /\ s.frames \in Seq(Nat)
        /\ s.level \in [Var -> Nat] /\ s.reason \in [Var -> Reasons] /\ s.propagated \in Nat
    BY <2>1 DEF Trails
  <2>3. Level(s) \in Nat BY <2>2, LenProperties DEF Level
  <2>4. /\ n \in Nat /\ DOMAIN s.trail = 1..n /\ \A i \in 1..n : s.trail[i] \in LitsOf(s.trail)
        /\ LitsOf(s.trail) = {s.trail[i] : i \in 1..n}
    BY <2>2, LitsOfIs
  <2>5. \A i \in 1..n : s.trail[i] \in K /\ s.trail[i] \in s.true BY <2>1, <2>4
  <2>6. \A v \in LitsOf(s.trail) : \E i \in 1..n : s.trail[i] = v BY <2>4
  <2> HIDE DEF n
  <2>7. QED BY ONLY <2>1, <2>2, <2>3, <2>4, <2>5, <2>6
<1>2. tr \in Seq(Var) /\ Len(tr) = n /\ \A i \in 1..n : tr[i] = map[s.trail[i]]
  <2>1. tr \in [1..n -> Var] /\ \A i \in 1..n : tr[i] = map[s.trail[i]] BY <1>1
  <2> HIDE DEF tr, n
  <2>2. n \in Nat BY <1>1
  <2>3. tr \in Seq(Var) /\ Len(tr) = n BY ONLY <2>1, <2>2
  <2>4. QED BY <2>1, <2>3
<1>3. lev \in [Var -> Nat] /\ rea \in [Var -> Reasons] /\ tru \in SUBSET Var
  <2>1. 0 \in Nat /\ NoReason \in Reasons BY DEF Reasons
  <2>2. lev \in [Var -> Nat] BY ONLY <1>1, <2>1, K \in SUBSET Var, map \in [K -> Var], CarriedIn
  <2>3. rea \in [Var -> Reasons] BY ONLY <1>1, <2>1, K \in SUBSET Var, map \in [K -> Var], CarriedIn
  <2>4. tru \in SUBSET Var BY DEF Mapped
  <2>5. QED BY <2>2, <2>3, <2>4
<1>4. \A v \in K : lev[map[v]] = s.level[v] BY CarriedIs
<1>5. /\ t \in Trails /\ t.trail = tr /\ t.frames = s.frames /\ t.true = tru /\ t.level = lev
  <2>1. DOMAIN map = K OBVIOUS
  <2>2. t = [s EXCEPT !.trail = tr, !.true = tru, !.level = lev, !.reason = rea]
    BY <1>1, <2>1 DEF Renamed, Mapped, Trails
  <2> HIDE DEF tr, tru, lev, rea
  <2>3. QED BY ONLY <1>1, <1>2, <1>3, <2>2 DEF Trails
<1> HIDE DEF tr, lev, rea
<1>6. \A i \in 1..n : t.level[t.trail[i]] = s.level[s.trail[i]] BY <1>1, <1>2, <1>4, <1>5
<1>7. LitsOf(t.trail) \subseteq t.true
  <2>1. ASSUME NEW i \in 1..n PROVE tr[i] \in tru
    <3>1. PICK u \in s.true \cap K : tr[i] = map[u] BY <1>1, <1>2
    <3>2. QED BY ONLY <3>1 DEF Mapped
  <2>2. LitsOf(tr) = {tr[i] : i \in 1..n} BY <1>2, LitsOfIs
  <2> HIDE DEF tru
  <2>3. QED BY <1>5, <2>1, <2>2
<1>8. Level(t) = Level(s) BY <1>5 DEF Level
<1>9. ASSUME NEW v \in t.true
      PROVE  t.level[v] <= Level(t) /\ (t.level[v] > 0 => v \in LitsOf(t.trail))
  <2>1. PICK u \in s.true \cap K : v = map[u] BY <1>5 DEF Mapped
  <2>2. t.level[v] = s.level[u] BY <1>4, <1>5, <2>1
  <2>3. s.level[u] <= Level(s) /\ (s.level[u] > 0 => u \in LitsOf(s.trail)) BY <2>1 DEF TrailInv
  <2>4. ASSUME s.level[u] > 0 PROVE v \in LitsOf(t.trail)
    <3>1. PICK i \in 1..n : s.trail[i] = u BY <1>1, <2>3, <2>4
    <3>2. tr[i] = v BY <1>2, <2>1, <3>1
    <3>3. LitsOf(tr) = {tr[j] : j \in 1..n} BY <1>2, LitsOfIs
    <3>4. QED BY <1>5, <3>2, <3>3
  <2>5. QED BY <1>8, <2>2, <2>3, <2>4
<1>10. FramesCut(t)
  <2>1. FramesCut(s) BY DEF TrailInv
  <2>2. \A l \in 1..Level(s) : s.frames[l] \in Nat BY <1>1 DEF Level
  <2>3. Len(t.trail) = n BY <1>2, <1>5
  <2>4. ASSUME NEW l \in 1..Level(s)
        PROVE  t.frames[l] <= Len(t.trail) /\ \A i \in 1..t.frames[l] : t.level[t.trail[i]] < l
    <3>1. s.frames[l] <= n /\ \A i \in 1..s.frames[l] : s.level[s.trail[i]] < l
      BY <2>1 DEF FramesCut
    <3>2. \A i \in 1..s.frames[l] : i \in 1..n BY <1>1, <2>2, <3>1
    <3>3. \A i \in 1..s.frames[l] : t.level[t.trail[i]] < l BY <1>6, <3>1, <3>2
    <3>4. QED BY <1>5, <2>3, <3>1, <3>3
  <2>5. \A k, l \in 1..Level(s) : k <= l => t.frames[k] <= t.frames[l]
    BY <1>5, <2>1 DEF FramesCut
  <2>6. QED BY <1>8, <2>4, <2>5 DEF FramesCut
<1>11. QED BY <1>4, <1>5, <1>7, <1>9, <1>10 DEF TrailInv

\* What the compaction makes of the variables that are free.
Outside(A, T) == {v \in A : v \notin T}

LEMMA RenamedFree ==
  ASSUME NEW K, NEW A \in SUBSET K, NEW T, NEW map, \A u, v \in K : map[u] = map[v] => u = v,
         NEW B, B = Mapped(map, A), NEW U, U = Mapped(map, T \cap K)
  PROVE  /\ Outside(B, U) = Mapped(map, Outside(A, T))
         /\ \A u \in K : map[u] \in B <=> u \in A
<1>1. \A u \in K : map[u] \in B <=> u \in A BY DEF Mapped
<1>2. \A u \in K : map[u] \in U <=> u \in T BY DEF Mapped
<1>3. \A v \in B : \E u \in A : v = map[u] BY DEF Mapped
<1>4. ASSUME NEW v \in B, v \notin U PROVE \E u \in A : u \notin T /\ v = map[u] BY <1>2, <1>3, <1>4
<1>5. ASSUME NEW u \in A, u \notin T PROVE map[u] \in B /\ map[u] \notin U BY <1>1, <1>2, <1>5
<1>6. Outside(B, U) \subseteq Mapped(map, Outside(A, T)) BY <1>4 DEF Mapped, Outside
<1>7. Mapped(map, Outside(A, T)) \subseteq Outside(B, U) BY <1>5 DEF Mapped, Outside
<1>8. Outside(B, U) = Mapped(map, Outside(A, T)) BY ONLY <1>6, <1>7
<1>9. QED BY <1>1, <1>8

LEMMA CompactedKeeps ==
  ASSUME Typed, NEW d, Full(d), ~ Unflushed(d.asg), NEW map, map = Ranks(Kept(d)),
         NEW e, e = Compacted(d, map)
  PROVE  Full(e)
<1> DEFINE w == [d EXCEPT !.asg = Renamed(@, map), !.active = {map[v] : v \in @},
                          !.queue = CompactQueue(@, map)]
           changed == [h \in Used |-> CompactScores(d.heaps[h], map)]
<1>1. PICK K : K = Kept(d) OBVIOUS
<1>2. PICK A : A = d.active OBVIOUS
<1>3. PICK s, q : s = d.asg /\ q = d.queue OBVIOUS
<1>4. /\ d \in Bundles /\ TrailInv(s) /\ QueueInv(q, A) /\ A \in SUBSET K /\ K \in SUBSET Var
      /\ LitsOf(s.trail) \subseteq K
  BY <1>1, <1>2, <1>3, KeptAre DEF Full, Sound
<1>5. map \in [K -> Var] /\ \A u, v \in K : map[u] = map[v] => u = v
  BY ONLY <1>1, <1>4, map = Ranks(Kept(d)), RanksAre
<1>6. PICK B : B = Mapped(map, A) OBVIOUS
<1>7. PICK F : F = FreeOf(d) OBVIOUS
<1>8. F \in SUBSET A /\ F = {v \in A : v \notin s.true} BY <1>2, <1>3, <1>7 DEF FreeOf
<1>9. PICK t : t = Renamed(s, map) OBVIOUS
<1>10. /\ TrailInv(t) /\ t.true = Mapped(map, s.true \cap K)
       /\ \A v \in K : t.level[map[v]] = s.level[v]
  BY ONLY <1>4, <1>5, <1>9, RenamedKeeps
<1>11. PICK r : r = CompactQueue(q, map) OBVIOUS
<1>12. QueueInv(r, B) /\ (Reaches(q, F) => Reaches(r, Mapped(map, F)))
  <2>1. A \subseteq K BY <1>4
  <2>2. QED BY ONLY <1>4, <1>5, <1>6, <1>8, <1>11, <2>1, CompactQueueKeeps
<1>13. e = OnHeaps(w, changed) BY DEF Compacted
<1>14. B \in SUBSET Var BY <1>4, <1>5, <1>6 DEF Mapped
<1>15. w \in Bundles /\ w.asg = t /\ w.active = B /\ w.queue = r /\ w.heaps = d.heaps
  <2>1. t \in Trails /\ r \in Queues BY <1>10, <1>12 DEF TrailInv, QueueInv
  <2>2. w = [d EXCEPT !.asg = t, !.active = B, !.queue = r]
    BY <1>2, <1>3, <1>4, <1>6, <1>9, <1>11 DEF Bundles, Mapped
  <2> HIDE DEF w
  <2>3. QED BY ONLY <1>4, <1>14, <2>1, <2>2 DEF Bundles
<1> HIDE DEF w, changed
<1>16. ASSUME NEW h \in Used
       PROVE  /\ changed[h] \in Heaps /\ HeapInv(changed[h], B)
              /\ F \subseteq LitsOf(d.heaps[h].stack) => Mapped(map, F) \subseteq LitsOf(changed[h].stack)
  <2>1. HeapInv(d.heaps[h], A) BY <1>2 DEF Full, Sound
  <2>2. PICK g, c : g = d.heaps[h] /\ c = changed[h] OBVIOUS
  <2>3. PICK V, sc : HeapIs(g, V, sc) /\ V \subseteq A /\ V = LitsOf(g.stack)
    BY <2>1, <2>2, HeapInvIs
  <2>4. c = CompactScores(g, map) BY <2>2 DEF changed
  <2>5. PICK W : W = Mapped(map, V) OBVIOUS
  <2>6. PICK cs : cs = c.score OBVIOUS
  <2>7. HeapIs(c, W, cs)
    <3>1. V \subseteq K BY <1>4, <2>3
    <3>2. QED BY ONLY <1>4, <1>5, <2>3, <2>4, <2>5, <2>6, <3>1, CompactScoresKeeps
  <2>8. W \subseteq B /\ (F \subseteq V => Mapped(map, F) \subseteq W)
    BY <1>6, <2>3, <2>5 DEF Mapped
  <2>9. HeapInv(c, B) /\ LitsOf(c.stack) = W BY <2>7, <2>8, HeapInvFrom
  <2>10. QED BY <2>2, <2>3, <2>8, <2>9 DEF HeapInv
<1>17. /\ e \in Bundles /\ e.asg = t /\ e.active = B /\ e.queue = r
       /\ \A h \in Used : e.heaps[h] = changed[h]
  <2>1. \A h \in Used : changed[h] \in Heaps BY <1>16
  <2>2. /\ e \in Bundles /\ e.asg = w.asg /\ e.active = w.active /\ e.queue = w.queue
        /\ \A h \in Used : e.heaps[h] = changed[h]
    BY ONLY Typed, <1>13, <1>15, <2>1, OnHeapsIs
  <2>3. QED BY <1>15, <2>2
<1>18. Sound(e) BY <1>10, <1>12, <1>16, <1>17 DEF Sound
<1>19. PICK U : U = t.true OBVIOUS
<1>20. PICK T : T = s.true OBVIOUS
<1>21. /\ Outside(B, U) = Mapped(map, Outside(A, T))
       /\ \A u \in K : map[u] \in B <=> u \in A
  <2>1. U = Mapped(map, T \cap K) BY <1>10, <1>19, <1>20
  <2>2. QED BY ONLY <1>4, <1>5, <1>6, <2>1, RenamedFree
<1>22. Separate(e)
  <2>1. ASSUME NEW v \in t.true PROVE v \in B <=> t.level[v] > 0
    <3>1. PICK u \in s.true \cap K : v = map[u] BY <1>10, <2>1 DEF Mapped
    <3>2. u \in A <=> s.level[u] > 0 BY <1>2, <1>3, <3>1 DEF Full, Separate
    <3>3. t.level[v] = s.level[u] BY <1>10, <3>1
    <3>4. QED BY <1>21, <3>1, <3>2, <3>3
  <2>2. QED BY <1>17, <2>1 DEF Separate
<1>23. FreeOf(e) = Mapped(map, F) BY <1>8, <1>17, <1>19, <1>20, <1>21 DEF FreeOf, Outside
<1>24. Offers(e, Mapped(map, F))
  <2>1. Offers(d, F) BY <1>7 DEF Full
  <2>2. CASE stable
    <3>1. F \subseteq LitsOf(d.heaps[heuristic].stack) BY <2>1, <2>2 DEF Offers
    <3>2. heuristic \in Used BY UsedIs
    <3>3. QED BY <1>16, <1>17, <2>2, <3>1, <3>2 DEF Offers
  <2>3. CASE ~ stable
    <3>1. Reaches(q, F) BY <1>3, <2>1, <2>3 DEF Offers
    <3>2. QED BY <1>12, <1>17, <2>3, <3>1 DEF Offers
  <2>4. QED BY <2>2, <2>3
<1>25. QED BY <1>18, <1>22, <1>23, <1>24 DEF Full

-----------------------------------------------------------------------------
(* The steps.                                                              *)
LEMMA InvIs ==
  ASSUME DecideInv, NEW d, d = Here
  PROVE  /\ Typed /\ Full(d) /\ FreeOf(d) = Free
         /\ d.asg = asg /\ d.active = active /\ d.queue = queue /\ d.heaps = heaps
         /\ d \in Bundles /\ Level(asg) \in Nat /\ active \subseteq Var /\ asg.true \subseteq Var
<1>1. /\ d.asg = asg /\ d.active = active /\ d.queue = queue /\ d.heaps = heaps /\ Typed /\ Full(d)
  BY DEF Here, DecideInv
<1>2. FreeOf(d) = Free BY <1>1, BundleTypes DEF FreeOf, Free
<1>3. QED BY <1>1, <1>2, BundleTypes

LEMMA SettlesWith ==
  ASSUME Typed', NEW d \in Bundles, TrailInv(d.asg), QueueInv(d.queue, d.active),
         \A h \in Used' : HeapInv(d.heaps[h], d.active), Separate(d),
         IF stable' THEN FreeOf(d) \subseteq LitsOf(d.heaps[heuristic'].stack)
         ELSE Reaches(d.queue, FreeOf(d)),
         Becomes(d)
  PROVE  DecideInv'
<1>1. Here' = d BY DEF Becomes, Here, Bundles
<1>2. Sound(Here)' BY <1>1 DEF Sound
<1>3. Separate(Here)' BY <1>1 DEF Separate
<1>4. Offers(Here, FreeOf(Here))' BY <1>1 DEF Offers, FreeOf
<1>5. QED BY <1>2, <1>3, <1>4 DEF DecideInv, Full

LEMMA Settles ==
  ASSUME Typed, NEW d, Full(d), Becomes(d), UNCHANGED <<instance, stable, heuristic>>
  PROVE  DecideInv'
<1>1. Typed' BY DEF Typed
<1>2. Used' = Used BY DEF Used
<1>3. /\ d \in Bundles /\ TrailInv(d.asg) /\ QueueInv(d.queue, d.active)
      /\ \A h \in Used' : HeapInv(d.heaps[h], d.active)
  BY <1>2 DEF Full, Sound
<1>4. IF stable' THEN FreeOf(d) \subseteq LitsOf(d.heaps[heuristic'].stack)
      ELSE Reaches(d.queue, FreeOf(d))
  BY DEF Full, Offers
<1>5. QED BY <1>1, <1>3, <1>4, SettlesWith DEF Full

LEMMA StaysSo ==
  ASSUME DecideInv,
         UNCHANGED <<instance, asg, active, queue, heaps, scinc, stable, heuristic>>
  PROVE  DecideInv'
<1>1. PICK d : d = Here OBVIOUS
<1>2. Typed /\ Full(d) BY <1>1, InvIs
<1>3. Becomes(d) BY <1>1 DEF Becomes, Here
<1>4. QED BY <1>2, <1>3, Settles

LEMMA AddKeeps ==
  ASSUME DecideInv, NEW v \in Var, Add(v), UNCHANGED instance
  PROVE  DecideInv'
<1>1. PICK d : d = Here OBVIOUS
<1>2. Typed /\ Full(d) /\ d.active = active /\ d.asg = asg /\ Level(d.asg) \in Nat
  BY <1>1, InvIs
<1>3. v \notin d.active /\ v \notin d.asg.true BY <1>2 DEF Add, IsFree
<1>4. PICK e : e = Activated(d, v) OBVIOUS
<1>5. Full(e) /\ e.asg = d.asg /\ e.active = d.active \cup {v}
  BY <1>2, <1>3, <1>4, ActivatedKeeps
<1>6. CASE Becomes(e) BY <1>2, <1>5, <1>6, Settles DEF Add
<1>7. CASE Becomes(Assigned(e, [var |-> v, level |-> 0]))
  <2>1. PICK a : a = [var |-> v, level |-> 0] OBVIOUS
  <2>2. PICK f : f = Assigned(e, a) OBVIOUS
  <2>3. v \in FreeOf(e) /\ 0 \in 0..Level(e.asg) BY <1>2, <1>3, <1>5 DEF FreeOf
  <2>4. a.var = v /\ a.level = 0 BY <2>1
  <2>5. Full(f) BY <1>2, <1>5, <2>2, <2>3, <2>4, AssignedKeeps
  <2>6. Becomes(f) BY <1>7, <2>1, <2>2
  <2>7. QED BY <1>2, <2>5, <2>6, Settles DEF Add
<1>8. QED BY <1>1, <1>4, <1>6, <1>7 DEF Add

Steps == INSTANCE Induction WITH Op <- LAMBDA p, d, a : Assigned(d, a)

LEMMA AssignedFold ==
  ASSUME NEW d, NEW a
  PROVE  FoldLeft(Assigned, d, <<>>) = d /\ FoldLeft(Assigned, d, <<a>>) = Assigned(d, a)
<1>1. \A seq : FoldLeft(Assigned, d, seq) = Steps!Folded(0, d, seq)
  BY DEF FoldLeft, MapThenFoldSet, Max, Steps!Folded
<1>2. Steps!Folded(0, d, <<>>) = d
  <2> DEFINE G == [k \in Nat |-> {d}]
  <2>1. <<>> \in Seq({a}) /\ Len(<<>>) = 0 /\ d \in G[0] OBVIOUS
  <2>2. \A k \in 1..Len(<<>>) : \A e \in G[k - 1] : Assigned(e, <<>>[k]) \in G[k] BY <2>1
  <2>3. \A k \in Nat : \A e : e \in G[k] => e = d OBVIOUS
  <2> HIDE DEF G
  <2>4. Steps!Folded(0, d, <<>>) \in G[Len(<<>>)] BY ONLY <2>1, <2>2, Steps!FoldedIn
  <2>5. QED BY <2>1, <2>3, <2>4
<1>3. Steps!Folded(0, d, <<a>>) = Assigned(d, a)
  <2> DEFINE seq == <<a>>
             G == [k \in Nat |-> {IF k = 0 THEN d ELSE Assigned(d, a)}]
  <2>1. seq \in Seq({a}) /\ Len(seq) = 1 /\ seq[1] = a OBVIOUS
  <2>2. \A k \in Nat : \A e : e \in G[k] <=> e = IF k = 0 THEN d ELSE Assigned(d, a) OBVIOUS
  <2> HIDE DEF G
  <2>3. d \in G[0] BY <2>2
  <2>4. \A k \in 1..Len(seq) : \A e \in G[k - 1] : Assigned(e, seq[k]) \in G[k]
    <3>1. ASSUME NEW k \in 1..1, NEW e \in G[k - 1] PROVE Assigned(e, seq[k]) \in G[k]
      <4>1. k = 1 /\ k - 1 = 0 OBVIOUS
      <4>2. e = d BY <2>2, <3>1, <4>1
      <4>3. QED BY <2>1, <2>2, <4>1, <4>2
    <3>2. QED BY <2>1, <3>1
  <2> HIDE DEF seq
  <2>5. Steps!Folded(0, d, seq) \in G[Len(seq)] BY ONLY <2>1, <2>3, <2>4, Steps!FoldedIn
  <2>6. QED BY <2>1, <2>2, <2>5 DEF seq
<1>4. QED BY <1>1, <1>2, <1>3

LEMMA PropagateKeeps ==
  ASSUME DecideInv, NEW implied \in Implied, Propagate(implied), UNCHANGED instance
  PROVE  DecideInv'
<1>1. PICK d : d = Here OBVIOUS
<1>2. Typed /\ Full(d) /\ FreeOf(d) = Free /\ d.asg = asg BY <1>1, InvIs
<1>3. PICK e : e = FoldLeft(Assigned, d, implied) OBVIOUS
<1>4. Full(e)
  <2>1. CASE implied = <<>> BY <1>2, <1>3, <2>1, AssignedFold
  <2>2. CASE implied # <<>>
    <3>1. PICK a \in [var : Free, level : 0..Level(asg)] : implied = <<a>> BY <2>2 DEF Implied
    <3>2. e = Assigned(d, a) BY <1>3, <3>1, AssignedFold
    <3>3. PICK v \in FreeOf(d), l \in 0..Level(d.asg) : a.var = v /\ a.level = l BY <1>2, <3>1
    <3>4. QED BY <1>2, <3>2, <3>3, AssignedKeeps
  <2>3. QED BY <2>1, <2>2
<1>5. UNCHANGED <<instance, stable, heuristic>> BY DEF Propagate
<1>6. CASE pc = "search" /\ stable /\ heuristic = Chb
  <2>1. PICK scores \in [{e.asg.trail[i] : i \in BumpedChb(e.asg)} -> 0..MaxChb] :
          Becomes(BumpChb(e, scores))
    BY <1>1, <1>3, <1>6 DEF Propagate
  <2>2. PICK f : f = BumpChb(e, scores) OBVIOUS
  <2>3. Full(f) BY <1>2, <1>4, <1>6, <2>2, ChbBumpKeeps
  <2>4. QED BY <1>2, <1>5, <2>1, <2>2, <2>3, Settles
<1>7. CASE ~ (pc = "search" /\ stable /\ heuristic = Chb)
  <2>1. Becomes(e) BY <1>1, <1>3, <1>7 DEF Propagate
  <2>2. QED BY <1>2, <1>4, <1>5, <2>1, Settles
<1>8. QED BY <1>6, <1>7

LEMMA FlushKeepsInv ==
  ASSUME DecideInv, Flush, UNCHANGED instance
  PROVE  DecideInv'
<1>1. PICK d : d = Here OBVIOUS
<1>2. Typed /\ Full(d) /\ d.asg = asg BY <1>1, InvIs
<1>3. PICK e : e = [d EXCEPT !.asg = FlushTrail(@)] OBVIOUS
<1>4. Full(e) BY <1>2, <1>3, FlushedKeeps DEF Flush
<1>5. Becomes(e) BY <1>1, <1>3 DEF Flush
<1>6. QED BY <1>2, <1>4, <1>5, Settles DEF Flush

LEMMA MakeDecisionKeeps ==
  ASSUME DecideInv, MakeDecision, UNCHANGED instance
  PROVE  DecideInv'
<1>1. PICK d : d = Here OBVIOUS
<1>2. Typed /\ Full(d) /\ FreeOf(d) = Free BY <1>1, InvIs
<1>3. PICK x : x = NextDecision(d) OBVIOUS
<1>4. PICK f : f = x.after OBVIOUS
<1>5. x.idx \in FreeOf(d) /\ Full(f) /\ f.asg = d.asg /\ f.active = d.active
  BY <1>2, <1>3, <1>4, NextDecisionIs DEF MakeDecision
<1>6. PICK v \in FreeOf(f) : v = x.idx BY <1>5 DEF FreeOf
<1>7. PICK e : e = [f EXCEPT !.asg = Decide(@, v)] OBVIOUS
<1>8. Full(e) BY <1>2, <1>5, <1>7, DecidedKeeps
<1>9. Becomes(e) BY <1>1, <1>3, <1>4, <1>6, <1>7 DEF MakeDecision
<1>10. QED BY <1>2, <1>8, <1>9, Settles DEF MakeDecision

LEMMA AssumeKeeps ==
  ASSUME DecideInv, NEW v \in Var, Assume(v), UNCHANGED instance
  PROVE  DecideInv'
<1>1. PICK d : d = Here OBVIOUS
<1>2. Typed /\ Full(d) /\ FreeOf(d) = Free BY <1>1, InvIs
<1>3. PICK e : e = [d EXCEPT !.asg = Decide(@, v)] OBVIOUS
<1>4. Full(e) BY <1>2, <1>3, DecidedKeeps DEF Assume
<1>5. Becomes(e) BY <1>1, <1>3 DEF Assume
<1>6. QED BY <1>2, <1>4, <1>5, Settles DEF Assume

LEMMA AnalyzedAre ==
  ASSUME NEW analyzed \in Analyzed, asg.true \subseteq Var
  PROVE  analyzed \in Seq(Var) /\ \A v \in ToSet(analyzed) : v \in asg.true
<1>1. PICK S \in SUBSET {v \in asg.true : LevelOf(asg, v) > 0} : analyzed \in SetToSeqs(S)
  BY DEF Analyzed
<1>2. S \subseteq asg.true /\ S \subseteq Var /\ IsFiniteSet(S)
  <2>1. S \subseteq asg.true /\ S \subseteq Var BY <1>1
  <2>2. QED BY <2>1, VarFacts, FS_Subset
<1>3. Cardinality(S) \in Nat BY <1>2, FS_CardinalityType
<1>4. analyzed \in [1..Cardinality(S) -> S] BY <1>1 DEF SetToSeqs
<1>5. analyzed \in Seq(S) BY <1>3, <1>4
<1>6. analyzed \in Seq(Var) BY <1>2, <1>3, <1>4
<1>7. ToSet(analyzed) \subseteq S BY <1>4 DEF ToSet
<1>8. QED BY <1>2, <1>6, <1>7

LEMMA LearnKeeps ==
  ASSUME DecideInv, NEW analyzed \in Analyzed, NEW uip \in Var, NEW to \in 0..Level(asg) - 1,
         NEW level \in 0..to, Learn(uip, analyzed, to, level), UNCHANGED instance
  PROVE  DecideInv'
<1>1. PICK d : d = Here OBVIOUS
<1>2. /\ Typed /\ Full(d) /\ d.asg = asg /\ d.active = active
      /\ Level(asg) \in Nat /\ asg.true \subseteq Var
  BY <1>1, InvIs
<1>3. to \in 0..Level(d.asg) /\ to < Level(d.asg) /\ to \in Nat BY <1>2
<1>4. PICK b : b = Backtracked(d, to) OBVIOUS
<1>5. /\ Full(b) /\ Level(b.asg) = to /\ b.active = d.active
      /\ b.asg.true = {v \in d.asg.true : d.asg.level[v] <= to}
  BY <1>2, <1>3, <1>4, BacktrackedKeeps
<1>6. analyzed \in Seq(Var) /\ uip \in asg.true BY <1>2, AnalyzedAre DEF Learn
<1>7. asg.level[uip] = Level(asg) BY VarFacts DEF Learn, LevelOf
<1>8. uip \in FreeOf(b)
  <2>1. uip \in d.active
    <3>1. d.asg.level[uip] > 0 BY <1>2, <1>3, <1>7
    <3>2. QED BY <1>2, <1>6, <3>1 DEF Full, Separate
  <2>2. ~ (d.asg.level[uip] <= to) BY <1>2, <1>3, <1>7
  <2>3. QED BY <1>5, <2>1, <2>2 DEF FreeOf
<1>9. PICK a : a = [var |-> uip, level |-> level] OBVIOUS
<1>10. PICK f : f = Assigned(b, a) OBVIOUS
<1>11. Full(f)
  <2>1. level \in 0..Level(b.asg) /\ a.var = uip /\ a.level = level BY <1>5, <1>9
  <2>2. QED BY <1>2, <1>5, <1>8, <1>10, <2>1, AssignedKeeps
<1>12. PICK e : e = Bumped(f, analyzed) OBVIOUS
<1>13. Full(e) BY <1>2, <1>6, <1>11, <1>12, BumpedKeeps
<1>14. Becomes(e) BY <1>1, <1>4, <1>9, <1>10, <1>12 DEF Learn
<1>15. QED BY <1>2, <1>13, <1>14, Settles DEF Learn

LEMMA BacktrackToKeeps ==
  ASSUME DecideInv, NEW level \in 0..Level(asg) - 1, BacktrackTo(level), UNCHANGED instance
  PROVE  DecideInv'
<1>1. PICK d : d = Here OBVIOUS
<1>2. Typed /\ Full(d) /\ d.asg = asg /\ Level(asg) \in Nat BY <1>1, InvIs
<1>3. level \in 0..Level(d.asg) BY <1>2
<1>4. PICK e : e = Backtracked(d, level) OBVIOUS
<1>5. Full(e) BY <1>2, <1>3, <1>4, BacktrackedKeeps
<1>6. Becomes(e) BY <1>1, <1>4 DEF BacktrackTo
<1>7. QED BY <1>2, <1>5, <1>6, Settles DEF BacktrackTo

LEMMA RestartKeeps ==
  ASSUME DecideInv, Restart, UNCHANGED instance
  PROVE  DecideInv'
<1>1. PICK d : d = Here OBVIOUS
<1>2. Typed /\ Full(d) /\ FreeOf(d) = Free /\ d.asg = asg /\ Level(asg) \in Nat BY <1>1, InvIs
<1>3. PICK x : x = NextDecision(d) OBVIOUS
<1>4. PICK f : f = x.after OBVIOUS
<1>5. Full(f) /\ f.asg = d.asg BY <1>2, <1>3, <1>4, NextDecisionIs DEF Restart
<1>6. \E better : Becomes(Backtracked(f, Reused(better)))
  <2>1. CASE stable
    <3>1. PICK score \in 0..MaxScore :
            Becomes(Backtracked(f, Reused({v \in Var : score > heaps[heuristic].score[v]})))
      BY <1>1, <1>3, <1>4, <2>1 DEF Restart
    <3>2. QED BY <3>1
  <2>2. CASE ~ stable
    <3>1. Becomes(Backtracked(f, Reused({v \in Var : queue.stamps[x.idx] > queue.stamps[v]})))
      BY <1>1, <1>3, <1>4, <2>2 DEF Restart
    <3>2. QED BY <3>1
  <2>3. QED BY <2>1, <2>2
<1>7. PICK better : Becomes(Backtracked(f, Reused(better))) BY <1>6
<1>8. PICK l : l = Reused(better) OBVIOUS
<1>9. l \in 0..Level(f.asg)
  <2>1. PICK s : s = asg OBVIOUS
  <2>2. Level(s) \in Nat /\ f.asg = s BY <1>2, <1>5, <2>1
  <2>3. QED BY <1>8, <2>1, <2>2, ReusedIs
<1>10. PICK e : e = Backtracked(f, l) OBVIOUS
<1>11. Full(e) BY <1>2, <1>5, <1>9, <1>10, BacktrackedKeeps
<1>12. Becomes(e) BY <1>7, <1>8, <1>10
<1>13. QED BY <1>2, <1>11, <1>12, Settles DEF Restart

LEMMA ChangeHeuristicKeeps ==
  ASSUME DecideInv, NEW new \in {Vsids, Chb}, ChangeHeuristic(new), UNCHANGED instance
  PROVE  DecideInv'
<1>1. PICK d : d = Here OBVIOUS
<1>2. Typed /\ Full(d) /\ d.asg = asg /\ d.active = active /\ Level(asg) \in Nat BY <1>1, InvIs
<1>3. PICK b : b = Backtracked(d, 0) OBVIOUS
<1>4. Full(b) /\ b.active = d.active
  <2>1. 0 \in 0..Level(d.asg) BY <1>2
  <2>2. QED BY <1>2, <1>3, <2>1, BacktrackedKeeps
<1>5. PICK e : e = Filling(b, new) OBVIOUS
<1>6. Used = {Vsids, Chb} /\ instance.mab BY DEF ChangeHeuristic, Used
<1>7. HeapInv(b.heaps[new], b.active) BY <1>4, <1>6 DEF Full, Sound
<1>8. /\ e \in Bundles /\ TrailInv(e.asg) /\ QueueInv(e.queue, e.active)
      /\ e.asg = b.asg /\ e.active = b.active /\ e.queue = b.queue
      /\ HeapInv(e.heaps[new], e.active) /\ b.active \subseteq LitsOf(e.heaps[new].stack)
      /\ \A y \in {Vsids, Chb} : y # new => e.heaps[y] = b.heaps[y]
  BY <1>2, <1>4, <1>5, <1>7, FilledOffers
<1>9. Becomes(e) BY <1>1, <1>2, <1>3, <1>4, <1>5 DEF ChangeHeuristic, Filling
<1>10. heuristic' = new /\ stable' = stable /\ stable /\ instance' = instance
  BY DEF ChangeHeuristic
<1>11. Used' = {Vsids, Chb} BY <1>6, <1>10 DEF Used
<1>12. Typed' BY <1>2, <1>6, <1>10 DEF Typed
<1>13. \A h \in Used' : HeapInv(e.heaps[h], e.active)
  <2>1. \A h \in {Vsids, Chb} : HeapInv(b.heaps[h], b.active) BY <1>4, <1>6 DEF Full, Sound
  <2>2. QED BY <1>8, <1>11, <2>1
<1>14. Separate(e) BY <1>4, <1>8 DEF Full, Separate
<1>15. FreeOf(e) \subseteq LitsOf(e.heaps[heuristic'].stack) BY <1>8, <1>10 DEF FreeOf
<1>16. QED BY <1>8, <1>9, <1>10, <1>12, <1>13, <1>14, <1>15, SettlesWith

LEMMA SwitchModeKeeps ==
  ASSUME DecideInv, SwitchMode, UNCHANGED instance
  PROVE  DecideInv'
<1>1. PICK d : d = Here OBVIOUS
<1>2. /\ Typed /\ Full(d) /\ FreeOf(d) = Free /\ d.active = active /\ d.queue = queue
      /\ d \in Bundles
  BY <1>1, InvIs
<1>3. heuristic' = heuristic /\ stable' = ~ stable /\ instance' = instance BY DEF SwitchMode
<1>4. Used' = Used /\ Typed' BY <1>2, <1>3 DEF Used, Typed
<1>5. CASE stable
  <2>1. PICK q : q = UpdateQueue(d.queue, d.queue.last) OBVIOUS
  <2>2. d.active # {} BY <1>2 DEF SwitchMode, FreeOf
  <2>3. QueueInv(d.queue, d.active) BY <1>2 DEF Full, Sound
  <2>4. QueueInv(q, d.active) /\ Reaches(q, d.active) BY <2>1, <2>2, <2>3, LastReaches
  <2>5. PICK e : e = WithQueue(d, q) OBVIOUS
  <2>6. Sound(e) /\ e.asg = d.asg /\ e.active = d.active /\ e.queue = q
    BY <1>2, <2>4, <2>5, QueueSet DEF Full
  <2>7. Becomes(e)
    <3>1. e = [d EXCEPT !.queue = UpdateQueue(@, queue.last)]
      BY <1>2, <2>1, <2>5 DEF Bundles, WithQueue
    <3>2. QED BY <1>1, <1>5, <3>1 DEF SwitchMode
  <2>8. Separate(e) BY <1>2, <2>6 DEF Full, Separate
  <2>9. Reaches(e.queue, FreeOf(e)) BY <2>4, <2>6 DEF Reaches, FreeOf
  <2>10. QED BY <1>3, <1>4, <1>5, <2>6, <2>7, <2>8, <2>9, SettlesWith DEF Sound
<1>6. CASE ~ stable
  <2>1. PICK x \in {Vsids, Chb} : x = heuristic BY <1>2 DEF Typed
  <2>2. HeapInv(d.heaps[x], d.active) BY <1>2, <2>1, UsedIs DEF Full, Sound
  <2>3. PICK e : e = Filling(d, x) OBVIOUS
  <2>4. /\ e \in Bundles /\ TrailInv(e.asg) /\ QueueInv(e.queue, e.active)
        /\ e.asg = d.asg /\ e.active = d.active /\ e.queue = d.queue
        /\ HeapInv(e.heaps[x], e.active) /\ d.active \subseteq LitsOf(e.heaps[x].stack)
        /\ \A y \in {Vsids, Chb} : y # x => e.heaps[y] = d.heaps[y]
    BY <1>2, <2>2, <2>3, FilledOffers
  <2>5. Becomes(e) BY <1>1, <1>2, <1>6, <2>1, <2>3 DEF SwitchMode, Filling
  <2>6. \A h \in Used' : HeapInv(e.heaps[h], e.active)
    <3>1. \A h \in Used : HeapInv(d.heaps[h], d.active) BY <1>2 DEF Full, Sound
    <3>2. QED BY <1>2, <1>4, <2>4, <3>1, UsedIs
  <2>7. Separate(e) BY <1>2, <2>4 DEF Full, Separate
  <2>8. FreeOf(e) \subseteq LitsOf(e.heaps[heuristic'].stack)
    BY <1>3, <2>1, <2>4 DEF FreeOf
  <2>9. stable' BY <1>3, <1>6
  <2>10. QED BY <1>4, <2>4, <2>5, <2>6, <2>7, <2>8, <2>9, SettlesWith
<1>7. QED BY <1>5, <1>6

LEMMA EliminateKeeps ==
  ASSUME DecideInv, NEW v \in Var, Eliminate(v), UNCHANGED instance
  PROVE  DecideInv'
<1>1. PICK d : d = Here OBVIOUS
<1>2. Typed /\ Full(d) /\ FreeOf(d) = Free BY <1>1, InvIs
<1>3. PICK F : F = FreeOf(d) OBVIOUS
<1>4. v \in d.active /\ v \notin d.asg.true /\ F \in SUBSET d.active
  BY <1>2, <1>3 DEF Eliminate, FreeOf
<1>5. PICK e : e = Deactivated(d, v) OBVIOUS
<1>6. Sound(e) /\ e.asg = d.asg /\ e.active = d.active \ {v} /\ Offers(e, F \ {v})
  BY <1>2, <1>3, <1>4, <1>5, DeactivatedKeeps DEF Full
<1>7. Separate(e) BY <1>2, <1>4, <1>6 DEF Full, Separate
<1>8. FreeOf(e) = F \ {v} BY <1>3, <1>6 DEF FreeOf
<1>9. Full(e) BY <1>6, <1>7, <1>8 DEF Full
<1>10. Becomes(e) BY <1>1, <1>5 DEF Eliminate
<1>11. QED BY <1>2, <1>9, <1>10, Settles DEF Eliminate

LEMMA CompactKeeps ==
  ASSUME DecideInv, Compact, UNCHANGED instance
  PROVE  DecideInv'
<1>1. PICK d : d = Here OBVIOUS
<1>2. Typed /\ Full(d) /\ d.asg = asg BY <1>1, InvIs
<1>3. PICK map : map = Ranks(Kept(d)) OBVIOUS
<1>4. PICK e : e = Compacted(d, map) OBVIOUS
<1>5. Full(e)
  <2>1. ~ Unflushed(d.asg) BY <1>2 DEF Compact
  <2>2. QED BY ONLY <1>2, <1>3, <1>4, <2>1, CompactedKeeps
<1>6. Becomes(e) BY <1>1, <1>3, <1>4 DEF Compact
<1>7. QED BY <1>2, <1>5, <1>6, Settles DEF Compact

\* Nothing is active at first.
LEMMA InitHolds ==
  ASSUME Init
  PROVE  DecideInv
<1>1. PICK d : d = Here OBVIOUS
<1>2. /\ d.asg = Empty /\ d.active = {} /\ d.queue = queue /\ d.heaps = heaps
      /\ d = [asg |-> Empty, active |-> {}, queue |-> queue, heaps |-> heaps, scinc |-> One]
  BY <1>1 DEF Init, Here
<1>3. PICK q : q = queue OBVIOUS
<1>4. q = [prev |-> [v \in Var |-> DISCONNECT], next |-> [v \in Var |-> DISCONNECT],
           stamps |-> [v \in Var |-> 0], first |-> DISCONNECT, last |-> DISCONNECT,
           stamp |-> 0, search |-> [idx |-> DISCONNECT, stamp |-> 0]]
  BY <1>3 DEF Init
<1>5. q \in Queues
  <2>1. DISCONNECT \in 0..N /\ 0 \in Nat BY VarFacts DEF DISCONNECT
  <2>2. QED BY <1>4, <2>1 DEF Queues
<1>6. QueueInv(q, {})
  <2>1. Len(<<>>) = 0 /\ <<>> \in Seq(Var) /\ LitsOf(<<>>) = {} BY DEF LitsOf
  <2>2. Holds(q, <<>>, {}) BY <1>4, <2>1 DEF Holds, Linking, Stamping
  <2>3. SearchInv(q, {}) BY <1>4 DEF SearchInv
  <2>4. QED BY <1>5, <2>2, <2>3, QueueIs
<1>7. ASSUME NEW h \in {Vsids, Chb} PROVE heaps[h] \in Heaps /\ HeapInv(heaps[h], {})
  <2>1. PICK g : g = heaps[h] OBVIOUS
  <2>2. g = [stack |-> <<>>, score |-> [v \in Var |-> 0]] BY <2>1 DEF Init
  <2>3. g \in Heaps BY <2>2 DEF Heaps
  <2>4. g.stack = <<>> /\ Len(g.stack) = 0 BY <2>2
  <2>5. HeapInv(g, {}) BY <2>3, <2>4 DEF HeapInv, Distinct, Ordered, LitsOf
  <2>6. QED BY <2>1, <2>3, <2>5
<1>8. Typed BY DEF Typed, Init
<1>9. d \in Bundles
  <2>1. heaps \in [{Vsids, Chb} -> Heaps]
    <3>1. heaps = [h \in {Vsids, Chb} |-> heaps[h]] BY DEF Init
    <3>2. QED BY <1>7, <3>1
  <2>2. One \in Nat \ {0} BY DecideAssumption
  <2>3. PICK s, hs : s = Empty /\ hs = heaps OBVIOUS
  <2>4. s \in Trails BY <2>3, EmptyHolds DEF TrailInv
  <2>5. d = [asg |-> s, active |-> {}, queue |-> q, heaps |-> hs, scinc |-> One]
    BY <1>2, <1>3, <2>3
  <2>6. hs \in [{Vsids, Chb} -> Heaps] BY <2>1, <2>3
  <2>7. QED BY ONLY <1>5, <2>2, <2>4, <2>5, <2>6 DEF Bundles
<1>10. Sound(d) BY <1>2, <1>3, <1>6, <1>7, <1>8, <1>9, UsedIs, EmptyHolds DEF Sound
<1>11. Separate(d) BY <1>2, EmptyHolds DEF Separate
<1>12. Offers(d, FreeOf(d)) BY <1>2 DEF Offers, FreeOf, Reaches
<1>13. QED BY <1>1, <1>8, <1>10, <1>11, <1>12 DEF DecideInv, Full

LEMMA NextKeeps ==
  ASSUME DecideInv, [Next]_vars
  PROVE  DecideInv'
<1>1. CASE UNCHANGED vars BY <1>1, StaysSo DEF vars
<1>2. CASE Next
  <2>1. UNCHANGED instance BY <1>2 DEF Next
  <2>0. CASE Import BY <2>0, <2>1, StaysSo DEF Import
  <2>2. CASE \E v \in Var : Add(v) BY <2>1, <2>2, AddKeeps
  <2>3. CASE StartSearch BY <2>1, <2>3, StaysSo DEF StartSearch
  <2>4. CASE \E implied \in Implied : Propagate(implied) BY <2>1, <2>4, PropagateKeeps
  <2>5. CASE Flush BY <2>1, <2>5, FlushKeepsInv
  <2>6. CASE MakeDecision BY <2>1, <2>6, MakeDecisionKeeps
  <2>7. CASE \E v \in Var : Assume(v) BY <2>1, <2>7, AssumeKeeps
  <2>8. CASE \E analyzed \in Analyzed, uip \in Var, to \in 0..Level(asg) - 1 :
               \E level \in 0..to : Learn(uip, analyzed, to, level)
    BY <2>1, <2>8, LearnKeeps
  <2>9. CASE \E level \in 0..Level(asg) - 1 : BacktrackTo(level) BY <2>1, <2>9, BacktrackToKeeps
  <2>10. CASE Restart BY <2>1, <2>10, RestartKeeps
  <2>11. CASE \E new \in {Vsids, Chb} : ChangeHeuristic(new)
    BY <2>1, <2>11, ChangeHeuristicKeeps
  <2>12. CASE SwitchMode BY <2>1, <2>12, SwitchModeKeeps
  <2>13. CASE StartProbing BY <2>1, <2>13, StaysSo DEF StartProbing
  <2>14. CASE \E v \in Var : Eliminate(v) BY <2>1, <2>14, EliminateKeeps
  <2>15. CASE Compact BY <2>1, <2>15, CompactKeeps
  <2>16. CASE EndProbing BY <2>1, <2>16, StaysSo DEF EndProbing
  <2>17. CASE Returned BY <2>1, <2>17, StaysSo DEF Returned, vars
  <2>18. Step BY <1>2 DEF Next
  <2>19. QED
    BY <2>0, <2>2, <2>3, <2>4, <2>5, <2>6, <2>7, <2>8, <2>9, <2>10, <2>11, <2>12, <2>13, <2>14,
       <2>15, <2>16, <2>17, <2>18
    DEF Step
<1>3. QED BY <1>1, <1>2

\* The invariant of all that decisions are made from: the trail, the queue of
\* queue.c and the heaps of heap.c fit each other after every handler.
THEOREM StructuresFit == Spec => []DecideInv
<1>1. Init => DecideInv BY InitHolds
<1>2. DecideInv /\ [Next]_vars => DecideInv' BY NextKeeps
<1>3. QED BY <1>1, <1>2, PTL DEF Spec

-----------------------------------------------------------------------------
(* What follows for the decisions.                                         *)

\* kissat_next_decision_variable answers an unassigned active variable, and none
\* of them was enqueued later (focused mode) or has a larger score (stable mode).
THEOREM DecisionsAreBest == Spec => []DecisionIsBest
<1>1. DecideInv => DecisionIsBest
  <2> SUFFICES ASSUME DecideInv, Free # {}
               PROVE  LET idx == NextDecision(Here).idx
                          Rank(v) == IF stable THEN heaps[heuristic].score[v] ELSE queue.stamps[v]
                      IN idx \in Free /\ \A v \in Free : Rank(v) <= Rank(idx)
    BY DEF DecisionIsBest
  <2>1. PICK d : d = Here OBVIOUS
  <2>2. /\ Typed /\ Full(d) /\ FreeOf(d) = Free /\ d.queue = queue /\ d.heaps = heaps
    BY <2>1, InvIs
  <2>3. PICK x : x = NextDecision(d) OBVIOUS
  <2>4. /\ x.idx \in FreeOf(d)
        /\ stable => \A v \in FreeOf(d) : d.heaps[heuristic].score[v] <= d.heaps[heuristic].score[x.idx]
        /\ ~ stable => \A v \in FreeOf(d) : d.queue.stamps[v] <= d.queue.stamps[x.idx]
    BY <2>2, <2>3, NextDecisionIs
  <2>5. QED BY <2>1, <2>2, <2>3, <2>4
<1>2. QED BY <1>1, StructuresFit, PTL

\* What kissat_check_queue and kissat_check_heap assert of the links, the search and
\* the heaps, before and after every handler.
THEOREM StructuresAreSound == Spec => []StructuresSound
<1>1. ASSUME DecideInv PROVE StructuresSound
  <2>1. PICK d : d = Here OBVIOUS
  <2>2. /\ Typed /\ Full(d) /\ FreeOf(d) = Free /\ d.queue = queue /\ d.heaps = heaps
        /\ d.active = active /\ active \subseteq Var /\ d.asg = asg
    BY <1>1, <2>1, InvIs
  <2>3. PICK ord : ord = Order(queue) OBVIOUS
  <2>4. /\ queue \in Queues /\ Holds(queue, ord, active) /\ SearchInv(queue, active)
    BY <2>2, <2>3 DEF Full, Sound, QueueInv
  <2>5. /\ ord \in Seq(Var) /\ Len(ord) \in Nat /\ DOMAIN ord = 1..Len(ord)
        /\ \A i \in 1..Len(ord) : ord[i] \in Var /\ ord[i] \in active
        /\ \A i, j \in 1..Len(ord) : ord[i] = ord[j] => i = j
        /\ \A v \in active : \E i \in 1..Len(ord) : ord[i] = v
    BY <2>4, HoldsFacts
  <2>6. ToSet(ord) = active BY <2>5 DEF ToSet
  <2>7. Len(ord) = Cardinality(active)
    <3>1. IsFiniteSet(active) BY <2>2, VarFacts, FS_Subset
    <3>2. ord \in [1..Len(ord) -> active] BY <2>5
    <3>3. ord \in Injection(1..Len(ord), active) BY <2>5, <3>2 DEF Injection, IsInjective
    <3>4. ord \in Surjection(1..Len(ord), active) BY <2>5, <3>2 DEF Surjection
    <3>5. Cardinality(1..Len(ord)) = Cardinality(active) BY <3>1, <3>3, <3>4, FS_Injection
    <3>6. Cardinality(1..Len(ord)) = Len(ord)
      <4>1. PICK n \in Nat : n = Len(ord) BY <2>5
      <4>2. Cardinality(1..n) = IF 1 > n THEN 0 ELSE n - 1 + 1 BY ONLY n \in Nat, FS_Interval
      <4>3. Cardinality(1..n) = n BY <4>2
      <4>4. QED BY ONLY <4>1, <4>3, Zenon
    <3>7. QED BY <3>5, <3>6
  <2>8. queue.last = IF ord = <<>> THEN DISCONNECT ELSE Last(ord)
    <3>1. queue.last = IF Len(ord) = 0 THEN DISCONNECT ELSE ord[Len(ord)]
      BY <2>4 DEF Holds, Linking
    <3>2. Len(ord) = 0 <=> ord = <<>> BY <2>5, EmptySeq
    <3>3. QED BY <3>1, <3>2 DEF Last
  <2>9. ASSUME NEW i \in DOMAIN ord
        PROVE  /\ queue.prev[ord[i]] = IF i = 1 THEN DISCONNECT ELSE ord[i - 1]
               /\ i > 1 => queue.stamps[ord[i - 1]] < queue.stamps[ord[i]]
               /\ queue.stamps[ord[i]] <= queue.stamp
    <3>1. i \in 1..Len(ord) BY <2>5
    <3>2. i > 1 => i - 1 \in 1..Len(ord) /\ i - 1 < i BY <2>5, <3>1
    <3>3. QED BY <2>4, <3>1, <3>2 DEF Holds, Linking, Stamping
  <2>10. IF queue.search.idx = DISCONNECT THEN active \subseteq asg.true
         ELSE queue.search.idx \in active /\ queue.search.stamp = queue.stamps[queue.search.idx]
    BY <2>4 DEF SearchInv
  <2>11. ~ stable => \A v \in Free : queue.stamps[v] <= queue.search.stamp
    BY <2>2 DEF Full, Offers, Reaches
  <2>12. ASSUME NEW h \in Used
         PROVE  /\ IsInjective(heaps[h].stack) /\ ToSet(heaps[h].stack) \subseteq active
                /\ \A i \in 2..Len(heaps[h].stack) :
                     ScoreAt(heaps[h], i \div 2) >= ScoreAt(heaps[h], i)
    <3>1. HeapInv(heaps[h], active) BY <2>2 DEF Full, Sound
    <3>2. PICK g : g = heaps[h] OBVIOUS
    <3>3. /\ g.stack \in Seq(Var) /\ Distinct(g) /\ Ordered(g) /\ LitsOf(g.stack) \subseteq active
      BY <3>1, <3>2 DEF HeapInv, Heaps
    <3>4. DOMAIN g.stack = 1..Len(g.stack) BY <3>3, LitsOfIs
    <3>5. IsInjective(g.stack) BY <3>3, <3>4 DEF Distinct, IsInjective
    <3>6. ToSet(g.stack) \subseteq active BY <3>3 DEF ToSet, LitsOf
    <3>7. QED BY <3>2, <3>3, <3>5, <3>6 DEF Ordered
  <2>13. QED
    BY <2>3, <2>6, <2>7, <2>8, <2>9, <2>10, <2>11, <2>12 DEF StructuresSound
<1>2. QED BY <1>1, StructuresFit, PTL
=============================================================================
