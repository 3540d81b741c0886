----------------------------- MODULE SharerProofs -----------------------------
(***************************************************************************)
(* Theorems about Sharer, for any solvers, any lists to start from and any  *)
(* number of requests.                                                      *)
(***************************************************************************)
EXTENDS Sharer, FiniteSetTheorems, SequenceTheorems, TLAPS

TypeInv ==
  /\ nRefs \in [Solvers -> Int] /\ deleted \subseteq Solvers
  /\ lists \in [Roles -> [Solvers -> Nat]]
  /\ adding \in [Roles -> [Solvers -> Nat]]
  /\ removing \in [Roles -> Seq(Solvers)]
  /\ pc \in {"sleep", "add", "share", "remove", "stop", "destroy", "joined"}
  /\ served \in [Roles -> Nat]
  /\ owned \subseteq Solvers
  /\ member \in [Roles -> SUBSET Solvers]
  /\ asked \in [Roles -> SUBSET Solvers]
  /\ client \in {NoRequest} \cup (Roles \X Solvers)

\* Requests that are served, while the requests are being served.
Done(r) == IF pc \in {"remove", "destroy", "joined"} THEN served[r] ELSE 0

Pending(r) == {removing[r][n] : n \in Done(r) + 1 .. Len(removing[r])}

\* Every solver is in removing once at most, and is not a member any more.
RequestInv(r) ==
  /\ \A m, n \in DOMAIN removing[r] : removing[r][m] = removing[r][n] => m = n
  /\ \A n \in DOMAIN removing[r] : removing[r][n] \in asked[r] /\ removing[r][n] \notin member[r]
  /\ Done(r) <= Len(removing[r])

\* A member has one place, or its place is under way; a solver that is to be
\* removed has one place in the list.
PlaceInv(r, s) ==
  /\ Held(r, s) = Belongs(s, member[r] \cup Pending(r))
  /\ s \in Pending(r) => lists[r][s] = 1
  /\ s \notin asked[r] => adding[r][s] = 0 /\ client # <<r, s>>

RefInv(s) ==
  /\ nRefs[s] = Belongs(s, owned) + Held("producers", s) + Held("consumers", s)
  /\ nRefs[s] = 0 <=> s \in deleted

IInv ==
  /\ TypeInv
  /\ \A r \in Roles : RequestInv(r)
  /\ \A r \in Roles, s \in Solvers : PlaceInv(r, s)
  /\ \A s \in Solvers : RefInv(s)

-----------------------------------------------------------------------------
(* Facts about the operators. *)

LEMMA BelongsType ==
  ASSUME NEW x, NEW S
  PROVE  Belongs(x, S) \in {0, 1}
BY DEF Belongs

\* A destructor step gives back one reference per solver.
LEMMA OncePerSolver ==
  ASSUME NEW seq \in Seq(Solvers), \A m, n \in DOMAIN seq : seq[m] = seq[n] => m = n,
         NEW k \in Nat, k <= Len(seq), NEW s
  PROVE  Cardinality({n \in 1 .. k : seq[n] = s}) = Belongs(s, {seq[n] : n \in 1 .. k})
<1> DEFINE T == {n \in 1 .. k : seq[n] = s}
<1>1. Len(seq) \in Nat /\ DOMAIN seq = 1 .. Len(seq) BY LenProperties
<1>2. 1 .. k \subseteq DOMAIN seq BY <1>1
<1>3. CASE \E n \in 1 .. k : seq[n] = s
  <2>1. PICK n \in 1 .. k : seq[n] = s BY <1>3
  <2>2. T = {n} BY <1>2, <2>1
  <2>3. Cardinality(T) = 1 BY <2>2, FS_Singleton
  <2>4. Belongs(s, {seq[m] : m \in 1 .. k}) = 1 BY <2>1 DEF Belongs
  <2>5. QED BY <2>3, <2>4
<1>4. CASE ~ \E n \in 1 .. k : seq[n] = s
  <2>1. T = {} BY <1>4
  <2>2. Cardinality(T) = 0 BY <2>1, FS_EmptySet
  <2>3. Belongs(s, {seq[m] : m \in 1 .. k}) = 0 BY <1>4 DEF Belongs
  <2>4. QED BY <2>2, <2>3
<1>5. QED BY <1>3, <1>4

LEMMA HeldAlive ==
  ASSUME Alive, NEW r, NEW s
  PROVE  Held(r, s) = Belongs(<<r, s>>, {client}) + lists[r][s] + adding[r][s] - 0
BY DEF Held, GivenBack

LEMMA HeldType ==
  ASSUME IInv, NEW r \in Roles, NEW s \in Solvers
  PROVE  Held(r, s) \in {0, 1} /\ nRefs[s] \in Nat
         /\ (Held(r, s) = 1 <=> s \in member[r] \cup Pending(r))
<1>1. \A q \in Roles, t \in Solvers : Held(q, t) = Belongs(t, member[q] \cup Pending(q))
  BY DEF IInv, PlaceInv
<1>2. \A q \in Roles, t \in Solvers : Held(q, t) \in {0, 1} BY <1>1, BelongsType
<1>3. Held("producers", s) \in {0, 1} /\ Held("consumers", s) \in {0, 1} BY <1>2 DEF Roles
<1>4. nRefs[s] = Belongs(s, owned) + Held("producers", s) + Held("consumers", s)
  BY DEF IInv, RefInv
<1>5. nRefs[s] \in Nat BY <1>3, <1>4, BelongsType
<1>6. QED BY <1>1, <1>2, <1>5 DEF Belongs

LEMMA GivenType ==
  ASSUME IInv, NEW r \in Roles, NEW s
  PROVE  /\ GivenBack(r, s) = IF Alive THEN 0 ELSE Belongs(s, {removing[r][n] : n \in 1 .. served[r]})
         /\ GivenBack(r, s) \in {0, 1}
<1>1. TypeInv /\ RequestInv(r) BY DEF IInv
<1>2. CASE Alive BY <1>2 DEF GivenBack
<1>3. CASE ~ Alive
  <2>1. Done(r) = served[r] BY <1>3 DEF Alive, Done
  <2>2. removing[r] \in Seq(Solvers) /\ served[r] \in Nat BY <1>1 DEF TypeInv
  <2>3. /\ served[r] <= Len(removing[r])
        /\ \A m, n \in DOMAIN removing[r] : removing[r][m] = removing[r][n] => m = n
    BY <1>1, <2>1 DEF RequestInv
  <2>4. GivenBack(r, s) = Belongs(s, {removing[r][n] : n \in 1 .. served[r]})
    BY <1>3, <2>2, <2>3, OncePerSolver DEF GivenBack
  <2>5. QED BY <1>3, <2>4, BelongsType
<1>4. QED BY <1>2, <1>3

LEMMA InitInv == Init => IInv
<1> SUFFICES ASSUME Init PROVE IInv OBVIOUS
<1> USE DEF Init
<1>1. \A r \in Roles : Initial[r] \subseteq Solvers BY RoleAssumption
<1>2. \A s \in Solvers : \A S : Belongs(s, S) \in {0, 1} BY BelongsType
<1>3. TypeInv
  <2>1. nRefs \in [Solvers -> Int] BY <1>2
  <2>2. lists \in [Roles -> [Solvers -> Nat]] BY <1>2
  <2>3. adding \in [Roles -> [Solvers -> Nat]] BY DEF Nowhere
  <2>4. member \in [Roles -> SUBSET Solvers] BY RoleAssumption
  <2>5. removing \in [Roles -> Seq(Solvers)] OBVIOUS
  <2>6. QED BY <2>1, <2>2, <2>3, <2>4, <2>5 DEF TypeInv
<1>4. Alive BY DEF Alive
<1>5. ASSUME NEW r \in Roles PROVE RequestInv(r) /\ Pending(r) = {}
  <2>1. removing[r] = <<>> /\ Len(removing[r]) = 0 /\ DOMAIN removing[r] = {} BY <1>5
  <2>2. Done(r) = 0 BY DEF Done
  <2>3. QED BY <2>1, <2>2 DEF RequestInv, Pending
<1>6. ASSUME NEW r \in Roles, NEW s \in Solvers
      PROVE  PlaceInv(r, s) /\ Held(r, s) = Belongs(s, Initial[r])
  <2>1. Belongs(<<r, s>>, {client}) = 0 BY DEF Belongs, NoRequest
  <2>2. lists[r][s] = Belongs(s, Initial[r]) /\ adding[r][s] = 0 BY <1>6 DEF Nowhere
  <2>3. Held(r, s) = Belongs(s, Initial[r])
    <3>1. Held(r, s) = Belongs(<<r, s>>, {client}) + lists[r][s] + adding[r][s] - 0
      BY <1>4, HeldAlive
    <3>2. Belongs(s, Initial[r]) \in {0, 1} BY BelongsType
    <3>3. QED BY <2>1, <2>2, <3>1, <3>2
  <2>4. member[r] \cup Pending(r) = Initial[r] BY <1>5, <1>6
  <2>5. client # <<r, s>> BY DEF NoRequest
  <2>6. QED BY <1>5, <1>6, <2>2, <2>3, <2>4, <2>5 DEF PlaceInv
<1>7. ASSUME NEW s \in Solvers PROVE RefInv(s)
  <2>1. nRefs[s] = 1 + Belongs(s, Initial["producers"]) + Belongs(s, Initial["consumers"])
    BY <1>7
  <2>2. /\ Held("producers", s) = Belongs(s, Initial["producers"])
        /\ Held("consumers", s) = Belongs(s, Initial["consumers"])
    BY <1>6, <1>7 DEF Roles
  <2>3. Belongs(s, owned) = 1 BY <1>7 DEF Belongs
  <2>4. nRefs[s] # 0 BY <1>2, <2>1
  <2>5. QED BY <2>1, <2>2, <2>3, <2>4 DEF RefInv
<1>8. QED BY <1>3, <1>5, <1>6, <1>7 DEF IInv

-----------------------------------------------------------------------------
(* The steps. *)

\* A step that moves no place and no reference.
LEMMA Still ==
  ASSUME IInv, TypeInv', UNCHANGED <<nRefs, deleted, owned, member, asked>>,
         \A r \in Roles, s \in Solvers : Held(r, s)' = Held(r, s),
         \A r \in Roles : RequestInv(r)' /\ Pending(r)' = Pending(r),
         \A r \in Roles, s \in Solvers :
           /\ s \in Pending(r) => lists'[r][s] = 1
           /\ s \notin asked[r] => adding'[r][s] = 0 /\ client' # <<r, s>>
  PROVE  IInv'
<1>1. ASSUME NEW r \in Roles, NEW s \in Solvers PROVE PlaceInv(r, s)'
  BY <1>1 DEF IInv, PlaceInv
<1>2. ASSUME NEW s \in Solvers PROVE RefInv(s)'
  <2>1. Held("producers", s)' = Held("producers", s)
        /\ Held("consumers", s)' = Held("consumers", s)
    BY <1>2 DEF Roles
  <2>2. QED BY <1>2, <2>1 DEF IInv, RefInv
<1>3. QED BY <1>1, <1>2 DEF IInv

LEMMA QuietSteps ==
  ASSUME IInv, End \/ WakeUp \/ DoSharing
  PROVE  IInv'
<1>1. /\ TypeInv /\ \A r \in Roles : RequestInv(r)
      /\ \A r \in Roles, s \in Solvers : PlaceInv(r, s)
  BY DEF IInv
<1>2. UNCHANGED <<nRefs, deleted, lists, adding, removing, owned, member, asked, client>>
  BY DEF End, WakeUp, DoSharing, solverVars, clientVars
<1>3. CASE End
  <2>1. UNCHANGED <<pc, served>> BY <1>3 DEF End, threadVars
  <2>2. TypeInv' BY <1>1, <1>2, <2>1 DEF TypeInv
  <2>3. \A r \in Roles : Done(r)' = Done(r) BY <2>1 DEF Done
  <2>4. \A r \in Roles : RequestInv(r)' /\ Pending(r)' = Pending(r)
    BY <1>1, <1>2, <2>3 DEF RequestInv, Pending
  <2>5. \A r \in Roles, s \in Solvers : Held(r, s)' = Held(r, s)
    BY <1>2, <2>1 DEF Held, GivenBack, Alive
  <2>6. QED BY <1>1, <1>2, <2>2, <2>4, <2>5, Still DEF PlaceInv
<1>4. CASE WakeUp \/ DoSharing
  <2>1. /\ pc \in {"sleep", "share"} /\ pc' \in {"stop", "add", "remove"}
        /\ pc' = "remove" => served' = [r \in Roles |-> 0]
        /\ served' = served \/ served' = [r \in Roles |-> 0]
    BY <1>4 DEF WakeUp, DoSharing
  <2>2. TypeInv' BY <1>1, <1>2, <2>1 DEF TypeInv
  <2>3. \A r \in Roles : Done(r)' = 0 /\ Done(r) = 0 BY <2>1 DEF Done
  <2>4. \A r \in Roles : RequestInv(r)' /\ Pending(r)' = Pending(r)
    BY <1>1, <1>2, <2>3 DEF RequestInv, Pending
  <2>5. \A r \in Roles, s \in Solvers : Held(r, s)' = Held(r, s)
    BY <1>2, <2>1 DEF Held, GivenBack, Alive
  <2>6. QED BY <1>1, <1>2, <2>2, <2>4, <2>5, Still DEF PlaceInv
<1>5. QED BY <1>3, <1>4

LEMMA NewAreAdded ==
  ASSUME IInv, AddNew
  PROVE  IInv'
<1>1. /\ TypeInv /\ \A r \in Roles : RequestInv(r)
      /\ \A r \in Roles, s \in Solvers : PlaceInv(r, s)
  BY DEF IInv
<1>2. /\ UNCHANGED <<nRefs, deleted, removing, served, owned, member, asked, client>>
      /\ pc = "add" /\ pc' = "share"
      /\ lists' = [r \in Roles |-> [s \in Solvers |-> lists[r][s] + adding[r][s]]]
      /\ adding' = [r \in Roles |-> Nowhere]
  BY DEF AddNew, solverVars, clientVars
<1>3. \A r \in Roles, s \in Solvers :
        /\ lists'[r][s] = lists[r][s] + adding[r][s] /\ adding'[r][s] = 0
        /\ lists[r][s] \in Nat /\ adding[r][s] \in Nat
  BY <1>1, <1>2 DEF TypeInv, Nowhere
<1>4. TypeInv'
  <2>1. lists' \in [Roles -> [Solvers -> Nat]] BY <1>2, <1>3
  <2>2. adding' \in [Roles -> [Solvers -> Nat]] BY <1>2 DEF Nowhere
  <2>3. QED BY <1>1, <1>2, <2>1, <2>2 DEF TypeInv
<1>5. \A r \in Roles : Done(r)' = 0 /\ Done(r) = 0 BY <1>2 DEF Done
<1>6. \A r \in Roles : RequestInv(r)' /\ Pending(r)' = Pending(r)
  BY <1>1, <1>2, <1>5 DEF RequestInv, Pending
<1>7. ASSUME NEW r \in Roles, NEW s \in Solvers
      PROVE  /\ Held(r, s)' = Held(r, s)
             /\ s \in Pending(r) => lists'[r][s] = 1
             /\ s \notin asked[r] => adding'[r][s] = 0 /\ client' # <<r, s>>
  <2>1. /\ lists'[r][s] = lists[r][s] + adding[r][s] /\ adding'[r][s] = 0
        /\ lists[r][s] \in Nat /\ adding[r][s] \in Nat
    BY <1>3
  <2>2. Held(r, s) = Belongs(<<r, s>>, {client}) + lists[r][s] + adding[r][s] - 0
    BY <1>2 DEF Held, GivenBack, Alive
  <2>3. Held(r, s)' = Belongs(<<r, s>>, {client}) + lists'[r][s] + adding'[r][s] - 0
    BY <1>2 DEF Held, GivenBack, Alive, Belongs
  <2>4. Belongs(<<r, s>>, {client}) \in {0, 1} BY BelongsType
  <2>5. Held(r, s) \in {0, 1} BY HeldType
  <2>6. Held(r, s)' = Held(r, s) BY <2>1, <2>2, <2>3, <2>4
  <2>7. s \in Pending(r) => lists[r][s] = 1 BY <1>1 DEF PlaceInv
  <2>8. s \in Pending(r) => adding[r][s] = 0 BY <2>1, <2>2, <2>4, <2>5, <2>7
  <2>9. s \in Pending(r) => lists'[r][s] = 1 BY <2>1, <2>7, <2>8
  <2>10. s \notin asked[r] => client' # <<r, s>> BY <1>1, <1>2 DEF PlaceInv
  <2>11. QED BY <2>1, <2>6, <2>9, <2>10
<1>8. QED BY <1>2, <1>4, <1>6, <1>7, Still

LEMMA RequestsAreDropped ==
  ASSUME IInv, Removed
  PROVE  IInv'
<1>1. /\ TypeInv /\ \A r \in Roles : RequestInv(r)
      /\ \A r \in Roles, s \in Solvers : PlaceInv(r, s)
  BY DEF IInv
<1>2. /\ UNCHANGED <<nRefs, deleted, lists, adding, served, owned, member, asked, client>>
      /\ pc = "remove" /\ pc' \in {"stop", "sleep"}
      /\ \A r \in Roles : served[r] = Len(removing[r])
      /\ removing' = [r \in Roles |-> <<>>]
  BY DEF Removed, solverVars, clientVars
<1>3. TypeInv' BY <1>1, <1>2 DEF TypeInv
<1>4. \A r \in Roles : Pending(r) = {}
  <2>1. \A r \in Roles : Done(r) = Len(removing[r]) BY <1>2 DEF Done
  <2>2. \A r \in Roles : Len(removing[r]) \in Nat BY <1>1 DEF TypeInv
  <2>3. \A r \in Roles : Done(r) + 1 .. Len(removing[r]) = {} BY <2>1, <2>2
  <2>4. QED BY <2>3 DEF Pending
<1>5. \A r \in Roles : RequestInv(r)' /\ Pending(r)' = {}
  <2>1. /\ \A r \in Roles : removing'[r] = <<>> /\ Len(removing'[r]) = 0
           /\ DOMAIN removing'[r] = {}
    BY <1>2
  <2>2. \A r \in Roles : Done(r)' = 0 BY <1>2 DEF Done
  <2>3. QED BY <2>1, <2>2 DEF RequestInv, Pending
<1>6. \A r \in Roles, s \in Solvers : Held(r, s)' = Held(r, s)
  BY <1>2 DEF Held, GivenBack, Alive
<1>7. QED BY <1>1, <1>2, <1>3, <1>4, <1>5, <1>6, Still DEF PlaceInv

LEMMA DestructorJoins ==
  ASSUME IInv, Join \/ Destroyed
  PROVE  IInv'
<1>1. /\ TypeInv /\ \A r \in Roles : RequestInv(r)
      /\ \A r \in Roles, s \in Solvers : PlaceInv(r, s)
  BY DEF IInv
<1>2. UNCHANGED <<nRefs, deleted, lists, adding, removing, owned, member, asked, client>>
  BY DEF Join, Destroyed, solverVars, clientVars
<1>3. CASE Join
  <2>1. pc = "stop" /\ pc' = "destroy" /\ served' = [r \in Roles |-> 0] BY <1>3 DEF Join
  <2>2. TypeInv' BY <1>1, <1>2, <2>1 DEF TypeInv
  <2>3. \A r \in Roles : Done(r)' = 0 /\ Done(r) = 0 BY <2>1 DEF Done
  <2>4. \A r \in Roles : RequestInv(r)' /\ Pending(r)' = Pending(r)
    BY <1>1, <1>2, <2>3 DEF RequestInv, Pending
  <2>5. ASSUME NEW r \in Roles, NEW s \in Solvers PROVE Held(r, s)' = Held(r, s)
    <3>1. GivenBack(r, s) = 0 BY <2>1 DEF GivenBack, Alive
    <3>2. GivenBack(r, s)' = Cardinality({n \in 1 .. served'[r] : removing'[r][n] = s})
      BY <2>1 DEF GivenBack, Alive
    <3>3. {n \in 1 .. served'[r] : removing'[r][n] = s} = {} BY <2>1
    <3>4. GivenBack(r, s)' = 0 BY <3>2, <3>3, FS_EmptySet
    <3>5. QED BY <1>2, <3>1, <3>4 DEF Held
  <2>6. QED BY <1>1, <1>2, <2>2, <2>4, <2>5, Still DEF PlaceInv
<1>4. CASE Destroyed
  <2>1. pc = "destroy" /\ pc' = "joined" /\ served' = served BY <1>4 DEF Destroyed
  <2>2. TypeInv' BY <1>1, <1>2, <2>1 DEF TypeInv
  <2>3. \A r \in Roles : Done(r)' = Done(r) BY <2>1 DEF Done
  <2>4. \A r \in Roles : RequestInv(r)' /\ Pending(r)' = Pending(r)
    BY <1>1, <1>2, <2>3 DEF RequestInv, Pending
  <2>5. \A r \in Roles, s \in Solvers : Held(r, s)' = Held(r, s)
    BY <1>2, <2>1 DEF Held, GivenBack, Alive
  <2>6. QED BY <1>1, <1>2, <2>2, <2>4, <2>5, Still DEF PlaceInv
<1>5. QED BY <1>3, <1>4

LEMMA ClientPushes ==
  ASSUME IInv, AddPush
  PROVE  IInv'
<1>1. /\ TypeInv /\ \A r \in Roles : RequestInv(r)
      /\ \A r \in Roles, s \in Solvers : PlaceInv(r, s)
  BY DEF IInv
<1>2. PICK q \in Roles, t \in Solvers : client = <<q, t>> BY <1>1 DEF TypeInv, AddPush
<1>3. /\ UNCHANGED <<nRefs, deleted, lists, removing, pc, served, owned, member, asked>>
      /\ adding' = [adding EXCEPT ![q][t] = @ + 1] /\ client' = NoRequest
  BY <1>2 DEF AddPush, solverVars, threadVars
<1>4. /\ adding'[q][t] = adding[q][t] + 1 /\ adding[q][t] \in Nat
      /\ \A r \in Roles, s \in Solvers : r # q \/ s # t => adding'[r][s] = adding[r][s]
      /\ adding' \in [Roles -> [Solvers -> Nat]]
  BY <1>1, <1>3 DEF TypeInv
<1>5. TypeInv' BY <1>1, <1>3, <1>4 DEF TypeInv
<1>6. \A r \in Roles : Done(r)' = Done(r) BY <1>3 DEF Done
<1>7. \A r \in Roles : RequestInv(r)' /\ Pending(r)' = Pending(r)
  BY <1>1, <1>3, <1>6 DEF RequestInv, Pending
<1>8. ASSUME NEW r \in Roles, NEW s \in Solvers
      PROVE  /\ Held(r, s)' = Held(r, s)
             /\ s \in Pending(r) => lists'[r][s] = 1
             /\ s \notin asked[r] => adding'[r][s] = 0 /\ client' # <<r, s>>
  <2>1. GivenBack(r, s)' = GivenBack(r, s) BY <1>3 DEF GivenBack, Alive
  <2>2. Belongs(<<r, s>>, {client'}) = 0 BY <1>3 DEF Belongs, NoRequest
  <2>3. lists[r][s] \in Nat /\ adding[r][s] \in Nat BY <1>1 DEF TypeInv
  <2>4. Belongs(<<r, s>>, {client}) + adding[r][s] = 0 + adding'[r][s]
    <3>1. CASE r = q /\ s = t
      <4>1. Belongs(<<r, s>>, {client}) = 1 BY <1>2, <3>1 DEF Belongs
      <4>2. QED BY <1>4, <3>1, <4>1
    <3>2. CASE r # q \/ s # t
      <4>1. Belongs(<<r, s>>, {client}) = 0 BY <1>2, <3>2 DEF Belongs
      <4>2. QED BY <1>4, <2>3, <3>2, <4>1
    <3>3. QED BY <3>1, <3>2
  <2>5. GivenBack(r, s) \in {0, 1} BY GivenType
  <2>6. Held(r, s)' = Held(r, s)
    BY <1>3, <2>1, <2>2, <2>3, <2>4, <2>5, BelongsType DEF Held
  <2>7. s \notin asked[r] => (r # q \/ s # t) BY <1>1, <1>2 DEF PlaceInv
  <2>8. client' # <<r, s>> BY <1>3 DEF NoRequest
  <2>9. QED BY <1>1, <1>3, <1>4, <2>6, <2>7, <2>8 DEF PlaceInv
<1>9. QED BY <1>3, <1>5, <1>7, <1>8, Still

LEMMA ClientAdds ==
  ASSUME IInv, NEW q \in Roles, NEW t \in Solvers, AddIncrease(q, t)
  PROVE  IInv'
<1>1. /\ TypeInv /\ \A r \in Roles : RequestInv(r)
      /\ \A r \in Roles, s \in Solvers : PlaceInv(r, s)
      /\ \A s \in Solvers : RefInv(s)
  BY DEF IInv
<1>2. /\ UNCHANGED <<deleted, lists, adding, removing, pc, served, owned>>
      /\ client = NoRequest /\ client' = <<q, t>>
      /\ t \in owned /\ t \notin member[q] /\ t \notin asked[q]
      /\ nRefs' = [nRefs EXCEPT ![t] = @ + 1]
      /\ member' = [member EXCEPT ![q] = @ \cup {t}]
      /\ asked' = [asked EXCEPT ![q] = @ \cup {t}]
  BY DEF AddIncrease, Free, threadVars
<1>3. /\ \A s \in Solvers : nRefs'[s] = IF s = t THEN nRefs[s] + 1 ELSE nRefs[s]
      /\ \A r \in Roles : member'[r] = IF r = q THEN member[r] \cup {t} ELSE member[r]
      /\ \A r \in Roles : asked'[r] = IF r = q THEN asked[r] \cup {t} ELSE asked[r]
  BY <1>1, <1>2 DEF TypeInv
<1>4. TypeInv' BY <1>1, <1>2 DEF TypeInv
<1>5. \A r \in Roles : Done(r)' = Done(r) /\ Pending(r)' = Pending(r) BY <1>2 DEF Done, Pending
<1>6. ASSUME NEW r \in Roles PROVE RequestInv(r)'
  <2>1. \A n \in DOMAIN removing[r] : r = q => removing[r][n] # t BY <1>1, <1>2 DEF RequestInv
  <2>2. QED BY <1>1, <1>2, <1>3, <1>5, <2>1 DEF RequestInv
<1>7. t \notin Pending(q)
  <2>1. Done(q) \in Nat BY <1>1 DEF Done, TypeInv
  <2>2. DOMAIN removing[q] = 1 .. Len(removing[q]) /\ Len(removing[q]) \in Nat
    BY <1>1 DEF TypeInv
  <2>3. \A n \in Done(q) + 1 .. Len(removing[q]) : n \in DOMAIN removing[q] BY <2>1, <2>2
  <2>4. QED BY <1>1, <1>2, <2>3 DEF RequestInv, Pending
<1>8. ASSUME NEW r \in Roles, NEW s \in Solvers
      PROVE  Held(r, s)' = IF r = q /\ s = t THEN 1 ELSE Held(r, s)
  <2>1. GivenBack(r, s)' = GivenBack(r, s) BY <1>2 DEF GivenBack, Alive
  <2>2. Belongs(<<r, s>>, {client}) = 0 BY <1>2 DEF Belongs, NoRequest
  <2>3. Belongs(<<r, s>>, {client'}) = IF r = q /\ s = t THEN 1 ELSE 0 BY <1>2 DEF Belongs
  <2>4. /\ lists[r][s] \in Nat /\ adding[r][s] \in Nat /\ GivenBack(r, s) \in {0, 1}
    BY <1>1, GivenType DEF TypeInv
  <2>5. /\ Held(r, s) = 0 + lists[r][s] + adding[r][s] - GivenBack(r, s)
        /\ Held(r, s)' = (IF r = q /\ s = t THEN 1 ELSE 0) + lists[r][s] + adding[r][s] - GivenBack(r, s)
    BY <1>2, <2>1, <2>2, <2>3 DEF Held
  <2>6. Held(r, s) = Belongs(s, member[r] \cup Pending(r)) BY <1>1 DEF PlaceInv
  <2>7. r = q /\ s = t => Held(r, s) = 0 BY <1>2, <1>7, <2>6 DEF Belongs
  <2>8. CASE r = q /\ s = t BY <2>4, <2>5, <2>7, <2>8
  <2>9. CASE ~ (r = q /\ s = t) BY <2>4, <2>5, <2>9
  <2>10. QED BY <2>8, <2>9
<1>9. ASSUME NEW r \in Roles, NEW s \in Solvers PROVE PlaceInv(r, s)'
  <2>1. Held(r, s) = Belongs(s, member[r] \cup Pending(r)) BY <1>1 DEF PlaceInv
  <2>2. Held(r, s)' = Belongs(s, member'[r] \cup Pending(r)')
    BY <1>3, <1>5, <1>8, <2>1 DEF Belongs
  <2>3. s \in Pending(r)' => lists'[r][s] = 1 BY <1>1, <1>2, <1>5 DEF PlaceInv
  <2>4. s \notin asked'[r] => s \notin asked[r] /\ (r # q \/ s # t) BY <1>3
  <2>5. s \notin asked'[r] => adding'[r][s] = 0 /\ client' # <<r, s>>
    BY <1>1, <1>2, <2>4 DEF PlaceInv
  <2>6. QED BY <2>2, <2>3, <2>5 DEF PlaceInv
<1>10. ASSUME NEW s \in Solvers PROVE RefInv(s)'
  <2>1. /\ "producers" \in Roles /\ "consumers" \in Roles /\ "producers" # "consumers"
           /\ q \in {"producers", "consumers"}
    BY DEF Roles
  <2>2. /\ Held("producers", s) \in {0, 1} /\ Held("consumers", s) \in {0, 1}
        /\ (s = t => Held(q, s) = 0)
    <3>1. Held(q, t) = Belongs(t, member[q] \cup Pending(q)) BY <1>1 DEF PlaceInv
    <3>2. Held(q, t) = 0 BY <1>2, <1>7, <3>1 DEF Belongs
    <3>3. QED BY <2>1, <3>2, HeldType
  <2>3. nRefs[s] = Belongs(s, owned) + Held("producers", s) + Held("consumers", s)
    BY <1>1 DEF RefInv
  <2>4. Belongs(s, owned) \in {0, 1} /\ (s = t => Belongs(s, owned) = 1) BY <1>2 DEF Belongs
  <2>5. nRefs'[s] = Belongs(s, owned) + Held("producers", s)' + Held("consumers", s)'
    <3>1. CASE s # t BY <1>3, <1>8, <2>1, <2>3, <3>1
    <3>2. CASE s = t /\ q = "producers" BY <1>3, <1>8, <2>1, <2>2, <2>3, <2>4, <3>2
    <3>3. CASE s = t /\ q = "consumers" BY <1>3, <1>8, <2>1, <2>2, <2>3, <2>4, <3>3
    <3>4. QED BY <2>1, <3>1, <3>2, <3>3
  <2>6. nRefs'[s] = 0 <=> s \in deleted
    <3>1. CASE s # t BY <1>1, <1>3, <3>1 DEF RefInv
    <3>2. CASE s = t
      <4>1. nRefs[s] # 0 /\ nRefs[s] \in Nat BY <2>2, <2>3, <2>4, <3>2
      <4>2. nRefs'[s] # 0 BY <1>3, <3>2, <4>1
      <4>3. QED BY <1>1, <4>1, <4>2 DEF RefInv
    <3>3. QED BY <3>1, <3>2
  <2>7. QED BY <1>2, <2>5, <2>6 DEF RefInv
<1>11. QED BY <1>4, <1>6, <1>9, <1>10 DEF IInv

LEMMA ClientRemoves ==
  ASSUME IInv, NEW q \in Roles, NEW t \in Solvers, RemoveRequest(q, t)
  PROVE  IInv'
<1>1. /\ TypeInv /\ \A r \in Roles : RequestInv(r)
      /\ \A r \in Roles, s \in Solvers : PlaceInv(r, s)
      /\ \A s \in Solvers : RefInv(s)
  BY DEF IInv
<1>2. /\ UNCHANGED <<nRefs, deleted, lists, adding, pc, served, owned, client>>
      /\ Alive /\ client = NoRequest /\ t \in member[q] /\ t \notin asked[q]
      /\ removing' = [removing EXCEPT ![q] = Append(@, t)]
      /\ member' = [member EXCEPT ![q] = @ \ {t}]
      /\ asked' = [asked EXCEPT ![q] = @ \cup {t}]
  BY DEF RemoveRequest, Free, threadVars, solverVars
<1>3. /\ \A r \in Roles : removing'[r] = IF r = q THEN Append(removing[r], t) ELSE removing[r]
      /\ \A r \in Roles : member'[r] = IF r = q THEN member[r] \ {t} ELSE member[r]
      /\ \A r \in Roles : asked'[r] = IF r = q THEN asked[r] \cup {t} ELSE asked[r]
  BY <1>1, <1>2 DEF TypeInv
<1>4. removing' \in [Roles -> Seq(Solvers)] BY <1>1, <1>2 DEF TypeInv
<1>5. TypeInv' BY <1>1, <1>2, <1>4 DEF TypeInv
<1>6. \A r \in Roles : /\ Done(r)' = Done(r) /\ Done(r) \in Nat /\ Done(r) <= Len(removing[r])
                       /\ Len(removing[r]) \in Nat /\ DOMAIN removing[r] = 1 .. Len(removing[r])
                       /\ removing[r] \in Seq(Solvers)
  BY <1>1, <1>2 DEF Done, TypeInv, RequestInv
<1>7. /\ Len(removing'[q]) = Len(removing[q]) + 1
      /\ DOMAIN removing'[q] = 1 .. Len(removing[q]) + 1
      /\ removing'[q][Len(removing[q]) + 1] = t
      /\ \A n \in 1 .. Len(removing[q]) : removing'[q][n] = removing[q][n] /\ removing[q][n] # t
  <2>1. \A n \in DOMAIN removing[q] : removing[q][n] # t BY <1>1, <1>2 DEF RequestInv
  <2>2. removing'[q] = Append(removing[q], t) BY <1>3
  <2>3. QED BY <1>6, <2>1, <2>2
<1>8. ASSUME NEW r \in Roles PROVE RequestInv(r)'
  <2>1. CASE r # q BY <1>1, <1>3, <1>6, <2>1 DEF RequestInv
  <2>2. CASE r = q
    <3>1. \A n \in DOMAIN removing'[q] : n \in 1 .. Len(removing[q]) \/ n = Len(removing[q]) + 1
      BY <1>6, <1>7
    <3>2. \A n \in DOMAIN removing'[q] : removing'[q][n] \in asked'[q]
          /\ removing'[q][n] \notin member'[q]
      <4>1. \A n \in 1 .. Len(removing[q]) : removing[q][n] \in asked[q]
            /\ removing[q][n] \notin member[q]
        BY <1>1, <1>6 DEF RequestInv
      <4>2. asked'[q] = asked[q] \cup {t} /\ member'[q] = member[q] \ {t} BY <1>3
      <4>3. QED BY <1>7, <3>1, <4>1, <4>2
    <3>3. \A m, n \in DOMAIN removing'[q] : removing'[q][m] = removing'[q][n] => m = n
      BY <1>1, <1>6, <1>7, <3>1, SMTT(30) DEF RequestInv
    <3>4. Done(q)' <= Len(removing'[q]) BY <1>6, <1>7
    <3>5. QED BY <2>2, <3>2, <3>3, <3>4 DEF RequestInv
  <2>3. QED BY <2>1, <2>2
<1>9. \A r \in Roles : Pending(r)' = IF r = q THEN Pending(r) \cup {t} ELSE Pending(r)
  <2>1. \A r \in Roles : r # q => Pending(r)' = Pending(r) BY <1>3, <1>6 DEF Pending
  <2>2. \A n \in Done(q) + 1 .. Len(removing[q]) + 1 :
          n \in Done(q) + 1 .. Len(removing[q]) \/ n = Len(removing[q]) + 1
    BY <1>6
  <2>3. \A n \in Done(q) + 1 .. Len(removing[q]) :
          n \in Done(q) + 1 .. Len(removing[q]) + 1 /\ n \in 1 .. Len(removing[q])
    BY <1>6
  <2>4. Len(removing[q]) + 1 \in Done(q) + 1 .. Len(removing[q]) + 1 BY <1>6
  <2>5. Pending(q)' = {removing'[q][n] : n \in Done(q) + 1 .. Len(removing[q]) + 1}
    BY <1>6, <1>7 DEF Pending
  <2>6. Pending(q)' = Pending(q) \cup {t}
    BY <1>7, <2>2, <2>3, <2>4, <2>5 DEF Pending
  <2>7. QED BY <2>1, <2>6
<1>10. \A r \in Roles, s \in Solvers : Held(r, s)' = Held(r, s)
  BY <1>2 DEF Held, GivenBack, Alive
<1>11. lists[q][t] = 1
  <2>1. adding[q][t] = 0 BY <1>1, <1>2 DEF PlaceInv
  <2>2. Held(q, t) = 1 BY <1>2, HeldType
  <2>3. Held(q, t) = Belongs(<<q, t>>, {client}) + lists[q][t] + adding[q][t] - 0
    BY <1>2, HeldAlive
  <2>4. Belongs(<<q, t>>, {client}) = 0 BY <1>2 DEF Belongs, NoRequest
  <2>5. lists[q][t] \in Nat BY <1>1 DEF TypeInv
  <2>6. QED BY <2>1, <2>2, <2>3, <2>4, <2>5
<1>12. ASSUME NEW r \in Roles, NEW s \in Solvers PROVE PlaceInv(r, s)'
  <2>1. member'[r] \cup Pending(r)' = member[r] \cup Pending(r) BY <1>2, <1>3, <1>9
  <2>2. Held(r, s)' = Belongs(s, member'[r] \cup Pending(r)') BY <1>1, <1>10, <2>1 DEF PlaceInv
  <2>3. s \in Pending(r)' => lists'[r][s] = 1 BY <1>1, <1>2, <1>9, <1>11 DEF PlaceInv
  <2>4. s \notin asked'[r] => s \notin asked[r] BY <1>3
  <2>5. s \notin asked'[r] => adding'[r][s] = 0 /\ client' # <<r, s>>
    BY <1>1, <1>2, <2>4 DEF PlaceInv
  <2>6. QED BY <2>2, <2>3, <2>5 DEF PlaceInv
<1>13. ASSUME NEW s \in Solvers PROVE RefInv(s)'
  <2>1. Held("producers", s)' = Held("producers", s)
        /\ Held("consumers", s)' = Held("consumers", s)
    BY <1>10 DEF Roles
  <2>2. QED BY <1>1, <1>2, <2>1 DEF RefInv
<1>14. QED BY <1>5, <1>8, <1>12, <1>13 DEF IInv

LEMMA ClientDisowns ==
  ASSUME IInv, NEW t \in Solvers, Disown(t)
  PROVE  IInv'
<1>1. /\ TypeInv /\ \A r \in Roles : RequestInv(r)
      /\ \A r \in Roles, s \in Solvers : PlaceInv(r, s)
      /\ \A s \in Solvers : RefInv(s)
  BY DEF IInv
<1>2. /\ UNCHANGED <<lists, adding, removing, pc, served, member, asked, client>>
      /\ t \in owned /\ owned' = owned \ {t}
      /\ nRefs' = [nRefs EXCEPT ![t] = @ - 1]
      /\ deleted' = IF nRefs[t] - 1 = 0 THEN deleted \cup {t} ELSE deleted
  BY DEF Disown, Release, threadVars
<1>3. \A s \in Solvers : nRefs'[s] = IF s = t THEN nRefs[s] - 1 ELSE nRefs[s]
  BY <1>1, <1>2 DEF TypeInv
<1>4. TypeInv' BY <1>1, <1>2 DEF TypeInv
<1>5. \A r \in Roles : Done(r)' = Done(r) /\ Pending(r)' = Pending(r) BY <1>2 DEF Done, Pending
<1>6. \A r \in Roles : RequestInv(r)' BY <1>1, <1>2, <1>5 DEF RequestInv
<1>7. \A r \in Roles, s \in Solvers : Held(r, s)' = Held(r, s)
  BY <1>2 DEF Held, GivenBack, Alive
<1>8. \A r \in Roles, s \in Solvers : PlaceInv(r, s)' BY <1>1, <1>2, <1>5, <1>7 DEF PlaceInv
<1>9. ASSUME NEW s \in Solvers PROVE RefInv(s)'
  <2>1. /\ Held("producers", s)' = Held("producers", s)
        /\ Held("consumers", s)' = Held("consumers", s)
        /\ Held("producers", s) \in {0, 1} /\ Held("consumers", s) \in {0, 1}
    BY <1>7, HeldType DEF Roles
  <2>2. nRefs[s] = Belongs(s, owned) + Held("producers", s) + Held("consumers", s)
    BY <1>1 DEF RefInv
  <2>3. CASE s # t
    <3>1. Belongs(s, owned') = Belongs(s, owned) BY <1>2, <2>3 DEF Belongs
    <3>2. nRefs'[s] = nRefs[s] /\ (s \in deleted' <=> s \in deleted) BY <1>2, <1>3, <2>3
    <3>3. QED BY <1>1, <2>1, <3>1, <3>2 DEF RefInv
  <2>4. CASE s = t
    <3>1. Belongs(s, owned') = 0 /\ Belongs(s, owned) = 1 BY <1>2, <2>4 DEF Belongs
    <3>2. nRefs'[s] = nRefs[s] - 1 /\ nRefs[s] \in Nat /\ nRefs[s] # 0
      BY <1>3, <2>1, <2>2, <2>4, <3>1
    <3>3. nRefs'[s] = Belongs(s, owned') + Held("producers", s)' + Held("consumers", s)'
      BY <2>1, <2>2, <3>1, <3>2
    <3>4. s \notin deleted BY <1>1, <3>2 DEF RefInv
    <3>5. nRefs'[s] = 0 <=> s \in deleted' BY <1>2, <2>4, <3>2, <3>4
    <3>6. QED BY <3>3, <3>5 DEF RefInv
  <2>5. QED BY <2>3, <2>4
<1>10. QED BY <1>4, <1>6, <1>8, <1>9 DEF IInv

\* The thread and the destructor serve a request: its place and its reference go.
LEMMA OneServed ==
  ASSUME IInv, NEW q \in Roles, Turn(q), pc \in {"remove", "destroy"},
         UNCHANGED <<pc, removing, member, asked>>, served' = [served EXCEPT ![q] = @ + 1]
  PROVE  LET t == removing[q][served[q] + 1]
         IN  /\ t \in Solvers /\ t \in Pending(q) /\ t \notin member[q]
             /\ \A r \in Roles : RequestInv(r)'
             /\ \A r \in Roles : Pending(r)' = IF r = q THEN Pending(r) \ {t} ELSE Pending(r)
             /\ \A n \in 1 .. served[q] : removing[q][n] # t
<1> DEFINE k == served[q] + 1
           t == removing[q][k]
<1>1. TypeInv /\ \A r \in Roles : RequestInv(r) BY DEF IInv
<1>2. /\ \A r \in Roles : Done(r) = served[r] /\ Done(r)' = served'[r] BY DEF Done
<1>3. /\ served[q] \in Nat /\ removing[q] \in Seq(Solvers) /\ Len(removing[q]) \in Nat
      /\ DOMAIN removing[q] = 1 .. Len(removing[q]) /\ served[q] < Len(removing[q])
      /\ \A r \in Roles : served'[r] = IF r = q THEN k ELSE served[r]
  BY <1>1 DEF TypeInv, Turn
<1>4. /\ k \in 1 .. Len(removing[q]) /\ k \in served[q] + 1 .. Len(removing[q])
         /\ k <= Len(removing[q])
  BY <1>3
<1>5. t \in Solvers BY <1>3, <1>4
<1>6. t \in Pending(q) BY <1>2, <1>4 DEF Pending
<1>7. t \notin member[q] BY <1>1, <1>3, <1>4 DEF RequestInv
<1>8. \A n \in 1 .. served[q] : n \in 1 .. Len(removing[q]) /\ n # k BY <1>3
<1>9. \A n \in 1 .. Len(removing[q]) : n # k => removing[q][n] # t
  BY <1>1, <1>3, <1>4 DEF RequestInv
<1>10. ASSUME NEW r \in Roles PROVE RequestInv(r)'
  <2>1. Done(r)' <= Len(removing[r]) BY <1>1, <1>2, <1>3, <1>4 DEF RequestInv
  <2>2. QED BY <1>1, <2>1 DEF RequestInv
<1>11. Pending(q)' = Pending(q) \ {t}
  <2>1. \A n \in served[q] + 1 .. Len(removing[q]) : n = k \/ n \in k + 1 .. Len(removing[q])
    BY <1>3
  <2>2. \A n \in k + 1 .. Len(removing[q]) :
          n \in served[q] + 1 .. Len(removing[q]) /\ n # k /\ n \in 1 .. Len(removing[q])
    BY <1>3
  <2>3. Pending(q)' = {removing[q][n] : n \in k + 1 .. Len(removing[q])}
    BY <1>2, <1>3 DEF Pending
  <2>4. Pending(q) = {removing[q][n] : n \in served[q] + 1 .. Len(removing[q])}
    BY <1>2 DEF Pending
  <2>5. QED BY <1>9, <2>1, <2>2, <2>3, <2>4
<1>12. \A r \in Roles : r # q => Pending(r)' = Pending(r) BY <1>2, <1>3 DEF Pending
<1>13. \A n \in 1 .. served[q] : removing[q][n] # t BY <1>8, <1>9
<1>14. QED BY <1>5, <1>6, <1>7, <1>10, <1>11, <1>12, <1>13

LEMMA OneReleased ==
  ASSUME IInv, NEW q \in Roles, NEW t \in Solvers, t \in Pending(q), t \notin member[q],
         Release(t), TypeInv', UNCHANGED <<owned, member, asked, adding, client>>,
         \A r \in Roles : RequestInv(r)',
         \A r \in Roles : Pending(r)' = IF r = q THEN Pending(r) \ {t} ELSE Pending(r),
         \A r \in Roles, s \in Solvers : Held(r, s)' = IF r = q /\ s = t THEN 0 ELSE Held(r, s),
         \A r \in Roles, s \in Solvers : s \in Pending(r)' => lists'[r][s] = lists[r][s]
  PROVE  IInv'
<1>1. /\ TypeInv /\ \A r \in Roles, s \in Solvers : PlaceInv(r, s)
      /\ \A s \in Solvers : RefInv(s)
  BY DEF IInv
<1>2. /\ \A s \in Solvers : nRefs'[s] = IF s = t THEN nRefs[s] - 1 ELSE nRefs[s]
      /\ deleted' = IF nRefs[t] - 1 = 0 THEN deleted \cup {t} ELSE deleted
  BY <1>1 DEF TypeInv, Release
<1>3. ASSUME NEW r \in Roles, NEW s \in Solvers PROVE PlaceInv(r, s)'
  <2>1. Held(r, s) = Belongs(s, member[r] \cup Pending(r)) BY <1>1 DEF PlaceInv
  <2>2. Held(r, s)' = Belongs(s, member[r] \cup Pending(r)') BY <2>1 DEF Belongs
  <2>3. s \in Pending(r)' => lists'[r][s] = 1
    <3>1. s \in Pending(r)' => s \in Pending(r) OBVIOUS
    <3>2. s \in Pending(r)' => lists'[r][s] = lists[r][s] OBVIOUS
    <3>3. s \in Pending(r) => lists[r][s] = 1 BY <1>1 DEF PlaceInv
    <3>4. QED BY <3>1, <3>2, <3>3
  <2>4. s \notin asked[r] => adding'[r][s] = 0 /\ client' # <<r, s>> BY <1>1 DEF PlaceInv
  <2>5. QED BY <2>2, <2>3, <2>4 DEF PlaceInv
<1>4. ASSUME NEW s \in Solvers PROVE RefInv(s)'
  <2>1. /\ "producers" \in Roles /\ "consumers" \in Roles /\ "producers" # "consumers"
           /\ q \in {"producers", "consumers"}
    BY DEF Roles
  <2>2. Held("producers", s) \in {0, 1} /\ Held("consumers", s) \in {0, 1} BY <2>1, HeldType
  <2>3. nRefs[s] = Belongs(s, owned) + Held("producers", s) + Held("consumers", s)
    BY <1>1 DEF RefInv
  <2>4. Belongs(s, owned) \in {0, 1} BY BelongsType
  <2>5. CASE s # t
    <3>1. /\ Held("producers", s)' = Held("producers", s)
          /\ Held("consumers", s)' = Held("consumers", s)
      BY <2>1, <2>5
    <3>2. nRefs'[s] = nRefs[s] /\ (s \in deleted' <=> s \in deleted) BY <1>2, <2>5
    <3>3. QED BY <1>1, <3>1, <3>2 DEF RefInv
  <2>6. CASE s = t
    <3>1. Held(q, s) = 1 BY <2>6, HeldType
    <3>2. Held(q, s)' = 0 /\ \A r \in Roles : r # q => Held(r, s)' = Held(r, s) BY <2>6
    <3>3. nRefs'[s] = nRefs[s] - 1 BY <1>2, <2>6
    <3>4. nRefs'[s] = Belongs(s, owned) + Held("producers", s)' + Held("consumers", s)'
      <4>1. CASE q = "producers" BY <2>1, <2>2, <2>3, <2>4, <3>1, <3>2, <3>3, <4>1
      <4>2. CASE q = "consumers" BY <2>1, <2>2, <2>3, <2>4, <3>1, <3>2, <3>3, <4>2
      <4>3. QED BY <2>1, <4>1, <4>2
    <3>5. nRefs[s] # 0 /\ nRefs[s] \in Nat
      <4>1. CASE q = "producers" BY <2>1, <2>2, <2>3, <2>4, <3>1, <4>1
      <4>2. CASE q = "consumers" BY <2>1, <2>2, <2>3, <2>4, <3>1, <4>2
      <4>3. QED BY <2>1, <4>1, <4>2
    <3>6. s \notin deleted BY <1>1, <3>5 DEF RefInv
    <3>7. nRefs'[s] = 0 <=> s \in deleted' BY <1>2, <2>6, <3>3, <3>5, <3>6
    <3>8. QED BY <3>4, <3>7 DEF RefInv
  <2>7. QED BY <2>5, <2>6
<1>5. QED BY <1>3, <1>4 DEF IInv

LEMMA ThreadRemoves ==
  ASSUME IInv, NEW q \in Roles, RemoveOne(q)
  PROVE  IInv'
<1> DEFINE t == removing[q][served[q] + 1]
<1>1. /\ TypeInv /\ \A r \in Roles, s \in Solvers : PlaceInv(r, s) BY DEF IInv
<1>2. /\ UNCHANGED <<adding, removing, pc, owned, member, asked, client>>
      /\ pc = "remove" /\ Turn(q) /\ Release(t)
      /\ lists' = [lists EXCEPT ![q] = Without(@, t)]
      /\ served' = [served EXCEPT ![q] = @ + 1]
  BY DEF RemoveOne, clientVars
<1>3. /\ t \in Solvers /\ t \in Pending(q) /\ t \notin member[q]
      /\ \A r \in Roles : RequestInv(r)'
      /\ \A r \in Roles : Pending(r)' = IF r = q THEN Pending(r) \ {t} ELSE Pending(r)
  BY <1>2, OneServed
<1> HIDE DEF t
<1>4. lists' = [lists EXCEPT ![q] = [lists[q] EXCEPT ![t] = 0]] BY <1>2 DEF Without
<1>5. /\ \A r \in Roles, s \in Solvers :
           lists'[r][s] = IF r = q /\ s = t THEN 0 ELSE lists[r][s]
      /\ lists' \in [Roles -> [Solvers -> Nat]]
  BY <1>1, <1>3, <1>4 DEF TypeInv
<1>6. TypeInv'
  <2>1. nRefs' \in [Solvers -> Int] /\ deleted' \subseteq Solvers
    BY <1>1, <1>2, <1>3 DEF TypeInv, Release
  <2>2. served' \in [Roles -> Nat] BY <1>1, <1>2 DEF TypeInv
  <2>3. QED BY <1>1, <1>2, <1>5, <2>1, <2>2 DEF TypeInv
<1>7. ASSUME NEW r \in Roles, NEW s \in Solvers
      PROVE  Held(r, s)' = IF r = q /\ s = t THEN 0 ELSE Held(r, s)
  <2>1. Held(r, s) = Belongs(<<r, s>>, {client}) + lists[r][s] + adding[r][s] - 0
    BY <1>2 DEF Held, GivenBack, Alive
  <2>2. Held(r, s)' = Belongs(<<r, s>>, {client}) + lists'[r][s] + adding[r][s] - 0
    BY <1>2 DEF Held, GivenBack, Alive
  <2>3. CASE ~ (r = q /\ s = t) BY <1>5, <2>1, <2>2, <2>3
  <2>4. CASE r = q /\ s = t
    <3>1. Held(r, s) = 1 /\ lists[r][s] = 1 BY <1>1, <1>3, <2>4, HeldType DEF PlaceInv
    <3>2. Belongs(<<r, s>>, {client}) \in {0, 1} /\ adding[r][s] \in Nat
      BY <1>1, BelongsType DEF TypeInv
    <3>3. Belongs(<<r, s>>, {client}) = 0 /\ adding[r][s] = 0 BY <2>1, <3>1, <3>2
    <3>4. Held(r, s)' = 0 BY <1>5, <2>2, <2>4, <3>3
    <3>5. QED BY <2>4, <3>4
  <2>5. QED BY <2>3, <2>4
<1>8. \A r \in Roles, s \in Solvers : s \in Pending(r)' => lists'[r][s] = lists[r][s]
  BY <1>3, <1>5
<1>9. QED BY <1>2, <1>3, <1>6, <1>7, <1>8, OneReleased

LEMMA DestructorReleases ==
  ASSUME IInv, NEW q \in Roles, DestroyOne(q)
  PROVE  IInv'
<1> DEFINE t == removing[q][served[q] + 1]
<1>1. /\ TypeInv /\ \A r \in Roles, s \in Solvers : PlaceInv(r, s) BY DEF IInv
<1>2. /\ UNCHANGED <<lists, adding, removing, pc, owned, member, asked, client>>
      /\ pc = "destroy" /\ Turn(q) /\ Release(t)
      /\ served' = [served EXCEPT ![q] = @ + 1]
  BY DEF DestroyOne, clientVars
<1>3. /\ t \in Solvers /\ t \in Pending(q) /\ t \notin member[q]
      /\ \A r \in Roles : RequestInv(r)'
      /\ \A r \in Roles : Pending(r)' = IF r = q THEN Pending(r) \ {t} ELSE Pending(r)
      /\ \A n \in 1 .. served[q] : removing[q][n] # t
  BY <1>2, OneServed
<1>4. /\ served[q] \in Nat
      /\ \A r \in Roles : served'[r] = IF r = q THEN served[q] + 1 ELSE served[r]
  BY <1>1, <1>2 DEF TypeInv
<1>5. TypeInv'
  <2>1. nRefs' \in [Solvers -> Int] /\ deleted' \subseteq Solvers
    BY <1>1, <1>2, <1>3, SMTT(30) DEF TypeInv, Release
  <2>2. served' \in [Roles -> Nat] BY <1>1, <1>2 DEF TypeInv
  <2>3. QED BY <1>1, <1>2, <2>1, <2>2 DEF TypeInv
<1>6. ASSUME NEW r \in Roles, NEW s \in Solvers
      PROVE  GivenBack(r, s)' = IF r = q /\ s = t THEN 1 ELSE GivenBack(r, s)
  <2>1. GivenBack(r, s)' = Cardinality({n \in 1 .. served'[r] : removing[r][n] = s})
    BY <1>2 DEF GivenBack, Alive
  <2>2. /\ removing[r] \in Seq(Solvers) /\ served'[r] \in Nat /\ served'[r] <= Len(removing[r])
        /\ \A m, n \in DOMAIN removing[r] : removing[r][m] = removing[r][n] => m = n
    BY <1>2, <1>3, <1>5 DEF TypeInv, RequestInv, Done
  <2>3. GivenBack(r, s)' = Belongs(s, {removing[r][n] : n \in 1 .. served'[r]})
    BY <2>1, <2>2, OncePerSolver
  <2>4. GivenBack(r, s) = Belongs(s, {removing[r][n] : n \in 1 .. served[r]})
    BY <1>2, GivenType DEF Alive
  <2>5. CASE r # q BY <1>4, <2>3, <2>4, <2>5
  <2>6. CASE r = q
    <3>1. \A n \in 1 .. served[q] + 1 : n \in 1 .. served[q] \/ n = served[q] + 1 BY <1>4
    <3>2. 1 .. served[q] \subseteq 1 .. served[q] + 1 /\ served[q] + 1 \in 1 .. served[q] + 1
      BY <1>4
    <3>3. {removing[q][n] : n \in 1 .. served[q] + 1}
            = {removing[q][n] : n \in 1 .. served[q]} \cup {t}
      BY <3>1, <3>2
    <3>4. t \notin {removing[q][n] : n \in 1 .. served[q]} BY <1>3
    <3>5. QED BY <1>4, <2>3, <2>4, <2>6, <3>3, <3>4 DEF Belongs
  <2>7. QED BY <2>5, <2>6
<1> HIDE DEF t
<1>7. ASSUME NEW r \in Roles, NEW s \in Solvers
      PROVE  Held(r, s)' = IF r = q /\ s = t THEN 0 ELSE Held(r, s)
  <2>1. CASE ~ (r = q /\ s = t) BY <1>2, <1>6, <2>1 DEF Held
  <2>2. CASE r = q /\ s = t
    <3>1. Held(r, s) = 1 BY <1>3, <2>2, HeldType
    <3>2. /\ Belongs(<<r, s>>, {client}) \in {0, 1} /\ lists[r][s] \in Nat
          /\ adding[r][s] \in Nat
      BY <1>1, BelongsType DEF TypeInv
    <3>3. GivenBack(r, s)' = 1 BY <1>6, <2>2
    <3>4.
          /\ Held(r, s) = Belongs(<<r, s>>, {client}) + lists[r][s] + adding[r][s] - GivenBack(r, s)
          /\ Held(r, s)' = Belongs(<<r, s>>, {client}) + lists[r][s] + adding[r][s] - 1
      BY <1>2, <3>3 DEF Held
    <3>5. GivenBack(r, s) = 0
      <4>1. GivenBack(r, s) = Belongs(s, {removing[r][n] : n \in 1 .. served[r]})
        BY <1>2, GivenType DEF Alive
      <4>2. QED BY <1>3, <2>2, <4>1 DEF Belongs
    <3>6. Held(r, s)' = 0 BY <3>1, <3>2, <3>4, <3>5
    <3>7. QED BY <2>2, <3>6
  <2>3. QED BY <2>1, <2>2
<1>8. \A r \in Roles, s \in Solvers : s \in Pending(r)' => lists'[r][s] = lists[r][s] BY <1>2
<1>9. QED BY <1>2, <1>3, <1>5, <1>7, <1>8, OneReleased

LEMMA NextInv == IInv /\ [Next]_vars => IInv'
<1> SUFFICES ASSUME IInv, [Next]_vars PROVE IInv' OBVIOUS
<1>1. CASE Client
  <2>1. ASSUME NEW r \in Roles, NEW s \in Solvers, AddIncrease(r, s) PROVE IInv'
    BY <2>1, ClientAdds
  <2>2. ASSUME NEW r \in Roles, NEW s \in Solvers, RemoveRequest(r, s) PROVE IInv'
    BY <2>2, ClientRemoves
  <2>3. CASE AddPush BY <2>3, ClientPushes
  <2>4. ASSUME NEW s \in Solvers, Disown(s) PROVE IInv' BY <2>4, ClientDisowns
  <2>5. QED BY <1>1, <2>1, <2>2, <2>3, <2>4 DEF Client
<1>2. CASE Thread
  <2>1. CASE WakeUp \/ DoSharing BY <2>1, QuietSteps
  <2>2. CASE AddNew BY <2>2, NewAreAdded
  <2>3. ASSUME NEW r \in Roles, RemoveOne(r) PROVE IInv' BY <2>3, ThreadRemoves
  <2>4. CASE Removed BY <2>4, RequestsAreDropped
  <2>5. QED BY <1>2, <2>1, <2>2, <2>3, <2>4 DEF Thread
<1>3. CASE Destructor
  <2>1. CASE Join \/ Destroyed BY <2>1, DestructorJoins
  <2>2. ASSUME NEW r \in Roles, DestroyOne(r) PROVE IInv' BY <2>2, DestructorReleases
  <2>3. QED BY <1>3, <2>1, <2>2 DEF Destructor
<1>4. CASE End BY <1>4, QuietSteps
<1>5. CASE UNCHANGED vars
  <2>1. UNCHANGED <<nRefs, deleted, lists, adding, removing, pc, served, owned, member,
                    asked, client>>
    BY <1>5 DEF vars, solverVars, threadVars, clientVars
  <2>2. TypeInv' BY <2>1 DEF IInv, TypeInv
  <2>3. \A r \in Roles : Done(r)' = Done(r) /\ Pending(r)' = Pending(r)
    BY <2>1 DEF Done, Pending
  <2>4. \A r \in Roles : RequestInv(r)' BY <2>1, <2>3 DEF IInv, RequestInv
  <2>5. \A r \in Roles, s \in Solvers : Held(r, s)' = Held(r, s)
    BY <2>1 DEF Held, GivenBack, Alive
  <2>6. QED BY <2>1, <2>2, <2>3, <2>4, <2>5, Still DEF IInv, PlaceInv
<1>6. QED BY <1>1, <1>2, <1>3, <1>4, <1>5 DEF Next

LEMMA Invariance == Spec => []IInv
BY InitInv, NextInv, PTL DEF Spec

\* Whenever the thread gets to a request, it moves one reference with it: the
\* counter of a solver is the number of references to it, and the solver is
\* deleted exactly when that is zero.
THEOREM ReferencesAreRight == Spec => []RefsMatchHolders
<1>1. IInv => RefsMatchHolders BY DEF IInv, RefInv, RefsMatchHolders
<1>2. QED BY <1>1, Invariance, PTL

\* Once the requests are served, the lists are what the client has asked for.
THEOREM ListsSettle == Spec => []SettledMembership
<1>1. IInv => SettledMembership
  <2>1. SUFFICES ASSUME IInv, Alive, client = NoRequest, NEW r \in Roles,
                        adding[r] = Nowhere, removing[r] = <<>>
                 PROVE  {s \in Solvers : lists[r][s] > 0} = member[r]
    BY DEF SettledMembership
  <2>2. TypeInv BY <2>1 DEF IInv
  <2>3. Pending(r) = {}
    <3>1. Len(removing[r]) = 0 /\ Done(r) \in Nat BY <2>1, <2>2 DEF TypeInv, Done
    <3>2. Done(r) + 1 .. Len(removing[r]) = {} BY <3>1
    <3>3. QED BY <3>2 DEF Pending
  <2>4. ASSUME NEW s \in Solvers PROVE lists[r][s] > 0 <=> s \in member[r]
    <3>1. Held(r, s) = Belongs(<<r, s>>, {client}) + lists[r][s] + adding[r][s] - 0
      BY <2>1, HeldAlive
    <3>2. Belongs(<<r, s>>, {client}) = 0 /\ adding[r][s] = 0
      BY <2>1 DEF Belongs, NoRequest, Nowhere
    <3>3. Held(r, s) \in {0, 1} /\ (Held(r, s) = 1 <=> s \in member[r]) BY <2>1, <2>3, HeldType
    <3>4. lists[r][s] \in Nat BY <2>2 DEF TypeInv
    <3>5. QED BY <3>1, <3>2, <3>3, <3>4
  <2>5. member[r] \subseteq Solvers BY <2>2 DEF TypeInv
  <2>6. QED BY <2>4, <2>5
<1>2. QED BY <1>1, Invariance, PTL
=============================================================================
