-------------------------------- MODULE Sharer --------------------------------
(***************************************************************************)
(* The sharer thread (sharing/Sharer.cpp) and the client that owns the      *)
(* solvers: who is a producer or a consumer, and the references by which a  *)
(* solver lives (solvers/SolverInterface.h).  Both lists are served in the  *)
(* same way: how often a solver is in one is kept, not where, for nothing   *)
(* depends on the order.  A step is what happens under one lock, or one     *)
(* access to an atomic counter.  main creates no sharer in this version: the client is   *)
(* any caller of the class's methods, external to the code.                 *)
(***************************************************************************)
EXTENDS Integers, Sequences, FiniteSets

CONSTANTS Solvers,
          Initial,    \* the constructor's lists, as sets, by role
          MaxCalls    \* bound: calls of add and remove

Roles == {"producers", "consumers"}

ASSUME RoleAssumption == Initial \in [Roles -> SUBSET Solvers]
ASSUME CallAssumption == MaxCalls \in Nat

VARIABLES
  nRefs, deleted,   \* of a solver
  lists,            \* places of a solver in producers, in consumers
  adding,           \* places in addProducers, in addConsumers
  removing,         \* removeProducers and removeConsumers, by role
  pc, served,       \* the thread; removal requests it has served
  globalEnding,
  owned,            \* solvers the client has a reference to
  member,           \* what the client has asked for, by role
  asked,            \* and which solvers it has named before
  client,           \* a request between increase() and push_back
  calls

solverVars == <<nRefs, deleted>>
threadVars == <<pc, served>>
clientVars == <<owned, member, asked, client, calls>>
vars == <<solverVars, lists, adding, removing, threadVars, globalEnding,
          clientVars>>

NoRequest == <<>>

Nowhere == [s \in Solvers |-> 0]

Belongs(x, S) == IF x \in S THEN 1 ELSE 0

\* The constructor takes one reference per place in a list.
Init ==
  /\ nRefs = [s \in Solvers |-> 1 + Belongs(s, Initial["producers"])
                                 + Belongs(s, Initial["consumers"])]
  /\ deleted = {} /\ globalEnding = FALSE
  /\ lists = [r \in Roles |-> [s \in Solvers |-> Belongs(s, Initial[r])]]
  /\ adding = [r \in Roles |-> Nowhere]
  /\ removing = [r \in Roles |-> <<>>]
  /\ pc = "sleep" /\ served = [r \in Roles |-> 0]
  /\ owned = Solvers /\ member = Initial
  /\ asked = [r \in Roles |-> {}]
  /\ client = NoRequest /\ calls = 0

-----------------------------------------------------------------------------
(* The client. *)

\* SolverInterface::release, by one of the owners of a reference.
Release(s) ==
  /\ nRefs' = [nRefs EXCEPT ![s] = @ - 1]
  /\ deleted' = IF nRefs[s] - 1 = 0 THEN deleted \cup {s} ELSE deleted

Alive == pc \notin {"destroy", "joined"}

\* The client names a solver once per list.  A second request before the
\* thread has served the first would find places and references out of step:
\* the thread makes additions before removals, whatever order they came in,
\* and one removal erases every place but gives back one reference.
Free(r, s) == Alive /\ s \notin asked[r]

\* removeLock is held from the first request served to the last.
RemoveLocked == pc = "remove" /\ \E r \in Roles : served[r] > 0

\* With a mistake: the reference is not taken.
AddNoReference(r, s) ==
  /\ client = NoRequest /\ calls < MaxCalls
  /\ s \in owned /\ s \notin member[r] /\ Free(r, s)
  /\ client' = <<r, s>> /\ calls' = calls + 1
  /\ member' = [member EXCEPT ![r] = @ \cup {s}]
  /\ asked' = [asked EXCEPT ![r] = @ \cup {s}]
  /\ UNCHANGED <<solverVars, lists, adding, removing, threadVars, globalEnding,
                 owned>>

\* addProducer and addConsumer take the reference first.
AddIncrease(r, s) ==
  /\ client = NoRequest /\ calls < MaxCalls
  /\ s \in owned /\ s \notin member[r] /\ Free(r, s)
  /\ nRefs' = [nRefs EXCEPT ![s] = @ + 1]
  /\ client' = <<r, s>> /\ calls' = calls + 1
  /\ member' = [member EXCEPT ![r] = @ \cup {s}]
  /\ asked' = [asked EXCEPT ![r] = @ \cup {s}]
  /\ UNCHANGED <<deleted, lists, adding, removing, threadVars, globalEnding,
                 owned>>

AddPush ==
  /\ client # NoRequest
  /\ adding' = [adding EXCEPT ![client[1]][client[2]] = @ + 1]
  /\ client' = NoRequest
  /\ UNCHANGED <<solverVars, lists, removing, threadVars, globalEnding, owned,
                 member, asked, calls>>

RemoveRequest(r, s) ==
  /\ client = NoRequest /\ calls < MaxCalls /\ ~RemoveLocked
  /\ s \in member[r] /\ Free(r, s)
  /\ removing' = [removing EXCEPT ![r] = Append(@, s)]
  /\ member' = [member EXCEPT ![r] = @ \ {s}]
  /\ asked' = [asked EXCEPT ![r] = @ \cup {s}]
  /\ calls' = calls + 1
  /\ UNCHANGED <<solverVars, lists, adding, threadVars, globalEnding, owned,
                 client>>

\* The client gives its own reference back; the sharer may still have one.
Disown(s) ==
  /\ client = NoRequest /\ s \in owned
  /\ Release(s)
  /\ owned' = owned \ {s}
  /\ UNCHANGED <<lists, adding, removing, threadVars, globalEnding, member,
                 asked, client, calls>>

\* The end of the resolution, elsewhere in the program.
End ==
  /\ ~globalEnding
  /\ globalEnding' = TRUE
  /\ UNCHANGED <<solverVars, lists, adding, removing, threadVars, clientVars>>

Client ==
  \/ \E r \in Roles, s \in Solvers : AddIncrease(r, s) \/ RemoveRequest(r, s)
  \/ AddPush
  \/ \E s \in Solvers : Disown(s)

-----------------------------------------------------------------------------
(* mainThrSharing. *)

WakeUp ==
  /\ pc = "sleep"
  /\ pc' = IF globalEnding THEN "stop" ELSE "add"
  /\ UNCHANGED <<solverVars, lists, adding, removing, served, globalEnding,
                 clientVars>>

\* With a mistake: the new solvers are cleared before they are inserted.
AddNewCleared ==
  /\ pc = "add" /\ pc' = "share"
  /\ adding' = [r \in Roles |-> Nowhere]
  /\ UNCHANGED <<solverVars, lists, removing, served, globalEnding, clientVars>>

\* Under addLock, both lists.
AddNew ==
  /\ pc = "add" /\ pc' = "share"
  /\ lists' = [r \in Roles |-> [s \in Solvers |-> lists[r][s] + adding[r][s]]]
  /\ adding' = [r \in Roles |-> Nowhere]
  /\ UNCHANGED <<solverVars, removing, served, globalEnding, clientVars>>

\* doSharing, which ClauseSharing details, uses every solver of the lists.
DoSharing ==
  /\ pc = "share" /\ pc' = "remove"
  /\ served' = [r \in Roles |-> 0]
  /\ UNCHANGED <<solverVars, lists, adding, removing, globalEnding,
                 clientVars>>

\* std::remove and erase: every place of the solver goes.
Without(list, s) == [list EXCEPT ![s] = 0]

\* The requests are served in order, those for the producers first.
Turn(r) ==
  /\ served[r] < Len(removing[r])
  /\ r = "consumers" => served["producers"] = Len(removing["producers"])

\* Under removeLock, one request.
RemoveOne(r) ==
  /\ pc = "remove" /\ Turn(r)
  /\ LET s == removing[r][served[r] + 1]
     IN  /\ lists' = [lists EXCEPT ![r] = Without(@, s)]
         /\ Release(s)
  /\ served' = [served EXCEPT ![r] = @ + 1]
  /\ UNCHANGED <<adding, removing, pc, globalEnding, clientVars>>

Removed ==
  /\ pc = "remove"
  /\ \A r \in Roles : served[r] = Len(removing[r])
  /\ removing' = [r \in Roles |-> <<>>]
  /\ pc' = IF globalEnding THEN "stop" ELSE "sleep"
  /\ UNCHANGED <<solverVars, lists, adding, served, globalEnding, clientVars>>

Thread ==
  WakeUp \/ AddNew \/ DoSharing \/ (\E r \in Roles : RemoveOne(r)) \/ Removed

-----------------------------------------------------------------------------
(* The destructor, called by the client, waits for the thread.  The places   *)
(* that are left in the lists, and in addProducers, keep their references.  *)

Join ==
  /\ pc = "stop" /\ client = NoRequest
  /\ pc' = "destroy" /\ served' = [r \in Roles |-> 0]
  /\ UNCHANGED <<solverVars, lists, adding, removing, globalEnding, clientVars>>

DestroyOne(r) ==
  /\ pc = "destroy" /\ Turn(r)
  /\ Release(removing[r][served[r] + 1])
  /\ served' = [served EXCEPT ![r] = @ + 1]
  /\ UNCHANGED <<lists, adding, removing, pc, globalEnding, clientVars>>

Destroyed ==
  /\ pc = "destroy"
  /\ \A r \in Roles : served[r] = Len(removing[r])
  /\ pc' = "joined"
  /\ UNCHANGED <<solverVars, lists, adding, removing, served, globalEnding,
                 clientVars>>

Destructor == Join \/ (\E r \in Roles : DestroyOne(r)) \/ Destroyed

-----------------------------------------------------------------------------

Next == Client \/ End \/ Thread \/ Destructor

\* The operating system runs the thread.
Spec == Init /\ [][Next]_vars /\ WF_vars(Thread)

-----------------------------------------------------------------------------
(* Properties. *)

\* The destructor gives back one reference per request and leaves the lists.
GivenBack(r, s) ==
  IF Alive THEN 0 ELSE Cardinality({n \in 1 .. served[r] : removing[r][n] = s})

\* References that the sharer has, or a call of addProducer or addConsumer.
Held(r, s) ==
  Belongs(<<r, s>>, {client}) + lists[r][s] + adding[r][s] - GivenBack(r, s)

\* The counter of a solver is the number of references pointing on it, and the
\* solver is deleted with the last of them: each request of the client moves
\* exactly one, whenever the thread gets to it.  So a solver that is listed is
\* there when the thread shares with it, although the client may give its own
\* reference back at any time.
RefsMatchHolders ==
  \A s \in Solvers :
    /\ nRefs[s] = Belongs(s, owned) + Held("producers", s) + Held("consumers", s)
    /\ nRefs[s] = 0 <=> s \in deleted

\* When no request is under way, the lists are what the client has asked for.
SettledMembership ==
  Alive /\ client = NoRequest
        /\ (\A r \in Roles : adding[r] = Nowhere /\ removing[r] = <<>>)
    => \A r \in Roles : {s \in Solvers : lists[r][s] > 0} = member[r]

\* A request is served, or the resolution ends: the thread takes what was
\* queued during the round in the next one.
RequestsServed ==
  \A r \in Roles, s \in Solvers :
    /\ adding[r][s] > 0 ~> lists[r][s] > 0 \/ globalEnding
    /\ (\E n \in DOMAIN removing[r] : removing[r][n] = s)
         ~> lists[r][s] = 0 \/ globalEnding
=============================================================================
