----------------------------- MODULE ClauseBuffer -----------------------------
(***************************************************************************)
(* The lock-free queue by which solvers and sharers exchange clauses        *)
(* (clauses/ClauseBuffer.cpp): a linked list with a dummy head, appended to *)
(* by addClause and consumed by getClause, one step per atomic access.      *)
(* getClause deletes the old head at once: malloc may give the same address *)
(* to the next ListElement, and nothing keeps another thread from holding   *)
(* the old pointer.  The content of a deleted node is arbitrary.            *)
(*                                                                          *)
(* In the program clausesToExport is filled by one solver thread and        *)
(* emptied by the sharers it is registered with, clausesToImport and        *)
(* unitsToImport the other way round.                                       *)
(***************************************************************************)
EXTENDS Integers, Sequences, FiniteSets

CONSTANTS Producers, Consumers,   \* threads calling addClause, getClause
          Nodes,                  \* addresses malloc can return
          NULL,
          MaxAdds                 \* bound: clauses a producer adds

ASSUME ThreadAssumption == Producers \cap Consumers = {}
ASSUME NodeAssumption ==
  IsFiniteSet(Nodes) /\ NULL \notin Nodes /\ Cardinality(Nodes) > 1
ASSUME AddsAssumption == MaxAdds \in Nat

VARIABLES
  pc,            \* where each thread is
  allocated,     \* nodes that are not deleted
  clause, next,  \* fields of ListElement
  head, tail,    \* buffer.head and buffer.tail
  size,          \* buffer.size
  node,          \* local of addClause: the new element
  myHead, myTail, myNext, myClause,   \* locals of addClause and getClause
  sent,          \* additions done, per producer
  taken,         \* clauses handed out, per consumer
  visible,       \* history: additions that had returned when getClause began
  dangling       \* a deleted node was accessed

heapVars  == <<allocated, clause, next>>
rootVars  == <<head, tail, size>>
localVars == <<node, myHead, myTail, myNext, myClause>>
callVars  == <<sent, taken, visible>>

vars == <<pc, heapVars, rootVars, localVars, callVars, dangling>>

Threads == Producers \cup Consumers
Clauses == Producers \X (1 .. MaxAdds)
NoClause == <<NULL, 0>>

\* The constructor: one dummy element.
Init ==
  /\ pc = [t \in Threads |-> "idle"]
  /\ \E n \in Nodes : head = n /\ tail = n /\ allocated = {n}
  /\ clause = [n \in Nodes |-> NoClause]
  /\ next = [n \in Nodes |-> NULL]
  /\ size = 0
  /\ node = [p \in Producers |-> NULL]
  /\ myHead = [c \in Consumers |-> NULL]
  /\ myTail = [t \in Threads |-> NULL]
  /\ myNext = [t \in Threads |-> NULL]
  /\ myClause = [c \in Consumers |-> NoClause]
  /\ sent = [p \in Producers |-> 0]
  /\ taken = [c \in Consumers |-> <<>>]
  /\ visible = [c \in Consumers |-> 0]
  /\ dangling = FALSE

Goto(t, from, to) == pc[t] = from /\ pc' = [pc EXCEPT ![t] = to]

\* Accesses to node n: a deleted one is not there any more.
Access(n) == dangling' = (dangling \/ n \notin allocated)

\* What a read of n->next yields.
NextOf(n) == IF n \in allocated THEN {next[n]} ELSE Nodes \cup {NULL}

\* What a read of n->clause yields.
ClauseOf(n) == IF n \in allocated THEN {clause[n]}
                                  ELSE {clause[m] : m \in Nodes}

CompareExchangeTail(expected, new) ==
  tail' = IF tail = expected THEN new ELSE tail

-----------------------------------------------------------------------------
(* addClause *)

NewElement(p) ==
  /\ Goto(p, "idle", "readTail")
  /\ sent[p] < MaxAdds
  /\ \E n \in Nodes \ allocated :
       /\ allocated' = allocated \cup {n}
       /\ clause' = [clause EXCEPT ![n] = <<p, sent[p] + 1>>]
       /\ next' = [next EXCEPT ![n] = NULL]
       /\ node' = [node EXCEPT ![p] = n]
  /\ UNCHANGED <<rootVars, myHead, myTail, myNext, myClause, callVars,
                 dangling>>

ReadTail(p) ==
  /\ Goto(p, "readTail", "readNext")
  /\ myTail' = [myTail EXCEPT ![p] = tail]
  /\ UNCHANGED <<heapVars, rootVars, node, myHead, myNext, myClause, callVars,
                 dangling>>

ReadNext(p) ==
  /\ Goto(p, "readNext", "check")
  /\ Access(myTail[p])
  /\ \E n \in NextOf(myTail[p]) : myNext' = [myNext EXCEPT ![p] = n]
  /\ UNCHANGED <<heapVars, rootVars, node, myHead, myTail, myClause, callVars>>

CheckTail(p) ==
  /\ Goto(p, "check", IF myTail[p] # tail THEN "readTail" ELSE "link")
  /\ UNCHANGED <<heapVars, rootVars, localVars, callVars, dangling>>

\* The compare_exchange on tail->next is the point where the clause is queued.
CompareExchangeNext(p) ==
  /\ Access(myTail[p])
  /\ \E old \in NextOf(myTail[p]) :
       IF old = NULL
         THEN /\ Goto(p, "link", "count")
              /\ next' = IF myTail[p] \in allocated
                           THEN [next EXCEPT ![myTail[p]] = node[p]]
                           ELSE next
              /\ sent' = [sent EXCEPT ![p] = @ + 1]
         ELSE Goto(p, "link", "readTail") /\ UNCHANGED <<next, sent>>
  /\ UNCHANGED tail

\* With a mistake: a weak exchange that fails is not tried again.
LinkWeak(p) ==
  /\ pc[p] = "link"
  /\ Access(myTail[p])
  /\ \/ Goto(p, "link", "count") /\ next' = [next EXCEPT ![myTail[p]] = node[p]]
     \/ Goto(p, "link", "idle") /\ UNCHANGED next
  /\ sent' = [sent EXCEPT ![p] = @ + 1]
  /\ UNCHANGED <<allocated, clause, rootVars, localVars, taken, visible>>

\* If another producer has linked its element meanwhile, the tail is helped on.
Link(p) ==
  /\ pc[p] = "link"
  /\ IF myNext[p] = NULL
       THEN CompareExchangeNext(p)
       ELSE /\ Goto(p, "link", "readTail")
            /\ CompareExchangeTail(myTail[p], myNext[p])
            /\ UNCHANGED <<next, sent, dangling>>
  /\ UNCHANGED <<allocated, clause, head, size, localVars, taken, visible>>

Count(p) ==
  /\ Goto(p, "count", "swing")
  /\ size' = size + 1
  /\ UNCHANGED <<heapVars, head, tail, localVars, callVars, dangling>>

SwingTail(p) ==
  /\ Goto(p, "swing", "idle")
  /\ CompareExchangeTail(myTail[p], node[p])
  /\ UNCHANGED <<heapVars, head, size, localVars, callVars, dangling>>

Add(p) ==
  \/ NewElement(p) \/ ReadTail(p) \/ ReadNext(p) \/ CheckTail(p)
  \/ Link(p) \/ Count(p) \/ SwingTail(p)

-----------------------------------------------------------------------------
(* getClause *)

\* Additions that have returned: the one of a producer in count or swing has
\* not.
Returned ==
  {d \in Clauses :
     d[2] <= sent[d[1]] - (IF pc[d[1]] \in {"count", "swing"} THEN 1 ELSE 0)}

BeginGet(c) ==
  /\ Goto(c, "idle", "getHead")
  /\ visible' = [visible EXCEPT ![c] = Cardinality(Returned)]
  /\ UNCHANGED <<heapVars, rootVars, localVars, sent, taken, dangling>>

GetHead(c) ==
  /\ Goto(c, "getHead", "getTail")
  /\ myHead' = [myHead EXCEPT ![c] = head]
  /\ UNCHANGED <<heapVars, rootVars, node, myTail, myNext, myClause, callVars,
                 dangling>>

GetTail(c) ==
  /\ Goto(c, "getTail", "getNext")
  /\ myTail' = [myTail EXCEPT ![c] = tail]
  /\ UNCHANGED <<heapVars, rootVars, node, myHead, myNext, myClause, callVars,
                 dangling>>

GetNext(c) ==
  /\ Goto(c, "getNext", "getCheck")
  /\ Access(myHead[c])
  /\ \E n \in NextOf(myHead[c]) : myNext' = [myNext EXCEPT ![c] = n]
  /\ UNCHANGED <<heapVars, rootVars, node, myHead, myTail, myClause, callVars>>

\* Going to idle from here is the return of false.
GetCheck(c) ==
  /\ Goto(c, "getCheck", IF myHead[c] # head THEN "getHead"
                         ELSE IF myHead[c] # myTail[c] THEN "getClause"
                         ELSE IF myNext[c] = NULL THEN "idle" ELSE "getHelp")
  /\ UNCHANGED <<heapVars, rootVars, localVars, callVars, dangling>>

GetHelp(c) ==
  /\ Goto(c, "getHelp", "getHead")
  /\ CompareExchangeTail(myTail[c], myNext[c])
  /\ UNCHANGED <<heapVars, head, size, localVars, callVars, dangling>>

\* A next that is NULL would kill the process here.
GetClause(c) ==
  /\ Goto(c, "getClause", "getSwing")
  /\ myNext[c] # NULL
  /\ Access(myNext[c])
  /\ \E d \in ClauseOf(myNext[c]) : myClause' = [myClause EXCEPT ![c] = d]
  /\ UNCHANGED <<heapVars, rootVars, node, myHead, myTail, myNext, callVars>>

\* The compare_exchange on head, the point where the clause is taken.
GetSwing(c) ==
  /\ pc[c] = "getSwing"
  /\ IF head = myHead[c]
       THEN /\ Goto(c, "getSwing", "free")
            /\ head' = myNext[c]
            /\ taken' = [taken EXCEPT ![c] = Append(@, myClause[c])]
       ELSE Goto(c, "getSwing", "getHead") /\ UNCHANGED <<head, taken>>
  /\ UNCHANGED <<heapVars, tail, size, localVars, sent, visible, dangling>>

\* With a mistake: the element that became the head is deleted.
FreeNext(c) ==
  /\ Goto(c, "free", "uncount")
  /\ Access(myNext[c])
  /\ allocated' = allocated \ {myNext[c]}
  /\ UNCHANGED <<clause, next, rootVars, localVars, callVars>>

Free(c) ==
  /\ Goto(c, "free", "uncount")
  /\ Access(myHead[c])
  /\ allocated' = allocated \ {myHead[c]}
  /\ UNCHANGED <<clause, next, rootVars, localVars, callVars>>

Uncount(c) ==
  /\ Goto(c, "uncount", "idle")
  /\ size' = size - 1
  /\ UNCHANGED <<heapVars, head, tail, localVars, callVars, dangling>>

Get(c) ==
  \/ BeginGet(c) \/ GetHead(c) \/ GetTail(c) \/ GetNext(c) \/ GetCheck(c)
  \/ GetHelp(c) \/ GetClause(c) \/ GetSwing(c) \/ Free(c) \/ Uncount(c)

Next == (\E p \in Producers : Add(p)) \/ (\E c \in Consumers : Get(c))

Spec == Init /\ [][Next]_vars

\* Every thread goes on with its call, and consumers keep calling (getClauses
\* of every sharing round, the import callbacks of every restart).
FairSpec ==
  /\ Spec
  /\ \A p \in Producers : WF_vars(Add(p))
  /\ \A c \in Consumers : WF_vars(Get(c))

-----------------------------------------------------------------------------
(* Properties. *)

\* A path follows the list from its first node to the end.
Paths == UNION {[1 .. n -> Nodes] : n \in 1 .. Cardinality(Nodes)}

IsPath(path, first, link) ==
  /\ path[1] = first
  /\ \A i \in DOMAIN path :
       link[path[i]] = IF i + 1 \in DOMAIN path THEN path[i + 1] ELSE NULL

\* A list that runs into itself counts for its first node only.
PathFrom(first, link) ==
  IF \E path \in Paths : IsPath(path, first, link)
    THEN CHOOSE path \in Paths : IsPath(path, first, link)
    ELSE <<first>>

List == PathFrom(head, next)

\* The clauses in the list; the first node is the dummy.
Queued == [i \in 1 .. Len(List) - 1 |-> clause[List[i + 1]]]

\* No thread reads, writes or deletes an element that getClause has deleted.
NoUseAfterFree == ~dangling

\* "Clause buffer is a queue containning shared clauses" (ClauseBuffer.h): the
\* list implements the FIFO queue, with the two successful exchanges as the
\* points where a clause enters and leaves.
Fifo == INSTANCE FifoQueue WITH queue <- Queued

Implements == Fifo!Spec

\* The return of false: every clause whose addition had returned when getClause
\* was called had been handed out.
EmptyAnswer ==
  \A c \in Consumers :
    pc[c] = "getCheck" /\ pc'[c] = "idle" =>
      visible[c] <= Cardinality(UNION {{taken[d][i] : i \in DOMAIN taken[d]} :
                                          d \in Consumers})

\* getClause answers false only if there was nothing left that it should find.
NoFalseEmpty == [][EmptyAnswer]_vars

\* Every clause that is added is handed out.
Delivered ==
  \A p \in Producers, k \in 1 .. MaxAdds :
    (sent[p] >= k) ~>
      \E c \in Consumers : \E i \in DOMAIN taken[c] : taken[c][i] = <<p, k>>
=============================================================================
