---------------------------- MODULE ClauseSharing ----------------------------
(***************************************************************************)
(* Rounds of clause sharing: the solvers' export and import callbacks       *)
(* (KissatSolver.cpp), the sharer's doSharing by SimpleSharing or by        *)
(* HordeSatSharing, and the reference counts by which a ClauseExchange      *)
(* lives (ClauseManager.h).  The buffers are the FIFO queues that           *)
(* ClauseBuffer implements for one producer and one consumer; a step is one *)
(* operation on a buffer or on a counter.  kissat itself does not call the  *)
(* callbacks in this version and main creates no sharer: the model takes    *)
(* them as the interface they are.                                          *)
(***************************************************************************)
EXTENDS ClauseDatabase, Counting

CONSTANTS Solvers,
          From, To,          \* producers and consumers of the sharer, in order
          Strategies,        \* those to check: "simple", "horde" or both
          Lbd,
          LbdLimit,          \* the option -lbd-limit
          LiteralPerRound,   \* the option -shr-lit
          MaxLbd             \* bound: lbdLimit is not counted any further

NoSolver == "none"
NoClause == 0

ASSUME SharerAssumption ==
  /\ IsFiniteSet(Solvers) /\ NoSolver \notin Solvers /\ NoClause \notin Clauses
  /\ From \in Seq(Solvers) /\ To \in Seq(Solvers)
  /\ Strategies \subseteq {"simple", "horde"}
  /\ Lbd \in [Clauses -> Nat] /\ LbdLimit \in 0 .. MaxLbd
  /\ LiteralPerRound \in Nat \ {0}

VARIABLES
  strategy,        \* which subclass of SharingStrategy the sharer runs
  refs,            \* nbRefs of a clause
  from,            \* who exported it
  alive,           \* clauses that are allocated
  freedAccess,     \* a clause was used after it was freed
  exports,         \* clausesToExport, per solver
  units, imports,  \* unitsToImport and clausesToImport
  hand,            \* the clause an import callback is reading
  received,        \* history: what each solver imported
  lbdLimit,
  pc, fi, ti, k,   \* the sharer: its loops over from, to and tmp
  tmp

clauseVars == <<refs, from, alive, freedAccess>>
bufferVars == <<exports, units, imports>>
solverVars == <<hand, received>>
loopVars   == <<fi, ti, k>>

vars == <<strategy, clauseVars, bufferVars, solverVars, lbdLimit, pc, loopVars,
          tmp, dbVars>>

Init ==
  /\ strategy \in Strategies
  /\ refs = [c \in Clauses |-> 0]
  /\ from = [c \in Clauses |-> NoSolver]
  /\ alive = {} /\ freedAccess = FALSE
  /\ exports = [s \in Solvers |-> <<>>]
  /\ units = [s \in Solvers |-> <<>>]
  /\ imports = [s \in Solvers |-> <<>>]
  /\ hand = [s \in Solvers |-> NoClause]
  /\ received = [s \in Solvers |-> <<>>]
  /\ lbdLimit = [s \in Solvers |-> LbdLimit]
  /\ pc = "begin" /\ fi = 1 /\ ti = 1 /\ k = 1
  /\ tmp = <<>>
  /\ DBInit

-----------------------------------------------------------------------------
(* Reference counts. *)

Use(c) == freedAccess' = (freedAccess \/ c \notin alive)

IncreaseClause(c) ==
  /\ Use(c)
  /\ refs' = [refs EXCEPT ![c] = @ + 1]
  /\ UNCHANGED <<from, alive>>

\* Only the last holder frees.
ReleaseClause(c) ==
  /\ Use(c)
  /\ refs' = [refs EXCEPT ![c] = @ - 1]
  /\ alive' = IF refs[c] - 1 <= 0 THEN alive \ {c} ELSE alive
  /\ UNCHANGED from

-----------------------------------------------------------------------------
(* The solvers' callbacks. *)

\* cbkKissatExportClause: a clause whose LBD is above the limit is not shared.
ExportClause(s, c) ==
  /\ from[c] = NoSolver /\ hand[s] = NoClause
  /\ Lbd[c] <= lbdLimit[s]
  /\ from' = [from EXCEPT ![c] = s]
  /\ refs' = [refs EXCEPT ![c] = 1]
  /\ alive' = alive \cup {c}
  /\ exports' = [exports EXCEPT ![s] = Append(@, c)]
  /\ UNCHANGED <<freedAccess, units, imports, solverVars, lbdLimit, pc,
                 loopVars, tmp, dbVars>>

Receive(s, c) ==
  /\ hand[s] = NoClause
  /\ hand' = [hand EXCEPT ![s] = c]
  /\ received' = [received EXCEPT ![s] = Append(@, c)]
  /\ Use(c)
  /\ UNCHANGED <<refs, from, alive, exports, lbdLimit, pc, loopVars, tmp, dbVars>>

ImportUnit(s) ==
  /\ units[s] # <<>>
  /\ units' = [units EXCEPT ![s] = Tail(@)]
  /\ Receive(s, Head(units[s]))
  /\ UNCHANGED imports

ImportClause(s) ==
  /\ imports[s] # <<>>
  /\ imports' = [imports EXCEPT ![s] = Tail(@)]
  /\ Receive(s, Head(imports[s]))
  /\ UNCHANGED units

\* The end of an import callback, when the literals are copied.
ReleaseImported(s) ==
  /\ hand[s] # NoClause
  /\ ReleaseClause(hand[s])
  /\ hand' = [hand EXCEPT ![s] = NoClause]
  /\ UNCHANGED <<bufferVars, received, lbdLimit, pc, loopVars, tmp, dbVars>>

Callback(s) ==
  \/ \E c \in Clauses : ExportClause(s, c)
  \/ ImportUnit(s) \/ ImportClause(s) \/ ReleaseImported(s)

Solver(s) == Callback(s) /\ UNCHANGED strategy

-----------------------------------------------------------------------------
(* doSharing, one round. *)

Goto(there, here) == pc = there /\ pc' = here

BeginRound ==
  /\ Goto("begin", IF From = <<>> THEN "begin" ELSE "drain")
  /\ fi' = 1 /\ tmp' = <<>>
  /\ UNCHANGED <<clauseVars, bufferVars, solverVars, lbdLimit, ti, k, dbVars>>

\* getLearnedClauses goes on while getClause finds one.
Drain ==
  /\ pc = "drain"
  /\ exports[From[fi]] # <<>>
  /\ tmp' = Append(tmp, Head(exports[From[fi]]))
  /\ exports' = [exports EXCEPT ![From[fi]] = Tail(@)]
  /\ UNCHANGED <<clauseVars, units, imports, solverVars, lbdLimit, pc,
                 loopVars, dbVars>>

Drained ==
  /\ Goto("drain", IF strategy = "horde" THEN "store" ELSE "increase")
  /\ exports[From[fi]] = <<>>
  /\ ti' = 1 /\ k' = 1
  /\ UNCHANGED <<clauseVars, bufferVars, solverVars, lbdLimit, fi, tmp, dbVars>>

\* HordeSatSharing: database.addClause, which may release the clause.
Store ==
  /\ pc = "store" /\ k <= Len(tmp)
  /\ AddClause(tmp[k])
  /\ IF released' # released
       THEN ReleaseClause(tmp[k])
       ELSE Use(tmp[k]) /\ UNCHANGED <<refs, from, alive>>
  /\ k' = k + 1
  /\ UNCHANGED <<bufferVars, solverVars, lbdLimit, pc, fi, ti, tmp>>

Select ==
  /\ Goto("store", "selecting") /\ k > Len(tmp)
  /\ tmp' = <<>>
  /\ BeginSelection(LiteralPerRound)
  /\ UNCHANGED <<clauseVars, bufferVars, solverVars, lbdLimit, loopVars>>

SelectTurn ==
  /\ pc = "selecting"
  /\ Selecting
  /\ pc' = IF dbPc' = "idle" THEN "produce" ELSE "selecting"
  /\ tmp' = selected'
  /\ UNCHANGED <<clauseVars, bufferVars, solverVars, lbdLimit, loopVars>>

\* A producer that fills less than 80% of the budget is asked for more.
Produce ==
  /\ Goto("produce", "increase")
  /\ LET p == From[fi]
         grown == IF lbdLimit[p] < MaxLbd THEN lbdLimit[p] + 1 ELSE MaxLbd
     IN  lbdLimit' = IF (100 * used) \div LiteralPerRound < 80
                       THEN [lbdLimit EXCEPT ![p] = grown]
                       ELSE lbdLimit
  /\ k' = 1
  /\ UNCHANGED <<clauseVars, bufferVars, solverVars, fi, ti, tmp, dbVars>>

Others == pc \in {"increase", "push"} /\ ti <= Len(To) /\ To[ti] # From[fi]

\* With a mistake: the clauses are pushed before their counters are increased.
PushFirst ==
  /\ Others /\ pc = "increase"
  /\ pc' = "push" /\ k' = 1
  /\ UNCHANGED <<clauseVars, bufferVars, solverVars, lbdLimit, fi, ti, tmp, dbVars>>

\* One reference for the consumer, before it can see the clause.
Increase ==
  /\ Others /\ pc = "increase"
  /\ IF k <= Len(tmp)
       THEN IncreaseClause(tmp[k]) /\ k' = k + 1 /\ UNCHANGED pc
       ELSE pc' = "push" /\ k' = 1 /\ UNCHANGED clauseVars
  /\ UNCHANGED <<bufferVars, solverVars, lbdLimit, fi, ti, tmp, dbVars>>

\* addLearnedClauses of the consumer, one clause.
Push ==
  /\ Others /\ pc = "push" /\ k <= Len(tmp)
  /\ Use(tmp[k])
  /\ IF Size[tmp[k]] = 1
       THEN /\ units' = [units EXCEPT ![To[ti]] = Append(@, tmp[k])]
            /\ UNCHANGED imports
       ELSE /\ imports' = [imports EXCEPT ![To[ti]] = Append(@, tmp[k])]
            /\ UNCHANGED units
  /\ k' = k + 1
  /\ UNCHANGED <<refs, from, alive, exports, solverVars, lbdLimit, pc, fi, ti,
                 tmp, dbVars>>

\* With a mistake: the loop ends at the producer, as a break would make it.
NextConsumerBreak ==
  /\ \/ Others /\ pc = "push" /\ k > Len(tmp) /\ ti' = ti + 1
     \/ /\ pc = "increase" /\ ti <= Len(To) /\ To[ti] = From[fi]
        /\ ti' = Len(To) + 1
  /\ pc' = "increase" /\ k' = 1
  /\ UNCHANGED <<clauseVars, bufferVars, solverVars, lbdLimit, fi, tmp, dbVars>>

\* The next consumer; the producer itself is left out.
NextConsumer ==
  /\ \/ Others /\ pc = "push" /\ k > Len(tmp)
     \/ pc = "increase" /\ ti <= Len(To) /\ To[ti] = From[fi]
  /\ pc' = "increase" /\ ti' = ti + 1 /\ k' = 1
  /\ UNCHANGED <<clauseVars, bufferVars, solverVars, lbdLimit, fi, tmp, dbVars>>

NoConsumer ==
  /\ Goto("increase", "release") /\ ti > Len(To)
  /\ k' = 1
  /\ UNCHANGED <<clauseVars, bufferVars, solverVars, lbdLimit, fi, ti, tmp, dbVars>>

\* The sharer gives its own reference back.
Release ==
  /\ pc = "release" /\ k <= Len(tmp)
  /\ ReleaseClause(tmp[k])
  /\ k' = k + 1
  /\ UNCHANGED <<bufferVars, solverVars, lbdLimit, pc, fi, ti, tmp, dbVars>>

\* With a mistake: tmp is not cleared for the next producer.
NextProducerNoClear ==
  /\ Goto("release", IF fi < Len(From) THEN "drain" ELSE "begin")
  /\ k > Len(tmp)
  /\ fi' = IF fi < Len(From) THEN fi + 1 ELSE fi
  /\ UNCHANGED <<clauseVars, bufferVars, solverVars, lbdLimit, ti, k, tmp, dbVars>>

NextProducer ==
  /\ Goto("release", IF fi < Len(From) THEN "drain" ELSE "begin")
  /\ k > Len(tmp)
  /\ fi' = IF fi < Len(From) THEN fi + 1 ELSE fi
  /\ tmp' = <<>>
  /\ UNCHANGED <<clauseVars, bufferVars, solverVars, lbdLimit, ti, k, dbVars>>

Round ==
  \/ BeginRound \/ Drain \/ Drained \/ Store \/ Select \/ SelectTurn \/ Produce
  \/ Increase \/ Push \/ NextConsumer \/ NoConsumer \/ Release \/ NextProducer

Sharer == Round /\ UNCHANGED strategy

Next == Sharer \/ \E s \in Solvers : Solver(s)

Spec == Init /\ [][Next]_vars

\* The sharer's thread goes on with its rounds.  The solvers owe nothing.
FairSpec == Spec /\ WF_vars(Sharer)

-----------------------------------------------------------------------------
(* Properties. *)

\* The references of the sharer's thread: in tmp, and those it has added for
\* the consumer but not pushed yet.
InTmp(c) ==
  IF pc \in {"store", "release"} THEN Count(c, SubSeq(tmp, k, Len(tmp)))
                                ELSE Count(c, tmp)

Pending(c) ==
  CASE pc = "increase" -> Count(c, SubSeq(tmp, 1, k - 1))
    [] pc = "push"     -> Count(c, SubSeq(tmp, k, Len(tmp)))
    [] OTHER           -> 0

\* Import callbacks that are reading c.
InHand(c) == Cardinality({s \in Solvers : hand[s] = c})

Holders(c) ==
  InTmp(c) + Pending(c) + InHand(c)
    + Total(c, clauses) + Total(c, exports) + Total(c, units) + Total(c, imports)

\* The counter of a clause is the number of those who hold it, at every step
\* of sharer and solvers: it is freed when the last one lets go, not before
\* and not never (SimpleSharing.cpp:41-50, ClauseDatabase.cpp:48-52).
RefsMatchHolders ==
  \A c \in Clauses : /\ refs[c] = Holders(c)
                     /\ c \in alive <=> refs[c] > 0

\* No clause is read, counted or pushed after it was freed.
NoTouchFreed == ~freedAccess

\* s was given c, and may have imported it already.
Got(s, c) == Count(c, received[s]) + Count(c, units[s]) + Count(c, imports[s])

\* Nobody is given a clause twice.
AtMostOnce == \A s \in Solvers, c \in Clauses : Got(s, c) <= 1

\* What a producer exports reaches every other consumer, however the others
\* export and import meanwhile.
Spread ==
  \A c \in Clauses, n \in 1 .. Len(To) :
    strategy = "simple" /\ from[c] \in ToSet(From) \ {To[n]}
      ~> Got(To[n], c) > 0
=============================================================================
