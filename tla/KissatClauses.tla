---------------------------- MODULE KissatClauses ----------------------------
(***************************************************************************)
(* The clauses of kissat: the arena of large clauses and the watch lists,  *)
(* in which the binary clauses live too.  The operators are the functions  *)
(* of clause.c, inline.h, watch.c, sort.c, clueue.c and collect.c that     *)
(* change them.  A database is a record:                                   *)
(*   clauses  reference -> [lits, redundant, keep, garbage], the first two *)
(*            literals being the watched ones                              *)
(*   watches  literal -> its watches in order; a watch holds the other     *)
(*            literal of a binary clause (ref = 0) or the blocking literal *)
(*            and the reference of a large one                             *)
(*   first    first_reducible: no reducible clause lies before it          *)
(*   last     last_irredundant: no irredundant clause lies behind it       *)
(* 0 is INVALID_REF.  References keep the order of the arena and stay with *)
(* their clause until it is moved to the end; that a sweep makes all       *)
(* addresses smaller is abstracted.  The used flags, glue but for what it  *)
(* makes of keep, the position "searched" and hyper clauses are left out.  *)
(***************************************************************************)
EXTENDS KissatTrail, SequencesExt, TLC

Watch(ref, lit, redundant) == [ref |-> ref, lit |-> lit, redundant |-> redundant]

\* The positions of a sequence that maximise a rank: the first of them.
FirstBest(from, to, Rank(_)) ==
  CHOOSE i \in from..to :
    /\ \A j \in from..to : Rank(j) <= Rank(i)
    /\ \A j \in from..(i - 1) : Rank(j) < Rank(i)

Swap(seq, i, j) == [seq EXCEPT ![i] = seq[j], ![j] = seq[i]]

Ascending(refs) == SelectSeq([i \in 1..Max(refs \cup {0}) |-> i], LAMBDA i : i \in refs)

Least(refs) == IF refs = {} THEN 0 ELSE Min(refs)

NextRef(db) == 1 + CHOOSE r \in DOMAIN db.clauses \cup {0} :
                     \A q \in DOMAIN db.clauses : q <= r

-----------------------------------------------------------------------------
\* kissat_watch_other and kissat_watch_blocking push at the end of the list.
AddWatch(db, lit, watch) == [db EXCEPT !.watches[lit] = Append(@, watch)]

WatchBinary(db, redundant, a, b) ==
  AddWatch(AddWatch(db, a, Watch(0, b, redundant)), b, Watch(0, a, redundant))

WatchReference(db, a, b, ref) ==
  AddWatch(AddWatch(db, a, Watch(ref, b, FALSE)), b, Watch(ref, a, FALSE))

\* kissat_unwatch_blocking
Unwatch(db, lit, ref) ==
  [db EXCEPT !.watches[lit] = SelectSeq(@, LAMBDA w : w.ref # ref)]

\* new_binary_clause and new_large_clause, while the solver is watching.  The
\* glue of an irredundant clause is 0, which is never above tier1.
NewClause(db, redundant, keep, lits) ==
  IF Len(lits) = 2
  THEN WatchBinary(db, redundant, lits[1], lits[2])
  ELSE LET ref == NextRef(db)
           clause == [lits |-> lits, redundant |-> redundant,
                      keep |-> keep \/ ~redundant, garbage |-> FALSE]
       IN WatchReference([db EXCEPT !.clauses = @ @@ (ref :> clause),
                                    !.first = IF clause.keep \/ @ # 0 THEN @ ELSE ref,
                                    !.last = IF redundant THEN @ ELSE ref],
                         lits[1], lits[2], ref)

MarkGarbage(db, refs) ==
  [db EXCEPT !.clauses = [r \in DOMAIN @ |->
     IF r \in refs THEN [@[r] EXCEPT !.garbage = TRUE] ELSE @[r]]]

\* mark_clause_as_used: a clause whose literals now have few enough levels is kept.
Promote(db, ref, keep) ==
  IF db.clauses[ref].redundant /\ keep THEN [db EXCEPT !.clauses[ref].keep = TRUE] ELSE db

\* The clauses when the search begins, at level 0 and without units.  Some are
\* redundant if the formula was simplified before.
Original(formula, redundant) ==
  FoldLeftDomain(LAMBDA db, i : NewClause(db, i \in redundant, FALSE, formula[i]),
                 [clauses |-> <<>>, watches |-> [lit \in Lit |-> <<>>], first |-> 0, last |-> 0],
                 formula)

-----------------------------------------------------------------------------
\* With a mistake: the false literal of the lowest level comes first.
MoveSmallestLowest(s, lits, start, satisfiedIsEnough) ==
  LET Rank(i) == IF IsFalse(s, lits[i]) THEN -LevelOf(s, lits[i]) ELSE 1
  IN Swap(lits, start, FirstBest(start, Len(lits), Rank))

(* kissat_sort_literals brings the best literals to watch to the front: an *)
(* unassigned one, else a true one of the lowest level, else a false one   *)
(* of the highest level.                                                   *)
MoveSmallest(s, lits, start, satisfiedIsEnough) ==
  LET Rank(i) ==
        CASE IsFree(s, lits[i])  -> 3 * N + 2
          [] IsTrue(s, lits[i])  -> IF satisfiedIsEnough THEN 3 * N + 2
                                    ELSE 2 * N + 1 - LevelOf(s, lits[i])
          [] IsFalse(s, lits[i]) -> LevelOf(s, lits[i])
  IN Swap(lits, start, FirstBest(start, Len(lits), Rank))

SortLiterals(s, lits) ==
  LET first == MoveSmallest(s, lits, 1, FALSE)
  IN IF Len(lits) = 2 THEN first
     ELSE MoveSmallest(s, first, 2, ~IsFalse(s, first[1]))

(* kissat_eager_subsume: the recent clauses in the queue that contain the  *)
(* learned one become garbage and leave the queue, as do those that are    *)
(* garbage or were turned irredundant.                                     *)
Subsumed(db, recent, lits) ==
  {r \in LitsOf(recent) \ {0} : /\ db.clauses[r].redundant
                                /\ ~db.clauses[r].garbage
                                /\ LitsOf(lits) \subseteq LitsOf(db.clauses[r].lits)}

Pruned(db, recent) ==
  [i \in DOMAIN recent |->
     IF recent[i] # 0 /\ db.clauses[recent[i]].redundant /\ ~db.clauses[recent[i]].garbage
     THEN recent[i] ELSE 0]

-----------------------------------------------------------------------------
(* kissat_sparse_collect from the clause "start" of the arena: first the   *)
(* watch lists are flushed, then the garbage clauses and those a unit      *)
(* satisfies leave the arena, the others lose their false literals and may *)
(* become binary, and the large ones that are left are watched afresh.     *)
FlushWatches(s, watches, start) ==
  LET fixed == Fixed(s)
      Kept(lit, w) == IF w.ref = 0 THEN lit \notin fixed /\ w.lit \notin fixed
                      ELSE lit \notin fixed /\ -lit \notin fixed /\ w.ref < start
  IN [lit \in Lit |-> SelectSeq(watches[lit], LAMBDA w : Kept(lit, w))]

Survives(s, clause) == ~clause.garbage /\ LitsOf(clause.lits) \cap Fixed(s) = {}

Shrunken(s, lits) == SelectSeq(lits, LAMBDA lit : -lit \notin Fixed(s))

BinaryNow(s, clause) == Len(Shrunken(s, clause.lits)) = 2

Swept(s, db, start) == {r \in DOMAIN db.clauses : r >= start /\ Survives(s, db.clauses[r])}
LargeLeft(s, db, start) == {r \in Swept(s, db, start) : ~BinaryNow(s, db.clauses[r])}

Redundants(db, refs) == {r \in refs : db.clauses[r].redundant}
Irredundants(db, refs) == refs \ Redundants(db, refs)
Reducibles(db, refs) == {r \in Redundants(db, refs) : ~db.clauses[r].keep}

(* move_redundant_clauses_to_the_end: if a redundant clause comes before   *)
(* the last irredundant one, from there on the irredundant clauses take    *)
(* the first places.  The place of each large clause the sweep leaves.     *)
Places(s, db, start) ==
  LET large == LargeLeft(s, db, start)
      moved == {r \in large : \E p \in Redundants(db, large) : p <= r}
      order == Ascending(Irredundants(db, moved)) \o Ascending(Redundants(db, moved))
  IN [r \in large |-> IF r \notin moved THEN r
                      ELSE Ascending(moved)[CHOOSE i \in DOMAIN order : order[i] = r]]

(* The last irredundant clause, or a clause behind all of them: if the one *)
(* that was last leaves and the sweep meets no other, it is the place      *)
(* where the sweep began.                                                  *)
SweptLast(db, start, places) ==
  LET large == DOMAIN places
      irredundant == Irredundants(db, large)
  IN CASE irredundant # {} -> Max({places[r] : r \in irredundant})
       [] irredundant = {} /\ (db.last < start \/ db.last \in large) -> db.last
       [] OTHER -> IF \A r \in DOMAIN db.clauses : start <= r THEN 0 ELSE Least(large)

SparseCollect(s, db, start) ==
  LET places  == Places(s, db, start)
      large   == DOMAIN places
      binary  == Swept(s, db, start) \ large
      before  == {r \in DOMAIN db.clauses : r < start}
      Lits(r) == Shrunken(s, db.clauses[r].lits)
      At(p)   == CHOOSE r \in large : places[r] = p
      sorted  == [p \in before \cup Range(places) |->
                    IF p \in before THEN db.clauses[p]
                    ELSE [db.clauses[At(p)] EXCEPT !.lits = SortLiterals(s, Lits(At(p)))]]
      flushed == [clauses |-> sorted, watches |-> FlushWatches(s, db.watches, start),
                  first |-> Least({places[r] : r \in Reducibles(db, large)}),
                  last |-> SweptLast(db, start, places)]
      shrunk  == FoldLeft(LAMBDA d, r : WatchBinary(d, db.clauses[r].redundant,
                                                    Lits(r)[1], Lits(r)[2]),
                          flushed, Ascending(binary))
  IN FoldLeft(LAMBDA d, p : WatchReference(d, sorted[p].lits[1], sorted[p].lits[2], p),
              shrunk, Ascending(Range(places)))

\* A reason clause that moved, or became binary: the variable of that one now
\* refers to the other literal.
CollectReasons(s, db, start) ==
  LET places == Places(s, db, start)
      Moved(why) ==
        CASE why.kind = "clause" /\ why.of \in DOMAIN places ->
               Reason("clause", places[why.of])
          [] why.kind = "clause" /\ why.of \in Swept(s, db, start) \ DOMAIN places ->
               Reason("binary", CHOOSE lit \in LitsOf(Shrunken(s, db.clauses[why.of].lits)) :
                                  IsFalse(s, lit))
          [] OTHER -> why
  IN [s EXCEPT !.reason = [v \in Var |-> Moved(s.reason[v])]]
=============================================================================
