---------------------------- MODULE ClauseDatabase ----------------------------
(***************************************************************************)
(* The database of HordeSatSharing (clauses/ClauseDatabase.cpp): one vector *)
(* of clauses per clause size, filled by addClause and emptied, shortest    *)
(* clauses first, by giveSelection within a budget of literals.  The loop   *)
(* of giveSelection is modelled turn by turn; its counter i is bucket, from  *)
(* 1 instead of 0.                                                          *)
(* Only the sharer's thread uses the database; ClauseSharing calls it.      *)
(***************************************************************************)
EXTENDS Integers, Sequences, FiniteSets, SequencesExt

CONSTANTS Clauses,       \* the shared clauses
          Size,          \* their numbers of literals
          BucketLimit    \* 1000 in the code: literals kept per size

ASSUME SizeAssumption == Size \in [Clauses -> Nat \ {0}]
ASSUME LimitAssumption == BucketLimit \in Nat

VARIABLES clauses,       \* clauses[s]: those of size s
          released,      \* clauses dropped because their vector was full
          dbPc,          \* "idle", or "select" inside giveSelection
          bucket,        \* the size giveSelection is at
          totalSize, used,
          selected, selectCount

dbVars == <<clauses, released, dbPc, bucket, totalSize, used, selected,
            selectCount>>

DBInit ==
  /\ clauses = <<>>
  /\ released = {}
  /\ dbPc = "idle"
  /\ bucket = 1 /\ totalSize = 0 /\ used = 0 /\ selectCount = 0
  /\ selected = <<>>

\* The vector of vectors, made long enough for clauses of size s.
Grown(s) ==
  [t \in 1 .. (IF Len(clauses) < s THEN s ELSE Len(clauses)) |->
     IF t <= Len(clauses) THEN clauses[t] ELSE <<>>]

AddClause(c) ==
  /\ dbPc = "idle"
  /\ IF (Len(Grown(Size[c])[Size[c]]) + 1) * Size[c] < BucketLimit
       THEN /\ clauses' = [Grown(Size[c]) EXCEPT ![Size[c]] = Append(@, c)]
            /\ UNCHANGED released
       ELSE /\ clauses' = Grown(Size[c])
            /\ released' = released \cup {c}
  /\ UNCHANGED <<dbPc, bucket, totalSize, used, selected, selectCount>>

\* The caller has cleared the vector it passes.
BeginSelection(total) ==
  /\ dbPc = "idle"
  /\ dbPc' = "select"
  /\ bucket' = 1 /\ totalSize' = total /\ used' = 0 /\ selectCount' = 0
  /\ selected' = <<>>
  /\ UNCHANGED <<clauses, released>>

left == totalSize - used

InLoop == dbPc = "select" /\ bucket <= Len(clauses) /\ left >= bucket

\* With a mistake: the vector is copied but not cleared.
TakeAllKept ==
  /\ InLoop
  /\ left >= bucket * Len(clauses[bucket])
  /\ used' = used + bucket * Len(clauses[bucket])
  /\ selected' = selected \o clauses[bucket]
  /\ selectCount' = selectCount + Len(clauses[bucket])
  /\ bucket' = bucket + 1
  /\ UNCHANGED <<clauses, released, dbPc, totalSize>>

TakeAll ==
  /\ InLoop
  /\ left >= bucket * Len(clauses[bucket])
  /\ used' = used + bucket * Len(clauses[bucket])
  /\ selected' = selected \o clauses[bucket]
  /\ selectCount' = selectCount + Len(clauses[bucket])
  /\ clauses' = [clauses EXCEPT ![bucket] = <<>>]
  /\ bucket' = bucket + 1
  /\ UNCHANGED <<released, dbPc, totalSize>>

\* How many clauses of size bucket fit.
nCls == left \div bucket

\* They are taken from the back, the last one first.
TakeSome ==
  /\ InLoop
  /\ left < bucket * Len(clauses[bucket])
  /\ used' = used + bucket * nCls
  /\ LET kept == Len(clauses[bucket]) - nCls
         last == SubSeq(clauses[bucket], kept + 1, Len(clauses[bucket]))
     IN  /\ selected' = selected \o Reverse(last)
         /\ clauses' = [clauses EXCEPT ![bucket] = SubSeq(@, 1, kept)]
  /\ selectCount' = selectCount + nCls
  /\ bucket' = bucket + 1
  /\ UNCHANGED <<released, dbPc, totalSize>>

\* No more place, or no more sizes.
EndSelection ==
  /\ dbPc = "select" /\ ~InLoop
  /\ dbPc' = "idle"
  /\ UNCHANGED <<clauses, released, bucket, totalSize, used, selected,
                 selectCount>>

Selecting == TakeAll \/ TakeSome \/ EndSelection
=============================================================================
