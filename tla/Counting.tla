------------------------------ MODULE Counting ------------------------------
(***************************************************************************)
(* How often an element occurs in a sequence, and in a family of sequences *)
(* (a function whose values are sequences).                                *)
(***************************************************************************)
EXTENDS Integers, Sequences, FiniteSets

Occurrences(e, seq) == {n \in DOMAIN seq : seq[n] = e}
Count(e, seq) == Cardinality(Occurrences(e, seq))

AllOccurrences(e, family) == UNION {{i} \X Occurrences(e, family[i]) : i \in DOMAIN family}
Total(e, family) == Cardinality(AllOccurrences(e, family))

\* 1 when x is e: what an x adds to the count of e.
One(x, e) == IF x = e THEN 1 ELSE 0
=============================================================================
