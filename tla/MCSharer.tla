------------------------------- MODULE MCSharer -------------------------------
EXTENDS Sharer

CONSTANTS s1, s2

\* One solver in both lists from the start, one in none.
MCInitial == [r \in Roles |-> {s1}]
=============================================================================
