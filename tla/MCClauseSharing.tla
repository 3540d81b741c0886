--------------------------- MODULE MCClauseSharing ----------------------------
EXTENDS ClauseSharing

CONSTANTS s1, s2, s3

\* Two units, of which the budget of HordeSatSharing takes one at a time, and a
\* clause that is too long for a vector of the database; the last one has a
\* larger LBD than the first limit admits.
MCSize == [c \in Clauses |-> IF c = 3 THEN 3 ELSE 1]
MCLbd  == [c \in Clauses |-> IF c = 3 THEN 3 ELSE 2]

\* Every solver is a producer and a consumer, or s3 is only a consumer.
Both == <<s1, s2>>
All == <<s1, s2, s3>>
=============================================================================
