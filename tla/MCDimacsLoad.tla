----------------------------- MODULE MCDimacsLoad -----------------------------
EXTENDS DimacsLoad

CONSTANT MaxLen   \* bound: the length of a file

\* Every file of at most MaxLen characters, with two of the numerals.
MCChars == {"0", "1"} \cup (Chars \ Numerals)
MCTexts == UNION {[1 .. n -> MCChars] : n \in 0 .. MaxLen}
=============================================================================
