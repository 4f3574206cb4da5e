---------------------------- MODULE MCManuscript ----------------------------
EXTENDS Manuscript

CONSTANTS r1, r2, c1, c2, c3, c4

MCFirst == <<c1, c2>>
Symmetry == Permutations(Requests) \cup Permutations({c3, c4})
=============================================================================
