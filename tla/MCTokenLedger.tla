--------------------------- MODULE MCTokenLedger ---------------------------
(* Instances of TokenLedger for TLC. *)
EXTENDS TokenLedger, TLC

CONSTANTS c1, c2, c3

MCOps == {c1, c2, c3}
OpSymmetry == Permutations(MCOps)
=============================================================================
