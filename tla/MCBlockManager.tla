---------------------------- MODULE MCBlockManager ----------------------------
(* An instance of BlockManager for TLC. *)
EXTENDS BlockManager, TLC

CONSTANTS b1, b2, v1, v2

MCBlock == {b1, b2}
MCValue == {v1, v2}
MCBlockSizes == {1, 3}
MCSymmetry == Permutations(MCBlock) \cup Permutations(MCValue)
=============================================================================
