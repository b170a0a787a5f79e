------------------------------ MODULE MCBTree ------------------------------
(* Model checking BTree with nodes of at most three keys: nine keys are       *)
(* enough for a tree of three levels.                                         *)
EXTENDS BTree, TLC
CONSTANTS i1
=============================================================================
