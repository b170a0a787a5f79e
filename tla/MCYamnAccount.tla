--------------------------- MODULE MCYamnAccount ---------------------------
(* Model checking YamnAccount. *)
EXTENDS YamnAccount
CONSTANTS a, c1, c2, w1, w2, main, hotkey
=============================================================================
