---------------------------- MODULE MCMREWSync -----------------------------
(* Model checking MREWSync. *)
EXTENDS MREWSync
CONSTANTS a, b, c
=============================================================================
