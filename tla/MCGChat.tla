-------------------------------- MODULE MCGChat --------------------------------
(* An instance of GChat: two members, as many messages as there are threads.   *)
EXTENDS GChat

CONSTANTS anna, bob, u1, u2, u3, f1
=============================================================================
