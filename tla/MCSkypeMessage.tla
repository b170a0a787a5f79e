---------------------------- MODULE MCSkypeMessage ----------------------------
(* An instance of SkypeMessage: a message each way and three threads. *)
EXTENDS SkypeMessage

CONSTANTS in1, own1, other1, f1, f2, f3
=============================================================================
