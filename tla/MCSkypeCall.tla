---------------------------- MODULE MCSkypeCall ----------------------------
(* Model checking SkypeCall: a SkypeOut number that is not in the contact     *)
(* list, with one outgoing and one incoming call.                             *)
EXTENDS SkypeCall, TLC
CONSTANTS phone, k1, k2

MCPartner == [k \in Calls |-> phone]

=============================================================================
