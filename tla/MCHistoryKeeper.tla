---------------------------- MODULE MCHistoryKeeper ----------------------------
(* An instance of HistoryKeeper: the status and its message, which belong       *)
(* together, and the nickname, of one contact.                                  *)
EXTENDS HistoryKeeper, TLC

CONSTANTS anna, status, message, nick, v1, v2, nothing

MCSubOf == (status :> None) @@ (message :> status) @@ (nick :> None)
MCDefault == (status :> v1) @@ (message :> nothing) @@ (nick :> nothing)
MCSame == [t \in {status, message, nick} |-> {<<v, v>> : v \in {v1, v2, nothing}}]
MCAtLoad == {[t \in {status, message, nick} |-> v] : v \in {nothing, v2}}
MCWait == (status :> 1) @@ (message :> 2) @@ (nick :> 1)
============================================================================
