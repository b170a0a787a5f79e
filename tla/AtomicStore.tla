----------------------------- MODULE AtomicStore -----------------------------
(* What a journalled file promises to those who keep blocks in it: changes    *)
(* made in a transaction take effect together when it is committed; after a   *)
(* failure the blocks are as some commit left them, and that commit is not    *)
(* older than the last one known to be on the disk.                           *)
EXTENDS Naturals, Sequences

CONSTANTS Block,     \* the names a block can have
          Content,   \* what a block can contain
          None       \* the content of a block that does not exist

VARIABLES
    open,      \* whether a transaction is under way
    current,   \* what a reader of the running program sees, by block
    history    \* what the commits that may still be undone left, oldest first

store == <<open, current, history>>

StoreInit == /\ open = FALSE
             /\ current = [b \in Block |-> None]
             /\ history = <<current>>

Begin == /\ ~open /\ open'
         /\ UNCHANGED <<current, history>>

(* A change of one block inside a transaction. *)
Change == /\ open /\ UNCHANGED <<open, history>>
          /\ \E b \in Block : /\ current'[b] \in Content \cup {None}
                              /\ current' = [current EXCEPT ![b] = current'[b]]

(* A commit may be undone by a failure, or it is secure, and with it all before *)
Commit == /\ open /\ ~open'
          /\ history' \in {Append(history, current), <<current>>}
          /\ UNCHANGED current

(* The last commit becomes secure. *)
Secure == /\ history' = <<history[Len(history)]>>
          /\ UNCHANGED <<open, current>>

(* A failure: an open transaction is lost, and commits not known to be on the *)
(* disk may be.                                                                *)
Fail == /\ \E n \in 1..Len(history) : /\ history' = <<history[n]>>
                                      /\ current' = history[n]
        /\ ~open'

StoreNext == Begin \/ Change \/ Commit \/ Secure \/ Fail

Spec == StoreInit /\ [][StoreNext]_store
==============================================================================
