--------------------------- MODULE ContactAsyncQueue ---------------------------
(* utils/ContactAsyncQueue.cpp: work that is to be done for a contact after a *)
(* while, by the one thread of the queue.  Used by eSpeak and historykeeper.  *)
(*                                                                             *)
(* Time is counted in ticks.  An item knows how long it still has to wait;     *)
(* check_time is compared by differences in the code, so that it may wrap.     *)
(* The steps of the thread take no time, except waiting and the callback.      *)
EXTENDS Naturals, Sequences

CONSTANTS Contact,
          Delay,       \* the waitTimes in use
          Idle,        \* ticks the thread sleeps when there is nothing to do
          Patience,    \* ticks the destructor waits for the thread
          MaxAdded,    \* bound: items added
          None

ASSUME QueueAssumption == Delay \subseteq Nat /\ Idle \in Nat /\ Patience \in Nat

VARIABLES
    queue,      \* items, the next one first
    event,      \* hEvent, set until it is reset
    finished,   \* 0, 1 the thread shall end, 2 it has
    place,      \* where the thread is
    item,       \* the item it has taken
    until,      \* ticks it will still wait, if it is not woken
    owner,      \* the destructor: not called, stopping, waiting, done
    patience,   \* ticks it will still wait
    added       \* history: how many items were added

thread == <<place, item, until>>
destructor == <<owner, patience>>
queueVars == <<queue, event, finished, thread, destructor, added>>

Item(c, p, w) == [contact |-> c, param |-> p, wait |-> w, delay |-> w, no |-> added]
Without(q, k) == SubSeq(q, 1, k - 1) \o SubSeq(q, k + 1, Len(q))

-----------------------------------------------------------------------------
(* The operations, each one inside the critical section. *)

(* Bug: what is due at the same time is done in reverse. *)
InsertedBefore(q, new) ==
    {SubSeq(q, 1, k) \o <<new>> \o SubSeq(q, k + 1, Len(q)) : k \in
        {n \in 0..Len(q) : /\ \A i \in 1..n : q[i].wait < new.wait
                           /\ \A i \in n + 1 .. Len(q) : q[i].wait >= new.wait}}
(* QueueSortItems: after those that are due before or at the same time. *)
Inserted(q, new) ==
    {SubSeq(q, 1, k) \o <<new>> \o SubSeq(q, k + 1, Len(q)) : k \in
        {n \in 0..Len(q) : /\ \A i \in 1..n : q[i].wait <= new.wait
                           /\ \A i \in n + 1 .. Len(q) : q[i].wait > new.wait}}

(* Bug: the thread is not told. *)
AddSilently(q, c, p, w) ==
    queue' \in Inserted(q, Item(c, p, w)) /\ added' = added + 1 /\ UNCHANGED event
InternalAdd(q, c, p, w) ==
    queue' \in Inserted(q, Item(c, p, w)) /\ added' = added + 1 /\ event' = TRUE

Ours == UNCHANGED <<finished, thread, destructor>>

-----------------------------------------------------------------------------
(* The thread. *)
Go(from, to) == place = from /\ place' = to

(* while (!finished), and the last statement of the thread. *)
Ends == finished # 0 /\ place' = "done" /\ finished' = 2
(* If the queue has been deleted, the thread goes on with what is not there.   *)
Loop == /\ place = "loop"
        /\ \/ owner = "done" /\ place' = "stray" /\ UNCHANGED finished
           \/ owner # "done" /\ Ends
           \/ owner # "done" /\ finished = 0 /\ place' = "reset" /\ UNCHANGED finished
        /\ UNCHANGED <<queue, event, item, until, destructor, added>>

Reset == /\ Go("reset", "check") /\ event' = FALSE
         /\ UNCHANGED <<queue, finished, item, until, destructor, added>>

Check == /\ place = "check"
         /\ \/ Ends
            \/ finished = 0 /\ place' = "look" /\ UNCHANGED finished
         /\ UNCHANGED <<queue, event, item, until, destructor, added>>

(* Nothing is due: sleep. *)
Postpone == /\ Go("look", "rest")
            /\ \/ queue = <<>> /\ until' = Idle
               \/ queue # <<>> /\ queue[1].wait > 0 /\ until' = queue[1].wait
            /\ UNCHANGED <<queue, event, finished, item, destructor, added>>

(* The first item is due: the callback is called, outside the critical section *)
Take == /\ Go("look", "callback")
        /\ queue # <<>> /\ queue[1].wait = 0
        /\ item' = queue[1] /\ queue' = Tail(queue)
        /\ UNCHANGED <<event, finished, until, destructor, added>>

(* wait(): finished is tested before the event is waited for. *)
Rest == /\ place = "rest"
        /\ place' = IF finished # 0 THEN "loop" ELSE "wait"
        /\ UNCHANGED <<queue, event, finished, item, until, destructor, added>>

Wake == /\ Go("wait", "loop")
        /\ event \/ until = 0
        /\ UNCHANGED <<queue, event, finished, item, until, destructor, added>>

Return == /\ Go("callback", "loop")
          /\ item' = None
          /\ UNCHANGED <<queue, event, finished, until, destructor, added>>

-----------------------------------------------------------------------------
(* The destructor: Finish(), and 50 times 30 ms for the thread to end. *)
FinishMark == /\ owner = "none" /\ owner' = "stopping"
              /\ finished' = IF finished = 0 THEN 1 ELSE finished
              /\ UNCHANGED <<queue, event, thread, patience, added>>

(* Bug: the thread is not woken. *)
FinishQuietly == /\ owner = "stopping" /\ owner' = "waiting" /\ patience' = Patience
                 /\ UNCHANGED <<queue, event, finished, thread, added>>
Finish == /\ owner = "stopping" /\ owner' = "waiting" /\ patience' = Patience /\ event' = TRUE
          /\ UNCHANGED <<queue, finished, thread, added>>

Destroy == /\ owner = "waiting" /\ owner' = "done"
           /\ finished = 2 \/ patience = 0
           /\ queue' = <<>>
           /\ UNCHANGED <<event, finished, thread, patience, added>>

-----------------------------------------------------------------------------
Less(n) == IF n = 0 THEN 0 ELSE n - 1

(* A tick passes while the thread has nothing to do or is in the callback. *)
Busy == \/ place \in {"loop", "reset", "check", "look", "rest"}
        \/ place = "wait" /\ (event \/ until = 0)
Tick == /\ ~Busy /\ owner # "stopping" /\ ~(owner = "waiting" /\ finished = 2)
        /\ queue' = [i \in 1..Len(queue) |-> [queue[i] EXCEPT !.wait = Less(@)]]
        /\ until' = IF place = "wait" THEN Less(until) ELSE until
        /\ patience' = IF owner = "waiting" THEN Less(patience) ELSE patience
        /\ UNCHANGED <<event, finished, place, item, owner, added>>

QueueInit == /\ queue = <<>> /\ event = FALSE /\ finished = 0
             /\ place = "loop" /\ item = None /\ until = 0
             /\ owner = "none" /\ patience = 0 /\ added = 0

Resting == Loop \/ Reset \/ Check \/ Postpone \/ Rest \/ Wake
Passing == Finish \/ Destroy \/ Tick

-----------------------------------------------------------------------------
Places == {"loop", "reset", "check", "look", "rest", "wait", "callback", "stray", "done"}
Sorted == \A i, j \in 1..Len(queue) : i < j => queue[i].wait <= queue[j].wait

(* The thread never sleeps past the moment the first item is due: an item that *)
(* is added while it falls asleep wakes it (ContactAsyncQueue.cpp 180-205).    *)
NoOversleep ==
    place = "wait" /\ queue # <<>> /\ owner # "done" => event \/ until <= queue[1].wait

(* What is to wait equally long is done in the order in which it was added:    *)
(* eSpeak says what it is told first first (QueueSortItems, 25-31).            *)
InOrder ==
    \A j \in 1..Len(queue) :
        /\ \A i \in 1..j - 1 : queue[i].delay = queue[j].delay => queue[i].no < queue[j].no
        /\ item # None /\ item.delay = queue[j].delay => item.no < queue[j].no

(* The thread hears of the end whatever it is doing, and ends: the destructor  *)
(* gives up only because of a callback that takes too long (52-65, 224-228).   *)
StopHeard == owner = "done" => place \in {"done", "callback", "loop", "stray"}
=============================================================================
