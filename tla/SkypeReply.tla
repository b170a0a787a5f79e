------------------------------ MODULE SkypeReply ------------------------------
(***************************************************************************)
(* Waiting for Skype's replies (skype/src/skypeapi.c, msgq.c, skype.c).    *)
(*                                                                         *)
(* The window procedure of the message pump adds every message that nobody *)
(* else handled to the queue SkypeMsgs and releases SkypeMsgReceived once  *)
(* for every receiver it believes to be waiting.  Any thread may send a    *)
(* command and then search the queue for the reply in SkypeRcvTime; when   *)
(* it finds none it counts itself in `receivers', waits for the semaphore  *)
(* and searches again.                                                     *)
(***************************************************************************)
EXTENDS Integers, Sequences, FiniteSets

CONSTANTS Req,          \* the requests, each made by a thread of its own
          Timed,        \* the requests with a time limit
          WithId,       \* the requests whose command carries an id (SkypeGetID)
          MayFail,      \* the requests Skype may answer with an ERROR
          Silent,       \* the requests that only an ERROR would answer
          Main,         \* SkypeFlush, run by the main thread at shutdown
          MaxPermits,   \* the maximum of the semaphore, MAX_MSGS
          MaxAge,       \* timer ticks a message stays in the queue, MAX_MSG_AGE
          MaxOthers,    \* bound: messages in the queue that nobody asked for
          Nothing       \* NULL

ASSUME ReplyAssumption ==
    /\ IsFiniteSet(Req)
    /\ Timed \subseteq Req /\ WithId \subseteq Req /\ MayFail \subseteq Req
    /\ Silent \subseteq Timed
    /\ Main \in Timed \ (WithId \cup MayFail \cup Silent)
    /\ MaxPermits \in Nat \ {0} /\ MaxAge \in Nat

VARIABLES
    queue,       \* SkypeMsgs
    receivers,   \* the number of threads that wait, plus one
    sem,         \* permits of the semaphore SkypeMsgReceived
    line,        \* the waiting threads, in the order the semaphore serves them
    pc,          \* where each request is
    waited,      \* timer ticks since each request with a time stamp was made
    expired,     \* requests whose wait timed out
    got,         \* what each request returned
    open,        \* requests Skype has not answered yet
    pump,        \* the window procedure: idle, message added, the steps of
                 \* SkypeMsgCleanup, or stopped
    shutting     \* MirandaShuttingDown

replyVars == <<queue, receivers, sem, line, pc, waited, expired, got, open, pump, shutting>>

Place == {"idle", "scan", "count", "wait", "woken", "leave", "loop", "done", "null"}
PumpPlace == {"idle", "added", "errors", "exit", "stopped"}
Kind  == {"answer", "error", "iderror", "other"}
Message == [kind : Kind, to : Req, age : 0..MaxAge]

\* The threads that have counted themselves and not yet been discounted.
Counted == {r \in Req : pc[r] \in {"wait", "woken", "leave"}}

ReplyInit ==
    /\ queue = <<>>
    /\ receivers = 1
    /\ sem = 0
    /\ line = <<>>
    /\ pc = [r \in Req |-> "idle"]
    /\ waited = [r \in Req |-> 0]
    /\ expired = {}
    /\ got = [r \in Req |-> Nothing]
    /\ open = {}
    /\ pump = "idle"
    /\ shutting = FALSE

Goto(r, p) == pc' = [pc EXCEPT ![r] = p]

\* ReleaseSemaphore refuses a count below one or above the maximum altogether.
ReleaseUnbounded(n) == sem' = IF n > 0 THEN sem + n ELSE sem
Release(n) == sem' = IF n > 0 /\ sem + n <= MaxPermits THEN sem + n ELSE sem

-----------------------------------------------------------------------------
(* The requests: __SkypeGet or SkypeSend, followed by SkypeRcvTime.        *)

Request(r) ==
    /\ pc[r] = "idle" /\ r # Main /\ ~shutting
    /\ Goto(r, "scan")
    /\ open' = open \cup {r}
    /\ UNCHANGED <<line, queue, receivers, sem, waited, expired, got, pump, shutting>>

\* The time stamps, compared in timer ticks: no message from before the request.
\* Only a GET without an id asks for it.
RecentEnough(r, m) == r \in WithId \/ r = Main \/ m.age <= waited[r]

\* First the message that begins with what was asked for, on the second run
\* through the queue any ERROR, whoever caused it.  An ERROR that carries the
\* id of its command does not begin with "ERROR".
Asked(r, m) == r = Main \/ (m.kind = "answer" /\ m.to = r)
Acceptable(r, m) == Asked(r, m) \/ m.kind = "error"

Places(r, Wanted(_, _)) ==
    {i \in DOMAIN queue : RecentEnough(r, queue[i]) /\ Wanted(r, queue[i])}

Found(r) == IF Places(r, Asked) # {} THEN Places(r, Asked) ELSE Places(r, Acceptable)

Without(list, i) == [j \in 1..(Len(list) - 1) |-> IF j < i THEN list[j] ELSE list[j + 1]]

\* SkypeFlush throws the message away and receives the next.
Take(r, i) ==
    /\ queue' = Without(queue, i)
    /\ IF r = Main THEN UNCHANGED <<pc, got>>
       ELSE Goto(r, "done") /\ got' = [got EXCEPT ![r] = queue[i]]

\* One search of the queue, with the queue locked.
Scan(r) ==
    /\ pc[r] = "scan"
    /\ \/ \E i \in Found(r) : (\A j \in Found(r) : i <= j) /\ Take(r, i)
       \/ Found(r) = {} /\ Goto(r, "count") /\ UNCHANGED <<queue, got>>
    /\ UNCHANGED <<line, receivers, sem, waited, expired, open, pump, shutting>>

Count(r) ==
    /\ pc[r] = "count"
    /\ receivers' = receivers + 1
    /\ Goto(r, "wait") /\ line' = Append(line, r)
    /\ UNCHANGED <<queue, sem, waited, expired, got, open, pump, shutting>>

Wake(r) ==
    /\ pc[r] = "wait" /\ sem > 0 /\ r = Head(line)
    /\ sem' = sem - 1
    /\ Goto(r, "woken") /\ line' = Tail(line)
    /\ UNCHANGED <<queue, receivers, waited, expired, got, open, pump, shutting>>

TimeOut(r) ==
    /\ pc[r] = "wait" /\ r \in Timed
    /\ expired' = expired \cup {r}
    /\ Goto(r, "woken")
    /\ \E i \in DOMAIN line : line[i] = r /\ line' = Without(line, i)
    /\ UNCHANGED <<queue, receivers, sem, waited, got, open, pump, shutting>>

\* "if (receivers>1)" and the decrement are two steps.
Check(r) ==
    /\ pc[r] = "woken"
    /\ Goto(r, IF receivers > 1 THEN "leave" ELSE "loop")
    /\ UNCHANGED <<line, queue, receivers, sem, waited, expired, got, open, pump, shutting>>

Uncount == receivers' = receivers - 1
StaysCounted == UNCHANGED receivers
Discount == Uncount

Leave(r) ==
    /\ pc[r] = "leave"
    /\ Discount
    /\ Goto(r, "loop")
    /\ UNCHANGED <<line, queue, sem, waited, expired, got, open, pump, shutting>>

TimedOut(r) == r \in expired /\ ~shutting
GoesOn(r) == r \notin expired /\ ~shutting

\* Search again, or decrement once more and return NULL.
Loop(r) ==
    /\ pc[r] = "loop"
    /\ IF GoesOn(r) THEN Goto(r, "scan") /\ UNCHANGED receivers
                    ELSE Goto(r, "null") /\ Uncount
    /\ UNCHANGED <<line, queue, sem, waited, expired, got, open, pump, shutting>>

RequestStep(r) == Scan(r) \/ Count(r) \/ Wake(r) \/ TimeOut(r) \/ Check(r) \/ Leave(r) \/ Loop(r)

-----------------------------------------------------------------------------
(* The message pump: WndProc and its timer.                                *)

PumpAdd(m) ==
    /\ pump = "idle"
    /\ queue' = Append(queue, m)
    /\ pump' = "added"

\* Skype answers a request.
Reply(r) ==
    /\ r \in open
    /\ \E k \in Kind :
          /\ \/ k = "answer"  /\ r \notin Silent
             \/ k = "error"   /\ r \in MayFail \ WithId
             \/ k = "iderror" /\ r \in MayFail \cap WithId
          /\ PumpAdd([kind |-> k, to |-> r, age |-> 0])
    /\ open' = open \ {r}
    /\ UNCHANGED <<line, receivers, sem, pc, waited, expired, got, shutting>>

PostOne == Release(1)
PostReceived == Release(receivers)

PumpRelease ==
    /\ pump = "added"
    /\ PostReceived
    /\ pump' = "idle"
    /\ UNCHANGED <<line, queue, receivers, pc, waited, expired, got, open, shutting>>

\* Time passes only when every thread that can run has run.
Settled ==
    \A r \in Req : \/ pc[r] \in {"idle", "done", "null"}
                   \/ pc[r] = "wait" /\ sem = 0

\* Every ten seconds the garbage collector throws out what is too old: the head
\* of the queue, which is in the order the messages came in.  The PONG that
\* answers the PING of the same timer is not added to the queue.
Garbage(m) == m.age = MaxAge

\* Who will still compare time stamps.
Dated(r) == r \notin WithId \cup {Main} /\ pc[r] \notin {"idle", "done", "null"}
Older(m) == [m EXCEPT !.age = @ + 1]

Timer ==
    /\ pump = "idle" /\ Settled
    /\ \E n \in 0..Len(queue) :
          /\ \A i \in 1..n : Garbage(queue[i])
          /\ n < Len(queue) => ~Garbage(queue[n + 1])
          /\ queue' = [i \in 1..(Len(queue) - n) |-> Older(queue[i + n])]
    /\ waited' = [r \in Req |-> IF Dated(r) /\ waited[r] < MaxAge THEN waited[r] + 1 ELSE waited[r]]
    /\ UNCHANGED <<line, receivers, sem, pc, expired, got, open, pump, shutting>>

\* Skype tells of something nobody asked for, the status of a user say.
Unasked ==
    /\ Cardinality({i \in DOMAIN queue : queue[i].kind = "other"}) < MaxOthers
    /\ PumpAdd([kind |-> "other", to |-> Main, age |-> 0])
    /\ UNCHANGED <<line, receivers, sem, pc, waited, expired, got, open, shutting>>

-----------------------------------------------------------------------------
(* Shutdown: OkToExit, then Unload.                                        *)

OkToExit ==
    /\ ~shutting
    /\ shutting' = TRUE
    /\ Release(receivers)
    /\ Goto(Main, "scan")
    /\ UNCHANGED <<line, queue, receivers, waited, expired, got, open, pump>>

\* WM_CLOSE ends the message pump after the flush; Unload runs SkypeMsgCleanup:
\* an ERROR for each receiver, then the permits, then the queue is given up.
\* Who comes to the queue later finds nothing.
Blocked == [kind |-> "error", to |-> Main, age |-> 0]
CleanupAdd ==
    /\ shutting /\ pc[Main] = "null" /\ pump = "idle"
    /\ IF receivers > 1
       THEN queue' = queue \o [i \in 1..receivers |-> Blocked] /\ pump' = "errors"
       ELSE UNCHANGED queue /\ pump' = "exit"
    /\ UNCHANGED <<line, receivers, sem, pc, waited, expired, got, open, shutting>>

CleanupRelease ==
    /\ pump = "errors" /\ pump' = "exit"
    /\ Release(receivers)
    /\ UNCHANGED <<line, queue, receivers, pc, waited, expired, got, open, shutting>>

CleanupExit ==
    /\ pump = "exit" /\ pump' = "stopped"
    /\ queue' = <<>>
    /\ UNCHANGED <<line, receivers, sem, pc, waited, expired, got, open, shutting>>

SkypeMsgCleanup == CleanupAdd \/ CleanupRelease \/ CleanupExit

-----------------------------------------------------------------------------
ReplyNext ==
    \/ \E r \in Req : Request(r) \/ RequestStep(r) \/ Reply(r)
    \/ PumpRelease \/ Unasked \/ Timer
    \/ OkToExit \/ SkypeMsgCleanup

ReplySpec == ReplyInit /\ [][ReplyNext]_replyVars

\* The threads and the pump are scheduled.  A time limit runs out when time
\* passes, which is a step of the request.
Fairness ==
    /\ \A r \in Req : WF_replyVars(RequestStep(r))
    /\ WF_replyVars(PumpRelease)

FairReplySpec == ReplySpec /\ Fairness

\* Skype answers every request, and nobody keeps a time limit from running out
\* by sending messages that nobody asked for.
Answers == /\ \A r \in Req : SF_replyVars(Reply(r))
           /\ \A r \in Timed : SF_replyVars(TimeOut(r))

-----------------------------------------------------------------------------
(* Properties *)

\* Type invariant.
ReplyTypeOK ==
    /\ queue \in Seq(Message)
    /\ receivers \in Int
    /\ sem \in 0..MaxPermits
    /\ line \in Seq(Req)
    /\ pc \in [Req -> Place]
    /\ waited \in [Req -> 0..MaxAge]
    /\ expired \subseteq Timed
    /\ got \in [Req -> Message \cup {Nothing}]
    /\ open \subseteq Req
    /\ pump \in PumpPlace
    /\ shutting \in BOOLEAN

\* The requests that returned without a message.
GaveUp == {r \in Req : pc[r] = "null"}

\* What the counter `receivers' is worth: it never counts more threads than
\* wait, and misses at most one for every wait that ended without a message.
\* It is exact as long as no wait times out.
ReceiversCount ==
    /\ receivers <= 1 + Cardinality(Counted)
    /\ receivers >= 1 + Cardinality(Counted) - Cardinality(GaveUp)

\* A request without a time limit only returns with a message: its own answer
\* or an ERROR, unless Miranda shuts down.
InfiniteWaits ==
    \A r \in Req \ Timed :
        /\ pc[r] = "null" => shutting
        /\ pc[r] = "done" => got[r].kind = "error" \/ got[r].to = r

\* As long as no wait has ended without a message, whoever is waiting when its
\* answer comes returns: the waiters are all woken, so that one of those who wait
\* for something else cannot take the permit from it (skype.c:2433-2434,
\* skypeapi.c:499-503).  Nothing of the kind is true of a request that is between
\* its search and its wait at that time, see Answered.
Posted(r) == pump = "added" /\ queue[Len(queue)].kind = "answer" /\ queue[Len(queue)].to = r
WaitersAnswered ==
    \A r \in Req \ {Main} :
        (GaveUp = {} /\ pc[r] = "wait" /\ pump = "added" /\ queue # <<>> /\ Posted(r))
            ~> (pc[r] \in {"done", "null"} \/ shutting)

\* Every request returns in the end.  The code does not ensure it: a request that
\* Skype answers between its search and its wait relies on the one permit that is
\* released besides those of the receivers, and another one may take that.
Answered == \A r \in Req \ {Main} : (pc[r] = "scan") ~> (pc[r] \in {"done", "null"} \/ shutting)
=============================================================================
