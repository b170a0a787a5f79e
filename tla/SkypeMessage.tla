------------------------------ MODULE SkypeMessage ------------------------------
(* How messages get into the history: WndProc starts a thread for every status *)
(* of a message it hears of (FetchMessageThreadSync), a list of missed messages*)
(* is worked on by one thread (MessageListProcessingThread), and what the user *)
(* sends is watched by a thread (MessageSendWatchThread).  The list of messages*)
(* (msglist.c) says which ones are in the history already.                     *)
(*                                                                             *)
(* Protocol 4 or later, where the counter rcvwatchers is not used; MsgList_Add *)
(* and MsgList_FindMessage are one step each; entries are younger than 30 min. *)
EXTENDS Naturals, Sequences, SequencesExt, FiniteSets

CONSTANTS Incoming, Own, Other,  \* messages: received, sent by the user here, and elsewhere
          Fetcher,               \* threads; as many statuses are heard of
          MaxEdits, None         \* bound: edits, of one message

Messages == Incoming \cup Own \cup Other
ASSUME MessageAssumption ==
    /\ Own \cap (Incoming \cup Other) = {} /\ None \notin Messages
    /\ IsFiniteSet(Incoming) /\ IsFiniteSet(Own)

VARIABLES
    status,       \* what Skype has said of a message
    body,         \* its version, in Skype
    noticed,      \* the version the last EDITED_TIMESTAMP was about
    entry,        \* MsgList: "none", "plain", or "edited" with tEdited # 0
    history,      \* the versions that are in the database, per message
    event,        \* FetchMessageEvent
    fetch,        \* threads that fetch
    sendwatchers, watch, reply,  \* threads that send, and what they wait for
    slow,         \* history: a fetch did not wait for the previous one to end
    early,        \* history: SENT was heard before the sender's MsgList_Add
    overlapped,   \* history: a message was edited while it was fetched
    failed        \* history: a fetch failed, or left a message out

skypeVars == <<status, body, noticed>>
sendVars == <<sendwatchers, watch, reply>>
ghosts == <<slow, early, overlapped, failed>>
vars == <<skypeVars, entry, history, event, fetch, sendVars, ghosts>>

NoFetch == [at |-> "idle", todo |-> <<>>, query |-> FALSE, got |-> None]
Fresh == {f \in Fetcher : fetch[f].at = "idle"}
Start(list, query) ==
    /\ Fresh # {}
    /\ fetch' = [fetch EXCEPT ![CHOOSE f \in Fresh : TRUE] =
                     [NoFetch EXCEPT !.at = "wait", !.todo = list, !.query = query]]
At(f, place) == fetch[f].at = place
Number(f) == Head(fetch[f].todo)
Inside == {f \in Fetcher : fetch[f].at \in {"look", "body", "store", "list"}}

-----------------------------------------------------------------------------
(* WndProc hears of a message. *)
Received(m) == /\ m \in Incoming
               /\ \/ status[m] = "new" /\ status' = [status EXCEPT ![m] = "received"]
                  \/ status[m] = "received" /\ status' = [status EXCEPT ![m] = "read"]
               /\ Start(<<m>>, FALSE)
               /\ UNCHANGED <<body, noticed, entry, history, event, sendVars, ghosts>>

(* A list of missed messages; their TIMESTAMPs have been asked for. *)
Missed == /\ \A f \in Fetcher : ~fetch[f].query
          /\ \E list \in {SetToSeq({m \in Incoming : status[m] # "new"})} :
                list # <<>> /\ Start(list, TRUE)
          /\ UNCHANGED <<skypeVars, entry, history, event, sendVars, ghosts>>

Edit(m) == /\ status[m] # "new" /\ body[m] = noticed[m] /\ body[m] < MaxEdits
           /\ \A n \in Messages \ {m} : body[n] = 0
           /\ body' = [body EXCEPT ![m] = @ + 1]
           /\ UNCHANGED <<status, noticed, entry, history, event, fetch, sendVars, ghosts>>
(* Bug: that the message was edited is not remembered. *)
EditForgotten(m) == entry
EditMarked(m) == [entry EXCEPT ![m] = IF @ = "none" THEN @ ELSE "edited"]
Edited(m) == /\ noticed[m] < body[m]
             /\ noticed' = [noticed EXCEPT ![m] = body[m]]
             /\ entry' = EditMarked(m)
             /\ overlapped' = (overlapped \/ \E f \in Inside : fetch[f].todo # <<>> /\ Number(f) = m)
             /\ Start(<<m>>, FALSE)
             /\ UNCHANGED <<status, body, history, event, sendVars, slow, early, failed>>

(* SENT: fetched unless it may be an answer to a thread here, or is known. *)
FetchSent(m) == sendwatchers = 0 /\ entry[m] = "none"
Sent(m) ==
    /\ \/ m \in Other /\ status[m] = "new"
       \/ m \in Own /\ status[m] \in {"sending", "queued"}
    /\ status' = [status EXCEPT ![m] = "sent"]
    /\ IF FetchSent(m)
       THEN /\ Start(<<m>>, FALSE) /\ UNCHANGED reply
            /\ early' = (early \/ (m \in Own /\ watch[m] = "list"))
       ELSE /\ reply' = [n \in Own |-> IF n = m THEN "ok" ELSE reply[n]]
            /\ UNCHANGED <<fetch, early>>
    /\ UNCHANGED <<body, noticed, entry, history, event, sendwatchers, watch, slow, overlapped, failed>>

-----------------------------------------------------------------------------
(* FetchMessageThreadSync, for each message in turn. *)
Wait(f) == /\ At(f, "wait") /\ event /\ event' = FALSE
           /\ fetch' = [fetch EXCEPT ![f].at = "look"]
           /\ UNCHANGED <<skypeVars, entry, history, sendVars, ghosts>>
(* Bound: one fetch goes wrong. *)
Smooth == ~slow /\ ~failed
(* After 30 s it goes on regardless. *)
WaitTimeout(f) == /\ At(f, "wait") /\ ~event /\ Smooth
                  /\ fetch' = [fetch EXCEPT ![f].at = "look"] /\ slow' = TRUE
                  /\ UNCHANGED <<skypeVars, entry, history, event, sendVars, early, overlapped, failed>>

(* SetEvent, and the next message of a list.  Bug: the event is not set. *)
EndFetchUnset(f) == \E rest \in {Tail(fetch[f].todo)} :
    /\ fetch' = [fetch EXCEPT ![f] = [NoFetch EXCEPT !.todo = rest, !.query = fetch[f].query,
                                         !.at = IF rest = <<>> THEN "done" ELSE "wait"]]
    /\ UNCHANGED event
EndFetch(f) == \E rest \in {Tail(fetch[f].todo)} :
    /\ fetch' = [fetch EXCEPT ![f] = [NoFetch EXCEPT !.todo = rest, !.query = fetch[f].query,
                                         !.at = IF rest = <<>> THEN "done" ELSE "wait"]]
    /\ event' = TRUE

(* MsgList_FindMessage: what is known and not edited needs no fetch. *)
LookKnown(f) == /\ At(f, "look") /\ entry[Number(f)] = "plain" /\ EndFetch(f)
                /\ UNCHANGED <<skypeVars, entry, history, sendVars, ghosts>>
Look(f) == /\ At(f, "look") /\ entry[Number(f)] # "plain"
           /\ fetch' = [fetch EXCEPT ![f].at = "body"]
           /\ UNCHANGED <<skypeVars, entry, history, event, sendVars, ghosts>>

(* FetchMessageThread: ask Skype, and look who it is from. *)
Body(f) == /\ At(f, "body")
           /\ fetch' = [fetch EXCEPT ![f].at = "store", ![f].got = body[Number(f)]]
           /\ UNCHANGED <<skypeVars, entry, history, event, sendVars, ghosts>>
(* Skype says ERROR or cannot be asked, which may be at any of the questions   *)
(* before; or a missed one is neither newer nor older than all. There is no    *)
(* limit to the wait for an answer.                                            *)
GiveUp(f) == /\ \/ At(f, "body")
                \/ At(f, "store") /\ fetch[f].query
             /\ Smooth /\ failed' = TRUE /\ EndFetch(f)
             /\ UNCHANGED <<skypeVars, entry, history, sendVars, slow, early, overlapped>>

Store(f) == /\ At(f, "store")
            /\ history' = [history EXCEPT ![Number(f)] = Append(@, fetch[f].got)]
            /\ fetch' = [fetch EXCEPT ![f].at = "list"]
            /\ UNCHANGED <<skypeVars, entry, event, sendVars, ghosts>>
(* MsgList_Add clears tEdited.  Bug: what was fetched is not listed. *)
NotListed(f) == /\ At(f, "list") /\ EndFetch(f)
                /\ UNCHANGED <<skypeVars, entry, history, sendVars, ghosts>>
List(f) == /\ At(f, "list") /\ entry' = [entry EXCEPT ![Number(f)] = "plain"] /\ EndFetch(f)
           /\ UNCHANGED <<skypeVars, history, sendVars, ghosts>>

-----------------------------------------------------------------------------
(* SkypeSendMessage, MessageSendWatchThread.  The window that sends stores the *)
(* message when it is told of the success.                                     *)
Send(m) == /\ m \in Own /\ status[m] = "new"
           /\ status' = [status EXCEPT ![m] = "sending"]
           /\ sendwatchers' = sendwatchers + 1 /\ watch' = [watch EXCEPT ![m] = "wait"]
           /\ UNCHANGED <<body, noticed, entry, history, event, fetch, reply, ghosts>>

(* QUEUED, for one who is offline, or an error. *)
SendAnswered(m) == /\ m \in Own /\ status[m] = "sending"
                   /\ \/ /\ status' = [status EXCEPT ![m] = "queued"]
                         /\ reply' = [reply EXCEPT ![m] = "ok"]
                      \/ /\ status' = [status EXCEPT ![m] = "failed"]
                         /\ reply' = [reply EXCEPT ![m] = "error"]
                   /\ UNCHANGED <<body, noticed, entry, history, event, fetch, sendwatchers, watch, ghosts>>

(* With the option NoAck, which is looked up for each message, the window is   *)
(* told at once; then the thread is no longer counted, and nothing is listed.  *)
WatchNoAck(m) ==
    /\ m \in Own /\ watch[m] = "wait" /\ watch' = [watch EXCEPT ![m] = "told"]
    /\ history' = [history EXCEPT ![m] = Append(@, 0)]
    /\ UNCHANGED <<skypeVars, entry, event, fetch, sendwatchers, reply, ghosts>>
WatchLeaves(m) ==
    /\ m \in Own /\ watch[m] = "told" /\ watch' = [watch EXCEPT ![m] = "trusted"]
    /\ sendwatchers' = sendwatchers - 1
    /\ UNCHANGED <<skypeVars, entry, history, event, fetch, reply, ghosts>>

(* SkypeRcvMsg returns, with or without an answer, and the thread is no longer *)
(* counted.                                                                    *)
WatchReturns(m) ==
    /\ m \in Own /\ watch[m] = "wait" /\ sendwatchers' = sendwatchers - 1
    /\ watch' = [watch EXCEPT ![m] = IF reply[m] = "ok" THEN "list" ELSE "done"]
    /\ UNCHANGED <<skypeVars, entry, history, event, fetch, reply, ghosts>>
WatchLists(m) ==
    /\ m \in Own /\ watch[m] = "list" /\ watch' = [watch EXCEPT ![m] = "done"]
    /\ entry' = [entry EXCEPT ![m] = "plain"]
    /\ history' = [history EXCEPT ![m] = Append(@, 0)]
    /\ UNCHANGED <<skypeVars, event, fetch, sendwatchers, reply, ghosts>>

-----------------------------------------------------------------------------
Init == /\ status = [m \in Messages |-> "new"]
        /\ body = [m \in Messages |-> 0] /\ noticed = body
        /\ entry = [m \in Messages |-> "none"] /\ history = [m \in Messages |-> <<>>]
        /\ event = TRUE /\ fetch = [f \in Fetcher |-> NoFetch]
        /\ sendwatchers = 0 /\ watch = [m \in Own |-> "none"] /\ reply = [m \in Own |-> "none"]
        /\ slow = FALSE /\ early = FALSE /\ overlapped = FALSE /\ failed = FALSE

Hears == (\E m \in Messages : Received(m) \/ Edit(m) \/ Edited(m) \/ Sent(m) \/ SendAnswered(m)) \/ Missed
Fetches(f) == Wait(f) \/ WaitTimeout(f) \/ LookKnown(f) \/ Look(f)
           \/ Body(f) \/ GiveUp(f) \/ Store(f) \/ List(f)
Sends(m) == WatchNoAck(m) \/ WatchLeaves(m) \/ WatchReturns(m) \/ WatchLists(m)
Next == \/ Hears
        \/ \E f \in Fetcher : Fetches(f)
        \/ \E m \in Messages : Send(m) \/ Sends(m)

Spec == Init /\ [][Next]_vars
(* Threads run; one that waits gets the event, or 30 s pass. *)
FairSpec == /\ Spec
            /\ \A f \in Fetcher : WF_vars(Fetches(f))
            /\ \A m \in Own : WF_vars(Sends(m))

-----------------------------------------------------------------------------
(* The event is the token of the fetches: it is set exactly when no fetch is   *)
(* under way, until one did not wait for its turn; and sendwatchers counts.    *)
MessageTypeOK ==
    /\ event \in BOOLEAN /\ entry \in [Messages -> {"none", "plain", "edited"}]
    /\ history \in [Messages -> Seq(Nat)]
    /\ ~slow => Cardinality(Inside) = IF event THEN 0 ELSE 1
    /\ sendwatchers = Cardinality({m \in Own : watch[m] \in {"wait", "told"}})

(* The window was told of the success of m before there was any (NoAck).       *)
Trusted(m) == m \in Own /\ watch[m] \in {"told", "trusted"}

(* A message is stored once, and once more for every edit at most, although    *)
(* RECEIVED, READ, a list of missed messages and a thread that sends all want  *)
(* to store it; if fetches wait for each other (skype.c 1559-1579).  A message *)
(* that the window stored on trust is not known to the list (skype.c 2906-2912)*)
(* and may be fetched as one from elsewhere, but only once.                    *)
StoredOnce ==
    ~slow /\ ~early => \A m \in Messages :
        Len(history[m]) <= 1 + noticed[m] + (IF Trusted(m) THEN 1 ELSE 0)

(* What skype.c:2933 says of the sender's MsgList_Add: "Use this to ensure that*)
(* main thread doesn't pick up sent message".                                  *)
SentOnce == ~slow => \A m \in Own : noticed[m] = 0 /\ ~Trusted(m) => Len(history[m]) <= 1

(* A message that was received gets into the history, unless Skype does not    *)
(* answer.                                                                     *)
ReceivedStored ==
    <>[](~failed => \A m \in Incoming : status[m] # "new" => history[m] # <<>>)

(* The last version in the history is that of Skype in the end, if nothing was *)
(* edited while it was fetched (an entry that is made then says "not edited"). *)
EditShown ==
    <>[](~(slow \/ early \/ overlapped \/ failed) =>
            \A m \in Incoming : status[m] # "new" /\ noticed[m] = body[m] =>
                history[m] # <<>> /\ history[m][Len(history[m])] = body[m])
=============================================================================
