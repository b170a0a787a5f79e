------------------------------ MODULE SkypeCall ------------------------------
(***************************************************************************)
(* Call tracking of the Skype plugin (skype/src/skype.c, skypeapi.c).      *)
(*                                                                         *)
(* Skype reports the status of every call with "CALL n STATUS s" messages. *)
(* The window procedure starts one thread per message: RingThread,         *)
(* EndCallThread, HoldCallThread or ResumeCallThread.  They keep, per      *)
(* contact, the database settings "CallId" and "OnHold" from which the     *)
(* call, hang-up, hold and answer services decide what the user may do.    *)
(***************************************************************************)
EXTENDS Naturals, FiniteSets

CONSTANTS Contacts,     \* everybody who can be called or can call
          Listed,       \* the contacts that are in the contact list for good
          Calls,        \* call numbers handed out by Skype
          Partner,      \* the other end of each call
          Incoming,     \* the calls placed by the other end
          MaxThreads,   \* bound: threads started for one call
          MaxDialogs,   \* bound: dial dialogs open at a time
          Nobody,       \* no contact
          NoCall,       \* the setting "CallId" is absent
          NoThread      \* the critical section is free

ASSUME CallAssumption ==
    /\ Listed \subseteq Contacts
    /\ Partner \in [Calls -> Contacts]
    /\ Incoming \subseteq Calls
    /\ MaxThreads \in Nat \ {0} /\ MaxDialogs \in Nat
    /\ Nobody \notin Contacts
    /\ NoCall \notin Calls
    /\ NoThread \notin Calls \X (1..MaxThreads)

VARIABLES
    skype,       \* the status of each call inside Skype
    started,     \* how many threads were started for each call
    kind,        \* the function each thread runs
    pc,          \* where each thread is
    mutex,       \* owner of RingAndEndcallMutex
    found,       \* hContact of that owner, once it has found one
    exists,      \* contacts that are in the database
    outNr,       \* contacts with the setting "SkypeOutNr"
    dialogs,     \* how many dial dialogs are open
    dialFor,     \* the static hContact they share
    dialing,     \* the contact IDDIAL is being handled for, by the main thread
    dialAdded,   \* TempAdded of that handler
    callId,      \* the setting "CallId" of each contact
    onHold,      \* contacts whose setting "OnHold" is 1
    overtaken    \* history: calls with a RingThread entering after an EndCallThread

dialVars == <<dialogs, dialFor, dialing, dialAdded>>
section == <<mutex, found>>
callVars == <<skype, started, kind, pc, section, exists, outNr, callId, onHold, overtaken, dialVars>>

Thread == Calls \X (1..MaxThreads)
Status == {"unplaced", "requested", "routing", "ringing", "inprogress", "onhold", "ended"}
Kind   == {"none", "ring", "end", "hold", "resume"}
Inside == {"entered", "found", "saved", "unknown", "cleared"}    \* the critical section
Place  == {"idle", "start", "done"} \cup Inside

Of(t) == t[1]                      \* the call a thread was started for
Active == {"routing", "ringing", "inprogress", "onhold"}

CallInit ==
    /\ skype = [k \in Calls |-> "unplaced"]
    /\ started = [k \in Calls |-> 0]
    /\ kind = [t \in Thread |-> "none"]
    /\ pc = [t \in Thread |-> "idle"]
    /\ mutex = NoThread /\ found = Nobody
    /\ exists = Listed
    /\ outNr = {}
    /\ callId = [c \in Contacts |-> NoCall]
    /\ onHold = {}
    /\ dialogs = 0 /\ dialFor = Nobody
    /\ dialing = Nobody /\ dialAdded = FALSE
    /\ overtaken = {}

-----------------------------------------------------------------------------
(* Skype's side: the order in which Skype takes a call through its states. *)

Moves ==
    {"requested"} \X {"routing", "ended"} \cup {"routing"} \X {"ringing", "ended"}
      \cup {"ringing", "onhold"} \X {"inprogress", "ended"}
      \cup {"inprogress"} \X {"onhold", "ended"}

Successors(k, s) ==
    IF s = "unplaced" THEN IF k \in Incoming THEN {"ringing"} ELSE {"routing"}
                      ELSE {n \in Status : <<s, n>> \in Moves}

\* The thread the window procedure starts for a status message.
ThreadFor(s) ==
    CASE s \in {"routing", "ringing"} -> "ring"
      [] s = "ended"                  -> "end"
      [] s = "onhold"                 -> "hold"
      [] s = "inprogress"             -> "resume"

Start(k, f) ==
    /\ started[k] < MaxThreads
    /\ started' = [started EXCEPT ![k] = @ + 1]
    /\ kind' = [kind EXCEPT ![<<k, started[k] + 1>>] = f]
    /\ pc' = [pc EXCEPT ![<<k, started[k] + 1>>] = "start"]

\* "CALL n STATUS s" arrives and WndProc starts the thread for it.  The last
\* thread of the bound is kept for the message that ends the call.
CallStatus(k, s) ==
    /\ s \in Successors(k, skype[k])
    /\ s # "ended" => started[k] < MaxThreads - 1
    /\ skype' = [skype EXCEPT ![k] = s]
    /\ Start(k, ThreadFor(s))
    /\ UNCHANGED <<section, exists, outNr, callId, onHold, overtaken, dialVars>>

-----------------------------------------------------------------------------
(* The services the user reaches through the contact menu.  They run in the *)
(* main thread, which is busy while the dial dialog waits for an ERROR.     *)

MainFree == dialing = Nobody

\* Skype gets a "CALL" command and answers it with the next call number.
Call_(c) ==
    \E k \in Calls \ Incoming :
        /\ Partner[k] = c /\ skype[k] = "unplaced"
        /\ skype' = [skype EXCEPT ![k] = "requested"]

\* Refuses when the contact already has a CallId.
SkypeCall(c) ==
    /\ MainFree /\ c \in exists /\ callId[c] = NoCall
    /\ Call_(c)
    /\ UNCHANGED <<started, kind, pc, section, exists, outNr, callId, onHold, overtaken, dialVars>>

\* "SET CALL n STATUS FINISHED": Skype accepts it for a call that is not over.
SkypeCallHangup(c) ==
    /\ MainFree /\ callId[c] # NoCall
    /\ CallStatus(callId[c], "ended")

\* Toggles between ONHOLD and INPROGRESS on the word of the OnHold setting.
SkypeHoldCall(c) ==
    /\ MainFree /\ callId[c] # NoCall
    /\ skype[callId[c]] \in {"inprogress", "onhold"}
    /\ CallStatus(callId[c], IF c \in onHold THEN "inprogress" ELSE "onhold")

\* Hanging up a SkypeOut contact also waits half a second for an ERROR, whoever
\* caused it, and then runs EndCallThread itself.
SkypeOutHangup(c) ==
    /\ MainFree /\ callId[c] # NoCall
    /\ skype[callId[c]] # "ended" => started[callId[c]] < MaxThreads - 1
    /\ Start(callId[c], "end")
    /\ UNCHANGED <<skype, section, exists, outNr, callId, onHold, overtaken, dialVars>>

\* Opens the dial dialog: for a contact that has no CallId, or for a number to
\* be typed in.  Whichever was opened last is what every dialog works for.
OpenDial(who) ==
    /\ MainFree /\ dialogs < MaxDialogs
    /\ who # Nobody => who \in exists /\ callId[who] = NoCall
    /\ dialogs' = dialogs + 1 /\ dialFor' = who
    /\ UNCHANGED <<skype, started, kind, pc, section, exists, outNr, callId, onHold, overtaken,
                   dialing, dialAdded>>

\* IDDIAL: the contact of the dialog gets the number, and Skype the call.  For a
\* number typed in, add_contact finds or adds its contact c first.
Dial(c) ==
    /\ MainFree /\ dialogs > 0
    /\ \/ dialFor = Nobody /\ exists' = exists \cup {c} /\ dialAdded' = TRUE
       \/ dialFor = c /\ c \in exists /\ dialAdded' = FALSE /\ UNCHANGED exists
    /\ dialFor' = c /\ dialing' = c
    /\ outNr' = outNr \cup {c}
    /\ Call_(c)
    /\ UNCHANGED <<started, kind, pc, section, callId, onHold, overtaken, dialogs>>

\* IDCANCEL, or an IDDIAL whose contact was deleted, as its number is not stored.
CloseDial ==
    /\ MainFree /\ dialogs > 0
    /\ dialogs' = dialogs - 1
    /\ UNCHANGED <<skype, started, kind, pc, section, exists, outNr, callId, onHold, overtaken,
                   dialFor, dialing, dialAdded>>

\* Deleting contacts deletes their settings.
HoldSurvives(gone) == onHold
HoldLeft(gone) == onHold \ gone

AddedByDial == IF dialAdded THEN {dialing} ELSE {}

\* The handler is through and closes the dialog.
DialEnds ==
    /\ dialing' = Nobody /\ dialAdded' = FALSE
    /\ dialogs' = dialogs - 1 /\ UNCHANGED dialFor

\* The wait of half a second ends with an ERROR, whoever caused it.
DialFailed ==
    /\ ~MainFree
    /\ exists' = exists \ AddedByDial
    /\ outNr' = outNr \ {dialing}
    /\ onHold' = HoldLeft(AddedByDial)
    /\ callId' = [c \in Contacts |-> IF c \in AddedByDial THEN NoCall ELSE callId[c]]
    /\ DialEnds
    /\ UNCHANGED <<skype, started, kind, pc, section, overtaken>>

\* It ends without one.
DialDone ==
    /\ ~MainFree
    /\ DialEnds
    /\ UNCHANGED <<skype, started, kind, pc, section, exists, outNr, callId, onHold, overtaken>>

-----------------------------------------------------------------------------
(* RingThread *)

Goto(t, p) == pc' = [pc EXCEPT ![t] = p]
Leave(t) == mutex' = NoThread /\ found' = Nobody /\ Goto(t, "done")
EndEntered(k) ==
    \E t \in Thread : Of(t) = k /\ kind[t] = "end" /\ pc[t] \in {"entered", "cleared", "done"}

EnterUnlocked(t) ==
    /\ pc[t] = "start"
    /\ mutex' = t /\ UNCHANGED found
    /\ Goto(t, "entered")
Enter(t) ==
    /\ pc[t] = "start" /\ mutex = NoThread
    /\ mutex' = t /\ UNCHANGED found
    /\ Goto(t, "entered")

RingEnter(t) ==
    /\ kind[t] = "ring"
    /\ Enter(t)
    /\ overtaken' = overtaken \cup (IF EndEntered(Of(t)) THEN {Of(t)} ELSE {})
    /\ UNCHANGED <<skype, started, kind, exists, outNr, callId, onHold, dialVars>>

\* The critical section is left at every exit of the two functions.
ExitWithoutLeave(t) == Goto(t, "done") /\ UNCHANGED section
EarlyExit(t) == Leave(t)

HasCallId(c) == callId[c] # NoCall
IgnoresCallId(c) == FALSE

\* "Make sure that an answering thread is not already in progress."
AlreadyRinging(c) == HasCallId(c)

\* Asks for the caller and looks it up; the thread ends when that contact has a
\* CallId already.  The caller stays unknown when nobody has that handle or the
\* GET for it failed.
RingFind(t) ==
    LET c == Partner[Of(t)] IN
    /\ kind[t] = "ring" /\ pc[t] = "entered"
    /\ \/ /\ c \in exists /\ ~AlreadyRinging(c)
          /\ found' = c
          /\ Goto(t, "found") /\ UNCHANGED mutex
       \/ /\ c \in exists /\ AlreadyRinging(c)
          /\ EarlyExit(t)
       \/ Goto(t, "unknown") /\ UNCHANGED section
    /\ UNCHANGED <<skype, started, kind, exists, outNr, callId, onHold, overtaken, dialVars>>

\* Stores the CallId, if the contact is still there.
RingSave(t) ==
    /\ kind[t] = "ring" /\ pc[t] = "found"
    /\ callId' = [c \in Contacts |-> IF c = found /\ c \in exists THEN Of(t) ELSE callId[c]]
    /\ Goto(t, "saved")
    /\ UNCHANGED <<skype, started, kind, section, exists, outNr, onHold, overtaken, dialVars>>

\* Asks for the type of the call; an incoming call of somebody unknown adds a
\* contact (which does not get the CallId), for which the main thread must be
\* free.  A failing GET ends the thread early.
RingType(t) ==
    LET c == Partner[Of(t)] IN
    /\ kind[t] = "ring" /\ pc[t] \in {"saved", "unknown"}
    /\ \/ /\ pc[t] = "unknown" /\ Of(t) \in Incoming /\ MainFree
          /\ exists' = exists \cup {c}
          /\ outNr' = outNr \cup {c}
       \/ UNCHANGED <<exists, outNr>>
    /\ Leave(t)
    /\ UNCHANGED <<skype, started, kind, callId, onHold, overtaken, dialVars>>

-----------------------------------------------------------------------------
(* EndCallThread *)

EndEnter(t) ==
    /\ kind[t] = "end"
    /\ Enter(t)
    /\ UNCHANGED <<skype, started, kind, exists, outNr, callId, onHold, overtaken, dialVars>>

\* The contact is looked up by the CallId itself.
WithCallId(k) == {c \in exists : callId[c] = k}

\* Removes the setting.
EndClear(t) ==
    /\ kind[t] = "end" /\ pc[t] = "entered"
    /\ \/ \E c \in WithCallId(Of(t)) :
             /\ found' = c
             /\ callId' = [callId EXCEPT ![c] = NoCall]
             /\ Goto(t, "cleared") /\ UNCHANGED mutex
       \/ WithCallId(Of(t)) = {} /\ Leave(t) /\ UNCHANGED callId
    /\ UNCHANGED <<skype, started, kind, exists, outNr, onHold, overtaken, dialVars>>

OnlyTemporary(c) == ({c} \cap outNr) \ Listed

\* Deletes the contact when it was only added temporarily; whatever the user has
\* begun with it since the setting is gone.
EndDelete(t) ==
    LET gone == OnlyTemporary(found) IN
    /\ kind[t] = "end" /\ pc[t] = "cleared"
    /\ exists' = exists \ gone
    /\ outNr' = outNr \ gone
    /\ onHold' = HoldLeft(gone)
    /\ callId' = [c \in Contacts |-> IF c \in gone THEN NoCall ELSE callId[c]]
    /\ Leave(t)
    /\ UNCHANGED <<skype, started, kind, overtaken, dialVars>>

(* HoldCallThread and ResumeCallThread take no lock; they do nothing when the *)
(* GET for the caller fails.                                                  *)

HoldCall(t) ==
    LET c == Partner[Of(t)] IN
    /\ kind[t] = "hold" /\ pc[t] = "start"
    /\ \/ c \in exists /\ onHold' = onHold \cup {c}
       \/ UNCHANGED onHold
    /\ Goto(t, "done")
    /\ UNCHANGED <<skype, started, kind, section, exists, outNr, callId, overtaken, dialVars>>

ResumeCall(t) ==
    /\ kind[t] = "resume" /\ pc[t] = "start"
    /\ \/ onHold' = onHold \ {Partner[Of(t)]}
       \/ UNCHANGED onHold
    /\ Goto(t, "done")
    /\ UNCHANGED <<skype, started, kind, section, exists, outNr, callId, overtaken, dialVars>>

-----------------------------------------------------------------------------
RingThread(t)    == RingEnter(t) \/ RingFind(t) \/ RingSave(t) \/ RingType(t)
EndCallThread(t) == EndEnter(t) \/ EndClear(t) \/ EndDelete(t)
ThreadStep(t)    == RingThread(t) \/ EndCallThread(t) \/ HoldCall(t) \/ ResumeCall(t)

CallNext ==
    \/ \E k \in Calls, s \in Status : CallStatus(k, s)
    \/ \E c \in Contacts : \/ SkypeCall(c) \/ SkypeCallHangup(c) \/ SkypeHoldCall(c)
                           \/ SkypeOutHangup(c)
                           \/ Dial(c)
    \/ \E who \in Contacts \cup {Nobody} : OpenDial(who)
    \/ DialFailed \/ DialDone \/ CloseDial
    \/ \E t \in Thread : ThreadStep(t)

CallSpec == CallInit /\ [][CallNext]_callVars

\* The next step of a thread comes after the answer to a GET, for which it waits
\* without a time limit.
AwaitsAnswer(t) ==
    \/ kind[t] = "ring" /\ pc[t] \in {"entered", "saved", "unknown"}
    \/ kind[t] \in {"hold", "resume"} /\ pc[t] = "start"

\* A thread that can go on and asks Skype nothing is scheduled at last; that Skype
\* answers is not assumed.  Every call has finitely many messages, hence threads,
\* so this much fairness lets each of them go on.
FairCallSpec == CallSpec /\ WF_callVars(\E t \in Thread : ThreadStep(t) /\ ~AwaitsAnswer(t))

-----------------------------------------------------------------------------
(* Properties *)

\* Type invariant.
CallTypeOK ==
    /\ skype \in [Calls -> Status]
    /\ started \in [Calls -> 0..MaxThreads]
    /\ kind \in [Thread -> Kind]
    /\ pc \in [Thread -> Place]
    /\ mutex \in Thread \cup {NoThread} /\ found \in Contacts \cup {Nobody}
    /\ exists \subseteq Contacts /\ outNr \subseteq exists
    /\ callId \in [Contacts -> Calls \cup {NoCall}]
    /\ onHold \subseteq exists
    /\ dialogs \in 0..MaxDialogs /\ dialFor \in Contacts \cup {Nobody}
    /\ dialing \in Contacts \cup {Nobody} /\ dialAdded \in BOOLEAN
    /\ overtaken \subseteq Calls

\* Once an EndCallThread has finished, the CallId of its call is gone for good,
\* unless a RingThread of the same call got the critical section after it: the
\* lock keeps the two apart and nothing else can bring the setting back.
EndedStaysEnded ==
    \A t \in Thread :
        kind[t] = "end" /\ pc[t] = "done" /\ Of(t) \notin overtaken
            => callId[Partner[Of(t)]] # Of(t)

\* The inductive invariant behind it.  Threads that were not started are idle;
\* a thread is inside the critical section exactly when it owns it, and what it
\* has found is what it works with; a CallId is with the other end of its call;
\* and a RingThread that is about to save the CallId while an EndCallThread of its
\* call has passed the entry came in after it.
IdleAbove == \A k \in Calls, i \in 1..MaxThreads : i > started[k] => pc[<<k, i>>] = "idle"
MutexHeld == \A t \in Thread : pc[t] \in Inside <=> mutex = t
AtPartner == \A c \in Contacts : callId[c] # NoCall => Partner[callId[c]] = c /\ c \in exists
FoundRight ==
    \A t \in Thread :
        /\ pc[t] = "found" => kind[t] = "ring" /\ found = Partner[Of(t)]
        /\ pc[t] = "cleared" => kind[t] = "end" /\ found = Partner[Of(t)]
        /\ pc[t] \in {"found", "cleared"} => callId[found] = NoCall
LateRing ==
    \A t \in Thread :
        kind[t] = "ring" /\ pc[t] \in {"entered", "found"} /\ EndEntered(Of(t)) => Of(t) \in overtaken
Dialled == dialing # Nobody => dialogs > 0
CallInv == /\ CallTypeOK /\ IdleAbove /\ MutexHeld /\ AtPartner /\ FoundRight /\ LateRing /\ Dialled
           /\ EndedStaysEnded

\* A stored CallId is never replaced by that of another call (a second call of
\* the same contact is ignored), and is removed by an EndCallThread for that
\* very call, or together with a contact whose number could not be dialled.  So
\* an EndCallThread that deletes its contact after it removed the CallId takes no
\* CallId of a newer call with it.
CallIdKept ==
    [][\A c \in Contacts :
          callId[c] # NoCall /\ callId'[c] # callId[c] =>
              /\ callId'[c] = NoCall
              /\ \/ c \notin exists' /\ c = dialing
                 \/ \E t \in Thread : /\ kind[t] = "end" /\ Of(t) = callId[c]
                                      /\ pc[t] = "entered" /\ pc'[t] = "cleared"]_callVars

\* The end of a call never deletes a contact the user keeps in the list; only
\* a failed dial of a typed-in number does that, to the contact of that number.
ListedKept ==
    [][\A c \in Listed : c \in exists /\ c \notin exists' => c = dialing /\ dialAdded]_callVars

\* In the end only Skype can hold a status message up: a thread that has not
\* finished waits for an answer itself, or at the entry of the critical section for
\* a thread that does.  The section is given back at every exit of the functions.
OnlySkypeHoldsUp ==
    <>[](\A t \in Thread :
            \/ pc[t] \in {"idle", "done"} \/ AwaitsAnswer(t)
            \/ pc[t] = "start" /\ mutex # NoThread /\ AwaitsAnswer(mutex))

\* What the comment at the top of RingThread and EndCallThread promises: when a
\* call is over and all its messages are processed, its CallId is gone and the
\* contact can be called again.
CallableAgain ==
    \A k \in Calls :
        /\ skype[k] = "ended"
        /\ \A t \in Thread : Of(t) = k => pc[t] \in {"idle", "done"}
        => callId[Partner[k]] # k
=============================================================================
