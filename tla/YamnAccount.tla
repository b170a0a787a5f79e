----------------------------- MODULE YamnAccount -----------------------------
(***************************************************************************)
(* The life of a mail account of YAMN (yamn/account.cpp) and of the        *)
(* threads that use it: checks of the mailbox (proto/pop3/pop3comm.cpp)    *)
(* and windows (browser/mailbrowser.cpp, browser/badconnect.cpp).          *)
(*                                                                         *)
(* An account is deleted by the user or when Miranda exits.  It is first   *)
(* told to stop, then taken out of the list of accounts, and freed once    *)
(* UsingThreads says that no thread uses it.  A thread counts itself there *)
(* when it starts; who starts it waits until it has.                       *)
(***************************************************************************)
EXTENDS Naturals, FiniteSets

CONSTANTS Account,
          Checker,       \* threads that check a mailbox
          Window,        \* threads that show a window
          Main,          \* Miranda's main thread, with YAMN's timer
          HotKey,        \* the thread that waits for the hot key
          None

ASSUME YamnAssumption ==
    /\ IsFiniteSet(Account) /\ IsFiniteSet(Checker) /\ IsFiniteSet(Window)
    /\ Checker \cap Window = {}
    /\ Main # HotKey /\ {Main, HotKey} \cap (Checker \cup Window) = {}
    /\ None \notin Account \cup Checker \cup Window \cup {Main, HotKey}

VARIABLES
    finish,      \* accounts that were told to stop: hFinishEV set, AbleToWork false
    listed,      \* the plugin's list of accounts
    freed,       \* accounts that are deleted from memory
    deleter,     \* where DeleteAccountInBackground is for each account
    passed,      \* accounts that WaitForAllAccounts is done with
    number,      \* UsingThreads->Number of each account
    event,       \* UsingThreads->Event, an auto-reset event
    internet,    \* UseInternetFree, an auto-reset event
    regCS,       \* owner of PluginRegCS
    pc, kind, acc,   \* where each thread is, what it does and for which account
    by,          \* who waits for a thread to count itself
    stray        \* history: threads that did so when nobody waited for the account any more

life  == <<finish, listed, freed, deleter, passed>>
count == <<number, event>>
self  == <<kind, acc, by, stray>>
yamnVars == <<life, count, internet, regCS, pc, self>>

Thread == Checker \cup Window
Caller == {Main, HotKey}

YamnInit ==
    /\ finish = {} /\ listed = Account /\ freed = {}
    /\ deleter = [a \in Account |-> "none"]
    /\ passed = {}
    /\ number = [a \in Account |-> 0]
    /\ event = [a \in Account |-> TRUE]
    /\ internet = [a \in Account |-> TRUE]
    /\ regCS = None
    /\ pc = [t \in Thread \cup Caller |-> "idle"]
    /\ kind = [t \in Thread |-> "none"]
    /\ acc = [t \in Thread \cup {Main} |-> None]
    /\ by = [t \in Thread |-> None]
    /\ stray = {}

Go(t, from, to) == pc[t] = from /\ pc' = [pc EXCEPT ![t] = to]

-----------------------------------------------------------------------------
(* Threads start each other and count themselves. *)

Begin(t, k, a, p) ==
    /\ pc[t] = "idle"
    /\ kind' = [kind EXCEPT ![t] = k]
    /\ acc' = [acc EXCEPT ![t] = a]
    /\ by' = [by EXCEPT ![t] = p]
    /\ UNCHANGED stray

\* p starts t for account a and waits for ThreadRunningEV at place `at'.
Start(t, k, a, p, at) ==
    /\ Begin(t, k, a, p)
    /\ pc' = [pc EXCEPT ![t] = "started", ![p] = at]

\* SCInc.  What happens to a thread that finds its account freed is undefined.
Count(t) ==
    /\ Go(t, "started", "counted")
    /\ acc[t] \notin freed
    /\ number' = [number EXCEPT ![acc[t]] = @ + 1]
    /\ event' = [event EXCEPT ![acc[t]] = FALSE]
    /\ by' = [by EXCEPT ![t] = None]
    /\ stray' = IF deleter[acc[t]] = "freeing" \/ acc[t] \in passed THEN stray \cup {t} ELSE stray
    /\ UNCHANGED <<life, internet, regCS, kind, acc>>

Counting(p) == \E t \in Thread : pc[t] = "started" /\ by[t] = p

\* SCDec: decrement and set the event at zero.
DecLate(a) == number[a] = 0
DecZero(a) == number[a] = 1

Uncount(t) ==
    /\ Go(t, "dec", "idle")
    /\ number' = [number EXCEPT ![acc[t]] = @ - 1]
    /\ event' = [event EXCEPT ![acc[t]] = @ \/ DecZero(acc[t])]
    /\ acc' = [acc EXCEPT ![t] = None]
    /\ kind' = [kind EXCEPT ![t] = "none"]
    /\ stray' = stray \ {t}
    /\ UNCHANGED <<life, internet, regCS, by>>

-----------------------------------------------------------------------------
(* SynchroPOP3 *)

\* WaitToRead fails when the account was told to stop.
LookWithoutDec(t) ==
    /\ kind[t] = "check"
    /\ Go(t, "counted", IF acc[t] \in finish THEN "idle" ELSE "queued")
    /\ UNCHANGED <<life, count, internet, regCS, self>>

Look(t) ==
    /\ kind[t] = "check"
    /\ Go(t, "counted", IF acc[t] \in finish THEN "dec" ELSE "queued")
    /\ UNCHANGED <<life, count, internet, regCS, self>>

\* "... this one is released, but should be stopped as well": AbleToWork.
Connect(t) ==
    /\ pc[t] = "queued" /\ internet[acc[t]]
    /\ \/ /\ acc[t] \notin finish
          /\ Go(t, "queued", "online")
          /\ internet' = [internet EXCEPT ![acc[t]] = FALSE]
       \/ acc[t] \in finish /\ Go(t, "queued", "dec") /\ UNCHANGED internet
    /\ UNCHANGED <<life, count, regCS, self>>

GiveBack(a) == internet' = [internet EXCEPT ![a] = TRUE]

Done(t) ==
    /\ Go(t, "online", "checked")
    /\ GiveBack(acc[t])
    /\ UNCHANGED <<life, count, regCS, self>>

\* Starts the mail browser, when that can be.
Browse(t) ==
    /\ pc[t] = "checked"
    /\ \/ \E w \in Window : Start(w, "browser", acc[t], t, "browsing")
       \/ Go(t, "checked", "dec") /\ UNCHANGED self
    /\ UNCHANGED <<life, count, internet, regCS>>

\* An error of the connection or the server, or the stop of the client.
Fail(t) ==
    /\ Go(t, "online", "failed") \/ Go(t, "online", "release")
    /\ UNCHANGED <<life, count, internet, regCS, self>>

\* PostErrorProc tells the user and sets UseInternetFree, which ...
PostError(t) ==
    /\ pc[t] = "failed"
    /\ \/ \E w \in Window : Start(w, "error", acc[t], t, "reporting")
       \/ Go(t, "failed", "reported") /\ UNCHANGED self
    /\ UNCHANGED <<life, count, internet, regCS>>

ReportedAndDec(t) ==
    /\ Go(t, "reported", "release")
    /\ GiveBack(acc[t])
    /\ number' = [number EXCEPT ![acc[t]] = @ - 1]
    /\ UNCHANGED <<life, event, regCS, self>>

Reported(t) ==
    /\ Go(t, "reported", "release")
    /\ GiveBack(acc[t])
    /\ UNCHANGED <<life, count, regCS, self>>

\* ... SynchroPOP3 then sets again.
Release(t) ==
    /\ Go(t, "release", "dec")
    /\ GiveBack(acc[t])
    /\ UNCHANGED <<life, count, regCS, self>>

Check(t) ==
    \/ Look(t) \/ Connect(t) \/ Done(t) \/ Browse(t)
    \/ Fail(t) \/ PostError(t) \/ Reported(t) \/ Release(t)

-----------------------------------------------------------------------------
(* MailBrowser, BadConnection and ShowEmailThread *)

\* The browser looks for a window of this account, and may do without one.
LookBrowser(t) ==
    /\ kind[t] = "browser"
    /\ \/ acc[t] \in finish /\ Go(t, "counted", "dec")
       \/ acc[t] \notin finish /\ Go(t, "counted", "create")
       \/ acc[t] \notin finish /\ Go(t, "counted", "closing")
       \/ /\ acc[t] \notin finish
          /\ \E w \in Window : pc[w] \in {"open", "told"} /\ kind[w] = "browser" /\ acc[w] = acc[t]
          /\ Go(t, "counted", "dec")
    /\ UNCHANGED <<life, count, internet, regCS, self>>

\* WM_INITDIALOG asks once more whether the account may be read.
Create(t) ==
    /\ Go(t, "create", IF acc[t] \in finish THEN "closing" ELSE "opening")
    /\ UNCHANGED <<life, count, internet, regCS, self>>

\* From now on the window hears of WM_YAMN_STOPACCOUNT.
Open(t) ==
    /\ Go(t, "opening", "open")
    /\ UNCHANGED <<life, count, internet, regCS, self>>

\* The window of a failed connection never does.
LookError(t) ==
    /\ kind[t] = "error"
    /\ Go(t, "counted", IF acc[t] \in finish THEN "dec" ELSE "open")
    /\ UNCHANGED <<life, count, internet, regCS, self>>

\* A message whose body is not there yet is asked for, with PluginRegCS held.
LookMessage(t) ==
    /\ kind[t] = "message"
    /\ Go(t, "counted", "asking") \/ Go(t, "counted", "opening")
    /\ UNCHANGED <<life, count, internet, regCS, self>>

AccountMailCheck(t) ==
    /\ pc[t] = "asking" /\ regCS = None
    /\ \/ /\ acc[t] \notin finish
          /\ \E c \in Checker : Start(c, "check", acc[t], t, "fetching")
          /\ regCS' = t
       \/ Go(t, "asking", "opening") /\ UNCHANGED <<self, regCS>>
    /\ UNCHANGED <<life, count, internet>>

\* Nobody waits for the thread that shows a message.
OpenMessage(t) ==
    /\ pc[t] = "open" /\ kind[t] = "browser"
    /\ \E w \in Window : Begin(w, "message", acc[t], None) /\ pc' = [pc EXCEPT ![w] = "started"]
    /\ UNCHANGED <<life, count, internet, regCS>>

\* The stop message, or the user, closes a window.  The browser gives up its
\* list of mails first; when it may not write that any more, it forgets to quit.
Close(t) ==
    /\ pc[t] \in {"open", "told"}
    /\ pc' = [pc EXCEPT ![t] = IF kind[t] = "browser" /\ acc[t] \in finish THEN "hung" ELSE "closing"]
    /\ UNCHANGED <<life, count, internet, regCS, self>>

Quit(t) ==
    /\ Go(t, "told", "closing")
    /\ UNCHANGED <<life, count, internet, regCS, self>>

\* Asks for AbleToWork before it writes the accounts to disk.
Closing(t) ==
    /\ Go(t, "closing", IF kind[t] # "message" /\ acc[t] \notin finish THEN "saving" ELSE "dec")
    /\ UNCHANGED <<life, count, internet, regCS, self>>

\* Reading the list of accounts must wait for a writer.
WriteAccounts(t) ==
    /\ pc[Main] # "waiting"
    /\ Go(t, "saving", "dec")
    /\ UNCHANGED <<life, count, internet, regCS, self>>

Show(t) ==
    \/ LookBrowser(t) \/ Create(t) \/ Open(t) \/ LookError(t) \/ LookMessage(t)
    \/ AccountMailCheck(t) \/ Quit(t) \/ Closing(t) \/ WriteAccounts(t)

-----------------------------------------------------------------------------
(* TimerProc and ForceCheckSvc: with PluginRegCS and the list of accounts    *)
(* locked, they start a check for some of the accounts, one after the other. *)

Enter(p) ==
    /\ regCS = None /\ pc[Main] # "ended"
    /\ Go(p, "idle", "loop")
    /\ regCS' = p
    /\ UNCHANGED <<life, count, internet, self>>

ForceCheck(p) ==
    /\ pc[p] = "loop"
    /\ \E a \in listed \ finish, t \in Checker : Start(t, "check", a, p, "starting")
    /\ UNCHANGED <<life, count, internet, regCS>>

Leave(p) ==
    /\ Go(p, "loop", "idle")
    /\ regCS' = None
    /\ UNCHANGED <<life, count, internet, self>>

\* A contact is clicked twice.
ContactDoubleclicked ==
    /\ pc[Main] = "idle"
    /\ \E a \in listed \ finish, w \in Window : Start(w, "browser", a, Main, "showing")
    /\ UNCHANGED <<life, count, internet, regCS>>

\* The started thread has counted itself.
Then == [browsing |-> "dec", reporting |-> "reported", fetching |-> "opening",
         starting |-> "loop", showing |-> "idle"]

ThreadRunning(p) == ~Counting(p)

Resume(p) ==
    /\ pc[p] \in DOMAIN Then
    /\ ThreadRunning(p)
    /\ pc' = [pc EXCEPT ![p] = Then[@]]
    /\ regCS' = IF pc[p] = "fetching" THEN None ELSE regCS
    /\ UNCHANGED <<life, count, internet, self>>

-----------------------------------------------------------------------------
(* Stopping and deleting accounts *)

\* StopSignalFcn, and WM_YAMN_STOPACCOUNT to every window in the list.
Hears(t, A) == pc[t] = "open" /\ kind[t] \in {"browser", "message"} /\ acc[t] \in A
StopSignal(A, at) ==
    /\ finish' = finish \cup A
    /\ pc' = [t \in DOMAIN pc |-> IF t = Main THEN at
                                  ELSE IF t \in Thread /\ Hears(t, A) THEN "told" ELSE pc[t]]

\* The list of accounts is locked for reading by the hot key's check.
NobodyBrowses == pc[HotKey] \notin {"loop", "starting"}
Unguarded == TRUE
BrowserFree == NobodyBrowses

DeleteAccount(a) ==
    /\ pc[Main] = "idle" /\ a \in listed
    /\ StopSignal({a}, "unlinking")
    /\ acc' = [acc EXCEPT ![Main] = a]
    /\ UNCHANGED <<listed, freed, deleter, passed, count, internet, regCS, kind, by, stray>>

Unlink ==
    /\ Go(Main, "unlinking", "idle")
    /\ BrowserFree
    /\ listed' = listed \ {acc[Main]}
    /\ deleter' = [deleter EXCEPT ![acc[Main]] = "waiting"]
    /\ acc' = [acc EXCEPT ![Main] = None]
    /\ UNCHANGED <<finish, freed, passed, count, internet, regCS, kind, by, stray>>

\* DeleteAccountInBackground takes the event, and then the account.
Unused(a) ==
    /\ deleter[a] = "waiting" /\ event[a]
    /\ deleter' = [deleter EXCEPT ![a] = "freeing"]
    /\ event' = [event EXCEPT ![a] = FALSE]
    /\ UNCHANGED <<finish, listed, freed, passed, number, internet, regCS, pc, self>>

Free(a) ==
    /\ deleter[a] = "freeing"
    /\ deleter' = [deleter EXCEPT ![a] = "none"]
    /\ freed' = freed \cup {a}
    /\ UNCHANGED <<finish, listed, passed, count, internet, regCS, pc, self>>

\* UnregisterProtoPlugins keeps PluginRegCS until all accounts are gone.
Shutdown ==
    /\ regCS = None
    /\ Go(Main, "idle", "stopping")
    /\ regCS' = Main
    /\ UNCHANGED <<life, count, internet, self>>

StopAccounts ==
    /\ pc[Main] = "stopping" /\ BrowserFree
    /\ StopSignal(listed, "deleting")
    /\ UNCHANGED <<listed, freed, deleter, passed, count, internet, regCS, self>>

DeleteAccounts ==
    /\ Go(Main, "deleting", "waiting")
    /\ BrowserFree
    /\ UNCHANGED <<life, count, internet, regCS, self>>

\* Takes the event and sets it again.
WaitFor(a) ==
    /\ pc[Main] = "waiting" /\ a \in listed \ passed /\ event[a]
    /\ passed' = passed \cup {a}
    /\ UNCHANGED <<finish, listed, freed, deleter, count, internet, regCS, pc, self>>

DeleteAll ==
    /\ passed = listed
    /\ Go(Main, "waiting", "ended")
    /\ freed' = freed \cup listed
    /\ listed' = {}
    /\ regCS' = None
    /\ UNCHANGED <<finish, deleter, passed, count, internet, self>>

Exit == StopAccounts \/ DeleteAccounts \/ (\E a \in Account : WaitFor(a)) \/ DeleteAll

-----------------------------------------------------------------------------
User ==
    \/ \E p \in Caller : Enter(p) \/ ForceCheck(p)
    \/ ContactDoubleclicked \/ Shutdown
    \/ \E a \in Account : DeleteAccount(a)
    \/ \E t \in Window : OpenMessage(t) \/ Close(t)

\* What a thread does on its own.
Step(t) == Count(t) \/ Uncount(t) \/ Check(t) \/ Show(t) \/ Resume(t)
Return(p) == Resume(p) \/ Leave(p)

YamnNext ==
    \/ User
    \/ \E t \in Thread : Step(t)
    \/ \E p \in Caller : Return(p)
    \/ Unlink \/ Exit
    \/ \E a \in Account : Unused(a) \/ Free(a)

YamnSpec == YamnInit /\ [][YamnNext]_yamnVars

\* Threads are scheduled, a connection ends in the end, and the events, critical
\* sections and locks serve those who wait for them in order.
YamnFairness ==
    /\ \A t \in Thread : WF_yamnVars(Step(t))
    /\ \A t \in Checker : SF_yamnVars(Connect(t))
    /\ \A t \in Window : SF_yamnVars(AccountMailCheck(t))
    /\ \A p \in Caller : WF_yamnVars(Return(p))
    /\ SF_yamnVars(Unlink) /\ WF_yamnVars(Exit)
    /\ \A a \in Account : WF_yamnVars(Unused(a) \/ Free(a))

FairYamnSpec == YamnSpec /\ YamnFairness

-----------------------------------------------------------------------------
(* Properties *)

Place == {"idle", "started", "counted", "dec",
          "queued", "online", "checked", "browsing",           \* checks
          "failed", "reporting", "reported", "release",
          "create", "opening", "open", "told", "hung", "closing", "saving", \* windows
          "asking", "fetching",
          "loop", "starting", "showing",                                    \* callers
          "unlinking", "stopping", "deleting", "waiting", "ended"}

\* Type invariant.
YamnTypeOK ==
    /\ finish \subseteq Account /\ listed \subseteq Account
    /\ freed \subseteq Account /\ passed \subseteq Account
    /\ deleter \in [Account -> {"none", "waiting", "freeing"}]
    /\ number \in [Account -> 0..Cardinality(Thread)]
    /\ event \in [Account -> BOOLEAN]
    /\ internet \in [Account -> BOOLEAN]
    /\ regCS \in Thread \cup Caller \cup {None}
    /\ pc \in [Thread \cup Caller -> Place]
    /\ kind \in [Thread -> {"none", "check", "browser", "error", "message"}]
    /\ acc \in [Thread \cup {Main} -> Account \cup {None}]
    /\ stray \subseteq Thread
    /\ by \in [Thread -> Thread \cup Caller \cup {None}]

\* The threads that count in UsingThreads.
Counted(a) == {t \in Thread : acc[t] = a /\ pc[t] \notin {"idle", "started"}}

\* No thread finds its account deleted from memory, neither while it is counted
\* nor while somebody waits for it to count itself.  Left out are the two cases
\* that the protocol of DeleteAccountSvc does not cover: a thread that is to show
\* a message, for which nobody waits, and one that has yet to leave the critical
\* section that is part of the counter.
Unwaited(t) == kind[t] = "message" /\ (pc[t] = "started" \/ t \in stray)
AccountKept ==
    \A t \in Thread : pc[t] # "idle" /\ ~Unwaited(t) => acc[t] \notin freed

\* "only one thread works with account on internet" (the comment at UseInternetFree).
Online(a) == {t \in Checker : acc[t] = a /\ pc[t] = "online"}
OneOnline == \A a \in Account : Cardinality(Online(a)) <= 1

\* Windows that nothing but the user closes, if anything.
Lingers(t) == pc[t] \in {"open", "hung"}

\* An account the user deleted is freed in the end, unless a window lingers.
DeletedFreed ==
    \A a \in Account : (deleter[a] = "waiting") ~>
        (a \in freed \/ \E t \in Window : acc[t] = a /\ Lingers(t))

\* Miranda can exit: no check of a mailbox holds it up, only a window that lingers
\* or that waits for a lock which the main thread keeps meanwhile.
ShutdownEnds ==
    (pc[Main] = "stopping") ~>
        (pc[Main] = "ended" \/ \E t \in Window : Lingers(t) \/ pc[t] \in {"asking", "saving"})
=============================================================================
