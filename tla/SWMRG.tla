-------------------------------- MODULE SWMRG --------------------------------
(***************************************************************************)
(* The lock of YAMN, the mail notifier (yamn/synchro.cpp): many readers or *)
(* one writer, until it is told to finish.                                 *)
(*                                                                         *)
(* The auto-reset event hEventNoWriter is passed around like a token: a    *)
(* writer keeps it while it writes, a reader while it changes the number   *)
(* of readers, which is the count of a semaphore.  hFinishEV is set when   *)
(* the account is about to be deleted; who finds it set gives the token    *)
(* back and returns WAIT_FINISH.  Everything here is a call to the kernel  *)
(* and a step of its own.                                                  *)
(***************************************************************************)
EXTENDS Naturals, FiniteSets

CONSTANTS Thread,
          Impatient      \* threads that read with a timeout of zero

ASSUME SWMRGAssumption == IsFiniteSet(Thread) /\ Impatient \subseteq Thread

VARIABLES
    noWriter,    \* hEventNoWriter, an auto-reset event
    noReaders,   \* hEventNoReaders, a manual-reset event
    numReaders,  \* the count of hSemNumReaders
    finish,      \* hFinishEV, a manual-reset event
    pc,          \* where in an operation each thread is
    intruded     \* history: somebody gives back a token it never had

swmrgVars == <<noWriter, noReaders, numReaders, finish, pc, intruded>>

Place == {"idle",                                \* neither reads nor writes
          "waitWrite", "gotWrite", "writing",    \* SWMRGWaitToWrite
          "waitRead", "gotRead", "late",         \* SWMRGWaitToRead, late when it timed out
          "count", "block", "open", "reading",
          "giveUp",                              \* WAIT_FINISH, hEventNoWriter not yet set
          "leave", "restore", "more", "none",    \* SWMRGDoneReading
          "last", "close"}

SWMRGInitialize ==
    /\ noWriter = TRUE /\ noReaders = TRUE /\ numReaders = 0
    /\ finish = FALSE
    /\ pc = [t \in Thread |-> "idle"]
    /\ intruded = FALSE

Go(t, from, to) == pc[t] = from /\ pc' = [pc EXCEPT ![t] = to]

-----------------------------------------------------------------------------
(* SWMRGWaitToWrite and SWMRGDoneWriting *)

\* Returns WAIT_FINISH at once when hFinishEV is set.
WaitToWrite(t) ==
    /\ ~finish
    /\ Go(t, "idle", "waitWrite")
    /\ UNCHANGED <<noWriter, noReaders, numReaders, finish, intruded>>

\* Waits for both events and takes the token, all at once or not at all.
IgnoresReaders == noWriter
NobodyInside == noWriter /\ noReaders

EnterWrite(t) ==
    /\ NobodyInside
    /\ noWriter' = FALSE
    /\ Go(t, "waitWrite", "gotWrite")
    /\ UNCHANGED <<noReaders, numReaders, finish, intruded>>

\* Asks for hFinishEV once more.
Write(t) ==
    /\ Go(t, "gotWrite", IF finish THEN "giveUp" ELSE "writing")
    /\ UNCHANGED <<noWriter, noReaders, numReaders, finish, intruded>>

ReturnToken == noWriter' = TRUE

KeepToken(t) == Go(t, "giveUp", "idle") /\ UNCHANGED <<noWriter, noReaders, numReaders, finish, intruded>>
GiveUp(t) ==
    /\ Go(t, "giveUp", "idle")
    /\ ReturnToken
    /\ UNCHANGED <<noReaders, numReaders, finish, intruded>>

DoneWriting(t) ==
    /\ Go(t, "writing", "idle")
    /\ ReturnToken
    /\ UNCHANGED <<noReaders, numReaders, finish, intruded>>

-----------------------------------------------------------------------------
(* SWMRGWaitToRead *)

WaitToRead(t) ==
    /\ ~finish
    /\ Go(t, "idle", "waitRead")
    /\ UNCHANGED <<noWriter, noReaders, numReaders, finish, intruded>>

EnterRead(t) ==
    /\ noWriter
    /\ noWriter' = FALSE
    /\ Go(t, "waitRead", "gotRead")
    /\ UNCHANGED <<noReaders, numReaders, finish, intruded>>

TimeOut(t) ==
    /\ t \in Impatient /\ ~noWriter
    /\ Go(t, "waitRead", "late")
    /\ UNCHANGED <<noWriter, noReaders, numReaders, finish, intruded>>

\* Asks for hFinishEV once more, but not whether the wait was successful.
Read(t) ==
    /\ \/ ~finish /\ Go(t, "gotRead", "count")  /\ UNCHANGED intruded
       \/ ~finish /\ Go(t, "late", "idle")      /\ UNCHANGED intruded
       \/ finish  /\ Go(t, "gotRead", "giveUp") /\ UNCHANGED intruded
       \/ finish  /\ Go(t, "late", "giveUp")    /\ intruded' = TRUE
    /\ UNCHANGED <<noWriter, noReaders, numReaders, finish>>

\* One reader more; the first one resets hEventNoReaders.
Count(t) ==
    /\ Go(t, "count", IF numReaders = 0 THEN "block" ELSE "open")
    /\ numReaders' = numReaders + 1
    /\ UNCHANGED <<noWriter, noReaders, finish, intruded>>

Unblocked == UNCHANGED noReaders
Blocked == noReaders' = FALSE

Block(t) ==
    /\ Go(t, "block", "open")
    /\ Blocked
    /\ UNCHANGED <<noWriter, numReaders, finish, intruded>>

Open(t) ==
    /\ Go(t, "open", "reading")
    /\ ReturnToken
    /\ UNCHANGED <<noReaders, numReaders, finish, intruded>>

-----------------------------------------------------------------------------
(* SWMRGDoneReading *)

DoneReading(t) ==
    /\ Go(t, "reading", "leave")
    /\ UNCHANGED <<noWriter, noReaders, numReaders, finish, intruded>>

\* Waits for the token and takes one reader off, both at once.
Leave(t) ==
    /\ noWriter /\ numReaders > 0
    /\ Go(t, "leave", "restore")
    /\ noWriter' = FALSE /\ numReaders' = numReaders - 1
    /\ UNCHANGED <<noReaders, finish, intruded>>

\* The only way to read the count of a semaphore is to release it, after which
\* the count must be put right again.
NoneLeft == numReaders = 0

Restore(t) ==
    /\ Go(t, "restore", IF NoneLeft THEN "none" ELSE "more")
    /\ numReaders' = numReaders + 1
    /\ UNCHANGED <<noWriter, noReaders, finish, intruded>>

OneMore == UNCHANGED numReaders
OneLess == numReaders' = numReaders - 1

Take(t) ==
    /\ numReaders > 0
    /\ Go(t, "more", "close") \/ Go(t, "none", "last")
    /\ OneLess
    /\ UNCHANGED <<noWriter, noReaders, finish, intruded>>

Unblock(t) ==
    /\ Go(t, "last", "close")
    /\ noReaders' = TRUE
    /\ UNCHANGED <<noWriter, numReaders, finish, intruded>>

Close(t) ==
    /\ Go(t, "close", "idle")
    /\ ReturnToken
    /\ UNCHANGED <<noReaders, numReaders, finish, intruded>>

-----------------------------------------------------------------------------
\* The account is about to be deleted.
StopSignal ==
    /\ ~finish
    /\ finish' = TRUE
    /\ UNCHANGED <<noWriter, noReaders, numReaders, pc, intruded>>

Begin(t) == WaitToWrite(t) \/ WaitToRead(t)

Progress(t) ==
    \/ Write(t) \/ DoneWriting(t) \/ GiveUp(t)
    \/ Read(t) \/ Count(t) \/ Block(t) \/ Open(t)
    \/ DoneReading(t) \/ Restore(t) \/ Take(t) \/ Unblock(t) \/ Close(t)

Enter(t) == EnterWrite(t) \/ EnterRead(t) \/ TimeOut(t) \/ Leave(t)

SWMRGNext == StopSignal \/ \E t \in Thread : Begin(t) \/ Progress(t) \/ Enter(t)

SWMRGSpec == SWMRGInitialize /\ [][SWMRGNext]_swmrgVars

\* Threads are scheduled, who reads or writes is done in the end, and so is who
\* can take the token and goes on being able to.
FairSWMRGSpec == SWMRGSpec /\ \A t \in Thread : WF_swmrgVars(Progress(t) \/ Enter(t))

-----------------------------------------------------------------------------
(* Properties *)

\* Type invariant.
SWMRGTypeOK ==
    /\ noWriter \in BOOLEAN /\ noReaders \in BOOLEAN
    /\ numReaders \in 0..Cardinality(Thread)
    /\ finish \in BOOLEAN /\ intruded \in BOOLEAN
    /\ pc \in [Thread -> Place]

Reading == {t \in Thread : pc[t] = "reading"}
Writing == {t \in Thread : pc[t] = "writing"}

\* SWMRG implements the abstract lock, even when somebody gives back a token it
\* never had: a writer is alone and readers are only among readers.
Lock == INSTANCE RWLock WITH reading <- Reading, writing <- Writing
Refines == Lock!LockSpec

-----------------------------------------------------------------------------
(* The inductive invariant *)

Token == {t \in Thread : pc[t] \in {"gotWrite", "writing", "gotRead", "count", "block", "open", "giveUp",
                                    "restore", "more", "none", "last", "close"}}
Counted == {t \in Thread : pc[t] \in {"block", "open", "reading", "leave", "more", "none"}}
Admitted == {t \in Thread : pc[t] \in {"count", "block", "open", "reading"}}

\* The token is in one place, hEventNoReaders keeps writers out as long as
\* somebody reads, and the thread that is to set it is the last one.
Orderly ==
    /\ noWriter => Token = {}
    /\ \A t, u \in Token : t = u
    /\ noReaders => \A t \in Thread :
           pc[t] \notin {"open", "reading", "leave", "restore", "more", "none", "last"}
    /\ \A t, u \in Thread : pc[t] \in {"gotWrite", "none", "last"} => pc[u] \notin {"reading", "leave"}

\* The semaphore counts the readers, whatever happens; the rest is orderly
\* until somebody intrudes, and nobody is admitted any more after that.
SWMRGInv ==
    /\ numReaders = Cardinality(Counted)
    /\ intruded => finish
    /\ ~intruded => Orderly
    /\ \A t \in Writing : Writing = {t} /\ Admitted = {}

-----------------------------------------------------------------------------
\* Who is told to finish is not left waiting: once hFinishEV is set, everybody
\* who waits for the lock, reads or writes returns, unless somebody who timed
\* out gives back a token it never had.
Inside(t) == pc[t] # "idle"
AllReturn == \A t \in Thread : (finish /\ Inside(t)) ~> (~Inside(t) \/ intruded)

\* The same without the exception, as StopSignalFcn expects it.
StopReturns == \A t \in Thread : (finish /\ Inside(t)) ~> ~Inside(t)
=============================================================================
