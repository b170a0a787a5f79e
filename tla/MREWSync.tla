------------------------------ MODULE MREWSync ------------------------------
(***************************************************************************)
(* The lock of the database driver (dbx_tree/MREWSync.cpp), which many     *)
(* readers or one writer hold.                                             *)
(*                                                                         *)
(* The five fields of the 64-bit word m_Sentinel are variables of their    *)
(* own; one compare-and-exchange changes them together, so one action      *)
(* does.  Threads that must wait do so on one of two manual-reset events   *)
(* for readers, used in turn, and an auto-reset event for writers.  What   *)
(* is not one interlocked operation in the code is not one step here: an   *)
(* event is set or reset after, or before, the word is changed.            *)
(***************************************************************************)
EXTENDS Integers, FiniteSets

CONSTANTS Thread, None,
          MaxDepth       \* how deep a thread nests its locks

ASSUME MREWAssumption ==
    /\ IsFiniteSet(Thread) /\ Cardinality(Thread) < 2^20     \* the width of a field
    /\ None \notin Thread
    /\ MaxDepth \in Nat \ {0}

VARIABLES
    readerBusy, readerWaiting, writerWaiting, writerBusy, odd,   \* m_Sentinel
    readSignal,   \* m_ReadSignal, two manual-reset events
    writeSignal,  \* m_WriteSignal, an auto-reset event
    writerID,     \* m_WriterID
    recursion,    \* m_WriteRecursion
    current,      \* threads whose oldrevision is still m_Revision
    reads,        \* the number of read locks of each thread (tls)
    pc,           \* where in an operation each thread is
    signal,       \* the read signal that each thread is to wait for or to set
    overtaken     \* history: threads that gave up a read lock for a write lock
                  \* and saw another thread write first

sentinel == <<readerBusy, readerWaiting, writerWaiting, writerBusy, odd>>
events   == <<readSignal, writeSignal>>
mrewVars == <<sentinel, events, writerID, recursion, current, reads, pc, signal, overtaken>>

Place == {"run",                         \* in no operation of the lock
          "waitRead", "setRead",         \* about to wait for, to set a read signal
          "enter",                       \* BeginWrite has read the revision
          "waitWrite", "setWrite",       \* about to wait for, to set the write signal
          "setWaitWrite",                \* to set it and then to wait for it
          "stamp",                       \* has the write lock, m_Revision not yet increased
          "reset", "leave"}              \* EndWrite, before and after the reset of a signal

MREWInit ==
    /\ readerBusy = 0 /\ readerWaiting = 0 /\ writerWaiting = 0
    /\ writerBusy = FALSE /\ odd = 0
    /\ readSignal = [i \in {0, 1} |-> FALSE]
    /\ writeSignal = FALSE
    /\ writerID = None
    /\ recursion = 0
    /\ current = {}
    /\ reads = [t \in Thread |-> 0]
    /\ pc = [t \in Thread |-> "run"]
    /\ signal = [t \in Thread |-> 0]
    /\ overtaken = {}

Goto(t, p) == pc' = [pc EXCEPT ![t] = p]

Sentinel(rb, rw, ww, wb) ==
    readerBusy' = rb /\ readerWaiting' = rw /\ writerWaiting' = ww /\ writerBusy' = wb

-----------------------------------------------------------------------------
(* BeginRead and EndRead *)

\* A nested read lock, or one inside the write lock.
BeginReadAgain(t) ==
    /\ pc[t] = "run" /\ reads[t] < MaxDepth
    /\ reads[t] > 0 \/ writerID = t
    /\ reads' = [reads EXCEPT ![t] = @ + 1]
    /\ UNCHANGED <<sentinel, events, writerID, recursion, current, pc, signal, overtaken>>

\* No writer holds the lock or waits for it.
IgnoresWaiting == ~writerBusy
FreeToRead == ~writerBusy /\ writerWaiting = 0

BeginRead(t) ==
    /\ pc[t] = "run" /\ reads[t] = 0 /\ writerID # t
    /\ reads' = [reads EXCEPT ![t] = 1]
    /\ IF writerBusy \/ FreeToRead
       THEN Sentinel(readerBusy + 1, readerWaiting, writerWaiting, writerBusy)
       ELSE Sentinel(readerBusy, readerWaiting + 1, writerWaiting, writerBusy)
    /\ IF FreeToRead
       THEN UNCHANGED <<pc, signal>>
       ELSE Goto(t, "waitRead") /\ signal' = [signal EXCEPT ![t] = odd]
    /\ UNCHANGED <<odd, events, writerID, recursion, current, overtaken>>

WakeReader(t) ==
    /\ pc[t] = "waitRead" /\ readSignal[signal[t]]
    /\ Goto(t, "run")
    /\ UNCHANGED <<sentinel, events, writerID, recursion, current, reads, signal, overtaken>>

EndReadAgain(t) ==
    /\ pc[t] = "run" /\ reads[t] > 0
    /\ reads[t] > 1 \/ writerID = t
    /\ reads' = [reads EXCEPT ![t] = @ - 1]
    /\ UNCHANGED <<sentinel, events, writerID, recursion, current, pc, signal, overtaken>>

\* The last reader leaves to a waiting writer; waiting readers are busy, but
\* blocked, from now on.
AnyReader == writerWaiting > 0
LastReader == readerBusy = 1 /\ writerWaiting > 0

EndRead(t) ==
    /\ pc[t] = "run" /\ reads[t] = 1 /\ writerID # t
    /\ reads' = [reads EXCEPT ![t] = 0]
    /\ IF LastReader
       THEN Sentinel(readerBusy - 1 + readerWaiting, 0, writerWaiting - 1, TRUE) /\ Goto(t, "setWrite")
       ELSE Sentinel(readerBusy - 1, readerWaiting, writerWaiting, writerBusy) /\ UNCHANGED pc
    /\ UNCHANGED <<odd, events, writerID, recursion, current, signal, overtaken>>

-----------------------------------------------------------------------------
(* BeginWrite and TryBeginWrite *)

BeginWriteAgain(t) ==
    /\ pc[t] = "run" /\ writerID = t /\ recursion < MaxDepth
    /\ recursion' = recursion + 1
    /\ UNCHANGED <<sentinel, events, writerID, current, reads, pc, signal, overtaken>>

BeginWrite(t) ==
    /\ pc[t] = "run" /\ writerID # t
    /\ current' = current \cup {t}
    /\ Goto(t, "enter")
    /\ UNCHANGED <<sentinel, events, writerID, recursion, reads, signal, overtaken>>

\* A reader gives up its lock for the write lock: it waits for the other
\* readers, or wakes the writer that came first, or has the lock.
UpgradeLock(t) ==
    /\ pc[t] = "enter" /\ reads[t] > 0
    /\ \/ /\ readerBusy > 1
          /\ Sentinel(readerBusy - 1, readerWaiting, writerWaiting + 1, writerBusy)
          /\ Goto(t, "waitWrite")
       \/ /\ ~(readerBusy > 1) /\ writerWaiting > 0
          /\ Sentinel(readerBusy - 1 + readerWaiting, 0, writerWaiting, TRUE)
          /\ Goto(t, "setWaitWrite")
       \/ /\ ~(readerBusy > 1) /\ writerWaiting = 0
          /\ Sentinel(readerBusy - 1, readerWaiting, writerWaiting, TRUE)
          /\ Goto(t, "stamp")
    /\ UNCHANGED <<odd, events, writerID, recursion, current, reads, signal, overtaken>>

NoWriter == ~writerBusy /\ writerWaiting = 0
NobodyElse == ~writerBusy /\ readerBusy = 0 /\ writerWaiting = 0

GainLock(t) ==
    /\ pc[t] = "enter" /\ reads[t] = 0
    /\ IF NobodyElse
       THEN Sentinel(readerBusy, readerWaiting, writerWaiting, TRUE) /\ Goto(t, "stamp")
       ELSE Sentinel(readerBusy, readerWaiting, writerWaiting + 1, writerBusy) /\ Goto(t, "waitWrite")
    /\ UNCHANGED <<odd, events, writerID, recursion, current, reads, signal, overtaken>>

\* Either takes the lock at once or returns false.
TryBeginWrite(t) ==
    /\ pc[t] = "run" /\ writerID # t
    /\ \/ /\ reads[t] > 0 /\ readerBusy = 1 /\ writerWaiting = 0
          /\ Sentinel(readerBusy - 1, readerWaiting, writerWaiting, TRUE)
       \/ /\ reads[t] = 0 /\ NobodyElse
          /\ Sentinel(readerBusy, readerWaiting, writerWaiting, TRUE)
    /\ Goto(t, "stamp")
    /\ UNCHANGED <<odd, events, writerID, recursion, current, reads, signal, overtaken>>

SignalWriter(t) ==
    /\ pc[t] \in {"setWrite", "setWaitWrite"}
    /\ writeSignal' = TRUE
    /\ Goto(t, IF pc[t] = "setWrite" THEN "run" ELSE "waitWrite")
    /\ UNCHANGED <<sentinel, readSignal, writerID, recursion, current, reads, signal, overtaken>>

WakeWriter(t) ==
    /\ pc[t] = "waitWrite" /\ writeSignal
    /\ writeSignal' = FALSE
    /\ Goto(t, "stamp")
    /\ UNCHANGED <<sentinel, readSignal, writerID, recursion, current, reads, signal, overtaken>>

\* The revision tells every other thread that something may be written;
\* BeginWrite returns whether it was still the one it had read.
SameRevision == UNCHANGED current
NewRevision == current' = {}

Upgrading == {t \in Thread : reads[t] > 0 /\ pc[t] \in {"waitWrite", "setWaitWrite"}}

Stamp(t) ==
    /\ pc[t] = "stamp"
    /\ NewRevision
    /\ writerID' = t
    /\ recursion' = recursion + 1
    /\ overtaken' = (overtaken \cup Upgrading) \ {t}
    /\ Goto(t, "run")
    /\ UNCHANGED <<sentinel, events, reads, signal>>

-----------------------------------------------------------------------------
(* EndWrite *)

EndWriteAgain(t) ==
    /\ pc[t] = "run" /\ writerID = t /\ recursion > 1
    /\ recursion' = recursion - 1
    /\ UNCHANGED <<sentinel, events, writerID, current, reads, pc, signal, overtaken>>

EndWrite(t) ==
    /\ pc[t] = "run" /\ writerID = t /\ recursion = 1
    /\ recursion' = 0
    /\ writerID' = None
    /\ Goto(t, "reset")
    /\ UNCHANGED <<sentinel, events, current, reads, signal, overtaken>>

Present == odd
Upcoming == 1 - odd

ResetSignal(t) ==
    /\ pc[t] = "reset"
    /\ readSignal' = [readSignal EXCEPT ![Upcoming] = FALSE]
    /\ Goto(t, "leave")
    /\ UNCHANGED <<sentinel, writeSignal, writerID, recursion, current, reads, signal, overtaken>>

\* The writer stays a reader, lets the waiting readers in, hands over to the
\* next writer, or just closes the lock.
LeaveWrite(t) ==
    /\ pc[t] = "leave"
    /\ odd' = 1 - odd
    /\ signal' = [signal EXCEPT ![t] = odd]
    /\ \/ /\ reads[t] > 0
          /\ Sentinel(readerBusy + 1, readerWaiting, writerWaiting, FALSE)
          /\ Goto(t, "setRead")
       \/ /\ reads[t] = 0 /\ readerBusy > 0
          /\ Sentinel(readerBusy, readerWaiting, writerWaiting, FALSE)
          /\ Goto(t, "setRead")
       \/ /\ reads[t] = 0 /\ readerBusy = 0 /\ writerWaiting > 0
          /\ Sentinel(readerBusy, readerWaiting, writerWaiting - 1, writerBusy)
          /\ Goto(t, "setWrite")
       \/ /\ reads[t] = 0 /\ readerBusy = 0 /\ writerWaiting = 0
          /\ Sentinel(readerBusy, readerWaiting, writerWaiting, FALSE)
          /\ Goto(t, "run")
    /\ UNCHANGED <<events, writerID, recursion, current, reads, overtaken>>

SignalReaders(t) ==
    /\ pc[t] = "setRead"
    /\ readSignal' = [readSignal EXCEPT ![signal[t]] = TRUE]
    /\ Goto(t, "run")
    /\ UNCHANGED <<sentinel, writeSignal, writerID, recursion, current, reads, signal, overtaken>>

-----------------------------------------------------------------------------
\* What the user of the lock decides to do, and what the lock then does.
Begin(t) == BeginReadAgain(t) \/ BeginRead(t) \/ BeginWriteAgain(t) \/ BeginWrite(t) \/ TryBeginWrite(t)
End(t) == EndReadAgain(t) \/ EndRead(t) \/ EndWriteAgain(t) \/ EndWrite(t)

Progress(t) ==
    \/ UpgradeLock(t) \/ GainLock(t) \/ Stamp(t)
    \/ ResetSignal(t) \/ LeaveWrite(t)
    \/ SignalWriter(t) \/ SignalReaders(t)

MREWNext == \E t \in Thread : Begin(t) \/ End(t) \/ Progress(t) \/ WakeReader(t) \/ WakeWriter(t)

MREWSpec == MREWInit /\ [][MREWNext]_mrewVars

\* Threads are scheduled, whoever holds a lock lets go of it once in a while, and
\* an event that is set again and again releases each of its waiters in the end
\* (it serves them in order).
Holds(t) == reads[t] > 0 \/ writerID = t

FairMREWSpec ==
    /\ MREWSpec
    /\ \A t \in Thread : /\ WF_mrewVars(Progress(t) \/ WakeReader(t))
                         /\ SF_mrewVars(WakeWriter(t))
                         /\ []<>~(pc[t] = "run" /\ Holds(t))

-----------------------------------------------------------------------------
(* Properties *)

\* Type invariant.
MREWTypeOK ==
    /\ readerBusy \in Nat /\ readerWaiting \in Nat /\ writerWaiting \in Nat
    /\ writerBusy \in BOOLEAN /\ odd \in {0, 1}
    /\ readSignal \in [{0, 1} -> BOOLEAN] /\ writeSignal \in BOOLEAN
    /\ writerID \in Thread \cup {None}
    /\ recursion \in 0..MaxDepth
    /\ current \subseteq Thread /\ overtaken \subseteq Thread
    /\ reads \in [Thread -> 0..MaxDepth]
    /\ pc \in [Thread -> Place]
    /\ signal \in [Thread -> {0, 1}]

\* Who may read and who may write what the lock protects.
Reading == {t \in Thread : reads[t] > 0 /\ pc[t] \in {"run", "enter", "setRead"} /\ writerID # t}
Writing == {t \in Thread : writerID = t \/ pc[t] \in {"stamp", "reset", "leave"}}

\* A writer is alone.
Exclusive ==
    \A t \in Writing : Writing = {t} /\ Reading = {}

\* BeginWrite only tells a thread that turns its read lock into a write lock
\* that nothing has changed meanwhile when nobody else was writing.
UpgradeHonest ==
    \A t \in Thread : pc[t] = "stamp" /\ reads[t] > 0 /\ t \in current => t \notin overtaken

-----------------------------------------------------------------------------
(* The inductive invariant *)

Blocked == {t \in Thread : pc[t] = "waitRead"}
Released == {t \in Blocked : signal[t] # odd}     \* may read as soon as they wake
Held == {t \in Blocked : signal[t] = odd}         \* wait for a writer to leave
Queued == {t \in Thread : pc[t] \in {"waitWrite", "setWaitWrite"}}
Handing == {t \in Thread : pc[t] \in {"setWrite", "setWaitWrite"}}

\* The write lock is on its way from one thread to another.
InHand == writeSignal \/ Handing # {}

\* The lock has at most one owner or is in hand once, and m_Sentinel knows.
OneOwner ==
    /\ writerBusy <=> Writing # {} \/ InHand
    /\ \A t, u \in Writing : t = u
    /\ \A t, u \in Handing : t = u
    /\ writeSignal => Handing = {}
    /\ InHand => Writing = {}

\* What the other fields of m_Sentinel count.
FieldsCount ==
    /\ readerBusy = Cardinality(Reading) + Cardinality(IF writerBusy THEN Blocked ELSE Released)
    /\ readerWaiting = IF writerBusy THEN 0 ELSE Cardinality(Held)
    /\ Cardinality(Queued) = writerWaiting + (IF InHand THEN 1 ELSE 0)

\* Readers and writers keep out of each other's way, and nobody waits for nobody.
Apart ==
    /\ writerBusy => Reading = {} /\ Released = {}
    /\ ~writerBusy /\ readerWaiting > 0 => writerWaiting > 0
    /\ ~writerBusy /\ writerWaiting > 0 => readerBusy > 0

\* The event that readers are to wait for is not set, and no writer gets by
\* a thread that has yet to set the other one.
SignalsFit ==
    /\ ~readSignal[odd]
    /\ \A t \in Thread : pc[t] = "leave" => ~readSignal[1 - odd]
    /\ \A t \in Thread : pc[t] = "setRead" =>
           /\ signal[t] # odd /\ ~readSignal[1 - odd]
           /\ ~writerBusy
           /\ t \in Reading \/ Released # {}
    /\ \A t, u \in Thread : pc[t] = "setRead" /\ pc[u] = "setRead" => t = u

\* What each place in an operation says of its thread.
ThreadsFit ==
    /\ \A t \in Thread :
          /\ writerID = t => pc[t] = "run"
          /\ pc[t] = "waitRead" => reads[t] > 0
          /\ pc[t] = "setWrite" => reads[t] = 0
    /\ writerID = None <=> recursion = 0
    /\ \A t \in overtaken :
          t \notin current /\ reads[t] > 0 /\ pc[t] \in {"waitWrite", "setWaitWrite", "stamp"}

MREWInv == MREWTypeOK /\ OneOwner /\ FieldsCount /\ Apart /\ SignalsFit /\ ThreadsFit

-----------------------------------------------------------------------------
Lock == INSTANCE RWLock WITH reading <- Reading, writing <- Writing

\* The lock implements the abstract one.
Refines == Lock!LockSpec

\* Who waits for the lock gets it in the end.
Served == \A t \in Thread : (pc[t] \in {"waitRead", "waitWrite", "setWaitWrite"}) ~> (pc[t] = "run")
=============================================================================
