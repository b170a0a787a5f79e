------------------------------- MODULE RWLock -------------------------------
(***************************************************************************)
(* What a lock for many readers or one writer promises, whatever it does   *)
(* to keep the promise.  CMultiReadExclusiveWriteSynchronizer of dbx_tree  *)
(* (MREWSync) and the SWMRG lock of YAMN (SWMRG) implement it.             *)
(***************************************************************************)
CONSTANT Thread

VARIABLES reading,   \* the threads that may read
          writing    \* the threads that may write

lockVars == <<reading, writing>>

Init == reading = {} /\ writing = {}

Read(t) ==
    /\ t \notin reading /\ writing = {}
    /\ reading' = reading \cup {t}
    /\ UNCHANGED writing

EndRead(t) ==
    /\ t \in reading
    /\ reading' = reading \ {t}
    /\ UNCHANGED writing

Write(t) ==
    /\ reading = {} /\ writing = {}
    /\ writing' = {t}
    /\ UNCHANGED reading

EndWrite(t) ==
    /\ writing = {t}
    /\ writing' = {}
    /\ UNCHANGED reading

\* The only reader turns into the writer, and the writer into a reader.
Upgrade(t) ==
    /\ reading = {t} /\ writing = {}
    /\ reading' = {}
    /\ writing' = {t}

Downgrade(t) ==
    /\ writing = {t}
    /\ writing' = {}
    /\ reading' = reading \cup {t}

Next == \E t \in Thread : Read(t) \/ EndRead(t) \/ Write(t) \/ EndWrite(t) \/ Upgrade(t) \/ Downgrade(t)

LockSpec == Init /\ [][Next]_lockVars
=============================================================================
