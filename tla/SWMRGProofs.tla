----------------------------- MODULE SWMRGProofs -----------------------------
(***************************************************************************)
(* Proofs about SWMRG, for any threads, of which any may be impatient.     *)
(***************************************************************************)
EXTENDS SWMRG, FiniteSetTheorems, TLAPS

USE SWMRGAssumption

Typed ==
    /\ noWriter \in BOOLEAN /\ noReaders \in BOOLEAN
    /\ finish \in BOOLEAN /\ intruded \in BOOLEAN
    /\ numReaders \in Nat
    /\ pc \in [Thread -> Place]

CountedPlace == {"block", "open", "reading", "leave", "more", "none"}
Counts(p) == IF p \in CountedPlace THEN 1 ELSE 0

\* The semaphore counts nobody exactly when nobody is to be counted.
LEMMA CountFacts ==
    ASSUME SWMRGInv
    PROVE  /\ IsFiniteSet(Counted)
           /\ numReaders \in 0..Cardinality(Thread)
           /\ numReaders = 0 <=> Counted = {}
<1>1. Counted \subseteq Thread
  BY DEF Counted
<1>2. IsFiniteSet(Counted) /\ Cardinality(Counted) <= Cardinality(Thread)
  BY <1>1, FS_Subset
<1>3. Cardinality(Counted) \in Nat /\ Cardinality(Thread) \in Nat
  BY <1>2, FS_CardinalityType
<1>4. Cardinality(Counted) = 0 <=> Counted = {}
  BY <1>2, FS_EmptySet
<1>5. QED
  BY <1>2, <1>3, <1>4 DEF SWMRGInv

\* A thread that moves changes the count by one at most.
LEMMA CountKept ==
    ASSUME Typed, SWMRGInv, NEW t \in Thread, NEW to \in Place,
           Go(t, pc[t], to), numReaders' = numReaders + Counts(to) - Counts(pc[t])
    PROVE  /\ numReaders' = Cardinality(Counted')
           /\ numReaders' \in Nat
           /\ pc' \in [Thread -> Place]
<1>1. /\ pc' = [pc EXCEPT ![t] = to] /\ pc' \in [Thread -> Place]
  BY DEF Typed, Go
<1>2. /\ IsFiniteSet(Counted) /\ numReaders = Cardinality(Counted) /\ numReaders \in Nat
  BY CountFacts DEF SWMRGInv, Typed
<1>3. pc[t] \in CountedPlace <=> t \in Counted
  BY DEF CountedPlace, Counted
<1>4. CASE to \in CountedPlace
  <2>1. Counted' = Counted \cup {t}
    BY <1>1, <1>4 DEF Counted, CountedPlace, Typed
  <2>2. Cardinality(Counted') = IF t \in Counted THEN Cardinality(Counted) ELSE Cardinality(Counted) + 1
    BY <1>2, <2>1, FS_AddElement
  <2>3. QED
    BY <1>1, <1>2, <1>3, <1>4, <2>2 DEF Counts
<1>5. CASE to \notin CountedPlace
  <2>1. Counted' = Counted \ {t}
    BY <1>1, <1>5 DEF Counted, CountedPlace, Typed
  <2>2. /\ Cardinality(Counted') = IF t \in Counted THEN Cardinality(Counted) - 1 ELSE Cardinality(Counted)
        /\ Cardinality(Counted') \in Nat
    BY <1>2, <2>1, FS_RemoveElement, FS_CardinalityType
  <2>3. QED
    BY <1>1, <1>2, <1>3, <1>5, <2>2 DEF Counts
<1>6. QED
  BY <1>4, <1>5

-----------------------------------------------------------------------------
(* One lemma per operation.                                                *)

Kept == Typed' /\ SWMRGInv'

LEMMA WaitToWriteKeeps == ASSUME Typed, SWMRGInv, NEW t \in Thread, WaitToWrite(t) PROVE Kept
<1>1. pc'[t] \in Place /\ Go(t, pc[t], pc'[t]) /\ numReaders' = numReaders + Counts(pc'[t]) - Counts(pc[t])
  BY DEF WaitToWrite, Go, Typed, Place, Counts, CountedPlace
<1>2. numReaders' = Cardinality(Counted') /\ Typed'
  BY <1>1, CountKept DEF WaitToWrite, Go, Typed
<1>3. ~intruded' => Orderly'
  BY DEF WaitToWrite, Go, Typed, Place, SWMRGInv, Orderly, Token
<1>4. \A u \in Writing' : Writing' = {u} /\ Admitted' = {}
  BY DEF WaitToWrite, Go, Typed, Place, SWMRGInv, Orderly, Token, Writing, Admitted
<1>5. intruded' => finish'
  BY DEF WaitToWrite, SWMRGInv
<1>6. QED
  BY <1>2, <1>3, <1>4, <1>5 DEF Kept, SWMRGInv

LEMMA EnterWriteKeeps == ASSUME Typed, SWMRGInv, NEW t \in Thread, EnterWrite(t) PROVE Kept
<1>1. pc'[t] \in Place /\ Go(t, pc[t], pc'[t]) /\ numReaders' = numReaders + Counts(pc'[t]) - Counts(pc[t])
  BY DEF EnterWrite, Go, NobodyInside, Typed, Place, Counts, CountedPlace
<1>2. numReaders' = Cardinality(Counted') /\ Typed'
  BY <1>1, CountKept DEF EnterWrite, Go, NobodyInside, Typed
<1>3. ~intruded' => Orderly'
  BY DEF EnterWrite, Go, NobodyInside, Typed, Place, SWMRGInv, Orderly, Token
<1>4. \A u \in Writing' : Writing' = {u} /\ Admitted' = {}
  BY DEF EnterWrite, Go, NobodyInside, Typed, Place, SWMRGInv, Orderly, Token, Writing, Admitted
<1>5. intruded' => finish'
  BY DEF EnterWrite, SWMRGInv
<1>6. QED
  BY <1>2, <1>3, <1>4, <1>5 DEF Kept, SWMRGInv

LEMMA WriteKeeps == ASSUME Typed, SWMRGInv, NEW t \in Thread, Write(t) PROVE Kept
<1>1. pc'[t] \in Place /\ Go(t, pc[t], pc'[t]) /\ numReaders' = numReaders + Counts(pc'[t]) - Counts(pc[t])
  BY DEF Write, Go, Typed, Place, Counts, CountedPlace
<1>2. numReaders' = Cardinality(Counted') /\ Typed'
  BY <1>1, CountKept DEF Write, Go, Typed
<1>3. ~intruded' => Orderly'
  BY DEF Write, Go, Typed, Place, SWMRGInv, Orderly, Token
<1>4. \A u \in Writing' : Writing' = {u} /\ Admitted' = {}
  BY DEF Write, Go, Typed, Place, SWMRGInv, Orderly, Token, Writing, Admitted
<1>5. intruded' => finish'
  BY DEF Write, SWMRGInv
<1>6. QED
  BY <1>2, <1>3, <1>4, <1>5 DEF Kept, SWMRGInv

LEMMA GiveUpKeeps == ASSUME Typed, SWMRGInv, NEW t \in Thread, GiveUp(t) PROVE Kept
<1>1. pc'[t] \in Place /\ Go(t, pc[t], pc'[t]) /\ numReaders' = numReaders + Counts(pc'[t]) - Counts(pc[t])
  BY DEF GiveUp, Go, ReturnToken, Typed, Place, Counts, CountedPlace
<1>2. numReaders' = Cardinality(Counted') /\ Typed'
  BY <1>1, CountKept DEF GiveUp, Go, ReturnToken, Typed
<1>3. ~intruded' => Orderly'
  BY DEF GiveUp, Go, ReturnToken, Typed, Place, SWMRGInv, Orderly, Token
<1>4. \A u \in Writing' : Writing' = {u} /\ Admitted' = {}
  BY DEF GiveUp, Go, ReturnToken, Typed, Place, SWMRGInv, Orderly, Token, Writing, Admitted
<1>5. intruded' => finish'
  BY DEF GiveUp, SWMRGInv
<1>6. QED
  BY <1>2, <1>3, <1>4, <1>5 DEF Kept, SWMRGInv

LEMMA DoneWritingKeeps == ASSUME Typed, SWMRGInv, NEW t \in Thread, DoneWriting(t) PROVE Kept
<1>1. pc'[t] \in Place /\ Go(t, pc[t], pc'[t]) /\ numReaders' = numReaders + Counts(pc'[t]) - Counts(pc[t])
  BY DEF DoneWriting, Go, ReturnToken, Typed, Place, Counts, CountedPlace
<1>2. numReaders' = Cardinality(Counted') /\ Typed'
  BY <1>1, CountKept DEF DoneWriting, Go, ReturnToken, Typed
<1>3. ~intruded' => Orderly'
  BY DEF DoneWriting, Go, ReturnToken, Typed, Place, SWMRGInv, Orderly, Token
<1>4. \A u \in Writing' : Writing' = {u} /\ Admitted' = {}
  BY DEF DoneWriting, Go, ReturnToken, Typed, Place, SWMRGInv, Orderly, Token, Writing, Admitted
<1>5. intruded' => finish'
  BY DEF DoneWriting, SWMRGInv
<1>6. QED
  BY <1>2, <1>3, <1>4, <1>5 DEF Kept, SWMRGInv

LEMMA WaitToReadKeeps == ASSUME Typed, SWMRGInv, NEW t \in Thread, WaitToRead(t) PROVE Kept
<1>1. pc'[t] \in Place /\ Go(t, pc[t], pc'[t]) /\ numReaders' = numReaders + Counts(pc'[t]) - Counts(pc[t])
  BY DEF WaitToRead, Go, Typed, Place, Counts, CountedPlace
<1>2. numReaders' = Cardinality(Counted') /\ Typed'
  BY <1>1, CountKept DEF WaitToRead, Go, Typed
<1>3. ~intruded' => Orderly'
  BY DEF WaitToRead, Go, Typed, Place, SWMRGInv, Orderly, Token
<1>4. \A u \in Writing' : Writing' = {u} /\ Admitted' = {}
  BY DEF WaitToRead, Go, Typed, Place, SWMRGInv, Orderly, Token, Writing, Admitted
<1>5. intruded' => finish'
  BY DEF WaitToRead, SWMRGInv
<1>6. QED
  BY <1>2, <1>3, <1>4, <1>5 DEF Kept, SWMRGInv

LEMMA EnterReadKeeps == ASSUME Typed, SWMRGInv, NEW t \in Thread, EnterRead(t) PROVE Kept
<1>1. pc'[t] \in Place /\ Go(t, pc[t], pc'[t]) /\ numReaders' = numReaders + Counts(pc'[t]) - Counts(pc[t])
  BY DEF EnterRead, Go, Typed, Place, Counts, CountedPlace
<1>2. numReaders' = Cardinality(Counted') /\ Typed'
  BY <1>1, CountKept DEF EnterRead, Go, Typed
<1>3. ~intruded' => Orderly'
  BY DEF EnterRead, Go, Typed, Place, SWMRGInv, Orderly, Token
<1>4. \A u \in Writing' : Writing' = {u} /\ Admitted' = {}
  BY DEF EnterRead, Go, Typed, Place, SWMRGInv, Orderly, Token, Writing, Admitted
<1>5. intruded' => finish'
  BY DEF EnterRead, SWMRGInv
<1>6. QED
  BY <1>2, <1>3, <1>4, <1>5 DEF Kept, SWMRGInv

LEMMA TimeOutKeeps == ASSUME Typed, SWMRGInv, NEW t \in Thread, TimeOut(t) PROVE Kept
<1>1. pc'[t] \in Place /\ Go(t, pc[t], pc'[t]) /\ numReaders' = numReaders + Counts(pc'[t]) - Counts(pc[t])
  BY DEF TimeOut, Go, Typed, Place, Counts, CountedPlace
<1>2. numReaders' = Cardinality(Counted') /\ Typed'
  BY <1>1, CountKept DEF TimeOut, Go, Typed
<1>3. ~intruded' => Orderly'
  BY DEF TimeOut, Go, Typed, Place, SWMRGInv, Orderly, Token
<1>4. \A u \in Writing' : Writing' = {u} /\ Admitted' = {}
  BY DEF TimeOut, Go, Typed, Place, SWMRGInv, Orderly, Token, Writing, Admitted
<1>5. intruded' => finish'
  BY DEF TimeOut, SWMRGInv
<1>6. QED
  BY <1>2, <1>3, <1>4, <1>5 DEF Kept, SWMRGInv

LEMMA ReadKeeps == ASSUME Typed, SWMRGInv, NEW t \in Thread, Read(t) PROVE Kept
<1>1. pc'[t] \in Place /\ Go(t, pc[t], pc'[t]) /\ numReaders' = numReaders + Counts(pc'[t]) - Counts(pc[t])
  BY DEF Read, Go, Typed, Place, Counts, CountedPlace
<1>2. numReaders' = Cardinality(Counted') /\ Typed'
  BY <1>1, CountKept DEF Read, Go, Typed
<1>3. ~intruded' => Orderly'
  BY DEF Read, Go, Typed, Place, SWMRGInv, Orderly, Token
<1>4. \A u \in Writing' : Writing' = {u} /\ Admitted' = {}
  BY DEF Read, Go, Typed, Place, SWMRGInv, Orderly, Token, Writing, Admitted
<1>5. intruded' => finish'
  BY DEF Read, SWMRGInv
<1>6. QED
  BY <1>2, <1>3, <1>4, <1>5 DEF Kept, SWMRGInv

LEMMA CountKeeps == ASSUME Typed, SWMRGInv, NEW t \in Thread, Count(t) PROVE Kept
<1>1. pc'[t] \in Place /\ Go(t, pc[t], pc'[t]) /\ numReaders' = numReaders + Counts(pc'[t]) - Counts(pc[t])
  BY DEF Count, Go, Typed, Place, Counts, CountedPlace
<1>2. numReaders' = Cardinality(Counted') /\ Typed'
  BY <1>1, CountKept DEF Count, Go, Typed
<1>3. ASSUME ~intruded PROVE Orderly'
  <2>1. Orderly /\ t \in Token
    BY <1>3 DEF Count, Go, SWMRGInv, Token
  <2>2. ASSUME NEW u \in Counted PROVE pc[u] \in {"reading", "leave"}
    BY <2>1, <2>2 DEF Orderly, Token, Counted, Count, Go
  <2>3. numReaders # 0 => ~noReaders
    BY <2>1, <2>2, CountFacts DEF Orderly, Counted
  <2>4. numReaders = 0 => \A u \in Thread : pc[u] \notin {"reading", "leave"}
    BY CountFacts DEF Counted
  <2>5. QED
    BY <2>1, <2>3, <2>4 DEF Count, Go, Typed, Place, Orderly, Token
<1>4. \A u \in Writing' : Writing' = {u} /\ Admitted' = {}
  BY DEF Count, Go, Typed, Place, SWMRGInv, Orderly, Token, Writing, Admitted
<1>5. intruded' => finish'
  BY DEF Count, SWMRGInv
<1>6. QED
  BY <1>2, <1>3, <1>4, <1>5 DEF Count, Kept, SWMRGInv

LEMMA BlockKeeps == ASSUME Typed, SWMRGInv, NEW t \in Thread, Block(t) PROVE Kept
<1>1. pc'[t] \in Place /\ Go(t, pc[t], pc'[t]) /\ numReaders' = numReaders + Counts(pc'[t]) - Counts(pc[t])
  BY DEF Block, Go, Blocked, Typed, Place, Counts, CountedPlace
<1>2. numReaders' = Cardinality(Counted') /\ Typed'
  BY <1>1, CountKept DEF Block, Go, Blocked, Typed
<1>3. ~intruded' => Orderly'
  BY DEF Block, Go, Blocked, Typed, Place, SWMRGInv, Orderly, Token
<1>4. \A u \in Writing' : Writing' = {u} /\ Admitted' = {}
  BY DEF Block, Go, Blocked, Typed, Place, SWMRGInv, Orderly, Token, Writing, Admitted
<1>5. intruded' => finish'
  BY DEF Block, SWMRGInv
<1>6. QED
  BY <1>2, <1>3, <1>4, <1>5 DEF Kept, SWMRGInv

LEMMA OpenKeeps == ASSUME Typed, SWMRGInv, NEW t \in Thread, Open(t) PROVE Kept
<1>1. pc'[t] \in Place /\ Go(t, pc[t], pc'[t]) /\ numReaders' = numReaders + Counts(pc'[t]) - Counts(pc[t])
  BY DEF Open, Go, ReturnToken, Typed, Place, Counts, CountedPlace
<1>2. numReaders' = Cardinality(Counted') /\ Typed'
  BY <1>1, CountKept DEF Open, Go, ReturnToken, Typed
<1>3. ~intruded' => Orderly'
  BY DEF Open, Go, ReturnToken, Typed, Place, SWMRGInv, Orderly, Token
<1>4. \A u \in Writing' : Writing' = {u} /\ Admitted' = {}
  BY DEF Open, Go, ReturnToken, Typed, Place, SWMRGInv, Orderly, Token, Writing, Admitted
<1>5. intruded' => finish'
  BY DEF Open, SWMRGInv
<1>6. QED
  BY <1>2, <1>3, <1>4, <1>5 DEF Kept, SWMRGInv

LEMMA DoneReadingKeeps == ASSUME Typed, SWMRGInv, NEW t \in Thread, DoneReading(t) PROVE Kept
<1>1. pc'[t] \in Place /\ Go(t, pc[t], pc'[t]) /\ numReaders' = numReaders + Counts(pc'[t]) - Counts(pc[t])
  BY DEF DoneReading, Go, Typed, Place, Counts, CountedPlace
<1>2. numReaders' = Cardinality(Counted') /\ Typed'
  BY <1>1, CountKept DEF DoneReading, Go, Typed
<1>3. ~intruded' => Orderly'
  BY DEF DoneReading, Go, Typed, Place, SWMRGInv, Orderly, Token
<1>4. \A u \in Writing' : Writing' = {u} /\ Admitted' = {}
  BY DEF DoneReading, Go, Typed, Place, SWMRGInv, Orderly, Token, Writing, Admitted
<1>5. intruded' => finish'
  BY DEF DoneReading, SWMRGInv
<1>6. QED
  BY <1>2, <1>3, <1>4, <1>5 DEF Kept, SWMRGInv

LEMMA LeaveKeeps == ASSUME Typed, SWMRGInv, NEW t \in Thread, Leave(t) PROVE Kept
<1>1. pc'[t] \in Place /\ Go(t, pc[t], pc'[t]) /\ numReaders' = numReaders + Counts(pc'[t]) - Counts(pc[t])
  BY DEF Leave, Go, Typed, Place, Counts, CountedPlace
<1>2. numReaders' = Cardinality(Counted') /\ Typed'
  BY <1>1, CountKept DEF Leave, Go, Typed
<1>3. ~intruded' => Orderly'
  BY DEF Leave, Go, Typed, Place, SWMRGInv, Orderly, Token
<1>4. \A u \in Writing' : Writing' = {u} /\ Admitted' = {}
  BY DEF Leave, Go, Typed, Place, SWMRGInv, Orderly, Token, Writing, Admitted
<1>5. intruded' => finish'
  BY DEF Leave, SWMRGInv
<1>6. QED
  BY <1>2, <1>3, <1>4, <1>5 DEF Kept, SWMRGInv

LEMMA RestoreKeeps == ASSUME Typed, SWMRGInv, NEW t \in Thread, Restore(t) PROVE Kept
<1>1. pc'[t] \in Place /\ Go(t, pc[t], pc'[t]) /\ numReaders' = numReaders + Counts(pc'[t]) - Counts(pc[t])
  BY DEF Restore, Go, NoneLeft, Typed, Place, Counts, CountedPlace
<1>2. numReaders' = Cardinality(Counted') /\ Typed'
  BY <1>1, CountKept DEF Restore, Go, NoneLeft, Typed
<1>3. ~intruded' => Orderly'
  BY CountFacts DEF Restore, Go, NoneLeft, Typed, Place, SWMRGInv, Orderly, Token, Counted
<1>4. \A u \in Writing' : Writing' = {u} /\ Admitted' = {}
  BY DEF Restore, Go, NoneLeft, Typed, Place, SWMRGInv, Orderly, Token, Writing, Admitted
<1>5. intruded' => finish'
  BY DEF Restore, SWMRGInv
<1>6. QED
  BY <1>2, <1>3, <1>4, <1>5 DEF Kept, SWMRGInv

LEMMA TakeKeeps == ASSUME Typed, SWMRGInv, NEW t \in Thread, Take(t) PROVE Kept
<1>1. pc'[t] \in Place /\ Go(t, pc[t], pc'[t]) /\ numReaders' = numReaders + Counts(pc'[t]) - Counts(pc[t])
  BY DEF Take, Go, OneLess, Typed, Place, Counts, CountedPlace
<1>2. numReaders' = Cardinality(Counted') /\ Typed'
  BY <1>1, CountKept DEF Take, Go, OneLess, Typed
<1>3. ~intruded' => Orderly'
  BY DEF Take, Go, OneLess, Typed, Place, SWMRGInv, Orderly, Token
<1>4. \A u \in Writing' : Writing' = {u} /\ Admitted' = {}
  BY DEF Take, Go, OneLess, Typed, Place, SWMRGInv, Orderly, Token, Writing, Admitted
<1>5. intruded' => finish'
  BY DEF Take, SWMRGInv
<1>6. QED
  BY <1>2, <1>3, <1>4, <1>5 DEF Kept, SWMRGInv

LEMMA UnblockKeeps == ASSUME Typed, SWMRGInv, NEW t \in Thread, Unblock(t) PROVE Kept
<1>1. pc'[t] \in Place /\ Go(t, pc[t], pc'[t]) /\ numReaders' = numReaders + Counts(pc'[t]) - Counts(pc[t])
  BY DEF Unblock, Go, Typed, Place, Counts, CountedPlace
<1>2. numReaders' = Cardinality(Counted') /\ Typed'
  BY <1>1, CountKept DEF Unblock, Go, Typed
<1>3. ~intruded' => Orderly'
  BY DEF Unblock, Go, Typed, Place, SWMRGInv, Orderly, Token
<1>4. \A u \in Writing' : Writing' = {u} /\ Admitted' = {}
  BY DEF Unblock, Go, Typed, Place, SWMRGInv, Orderly, Token, Writing, Admitted
<1>5. intruded' => finish'
  BY DEF Unblock, SWMRGInv
<1>6. QED
  BY <1>2, <1>3, <1>4, <1>5 DEF Kept, SWMRGInv

LEMMA CloseKeeps == ASSUME Typed, SWMRGInv, NEW t \in Thread, Close(t) PROVE Kept
<1>1. pc'[t] \in Place /\ Go(t, pc[t], pc'[t]) /\ numReaders' = numReaders + Counts(pc'[t]) - Counts(pc[t])
  BY DEF Close, Go, ReturnToken, Typed, Place, Counts, CountedPlace
<1>2. numReaders' = Cardinality(Counted') /\ Typed'
  BY <1>1, CountKept DEF Close, Go, ReturnToken, Typed
<1>3. ~intruded' => Orderly'
  BY DEF Close, Go, ReturnToken, Typed, Place, SWMRGInv, Orderly, Token
<1>4. \A u \in Writing' : Writing' = {u} /\ Admitted' = {}
  BY DEF Close, Go, ReturnToken, Typed, Place, SWMRGInv, Orderly, Token, Writing, Admitted
<1>5. intruded' => finish'
  BY DEF Close, SWMRGInv
<1>6. QED
  BY <1>2, <1>3, <1>4, <1>5 DEF Kept, SWMRGInv

LEMMA StopSignalKeeps == ASSUME Typed, SWMRGInv, StopSignal PROVE Kept
BY DEF StopSignal, Kept, Typed, SWMRGInv, Orderly, Token, Counted, Writing, Admitted

-----------------------------------------------------------------------------
LEMMA InitKeeps == SWMRGInitialize => Typed /\ SWMRGInv
<1> SUFFICES ASSUME SWMRGInitialize PROVE Typed /\ SWMRGInv
  OBVIOUS
<1>1. Typed
  BY DEF SWMRGInitialize, Typed, Place
<1>2. Counted = {} /\ Token = {} /\ Writing = {}
  BY DEF SWMRGInitialize, Counted, Token, Writing
<1>3. numReaders = Cardinality(Counted)
  BY <1>2, FS_EmptySet DEF SWMRGInitialize
<1>4. Orderly
  BY <1>2 DEF SWMRGInitialize, Orderly
<1>5. QED
  BY <1>1, <1>2, <1>3, <1>4 DEF SWMRGInitialize, SWMRGInv

LEMMA NextKeeps == Typed /\ SWMRGInv /\ [SWMRGNext]_swmrgVars => Kept
<1> SUFFICES ASSUME Typed, SWMRGInv, [SWMRGNext]_swmrgVars PROVE Kept
  OBVIOUS
<1>1. ASSUME NEW t \in Thread, Begin(t) PROVE Kept
  BY <1>1, WaitToWriteKeeps, WaitToReadKeeps DEF Begin
<1>2. ASSUME NEW t \in Thread, Progress(t) PROVE Kept
  BY <1>2, WriteKeeps, DoneWritingKeeps, GiveUpKeeps, ReadKeeps, CountKeeps, BlockKeeps, OpenKeeps,
     DoneReadingKeeps, RestoreKeeps, TakeKeeps, UnblockKeeps, CloseKeeps DEF Progress
<1>3. ASSUME NEW t \in Thread, Enter(t) PROVE Kept
  BY <1>3, EnterWriteKeeps, EnterReadKeeps, TimeOutKeeps, LeaveKeeps DEF Enter
<1>4. CASE UNCHANGED swmrgVars
  BY <1>4 DEF swmrgVars, Kept, Typed, SWMRGInv, Orderly, Token, Counted, Writing, Admitted
<1>5. QED
  BY <1>1, <1>2, <1>3, <1>4, StopSignalKeeps DEF SWMRGNext

\* The token of the mail notifier's lock is in one place until somebody who
\* timed out gives it back, and the semaphore counts the readers even then.
THEOREM TokenKept == SWMRGSpec => []SWMRGInv
<1>1. SWMRGSpec => [](Typed /\ SWMRGInv)
  BY InitKeeps, NextKeeps, PTL DEF SWMRGSpec, Kept
<1>2. QED
  BY <1>1, PTL

\* The type invariant.
THEOREM SWMRGTypeCorrect == SWMRGSpec => []SWMRGTypeOK
<1>1. Typed /\ SWMRGInv => SWMRGTypeOK
  BY CountFacts DEF Typed, SWMRGTypeOK
<1>2. SWMRGSpec => [](Typed /\ SWMRGInv)
  BY InitKeeps, NextKeeps, PTL DEF SWMRGSpec, Kept
<1>3. QED
  BY <1>1, <1>2, PTL

-----------------------------------------------------------------------------
(* The refinement                                                          *)

\* Only four steps change who reads and who writes.
LEMMA QuietStep ==
    ASSUME Typed, NEW t \in Thread, NEW from, NEW to, Go(t, from, to),
           from \notin {"reading", "writing"}, to \notin {"reading", "writing"}
    PROVE  UNCHANGED <<Reading, Writing>>
BY DEF Typed, Go, Reading, Writing

LEMMA WriteAllowed ==
    ASSUME Typed, SWMRGInv, NEW t \in Thread, Write(t)
    PROVE  [Lock!Next]_<<Reading, Writing>>
<1>1. CASE finish
  BY <1>1, QuietStep DEF Write
<1>2. CASE ~finish
  <2>1. Orderly /\ t \in Token
    BY <1>2 DEF Write, Go, SWMRGInv, Token
  <2>2. Reading = {} /\ Writing = {}
    BY <2>1 DEF Write, Go, Orderly, Token, Reading, Writing
  <2>3. Reading' = {} /\ Writing' = {t}
    BY <1>2, <2>2 DEF Write, Go, Typed, Reading, Writing
  <2>4. Lock!Write(t)
    BY <2>2, <2>3 DEF Lock!Write
  <2>5. QED
    BY <2>4 DEF Lock!Next
<1>3. QED
  BY <1>1, <1>2

LEMMA StepAllowed ==
    ASSUME Typed, SWMRGInv, NEW t \in Thread, Begin(t) \/ Progress(t) \/ Enter(t)
    PROVE  [Lock!Next]_<<Reading, Writing>>
<1>1. CASE DoneWriting(t)
  <2>1. Writing = {t} /\ Writing' = {} /\ Reading' = Reading
    BY <1>1 DEF DoneWriting, Go, Typed, SWMRGInv, Reading, Writing
  <2>2. Lock!EndWrite(t)
    BY <2>1 DEF Lock!EndWrite
  <2>3. QED
    BY <2>2 DEF Lock!Next
<1>2. CASE Open(t)
  <2>1. Writing = {} /\ Writing' = {}
    BY <1>2 DEF Open, Go, Typed, SWMRGInv, Writing, Admitted
  <2>2. t \notin Reading /\ Reading' = Reading \cup {t}
    BY <1>2 DEF Open, Go, Typed, Reading
  <2>3. Lock!Read(t)
    BY <2>1, <2>2 DEF Lock!Read
  <2>4. QED
    BY <2>3 DEF Lock!Next
<1>3. CASE DoneReading(t)
  <2>1. t \in Reading /\ Reading' = Reading \ {t} /\ Writing' = Writing
    BY <1>3 DEF DoneReading, Go, Typed, Reading, Writing
  <2>2. Lock!EndRead(t)
    BY <2>1 DEF Lock!EndRead
  <2>3. QED
    BY <2>2 DEF Lock!Next
<1>4. CASE Begin(t) \/ Enter(t)
  BY <1>4, QuietStep DEF Begin, WaitToWrite, WaitToRead, Enter, EnterWrite, EnterRead, TimeOut, Leave
<1>5. CASE GiveUp(t) \/ Read(t) \/ Count(t) \/ Block(t)
  BY <1>5, QuietStep DEF GiveUp, Read, Count, Block
<1>6. CASE Restore(t) \/ Take(t) \/ Unblock(t) \/ Close(t)
  BY <1>6, QuietStep DEF Restore, Take, Unblock, Close
<1>7. QED
  BY <1>1, <1>2, <1>3, <1>4, <1>5, <1>6, WriteAllowed DEF Progress

\* The mail notifier's lock implements the abstract lock, which is to say that
\* a writer is always alone, also after somebody gave back a token it never had.
THEOREM SWMRGImplemented == SWMRGSpec => Refines
<1>1. SWMRGInitialize => Lock!Init
  <2>1. SWMRGInitialize => Reading = {} /\ Writing = {}
    BY DEF SWMRGInitialize, Reading, Writing
  <2>2. QED
    BY <2>1 DEF Lock!Init
<1>2. Typed /\ SWMRGInv /\ [SWMRGNext]_swmrgVars => [Lock!Next]_<<Reading, Writing>>
  <2>1. ASSUME StopSignal \/ UNCHANGED swmrgVars PROVE UNCHANGED <<Reading, Writing>>
    BY <2>1 DEF StopSignal, swmrgVars, Reading, Writing
  <2>2. QED
    BY <2>1, StepAllowed DEF SWMRGNext
<1>3. SWMRGSpec => [](Typed /\ SWMRGInv)
  BY InitKeeps, NextKeeps, PTL DEF SWMRGSpec, Kept
<1>4. QED
  BY <1>1, <1>2, <1>3, PTL DEF SWMRGSpec, Refines, Lock!LockSpec, Lock!lockVars
=============================================================================
