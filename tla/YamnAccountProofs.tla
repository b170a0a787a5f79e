--------------------------- MODULE YamnAccountProofs ---------------------------
(* Proofs about YamnAccount: its types, and that no account is freed while a   *)
(* thread that is counted, or that somebody waits for, can use it.             *)
EXTENDS YamnAccount, FiniteSetTheorems, TLAPS

CheckPlace == {"queued", "online", "checked", "browsing", "failed", "reporting", "reported", "release"}
WindowPlace == {"create", "opening", "open", "told", "hung", "closing", "saving", "asking", "fetching"}
MainPlace == {"showing", "unlinking", "stopping", "deleting", "waiting", "ended"}

(* Where threads can be, and what their place says of what they do. *)
Placed ==
    /\ pc \in [Thread \cup Caller -> Place]
    /\ \A t \in Thread : pc[t] \in {"idle", "started", "counted", "dec"} \cup CheckPlace \cup WindowPlace
    /\ \A t \in Thread : pc[t] \in CheckPlace => kind[t] = "check"
    /\ pc[HotKey] \in {"idle", "loop", "starting"}
    /\ pc[Main] \in {"idle", "loop", "starting"} \cup MainPlace

Typed ==
    /\ finish \subseteq Account /\ listed \subseteq Account
    /\ freed \subseteq Account /\ passed \subseteq Account
    /\ deleter \in [Account -> {"none", "waiting", "freeing"}]
    /\ number \in [Account -> Nat]
    /\ event \in [Account -> BOOLEAN]
    /\ internet \in [Account -> BOOLEAN]
    /\ regCS \in Thread \cup Caller \cup {None}
    /\ kind \in [Thread -> {"none", "check", "browser", "error", "message"}]
    /\ acc \in [Thread \cup {Main} -> Account \cup {None}]
    /\ stray \subseteq Thread
    /\ by \in [Thread -> Thread \cup Caller \cup {None}]
    /\ \A t \in Thread : pc[t] # "idle" => acc[t] \in Account

(* PluginRegCS has the owner it should have. *)
Holding == {"loop", "starting", "fetching", "stopping", "deleting", "waiting"}
Guarded == \A p \in Thread \cup Caller : pc[p] \in Holding => regCS = p

(* Who starts a thread is still there, with the account, until it has counted  *)
(* itself.                                                                     *)
Expected(t) ==
    \/ by[t] = None /\ kind[t] = "message"
    \/ by[t] \in Thread /\ pc[by[t]] \in {"browsing", "reporting", "fetching"} /\ acc[by[t]] = acc[t]
    \/ by[t] \in Caller /\ pc[by[t]] \in {"starting", "showing"} /\ acc[t] \in listed
Awaited == \A t \in Thread : pc[t] = "started" => Expected(t)

(* UsingThreads counts, and its event tells that there are none. *)
Counts == \A a \in Account :
    /\ number[a] = Cardinality(Counted(a))
    /\ event[a] => Counted(a) = {}

(* Accounts that nobody waits for any more, and those that will be. *)
Gone(a) == deleter[a] = "freeing" \/ a \in passed \/ a \in freed
Stopped ==
    /\ \A a \in Account : Gone(a) \/ deleter[a] = "waiting" => a \in finish
    /\ \A a \in Account : deleter[a] # "none" => a \notin listed
    /\ pc[Main] = "unlinking" => acc[Main] \in finish
    /\ pc[Main] \in {"deleting", "waiting"} => listed \subseteq finish
Left == \A t \in Thread : pc[t] # "idle" /\ Gone(acc[t]) => Unwaited(t)

YamnInv == Placed /\ Typed /\ Guarded /\ Awaited /\ Counts /\ Stopped /\ Left

USE YamnAssumption

Creating == {"browsing", "reporting", "fetching"}

-----------------------------------------------------------------------------
(* What the invariant says of single threads, in the form the proofs use.      *)
LEMMA Distinct == /\ Thread \cap Caller = {} /\ Main \in Caller /\ HotKey \in Caller
                  /\ None \notin Thread \cup Caller \cup Account
                  /\ IsFiniteSet(Thread)
<1>1. IsFiniteSet(Thread)
  BY FS_Union DEF Thread
<1>2. QED
  BY <1>1 DEF Thread, Caller

LEMMA NotAwaited ==
    ASSUME YamnInv, NEW p \in Thread \cup Caller,
           ~Counting(p) \/ pc[p] \notin Creating \cup {"starting", "showing"}
    PROVE  \A s \in Thread : pc[s] = "started" => by[s] # p
<1> SUFFICES ASSUME NEW s \in Thread, pc[s] = "started", by[s] = p
             PROVE  FALSE
  OBVIOUS
<1>1. pc[p] \in Creating \cup {"starting", "showing"}
  BY Distinct DEF YamnInv, Awaited, Expected, Creating
<1>2. QED
  BY <1>1 DEF Counting

LEMMA CountedIs ==
    ASSUME YamnInv, NEW a \in Account
    PROVE  /\ IsFiniteSet(Counted(a)) /\ Cardinality(Counted(a)) \in Nat
           /\ Cardinality(Counted(a)) = 0 <=> Counted(a) = {}
           /\ Cardinality(Counted(a)) <= Cardinality(Thread) /\ Cardinality(Thread) \in Nat
<1>1. Counted(a) \subseteq Thread
  BY DEF Counted
<1>2. QED
  BY <1>1, Distinct, FS_Subset, FS_CardinalityType, FS_EmptySet

(* Steps that count and uncount nobody.                                        *)
LEMMA CountsSame ==
    ASSUME Counts, UNCHANGED number,
           \A t \in Thread : /\ pc'[t] \in {"idle", "started"} <=> pc[t] \in {"idle", "started"}
                             /\ pc[t] \notin {"idle", "started"} => acc'[t] = acc[t],
           \A a \in Account : event'[a] => event[a] \/ Counted(a) = {}
    PROVE  Counts'
<1> SUFFICES ASSUME NEW a \in Account
             PROVE  /\ number'[a] = Cardinality(Counted(a)')
                    /\ event'[a] => Counted(a)' = {}
  BY DEF Counts
<1>1. Counted(a)' = Counted(a)
  BY DEF Counted
<1>2. QED
  BY <1>1 DEF Counts

-----------------------------------------------------------------------------
(* A thread that is counted goes on.                                           *)
LEMMA Walk ==
    ASSUME YamnInv, NEW t \in Thread, NEW x,
           pc[t] \notin {"idle", "started"}, pc' = [pc EXCEPT ![t] = x],
           x \in {"dec"} \cup CheckPlace \cup WindowPlace, x # "fetching",
           x \in CheckPlace => kind[t] = "check",
           ~Counting(t) \/ pc[t] \notin Creating,
           regCS' = regCS \/ (regCS = t /\ regCS' = None),
           internet' \in [Account -> BOOLEAN],
           UNCHANGED <<life, count, self>>
    PROVE  YamnInv'
<1> USE Distinct DEF life, count, self
<1>0. pc \in [Thread \cup Caller -> Place] /\ x \in Place /\ t \in Thread \cup Caller
  BY DEF YamnInv, Placed, CheckPlace, WindowPlace, Place
<1>1. pc'[t] = x /\ \A s \in Thread \cup Caller : s # t => pc'[s] = pc[s]
  BY <1>0
<1>2. pc[Main] = pc'[Main] /\ pc[HotKey] = pc'[HotKey]
  BY <1>1
<1>3. Placed'
  BY <1>0, <1>1, <1>2 DEF YamnInv, Placed
<1>4. Typed'
  BY <1>1 DEF YamnInv, Typed
<1>5. Guarded'
  BY <1>1 DEF YamnInv, Guarded, Holding, CheckPlace, WindowPlace
<1>6. Awaited'
  <2>1. \A s \in Thread : pc[s] = "started" => by[s] # t
    <3>1. pc[t] \notin {"starting", "showing"}
      BY DEF YamnInv, Placed, CheckPlace, WindowPlace
    <3>2. QED
      BY <3>1, NotAwaited
  <2>2. SUFFICES ASSUME NEW s \in Thread, pc'[s] = "started"
                 PROVE  Expected(s)'
    BY DEF Awaited
  <2>3. pc[s] = "started" /\ s # t
    BY <1>1, <2>2 DEF CheckPlace, WindowPlace
  <2>4. Expected(s) /\ by[s] # t
    BY <2>1, <2>3 DEF YamnInv, Awaited
  <2>5. QED
    BY <2>4, <1>1 DEF Expected
<1>7. Counts'
  BY <1>1, CountsSame DEF YamnInv, CheckPlace, WindowPlace
<1>8. Stopped'
  BY <1>2 DEF YamnInv, Stopped, Gone
<1>9. Left'
  BY <1>1 DEF YamnInv, Left, Gone, Unwaited
<1>10. QED
  BY <1>3, <1>4, <1>5, <1>6, <1>7, <1>8, <1>9 DEF YamnInv

(* The timer, the hot key and the main thread go on.                           *)
LEMMA CallerGoes ==
    ASSUME YamnInv, NEW p \in Caller, NEW x, pc' = [pc EXCEPT ![p] = x],
           x \in {"idle", "loop"} \/ (p = Main /\ x \in {"stopping", "waiting"}),
           ~Counting(p) \/ pc[p] \notin {"starting", "showing"},
           x \in Holding => regCS' = p,
           regCS' = regCS \/ (regCS \in {None, p} /\ regCS' \in {None, p}),
           x = "waiting" => pc[p] = "deleting",
           UNCHANGED <<life, count, internet, self>>
    PROVE  YamnInv'
<1> USE Distinct DEF life, count, self
<1>0. pc \in [Thread \cup Caller -> Place] /\ x \in Place
  BY DEF YamnInv, Placed, Place
<1>1. pc'[p] = x /\ \A s \in Thread \cup Caller : s # p => pc'[s] = pc[s]
  BY <1>0
<1>2. \A s \in Thread : pc'[s] = pc[s]
  BY <1>1
<1>3. Placed'
  BY <1>0, <1>1, <1>2 DEF YamnInv, Placed, MainPlace, Caller
<1>4. Typed'
  BY <1>2 DEF YamnInv, Typed
<1>5. Guarded'
  BY <1>1, <1>0 DEF YamnInv, Guarded, Holding
<1>6. Awaited'
  <2>1. \A s \in Thread : pc[s] = "started" => by[s] # p
    <3>1. pc[p] \notin Creating
      BY DEF YamnInv, Placed, MainPlace, Creating, Caller
    <3>2. QED
      BY <3>1, NotAwaited
  <2>2. SUFFICES ASSUME NEW s \in Thread, pc'[s] = "started"
                 PROVE  Expected(s)'
    BY DEF Awaited
  <2>3. Expected(s) /\ by[s] # p
    BY <1>2, <2>1, <2>2 DEF YamnInv, Awaited
  <2>4. QED
    BY <2>3, <1>1 DEF Expected
<1>7. Counts'
  BY <1>2, CountsSame DEF YamnInv
<1>8. Stopped'
  BY <1>1 DEF YamnInv, Stopped, Gone
<1>9. Left'
  BY <1>2 DEF YamnInv, Left, Gone, Unwaited
<1>10. QED
  BY <1>3, <1>4, <1>5, <1>6, <1>7, <1>8, <1>9 DEF YamnInv

(* One starts a thread for an account that was not told to stop, and waits.    *)
LEMMA Starts ==
    ASSUME YamnInv, NEW p \in Thread \cup Caller, NEW t \in Thread,
           NEW k \in {"check", "browser", "error"}, NEW a \in Account, NEW at,
           Start(t, k, a, p, at), ~Gone(a),
           \/ /\ p \in Thread /\ acc[p] = a /\ at \in Creating
              /\ pc[p] \notin {"idle", "started"} \cup Creating
              /\ at # "fetching" => kind[p] = "check"
           \/ p \in Caller /\ a \in listed /\ pc[p] \in {"idle", "loop"}
                /\ (at = "starting" \/ (p = Main /\ at = "showing")),
           at \in Holding => regCS' = p,
           regCS' = regCS \/ (regCS = None /\ regCS' = p),
           UNCHANGED <<life, count, internet>>
    PROVE  YamnInv'
<1> USE Distinct DEF life, count
<1>0. /\ pc \in [Thread \cup Caller -> Place] /\ at \in Place /\ "started" \in Place
      /\ t \in Thread \cup Caller /\ pc[t] = "idle" /\ p # t
      /\ kind \in [Thread -> {"none", "check", "browser", "error", "message"}]
      /\ acc \in [Thread \cup {Main} -> Account \cup {None}]
      /\ by \in [Thread -> Thread \cup Caller \cup {None}]
      /\ pc' = [pc EXCEPT ![t] = "started", ![p] = at]
      /\ kind' = [kind EXCEPT ![t] = k] /\ acc' = [acc EXCEPT ![t] = a]
      /\ by' = [by EXCEPT ![t] = p] /\ UNCHANGED stray
  BY DEF YamnInv, Placed, Typed, Place, Start, Begin, Creating
<1>1. /\ pc'[t] = "started" /\ pc'[p] = at
      /\ \A s \in Thread \cup Caller : s \notin {t, p} => pc'[s] = pc[s]
      /\ kind'[t] = k /\ acc'[t] = a /\ by'[t] = p
      /\ \A s \in Thread : s # t => kind'[s] = kind[s] /\ acc'[s] = acc[s] /\ by'[s] = by[s]
      /\ acc'[Main] = acc[Main]
  BY <1>0
<1>2. \A s \in Thread : pc[s] = "started" => by[s] # p
  BY NotAwaited DEF Creating, YamnInv, Placed, CheckPlace, WindowPlace
<1>3. Placed'
  <2>1. pc' \in [Thread \cup Caller -> Place]
    BY <1>0
  <2>2. \A s \in Thread : /\ pc'[s] \in {"idle", "started", "counted", "dec"} \cup CheckPlace \cup WindowPlace
                          /\ pc'[s] \in CheckPlace => kind'[s] = "check"
    BY <1>0, <1>1 DEF YamnInv, Placed, CheckPlace, WindowPlace, Creating
  <2>3. pc'[HotKey] \in {"idle", "loop", "starting"} /\ pc'[Main] \in {"idle", "loop", "starting"} \cup MainPlace
    BY <1>0, <1>1 DEF YamnInv, Placed, MainPlace, Caller
  <2>4. QED
    BY <2>1, <2>2, <2>3 DEF Placed
<1>4. Typed'
  BY <1>0, <1>1 DEF YamnInv, Typed
<1>5. Guarded'
  BY <1>0, <1>1 DEF YamnInv, Guarded, Holding
<1>6. Awaited'
  <2>1. SUFFICES ASSUME NEW s \in Thread, pc'[s] = "started"
                 PROVE  Expected(s)'
    BY DEF Awaited
  <2>2. CASE s = t
    BY <1>0, <1>1, <2>2 DEF Expected, Creating
  <2>3. CASE s # t
    <3>1. s # p
      BY <1>1, <2>1 DEF Creating
    <3>2. Expected(s) /\ by[s] \notin {p, t} /\ by'[s] = by[s] /\ kind'[s] = kind[s] /\ acc'[s] = acc[s]
      BY <1>0, <1>1, <1>2, <2>1, <2>3, <3>1 DEF YamnInv, Awaited, Expected
    <3>3. QED
      BY <3>2, <1>1 DEF Expected
  <2>4. QED
    BY <2>2, <2>3
<1>7. Counts'
  <2>1. \A s \in Thread : /\ pc'[s] \in {"idle", "started"} <=> pc[s] \in {"idle", "started"}
                          /\ pc[s] \notin {"idle", "started"} => acc'[s] = acc[s]
    BY <1>0, <1>1 DEF Creating
  <2>2. QED
    BY <2>1, CountsSame DEF YamnInv
<1>8. Stopped'
  BY <1>0, <1>1 DEF YamnInv, Stopped, Gone
<1>9. Left'
  BY <1>0, <1>1 DEF YamnInv, Left, Gone, Unwaited
<1>10. QED
  BY <1>3, <1>4, <1>5, <1>6, <1>7, <1>8, <1>9 DEF YamnInv

LEMMA NotGone ==
    ASSUME YamnInv
    PROVE  /\ \A a \in Account \ finish : ~Gone(a)
           /\ \A t \in Thread : pc[t] \in CheckPlace => ~Gone(acc[t])
BY DEF YamnInv, Stopped, Left, Placed, Unwaited, CheckPlace

-----------------------------------------------------------------------------
(* Counting.                                                                   *)
LEMMA CountKeeps == ASSUME YamnInv, NEW t \in Thread, Count(t) PROVE YamnInv'
<1> USE Distinct DEF life, count, self
<1> DEFINE a == acc[t]
<1>0. /\ pc[t] = "started" /\ pc' = [pc EXCEPT ![t] = "counted"] /\ a \in Account /\ a \notin freed
      /\ number' = [number EXCEPT ![a] = @ + 1] /\ event' = [event EXCEPT ![a] = FALSE]
      /\ by' = [by EXCEPT ![t] = None] /\ UNCHANGED <<life, internet, regCS, kind, acc>>
      /\ stray' = IF deleter[a] = "freeing" \/ a \in passed THEN stray \cup {t} ELSE stray
      /\ pc \in [Thread \cup Caller -> Place] /\ "counted" \in Place /\ t \in Thread \cup Caller
      /\ number \in [Account -> Nat] /\ event \in [Account -> BOOLEAN]
      /\ by \in [Thread -> Thread \cup Caller \cup {None}]
  BY DEF YamnInv, Placed, Typed, Place, Count, Go
<1>1. /\ pc'[t] = "counted" /\ \A s \in Thread \cup Caller : s # t => pc'[s] = pc[s]
      /\ by'[t] = None /\ \A s \in Thread : s # t => by'[s] = by[s]
      /\ pc'[Main] = pc[Main] /\ pc'[HotKey] = pc[HotKey]
  BY <1>0
<1> HIDE DEF a
<1>3. Placed'
  BY <1>0, <1>1 DEF YamnInv, Placed, CheckPlace
<1>4. Typed'
  <2>1. number' \in [Account -> Nat] /\ event' \in [Account -> BOOLEAN] /\ stray' \subseteq Thread
        /\ by' \in [Thread -> Thread \cup Caller \cup {None}]
    BY <1>0 DEF YamnInv, Typed
  <2>2. \A s \in Thread : pc'[s] # "idle" => acc[s] \in Account
    BY <1>0, <1>1 DEF YamnInv, Typed
  <2>3. QED
    BY <1>0, <2>1, <2>2 DEF YamnInv, Typed
<1>5. Guarded'
  BY <1>0, <1>1 DEF YamnInv, Guarded, Holding
<1>6. Awaited'
  <2>1. SUFFICES ASSUME NEW s \in Thread, pc'[s] = "started" PROVE Expected(s)'
    BY DEF Awaited
  <2>2. s # t /\ pc[s] = "started" /\ Expected(s) /\ by'[s] = by[s]
    BY <1>1, <2>1 DEF YamnInv, Awaited
  <2>3. by[s] # t
    BY <1>0, <2>2 DEF Expected
  <2>4. QED
    BY <1>0, <1>1, <2>2, <2>3 DEF Expected
<1>7. Counts'
  <2>1. SUFFICES ASSUME NEW b \in Account
                 PROVE  /\ number'[b] = Cardinality(Counted(b)')
                        /\ event'[b] => Counted(b)' = {}
    BY DEF Counts
  <2>2. CASE b = a
    <3>1. Counted(b)' = Counted(b) \cup {t} /\ t \notin Counted(b)
      BY <1>0, <1>1, <2>2 DEF Counted, a
    <3>2. Cardinality(Counted(b)') = Cardinality(Counted(b)) + 1
      BY <3>1, CountedIs, FS_AddElement
    <3>3. QED
      BY <1>0, <2>2, <3>2 DEF YamnInv, Counts
  <2>3. CASE b # a
    <3>1. Counted(b)' = Counted(b)
      BY <1>0, <1>1, <2>3 DEF Counted, a
    <3>2. QED
      BY <1>0, <2>3, <3>1 DEF YamnInv, Counts
  <2>4. QED
    BY <2>2, <2>3
<1>8. Stopped'
  BY <1>0, <1>1 DEF YamnInv, Stopped, Gone
<1>9. Left'
  <2>1. SUFFICES ASSUME NEW s \in Thread, pc'[s] # "idle", Gone(acc[s])' PROVE Unwaited(s)'
    BY DEF Left
  <2>2. pc[s] # "idle" /\ Gone(acc[s]) /\ Unwaited(s)
    BY <1>0, <1>1, <2>1 DEF YamnInv, Left, Gone
  <2>3. QED
    BY <1>0, <1>1, <2>2 DEF Unwaited, Gone, a
<1>10. QED
  BY <1>3, <1>4, <1>5, <1>6, <1>7, <1>8, <1>9 DEF YamnInv

LEMMA UncountKeeps == ASSUME YamnInv, NEW t \in Thread, Uncount(t) PROVE YamnInv'
<1> USE Distinct DEF life, count, self
<1> DEFINE a == acc[t]
<1>0. /\ pc[t] = "dec" /\ pc' = [pc EXCEPT ![t] = "idle"] /\ a \in Account
      /\ number' = [number EXCEPT ![a] = @ - 1] /\ event' = [event EXCEPT ![a] = @ \/ DecZero(a)]
      /\ acc' = [acc EXCEPT ![t] = None] /\ kind' = [kind EXCEPT ![t] = "none"]
      /\ UNCHANGED <<life, internet, regCS, by>> /\ stray' = stray \ {t}
      /\ pc \in [Thread \cup Caller -> Place] /\ "idle" \in Place /\ t \in Thread \cup Caller
      /\ number \in [Account -> Nat] /\ event \in [Account -> BOOLEAN]
      /\ kind \in [Thread -> {"none", "check", "browser", "error", "message"}]
      /\ acc \in [Thread \cup {Main} -> Account \cup {None}]
  BY DEF YamnInv, Placed, Typed, Place, Uncount, Go
<1>1. /\ pc'[t] = "idle" /\ \A s \in Thread \cup Caller : s # t => pc'[s] = pc[s]
      /\ \A s \in Thread : s # t => acc'[s] = acc[s] /\ kind'[s] = kind[s]
      /\ pc'[Main] = pc[Main] /\ pc'[HotKey] = pc[HotKey] /\ acc'[Main] = acc[Main]
  BY <1>0
<1> HIDE DEF a
<1>2. /\ number[a] = Cardinality(Counted(a)) /\ number[a] >= 1 /\ t \in Counted(a)
      /\ ~event[a] /\ (number[a] = 1 => Counted(a) = {t})
  <2>1. t \in Counted(a)
    BY <1>0 DEF Counted, a
  <2>2. number[a] = Cardinality(Counted(a)) /\ ~event[a]
    BY <1>0, <2>1 DEF YamnInv, Counts
  <2>3. number[a] = 1 => \E x : Counted(a) = {x}
    BY <1>0, <2>2, CountedIs, FS_Singleton
  <2>4. Cardinality(Counted(a)) # 0
    BY <1>0, <2>1, CountedIs
  <2>5. QED
    BY <1>0, <2>1, <2>2, <2>3, <2>4, CountedIs
<1>3. Placed'
  BY <1>0, <1>1 DEF YamnInv, Placed, CheckPlace
<1>4. Typed'
  <2>1. number' \in [Account -> Nat]
    BY <1>0, <1>2
  <2>2. event' \in [Account -> BOOLEAN]
    BY <1>0 DEF DecZero
  <2>3. \A s \in Thread : pc'[s] # "idle" => acc'[s] \in Account
    BY <1>1 DEF YamnInv, Typed
  <2>4. kind' \in [Thread -> {"none", "check", "browser", "error", "message"}]
        /\ acc' \in [Thread \cup {Main} -> Account \cup {None}] /\ stray' \subseteq Thread
    BY <1>0 DEF YamnInv, Typed
  <2>5. QED
    BY <1>0, <2>1, <2>2, <2>3, <2>4 DEF YamnInv, Typed
<1>5. Guarded'
  BY <1>0, <1>1 DEF YamnInv, Guarded, Holding
<1>6. Awaited'
  <2>1. SUFFICES ASSUME NEW s \in Thread, pc'[s] = "started" PROVE Expected(s)'
    BY DEF Awaited
  <2>2. s # t /\ Expected(s)
    BY <1>1, <2>1 DEF YamnInv, Awaited
  <2>3. by[s] # t
    BY <1>0, <2>2 DEF Expected
  <2>4. QED
    BY <1>0, <1>1, <2>2, <2>3 DEF Expected
<1>7. Counts'
  <2>1. SUFFICES ASSUME NEW b \in Account
                 PROVE  /\ number'[b] = Cardinality(Counted(b)')
                        /\ event'[b] => Counted(b)' = {}
    BY DEF Counts
  <2>2. CASE b = a
    <3>1. Counted(b)' = Counted(b) \ {t} /\ t \in Counted(b)
      BY <1>0, <1>1, <1>2, <2>2 DEF Counted, a
    <3>2. Cardinality(Counted(b)') = Cardinality(Counted(b)) - 1
      BY <3>1, CountedIs, FS_RemoveElement
    <3>3. event'[b] => number[a] = 1
      BY <1>0, <1>2, <2>2 DEF DecZero
    <3>4. QED
      BY <1>0, <1>2, <2>2, <3>1, <3>2, <3>3
  <2>3. CASE b # a
    <3>1. Counted(b)' = Counted(b)
      BY <1>0, <1>1, <2>3 DEF Counted, a
    <3>2. QED
      BY <1>0, <2>3, <3>1 DEF YamnInv, Counts
  <2>4. QED
    BY <2>2, <2>3
<1>8. Stopped'
  BY <1>0, <1>1 DEF YamnInv, Stopped, Gone
<1>9. Left'
  BY <1>0, <1>1 DEF YamnInv, Left, Unwaited, Gone
<1>10. QED
  BY <1>3, <1>4, <1>5, <1>6, <1>7, <1>8, <1>9 DEF YamnInv

(* A thread that is to show a message is started, and nobody waits for it.     *)
LEMMA OpenMessageKeeps == ASSUME YamnInv, NEW t \in Thread, OpenMessage(t) PROVE YamnInv'
<1> USE Distinct DEF life, count
<1>0. PICK w \in Window : Begin(w, "message", acc[t], None) /\ pc' = [pc EXCEPT ![w] = "started"]
  BY DEF OpenMessage
<1>1. /\ pc \in [Thread \cup Caller -> Place] /\ "started" \in Place /\ w \in Thread /\ pc[w] = "idle"
      /\ kind \in [Thread -> {"none", "check", "browser", "error", "message"}]
      /\ acc \in [Thread \cup {Main} -> Account \cup {None}] /\ acc[t] \in Account /\ pc[t] = "open"
      /\ by \in [Thread -> Thread \cup Caller \cup {None}]
      /\ kind' = [kind EXCEPT ![w] = "message"] /\ acc' = [acc EXCEPT ![w] = acc[t]]
      /\ by' = [by EXCEPT ![w] = None] /\ UNCHANGED stray
      /\ UNCHANGED <<life, count, internet, regCS>>
  BY <1>0 DEF YamnInv, Placed, Typed, Place, OpenMessage, Begin, Thread
<1>2. /\ pc'[w] = "started" /\ \A s \in Thread \cup Caller : s # w => pc'[s] = pc[s]
      /\ kind'[w] = "message" /\ acc'[w] = acc[t] /\ by'[w] = None
      /\ \A s \in Thread : s # w => kind'[s] = kind[s] /\ acc'[s] = acc[s] /\ by'[s] = by[s]
      /\ pc'[Main] = pc[Main] /\ pc'[HotKey] = pc[HotKey] /\ acc'[Main] = acc[Main]
  BY <1>0, <1>1
<1>3. Placed'
  BY <1>0, <1>1, <1>2 DEF YamnInv, Placed, CheckPlace
<1>4. Typed'
  BY <1>1, <1>2 DEF YamnInv, Typed
<1>5. Guarded'
  BY <1>1, <1>2 DEF YamnInv, Guarded, Holding
<1>6. Awaited'
  <2>1. SUFFICES ASSUME NEW s \in Thread, pc'[s] = "started" PROVE Expected(s)'
    BY DEF Awaited
  <2>2. CASE s = w
    BY <1>2, <2>2 DEF Expected
  <2>3. CASE s # w
    <3>1. Expected(s) /\ by[s] # w
      BY <1>1, <1>2, <2>1, <2>3 DEF YamnInv, Awaited, Expected
    <3>2. QED
      BY <1>1, <1>2, <2>3, <3>1 DEF Expected
  <2>4. QED
    BY <2>2, <2>3
<1>7. Counts'
  BY <1>1, <1>2, CountsSame DEF YamnInv
<1>8. Stopped'
  BY <1>1, <1>2 DEF YamnInv, Stopped, Gone
<1>9. Left'
  BY <1>1, <1>2 DEF YamnInv, Left, Unwaited, Gone
<1>10. QED
  BY <1>3, <1>4, <1>5, <1>6, <1>7, <1>8, <1>9 DEF YamnInv

-----------------------------------------------------------------------------
(* Stopping and deleting.  When there is nobody who counts or is waited for,   *)
(* only those remain who show a message.                                       *)
LEMMA NobodyLeft ==
    ASSUME YamnInv, NEW a \in Account, event[a],
           NEW t \in Thread, pc[t] # "idle", acc[t] = a,
           a \in listed => regCS = Main /\ pc[Main] = "waiting"
    PROVE  Unwaited(t)
<1> USE Distinct
<1>1. Counted(a) = {}
  BY DEF YamnInv, Counts
<1>2. pc[t] = "started"
  BY <1>1 DEF Counted
<1>3. Expected(t)
  BY <1>2 DEF YamnInv, Awaited
<1>4. ~(by[t] \in Thread /\ pc[by[t]] \in {"browsing", "reporting", "fetching"} /\ acc[by[t]] = acc[t])
  BY <1>1 DEF Counted
<1>5. ~(by[t] \in Caller /\ pc[by[t]] \in {"starting", "showing"} /\ acc[t] \in listed)
  <2>1. SUFFICES ASSUME by[t] \in Caller, pc[by[t]] \in {"starting", "showing"}, acc[t] \in listed
                 PROVE  FALSE
    OBVIOUS
  <2>2. by[t] = HotKey /\ pc[HotKey] = "starting"
    BY <2>1 DEF YamnInv, Placed, Caller
  <2>3. regCS = HotKey
    BY <2>2 DEF YamnInv, Guarded, Holding
  <2>4. QED
    BY <2>1, <2>3
<1>6. QED
  BY <1>2, <1>3, <1>4, <1>5 DEF Expected, Unwaited

LEMMA StopKeeps ==
    ASSUME YamnInv, NEW A, A \subseteq listed, NEW at, StopSignal(A, at),
           \/ /\ at = "unlinking" /\ pc[Main] = "idle" /\ acc'[Main] \in A
              /\ acc' = [acc EXCEPT ![Main] = acc'[Main]]
           \/ at = "deleting" /\ pc[Main] = "stopping" /\ A = listed /\ UNCHANGED acc,
           UNCHANGED <<listed, freed, deleter, passed, count, internet, regCS, kind, by, stray>>
    PROVE  YamnInv'
<1> USE Distinct DEF count
<1>0. /\ pc \in [Thread \cup Caller -> Place] /\ at \in Place /\ "told" \in Place
      /\ A \subseteq Account /\ finish' = finish \cup A
      /\ acc \in [Thread \cup {Main} -> Account \cup {None}]
      /\ pc' = [t \in Thread \cup Caller |-> IF t = Main THEN at
                       ELSE IF t \in Thread /\ Hears(t, A) THEN "told" ELSE pc[t]]
  BY DEF YamnInv, Placed, Typed, Place, StopSignal
<1>1. /\ pc'[Main] = at /\ pc'[HotKey] = pc[HotKey]
      /\ \A s \in Thread : pc'[s] = pc[s] \/ (pc[s] = "open" /\ pc'[s] = "told")
      /\ \A s \in Thread : acc'[s] = acc[s]
  BY <1>0 DEF Hears
<1>3. Placed'
  <2>1. pc' \in [Thread \cup Caller -> Place]
    BY <1>0
  <2>2. QED
    BY <1>1, <2>1 DEF YamnInv, Placed, CheckPlace, WindowPlace, MainPlace
<1>4. Typed'
  <2>1. acc' \in [Thread \cup {Main} -> Account \cup {None}]
    BY <1>0
  <2>2. QED
    BY <1>0, <1>1, <2>1 DEF YamnInv, Typed
<1>5. Guarded'
  BY <1>1 DEF YamnInv, Guarded, Holding, Caller
<1>6. Awaited'
  <2>1. SUFFICES ASSUME NEW s \in Thread, pc'[s] = "started" PROVE Expected(s)'
    BY DEF Awaited
  <2>2. pc[s] = "started" /\ Expected(s)
    BY <1>1, <2>1 DEF YamnInv, Awaited
  <2>3. by[s] # Main
    BY <2>2 DEF Expected
  <2>4. by[s] \in Thread /\ pc[by[s]] \in {"browsing", "reporting", "fetching"} => pc'[by[s]] = pc[by[s]]
    BY <1>1
  <2>5. QED
    BY <1>1, <2>2, <2>3, <2>4 DEF Expected, Caller
<1>7. Counts'
  BY <1>1, CountsSame DEF YamnInv
<1>8. Stopped'
  BY <1>0, <1>1 DEF YamnInv, Stopped, Gone
<1>9. Left'
  BY <1>1 DEF YamnInv, Left, Unwaited, Gone
<1>10. QED
  BY <1>3, <1>4, <1>5, <1>6, <1>7, <1>8, <1>9 DEF YamnInv

LEMMA UnlinkKeeps == ASSUME YamnInv, Unlink PROVE YamnInv'
<1> USE Distinct DEF count
<1> DEFINE a == acc[Main]
<1>0. /\ pc[Main] = "unlinking" /\ pc' = [pc EXCEPT ![Main] = "idle"] /\ a \in finish /\ a \in Account
      /\ listed' = listed \ {a} /\ deleter' = [deleter EXCEPT ![a] = "waiting"]
      /\ acc' = [acc EXCEPT ![Main] = None] /\ pc[HotKey] \notin {"loop", "starting"}
      /\ UNCHANGED <<finish, freed, passed, count, internet, regCS, kind, by, stray>>
      /\ pc \in [Thread \cup Caller -> Place] /\ "idle" \in Place
      /\ deleter \in [Account -> {"none", "waiting", "freeing"}]
      /\ acc \in [Thread \cup {Main} -> Account \cup {None}]
  BY DEF YamnInv, Placed, Typed, Place, Stopped, Unlink, Go, BrowserFree, NobodyBrowses
<1>1. /\ pc'[Main] = "idle" /\ pc'[HotKey] = pc[HotKey]
      /\ \A s \in Thread : pc'[s] = pc[s] /\ acc'[s] = acc[s]
      /\ deleter'[a] = "waiting" /\ \A b \in Account : b # a => deleter'[b] = deleter[b]
  BY <1>0
<1> HIDE DEF a
<1>3. Placed'
  BY <1>0, <1>1 DEF YamnInv, Placed, CheckPlace
<1>4. Typed'
  BY <1>0, <1>1 DEF YamnInv, Typed
<1>5. Guarded'
  BY <1>0, <1>1 DEF YamnInv, Guarded, Holding, Caller
<1>6. Awaited'
  <2>1. SUFFICES ASSUME NEW s \in Thread, pc'[s] = "started" PROVE Expected(s)'
    BY DEF Awaited
  <2>2. Expected(s)
    BY <1>1, <2>1 DEF YamnInv, Awaited
  <2>3. ~(by[s] \in Caller /\ pc[by[s]] \in {"starting", "showing"})
    BY <1>0 DEF YamnInv, Placed, Caller
  <2>4. QED
    BY <1>0, <1>1, <2>2, <2>3 DEF Expected
<1>7. Counts'
  BY <1>0, <1>1, CountsSame DEF YamnInv
<1>8. Stopped'
  BY <1>0, <1>1 DEF YamnInv, Stopped, Gone
<1>9. Left'
  <2>1. SUFFICES ASSUME NEW s \in Thread, pc'[s] # "idle", Gone(acc[s])' PROVE Unwaited(s)'
    BY <1>1 DEF Left, Gone
  <2>2. Gone(acc[s])
    <3>1. acc[s] \in Account
      BY <1>1, <2>1 DEF YamnInv, Typed
    <3>2. QED
      BY <1>0, <1>1, <2>1, <3>1 DEF Gone
  <2>3. QED
    BY <1>0, <1>1, <2>1, <2>2 DEF YamnInv, Left, Unwaited
<1>10. QED
  BY <1>3, <1>4, <1>5, <1>6, <1>7, <1>8, <1>9 DEF YamnInv

LEMMA UnusedKeeps == ASSUME YamnInv, NEW a \in Account, Unused(a) PROVE YamnInv'
<1> USE Distinct DEF self
<1>0. /\ deleter[a] = "waiting" /\ event[a] /\ a \in finish /\ a \notin listed
      /\ deleter' = [deleter EXCEPT ![a] = "freeing"] /\ event' = [event EXCEPT ![a] = FALSE]
      /\ UNCHANGED <<finish, listed, freed, passed, number, internet, regCS, pc, self>>
      /\ deleter \in [Account -> {"none", "waiting", "freeing"}] /\ event \in [Account -> BOOLEAN]
  BY DEF YamnInv, Typed, Stopped, Unused
<1>3. Placed' /\ Guarded' /\ Awaited'
  BY <1>0 DEF YamnInv, Placed, Guarded, Awaited, Expected
<1>4. Typed'
  BY <1>0 DEF YamnInv, Typed
<1>7. Counts'
  BY <1>0, CountsSame DEF YamnInv
<1>8. Stopped'
  BY <1>0 DEF YamnInv, Stopped, Gone
<1>9. Left'
  <2>1. SUFFICES ASSUME NEW s \in Thread, pc[s] # "idle", Gone(acc[s])' PROVE Unwaited(s)'
    BY <1>0 DEF Left, Gone
  <2>2. acc[s] = a \/ Gone(acc[s])
    <3>1. acc[s] \in Account
      BY <2>1 DEF YamnInv, Typed
    <3>2. QED
      BY <1>0, <2>1, <3>1 DEF Gone
  <2>3. Unwaited(s)
    BY <1>0, <2>1, <2>2, NobodyLeft DEF YamnInv, Left
  <2>4. QED
    BY <1>0, <2>3 DEF Unwaited
<1>10. QED
  BY <1>3, <1>4, <1>7, <1>8, <1>9 DEF YamnInv

LEMMA FreeKeeps == ASSUME YamnInv, NEW a \in Account, Free(a) PROVE YamnInv'
<1> USE Distinct DEF self, count
<1>0. /\ deleter[a] = "freeing" /\ deleter' = [deleter EXCEPT ![a] = "none"] /\ freed' = freed \cup {a}
      /\ UNCHANGED <<finish, listed, passed, count, internet, regCS, pc, self>>
      /\ deleter \in [Account -> {"none", "waiting", "freeing"}] /\ a \in finish
  BY DEF YamnInv, Typed, Stopped, Gone, Free
<1>1. \A b \in Account : Gone(b)' <=> Gone(b)
  BY <1>0 DEF Gone
<1>3. Placed' /\ Guarded' /\ Awaited'
  BY <1>0 DEF YamnInv, Placed, Guarded, Awaited, Expected
<1>4. Typed'
  BY <1>0 DEF YamnInv, Typed
<1>7. Counts'
  BY <1>0, CountsSame DEF YamnInv
<1>8. Stopped'
  BY <1>0 DEF YamnInv, Stopped, Gone
<1>9. Left'
  <2>1. SUFFICES ASSUME NEW s \in Thread, pc[s] # "idle", Gone(acc[s])' PROVE Unwaited(s)'
    BY <1>0 DEF Left, Gone
  <2>2. acc[s] \in Account
    BY <2>1 DEF YamnInv, Typed
  <2>3. Gone(acc[s])
    BY <1>0, <2>1, <2>2 DEF Gone
  <2>4. QED
    BY <1>0, <2>1, <2>3 DEF YamnInv, Left, Unwaited
<1>10. QED
  BY <1>3, <1>4, <1>7, <1>8, <1>9 DEF YamnInv

LEMMA WaitForKeeps == ASSUME YamnInv, NEW a \in Account, WaitFor(a) PROVE YamnInv'
<1> USE Distinct DEF self, count
<1>0. /\ pc[Main] = "waiting" /\ regCS = Main /\ a \in listed /\ a \in finish /\ event[a]
      /\ passed' = passed \cup {a}
      /\ UNCHANGED <<finish, listed, freed, deleter, count, internet, regCS, pc, self>>
  BY DEF YamnInv, Stopped, Guarded, Holding, WaitFor
<1>3. Placed' /\ Guarded' /\ Awaited'
  BY <1>0 DEF YamnInv, Placed, Guarded, Awaited, Expected
<1>4. Typed'
  BY <1>0 DEF YamnInv, Typed
<1>7. Counts'
  BY <1>0, CountsSame DEF YamnInv
<1>8. Stopped'
  BY <1>0 DEF YamnInv, Stopped, Gone
<1>9. Left'
  <2>1. SUFFICES ASSUME NEW s \in Thread, pc[s] # "idle", Gone(acc[s])' PROVE Unwaited(s)'
    BY <1>0 DEF Left, Gone
  <2>2. acc[s] = a \/ Gone(acc[s])
    BY <1>0, <2>1 DEF Gone
  <2>3. Unwaited(s)
    BY <1>0, <2>1, <2>2, NobodyLeft DEF YamnInv, Left
  <2>4. QED
    BY <1>0, <2>3 DEF Unwaited
<1>10. QED
  BY <1>3, <1>4, <1>7, <1>8, <1>9 DEF YamnInv

LEMMA DeleteAllKeeps == ASSUME YamnInv, DeleteAll PROVE YamnInv'
<1> USE Distinct DEF self, count
<1>0. /\ pc[Main] = "waiting" /\ regCS = Main /\ passed = listed /\ listed \subseteq finish
      /\ pc' = [pc EXCEPT ![Main] = "ended"] /\ freed' = freed \cup listed /\ listed' = {} /\ regCS' = None
      /\ UNCHANGED <<finish, deleter, passed, count, internet, self>>
      /\ pc \in [Thread \cup Caller -> Place] /\ "ended" \in Place
  BY DEF YamnInv, Placed, Place, Stopped, Guarded, Holding, DeleteAll, Go
<1>1. /\ pc'[Main] = "ended" /\ \A s \in Thread \cup Caller : s # Main => pc'[s] = pc[s]
      /\ pc'[HotKey] = pc[HotKey] /\ \A s \in Thread : pc'[s] = pc[s]
  BY <1>0
<1>2. \A s \in Thread \cup Caller : s # Main => pc[s] \notin Holding
  BY <1>0 DEF YamnInv, Guarded
<1>3. Placed'
  BY <1>0, <1>1 DEF YamnInv, Placed, MainPlace
<1>4. Typed'
  BY <1>0, <1>1 DEF YamnInv, Typed
<1>5. Guarded'
  BY <1>1, <1>2 DEF Guarded, Holding
<1>6. Awaited'
  <2>1. SUFFICES ASSUME NEW s \in Thread, pc'[s] = "started" PROVE Expected(s)'
    BY DEF Awaited
  <2>2. Expected(s)
    BY <1>1, <2>1 DEF YamnInv, Awaited
  <2>3. ~(by[s] \in Caller /\ pc[by[s]] \in {"starting", "showing"})
    BY <1>0, <1>2 DEF YamnInv, Placed, Caller, Holding
  <2>4. QED
    BY <1>0, <1>1, <2>2, <2>3 DEF Expected
<1>7. Counts'
  BY <1>0, <1>1, CountsSame DEF YamnInv
<1>8. Stopped'
  BY <1>0, <1>1 DEF YamnInv, Stopped, Gone
<1>9. Left'
  <2>1. SUFFICES ASSUME NEW s \in Thread, pc[s] # "idle", Gone(acc[s])' PROVE Unwaited(s)'
    BY <1>0, <1>1 DEF Left, Gone
  <2>2. Gone(acc[s])
    BY <1>0, <2>1 DEF Gone
  <2>3. QED
    BY <1>0, <1>1, <2>1, <2>2 DEF YamnInv, Left, Unwaited
<1>10. QED
  BY <1>3, <1>4, <1>5, <1>6, <1>7, <1>8, <1>9 DEF YamnInv

-----------------------------------------------------------------------------
(* The premises of Walk, of a thread that nobody waits for and that only goes  *)
(* on to the place x.                                                          *)
Walks(t, x) ==
    /\ pc[t] \notin {"idle", "started"} \cup Creating
    /\ pc' = [pc EXCEPT ![t] = x]
    /\ x \in {"dec"} \cup CheckPlace \cup WindowPlace /\ x # "fetching"
    /\ x \in CheckPlace => kind[t] = "check"
    /\ internet' \in [Account -> BOOLEAN]
    /\ UNCHANGED <<life, count, regCS, self>>

LEMMA WalkKeeps == ASSUME YamnInv, NEW t \in Thread, NEW x, Walks(t, x) PROVE YamnInv'
BY Walk DEF Walks

LEMMA CheckKeeps == ASSUME YamnInv, NEW t \in Thread, Check(t) PROVE YamnInv'
<1> USE Distinct DEF Go
<1>0. /\ internet \in [Account -> BOOLEAN] /\ (pc[t] # "idle" => acc[t] \in Account)
      /\ pc[t] \in CheckPlace => kind[t] = "check" /\ ~Gone(acc[t])
  BY NotGone DEF YamnInv, Placed, Typed
<1> USE DEF Walks, CheckPlace, WindowPlace, Creating
<1>1. Look(t) => Walks(t, "dec") \/ Walks(t, "queued")
  BY <1>0 DEF Look
<1>2. Connect(t) => Walks(t, "dec") \/ Walks(t, "online")
  BY <1>0 DEF Connect
<1>3. (Done(t) => Walks(t, "checked")) /\ (Reported(t) => Walks(t, "release")) /\ (Release(t) => Walks(t, "dec"))
  BY <1>0 DEF Done, Reported, Release, GiveBack
<1>4. Fail(t) => Walks(t, "failed") \/ Walks(t, "release")
  BY <1>0 DEF Fail
<1>5. Browse(t) => Walks(t, "dec") \/ \E w \in Window : Start(w, "browser", acc[t], t, "browsing")
  BY <1>0 DEF Browse
<1>6. PostError(t) => Walks(t, "reported") \/ \E w \in Window : Start(w, "error", acc[t], t, "reporting")
  BY <1>0 DEF PostError
<1>7. CASE Browse(t) /\ \E w \in Window : Start(w, "browser", acc[t], t, "browsing")
  <2>1. PICK w \in Window : Start(w, "browser", acc[t], t, "browsing")
    BY <1>7
  <2>2. /\ w \in Thread /\ acc[t] \in Account /\ ~Gone(acc[t]) /\ kind[t] = "check"
        /\ "browsing" \in Creating /\ "browsing" \notin Holding
        /\ pc[t] \notin {"idle", "started"} \cup Creating /\ UNCHANGED <<life, count, internet, regCS>>
    BY <1>0, <1>7 DEF Browse, Holding, Thread
  <2> HIDE DEF Creating
  <2>3. QED
    BY <2>1, <2>2, Starts
<1>8. CASE PostError(t) /\ \E w \in Window : Start(w, "error", acc[t], t, "reporting")
  <2>1. PICK w \in Window : Start(w, "error", acc[t], t, "reporting")
    BY <1>8
  <2>2. /\ w \in Thread /\ acc[t] \in Account /\ ~Gone(acc[t]) /\ kind[t] = "check"
        /\ "reporting" \in Creating /\ "reporting" \notin Holding /\ "reporting" # "fetching"
        /\ "error" \in {"check", "browser", "error"}
        /\ pc[t] \notin {"idle", "started"} \cup Creating /\ UNCHANGED <<life, count, internet, regCS>>
    BY <1>0, <1>8 DEF PostError, Holding, Thread
  <2> HIDE DEF Creating
  <2>3. QED
    BY <2>1, <2>2, Starts
<1> HIDE DEF Walks
<1>9. QED
  BY <1>1, <1>2, <1>3, <1>4, <1>5, <1>6, <1>7, <1>8, WalkKeeps DEF Check

LEMMA ShowKeeps == ASSUME YamnInv, NEW t \in Thread, Show(t) \/ Close(t) PROVE YamnInv'
<1> USE Distinct DEF Go
<1>0. internet \in [Account -> BOOLEAN] /\ (pc[t] # "idle" => acc[t] \in Account)
  BY DEF YamnInv, Typed
<1> USE DEF Walks, CheckPlace, WindowPlace, Creating
<1>1. LookBrowser(t) => Walks(t, "dec") \/ Walks(t, "create") \/ Walks(t, "closing")
  BY <1>0 DEF LookBrowser
<1>2. LookError(t) => Walks(t, "dec") \/ Walks(t, "open")
  BY <1>0 DEF LookError
<1>3. LookMessage(t) => Walks(t, "asking") \/ Walks(t, "opening")
  BY <1>0 DEF LookMessage
<1>4. Create(t) => Walks(t, "closing") \/ Walks(t, "opening")
  BY <1>0 DEF Create
<1>5. (Open(t) => Walks(t, "open")) /\ (Quit(t) => Walks(t, "closing")) /\ (WriteAccounts(t) => Walks(t, "dec"))
  BY <1>0 DEF Open, Quit, WriteAccounts
<1>6. Closing(t) => Walks(t, "saving") \/ Walks(t, "dec")
  BY <1>0 DEF Closing
<1>7. Close(t) => Walks(t, "hung") \/ Walks(t, "closing")
  BY <1>0 DEF Close
<1>8. AccountMailCheck(t) => \/ Walks(t, "opening")
                             \/ \E c \in Checker : Start(c, "check", acc[t], t, "fetching") /\ regCS' = t /\ acc[t] \notin finish
  BY <1>0 DEF AccountMailCheck
<1>9. CASE AccountMailCheck(t) /\ \E c \in Checker : Start(c, "check", acc[t], t, "fetching") /\ regCS' = t /\ acc[t] \notin finish
  <2>1. PICK c \in Checker : Start(c, "check", acc[t], t, "fetching")
    BY <1>9
  <2>2. /\ c \in Thread /\ acc[t] \in Account /\ ~Gone(acc[t]) /\ "fetching" \in Creating
        /\ pc[t] \notin {"idle", "started"} \cup Creating /\ UNCHANGED <<life, count, internet>>
        /\ regCS = None /\ regCS' = t
    BY <1>0, <1>9, NotGone DEF AccountMailCheck, Thread
  <2> HIDE DEF Creating
  <2>3. QED
    BY <2>1, <2>2, Starts
<1> HIDE DEF Walks
<1>10. QED
  BY <1>1, <1>2, <1>3, <1>4, <1>5, <1>6, <1>7, <1>8, <1>9, WalkKeeps DEF Show

LEMMA ResumeKeeps == ASSUME YamnInv, NEW p \in Thread \cup Caller, Resume(p) PROVE YamnInv'
<1> USE Distinct DEF life, count, self
<1>1. /\ DOMAIN Then = {"browsing", "reporting", "fetching", "starting", "showing"}
      /\ Then["browsing"] = "dec" /\ Then["reporting"] = "reported" /\ Then["fetching"] = "opening"
      /\ Then["starting"] = "loop" /\ Then["showing"] = "idle"
  BY DEF Then
<1>2. /\ pc' = [pc EXCEPT ![p] = Then[pc[p]]] /\ pc[p] \in DOMAIN Then /\ ~Counting(p)
      /\ regCS' = IF pc[p] = "fetching" THEN None ELSE regCS
      /\ UNCHANGED <<life, count, internet, self>> /\ internet \in [Account -> BOOLEAN]
  BY DEF YamnInv, Typed, Resume, ThreadRunning
<1>3. CASE p \in Thread
  <2>1. pc[p] \in Creating /\ pc[p] = "fetching" => regCS = p
    BY <1>1, <1>2, <1>3 DEF YamnInv, Placed, CheckPlace, WindowPlace, Creating, Guarded, Holding
  <2>2. pc[p] \in Creating
    BY <1>1, <1>2, <1>3 DEF YamnInv, Placed, CheckPlace, WindowPlace, Creating
  <2>3. pc[p] = "reporting" => kind[p] = "check"
    BY <1>3 DEF YamnInv, Placed, CheckPlace
  <2>4. QED
    BY <1>1, <1>2, <1>3, <2>1, <2>2, <2>3, Walk DEF Creating, CheckPlace, WindowPlace
<1>4. CASE p \in Caller
  <2>1. (pc[p] = "starting" /\ regCS = p) \/ (p = Main /\ pc[p] = "showing")
    BY <1>1, <1>2, <1>4 DEF YamnInv, Placed, MainPlace, Caller, Guarded, Holding
  <2>2. QED
    BY <1>1, <1>2, <1>4, <2>1, CallerGoes DEF Holding
<1>5. QED
  BY <1>3, <1>4

LEMMA CallerKeeps ==
    ASSUME YamnInv, NEW p \in Caller, Enter(p) \/ ForceCheck(p) \/ Leave(p)
    PROVE  YamnInv'
<1> USE Distinct DEF life, count, self, Go
<1>1. CASE Enter(p)
  BY <1>1, CallerGoes DEF Enter
<1>2. CASE Leave(p)
  <2>1. regCS = p /\ pc[p] = "loop"
    BY <1>2 DEF YamnInv, Guarded, Holding, Leave
  <2>2. QED
    BY <1>2, <2>1, CallerGoes DEF Leave, Holding
<1>3. CASE ForceCheck(p)
  <2>1. PICK a \in listed \ finish, t \in Checker : Start(t, "check", a, p, "starting")
    BY <1>3 DEF ForceCheck
  <2>2. a \in Account /\ ~Gone(a) /\ t \in Thread /\ pc[p] = "loop" /\ regCS' = p
    BY <1>3, <2>1, NotGone DEF YamnInv, Typed, Guarded, Holding, ForceCheck, Thread
  <2>3. QED
    BY <1>3, <2>1, <2>2, Starts DEF ForceCheck
<1>4. QED
  BY <1>1, <1>2, <1>3

LEMMA UserKeeps == ASSUME YamnInv, User PROVE YamnInv'
<1> USE Distinct DEF life, count, self, Go
<1>1. CASE \E p \in Caller : Enter(p) \/ ForceCheck(p)
  BY <1>1, CallerKeeps
<1>2. CASE ContactDoubleclicked
  <2>1. PICK a \in listed \ finish, w \in Window : Start(w, "browser", a, Main, "showing")
    BY <1>2 DEF ContactDoubleclicked
  <2>2. a \in Account /\ ~Gone(a) /\ w \in Thread
    BY <2>1, NotGone DEF YamnInv, Typed, Thread
  <2>3. QED
    BY <1>2, <2>1, <2>2, Starts DEF ContactDoubleclicked, Holding
<1>3. CASE Shutdown
  BY <1>3, CallerGoes DEF Shutdown
<1>4. CASE \E a \in Account : DeleteAccount(a)
  <2>1. PICK a \in Account : DeleteAccount(a)
    BY <1>4
  <2>2. acc'[Main] = a
    BY <2>1 DEF DeleteAccount, YamnInv, Typed
  <2>3. QED
    BY <2>1, <2>2, StopKeeps DEF DeleteAccount
<1>5. CASE \E t \in Window : OpenMessage(t) \/ Close(t)
  BY <1>5, OpenMessageKeeps, ShowKeeps DEF Thread
<1>6. QED
  BY <1>1, <1>2, <1>3, <1>4, <1>5 DEF User

LEMMA ExitKeeps == ASSUME YamnInv, Exit PROVE YamnInv'
<1> USE Distinct
<1>1. CASE StopAccounts
  BY <1>1, StopKeeps DEF StopAccounts, self
<1>2. CASE DeleteAccounts
  <2>1. regCS = Main
    BY <1>2 DEF YamnInv, Guarded, Holding, DeleteAccounts, Go
  <2>2. QED
    BY <1>2, <2>1, CallerGoes DEF DeleteAccounts, Go, life, count, self
<1>3. QED
  BY <1>1, <1>2, WaitForKeeps, DeleteAllKeeps DEF Exit

-----------------------------------------------------------------------------
LEMMA InitGood == YamnInit => YamnInv
<1> SUFFICES ASSUME YamnInit PROVE YamnInv
  OBVIOUS
<1> USE Distinct DEF YamnInit
<1>1. \A t \in Thread : pc[t] = "idle"
  OBVIOUS
<1>2. Placed
  BY <1>1 DEF Placed, Place, CheckPlace
<1>3. Typed
  BY <1>1 DEF Typed
<1>4. Guarded /\ Awaited /\ Left
  BY <1>1 DEF Guarded, Holding, Awaited, Left
<1>5. Counts
  <2>1. \A a \in Account : Counted(a) = {}
    BY <1>1 DEF Counted
  <2>2. QED
    BY <2>1, FS_EmptySet DEF Counts
<1>6. Stopped
  BY DEF Stopped, Gone
<1>7. QED
  BY <1>2, <1>3, <1>4, <1>5, <1>6 DEF YamnInv

LEMMA StepGood == YamnInv /\ [YamnNext]_yamnVars => YamnInv'
<1> SUFFICES ASSUME YamnInv, [YamnNext]_yamnVars PROVE YamnInv'
  OBVIOUS
<1>1. CASE User
  BY <1>1, UserKeeps
<1>2. CASE \E t \in Thread : Step(t)
  BY <1>2, CountKeeps, UncountKeeps, CheckKeeps, ShowKeeps, ResumeKeeps DEF Step
<1>3. CASE \E p \in Caller : Return(p)
  BY <1>3, ResumeKeeps, CallerKeeps DEF Return
<1>4. CASE Unlink \/ Exit
  BY <1>4, UnlinkKeeps, ExitKeeps
<1>5. CASE \E a \in Account : Unused(a) \/ Free(a)
  BY <1>5, UnusedKeeps, FreeKeeps
<1>6. CASE UNCHANGED yamnVars
  <2>1. UNCHANGED <<finish, listed, freed, deleter, passed, number, event, internet, regCS, pc,
                    kind, acc, by, stray>>
    BY <1>6 DEF yamnVars, life, count, self
  <2>2. \A a : Counted(a)' = Counted(a)
    BY <2>1 DEF Counted
  <2>3. QED
    BY <2>1, <2>2 DEF YamnInv, Placed, Typed, Guarded, Awaited, Expected, Counts, Stopped, Left,
                      Gone, Unwaited
<1>7. QED
  BY <1>1, <1>2, <1>3, <1>4, <1>5, <1>6 DEF YamnNext

(* The inductive invariant: UsingThreads counts those who use an account, its  *)
(* event says truly that there are none, and who is started is waited for by   *)
(* one who is counted himself, or holds the account in the list.               *)
THEOREM AccountInvariant == YamnSpec => []YamnInv
BY InitGood, StepGood, PTL DEF YamnSpec

(* The variables keep their types; a counter never exceeds the threads.        *)
THEOREM YamnTypeCorrect == YamnSpec => []YamnTypeOK
<1>1. YamnInv => YamnTypeOK
  <2> SUFFICES ASSUME YamnInv PROVE YamnTypeOK
    OBVIOUS
  <2>1. \A a \in Account : number[a] \in 0 .. Cardinality(Thread)
    <3> SUFFICES ASSUME NEW a \in Account PROVE number[a] \in 0 .. Cardinality(Thread)
      OBVIOUS
    <3>1. number[a] = Cardinality(Counted(a))
      BY DEF YamnInv, Counts
    <3>2. QED
      BY <3>1, CountedIs
  <2>2. number \in [Account -> 0 .. Cardinality(Thread)]
    BY <2>1 DEF YamnInv, Typed
  <2>3. QED
    BY <2>2 DEF YamnInv, Typed, Placed, YamnTypeOK
<1>2. QED
  BY <1>1, AccountInvariant, PTL

(* account.cpp:1283: no account is freed under a thread that uses it, but for  *)
(* the thread that is to show a message, for which nobody waits.               *)
THEOREM AccountsKept == YamnSpec => []AccountKept
<1>1. YamnInv => AccountKept
  BY DEF YamnInv, Typed, Left, Gone, AccountKept
<1>2. QED
  BY <1>1, AccountInvariant, PTL
=============================================================================
