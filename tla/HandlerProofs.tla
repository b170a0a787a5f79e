-------------------------- MODULE HandlerProofs --------------------------
(***************************************************************************)
(* Proofs about two handlers of events that hand work to threads: those of *)
(* historykeeper with its queue (HistoryKeeper, ContactAsyncQueue), and    *)
(* the one for calls in the Skype plugin (SkypeCall).  The parts share     *)
(* nothing.                                                                *)
(***************************************************************************)
EXTENDS HistoryKeeper, SkypeCall, Integers, SequenceTheorems, TLAPS

-----------------------------------------------------------------------------
(***************************************************************************)
(* The queue of historykeeper: the thread does not oversleep, changes that *)
(* come together make one notice, and no change is forgotten; for any      *)
(* number of contacts, tracked types, values and waiting times.            *)
(***************************************************************************)

(* The queue when one item is taken out at a place, or put in.                 *)
TakenOut(s, k) == SubSeq(s, 1, k - 1) \o SubSeq(s, k + 1, Len(s))
PutIn(s, k, new) == SubSeq(s, 1, k) \o <<new>> \o SubSeq(s, k + 1, Len(s))

ParamType == [type : Type, also : Type \cup {None}]
ItemType == [contact : Contact, param : ParamType, wait : Nat, delay : Nat, no : Nat]

Typed ==
    /\ queue \in Seq(ItemType)
    /\ until \in Nat /\ added \in Nat
    /\ place \in Places
    /\ value \in [Contact -> [Type -> Value]] /\ recorded \in [Contact -> [Type -> Value]]
    /\ hooks \subseteq Contact \X Type
    /\ todo \in Seq(Type) /\ seen \in Value \cup {None}

(* What the callback works with exists only while it runs.                     *)
CallbackOnly ==
    /\ place = "callback" => item \in ItemType
    /\ todo # <<>> => place = "callback"
    /\ seen # None => todo # <<>>

(* What is reported with a change is a part of what changed.                   *)
AlsoIsPart == \A i \in DOMAIN queue :
    queue[i].param.also # None => SubOf[queue[i].param.also] = queue[i].param.type

(* NoOversleep holds from the moment the thread knows how long it will sleep.  *)
Awake == place \in {"rest", "wait"} /\ queue # <<>> /\ owner # "done"
             => event \/ until <= queue[1].wait

(* ChangeCovered, and the same of what the callback has read and not stored.   *)
Stale(c, t) == seen # None /\ item.contact = c /\ Head(todo) = t /\ seen # value[c][t]
Waits(c, t) == \E i \in DOMAIN queue : queue[i].contact = c /\ Covers(queue[i].param, t)
Covered == owner # "done" => \A c \in Contact, t \in Type :
    Differs(c, t) \/ Stale(c, t) => <<c, t>> \in hooks \/ Waits(c, t) \/ ToBeRead(c, t)

KeeperInv == Typed /\ CallbackOnly /\ AlsoIsPart /\ Awake /\ OneNotice /\ Covered

-----------------------------------------------------------------------------
(* Who remains was there before, in the same order.                            *)
LEMMA TakenOutIs ==
    ASSUME NEW S, NEW s \in Seq(S), NEW k \in 1 .. Len(s)
    PROVE  /\ TakenOut(s, k) \in Seq(S)
           /\ Len(TakenOut(s, k)) = Len(s) - 1
           /\ DOMAIN TakenOut(s, k) = 1 .. Len(s) - 1
           /\ \A n \in 1 .. Len(s) - 1 :
                 TakenOut(s, k)[n] = IF n < k THEN s[n] ELSE s[n + 1]
<1> DEFINE before == SubSeq(s, 1, k - 1)
           after == SubSeq(s, k + 1, Len(s))
<1>0. Len(s) \in Nat /\ DOMAIN s = 1 .. Len(s) /\ k \in 1 .. Len(s) /\ s \in [1 .. Len(s) -> S]
  BY LenProperties
<1>1. /\ before \in Seq(S) /\ Len(before) = k - 1
      /\ \A n \in 1 .. k - 1 : before[n] = s[n]
  <2>1. \A n \in 1 .. k - 1 : s[n] \in S
    BY <1>0
  <2> QED  BY <1>0, <2>1, SubSeqProperties
<1>2. /\ after \in Seq(S) /\ Len(after) = Len(s) - k
      /\ \A n \in 1 .. Len(s) - k : after[n] = s[k + n]
  <2>1. \A n \in k + 1 .. Len(s) : s[n] \in S
    BY <1>0
  <2>2. /\ after \in Seq(S) /\ Len(after) = IF k + 1 <= Len(s) THEN Len(s) - (k + 1) + 1 ELSE 0
        /\ \A n \in 1 .. Len(s) - (k + 1) + 1 : after[n] = s[(k + 1) + n - 1]
    <3> HIDE DEF after
    <3> k + 1 \in Int /\ Len(s) \in Int  BY <1>0
    <3> QED  BY <2>1, SubSeqProperties DEF after
  <2>3. /\ Len(s) - (k + 1) + 1 = Len(s) - k
        /\ \A n \in 1 .. Len(s) - k : (k + 1) + n - 1 = k + n
        /\ (IF k + 1 <= Len(s) THEN Len(s) - (k + 1) + 1 ELSE 0) = Len(s) - k
    <3>1. \A l \in Nat : \A m \in 0 .. l :
             /\ l - (m + 1) + 1 = l - m
             /\ \A n \in 1 .. l - m : (m + 1) + n - 1 = m + n
             /\ (IF m + 1 <= l THEN l - (m + 1) + 1 ELSE 0) = l - m
      OBVIOUS
    <3>2. Len(s) \in Nat /\ k \in 0 .. Len(s)
      BY <1>0
    <3> QED  BY <3>1, <3>2
  <2> HIDE DEF after
  <2> QED  BY <2>2, <2>3
<1>3. TakenOut(s, k) = before \o after
  BY DEF TakenOut
<1> HIDE DEF before, after
<1>4. /\ before \o after \in Seq(S)
      /\ Len(before \o after) = Len(s) - 1
      /\ \A n \in 1 .. Len(s) - 1 : (before \o after)[n] = IF n < k THEN s[n] ELSE s[n + 1]
  <2>1. /\ before \o after \in Seq(S)
        /\ Len(before \o after) = Len(before) + Len(after)
        /\ \A n \in 1 .. Len(before) + Len(after) :
              (before \o after)[n] = IF n <= Len(before) THEN before[n] ELSE after[n - Len(before)]
    BY <1>1, <1>2, ConcatProperties
  <2>2. Len(before) + Len(after) = Len(s) - 1
    BY <1>0, <1>1, <1>2
  <2>3. ASSUME NEW n \in 1 .. Len(s) - 1
        PROVE  (before \o after)[n] = IF n < k THEN s[n] ELSE s[n + 1]
    <3>1. CASE n < k
      BY <1>0, <1>1, <2>1, <2>2, <2>3, <3>1
    <3>2. CASE n >= k
      <4>1. (before \o after)[n] = after[n - (k - 1)]
        BY <1>0, <1>1, <2>1, <2>2, <2>3, <3>2
      <4>2. n - (k - 1) \in 1 .. Len(s) - k /\ k + (n - (k - 1)) = n + 1
        BY <1>0, <2>3, <3>2
      <4> QED  BY <1>0, <1>2, <3>2, <4>1, <4>2
    <3>3. n < k \/ n >= k
      BY <1>0, <2>3
    <3> QED  BY <3>1, <3>2, <3>3, Zenon
  <2> QED  BY <2>1, <2>2, <2>3
<1>5. DOMAIN (before \o after) = 1 .. Len(s) - 1
  BY <1>4, LenProperties
<1> QED  BY <1>3, <1>4, <1>5

(* The new element stands at place k + 1, the others where they stood.         *)
LEMMA PutInIs ==
    ASSUME NEW S, NEW s \in Seq(S), NEW k \in 0 .. Len(s), NEW new \in S
    PROVE  /\ PutIn(s, k, new) \in Seq(S)
           /\ Len(PutIn(s, k, new)) = Len(s) + 1
           /\ DOMAIN PutIn(s, k, new) = 1 .. Len(s) + 1
           /\ \A n \in 1 .. Len(s) + 1 :
                 PutIn(s, k, new)[n] = IF n <= k THEN s[n] ELSE IF n = k + 1 THEN new ELSE s[n - 1]
<1> DEFINE before == SubSeq(s, 1, k)
           one == <<new>>
           first == before \o one
           after == SubSeq(s, k + 1, Len(s))
<1>0. Len(s) \in Nat /\ DOMAIN s = 1 .. Len(s) /\ k \in 0 .. Len(s) /\ s \in [1 .. Len(s) -> S]
  BY LenProperties
<1>1. /\ before \in Seq(S) /\ Len(before) = k
      /\ \A n \in 1 .. k : before[n] = s[n]
  <2>1. \A n \in 1 .. k : s[n] \in S
    BY <1>0
  <2> QED  BY <1>0, <2>1, SubSeqProperties
<1>2. /\ after \in Seq(S) /\ Len(after) = Len(s) - k
      /\ \A n \in 1 .. Len(s) - k : after[n] = s[k + n]
  <2>1. \A n \in k + 1 .. Len(s) : s[n] \in S
    BY <1>0
  <2>2. /\ after \in Seq(S) /\ Len(after) = IF k + 1 <= Len(s) THEN Len(s) - (k + 1) + 1 ELSE 0
        /\ \A n \in 1 .. Len(s) - (k + 1) + 1 : after[n] = s[(k + 1) + n - 1]
    <3> HIDE DEF after
    <3> k + 1 \in Int /\ Len(s) \in Int  BY <1>0
    <3> QED  BY <2>1, SubSeqProperties DEF after
  <2>3. /\ Len(s) - (k + 1) + 1 = Len(s) - k
        /\ \A n \in 1 .. Len(s) - k : (k + 1) + n - 1 = k + n
        /\ (IF k + 1 <= Len(s) THEN Len(s) - (k + 1) + 1 ELSE 0) = Len(s) - k
    <3>1. \A l \in Nat : \A m \in 0 .. l :
             /\ l - (m + 1) + 1 = l - m
             /\ \A n \in 1 .. l - m : (m + 1) + n - 1 = m + n
             /\ (IF m + 1 <= l THEN l - (m + 1) + 1 ELSE 0) = l - m
      OBVIOUS
    <3>2. Len(s) \in Nat /\ k \in 0 .. Len(s)
      BY <1>0
    <3> QED  BY <3>1, <3>2
  <2> HIDE DEF after
  <2> QED  BY <2>2, <2>3
<1>3. one \in Seq(S) /\ Len(one) = 1 /\ one[1] = new
  OBVIOUS
<1>4. PutIn(s, k, new) = first \o after
  BY DEF PutIn
<1> HIDE DEF before, one, after
<1>5. /\ first \in Seq(S) /\ Len(first) = k + 1
      /\ \A n \in 1 .. k + 1 : first[n] = IF n <= k THEN s[n] ELSE new
  <2>1. /\ first \in Seq(S) /\ Len(first) = Len(before) + Len(one)
        /\ \A n \in 1 .. Len(before) + Len(one) :
              first[n] = IF n <= Len(before) THEN before[n] ELSE one[n - Len(before)]
    BY <1>1, <1>3, ConcatProperties
  <2> QED  BY <1>0, <1>1, <1>3, <2>1
<1> HIDE DEF first
<1> DEFINE all == first \o after
<1>6. /\ all \in Seq(S) /\ Len(all) = Len(s) + 1
      /\ \A n \in 1 .. Len(s) + 1 :
            all[n] = IF n <= k + 1 THEN first[n] ELSE after[n - (k + 1)]
  <2>1. /\ all \in Seq(S) /\ Len(all) = Len(first) + Len(after)
        /\ \A n \in 1 .. Len(first) + Len(after) :
              all[n] = IF n <= Len(first) THEN first[n] ELSE after[n - Len(first)]
    BY <1>2, <1>5, ConcatProperties
  <2>2. Len(first) + Len(after) = Len(s) + 1
    BY <1>0, <1>2, <1>5
  <2> QED  BY <1>5, <2>1, <2>2
<1> HIDE DEF all
<1>7. ASSUME NEW n \in 1 .. Len(s) + 1
      PROVE  all[n] = IF n <= k THEN s[n] ELSE IF n = k + 1 THEN new ELSE s[n - 1]
  <2>1. CASE n <= k + 1
    BY <1>0, <1>5, <1>6, <1>7, <2>1
  <2>2. CASE n > k + 1
    <3>1. n - (k + 1) \in 1 .. Len(s) - k /\ k + (n - (k + 1)) = n - 1
      BY <1>0, <1>7, <2>2
    <3>2. all[n] = after[n - (k + 1)]
      BY <1>0, <1>6, <1>7, <2>2
    <3> QED  BY <1>0, <1>2, <1>7, <2>2, <3>1, <3>2
  <2>3. n <= k + 1 \/ n > k + 1
    BY <1>0, <1>7
  <2> QED  BY <2>1, <2>2, <2>3, Zenon
<1>8. DOMAIN all = 1 .. Len(s) + 1
  BY <1>6, LenProperties
<1> QED  BY <1>4, <1>6, <1>7, <1>8 DEF all

-----------------------------------------------------------------------------
(* Positions in the queue. *)
LEMMA Places1 ==
    ASSUME NEW q \in Seq(ItemType)
    PROVE  /\ Len(q) \in Nat /\ DOMAIN q = 1 .. Len(q)
           /\ \A i \in 1 .. Len(q) : q[i] \in ItemType
<1>1. Len(q) \in Nat /\ q \in [1 .. Len(q) -> ItemType] /\ DOMAIN q = 1 .. Len(q)
  BY LenProperties
<1> QED  BY <1>1

LEMMA LastIs ==
    ASSUME NEW q \in Seq(ItemType), NEW c, NEW t,
           \A i, j \in 1 .. Len(q) : q[i].contact = c /\ q[j].contact = c
                    /\ q[i].param.type = t /\ q[j].param.type = t => i = j
    PROVE  \/ Last(q, c, t) = 0 /\ \A i \in 1 .. Len(q) : ~(q[i].contact = c /\ q[i].param.type = t)
           \/ /\ Last(q, c, t) \in 1 .. Len(q)
              /\ q[Last(q, c, t)].contact = c /\ q[Last(q, c, t)].param.type = t
<1>1. CASE \E i \in 1 .. Len(q) : q[i].contact = c /\ q[i].param.type = t
  <2>1. PICK i \in 1 .. Len(q) : q[i].contact = c /\ q[i].param.type = t
    BY <1>1
  <2>2. \A j \in i + 1 .. Len(q) : ~(q[j].contact = c /\ q[j].param.type = t)
    <3> SUFFICES ASSUME NEW j \in i + 1 .. Len(q), q[j].contact = c, q[j].param.type = t
                 PROVE  FALSE
      OBVIOUS
    <3>1. Len(q) \in Nat
      BY Places1
    <3>2. j \in 1 .. Len(q) /\ j # i
      BY <3>1
    <3> QED  BY <2>1, <3>2
  <2>3. \E n \in 1 .. Len(q) :
            /\ q[n].contact = c /\ q[n].param.type = t
            /\ \A j \in n + 1 .. Len(q) : ~(q[j].contact = c /\ q[j].param.type = t)
    BY <2>1, <2>2
  <2>4. Last(q, c, t) = CHOOSE n \in 1 .. Len(q) :
            /\ q[n].contact = c /\ q[n].param.type = t
            /\ \A j \in n + 1 .. Len(q) : ~(q[j].contact = c /\ q[j].param.type = t)
    BY <1>1 DEF Last
  <2> QED  BY <2>3, <2>4, Zenon
<1>2. CASE ~ \E i \in 1 .. Len(q) : q[i].contact = c /\ q[i].param.type = t
  BY <1>2 DEF Last
<1> QED  BY <1>1, <1>2

(* Taking an item out of the queue.                                            *)
LEMMA DropIs ==
    ASSUME NEW q \in Seq(ItemType), NEW k \in 0 .. Len(q)
    PROVE  /\ Drop(q, k) \in Seq(ItemType)
           /\ \A n \in 1 .. Len(Drop(q, k)) :
                 \E m \in 1 .. Len(q) : m # k /\ Drop(q, k)[n] = q[m]
           /\ \A m \in 1 .. Len(q) : m # k => 
                 \E n \in 1 .. Len(Drop(q, k)) : Drop(q, k)[n] = q[m]
<1>0. Len(q) \in Nat
  BY Places1
<1>1. CASE k = 0
  <2>1. Drop(q, k) = q
    BY <1>1 DEF Drop
  <2>2. \A m \in 1 .. Len(q) : m # k
    BY <1>0, <1>1
  <2> QED  BY <2>1, <2>2
<1>2. CASE k # 0
  <2> DEFINE r == TakenOut(q, k)
  <2>1. k \in 1 .. Len(q) /\ Drop(q, k) = r
    <3>1. k \in 1 .. Len(q)
      BY <1>0, <1>2
    <3>2. Drop(q, k) = r
      BY <1>2, Zenon DEF Drop, Without, TakenOut
    <3> QED  BY <3>1, <3>2
  <2>2. /\ r \in Seq(ItemType) /\ Len(r) = Len(q) - 1
        /\ \A n \in 1 .. Len(q) - 1 : r[n] = IF n < k THEN q[n] ELSE q[n + 1]
    <3> HIDE DEF r
    <3> QED  BY <2>1, TakenOutIs DEF r
  <2> HIDE DEF r
  <2>3. \A n \in 1 .. Len(r) : \E m \in 1 .. Len(q) : m # k /\ r[n] = q[m]
    <3> SUFFICES ASSUME NEW n \in 1 .. Len(r) PROVE \E m \in 1 .. Len(q) : m # k /\ r[n] = q[m]
      OBVIOUS
    <3>1. CASE n < k
      BY <1>0, <2>1, <2>2, <3>1
    <3>2. CASE n >= k
      <4>1. n + 1 \in 1 .. Len(q) /\ n + 1 # k
        BY <1>0, <2>1, <2>2, <3>2
      <4> QED  BY <1>0, <2>1, <2>2, <3>2, <4>1
    <3> QED  BY <1>0, <2>1, <2>2, <3>1, <3>2
  <2>4. \A m \in 1 .. Len(q) : m # k => \E n \in 1 .. Len(r) : r[n] = q[m]
    <3> SUFFICES ASSUME NEW m \in 1 .. Len(q), m # k PROVE \E n \in 1 .. Len(r) : r[n] = q[m]
      OBVIOUS
    <3>1. CASE m < k
      BY <1>0, <2>1, <2>2, <3>1
    <3>2. CASE m > k
      <4>1. m - 1 \in 1 .. Len(r) /\ m - 1 >= k /\ (m - 1) + 1 = m
        BY <1>0, <2>1, <2>2, <3>2
      <4>2. m - 1 \in 1 .. Len(q) - 1 /\ ~(m - 1 < k)
        BY <1>0, <2>1, <2>2, <3>2
      <4>3. r[m - 1] = q[m]
        BY <2>2, <4>1, <4>2
      <4> QED  BY <4>1, <4>3
    <3> QED  BY <1>0, <2>1, <3>1, <3>2
  <2> QED  BY <2>1, <2>2, <2>3, <2>4
<1> QED  BY <1>1, <1>2

(* QueueSortItems only says where the new item goes.                           *)
LEMMA InsertedIs ==
    ASSUME NEW q \in Seq(ItemType), NEW new \in ItemType, NEW r \in Inserted(q, new)
    PROVE  /\ r \in Seq(ItemType)
           /\ \E n \in 1 .. Len(r) : r[n] = new
           /\ \A m \in 1 .. Len(q) : \E n \in 1 .. Len(r) : r[n] = q[m]
           /\ \E k \in 0 .. Len(q) : /\ Len(r) = Len(q) + 1
                 /\ \A n \in 1 .. Len(r) :
                       r[n] = IF n <= k THEN q[n] ELSE IF n = k + 1 THEN new ELSE q[n - 1]
<1>0. Len(q) \in Nat
  BY Places1
<1>1. PICK k \in 0 .. Len(q) : r = PutIn(q, k, new)
  BY DEF Inserted, PutIn
<1>2. /\ r \in Seq(ItemType) /\ Len(r) = Len(q) + 1
      /\ \A n \in 1 .. Len(r) : r[n] = IF n <= k THEN q[n] ELSE IF n = k + 1 THEN new ELSE q[n - 1]
  <2> DEFINE p == PutIn(q, k, new)
  <2>1. /\ p \in Seq(ItemType) /\ Len(p) = Len(q) + 1
        /\ \A n \in 1 .. Len(q) + 1 : p[n] = IF n <= k THEN q[n] ELSE IF n = k + 1 THEN new ELSE q[n - 1]
    <3> HIDE DEF p
    <3> QED  BY ONLY PutInIs, q \in Seq(ItemType), k \in 0 .. Len(q), new \in ItemType DEF p
  <2>2. r = p
    BY <1>1
  <2> HIDE DEF p
  <2> QED  BY <2>1, <2>2
<1>3. k + 1 \in 1 .. Len(r) /\ r[k + 1] = new
  BY <1>0, <1>2
<1>4. ASSUME NEW m \in 1 .. Len(q) PROVE \E n \in 1 .. Len(r) : r[n] = q[m]
  <2>1. CASE m <= k
    BY <1>0, <1>2, <1>4, <2>1
  <2>2. CASE m > k
    <3>1. m + 1 \in 1 .. Len(r) /\ ~(m + 1 <= k) /\ m + 1 # k + 1 /\ (m + 1) - 1 = m
      BY <1>0, <1>2, <1>4, <2>2
    <3> QED  BY <1>2, <3>1
  <2> QED  BY <1>0, <1>4, <2>1, <2>2
<1> QED  BY <1>2, <1>3, <1>4

-----------------------------------------------------------------------------
(* Steps that leave queue, item and keeper alone, outside the callback or not. *)
LEMMA QuietKeeps ==
    ASSUME KeeperInv, UNCHANGED <<queue, item, keeper, added>>,
           place' \in Places, place' = "callback" <=> place = "callback",
           until' \in Nat, owner' # "done" => owner # "done", Awake'
    PROVE  KeeperInv'
<1>1. Typed'
  BY DEF KeeperInv, Typed, keeper
<1>2. CallbackOnly' /\ AlsoIsPart' /\ OneNotice'
  BY DEF KeeperInv, CallbackOnly, AlsoIsPart, OneNotice, keeper
<1>3. Covered'
  <2> SUFFICES ASSUME owner' # "done", NEW c \in Contact, NEW t \in Type,
                      Differs(c, t)' \/ Stale(c, t)'
               PROVE  (<<c, t>> \in hooks)' \/ Waits(c, t)' \/ ToBeRead(c, t)'
    BY DEF Covered
  <2>1. <<c, t>> \in hooks \/ Waits(c, t) \/ ToBeRead(c, t)
    BY DEF KeeperInv, Covered, Stale, keeper, Differs
  <2> QED  BY <2>1 DEF Waits, ToBeRead, keeper
<1> QED  BY <1>1, <1>2, <1>3 DEF KeeperInv

LEMMA RestingKeeps ==
    ASSUME KeeperInv, Resting, UNCHANGED keeper
    PROVE  KeeperInv'
<1>0. queue \in Seq(ItemType) /\ until \in Nat /\ Awake /\ Idle \in Nat
  BY QueueAssumption DEF KeeperInv, Typed
<1>1. UNCHANGED <<queue, item, added, owner>>
  BY DEF Resting, Loop, Reset, Check, Postpone, Rest, Wake, destructor
<1>2. place' \in Places /\ place # "callback" /\ place' # "callback"
  BY DEF Resting, Loop, Ends, Reset, Check, Postpone, Rest, Wake, Go, Places
<1>3. until' \in Nat
  <2>1. queue # <<>> => queue[1].wait \in Nat
    <3>1. queue # <<>> => 1 \in 1 .. Len(queue)
      BY <1>0, EmptySeq
    <3> QED  BY <1>0, <3>1, Places1 DEF ItemType
  <2> QED  BY <1>0, <2>1 DEF Resting, Loop, Reset, Check, Postpone, Rest, Wake
<1>4. Awake'
  <2>1. CASE Postpone
    BY <1>0, <1>3, <2>1 DEF Postpone, Awake
  <2>2. CASE Rest
    BY <1>0, <1>1, <2>2 DEF Rest, Awake
  <2>3. CASE Loop \/ Reset \/ Check \/ Wake
    BY <2>3 DEF Loop, Ends, Reset, Check, Wake, Go, Awake
  <2> QED  BY <2>1, <2>2, <2>3 DEF Resting
<1> QED  BY <1>1, <1>2, <1>3, <1>4, QuietKeeps

LEMMA DestructorKeeps ==
    ASSUME KeeperInv, FinishMark \/ Finish, UNCHANGED keeper
    PROVE  KeeperInv'
<1>1. UNCHANGED <<queue, item, added, place, until>> /\ owner # "done" /\ owner' # "done"
  BY DEF FinishMark, Finish, thread
<1>2. event' = event \/ event' = TRUE
  BY DEF FinishMark, Finish
<1>3. Awake' /\ until' \in Nat /\ place' \in Places
  BY <1>1, <1>2 DEF KeeperInv, Typed, Awake
<1> QED  BY <1>1, <1>3, QuietKeeps

(* After the destructor nothing is claimed any more. *)
LEMMA DestroyKeeps ==
    ASSUME KeeperInv, Destroy, UNCHANGED keeper
    PROVE  KeeperInv'
<1>1. queue' = <<>> /\ owner' = "done" /\ UNCHANGED <<place, item, until, added>>
  BY DEF Destroy, thread
<1>2. Typed'
  BY <1>1, EmptySeq DEF KeeperInv, Typed, keeper
<1>3. CallbackOnly'
  BY <1>1 DEF KeeperInv, CallbackOnly, keeper
<1>4. AlsoIsPart' /\ OneNotice'
  <2>1. DOMAIN queue' = {} /\ 1 .. Len(queue') = {}
    BY <1>1
  <2> QED  BY <2>1 DEF AlsoIsPart, OneNotice
<1>5. Awake' /\ Covered'
  BY <1>1 DEF Awake, Covered
<1> QED  BY <1>2, <1>3, <1>4, <1>5 DEF KeeperInv

LEMMA TickKeeps ==
    ASSUME KeeperInv, Tick, UNCHANGED keeper
    PROVE  KeeperInv'
<1>0. /\ queue \in Seq(ItemType) /\ until \in Nat /\ Len(queue) \in Nat
      /\ DOMAIN queue = 1 .. Len(queue) /\ \A i \in 1 .. Len(queue) : queue[i] \in ItemType
  BY Places1 DEF KeeperInv, Typed
<1>1. \A n \in Nat : Less(n) \in Nat
  BY DEF Less
<1>2. \A i \in 1 .. Len(queue) :
         /\ [queue[i] EXCEPT !.wait = Less(@)] \in ItemType
         /\ [queue[i] EXCEPT !.wait = Less(@)].wait = Less(queue[i].wait)
         /\ [queue[i] EXCEPT !.wait = Less(@)].contact = queue[i].contact
         /\ [queue[i] EXCEPT !.wait = Less(@)].param = queue[i].param
  BY <1>0, <1>1 DEF ItemType
<1>3. queue' \in [1 .. Len(queue) -> ItemType]
  BY <1>2 DEF Tick
<1>4. queue' \in Seq(ItemType) /\ Len(queue') = Len(queue) /\ DOMAIN queue' = 1 .. Len(queue)
  BY <1>0, <1>3
<1>5. \A i \in 1 .. Len(queue) :
         /\ queue'[i].wait = Less(queue[i].wait)
         /\ queue'[i].contact = queue[i].contact /\ queue'[i].param = queue[i].param
  BY <1>2 DEF Tick
<1>6. UNCHANGED <<event, place, item, owner, added>>
  BY DEF Tick
<1>7. Typed'
  <2>1. until' \in Nat
    BY <1>0, <1>1 DEF Tick
  <2> QED  BY <1>4, <1>6, <2>1 DEF KeeperInv, Typed, keeper
<1>8. CallbackOnly'
  BY <1>6 DEF KeeperInv, CallbackOnly, keeper
<1>9. AlsoIsPart' /\ OneNotice'
  BY <1>0, <1>4, <1>5 DEF KeeperInv, AlsoIsPart, OneNotice
<1>10. Awake'
  <2> SUFFICES ASSUME place' \in {"rest", "wait"}, queue' # <<>>, owner' # "done", ~event'
               PROVE  until' <= queue'[1].wait
    BY DEF Awake
  <2>1. place = "wait" /\ until' = Less(until)
    BY <1>6 DEF Tick, Busy
  <2>2. 1 \in 1 .. Len(queue) /\ queue # <<>>
    BY <1>4, EmptySeq
  <2>3. until <= queue[1].wait /\ queue[1].wait \in Nat
    BY <1>0, <1>6, <2>1, <2>2 DEF KeeperInv, Awake, ItemType
  <2> QED  BY <1>0, <1>5, <2>1, <2>2, <2>3 DEF Less
<1>11. Covered'
  <2> SUFFICES ASSUME owner' # "done", NEW c \in Contact, NEW t \in Type,
                      Differs(c, t)' \/ Stale(c, t)'
               PROVE  (<<c, t>> \in hooks)' \/ Waits(c, t)' \/ ToBeRead(c, t)'
    BY DEF Covered
  <2>1. <<c, t>> \in hooks \/ Waits(c, t) \/ ToBeRead(c, t)
    BY <1>6 DEF KeeperInv, Covered, Stale, keeper, Differs
  <2>2. Waits(c, t) => Waits(c, t)'
    BY <1>0, <1>4, <1>5 DEF Waits, Covers
  <2>3. ToBeRead(c, t) => ToBeRead(c, t)'
    BY <1>6 DEF ToBeRead, keeper
  <2> QED  BY <2>1, <2>2, <2>3 DEF keeper
<1> QED  BY <1>7, <1>8, <1>9, <1>10, <1>11 DEF KeeperInv

-----------------------------------------------------------------------------
(* The callback. *)
LEMMA BeginKeeps ==
    ASSUME KeeperInv, Begin
    PROVE  KeeperInv'
<1>0. /\ queue \in Seq(ItemType) /\ Len(queue) \in Nat /\ DOMAIN queue = 1 .. Len(queue)
      /\ \A i \in 1 .. Len(queue) : queue[i] \in ItemType
      /\ todo = <<>> /\ seen = None /\ place = "look"
  BY Places1 DEF KeeperInv, Typed, CallbackOnly, Begin, Take, Go
<1>1. /\ queue # <<>> /\ item' = queue[1] /\ queue' = Tail(queue) /\ place' = "callback"
      /\ UNCHANGED <<event, until, owner, added, value, recorded, hooks, seen>>
  BY DEF Begin, Take, Go, destructor
<1>2. 1 \in 1 .. Len(queue)
  BY <1>0, <1>1, EmptySeq
<1>3. /\ queue' \in Seq(ItemType) /\ Len(queue') = Len(queue) - 1 /\ DOMAIN queue' = 1 .. Len(queue) - 1
      /\ \A i \in 1 .. Len(queue) - 1 : queue'[i] = queue[i + 1]
  <2>1. /\ queue' \in Seq(ItemType) /\ Len(queue') = Len(queue) - 1
        /\ \A i \in 1 .. Len(queue') : queue'[i] = queue[i + 1]
    BY <1>0, <1>1, HeadTailProperties
  <2> QED  BY <1>0, <2>1, LenProperties
<1>4. todo' = IF queue[1].param.also = None THEN <<queue[1].param.type>>
              ELSE <<queue[1].param.type, queue[1].param.also>>
  BY DEF Begin
<1>5. todo' \in Seq(Type) /\ todo' # <<>>
  BY <1>0, <1>2, <1>4 DEF ItemType, ParamType
<1>6. Typed'
  BY <1>1, <1>3, <1>5 DEF KeeperInv, Typed, Places
<1>7. CallbackOnly'
  BY <1>0, <1>1, <1>2, <1>5 DEF CallbackOnly
<1>8. AlsoIsPart' /\ OneNotice'
  <2>1. \A i \in 1 .. Len(queue) - 1 : i + 1 \in 1 .. Len(queue)
    BY <1>0
  <2>2. AlsoIsPart'
    BY <1>0, <1>3, <2>1 DEF KeeperInv, AlsoIsPart
  <2>3. OneNotice'
    BY <1>0, <1>3, <2>1 DEF KeeperInv, OneNotice
  <2> QED  BY <2>2, <2>3
<1>9. Awake'
  BY <1>1 DEF Awake
<1>10. Covered'
  <2> SUFFICES ASSUME owner' # "done", NEW c \in Contact, NEW t \in Type,
                      Differs(c, t)' \/ Stale(c, t)'
               PROVE  (<<c, t>> \in hooks)' \/ Waits(c, t)' \/ ToBeRead(c, t)'
    BY DEF Covered
  <2>1. <<c, t>> \in hooks \/ Waits(c, t)
    BY <1>0, <1>1 DEF KeeperInv, Covered, Stale, ToBeRead, Differs
  <2>2. ASSUME NEW i \in 1 .. Len(queue), queue[i].contact = c, Covers(queue[i].param, t)
        PROVE  Waits(c, t)' \/ ToBeRead(c, t)'
    <3>1. CASE i = 1
      <4>1. item'.contact = c /\ seen' = None /\ place' = "callback"
        BY <1>0, <1>1, <2>2, <3>1
      <4>2. \E n \in 1 .. Len(todo') : todo'[n] = t
        <5>1. CASE queue[1].param.type = t
          BY <1>4, <5>1
        <5>2. CASE queue[1].param.also = t
          <6>1. t # None
            BY TypeAssumption
          <6> QED  BY <1>4, <5>2, <6>1
        <5> QED  BY <2>2, <3>1, <5>1, <5>2 DEF Covers
      <4> QED  BY <4>1, <4>2 DEF ToBeRead
    <3>2. CASE i # 1
      <4>1. i - 1 \in 1 .. Len(queue) - 1 /\ (i - 1) + 1 = i
        BY <1>0, <2>2, <3>2
      <4>2. queue'[i - 1] = queue[i]
        BY <1>3, <4>1
      <4> QED  BY <1>3, <2>2, <4>1, <4>2 DEF Waits, Covers
    <3> QED  BY <3>1, <3>2
  <2> QED  BY <1>0, <1>1, <2>1, <2>2 DEF Waits
<1> QED  BY <1>6, <1>7, <1>8, <1>9, <1>10 DEF KeeperInv

LEMMA TrackReadKeeps ==
    ASSUME KeeperInv, TrackRead
    PROVE  KeeperInv'
<1>0. /\ item \in ItemType /\ todo \in Seq(Type) /\ todo # <<>> /\ seen = None
      /\ Head(todo) \in Type /\ Head(todo) = todo[1] /\ place = "callback"
      /\ Tail(todo) \in Seq(Type) /\ Len(Tail(todo)) = Len(todo) - 1 /\ Len(todo) \in Nat
      /\ \A i \in 1 .. Len(todo) - 1 : Tail(todo)[i] = todo[i + 1]
  BY HeadTailProperties DEF KeeperInv, Typed, CallbackOnly, TrackRead
<1>1. UNCHANGED <<queueVars, value, recorded, hooks>>
  BY DEF TrackRead
<1>2. UNCHANGED <<queue, event, place, item, until, owner, added>>
  BY <1>1 DEF queueVars, thread, destructor
<1>3. \/ seen' = value[item.contact][Head(todo)] /\ todo' = todo
      \/ ~Differs(item.contact, Head(todo)) /\ todo' = Tail(todo) /\ seen' = None
  BY <1>0 DEF TrackRead
<1>4. Typed'
  <2>1. value[item.contact][Head(todo)] \in Value
    BY <1>0 DEF KeeperInv, Typed, ItemType
  <2>2. todo' \in Seq(Type) /\ seen' \in Value \cup {None}
    BY <1>0, <1>3, <2>1
  <2> QED  BY <1>1, <1>2, <2>2 DEF KeeperInv, Typed
<1>5. CallbackOnly' /\ AlsoIsPart' /\ OneNotice' /\ Awake'
  BY <1>0, <1>1, <1>2, <1>3 DEF KeeperInv, CallbackOnly, AlsoIsPart, OneNotice, Awake
<1>6. Covered'
  <2> SUFFICES ASSUME owner' # "done", NEW c \in Contact, NEW t \in Type,
                      Differs(c, t)' \/ Stale(c, t)'
               PROVE  (<<c, t>> \in hooks)' \/ Waits(c, t)' \/ ToBeRead(c, t)'
    BY DEF Covered
  <2>1. ~Stale(c, t)' /\ Differs(c, t)
    BY <1>1, <1>2, <1>3 DEF Stale, Differs
  <2>2. <<c, t>> \in hooks \/ Waits(c, t) \/ ToBeRead(c, t)
    BY <1>1, <1>2, <2>1 DEF KeeperInv, Covered
  <2>3. ToBeRead(c, t) => ToBeRead(c, t)'
    <3> SUFFICES ASSUME item.contact = c, NEW i \in 1 .. Len(todo), todo[i] = t
                 PROVE  ToBeRead(c, t)'
      BY <1>0 DEF ToBeRead
    <3>1. CASE seen' = value[item.contact][Head(todo)] /\ todo' = todo
      BY <1>0, <1>1, <1>2, <3>1 DEF ToBeRead
    <3>2. CASE ~Differs(item.contact, Head(todo)) /\ todo' = Tail(todo) /\ seen' = None
      <4>1. i # 1
        BY <1>0, <2>1, <3>2
      <4>2. i - 1 \in 1 .. Len(todo) - 1 /\ (i - 1) + 1 = i
        BY <1>0, <4>1
      <4>3. i - 1 \in 1 .. Len(todo') /\ todo'[i - 1] = t
        BY <1>0, <3>2, <4>2
      <4> QED  BY <1>0, <1>2, <3>2, <4>3 DEF ToBeRead
    <3> QED  BY <1>3, <3>1, <3>2
  <2> QED  BY <1>1, <1>2, <2>2, <2>3 DEF Waits
<1> QED  BY <1>4, <1>5, <1>6 DEF KeeperInv

LEMMA TrackWriteKeeps ==
    ASSUME KeeperInv, TrackWrite
    PROVE  KeeperInv'
<1>0. /\ todo \in Seq(Type) /\ todo # <<>> /\ seen # None /\ place = "callback" /\ item \in ItemType
      /\ Head(todo) \in Type /\ Head(todo) = todo[1]
      /\ Tail(todo) \in Seq(Type) /\ Len(Tail(todo)) = Len(todo) - 1 /\ Len(todo) \in Nat
      /\ \A i \in 1 .. Len(todo) - 1 : Tail(todo)[i] = todo[i + 1]
  BY HeadTailProperties DEF KeeperInv, Typed, CallbackOnly, TrackWrite
<1>1. /\ recorded' = [recorded EXCEPT ![item.contact][Head(todo)] = seen]
      /\ todo' = Tail(todo) /\ seen' = None /\ UNCHANGED <<queueVars, value, hooks>>
  BY DEF TrackWrite
<1>2. UNCHANGED <<queue, event, place, item, until, owner, added>>
  BY <1>1 DEF queueVars, thread, destructor
<1>3. item.contact \in Contact /\ seen \in Value /\ recorded \in [Contact -> [Type -> Value]]
  BY <1>0 DEF ItemType, KeeperInv, Typed
<1>4. Typed'
  BY <1>0, <1>1, <1>2, <1>3 DEF KeeperInv, Typed
<1>5. CallbackOnly' /\ AlsoIsPart' /\ OneNotice' /\ Awake'
  BY <1>0, <1>1, <1>2 DEF KeeperInv, CallbackOnly, AlsoIsPart, OneNotice, Awake
<1>6. Covered'
  <2> SUFFICES ASSUME owner' # "done", NEW c \in Contact, NEW t \in Type,
                      Differs(c, t)' \/ Stale(c, t)'
               PROVE  (<<c, t>> \in hooks)' \/ Waits(c, t)' \/ ToBeRead(c, t)'
    BY DEF Covered
  <2>0. Noticed(t, value[c][t], recorded'[c][t])
    BY <1>1 DEF Stale, Differs
  <2>1. value[c][t] # recorded'[c][t] /\ value[c][t] \in Value
    <3>1. value[c][t] \in Value
      BY DEF KeeperInv, Typed
    <3>2. ~Noticed(t, value[c][t], value[c][t])
      BY <3>1, TypeAssumption DEF Noticed, Changed, Removed, Recorded
    <3> QED  BY <2>0, <3>1, <3>2
  <2>2. <<c, t>> \in hooks \/ Waits(c, t) \/ ToBeRead(c, t)
    <3>1. CASE c = item.contact /\ t = Head(todo)
      <4>1. recorded'[c][t] = seen
        BY <1>1, <1>3, <3>1
      <4>2. Stale(c, t)
        BY <1>0, <2>1, <3>1, <4>1 DEF Stale
      <4> QED  BY <1>2, <4>2 DEF KeeperInv, Covered
    <3>2. CASE ~(c = item.contact /\ t = Head(todo))
      <4>1. recorded'[c][t] = recorded[c][t]
        BY <1>1, <1>3, <3>2
      <4> QED  BY <1>2, <2>0, <4>1 DEF KeeperInv, Covered, Differs
    <3> QED  BY <3>1, <3>2
  <2>3. ToBeRead(c, t) => ToBeRead(c, t)'
    <3> SUFFICES ASSUME item.contact = c,
                        NEW i \in 1 .. Len(todo), todo[i] = t, i = 1 => seen = value[c][t]
                 PROVE  ToBeRead(c, t)'
      BY <1>0 DEF ToBeRead
    <3>1. i # 1
      <4>1. SUFFICES ASSUME i = 1 PROVE FALSE
        OBVIOUS
      <4>2. recorded'[c][t] = seen
        BY <1>0, <1>1, <1>3, <4>1
      <4> QED  BY <2>1, <4>1, <4>2
    <3>2. i - 1 \in 1 .. Len(todo) - 1 /\ (i - 1) + 1 = i
      BY <1>0, <3>1
    <3>3. i - 1 \in 1 .. Len(todo') /\ todo'[i - 1] = t
      BY <1>0, <1>1, <3>2
    <3> QED  BY <1>0, <1>1, <1>2, <3>3 DEF ToBeRead
  <2> QED  BY <1>1, <1>2, <2>2, <2>3 DEF Waits
<1> QED  BY <1>4, <1>5, <1>6 DEF KeeperInv

LEMMA FinishedKeeps ==
    ASSUME KeeperInv, Finished
    PROVE  KeeperInv'
<1>0. todo = <<>> /\ seen = None
  BY DEF Finished, KeeperInv, CallbackOnly
<1>1. /\ place' = "loop" /\ UNCHANGED <<queue, event, until, owner, added, keeper>>
  BY DEF Finished, Return, Go, destructor
<1>2. UNCHANGED <<value, recorded, hooks, todo, seen>>
  BY <1>1 DEF keeper
<1>3. Typed' /\ CallbackOnly' /\ AlsoIsPart' /\ OneNotice' /\ Awake'
  BY <1>0, <1>1, <1>2 DEF KeeperInv, Typed, CallbackOnly, AlsoIsPart, OneNotice, Awake, Places
<1>4. Covered'
  <2>1. \A c \in Contact, t \in Type : ~ToBeRead(c, t) /\ ~Stale(c, t)'
    BY <1>0, <1>2 DEF ToBeRead, Stale
  <2> QED  BY <1>1, <1>2, <2>1 DEF KeeperInv, Covered, Waits, Differs
<1> QED  BY <1>3, <1>4 DEF KeeperInv

-----------------------------------------------------------------------------
(* A setting is written. *)
LEMMA WriteKeeps ==
    ASSUME KeeperInv, NEW c \in Contact, NEW t \in Type, NEW v \in Value, Write(c, t, v)
    PROVE  KeeperInv'
<1>1. /\ value' = [value EXCEPT ![c][t] = v] /\ hooks = {} /\ hooks' = {<<c, t>>}
      /\ UNCHANGED <<queueVars, recorded, todo, seen>>
  BY DEF Write
<1>2. UNCHANGED <<queue, event, place, item, until, owner, added>>
  BY <1>1 DEF queueVars, thread, destructor
<1>3. Typed'
  BY <1>1, <1>2 DEF KeeperInv, Typed
<1>4. CallbackOnly' /\ AlsoIsPart' /\ OneNotice' /\ Awake'
  BY <1>1, <1>2 DEF KeeperInv, CallbackOnly, AlsoIsPart, OneNotice, Awake
<1>5. Covered'
  <2> SUFFICES ASSUME owner' # "done", NEW d \in Contact, NEW u \in Type,
                      Differs(d, u)' \/ Stale(d, u)'
               PROVE  (<<d, u>> \in hooks)' \/ Waits(d, u)' \/ ToBeRead(d, u)'
    BY DEF Covered
  <2>1. CASE d = c /\ u = t
    BY <1>1, <2>1
  <2>2. CASE ~(d = c /\ u = t)
    <3>1. value'[d][u] = value[d][u]
      BY <1>1, <2>2 DEF KeeperInv, Typed
    <3>2. Waits(d, u) \/ ToBeRead(d, u)
      BY <1>1, <1>2, <3>1 DEF KeeperInv, Covered, Stale, Differs
    <3>3. ToBeRead(d, u) => ToBeRead(d, u)'
      BY <1>1, <1>2, <3>1 DEF ToBeRead
    <3> QED  BY <1>2, <3>2, <3>3 DEF Waits
  <2> QED  BY <2>1, <2>2
<1> QED  BY <1>3, <1>4, <1>5 DEF KeeperInv

-----------------------------------------------------------------------------
(* The database tells of a change. *)
OneNoticeIn(q) == \A i, j \in 1 .. Len(q) :
    q[i].contact = q[j].contact /\ Family(q[i].param.type) = Family(q[j].param.type) => i = j

(* A queue with one notice per family still has after an item is taken out,    *)
(* and after one of a family that has none is put in.                          *)
LEMMA DropKeepsOne ==
    ASSUME NEW q \in Seq(ItemType), NEW k \in 0 .. Len(q), OneNoticeIn(q)
    PROVE  OneNoticeIn(Drop(q, k))
<1>0. Len(q) \in Nat
  BY Places1
<1>1. CASE k = 0
  BY <1>1 DEF Drop
<1>2. CASE k # 0
  <2> DEFINE r == TakenOut(q, k)
  <2>0. k \in 1 .. Len(q)
    BY <1>0, <1>2
  <2>1. Drop(q, k) = r
    BY <1>2, Zenon DEF Drop, Without, TakenOut
  <2>2. /\ Len(r) = Len(q) - 1
        /\ \A n \in 1 .. Len(q) - 1 : r[n] = IF n < k THEN q[n] ELSE q[n + 1]
    <3> HIDE DEF r
    <3> QED  BY <2>0, TakenOutIs DEF r
  <2> HIDE DEF r
  <2>3. ASSUME NEW i \in 1 .. Len(r), NEW j \in 1 .. Len(r), r[i].contact = r[j].contact,
               Family(r[i].param.type) = Family(r[j].param.type)
        PROVE  i = j
    <3>1. PICK m \in 1 .. Len(q) : r[i] = q[m] /\ m = IF i < k THEN i ELSE i + 1
      BY <1>0, <2>0, <2>2, <2>3
    <3>2. PICK n \in 1 .. Len(q) : r[j] = q[n] /\ n = IF j < k THEN j ELSE j + 1
      BY <1>0, <2>0, <2>2, <2>3
    <3>3. m = n
      BY <2>3, <3>1, <3>2 DEF OneNoticeIn
    <3> QED  BY <1>0, <2>0, <2>2, <2>3, <3>1, <3>2, <3>3
  <2> QED  BY <2>1, <2>3 DEF OneNoticeIn
<1> QED  BY <1>1, <1>2

LEMMA InsertKeepsOne ==
    ASSUME NEW q \in Seq(ItemType), NEW new \in ItemType, NEW r \in Inserted(q, new), OneNoticeIn(q),
           \A n \in 1 .. Len(q) : ~( q[n].contact = new.contact /\
                                     Family(q[n].param.type) = Family(new.param.type) )
    PROVE  OneNoticeIn(r)
<1>0. Len(q) \in Nat
  BY Places1
<1>1. PICK k \in 0 .. Len(q) : /\ Len(r) = Len(q) + 1
         /\ \A n \in 1 .. Len(r) : r[n] = IF n <= k THEN q[n] ELSE IF n = k + 1 THEN new ELSE q[n - 1]
  BY InsertedIs
<1>2. ASSUME NEW n \in 1 .. Len(r), n # k + 1
      PROVE  \E m \in 1 .. Len(q) : r[n] = q[m] /\ m = IF n <= k THEN n ELSE n - 1
  BY <1>0, <1>1, <1>2
<1>3. r[k + 1] = new
  BY <1>0, <1>1
<1>4. ASSUME NEW i \in 1 .. Len(r), NEW j \in 1 .. Len(r), r[i].contact = r[j].contact,
             Family(r[i].param.type) = Family(r[j].param.type)
      PROVE  i = j
  <2>1. CASE i = k + 1 \/ j = k + 1
    BY <1>2, <1>3, <1>4, <2>1
  <2>2. CASE i # k + 1 /\ j # k + 1
    <3>1. PICK m \in 1 .. Len(q) : r[i] = q[m] /\ m = IF i <= k THEN i ELSE i - 1
      BY <1>2, <1>4, <2>2
    <3>2. PICK n \in 1 .. Len(q) : r[j] = q[n] /\ n = IF j <= k THEN j ELSE j - 1
      BY <1>2, <1>4, <2>2
    <3>3. m = n
      BY <1>4, <3>1, <3>2 DEF OneNoticeIn
    <3> QED  BY <1>0, <1>1, <1>4, <2>2, <3>1, <3>2, <3>3
  <2> QED  BY <2>1, <2>2
<1> QED  BY <1>4 DEF OneNoticeIn

LEMMA LastOfOne ==
    ASSUME NEW q \in Seq(ItemType), OneNoticeIn(q), NEW c, NEW t
    PROVE  /\ Last(q, c, t) \in 0 .. Len(q)
           /\ Last(q, c, t) # 0 => q[Last(q, c, t)].contact = c /\ q[Last(q, c, t)].param.type = t
           /\ \A i \in 1 .. Len(q) : q[i].contact = c /\ q[i].param.type = t => Last(q, c, t) = i
<1>0. Len(q) \in Nat
  BY Places1
<1>1. \A i, j \in 1 .. Len(q) : q[i].contact = c /\ q[j].contact = c
                    /\ q[i].param.type = t /\ q[j].param.type = t => i = j
  BY DEF OneNoticeIn
<1>2. CASE Last(q, c, t) = 0 /\ \A i \in 1 .. Len(q) : ~(q[i].contact = c /\ q[i].param.type = t)
  BY <1>0, <1>2
<1>3. CASE /\ Last(q, c, t) \in 1 .. Len(q)
           /\ q[Last(q, c, t)].contact = c /\ q[Last(q, c, t)].param.type = t
  BY <1>0, <1>1, <1>3
<1> QED  BY <1>1, <1>2, <1>3, LastIs

(* The part of a type: there is at most one, and it has no parts itself.       *)
LEMMA PartIs ==
    ASSUME NEW t \in Type
    PROVE  /\ ParentOf(t) \in Type \cup {None}
           /\ ParentOf(t) # None => SubOf[ParentOf(t)] = t
           /\ \A u \in Type : SubOf[u] = t => ParentOf(t) = u
           /\ \A u \in Type : Family(u) = Family(t) =>
                 u = t \/ SubOf[u] = t \/ (SubOf[t] # None /\ u = SubOf[t])
<1>1. None \notin Type /\ \A r, u \in Type : SubOf[r] = SubOf[u] /\ SubOf[r] # None => r = u
  BY TypeAssumption
<1>2. CASE \E s \in Type : SubOf[s] = t
  <2>1. ParentOf(t) \in Type /\ SubOf[ParentOf(t)] = t
    BY <1>2, Zenon DEF ParentOf
  <2> QED  BY <1>1, <2>1 DEF Family
<1>3. CASE ~ \E s \in Type : SubOf[s] = t
  <2>1. ParentOf(t) = None
    BY <1>3 DEF ParentOf
  <2> QED  BY <1>1, <1>3, <2>1 DEF Family
<1> QED  BY <1>2, <1>3

LEMMA JoinKeeps ==
    ASSUME KeeperInv, NEW c \in Contact, NEW t \in Type, SettingChanged(c, t),
           SubOf[t] # None, Last(queue, c, SubOf[t]) # 0, JoinParent(c, t)
    PROVE  KeeperInv'
<1> DEFINE k == Last(queue, c, SubOf[t])
<1>0. /\ queue \in Seq(ItemType) /\ Len(queue) \in Nat /\ DOMAIN queue = 1 .. Len(queue)
      /\ \A i \in 1 .. Len(queue) : queue[i] \in ItemType
  BY Places1 DEF KeeperInv, Typed
<1>1. k \in 1 .. Len(queue) /\ queue[k].contact = c /\ queue[k].param.type = SubOf[t]
  <2>1. OneNoticeIn(queue)
    BY DEF KeeperInv, OneNotice, OneNoticeIn
  <2> QED  BY <1>0, <2>1, LastOfOne
<1>2. /\ queue' = [queue EXCEPT ![k].param.also = t] /\ hooks' = hooks \ {<<c, t>>}
      /\ UNCHANGED <<event, added, finished, thread, destructor, value, recorded, todo, seen>>
  BY DEF JoinParent, SettingChanged, Ours
<1> HIDE DEF k
<1> DEFINE new == [queue[k] EXCEPT !.param.also = t]
<1>3. /\ new \in ItemType /\ new.contact = c /\ new.wait = queue[k].wait
      /\ new.param.type = SubOf[t] /\ new.param.also = t
  BY <1>0, <1>1 DEF ItemType, ParamType
<1>4. /\ queue' \in Seq(ItemType) /\ Len(queue') = Len(queue) /\ DOMAIN queue' = 1 .. Len(queue)
      /\ \A i \in 1 .. Len(queue) : queue'[i] = IF i = k THEN new ELSE queue[i]
  <2>1. queue' = [queue EXCEPT ![k] = new]
    BY <1>2
  <2> HIDE DEF new
  <2> QED  BY <1>0, <1>1, <1>3, <2>1, ExceptSeq
<1> HIDE DEF new
<1>5. UNCHANGED <<place, item, until, owner>>
  BY <1>2 DEF thread, destructor
<1>6. Typed'
  BY <1>2, <1>4, <1>5 DEF KeeperInv, Typed
<1>7. CallbackOnly'
  BY <1>2, <1>5 DEF KeeperInv, CallbackOnly
<1>8. AlsoIsPart'
  BY <1>0, <1>3, <1>4 DEF KeeperInv, AlsoIsPart
<1>9. OneNotice'
  <2>1. \A i \in 1 .. Len(queue) : /\ queue'[i].contact = queue[i].contact
                                   /\ queue'[i].param.type = queue[i].param.type
    BY <1>1, <1>3, <1>4
  <2> QED  BY <1>4, <2>1 DEF KeeperInv, OneNotice
<1>10. Awake'
  <2>1. 1 \in 1 .. Len(queue)
    BY <1>0, <1>1
  <2>2. queue # <<>> /\ queue'[1].wait = queue[1].wait
    BY <1>3, <1>4, <2>1, EmptySeq
  <2> QED  BY <1>2, <1>5, <2>2 DEF KeeperInv, Awake
<1>11. Covered'
  <2> SUFFICES ASSUME owner' # "done", NEW d \in Contact, NEW u \in Type,
                      Differs(d, u)' \/ Stale(d, u)'
               PROVE  (<<d, u>> \in hooks)' \/ Waits(d, u)' \/ ToBeRead(d, u)'
    BY DEF Covered
  <2>1. <<d, u>> \in hooks \/ Waits(d, u) \/ ToBeRead(d, u)
    BY <1>2, <1>5 DEF KeeperInv, Covered, Stale, Differs
  <2>2. Waits(c, t)'
    BY <1>1, <1>3, <1>4 DEF Waits, Covers
  <2>3. Waits(d, u) => Waits(d, u)'
    <3> SUFFICES ASSUME NEW i \in 1 .. Len(queue), queue[i].contact = d, Covers(queue[i].param, u)
                 PROVE  Waits(d, u)'
      BY <1>0 DEF Waits
    <3>1. CASE i # k
      BY <1>4, <3>1 DEF Waits
    <3>2. CASE i = k
      <4>1. CASE u = SubOf[t]
        BY <1>1, <1>3, <1>4, <3>2, <4>1 DEF Waits, Covers
      <4>2. CASE queue[k].param.also = u
        <5>1. SubOf[u] = SubOf[t]
          BY <1>0, <1>1, <4>2, TypeAssumption DEF KeeperInv, AlsoIsPart
        <5>2. u = t
          BY <5>1, TypeAssumption
        <5> QED  BY <1>1, <1>3, <1>4, <3>2, <5>2 DEF Waits, Covers
      <4> QED  BY <1>1, <3>2, <4>1, <4>2 DEF Covers
    <3> QED  BY <3>1, <3>2
  <2>4. ToBeRead(d, u) => ToBeRead(d, u)'
    BY <1>2, <1>5 DEF ToBeRead
  <2>5. <<d, u>> \in hooks => <<d, u>> \in hooks' \/ (d = c /\ u = t)
    BY <1>2
  <2> QED  BY <2>1, <2>2, <2>3, <2>4, <2>5
<1> QED  BY <1>6, <1>7, <1>8, <1>9, <1>10, <1>11 DEF KeeperInv

(* The change of type t of contact c takes the place of what waited of its     *)
(* family, and covers what that covered.                                       *)
LEMMA ReplaceIs ==
    ASSUME KeeperInv, NEW c \in Contact, NEW t \in Type, Replace(c, t),
           ~(SubOf[t] # None /\ Last(queue, c, SubOf[t]) # 0)
    PROVE  /\ queue' \in Seq(ItemType) /\ event' = TRUE /\ added' = added + 1
           /\ OneNoticeIn(queue')
           /\ \A n \in 1 .. Len(queue') : queue'[n].param.also # None =>
                 SubOf[queue'[n].param.also] = queue'[n].param.type
           /\ Waits(c, t)'
           /\ \A d \in Contact, u \in Type : Waits(d, u) => Waits(d, u)'
<1> DEFINE part == Part(c, t)
           rest == Drop(queue, part)
           own == Last(rest, c, t)
           q == Drop(rest, own)
           also == Also(t, part, own, rest)
           new == Item(c, Data(t, also), Wait[t])
<1>0. /\ queue \in Seq(ItemType) /\ Len(queue) \in Nat /\ DOMAIN queue = 1 .. Len(queue)
      /\ \A i \in 1 .. Len(queue) : queue[i] \in ItemType
      /\ OneNoticeIn(queue)
  BY Places1 DEF KeeperInv, Typed, OneNotice, OneNoticeIn
<1>1. queue' \in Inserted(q, new) /\ event' = TRUE /\ added' = added + 1
  BY DEF Replace, InternalAdd
<1>2. /\ part \in 0 .. Len(queue)
      /\ part # 0 => /\ ParentOf(t) \in Type /\ SubOf[ParentOf(t)] = t
                     /\ queue[part].contact = c /\ queue[part].param.type = ParentOf(t)
      /\ \A i \in 1 .. Len(queue) :
            queue[i].contact = c /\ SubOf[queue[i].param.type] = t => part = i
  <2>1. CASE ParentOf(t) = None
    <3>1. part = 0 /\ 0 \in 0 .. Len(queue)
      BY <1>0, <2>1 DEF Part
    <3>2. \A i \in 1 .. Len(queue) : SubOf[queue[i].param.type] # t
      BY <1>0, <2>1, PartIs, TypeAssumption DEF ItemType, ParamType
    <3> QED  BY <3>1, <3>2
  <2>2. CASE ParentOf(t) # None
    <3>1. part = Last(queue, c, ParentOf(t)) /\ ParentOf(t) \in Type /\ SubOf[ParentOf(t)] = t
      BY <2>2, PartIs DEF Part
    <3>2. \A i \in 1 .. Len(queue) : SubOf[queue[i].param.type] = t => queue[i].param.type = ParentOf(t)
      BY <1>0, PartIs DEF ItemType, ParamType
    <3> HIDE DEF part
    <3> QED  BY <1>0, <3>1, <3>2, LastOfOne
  <2> QED  BY <2>1, <2>2
<1> HIDE DEF part
<1>3. /\ rest \in Seq(ItemType) /\ OneNoticeIn(rest)
      /\ \A n \in 1 .. Len(rest) : \E m \in 1 .. Len(queue) : m # part /\ rest[n] = queue[m]
      /\ \A m \in 1 .. Len(queue) : m # part => \E n \in 1 .. Len(rest) : rest[n] = queue[m]
  BY <1>0, <1>2, DropIs, DropKeepsOne
<1> HIDE DEF rest
<1>4. /\ own \in 0 .. Len(rest)
      /\ own # 0 => rest[own].contact = c /\ rest[own].param.type = t
      /\ \A i \in 1 .. Len(rest) : rest[i].contact = c /\ rest[i].param.type = t => own = i
  BY <1>3, LastOfOne
<1> HIDE DEF own
<1>5. /\ q \in Seq(ItemType) /\ OneNoticeIn(q)
      /\ \A n \in 1 .. Len(q) : \E m \in 1 .. Len(rest) : m # own /\ q[n] = rest[m]
      /\ \A m \in 1 .. Len(rest) : m # own => \E n \in 1 .. Len(q) : q[n] = rest[m]
  BY <1>3, <1>4, DropIs, DropKeepsOne
<1> HIDE DEF q
<1>6. \A n \in 1 .. Len(rest) : /\ rest[n] \in ItemType
                                /\ rest[n].param.also # None => SubOf[rest[n].param.also] = rest[n].param.type
  <2>1. \A m \in 1 .. Len(queue) : queue[m].param.also # None => SubOf[queue[m].param.also] = queue[m].param.type
    BY <1>0 DEF KeeperInv, AlsoIsPart
  <2> SUFFICES ASSUME NEW n \in 1 .. Len(rest)
               PROVE  /\ rest[n] \in ItemType
                      /\ rest[n].param.also # None => SubOf[rest[n].param.also] = rest[n].param.type
    OBVIOUS
  <2>2. PICK m \in 1 .. Len(queue) : rest[n] = queue[m]
    BY <1>3
  <2>3. queue[m] \in ItemType
    BY <1>0
  <2> QED  BY <2>1, <2>2, <2>3
<1>7. own # 0 => own \in 1 .. Len(rest)
  <2>1. Len(rest) \in Nat
    BY <1>3, Places1
  <2> QED  BY <1>4, <2>1
<1>8. /\ also \in Type \cup {None}
      /\ also # None => SubOf[also] = t
      /\ own # 0 /\ rest[own].param.also # None => also = rest[own].param.also
      /\ part # 0 => also = ParentOf(t)
  <2>1. CASE own # 0 /\ rest[own].param.also # None
    <3>1. also = rest[own].param.also
      BY <2>1 DEF Also
    <3> HIDE DEF also
    <3>a. own # 0 /\ rest[own].param.also # None /\ own \in 1 .. Len(rest)
      BY <1>7, <2>1
    <3>b. rest[own] \in ItemType /\ SubOf[rest[own].param.also] = rest[own].param.type
      BY <1>6, <3>a, Zenon
    <3>c. rest[own].param.type = t
      BY <1>4, <3>a, Zenon
    <3>2. rest[own].param \in ParamType
      BY <3>b DEF ItemType
    <3>d. rest[own].param.also \in Type
      BY <3>2, <3>a DEF ParamType
    <3>3. also \in Type /\ SubOf[also] = t
      BY <3>1, <3>b, <3>c, <3>d, Zenon
    <3>4. ParentOf(t) = also
      BY <3>3, PartIs
    <3> QED  BY <3>1, <3>3, <3>4
  <2>2. CASE ~(own # 0 /\ rest[own].param.also # None)
    <3>1. also = IF part # 0 THEN ParentOf(t) ELSE None
      BY <2>2 DEF Also
    <3> QED  BY <1>2, <2>2, <3>1
  <2> QED  BY <2>1, <2>2
<1> HIDE DEF also
<1>9. /\ new \in ItemType /\ new.contact = c /\ new.param.type = t /\ new.param.also = also
  BY <1>8, TypeAssumption, QueueAssumption DEF Item, Data, ItemType, ParamType, KeeperInv, Typed
<1> HIDE DEF new
<1>10. \A n \in 1 .. Len(q) : ~(q[n].contact = c /\ Family(q[n].param.type) = Family(t))
  <2> SUFFICES ASSUME NEW n \in 1 .. Len(q), q[n].contact = c, Family(q[n].param.type) = Family(t)
               PROVE  FALSE
    OBVIOUS
  <2>1. PICK m \in 1 .. Len(rest) : m # own /\ q[n] = rest[m]
    BY <1>5
  <2>2. PICK i \in 1 .. Len(queue) : i # part /\ rest[m] = queue[i]
    BY <1>3
  <2> DEFINE u == queue[i].param.type
  <2>3. u \in Type /\ queue[i].contact = c /\ Family(u) = Family(t)
    BY <1>0, <2>1, <2>2 DEF ItemType, ParamType
  <2>4. u # t
    BY <1>4, <2>1, <2>2
  <2>5. SubOf[u] # t
    BY <1>2, <2>2, <2>3
  <2>6. ~(SubOf[t] # None /\ u = SubOf[t])
    <3> SUFFICES ASSUME SubOf[t] # None, u = SubOf[t] PROVE FALSE
      OBVIOUS
    <3>1. Last(queue, c, SubOf[t]) = i
      BY <1>0, <2>3, LastOfOne
    <3> QED  BY <1>0, <3>1
  <2> QED  BY <2>3, <2>4, <2>5, <2>6, PartIs
<1>11. /\ queue' \in Seq(ItemType) /\ OneNoticeIn(queue')
       /\ \E n \in 1 .. Len(queue') : queue'[n] = new
       /\ \A m \in 1 .. Len(q) : \E n \in 1 .. Len(queue') : queue'[n] = q[m]
  <2>1. \A n \in 1 .. Len(q) : ~( q[n].contact = new.contact /\
                                  Family(q[n].param.type) = Family(new.param.type) )
    BY <1>9, <1>10
  <2>2. OneNoticeIn(queue')
    BY <1>1, <1>5, <1>9, <2>1, InsertKeepsOne
  <2> QED  BY <1>1, <1>5, <1>9, <2>2, InsertedIs
<1>12. \A n \in 1 .. Len(queue') : queue'[n] = new \/ \E m \in 1 .. Len(q) : queue'[n] = q[m]
  <2>1. PICK k \in 0 .. Len(q) : /\ Len(queue') = Len(q) + 1
                 /\ \A n \in 1 .. Len(queue') :
                       queue'[n] = IF n <= k THEN q[n] ELSE IF n = k + 1 THEN new ELSE q[n - 1]
    BY <1>1, <1>5, <1>9, InsertedIs
  <2>2. Len(q) \in Nat
    BY <1>5, Places1
  <2>3. ASSUME NEW n \in 1 .. Len(queue')
        PROVE  queue'[n] = new \/ \E m \in 1 .. Len(q) : queue'[n] = q[m]
    <3>1. CASE n <= k
      BY <2>1, <2>2, <2>3, <3>1
    <3>2. CASE n = k + 1
      BY <2>1, <2>2, <2>3, <3>2
    <3>3. CASE n > k + 1
      <4>1. n - 1 \in 1 .. Len(q) /\ ~(n <= k) /\ n # k + 1
        BY <2>1, <2>2, <2>3, <3>3
      <4> QED  BY <2>1, <2>3, <4>1
    <3> QED  BY <2>1, <2>2, <2>3, <3>1, <3>2, <3>3
  <2> QED  BY <2>3
<1>13. \A n \in 1 .. Len(queue') : queue'[n].param.also # None =>
                 SubOf[queue'[n].param.also] = queue'[n].param.type
  <2> SUFFICES ASSUME NEW n \in 1 .. Len(queue'), queue'[n].param.also # None
               PROVE  SubOf[queue'[n].param.also] = queue'[n].param.type
    OBVIOUS
  <2>1. CASE queue'[n] = new
    BY <1>8, <1>9, <2>1
  <2>2. ASSUME NEW m \in 1 .. Len(q), queue'[n] = q[m]
        PROVE  SubOf[queue'[n].param.also] = queue'[n].param.type
    <3>1. PICK o \in 1 .. Len(rest) : q[m] = rest[o]
      BY <1>5, <2>2
    <3>2. queue'[n] = rest[o] /\ rest[o].param.also # None
      BY <2>2, <3>1
    <3>3. SubOf[rest[o].param.also] = rest[o].param.type
      BY <1>6, <3>2, Zenon
    <3> QED  BY <3>2, <3>3
  <2> QED  BY <1>12, <2>1, <2>2
<1>14. DOMAIN queue' = 1 .. Len(queue')
  BY <1>11, LenProperties
<1>15. Waits(c, t)'
  BY <1>9, <1>11, <1>14 DEF Waits, Covers
<1>16. ASSUME NEW d \in Contact, NEW u \in Type, NEW i \in 1 .. Len(queue),
              queue[i].contact = d, Covers(queue[i].param, u)
       PROVE  Waits(d, u)'
  <2>0. u # None
    BY TypeAssumption
  <2>1. CASE i = part /\ part # 0
    <3>1. d = c /\ queue[i].param.type = ParentOf(t) /\ SubOf[ParentOf(t)] = t /\ also = ParentOf(t)
      BY <1>2, <1>8, <1>16, <2>1
    <3>2. queue[i].param.also # u
      <4> SUFFICES ASSUME queue[i].param.also = u PROVE FALSE
        OBVIOUS
      <4>1. SubOf[u] = ParentOf(t)
        BY <1>0, <1>16, <2>0, <3>1 DEF KeeperInv, AlsoIsPart
      <4>2. ParentOf(t) \in Type
        BY <1>2, <2>1
      <4> QED  BY <3>1, <4>1, <4>2, TypeAssumption
    <3>3. Covers(new.param, u)
      BY <1>9, <1>16, <3>1, <3>2 DEF Covers
    <3> QED  BY <1>9, <1>11, <1>14, <3>1, <3>3 DEF Waits
  <2>2. CASE i # part
    <3>1. PICK m \in 1 .. Len(rest) : rest[m] = queue[i]
      BY <1>3, <1>16, <2>2
    <3>2. CASE m # own
      <4>1. PICK j \in 1 .. Len(q) : q[j] = rest[m]
        BY <1>5, <3>2
      <4>2. PICK n \in 1 .. Len(queue') : queue'[n] = q[j]
        BY <1>11
      <4>3. queue'[n] = queue[i]
        BY <3>1, <4>1, <4>2
      <4> QED  BY <1>14, <1>16, <4>3 DEF Waits
    <3>3. CASE m = own
      <4>1. own # 0
        <5>1. Len(rest) \in Nat
          BY <1>3, Places1
        <5> QED  BY <3>3, <5>1
      <4>2. d = c /\ rest[own].param.type = t
        BY <1>4, <1>16, <3>1, <3>3, <4>1
      <4>3. Covers(new.param, u)
        BY <1>8, <1>9, <1>16, <2>0, <3>1, <3>3, <4>1, <4>2 DEF Covers
      <4> QED  BY <1>9, <1>11, <1>14, <4>2, <4>3 DEF Waits
    <3> QED  BY <3>2, <3>3
  <2> QED  BY <1>0, <1>16, <2>1, <2>2
<1> QED  BY <1>0, <1>1, <1>11, <1>13, <1>15, <1>16 DEF Waits

LEMMA ToldKeeps ==
    ASSUME KeeperInv, NEW c \in Contact, NEW t \in Type, SettingChanged(c, t)
    PROVE  KeeperInv'
<1>1. CASE SubOf[t] # None /\ Last(queue, c, SubOf[t]) # 0
  BY <1>1, JoinKeeps DEF SettingChanged
<1>2. CASE ~(SubOf[t] # None /\ Last(queue, c, SubOf[t]) # 0)
  <2>1. /\ Replace(c, t) /\ hooks' = hooks \ {<<c, t>>}
        /\ UNCHANGED <<finished, thread, destructor, value, recorded, todo, seen>>
    BY <1>2 DEF SettingChanged, Ours
  <2>2. UNCHANGED <<place, item, until, owner>>
    BY <2>1 DEF thread, destructor
  <2>3. /\ queue' \in Seq(ItemType) /\ event' = TRUE /\ added' = added + 1
        /\ OneNoticeIn(queue')
        /\ \A n \in 1 .. Len(queue') : queue'[n].param.also # None =>
              SubOf[queue'[n].param.also] = queue'[n].param.type
        /\ Waits(c, t)'
        /\ \A d \in Contact, u \in Type : Waits(d, u) => Waits(d, u)'
    BY <1>2, <2>1, ReplaceIs
  <2>4. Typed'
    BY <2>1, <2>2, <2>3 DEF KeeperInv, Typed
  <2>5. CallbackOnly' /\ Awake'
    BY <2>1, <2>2, <2>3 DEF KeeperInv, CallbackOnly, Awake
  <2>6. AlsoIsPart' /\ OneNotice'
    <3>1. DOMAIN queue' = 1 .. Len(queue')
      BY <2>3, LenProperties
    <3> QED  BY <2>3, <3>1 DEF AlsoIsPart, OneNotice, OneNoticeIn
  <2>7. Covered'
    <3> SUFFICES ASSUME owner' # "done", NEW d \in Contact, NEW u \in Type,
                        Differs(d, u)' \/ Stale(d, u)'
                 PROVE  (<<d, u>> \in hooks)' \/ Waits(d, u)' \/ ToBeRead(d, u)'
      BY DEF Covered
    <3>1. <<d, u>> \in hooks \/ Waits(d, u) \/ ToBeRead(d, u)
      BY <2>1, <2>2 DEF KeeperInv, Covered, Stale, Differs
    <3>2. ToBeRead(d, u) => ToBeRead(d, u)'
      BY <2>1, <2>2 DEF ToBeRead
    <3>3. <<d, u>> \in hooks => <<d, u>> \in hooks' \/ (d = c /\ u = t)
      BY <2>1
    <3> QED  BY <2>3, <3>1, <3>2, <3>3
  <2> QED  BY <2>4, <2>5, <2>6, <2>7 DEF KeeperInv
<1> QED  BY <1>1, <1>2

-----------------------------------------------------------------------------
LEMMA KeeperStarts == KeeperInit => KeeperInv
<1> SUFFICES ASSUME KeeperInit PROVE KeeperInv
  OBVIOUS
<1>1. /\ queue = <<>> /\ place = "loop" /\ item = None /\ until = 0 /\ added = 0
      /\ value \in [Contact -> [Type -> Value]] /\ recorded \in [Contact -> [Type -> Value]]
      /\ hooks = {} /\ todo = <<>> /\ seen = None
  BY TypeAssumption DEF KeeperInit, QueueInit
<1>2. Typed
  BY <1>1, EmptySeq DEF Typed, Places
<1>3. CallbackOnly /\ AlsoIsPart /\ Awake /\ OneNotice
  BY <1>1 DEF CallbackOnly, AlsoIsPart, Awake, OneNotice
<1>4. Covered
  BY <1>1 DEF Covered, Stale, KeeperInit
<1> QED  BY <1>2, <1>3, <1>4 DEF KeeperInv

LEMMA KeeperSteps == KeeperInv /\ [KeeperNext]_vars => KeeperInv'
<1> SUFFICES ASSUME KeeperInv, [KeeperNext]_vars PROVE KeeperInv'
  OBVIOUS
<1>1. CASE Changes
  BY <1>1, WriteKeeps, ToldKeeps DEF Changes
<1>2. CASE Work
  BY <1>2, BeginKeeps, TrackReadKeeps, TrackWriteKeeps, FinishedKeeps, RestingKeeps DEF Work
<1>3. CASE PreShutdown
  BY <1>3, DestructorKeeps DEF PreShutdown
<1>4. CASE Passing /\ UNCHANGED keeper
  BY <1>4, DestructorKeeps, DestroyKeeps, TickKeeps DEF Passing
<1>5. CASE UNCHANGED vars
  <2>1. /\ UNCHANGED <<queue, item, keeper, added, place, until, owner, event>>
    BY <1>5 DEF vars, queueVars, thread, destructor
  <2>2. Awake' /\ place' \in Places /\ until' \in Nat
    BY <2>1 DEF KeeperInv, Awake, Typed
  <2> QED  BY <2>1, <2>2, QuietKeeps
<1> QED  BY <1>1, <1>2, <1>3, <1>4, <1>5 DEF KeeperNext

(* The thread of the queue never sleeps past the moment the first item is due. *)
THEOREM NeverOversleeps == KeeperSpec => []NoOversleep
<1>1. KeeperInv => NoOversleep
  BY DEF KeeperInv, Awake, NoOversleep
<1> QED  BY <1>1, KeeperStarts, KeeperSteps, PTL DEF KeeperSpec

(* Changes of a contact that belong together make one notice.                  *)
THEOREM OneNoticeEach == KeeperSpec => []OneNotice
<1>1. KeeperInv => OneNotice
  BY DEF KeeperInv
<1> QED  BY <1>1, KeeperStarts, KeeperSteps, PTL DEF KeeperSpec

(* No change of a setting is forgotten, through joining, replacing and         *)
(* tracking, while the settings change under the callback.                     *)
THEOREM NoChangeForgotten == KeeperSpec => []ChangeCovered
<1>1. KeeperInv => ChangeCovered
  <2> SUFFICES ASSUME KeeperInv, owner # "done", NEW c \in Contact, NEW t \in Type,
                      Differs(c, t)
               PROVE  \/ <<c, t>> \in hooks
                      \/ ToBeRead(c, t)
                      \/ \E i \in 1..Len(queue) : queue[i].contact = c /\ Covers(queue[i].param, t)
    BY DEF ChangeCovered
  <2>1. <<c, t>> \in hooks \/ Waits(c, t) \/ ToBeRead(c, t)
    BY DEF KeeperInv, Covered
  <2>2. DOMAIN queue = 1 .. Len(queue)
    BY Places1 DEF KeeperInv, Typed
  <2> QED  BY <2>1, <2>2 DEF Waits
<1> QED  BY <1>1, KeeperStarts, KeeperSteps, PTL DEF KeeperSpec

-----------------------------------------------------------------------------
(***************************************************************************)
(* Calls (SkypeCall), for any contacts, calls and number of threads.       *)
(***************************************************************************)

USE CallAssumption

\* What Skype says next of a call is a status some thread is started for.
LEMMA SuccessorStatus ==
    ASSUME NEW k \in Calls, NEW x \in Status, NEW s \in Successors(k, x)
    PROVE  s \in Status /\ ThreadFor(s) \in {"ring", "end", "hold", "resume"}
<1>1. s \in {"routing", "ringing", "inprogress", "onhold", "ended"}
  BY DEF Successors, Status, Moves
<1>2. QED
  BY <1>1 DEF ThreadFor, Status

\* The starting of a thread keeps the types, and disturbs only a thread that
\* was not started yet.
LEMMA StartLemma ==
    ASSUME CallTypeOK, NEW k \in Calls, NEW f \in Kind \ {"none"}, Start(k, f)
    PROVE  LET u == <<k, started[k] + 1>> IN
           /\ u \in Thread
           /\ started[k] + 1 \in 1..MaxThreads
           /\ started' \in [Calls -> 0..MaxThreads]
           /\ started'[k] = started[k] + 1
           /\ \A j \in Calls : j # k => started'[j] = started[j]
           /\ kind' \in [Thread -> Kind] /\ pc' \in [Thread -> Place]
           /\ kind'[u] = f /\ pc'[u] = "start"
           /\ \A t \in Thread : t # u => kind'[t] = kind[t] /\ pc'[t] = pc[t]
<1> DEFINE u == <<k, started[k] + 1>>
<1>1. started[k] \in 0..MaxThreads /\ started[k] < MaxThreads
  BY DEF CallTypeOK, Start
<1>2. started[k] + 1 \in 1..MaxThreads
  BY <1>1
<1>3. u \in Thread
  BY <1>2 DEF Thread
<1> HIDE DEF u
<1>4. /\ kind' = [kind EXCEPT ![u] = f]
      /\ pc' = [pc EXCEPT ![u] = "start"]
      /\ started' = [started EXCEPT ![k] = started[k] + 1]
  BY DEF Start, u
<1>5. /\ kind' \in [Thread -> Kind] /\ pc' \in [Thread -> Place]
      /\ kind'[u] = f /\ pc'[u] = "start"
      /\ \A t \in Thread : t # u => kind'[t] = kind[t] /\ pc'[t] = pc[t]
  BY <1>3, <1>4 DEF CallTypeOK, Place
<1>6. /\ started' \in [Calls -> 0..MaxThreads]
      /\ started'[k] = started[k] + 1
      /\ \A j \in Calls : j # k => started'[j] = started[j]
  BY <1>2, <1>4 DEF CallTypeOK
<1>7. QED
  BY <1>2, <1>3, <1>5, <1>6 DEF u

-----------------------------------------------------------------------------
(* Each action keeps the invariant.  The actions fall into four groups: a    *)
(* thread is started, the user or the dial dialog acts, a thread of the      *)
(* critical section moves, a thread outside of it finishes.                  *)

\* A thread that is started disturbs no other thread and no setting.
LEMMA StartKeepsInv ==
    ASSUME CallInv, NEW k \in Calls, NEW f \in Kind \ {"none"}, Start(k, f),
           skype' \in [Calls -> Status],
           UNCHANGED <<section, exists, outNr, callId, onHold, overtaken, dialVars>>
    PROVE  CallInv'
<1> DEFINE u == <<k, started[k] + 1>>
<1>0. CallTypeOK /\ IdleAbove /\ MutexHeld /\ AtPartner /\ FoundRight /\ LateRing /\ Dialled /\ EndedStaysEnded
  BY DEF CallInv
<1>1. /\ u \in Thread
      /\ started[k] + 1 \in 1..MaxThreads
      /\ started' \in [Calls -> 0..MaxThreads]
      /\ started'[k] = started[k] + 1
      /\ \A j \in Calls : j # k => started'[j] = started[j]
      /\ kind' \in [Thread -> Kind] /\ pc' \in [Thread -> Place]
      /\ kind'[u] = f /\ pc'[u] = "start"
      /\ \A t \in Thread : t # u => kind'[t] = kind[t] /\ pc'[t] = pc[t]
  BY <1>0, StartLemma
<1>2. pc[u] = "idle"
  BY <1>0, <1>1 DEF IdleAbove, CallTypeOK
<1>3. CallTypeOK'
  BY <1>0, <1>1 DEF CallTypeOK, dialVars, section
<1>4. IdleAbove'
  <2> SUFFICES ASSUME NEW j \in Calls, NEW i \in 1..MaxThreads, i > started'[j]
               PROVE  pc'[<<j, i>>] = "idle"
    BY DEF IdleAbove
  <2>1. <<j, i>> \in Thread
    BY DEF Thread
  <2>2. started[k] \in 0..MaxThreads
    BY <1>0 DEF CallTypeOK
  <2>3. i > started[j] /\ <<j, i>> # u
    <3>1. CASE j = k
      BY <1>1, <2>2, <3>1
    <3>2. CASE j # k
      BY <1>1, <3>2
    <3>3. QED
      BY <3>1, <3>2
  <2>4. QED
    BY <1>0, <1>1, <2>1, <2>3 DEF IdleAbove
<1> HIDE DEF u
<1>5. MutexHeld' /\ FoundRight'
  BY <1>0, <1>1, <1>2 DEF MutexHeld, FoundRight, Inside, section
<1>6. AtPartner' /\ Dialled'
  BY <1>0 DEF AtPartner, Dialled, dialVars
<1>7. LateRing'
  BY <1>0, <1>1, <1>2 DEF LateRing, EndEntered
<1>8. EndedStaysEnded'
  BY <1>0, <1>1, <1>2 DEF EndedStaysEnded
<1>9. QED
  BY <1>3, <1>4, <1>5, <1>6, <1>7, <1>8 DEF CallInv

\* A step that leaves the threads, the lock and the CallIds alone and takes no
\* contact away.
LEMMA SettingsKeepInv ==
    ASSUME CallInv, CallTypeOK', Dialled', exists \subseteq exists',
           UNCHANGED <<started, kind, pc, section, callId, overtaken>>
    PROVE  CallInv'
BY DEF CallInv, CallTypeOK, IdleAbove, MutexHeld, AtPartner, FoundRight, LateRing, EndEntered,
       EndedStaysEnded, section

LEMMA EndsIs ==
    ASSUME CallTypeOK, Dialled, ~MainFree, DialEnds
    PROVE  dialogs' \in 0..MaxDialogs /\ dialing' = Nobody
<1>1. dialogs \in 0..MaxDialogs /\ dialogs > 0
  BY DEF CallTypeOK, Dialled, MainFree
<1>2. dialogs' = dialogs - 1 /\ dialing' = Nobody
  BY DEF DialEnds
<1>3. QED
  BY <1>1, <1>2

\* What the user does in the contact menu and the dial dialog.
LEMMA UserKeepsInv ==
    ASSUME CallInv,
           \/ DialFailed \/ DialDone \/ CloseDial
           \/ \E who \in Contacts \cup {Nobody} : OpenDial(who)
           \/ \E c \in Contacts : SkypeCall(c) \/ Dial(c)
    PROVE  CallInv'
<1>0. CallTypeOK /\ IdleAbove /\ MutexHeld /\ AtPartner /\ FoundRight /\ LateRing /\ Dialled /\ EndedStaysEnded
  BY DEF CallInv
<1>1. ASSUME NEW c \in Contacts, Call_(c) PROVE skype' \in [Calls -> Status]
  BY <1>0, <1>1 DEF Call_, CallTypeOK, Status
<1>2. ASSUME NEW c \in Contacts, SkypeCall(c) PROVE CallInv'
  <2>1. CallTypeOK' /\ Dialled'
    BY <1>0, <1>1, <1>2 DEF CallTypeOK, Dialled, SkypeCall, dialVars, section
  <2>2. QED
    BY <1>2, <2>1, SettingsKeepInv DEF SkypeCall
<1>3. ASSUME NEW c \in Contacts, Dial(c) PROVE CallInv'
  <2>1. exists' \subseteq Contacts /\ exists \subseteq exists' /\ c \in exists' /\ outNr' \subseteq exists'
    BY <1>0, <1>3 DEF Dial, CallTypeOK
  <2>2. CallTypeOK' /\ Dialled'
    BY <1>0, <1>1, <1>3, <2>1 DEF CallTypeOK, Dialled, Dial, section
  <2>3. QED
    BY <1>3, <2>1, <2>2, SettingsKeepInv DEF Dial
<1>4. CASE DialDone
  <2>1. dialogs' \in 0..MaxDialogs /\ dialing' = Nobody
    BY <1>0, <1>4, EndsIs DEF DialDone
  <2>2. CallTypeOK' /\ Dialled'
    BY <1>0, <1>4, <2>1 DEF CallTypeOK, Dialled, DialDone, DialEnds, section
  <2>3. QED
    BY <1>4, <2>2, SettingsKeepInv DEF DialDone
<1>5. CASE DialFailed
  <2>1. dialing \in Contacts /\ dialogs' \in 0..MaxDialogs /\ dialing' = Nobody
    BY <1>0, <1>5, EndsIs DEF DialFailed, MainFree, CallTypeOK
  <2>2. AddedByDial \subseteq {dialing}
    BY DEF AddedByDial
  <2>3. CallTypeOK' /\ Dialled'
    BY <1>0, <1>5, <2>1, <2>2 DEF CallTypeOK, DialFailed, HoldLeft, DialEnds, Dialled, section
  <2>4. AtPartner'
    BY <1>0, <1>5 DEF AtPartner, DialFailed
  <2>5. EndedStaysEnded'
    <3> SUFFICES ASSUME NEW t \in Thread, kind[t] = "end", pc[t] = "done", Of(t) \notin overtaken
                 PROVE  callId'[Partner[Of(t)]] # Of(t)
      BY <1>5 DEF EndedStaysEnded, DialFailed
    <3>1. Of(t) \in Calls /\ Partner[Of(t)] \in Contacts
      BY DEF Of, Thread
    <3>2. callId[Partner[Of(t)]] # Of(t) /\ NoCall # Of(t)
      BY <1>0, <3>1 DEF EndedStaysEnded
    <3>3. QED
      BY <1>5, <3>1, <3>2 DEF DialFailed
  <2>6. FoundRight'
    <3> SUFFICES ASSUME NEW t \in Thread, pc[t] \in {"found", "cleared"}
                 PROVE  callId'[found] = NoCall
      BY <1>0, <1>5 DEF FoundRight, DialFailed, section
    <3>1. found \in Contacts /\ callId[found] = NoCall
      BY <1>0 DEF FoundRight, Of, Thread
    <3>2. QED
      BY <1>5, <3>1 DEF DialFailed
  <2>7. IdleAbove' /\ MutexHeld' /\ LateRing'
    BY <1>0, <1>5 DEF IdleAbove, MutexHeld, LateRing, EndEntered, DialFailed, section
  <2>8. QED
    BY <2>3, <2>4, <2>5, <2>6, <2>7 DEF CallInv
<1>6. CASE CloseDial
  <2>1. dialogs > 0 /\ dialogs \in 0..MaxDialogs
    BY <1>0, <1>6 DEF CloseDial, CallTypeOK
  <2>2. CallTypeOK' /\ Dialled'
    BY <1>0, <1>6, <2>1 DEF CallTypeOK, Dialled, CloseDial, MainFree, section
  <2>3. QED
    BY <1>6, <2>2, SettingsKeepInv DEF CloseDial
<1>7. ASSUME NEW who \in Contacts \cup {Nobody}, OpenDial(who) PROVE CallInv'
  <2>1. dialogs \in 0..MaxDialogs /\ dialogs + 1 \in 0..MaxDialogs
    BY <1>0, <1>7 DEF OpenDial, CallTypeOK
  <2>2. CallTypeOK' /\ Dialled'
    BY <1>0, <1>7, <2>1 DEF CallTypeOK, Dialled, OpenDial, MainFree, section
  <2>3. QED
    BY <1>7, <2>2, SettingsKeepInv DEF OpenDial
<1>8. QED
  BY <1>2, <1>3, <1>4, <1>5, <1>6, <1>7

-----------------------------------------------------------------------------
\* A thread that moves on to place p keeps the types and leaves every other
\* thread where it was.
LEMMA GotoLemma ==
    ASSUME CallTypeOK, NEW t \in Thread, NEW p \in Place, Goto(t, p)
    PROVE  /\ pc' \in [Thread -> Place] /\ pc'[t] = p
           /\ \A u \in Thread : u # t => pc'[u] = pc[u]
BY DEF CallTypeOK, Goto

LEMMA IdleAboveKept ==
    ASSUME CallTypeOK, IdleAbove, NEW t \in Thread, NEW p \in Place,
           Goto(t, p), pc[t] # "idle", UNCHANGED started
    PROVE  IdleAbove'
<1> SUFFICES ASSUME NEW k \in Calls, NEW i \in 1..MaxThreads, i > started[k]
             PROVE  pc'[<<k, i>>] = "idle"
  BY DEF IdleAbove
<1>1. <<k, i>> \in Thread /\ pc[<<k, i>>] = "idle"
  BY DEF IdleAbove, Thread
<1>2. QED
  BY <1>1, GotoLemma

LEMMA OfCall == ASSUME NEW t \in Thread PROVE Of(t) \in Calls /\ Partner[Of(t)] \in Contacts
BY DEF Of, Thread

\* Entering the critical section: the thread becomes the owner of the lock.
LEMMA EnterKeepsInv ==
    ASSUME CallInv, NEW t \in Thread, RingEnter(t) \/ EndEnter(t)
    PROVE  CallInv'
<1>0. CallTypeOK /\ IdleAbove /\ MutexHeld /\ AtPartner /\ FoundRight /\ LateRing /\ Dialled /\ EndedStaysEnded
  BY DEF CallInv
<1>1. /\ Enter(t)
      /\ UNCHANGED <<skype, started, kind, exists, outNr, callId, onHold, dialVars>>
  BY DEF RingEnter, EndEnter
<1>2. /\ pc' \in [Thread -> Place] /\ pc'[t] = "entered"
      /\ \A u \in Thread : u # t => pc'[u] = pc[u]
      /\ pc[t] = "start" /\ mutex = NoThread /\ mutex' = t /\ UNCHANGED found
  <2>1. Goto(t, "entered") /\ "entered" \in Place
    BY <1>1 DEF Enter, Place, Inside
  <2>2. QED
    BY <1>0, <1>1, <2>1, GotoLemma DEF Enter
<1>3. overtaken \subseteq overtaken' /\ overtaken' \subseteq Calls
  BY <1>0, OfCall DEF RingEnter, EndEnter, CallTypeOK
<1>4. CallTypeOK'
  BY <1>0, <1>1, <1>2, <1>3 DEF CallTypeOK, dialVars
<1>5. IdleAbove'
  BY <1>0, <1>1, IdleAboveKept DEF Enter, Place, Inside
<1>6. \A u \in Thread : pc[u] \notin Inside
  BY <1>0, <1>2 DEF MutexHeld, Thread
<1>7. MutexHeld' /\ FoundRight'
  BY <1>2, <1>6 DEF MutexHeld, FoundRight, Inside
<1>8. AtPartner' /\ Dialled'
  BY <1>0, <1>1 DEF AtPartner, Dialled, dialVars
<1>9. EndedStaysEnded'
  BY <1>0, <1>1, <1>2, <1>3 DEF EndedStaysEnded
<1>10. LateRing'
  <2> SUFFICES ASSUME NEW u \in Thread, kind'[u] = "ring", pc'[u] \in {"entered", "found"},
                      EndEntered(Of(u))'
               PROVE  Of(u) \in overtaken'
    BY DEF LateRing
  <2>1. u = t
    BY <1>2, <1>6 DEF Inside
  <2>2. RingEnter(t)
    BY <1>1, <2>1 DEF EndEnter
  <2>3. EndEntered(Of(t))
    BY <1>1, <1>2, <2>1, <2>2 DEF EndEntered, RingEnter
  <2>4. QED
    BY <2>1, <2>2, <2>3 DEF RingEnter
<1>11. QED
  BY <1>4, <1>5, <1>7, <1>8, <1>9, <1>10 DEF CallInv

\* The owner of the lock moves on: to another place inside, or out of it.
LEMMA OwnerMoves ==
    ASSUME CallTypeOK, MutexHeld, IdleAbove, LateRing, NEW t \in Thread, pc[t] \in Inside,
           \/ Leave(t)
           \/ \E p \in Inside : /\ Goto(t, p) /\ UNCHANGED mutex
                                /\ p = "found" => pc[t] = "entered"
                                /\ p # "entered" /\ (p = "cleared" => kind[t] = "end"),
           UNCHANGED <<started, kind, overtaken>>
    PROVE  /\ mutex = t
           /\ pc' \in [Thread -> Place] /\ pc'[t] \in Place
           /\ \A u \in Thread : u # t => pc'[u] = pc[u]
           /\ \A u \in Thread : u # t => pc'[u] \notin Inside
           /\ mutex' \in Thread \cup {NoThread}
           /\ MutexHeld' /\ IdleAbove'
           /\ kind[t] = "ring" => LateRing'
<1>1. PICK p \in Place :
          /\ Goto(t, p) /\ p # "entered" /\ p \in Inside \cup {"done"}
          /\ IF p = "done" THEN mutex' = NoThread ELSE UNCHANGED mutex
          /\ p = "found" => pc[t] = "entered"
  BY DEF Leave, Inside, Place
<1>2. /\ pc' \in [Thread -> Place] /\ pc'[t] = p
      /\ \A u \in Thread : u # t => pc'[u] = pc[u]
  BY <1>1, GotoLemma
<1>3. mutex = t
  BY DEF MutexHeld
<1>4. \A u \in Thread : u # t => pc[u] \notin Inside
  BY <1>3 DEF MutexHeld
<1>5. MutexHeld'
  <2>1. NoThread \notin Thread /\ "done" \notin Inside
    BY DEF Thread, Inside
  <2>2. CASE p = "done"
    BY <1>1, <1>2, <1>4, <2>1, <2>2 DEF MutexHeld
  <2>3. CASE p # "done"
    BY <1>1, <1>2, <1>3, <1>4, <2>3 DEF MutexHeld
  <2>4. QED
    BY <2>2, <2>3
<1>6. IdleAbove'
  BY <1>1, <1>2, IdleAboveKept DEF Inside
<1>7. ASSUME kind[t] = "ring" PROVE LateRing'
  <2> SUFFICES ASSUME NEW u \in Thread, kind[u] = "ring", pc'[u] \in {"entered", "found"},
                      EndEntered(Of(u))'
               PROVE  Of(u) \in overtaken
    BY DEF LateRing
  <2>1. u = t /\ pc[t] = "entered"
    BY <1>1, <1>2, <1>4 DEF Inside
  <2>2. EndEntered(Of(t))
    BY <1>2, <1>7, <2>1 DEF EndEntered
  <2>3. QED
    BY <1>7, <2>1, <2>2 DEF LateRing
<1>8. mutex' \in Thread \cup {NoThread}
  BY <1>1 DEF CallTypeOK
<1>9. QED
  BY <1>2, <1>3, <1>4, <1>5, <1>6, <1>7, <1>8

\* An EndCallThread inside leaves no RingThread inside.
LEMMA EndAlone ==
    ASSUME MutexHeld, NEW t \in Thread, kind[t] = "end", pc[t] \in Inside,
           \A u \in Thread : u # t => pc'[u] \notin Inside, UNCHANGED kind
    PROVE  LateRing'
BY DEF LateRing, Inside

\* The contact of the caller is looked up.
LEMMA RingFindKeepsInv ==
    ASSUME CallInv, NEW t \in Thread, RingFind(t)
    PROVE  CallInv'
<1> DEFINE c == Partner[Of(t)]
<1>0. CallTypeOK /\ IdleAbove /\ MutexHeld /\ AtPartner /\ FoundRight /\ LateRing /\ Dialled /\ EndedStaysEnded
  BY DEF CallInv
<1>1. /\ kind[t] = "ring" /\ pc[t] = "entered"
      /\ UNCHANGED <<skype, started, kind, exists, outNr, callId, onHold, overtaken, dialVars>>
  BY DEF RingFind
<1>2. \/ Leave(t)
      \/ \E p \in Inside : /\ Goto(t, p) /\ UNCHANGED mutex
                           /\ p = "found" => pc[t] = "entered"
                           /\ p # "entered" /\ (p = "cleared" => kind[t] = "end")
  BY <1>1 DEF RingFind, EarlyExit, Inside, section
<1>3. /\ mutex = t
      /\ pc' \in [Thread -> Place]
      /\ \A u \in Thread : u # t => pc'[u] = pc[u]
      /\ \A u \in Thread : u # t => pc'[u] \notin Inside
      /\ mutex' \in Thread \cup {NoThread}
      /\ MutexHeld' /\ IdleAbove' /\ LateRing'
  BY <1>0, <1>1, <1>2, OwnerMoves DEF Inside
<1>4. c \in Contacts /\ Of(t) \in Calls
  BY OfCall
<1>5. /\ found' \in Contacts \cup {Nobody}
      /\ pc'[t] \in {"found", "unknown", "done"}
      /\ pc'[t] = "found" => found' = c /\ callId[c] = NoCall
  <2>1. CASE c \in exists /\ ~AlreadyRinging(c) /\ found' = c /\ Goto(t, "found")
    <3>1. pc'[t] = "found"
      BY <1>0, <2>1, GotoLemma DEF Place, Inside
    <3>2. QED
      BY <1>4, <2>1, <3>1 DEF AlreadyRinging, HasCallId
  <2>2. CASE Leave(t)
    <3>1. pc'[t] = "done"
      BY <1>0, <2>2, GotoLemma DEF Leave, Place
    <3>2. QED
      BY <2>2, <3>1 DEF Leave
  <2>3. CASE Goto(t, "unknown") /\ UNCHANGED section
    <3>1. pc'[t] = "unknown"
      BY <1>0, <2>3, GotoLemma DEF Place, Inside
    <3>2. QED
      BY <1>0, <2>3, <3>1 DEF section, CallTypeOK
  <2>4. QED
    BY <2>1, <2>2, <2>3 DEF RingFind, EarlyExit
<1>6. CallTypeOK'
  BY <1>0, <1>1, <1>3, <1>5 DEF CallTypeOK, dialVars
<1>7. FoundRight'
  BY <1>1, <1>3, <1>5 DEF FoundRight, Inside
<1>8. AtPartner' /\ Dialled' /\ EndedStaysEnded'
  BY <1>0, <1>1, <1>3 DEF AtPartner, Dialled, EndedStaysEnded, dialVars
<1>9. QED
  BY <1>3, <1>6, <1>7, <1>8 DEF CallInv

\* The CallId is saved: only a RingThread that was overtaken can bring back the
\* CallId of a call that an EndCallThread has cleared.
LEMMA RingSaveKeepsInv ==
    ASSUME CallInv, NEW t \in Thread, RingSave(t)
    PROVE  CallInv'
<1> DEFINE c == Partner[Of(t)]
<1>0. CallTypeOK /\ IdleAbove /\ MutexHeld /\ AtPartner /\ FoundRight /\ LateRing /\ Dialled /\ EndedStaysEnded
  BY DEF CallInv
<1>1. /\ kind[t] = "ring" /\ pc[t] = "found" /\ found = c
      /\ UNCHANGED <<skype, started, kind, section, exists, outNr, onHold, overtaken, dialVars>>
  BY <1>0 DEF RingSave, FoundRight
<1>2. Goto(t, "saved") /\ UNCHANGED mutex /\ "saved" \in Inside
  BY DEF RingSave, section, Inside
<1>3. /\ mutex = t
      /\ pc' \in [Thread -> Place] /\ pc'[t] = "saved"
      /\ \A u \in Thread : u # t => pc'[u] = pc[u]
      /\ \A u \in Thread : u # t => pc'[u] \notin Inside
      /\ mutex' \in Thread \cup {NoThread}
      /\ MutexHeld' /\ IdleAbove' /\ LateRing'
  <2>1. pc'[t] = "saved"
    BY <1>0, <1>2, GotoLemma DEF Place
  <2>2. QED
    BY <1>0, <1>1, <1>2, <2>1, OwnerMoves DEF Inside
<1>4. Of(t) \in Calls /\ c \in Contacts
  BY OfCall
<1>5. callId' = [d \in Contacts |-> IF d = c /\ d \in exists THEN Of(t) ELSE callId[d]]
  BY <1>1 DEF RingSave
<1> HIDE DEF c
<1>6. CallTypeOK'
  BY <1>0, <1>1, <1>3, <1>4, <1>5 DEF CallTypeOK, dialVars, section
<1>7. AtPartner'
  <2> SUFFICES ASSUME NEW d \in Contacts, callId'[d] # NoCall
               PROVE  Partner[callId'[d]] = d /\ d \in exists
    BY <1>1 DEF AtPartner
  <2>1. CASE d = c /\ d \in exists
    BY <1>4, <1>5, <2>1 DEF c
  <2>2. CASE ~(d = c /\ d \in exists)
    BY <1>0, <1>5, <2>2 DEF AtPartner
  <2>3. QED
    BY <2>1, <2>2
<1>8. EndedStaysEnded'
  <2> SUFFICES ASSUME NEW u \in Thread, kind[u] = "end", pc'[u] = "done", Of(u) \notin overtaken
               PROVE  callId'[Partner[Of(u)]] # Of(u)
    BY <1>1 DEF EndedStaysEnded
  <2>1. pc[u] = "done"
    BY <1>1, <1>3
  <2>2. callId[Partner[Of(u)]] # Of(u)
    BY <1>0, <2>1 DEF EndedStaysEnded
  <2>3. Of(u) # Of(t)
    BY <1>0, <1>1, <2>1 DEF LateRing, EndEntered
  <2>4. Of(u) \in Calls /\ Partner[Of(u)] \in Contacts
    BY OfCall
  <2>5. QED
    BY <1>5, <2>2, <2>3, <2>4
<1>9. FoundRight' /\ Dialled'
  BY <1>0, <1>1, <1>3 DEF FoundRight, Dialled, dialVars, Inside
<1>10. QED
  BY <1>3, <1>6, <1>7, <1>8, <1>9 DEF CallInv

\* The rest of RingThread touches no CallId.
LEMMA RingTypeKeepsInv ==
    ASSUME CallInv, NEW t \in Thread, RingType(t)
    PROVE  CallInv'
<1>0. CallTypeOK /\ IdleAbove /\ MutexHeld /\ AtPartner /\ FoundRight /\ LateRing /\ Dialled /\ EndedStaysEnded
  BY DEF CallInv
<1>1. /\ kind[t] = "ring" /\ pc[t] \in Inside /\ Leave(t)
      /\ UNCHANGED <<skype, started, kind, callId, onHold, overtaken, dialVars>>
  BY DEF RingType, Inside
<1>2. /\ pc' \in [Thread -> Place] /\ pc'[t] = "done"
      /\ \A u \in Thread : u # t => pc'[u] = pc[u]
      /\ \A u \in Thread : u # t => pc'[u] \notin Inside
      /\ mutex' \in Thread \cup {NoThread} /\ found' = Nobody
      /\ MutexHeld' /\ IdleAbove' /\ LateRing'
  <2>1. pc'[t] = "done" /\ found' = Nobody
    BY <1>0, <1>1, GotoLemma DEF Leave, Place
  <2>2. QED
    BY <1>0, <1>1, <2>1, OwnerMoves
<1>3. exists \subseteq exists' /\ exists' \subseteq Contacts /\ outNr' \subseteq exists'
  BY <1>0, OfCall DEF RingType, CallTypeOK
<1>4. CallTypeOK'
  BY <1>0, <1>1, <1>2, <1>3 DEF CallTypeOK, dialVars
<1>5. AtPartner' /\ Dialled'
  BY <1>0, <1>1, <1>3 DEF AtPartner, Dialled, dialVars
<1>6. EndedStaysEnded'
  BY <1>0, <1>1, <1>2 DEF EndedStaysEnded
<1>7. FoundRight'
  BY <1>2 DEF FoundRight, Inside
<1>8. QED
  BY <1>2, <1>4, <1>5, <1>6, <1>7 DEF CallInv

\* EndCallThread removes the CallId of its call.
LEMMA EndClearKeepsInv ==
    ASSUME CallInv, NEW t \in Thread, EndClear(t)
    PROVE  CallInv'
<1>0. CallTypeOK /\ IdleAbove /\ MutexHeld /\ AtPartner /\ FoundRight /\ LateRing /\ Dialled /\ EndedStaysEnded
  BY DEF CallInv
<1>1. /\ kind[t] = "end" /\ pc[t] = "entered" /\ pc[t] \in Inside
      /\ UNCHANGED <<skype, started, kind, exists, outNr, onHold, overtaken, dialVars>>
  BY DEF EndClear, Inside
<1>2. Of(t) \in Calls /\ Partner[Of(t)] \in Contacts /\ NoCall # Of(t)
  BY OfCall
<1>3. \A d \in WithCallId(Of(t)) : d = Partner[Of(t)] /\ d \in Contacts
  BY <1>0, <1>2 DEF WithCallId, AtPartner, CallTypeOK
<1>4. \/ /\ found' = Partner[Of(t)] /\ callId' = [callId EXCEPT ![Partner[Of(t)]] = NoCall]
         /\ Goto(t, "cleared") /\ UNCHANGED mutex
      \/ Leave(t) /\ UNCHANGED callId /\ callId[Partner[Of(t)]] # Of(t)
  <2>1. callId[Partner[Of(t)]] = Of(t) => Partner[Of(t)] \in WithCallId(Of(t))
    BY <1>0, <1>2 DEF AtPartner, WithCallId
  <2>2. QED
    BY <1>3, <2>1 DEF EndClear
<1>5. /\ mutex = t
      /\ pc' \in [Thread -> Place]
      /\ \A u \in Thread : u # t => pc'[u] = pc[u]
      /\ \A u \in Thread : u # t => pc'[u] \notin Inside
      /\ mutex' \in Thread \cup {NoThread}
      /\ MutexHeld' /\ IdleAbove'
  BY <1>0, <1>1, <1>4, OwnerMoves DEF Inside
<1>6. LateRing'
  BY <1>0, <1>1, <1>5, EndAlone
<1>7. /\ found' \in Contacts \cup {Nobody} /\ callId' \in [Contacts -> Calls \cup {NoCall}]
      /\ callId'[Partner[Of(t)]] # Of(t)
      /\ \A d \in Contacts : callId'[d] \in {callId[d], NoCall}
      /\ pc'[t] \in {"cleared", "done"}
      /\ pc'[t] = "cleared" => found' = Partner[Of(t)] /\ callId'[found'] = NoCall
  <2>1. CASE Leave(t) /\ UNCHANGED callId /\ callId[Partner[Of(t)]] # Of(t)
    <3>1. pc'[t] = "done" /\ found' = Nobody
      BY <1>0, <2>1, GotoLemma DEF Leave, Place
    <3>2. QED
      BY <1>0, <2>1, <3>1 DEF CallTypeOK
  <2>2. CASE /\ found' = Partner[Of(t)] /\ callId' = [callId EXCEPT ![Partner[Of(t)]] = NoCall]
             /\ Goto(t, "cleared")
    <3>1. pc'[t] = "cleared"
      BY <1>0, <2>2, GotoLemma DEF Inside, Place
    <3>2. QED
      BY <1>0, <1>2, <2>2, <3>1 DEF CallTypeOK
  <2>3. QED
    BY <1>4, <2>1, <2>2
<1>8. CallTypeOK'
  BY <1>0, <1>1, <1>5, <1>7 DEF CallTypeOK, dialVars
<1>9. AtPartner' /\ Dialled'
  BY <1>0, <1>1, <1>7 DEF AtPartner, Dialled, dialVars
<1>10. FoundRight'
  BY <1>1, <1>5, <1>7 DEF FoundRight, Inside
<1>11. EndedStaysEnded'
  <2> SUFFICES ASSUME NEW u \in Thread, kind[u] = "end", pc'[u] = "done", Of(u) \notin overtaken
               PROVE  callId'[Partner[Of(u)]] # Of(u)
    BY <1>1 DEF EndedStaysEnded
  <2>1. Of(u) \in Calls /\ Partner[Of(u)] \in Contacts /\ NoCall # Of(u)
    BY OfCall
  <2>2. CASE u # t
    BY <1>0, <1>5, <1>7, <2>1, <2>2 DEF EndedStaysEnded
  <2>3. QED
    BY <1>7, <2>2
<1>12. QED
  BY <1>5, <1>6, <1>8, <1>9, <1>10, <1>11 DEF CallInv

\* What EndCallThread deletes with its contact is no CallId: it took that away
\* before, and nobody could store another.
LEMMA EndDeleteKeepsCallIds ==
    ASSUME CallInv, NEW t \in Thread, EndDelete(t)
    PROVE  UNCHANGED callId
<1>1. callId[found] = NoCall /\ callId \in [Contacts -> Calls \cup {NoCall}]
  BY DEF CallInv, FoundRight, EndDelete, CallTypeOK
<1>2. \A d \in OnlyTemporary(found) : d = found
  BY DEF OnlyTemporary
<1>3. callId' = [d \in Contacts |-> IF d \in OnlyTemporary(found) THEN NoCall ELSE callId[d]]
  BY DEF EndDelete
<1>4. callId' = [d \in Contacts |-> callId[d]]
  BY <1>1, <1>2, <1>3
<1>5. QED
  BY <1>1, <1>4

LEMMA EndDeleteKeepsInv ==
    ASSUME CallInv, NEW t \in Thread, EndDelete(t)
    PROVE  CallInv'
<1>0. CallTypeOK /\ IdleAbove /\ MutexHeld /\ AtPartner /\ FoundRight /\ LateRing /\ Dialled /\ EndedStaysEnded
  BY DEF CallInv
<1>1. /\ kind[t] = "end" /\ pc[t] = "cleared" /\ pc[t] \in Inside /\ Leave(t)
      /\ exists' = exists \ OnlyTemporary(found) /\ outNr' = outNr \ OnlyTemporary(found)
      /\ onHold' = onHold \ OnlyTemporary(found)
      /\ UNCHANGED <<skype, started, kind, callId, overtaken, dialVars>>
  BY EndDeleteKeepsCallIds DEF EndDelete, HoldLeft, Inside
<1>2. /\ pc' \in [Thread -> Place] /\ pc'[t] = "done"
      /\ \A u \in Thread : u # t => pc'[u] = pc[u]
      /\ \A u \in Thread : u # t => pc'[u] \notin Inside
      /\ mutex' \in Thread \cup {NoThread} /\ found' = Nobody
      /\ MutexHeld' /\ IdleAbove'
  <2>1. pc'[t] = "done" /\ found' = Nobody
    BY <1>0, <1>1, GotoLemma DEF Leave, Place
  <2>2. QED
    BY <1>0, <1>1, <2>1, OwnerMoves
<1>3. LateRing'
  BY <1>0, <1>1, <1>2, EndAlone
<1>4. CallTypeOK'
  BY <1>0, <1>1, <1>2 DEF CallTypeOK, dialVars
<1>5. found = Partner[Of(t)] /\ callId[found] = NoCall
  BY <1>0, <1>1 DEF FoundRight
<1>6. AtPartner' /\ Dialled'
  <2>1. \A d \in OnlyTemporary(found) : callId[d] = NoCall
    BY <1>5 DEF OnlyTemporary
  <2>2. QED
    BY <1>0, <1>1, <2>1 DEF AtPartner, Dialled, dialVars
<1>7. FoundRight'
  BY <1>2 DEF FoundRight, Inside
<1>8. EndedStaysEnded'
  <2> SUFFICES ASSUME NEW u \in Thread, kind[u] = "end", pc'[u] = "done", Of(u) \notin overtaken
               PROVE  callId[Partner[Of(u)]] # Of(u)
    BY <1>1 DEF EndedStaysEnded
  <2>1. Of(u) \in Calls /\ NoCall # Of(u)
    BY OfCall
  <2>2. CASE u = t
    BY <1>5, <2>1, <2>2
  <2>3. CASE u # t
    BY <1>0, <1>2, <2>3 DEF EndedStaysEnded
  <2>4. QED
    BY <2>2, <2>3
<1>9. QED
  BY <1>2, <1>3, <1>4, <1>6, <1>7, <1>8 DEF CallInv

\* HoldCallThread and ResumeCallThread never hold the lock.
LEMMA HoldKeepsInv ==
    ASSUME CallInv, NEW t \in Thread, HoldCall(t) \/ ResumeCall(t)
    PROVE  CallInv'
<1>0. CallTypeOK /\ IdleAbove /\ MutexHeld /\ AtPartner /\ FoundRight /\ LateRing /\ Dialled /\ EndedStaysEnded
  BY DEF CallInv
<1>1. /\ kind[t] \in {"hold", "resume"} /\ pc[t] = "start" /\ Goto(t, "done")
      /\ onHold' \subseteq exists
      /\ UNCHANGED <<skype, started, kind, section, exists, outNr, callId, overtaken, dialVars>>
  BY <1>0 DEF HoldCall, ResumeCall, CallTypeOK
<1>2. /\ pc' \in [Thread -> Place] /\ pc'[t] = "done"
      /\ \A u \in Thread : u # t => pc'[u] = pc[u]
  BY <1>0, <1>1, GotoLemma DEF Place
<1>3. CallTypeOK'
  BY <1>0, <1>1, <1>2 DEF CallTypeOK, dialVars, section
<1>4. IdleAbove'
  BY <1>0, <1>1, IdleAboveKept DEF Place
<1>5. MutexHeld' /\ FoundRight'
  BY <1>0, <1>1, <1>2 DEF MutexHeld, FoundRight, Inside, section
<1>6. AtPartner' /\ Dialled'
  BY <1>0, <1>1 DEF AtPartner, Dialled, dialVars
<1>7. LateRing'
  BY <1>0, <1>1, <1>2 DEF LateRing, EndEntered
<1>8. EndedStaysEnded'
  BY <1>0, <1>1, <1>2 DEF EndedStaysEnded
<1>9. QED
  BY <1>3, <1>4, <1>5, <1>6, <1>7, <1>8 DEF CallInv

-----------------------------------------------------------------------------
LEMMA InitInv == CallInit => CallInv
<1> SUFFICES ASSUME CallInit PROVE CallInv
  OBVIOUS
<1>1. CallTypeOK
  <2>1. skype \in [Calls -> Status] /\ started \in [Calls -> 0..MaxThreads]
    BY DEF CallInit, Status
  <2>2. kind \in [Thread -> Kind] /\ pc \in [Thread -> Place]
    BY DEF CallInit, Kind, Place
  <2>5. dialogs \in 0..MaxDialogs
    BY DEF CallInit
  <2>3. callId \in [Contacts -> Calls \cup {NoCall}]
    BY DEF CallInit
  <2>4. QED
    BY <2>1, <2>2, <2>3, <2>5 DEF CallInit, CallTypeOK
<1>2. IdleAbove
  BY DEF CallInit, IdleAbove, Thread
<1>3. MutexHeld
  BY DEF CallInit, MutexHeld, Thread, Inside
<1>4. AtPartner /\ FoundRight /\ LateRing /\ Dialled /\ EndedStaysEnded
  BY DEF CallInit, AtPartner, FoundRight, LateRing, Dialled, EndedStaysEnded
<1>5. QED
  BY <1>1, <1>2, <1>3, <1>4 DEF CallInv

LEMMA StatusKeepsInv ==
    ASSUME CallInv, NEW k \in Calls, NEW s \in Status, CallStatus(k, s)
    PROVE  CallInv'
<1>1. skype[k] \in Status /\ skype \in [Calls -> Status]
  BY DEF CallInv, CallTypeOK
<1>2. ThreadFor(s) \in Kind \ {"none"}
  BY <1>1, SuccessorStatus DEF CallStatus, Kind
<1>3. skype' \in [Calls -> Status]
  BY <1>1 DEF CallStatus
<1>4. QED
  BY <1>2, <1>3, StartKeepsInv DEF CallStatus

\* Every step keeps the invariant.
LEMMA NextInv == CallInv /\ [CallNext]_callVars => CallInv'
<1> SUFFICES ASSUME CallInv, [CallNext]_callVars PROVE CallInv'
  OBVIOUS
<1>0. CallTypeOK
  BY DEF CallInv
<1>1. ASSUME NEW k \in Calls, NEW s \in Status, CallStatus(k, s) PROVE CallInv'
  BY <1>1, StatusKeepsInv
<1>2. ASSUME NEW c \in Contacts, SkypeCallHangup(c) \/ SkypeHoldCall(c) PROVE CallInv'
  <2>1. callId[c] \in Calls
    BY <1>0, <1>2 DEF CallTypeOK, SkypeCallHangup, SkypeHoldCall
  <2>2. PICK s \in Status : CallStatus(callId[c], s)
    BY <1>2 DEF SkypeCallHangup, SkypeHoldCall, Status
  <2>3. QED
    BY <2>1, <2>2, StatusKeepsInv
<1>3. ASSUME NEW c \in Contacts, SkypeOutHangup(c) PROVE CallInv'
  <2>1. callId[c] \in Calls /\ "end" \in Kind \ {"none"} /\ skype \in [Calls -> Status]
    BY <1>0, <1>3 DEF CallTypeOK, SkypeOutHangup, Kind
  <2>2. QED
    BY <1>3, <2>1, StartKeepsInv DEF SkypeOutHangup
<1>4. ASSUME NEW c \in Contacts, SkypeCall(c) \/ Dial(c) PROVE CallInv'
  BY <1>4, UserKeepsInv
<1>5. CASE \/ DialFailed \/ DialDone \/ CloseDial
           \/ \E who \in Contacts \cup {Nobody} : OpenDial(who)
  BY <1>5, UserKeepsInv
<1>6. ASSUME NEW t \in Thread, ThreadStep(t) PROVE CallInv'
  BY <1>6, EnterKeepsInv, RingFindKeepsInv, RingSaveKeepsInv, RingTypeKeepsInv, EndClearKeepsInv,
     EndDeleteKeepsInv, HoldKeepsInv
     DEF ThreadStep, RingThread, EndCallThread
<1>7. CASE UNCHANGED callVars
  BY <1>7 DEF CallInv, CallTypeOK, IdleAbove, MutexHeld, AtPartner, FoundRight, LateRing, Dialled,
              EndEntered, EndedStaysEnded, callVars, dialVars, section
<1>8. QED
  BY <1>1, <1>2, <1>3, <1>4, <1>5, <1>6, <1>7 DEF CallNext

-----------------------------------------------------------------------------
\* In every behaviour the settings and threads have their types, RingThread and
\* EndCallThread exclude each other, every CallId is with the right contact and
\* the CallId of an ended call stays away.
THEOREM CallInvariant == CallSpec => []CallInv
<1>1. QED
  BY InitInv, NextInv, PTL DEF CallSpec

THEOREM CallTypeCorrect == CallSpec => []CallTypeOK
<1>1. CallInv => CallTypeOK
  BY DEF CallInv
<1>2. QED
  BY <1>1, CallInvariant, PTL

\* The comment above EnterCriticalSection, as far as it is true: without a
\* RingThread that comes in after the EndCallThread, the CallId stays away.
THEOREM EndedCallsStayEnded == CallSpec => []EndedStaysEnded
<1>1. CallInv => EndedStaysEnded
  BY DEF CallInv
<1>2. QED
  BY <1>1, CallInvariant, PTL

\* Only the EndCallThread of its call, or the deletion of a contact whose number
\* could not be dialled, takes a CallId away, and nothing replaces one.
LEMMA CallIdStep ==
    ASSUME CallInv, [CallNext]_callVars, NEW c \in Contacts,
           callId[c] # NoCall, callId'[c] # callId[c]
    PROVE  /\ callId'[c] = NoCall
           /\ \/ c \notin exists' /\ c = dialing
              \/ \E t \in Thread : /\ kind[t] = "end" /\ Of(t) = callId[c]
                                   /\ pc[t] = "entered" /\ pc'[t] = "cleared"
<1>0. CallTypeOK
  BY DEF CallInv
<1>1. ASSUME NEW t \in Thread, RingSave(t) PROVE FALSE
  <2>1. pc[t] = "found" /\ callId[found] = NoCall
    BY <1>1 DEF RingSave, CallInv, FoundRight
  <2>2. callId'[c] = IF c = found /\ c \in exists THEN Of(t) ELSE callId[c]
    BY <1>1 DEF RingSave
  <2>3. QED
    BY <2>1, <2>2
<1>2. ASSUME NEW t \in Thread, EndClear(t)
      PROVE  /\ callId'[c] = NoCall
             /\ kind[t] = "end" /\ Of(t) = callId[c] /\ pc[t] = "entered" /\ pc'[t] = "cleared"
  <2>1. PICK d \in WithCallId(Of(t)) :
            callId' = [callId EXCEPT ![d] = NoCall] /\ Goto(t, "cleared")
    BY <1>2 DEF EndClear
  <2>2. c = d /\ callId'[c] = NoCall
    BY <1>0, <2>1 DEF CallTypeOK
  <2>3. pc'[t] = "cleared"
    BY <1>0, <2>1, GotoLemma DEF Place, Inside
  <2>4. QED
    BY <1>2, <2>2, <2>3 DEF WithCallId, EndClear
<1>3. CASE DialFailed
  <2>1. c \in AddedByDial /\ callId'[c] = NoCall
    BY <1>3 DEF DialFailed
  <2>2. c = dialing /\ c \notin exists'
    BY <1>3, <2>1 DEF DialFailed, AddedByDial
  <2>3. QED
    BY <2>1, <2>2
<1>4. CASE UNCHANGED callId
  BY <1>4
<1>5. \/ UNCHANGED callId \/ DialFailed
      \/ \E t \in Thread : RingSave(t) \/ EndClear(t)
  BY EndDeleteKeepsCallIds
     DEF CallNext, CallStatus, SkypeCall, SkypeCallHangup, SkypeHoldCall, SkypeOutHangup, Dial,
         OpenDial, CloseDial, DialDone, ThreadStep, RingThread, EndCallThread, RingEnter, RingFind,
         RingType, EndEnter, HoldCall, ResumeCall, callVars
<1>6. QED
  BY <1>1, <1>2, <1>3, <1>4, <1>5

THEOREM CallIdsKept == CallSpec => CallIdKept
<1>1. CallInv /\ [CallNext]_callVars =>
        [\A c \in Contacts :
          callId[c] # NoCall /\ callId'[c] # callId[c] =>
              /\ callId'[c] = NoCall
              /\ \/ c \notin exists' /\ c = dialing
                 \/ \E t \in Thread : /\ kind[t] = "end" /\ Of(t) = callId[c]
                                      /\ pc[t] = "entered" /\ pc'[t] = "cleared"]_callVars
  BY CallIdStep
<1>2. QED
  BY <1>1, CallInvariant, PTL DEF CallSpec, CallIdKept

\* A contact of the list is deleted by no thread of a call.
THEOREM ListedContactsKept == CallSpec => ListedKept
<1>1. [CallNext]_callVars =>
        [\A c \in Listed : c \in exists /\ c \notin exists' => c = dialing /\ dialAdded]_callVars
  <2> SUFFICES ASSUME CallNext, NEW c \in Listed, c \in exists, c \notin exists'
               PROVE  c = dialing /\ dialAdded
    OBVIOUS
  <2>1. ASSUME NEW t \in Thread, EndDelete(t) PROVE FALSE
    BY <2>1 DEF EndDelete, OnlyTemporary
  <2>2. CASE DialFailed
    BY <2>2 DEF DialFailed, AddedByDial
  <2>3. \/ exists \subseteq exists' \/ DialFailed
        \/ \E t \in Thread : EndDelete(t)
    BY DEF CallNext, CallStatus, SkypeCall, SkypeCallHangup, SkypeHoldCall, SkypeOutHangup, Dial,
           OpenDial, CloseDial, DialDone, ThreadStep, RingThread, EndCallThread, RingEnter, RingFind,
           RingSave, RingType, EndEnter, EndClear, HoldCall, ResumeCall
  <2>4. QED
    BY <2>1, <2>2, <2>3
<1>2. QED
  BY <1>1, PTL DEF CallSpec, ListedKept
=============================================================================
