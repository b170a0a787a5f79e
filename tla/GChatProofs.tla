------------------------------ MODULE GChatProofs ------------------------------
(* The members of a group chat, for any members and any number of threads.     *)
(*                                                                             *)
(* The list has nobody twice: a thread of AddMembers between its look into the *)
(* list and its append is inside m_GCMutex, so nobody else appends; those who  *)
(* are outside (KICKED messages) only remove.                                  *)
(*                                                                             *)
(* If nothing raced, the window shows those who are in the list, and an update *)
(* leaves those in the list whom Skype named: whoever is inside m_GCMutex is   *)
(* then alone with the list, the window and the marks.                         *)
EXTENDS GChat, SequenceTheorems, FiniteSetTheorems, TLAPS

USE ThreadAssumption

Inside == {"fetch", "next", "append", "sweep", "remove", "leave"}
Place == Inside \cup {"idle", "enter", "done"}

UpdateType == [at : Place, list : SUBSET Member, left : SUBSET Member, objects : BOOLEAN,
               mask : Seq(BOOLEAN), i : Nat, who : Member \cup {None}, exact : BOOLEAN]

Typed == /\ skype \subseteq Member
         /\ joined \in Seq(Member)
         /\ update \in [Updater -> UpdateType]
         /\ kick \in {"idle", "asked", "answered", "remove", "done"} \X (Member \cup {None})

(* Whoever works on the list, but for KICKED messages, is inside m_GCMutex.    *)
Holder == /\ \A u \in Updater : update[u].at \in Inside => mutex = u
          /\ kick[1] \in {"asked", "answered", "remove"} => mutex = Main

(* The one a thread is about to append is not in the list.                     *)
NewOne == \A u \in Updater : At(u, "append") =>
             update[u].who \in Member /\ \A k \in DOMAIN joined : joined[k] # update[u].who

GChatInv == Typed /\ Holder /\ NewOne /\ NoDuplicate

-----------------------------------------------------------------------------
(* RemChatContact: who remains was there before, in the same order.            *)
LEMMA Removed ==
    ASSUME NEW s \in Seq(Member), NEW k \in DOMAIN s
    PROVE  /\ RemChatContact(s, k) \in Seq(Member)
           /\ Len(RemChatContact(s, k)) = Len(s) - 1
           /\ DOMAIN RemChatContact(s, k) = 1 .. Len(s) - 1
           /\ \A n \in 1 .. Len(s) - 1 :
                 RemChatContact(s, k)[n] = IF n < k THEN s[n] ELSE s[n + 1]
<1> DEFINE before == SubSeq(s, 1, k - 1)
           after == SubSeq(s, k + 1, Len(s))
<1>0. Len(s) \in Nat /\ DOMAIN s = 1 .. Len(s) /\ k \in 1 .. Len(s) /\ s \in [1 .. Len(s) -> Member]
  BY LenProperties
<1>1. /\ before \in Seq(Member) /\ Len(before) = k - 1
      /\ \A n \in 1 .. k - 1 : before[n] = s[n]
  <2>1. \A n \in 1 .. k - 1 : s[n] \in Member
    BY <1>0
  <2> QED  BY <1>0, <2>1, SubSeqProperties
<1>2. /\ after \in Seq(Member) /\ Len(after) = Len(s) - k
      /\ \A n \in 1 .. Len(s) - k : after[n] = s[k + n]
  <2>1. \A n \in k + 1 .. Len(s) : s[n] \in Member
    BY <1>0
  <2>2. /\ after \in Seq(Member) /\ Len(after) = IF k + 1 <= Len(s) THEN Len(s) - (k + 1) + 1 ELSE 0
        /\ \A n \in 1 .. Len(s) - (k + 1) + 1 : after[n] = s[(k + 1) + n - 1]
    <3> HIDE DEF after
    <3> k + 1 \in Int /\ Len(s) \in Int  BY <1>0
    <3> QED  BY <2>1, SubSeqProperties DEF after
  <2>3. /\ Len(s) - (k + 1) + 1 = Len(s) - k
        /\ \A n \in 1 .. Len(s) - k : (k + 1) + n - 1 = k + n
        /\ (IF k + 1 <= Len(s) THEN Len(s) - (k + 1) + 1 ELSE 0) = Len(s) - k
    <3>1. \A l \in Nat : \A m \in 0 .. l :
             /\ l - (m + 1) + 1 = l - m
             /\ \A n \in 1 .. l - m : (m + 1) + n - 1 = m + n
             /\ (IF m + 1 <= l THEN l - (m + 1) + 1 ELSE 0) = l - m
      OBVIOUS
    <3>2. Len(s) \in Nat /\ k \in 0 .. Len(s)
      BY <1>0
    <3> QED  BY <3>1, <3>2
  <2> HIDE DEF after
  <2> QED  BY <2>2, <2>3
<1>3. RemChatContact(s, k) = before \o after
  BY DEF RemChatContact, RemoveAt
<1> HIDE DEF before, after
<1>4. /\ before \o after \in Seq(Member)
      /\ Len(before \o after) = Len(s) - 1
      /\ \A n \in 1 .. Len(s) - 1 : (before \o after)[n] = IF n < k THEN s[n] ELSE s[n + 1]
  <2>1. /\ before \o after \in Seq(Member)
        /\ Len(before \o after) = Len(before) + Len(after)
        /\ \A n \in 1 .. Len(before) + Len(after) :
              (before \o after)[n] = IF n <= Len(before) THEN before[n] ELSE after[n - Len(before)]
    BY <1>1, <1>2, ConcatProperties
  <2>2. Len(before) + Len(after) = Len(s) - 1
    BY <1>0, <1>1, <1>2
  <2>3. ASSUME NEW n \in 1 .. Len(s) - 1
        PROVE  (before \o after)[n] = IF n < k THEN s[n] ELSE s[n + 1]
    <3>1. CASE n < k
      BY <1>0, <1>1, <2>1, <2>2, <2>3, <3>1
    <3>2. CASE n >= k
      <4>1. (before \o after)[n] = after[n - (k - 1)]
        BY <1>0, <1>1, <2>1, <2>2, <2>3, <3>2
      <4>2. n - (k - 1) \in 1 .. Len(s) - k /\ k + (n - (k - 1)) = n + 1
        BY <1>0, <2>3, <3>2
      <4> QED  BY <1>0, <1>2, <3>2, <4>1, <4>2
    <3>3. n < k \/ n >= k
      BY <1>0, <2>3
    <3> QED  BY <3>1, <3>2, <3>3, Zenon
  <2> QED  BY <2>1, <2>2, <2>3
<1>5. DOMAIN (before \o after) = 1 .. Len(s) - 1
  BY <1>4, LenProperties
<1> QED  BY <1>3, <1>4, <1>5

(* So removing somebody disturbs neither of the two claims about the list.     *)
LEMMA RemovingKeeps ==
    ASSUME GChatInv, NEW k \in Nat
    PROVE  /\ RemChatContact(joined, k) \in Seq(Member)
           /\ \A i, j \in DOMAIN RemChatContact(joined, k) :
                 RemChatContact(joined, k)[i] = RemChatContact(joined, k)[j] => i = j
           /\ \A n \in DOMAIN RemChatContact(joined, k) :
                 \E o \in DOMAIN joined : RemChatContact(joined, k)[n] = joined[o]
<1>0. joined \in Seq(Member) /\ Len(joined) \in Nat /\ DOMAIN joined = 1 .. Len(joined)
  BY LenProperties DEF GChatInv, Typed
<1>1. CASE k \notin DOMAIN joined
  BY <1>0, <1>1 DEF RemChatContact, GChatInv, NoDuplicate
<1>2. CASE k \in DOMAIN joined
  <2> DEFINE r == RemChatContact(joined, k)
  <2>1. /\ r \in Seq(Member) /\ DOMAIN r = 1 .. Len(joined) - 1
        /\ \A n \in DOMAIN r : r[n] = IF n < k THEN joined[n] ELSE joined[n + 1]
    BY <1>0, <1>2, Removed
  <2> HIDE DEF r
  <2>2. \A n \in DOMAIN r : \E o \in DOMAIN joined : r[n] = joined[o]
    BY <1>0, <2>1
  <2>3. \A i, j \in DOMAIN r : r[i] = r[j] => i = j
    BY <1>0, <1>2, <2>1 DEF GChatInv, NoDuplicate
  <2> QED  BY <2>1, <2>2, <2>3 DEF r
<1> QED  BY <1>1, <1>2

(* A step of thread u that leaves it inside m_GCMutex, and the list alone.     *)
LEMMA UpdaterMoves ==
    ASSUME GChatInv, NEW u \in Updater, NEW t \in UpdateType, Set(u, t),
           t.at \in Inside => mutex' = u, t.at # "append",
           UNCHANGED <<skype, joined, kick>>,
           mutex' = mutex \/ (mutex = None /\ mutex' = u)
    PROVE  GChatInv'
<1>1. Typed'
  BY DEF GChatInv, Typed, Set
<1>2. Holder'
  BY DEF GChatInv, Typed, Holder, Set
<1>3. NewOne'
  BY DEF GChatInv, Typed, NewOne, Set, At
<1>4. NoDuplicate'
  BY DEF GChatInv, NoDuplicate
<1> QED  BY <1>1, <1>2, <1>3, <1>4 DEF GChatInv

(* Only the list changes, and by a removal.                                    *)
LEMMA ListShrinks ==
    ASSUME GChatInv, NEW k \in Nat, joined' = RemChatContact(joined, k),
           Typed', Holder', \A u \in Updater : At(u, "append")' => UNCHANGED update[u]
    PROVE  GChatInv'
<1>1. NoDuplicate'
  BY RemovingKeeps DEF NoDuplicate
<1>2. NewOne'
  BY RemovingKeeps DEF NewOne, GChatInv, At, Typed
<1> QED  BY <1>1, <1>2 DEF GChatInv
-----------------------------------------------------------------------------
(* The rows of update stay of their type.                                      *)
LEMMA MaskTyped ==
    ASSUME NEW s \in Seq(Member), NEW mask \in Seq(BOOLEAN), NEW i \in Nat
    PROVE  Marked(mask, s, i) \in Seq(BOOLEAN) /\ [k \in DOMAIN s |-> FALSE] \in Seq(BOOLEAN)
<1>1. Len(s) \in Nat /\ DOMAIN s = 1 .. Len(s)
  BY LenProperties
<1>2. \A k \in DOMAIN mask : mask[k] \in BOOLEAN
  BY LenProperties
<1>3. Marked(mask, s, i) \in [1 .. Len(s) -> BOOLEAN]
  BY <1>1, Zenon DEF Marked
<1>4. [k \in DOMAIN s |-> FALSE] \in [1 .. Len(s) -> BOOLEAN]
  BY <1>1, Zenon
<1>5. \A f \in [1 .. Len(s) -> BOOLEAN] : f \in Seq(BOOLEAN)
  BY <1>1
<1> QED  BY <1>3, <1>4, <1>5

LEMMA IndexIs ==
    ASSUME GChatInv, NEW m
    PROVE  /\ Index(m) \in Nat
           /\ Index(m) = 0 => \A k \in DOMAIN joined : joined[k] # m
<1>1. joined \in Seq(Member) /\ Len(joined) \in Nat /\ DOMAIN joined = 1 .. Len(joined)
  BY LenProperties DEF GChatInv, Typed
<1>2. CASE \E k \in DOMAIN joined : joined[k] = m
  <2>1. Index(m) \in DOMAIN joined
    BY <1>2, Zenon DEF Index
  <2> QED  BY <1>1, <2>1
<1>3. CASE ~ \E k \in DOMAIN joined : joined[k] = m
  BY <1>3 DEF Index
<1> QED  BY <1>2, <1>3

(* A change of the members starts a thread, which waits for m_GCMutex.         *)
LEMMA Told ==
    ASSUME GChatInv, NEW members \in SUBSET Member, Tell(members),
           UNCHANGED <<joined, mutex>>,
           kick' \in {"idle", "asked", "answered", "remove", "done"} \X (Member \cup {None}),
           kick'[1] \in {"asked", "answered", "remove"} => mutex = Main
    PROVE  GChatInv'
<1>1. PICK u \in Updater : /\ update[u].at = "idle" /\ skype' = members
                           /\ Set(u, [Idle EXCEPT !.at = "enter", !.list = members])
  BY DEF Tell
<1> DEFINE t == [Idle EXCEPT !.at = "enter", !.list = members]
<1>2. t \in UpdateType /\ t.at = "enter"
  BY EmptySeq DEF Idle, UpdateType, Place, Inside
<1> HIDE DEF t
<1>3. update' = [update EXCEPT ![u] = t] /\ update \in [Updater -> UpdateType]
  BY <1>1 DEF t, Set, GChatInv, Typed
<1>4. Typed'
  BY <1>1, <1>2, <1>3 DEF GChatInv, Typed
<1>5. Holder'
  BY <1>2, <1>3 DEF GChatInv, Holder, Inside
<1>6. NewOne' /\ NoDuplicate'
  BY <1>2, <1>3 DEF GChatInv, NewOne, NoDuplicate, At
<1> QED  BY <1>4, <1>5, <1>6 DEF GChatInv

LEMMA SkypeKeeps ==
    ASSUME GChatInv, SkypeStep \/ KickAnswer
    PROVE  GChatInv'
<1>1. ASSUME NEW m \in Member, Comes(m) \/ Goes(m) \/ IsKicked(m)
      PROVE  GChatInv'
  <2>1. PICK members \in SUBSET Member : Tell(members)
    BY <1>1 DEF Comes, Goes, IsKicked, GChatInv, Typed
  <2>2. UNCHANGED <<joined, mutex, kick>>
    BY <1>1 DEF Comes, Goes, IsKicked
  <2> QED  BY <2>1, <2>2, Told DEF GChatInv, Typed, Holder
<1>2. CASE KickAnswer
  <2>1. kick[1] = "asked" /\ kick[2] \in Member /\ kick' = <<"answered", kick[2]>>
        /\ UNCHANGED <<joined, mutex>>
    BY <1>2 DEF KickAnswer, GChatInv, Typed
  <2>2. PICK members \in SUBSET Member : Tell(members)
    BY <1>2 DEF KickAnswer, GChatInv, Typed
  <2> QED  BY <2>1, <2>2, Told DEF GChatInv, Holder
<1> QED  BY <1>1, <1>2 DEF SkypeStep

(* What the steps of AddMembers that neither append nor remove anybody make of *)
(* the thread's row.                                                           *)
LEMMA UpdateSets ==
    ASSUME GChatInv, NEW u \in Updater,
           \/ Enter(u) \/ Fetch(u) \/ Skip(u) \/ Known(u) \/ JoinFails(u)
           \/ Sweep(u) \/ Quit(u) \/ Swept(u) \/ Leave(u)
    PROVE  \E t \in UpdateType :
              /\ Set(u, t) /\ t.at \in Inside \cup {"done"} /\ t.at # "append"
              /\ t.at = "remove" <=> Quit(u)
              /\ t.at = "done" <=> Leave(u)
              /\ t.at = "sweep" => t.i # 0
<1>0. update[u] \in UpdateType /\ joined \in Seq(Member)
  BY DEF GChatInv, Typed
<1>b. DOMAIN joined = 1 .. Len(joined) /\ Len(joined) \in Nat
  BY <1>0, LenProperties
<1>c. Cleared \in Seq(BOOLEAN) /\ \A i \in Nat : Marked(update[u].mask, joined, i) \in Seq(BOOLEAN)
  <2>1. update[u].mask \in Seq(BOOLEAN) /\ 0 \in Nat
    BY <1>0 DEF UpdateType
  <2> QED  BY <1>0, <2>1, MaskTyped DEF Cleared
<1>1. CASE Enter(u)
  <2>1. PICK t \in UpdateType : Set(u, t) /\ t.at \in {"fetch", "next"}
    <3> DEFINE t == [update[u] EXCEPT !.at = IF roles THEN "fetch" ELSE "next",
                                       !.left = update[u].list, !.mask = Cleared]
    <3>1. t \in UpdateType /\ t.at \in {"fetch", "next"}
      BY <1>0, <1>c DEF UpdateType, Place, Inside
    <3>2. Set(u, t)
      BY <1>1 DEF Enter
    <3> QED  BY <3>1, <3>2
  <2>9. update[u].at = "enter"
    BY <1>1 DEF Enter, At
  <2> QED  BY <1>1, <2>1, <2>9 DEF Quit, Leave, At, Inside
<1>2. CASE Fetch(u)
  <2>1. skype \in SUBSET Member
    BY DEF GChatInv, Typed
  <2>2. PICK t \in UpdateType : Set(u, t) /\ t.at = "next"
    <3> DEFINE t1 == [update[u] EXCEPT !.at = "next", !.objects = TRUE, !.list = skype,
                                   !.left = skype, !.mask = Cleared]
               t2 == [update[u] EXCEPT !.at = "next", !.mask = Cleared]
    <3>1. t1 \in UpdateType /\ t1.at = "next" /\ t2 \in UpdateType /\ t2.at = "next"
      BY <1>0, <1>c, <2>1 DEF UpdateType, Place, Inside
    <3>2. Set(u, t1) \/ Set(u, t2)
      BY <1>2 DEF Fetch
    <3> QED  BY <3>1, <3>2
  <2>9. update[u].at = "fetch"
    BY <1>2 DEF Fetch, At
  <2> QED  BY <1>2, <2>2, <2>9 DEF Quit, Leave, At, Inside
<1>3. CASE Skip(u)
  <2>2. PICK t \in UpdateType : Set(u, t) /\ t.at = "next"
    <3>1. PICK m \in update[u].left : Set(u, [update[u] EXCEPT !.left = @ \ {m}, !.exact = FALSE])
      BY <1>3 DEF Skip
    <3> DEFINE t == [update[u] EXCEPT !.left = @ \ {m}, !.exact = FALSE]
    <3>2. t \in UpdateType /\ t.at = "next"
      BY <1>0, <1>3 DEF UpdateType, Skip, At
    <3> QED  BY <3>1, <3>2
  <2>9. update[u].at = "next"
    BY <1>3 DEF Skip, At
  <2> QED  BY <1>3, <2>2, <2>9 DEF Quit, Leave, At, Inside
<1>4. CASE Known(u)
  <2>2. PICK t \in UpdateType : Set(u, t) /\ t.at = "next"
    <3>1. PICK m \in update[u].left :
             Set(u, [update[u] EXCEPT !.left = @ \ {m}, !.mask = Marked(@, joined, Index(m))])
      BY <1>4 DEF Known
    <3> DEFINE t == [update[u] EXCEPT !.left = @ \ {m}, !.mask = Marked(@, joined, Index(m))]
    <3>2. Marked(update[u].mask, joined, Index(m)) \in Seq(BOOLEAN)
      BY <1>c, IndexIs
    <3>3. t \in UpdateType /\ t.at = "next"
      BY <1>0, <1>4, <3>2 DEF UpdateType, Known, At
    <3> QED  BY <3>1, <3>3
  <2>9. update[u].at = "next"
    BY <1>4 DEF Known, At
  <2> QED  BY <1>4, <2>2, <2>9 DEF Quit, Leave, At, Inside
<1>5. CASE JoinFails(u)
  <2>2. PICK t \in UpdateType : Set(u, t) /\ t.at \in {"next", "leave"}
    <3>1. PICK m \in update[u].left :
             Set(u, [update[u] EXCEPT !.left = @ \ {m}, !.exact = FALSE,
                        !.at = IF update[u].objects THEN "next" ELSE "leave",
                        !.mask = Marked(@, joined, 0)])
      BY <1>5 DEF JoinFails
    <3> DEFINE t == [update[u] EXCEPT !.left = @ \ {m}, !.exact = FALSE,
                        !.at = IF update[u].objects THEN "next" ELSE "leave",
                        !.mask = Marked(@, joined, 0)]
    <3>2. Marked(update[u].mask, joined, 0) \in Seq(BOOLEAN)
      BY <1>c
    <3>3. t \in UpdateType /\ t.at \in {"next", "leave"}
      BY <1>0, <3>2 DEF UpdateType, Place, Inside
    <3> QED  BY <3>1, <3>3
  <2>9. update[u].at = "next"
    BY <1>5 DEF JoinFails, At
  <2> QED  BY <1>5, <2>2, <2>9 DEF Quit, Leave, At, Inside
<1>6. CASE Sweep(u)
  <2>2. PICK t \in UpdateType : Set(u, t) /\ t.at = "sweep" /\ t.i = 1
    <3>1. PICK many \in {Cardinality(Unmarked(u, 1)) > 1} :
             Set(u, [update[u] EXCEPT !.at = "sweep", !.i = 1, !.exact = @ /\ ~many])
      BY <1>6 DEF Sweep
    <3> DEFINE t == [update[u] EXCEPT !.at = "sweep", !.i = 1, !.exact = @ /\ ~many]
    <3>2. (update[u].exact /\ ~many) \in BOOLEAN
      BY Zenon
    <3>3. t \in UpdateType /\ t.at = "sweep" /\ t.i = 1
      BY <1>0, <3>2 DEF UpdateType, Place, Inside
    <3> QED  BY <3>1, <3>3
  <2>9. update[u].at = "next"
    BY <1>6 DEF Sweep, At
  <2> QED  BY <1>6, <2>2, <2>9 DEF Quit, Leave, At, Inside
<1>7. CASE Quit(u)
  <2>2. PICK t \in UpdateType : Set(u, t) /\ t.at = "remove"
    <3>0. update[u].i \in Nat
      BY <1>0 DEF UpdateType
    <3>1. PICK k \in Unmarked(u, update[u].i) : Set(u, [update[u] EXCEPT !.at = "remove", !.i = k])
      BY <1>7 DEF Quit
    <3>2. k \in Nat
      BY <1>b, <3>0 DEF Unmarked
    <3> DEFINE t == [update[u] EXCEPT !.at = "remove", !.i = k]
    <3>3. t \in UpdateType /\ t.at = "remove"
      BY <1>0, <3>2 DEF UpdateType, Place, Inside
    <3> QED  BY <3>1, <3>3
  <2>9. update[u].at = "sweep"
    BY <1>7 DEF Quit, At
  <2> QED  BY <1>7, <2>2, <2>9 DEF Quit, Leave, At, Inside
<1>8. CASE Swept(u)
  <2>2. PICK t \in UpdateType : Set(u, t) /\ t.at = "leave"
    <3>1. [update[u] EXCEPT !.at = "leave"] \in UpdateType
      BY <1>0 DEF UpdateType, Place, Inside
    <3> QED  BY <1>0, <1>8, <3>1 DEF Swept, UpdateType
  <2>9. update[u].at = "sweep"
    BY <1>8 DEF Swept, At
  <2>10. ~Quit(u)
    BY <1>8 DEF Swept, Quit
  <2> QED  BY <1>8, <2>2, <2>9, <2>10 DEF Leave, At, Inside
<1>9. CASE Leave(u)
  <2>1. Set(u, [Idle EXCEPT !.at = "done"]) /\ update[u].at = "leave"
    BY <1>9 DEF Leave, At
  <2>2. [Idle EXCEPT !.at = "done"] \in UpdateType /\ [Idle EXCEPT !.at = "done"].at = "done"
    BY EmptySeq DEF Idle, UpdateType, Place, Inside
  <2> QED  BY <1>9, <2>1, <2>2 DEF Quit, At, Inside
<1> QED  BY <1>1, <1>2, <1>3, <1>4, <1>5, <1>6, <1>7, <1>8, <1>9

(* So they keep the invariant.                                                 *)
LEMMA UpdateKeeps ==
    ASSUME GChatInv, NEW u \in Updater,
           \/ Enter(u) \/ Fetch(u) \/ Skip(u) \/ Known(u) \/ JoinFails(u)
           \/ Sweep(u) \/ Quit(u) \/ Swept(u) \/ Leave(u)
    PROVE  GChatInv'
<1>1. PICK t \in UpdateType :
         /\ Set(u, t) /\ t.at # "append"
         /\ t.at \in Inside \cup {"done"} /\ (t.at = "done" <=> Leave(u))
  BY UpdateSets
<1>2. UNCHANGED <<skype, joined, kick>>
  BY DEF Enter, Fetch, Skip, Known, JoinFails, Sweep, Quit, Swept, Leave, Others
<1>3. CASE Leave(u)
  <2>1. mutex = u /\ mutex' = None
    BY <1>3 DEF GChatInv, Holder, Leave, At, Inside
  <2>2. update' = [update EXCEPT ![u] = t] /\ t.at = "done"
    BY <1>1, <1>3 DEF Set
  <2>3. Typed'
    BY <1>2, <2>2 DEF GChatInv, Typed
  <2>4. Holder'
    BY <1>2, <2>1, <2>2 DEF GChatInv, Typed, Holder, Inside
  <2>5. NewOne' /\ NoDuplicate'
    BY <1>2, <2>2 DEF GChatInv, Typed, NewOne, NoDuplicate, At
  <2> QED  BY <2>3, <2>4, <2>5 DEF GChatInv
<1>4. CASE ~Leave(u)
  <2>1. mutex' = u /\ (mutex' = mutex \/ mutex = None)
    BY <1>4 DEF GChatInv, Holder, Enter, Fetch, Skip, Known, JoinFails, Sweep, Quit, Swept, Others, At, Inside
  <2> QED  BY <1>1, <1>2, <2>1, UpdaterMoves
<1> QED  BY <1>3, <1>4

(* The look into the list, and then the append.                                *)
LEMMA AppendKeeps ==
    ASSUME GChatInv, NEW u \in Updater, Join(u) \/ AppendMember(u)
    PROVE  GChatInv'
<1>0. update[u] \in UpdateType /\ joined \in Seq(Member) /\ update \in [Updater -> UpdateType]
  BY DEF GChatInv, Typed
<1>a. update[u].at \in Inside => mutex = u
  BY DEF GChatInv, Holder
<1>b. DOMAIN joined = 1 .. Len(joined) /\ Len(joined) \in Nat
  BY <1>0, LenProperties
<1>1. CASE Join(u)
  <2>1. PICK m \in update[u].left :
           /\ Index(m) = 0
           /\ Set(u, [update[u] EXCEPT !.left = @ \ {m}, !.at = "append", !.who = m])
    BY <1>1 DEF Join
  <2> DEFINE t == [update[u] EXCEPT !.left = @ \ {m}, !.at = "append", !.who = m]
  <2>2. t \in UpdateType /\ t.at = "append" /\ t.who = m /\ m \in Member
    BY <1>0 DEF UpdateType, Place, Inside
  <2> HIDE DEF t
  <2>3. update' = [update EXCEPT ![u] = t] /\ UNCHANGED <<skype, joined, mutex, kick>>
    BY <1>1, <2>1 DEF t, Join, Set, Others
  <2>4. Typed'
    BY <2>2, <2>3 DEF GChatInv, Typed
  <2>5. Holder'
    BY <1>1, <1>a, <2>2, <2>3 DEF GChatInv, Typed, Holder, Join, At, Inside
  <2>6. NewOne'
    BY <1>0, <2>1, <2>2, <2>3, IndexIs DEF GChatInv, NewOne, At
  <2>7. NoDuplicate'
    BY <2>3 DEF GChatInv, NoDuplicate
  <2> QED  BY <2>4, <2>5, <2>6, <2>7 DEF GChatInv
<1>2. CASE AppendMember(u)
  <2> DEFINE who == update[u].who
             t == [update[u] EXCEPT !.at = "next", !.mask = Marked(@, joined', Len(joined'))]
  <2>1. /\ who \in Member /\ mutex = u /\ joined' = Append(joined, who)
        /\ \A k \in DOMAIN joined : joined[k] # who
        /\ update' = [update EXCEPT ![u] = t] /\ UNCHANGED <<skype, mutex, kick>>
    BY <1>2, <1>a DEF AppendMember, Set, Others, At, Inside, GChatInv, NewOne
  <2>2. /\ joined' \in Seq(Member) /\ Len(joined') = Len(joined) + 1
        /\ \A k \in 1 .. Len(joined) : joined'[k] = joined[k]
        /\ joined'[Len(joined) + 1] = who
    BY <1>0, <2>1, AppendProperties
  <2>3. DOMAIN joined' = 1 .. Len(joined) + 1
    BY <2>2, LenProperties
  <2>4. t \in UpdateType /\ t.at = "next"
    <3>1. update[u].mask \in Seq(BOOLEAN) /\ Len(joined') \in Nat
      BY <1>0, <1>b, <2>2 DEF UpdateType
    <3>2. Marked(update[u].mask, joined', Len(joined')) \in Seq(BOOLEAN)
      BY <2>2, <3>1, MaskTyped
    <3> QED  BY <1>0, <3>2 DEF UpdateType, Place, Inside
  <2> HIDE DEF t, who
  <2>5. Typed'
    BY <1>0, <2>1, <2>2, <2>4 DEF GChatInv, Typed
  <2>6. Holder'
    BY <1>0, <2>1, <2>4 DEF GChatInv, Holder
  <2>7. NewOne'
    <3>1. \A v \in Updater : ~At(v, "append")'
      BY <1>0, <2>1, <2>4 DEF GChatInv, Holder, At, Inside
    <3> QED  BY <3>1 DEF NewOne
  <2>8. NoDuplicate'
    <3> SUFFICES ASSUME NEW i \in DOMAIN joined', NEW j \in DOMAIN joined', joined'[i] = joined'[j]
                 PROVE  i = j
      BY DEF NoDuplicate
    <3>1. \A k \in DOMAIN joined' : k = Len(joined) + 1 \/ k \in DOMAIN joined
      BY <1>b, <2>3
    <3>2. \A k \in DOMAIN joined : joined'[k] = joined[k] /\ joined'[k] # who
      BY <1>b, <2>1, <2>2
    <3>3. \A k, n \in DOMAIN joined : joined[k] = joined[n] => k = n
      BY DEF GChatInv, NoDuplicate
    <3>4. joined'[Len(joined) + 1] = who
      BY <2>2
    <3> QED  BY <3>1, <3>2, <3>3, <3>4, Zenon
  <2> QED  BY <2>5, <2>6, <2>7, <2>8 DEF GChatInv
<1> QED  BY <1>1, <1>2

(* A member quits, is kicked by the user, or was kicked by somebody else.      *)
LEMMA RemoveKeeps ==
    ASSUME GChatInv,
           \/ \E u \in Updater : QuitRemove(u)
           \/ KickRemove
           \/ \E f \in Fetcher : KickedRemove(f)
    PROVE  GChatInv'
<1>0. update \in [Updater -> UpdateType] /\ joined \in Seq(Member)
  BY DEF GChatInv, Typed
<1>1. ASSUME NEW u \in Updater, QuitRemove(u)
      PROVE  GChatInv'
  <2> DEFINE t == [update[u] EXCEPT !.at = "sweep", !.i = @ + 1]
  <2>0. update[u] \in UpdateType /\ update[u].i + 1 \in Nat
    BY <1>0, <1>1 DEF UpdateType
  <2>1. t \in UpdateType /\ t.at = "sweep" /\ update[u].i \in Nat
    BY <2>0 DEF UpdateType, Place, Inside
  <2> HIDE DEF t
  <2>2. /\ update' = [update EXCEPT ![u] = t] /\ mutex = u
        /\ joined' = RemChatContact(joined, update[u].i)
        /\ UNCHANGED <<skype, mutex, kick>>
    BY <1>1 DEF t, QuitRemove, Set, Others, At, Inside, GChatInv, Holder
  <2>3. Typed'
    BY <1>0, <2>1, <2>2, RemovingKeeps DEF GChatInv, Typed
  <2>4. Holder'
    BY <1>0, <2>1, <2>2 DEF GChatInv, Holder
  <2>5. \A v \in Updater : At(v, "append")' => UNCHANGED update[v]
    BY <1>0, <2>1, <2>2 DEF At
  <2> QED  BY <2>1, <2>2, <2>3, <2>4, <2>5, ListShrinks
<1>2. CASE KickRemove
  <2>1. /\ joined' = RemChatContact(joined, Index(kick[2])) /\ Index(kick[2]) \in Nat
        /\ mutex = Main /\ kick' = <<"done", None>> /\ UNCHANGED <<skype, update>>
    BY <1>2, IndexIs DEF KickRemove, GChatInv, Holder
  <2>2. Typed'
    BY <1>0, <2>1, RemovingKeeps DEF GChatInv, Typed
  <2>3. Holder'
    BY <2>1 DEF GChatInv, Holder, ThreadAssumption
  <2> QED  BY <2>1, <2>2, <2>3, ListShrinks
<1>3. ASSUME NEW f \in Fetcher, KickedRemove(f)
      PROVE  GChatInv'
  <2>1. /\ joined' = RemChatContact(joined, Index(fetch[f][2])) /\ Index(fetch[f][2]) \in Nat
        /\ UNCHANGED <<skype, update, mutex, kick>>
    BY <1>3, IndexIs DEF KickedRemove
  <2>2. Typed'
    BY <1>0, <2>1, RemovingKeeps DEF GChatInv, Typed
  <2>3. Holder'
    BY <2>1 DEF GChatInv, Holder
  <2> QED  BY <2>1, <2>2, <2>3, ListShrinks
<1> QED  BY <1>1, <1>2, <1>3

(* What touches neither the list nor the threads of AddMembers.                *)
LEMMA KickKeeps ==
    ASSUME GChatInv,
           \/ \E m \in Member : KickAsk(m)
           \/ KickEvent \/ KickGiveUp
           \/ \E f \in Fetcher : KickedEvent(f)
    PROVE  GChatInv'
<1>1. UNCHANGED <<skype, joined, update>>
  BY DEF KickAsk, KickEvent, KickGiveUp, KickedEvent
<1>2. kick' \in {"idle", "asked", "answered", "remove", "done"} \X (Member \cup {None})
  BY DEF GChatInv, Typed, KickAsk, KickEvent, KickGiveUp, KickedEvent
<1>3. Holder'
  BY <1>1 DEF GChatInv, Holder, Inside, ThreadAssumption, KickAsk, KickEvent, KickGiveUp, KickedEvent
<1> QED  BY <1>1, <1>2, <1>3 DEF GChatInv, Typed, NewOne, NoDuplicate, At

LEMMA GChatInit == Init => GChatInv
<1> SUFFICES ASSUME Init PROVE GChatInv
  OBVIOUS
<1>1. /\ Idle \in UpdateType /\ Idle.at = "idle"
      /\ \A members \in SUBSET Member :
            /\ [Idle EXCEPT !.at = "enter", !.list = members] \in UpdateType
            /\ [Idle EXCEPT !.at = "enter", !.list = members].at = "enter"
  BY EmptySeq DEF Idle, UpdateType, Place, Inside
<1>2. update \in [Updater -> UpdateType] /\ \A u \in Updater : update[u].at \in {"idle", "enter"}
  BY <1>1 DEF Init
<1>3. Typed
  BY <1>2, EmptySeq DEF Init, Typed
<1>4. Holder /\ NewOne
  BY <1>2 DEF Init, Holder, NewOne, At, Inside
<1>5. NoDuplicate
  BY DEF Init, NoDuplicate
<1> QED  BY <1>3, <1>4, <1>5 DEF GChatInv

LEMMA GChatStep == GChatInv /\ [Next]_vars => GChatInv'
<1> SUFFICES ASSUME GChatInv, [Next]_vars PROVE GChatInv'
  OBVIOUS
<1>1. CASE SkypeStep \/ KickAnswer
  BY <1>1, SkypeKeeps
<1>2. ASSUME NEW u \in Updater, UpdateStep(u) PROVE GChatInv'
  BY <1>2, UpdateKeeps, AppendKeeps, RemoveKeeps DEF UpdateStep
<1>3. CASE (\E m \in Member : KickAsk(m)) \/ KickEnds
  BY <1>3, KickKeeps, RemoveKeeps DEF KickEnds
<1>4. ASSUME NEW f \in Fetcher, FetchStep(f) PROVE GChatInv'
  BY <1>4, KickKeeps, RemoveKeeps DEF FetchStep
<1>5. CASE UNCHANGED vars
  BY <1>5 DEF vars, GChatInv, Typed, Holder, NewOne, NoDuplicate, At
<1> QED  BY <1>1, <1>2, <1>3, <1>4, <1>5 DEF Next

(* Nobody is in the list of members twice: NoDuplicate, for AddMembers,        *)
(* KickUser and the handler of KICKED messages in any number of threads.       *)
THEOREM ListedOnce == Spec => []NoDuplicate
<1>1. GChatInv => NoDuplicate
  BY DEF GChatInv
<1> QED  BY <1>1, GChatInit, GChatStep, PTL DEF Spec

(* The thread that is about to append a member is inside m_GCMutex, and the    *)
(* member is not in the list: what makes the look into the list in             *)
(* AddChatContact still true when the member is appended (gchat.c 122-172).    *)
THEOREM LookStaysTrue == Spec => [](Holder /\ NewOne)
<1>1. GChatInv => Holder /\ NewOne
  BY DEF GChatInv
<1> QED  BY <1>1, GChatInit, GChatStep, PTL DEF Spec

-----------------------------------------------------------------------------
(* The window and the list.  Halfway and ToSet, member by member.              *)
Listed(m) == \E k \in DOMAIN joined : joined[k] = m
Appends(u, m) == At(u, "append") /\ update[u].who = m
Quits(u, m) == At(u, "remove") /\ update[u].i \in DOMAIN joined /\ joined[update[u].i] = m
IsKickedOut(m) == kick[1] = "remove" /\ kick[2] = m
WasKicked(f, m) == fetch[f][1] = "remove" /\ fetch[f][2] = m
InTransit(m) == \/ \E u \in Updater : Appends(u, m) \/ Quits(u, m)
                \/ IsKickedOut(m)
                \/ \E f \in Fetcher : WasKicked(f, m)

(* Nobody who works without m_GCMutex does so beside somebody who has it.      *)
NoRace == ~raced /\ mutex # None => ~Unlocked
(* What the window has been told of those who are in between.                  *)
WindowTold == ~raced => \A m \in Member :
    /\ \A u \in Updater : Appends(u, m) => m \in window
    /\ \A u \in Updater : Quits(u, m) => m \notin window
    /\ IsKickedOut(m) => m \notin window
    /\ \A f \in Fetcher : WasKicked(f, m) => m \notin window
WindowShows == ~raced => \A m \in Member : InTransit(m) \/ (m \in window <=> Listed(m))

FetchTyped == /\ fetch \in [Fetcher -> {"idle", "event", "remove", "done"} \X (Member \cup {None})]
              /\ raced \in BOOLEAN
(* The loop at the end of AddMembers begins with the first member.             *)
SweepsFromOne == \A u \in Updater : At(u, "sweep") => update[u].i # 0
WindowInv == GChatInv /\ FetchTyped /\ SweepsFromOne /\ NoRace /\ WindowTold /\ WindowShows

LEMMA WindowShowsAgrees == WindowShows => WindowAgrees
<1> SUFFICES ASSUME WindowShows, ~raced, NEW m \in Member, m \notin Halfway
             PROVE  m \in window <=> m \in ToSet(joined)
  BY DEF WindowAgrees
<1>1. m \in ToSet(joined) <=> Listed(m)
  BY DEF ToSet, Listed
<1>2. ~InTransit(m)
  BY DEF InTransit, Halfway, Appends, Quits, IsKickedOut, WasKicked, At
<1> QED  BY <1>1, <1>2 DEF WindowShows

(* Who is inside m_GCMutex is alone with the list, if nothing has raced.       *)
LEMMA Alone ==
    ASSUME WindowInv, ~raced, mutex # None
    PROVE  /\ \A f \in Fetcher : fetch[f][1] # "remove"
           /\ \A u \in Updater : u # mutex => update[u].at \notin Inside
           /\ mutex # Main => kick[1] \notin {"asked", "answered", "remove"}
  BY DEF WindowInv, NoRace, Unlocked, GChatInv, Holder

(* A step that neither touches the list and the window, nor begins or ends     *)
(* anything between the two.                                                   *)
SameParts == /\ \A u \in Updater : update[u].at \in {"append", "remove"} \/ update'[u].at \in {"append", "remove"} =>
                                       update'[u] = update[u]
             /\ kick[1] = "remove" \/ kick'[1] = "remove" => kick' = kick
             /\ \A f \in Fetcher : fetch[f][1] = "remove" \/ fetch'[f][1] = "remove" => fetch'[f] = fetch[f]

LEMMA SamePartsKeep ==
    ASSUME WindowInv, GChatInv', FetchTyped', SweepsFromOne', NoRace', SameParts,
           UNCHANGED <<joined, window>>, raced => raced'
    PROVE  WindowInv'
<1>1. ASSUME NEW m
      PROVE  /\ \A u \in Updater : (Appends(u, m)' <=> Appends(u, m)) /\ (Quits(u, m)' <=> Quits(u, m))
             /\ IsKickedOut(m)' <=> IsKickedOut(m)
             /\ \A f \in Fetcher : WasKicked(f, m)' <=> WasKicked(f, m)
             /\ Listed(m)' <=> Listed(m)
  BY DEF SameParts, Appends, Quits, IsKickedOut, WasKicked, Listed, At
<1>2. WindowTold'
  BY <1>1 DEF WindowTold, WindowInv
<1>3. WindowShows'
  BY <1>1 DEF WindowShows, WindowInv, InTransit
<1> QED  BY <1>2, <1>3 DEF WindowInv

(* Most steps are of this kind.                                                *)
LEMMA SetKeepsParts ==
    ASSUME WindowInv, NEW u \in Updater, UNCHANGED <<kick, fetch>>,
           \A v \in Updater \ {u} : update'[v] = update[v],
           update[u].at \notin {"append", "remove"}, update'[u].at \notin {"append", "remove"}
    PROVE  SameParts
BY DEF SameParts

LEMMA NoRaceKept ==
    ASSUME WindowInv, raced' = raced, mutex' = mutex \/ mutex' = None,
           \A f \in Fetcher : fetch'[f][1] = "remove" => fetch[f][1] = "remove"
    PROVE  NoRace'
BY DEF WindowInv, NoRace, Unlocked

LEMMA QuietUpdate ==
    ASSUME WindowInv, GChatInv', NEW u \in Updater,
           \/ Enter(u) \/ Fetch(u) \/ Skip(u) \/ Known(u) \/ JoinFails(u)
           \/ Sweep(u) \/ Swept(u) \/ Leave(u)
    PROVE  WindowInv'
<1>1. /\ UNCHANGED <<joined, window, kick, fetch>>
      /\ raced' = raced \/ (Enter(u) /\ raced' = (raced \/ Unlocked))
  BY DEF Enter, Fetch, Skip, Known, JoinFails, Sweep, Swept, Leave, Others
<1>2. FetchTyped'
  BY <1>1, Zenon DEF WindowInv, FetchTyped, Enter, Unlocked
<1>3. NoRace'
  <2>1. CASE Enter(u)
    BY <1>1, <2>1 DEF Enter, NoRace, Unlocked
  <2>2. CASE ~Enter(u)
    <3>1. mutex' = mutex \/ mutex' = None
      BY <2>2 DEF Fetch, Skip, Known, JoinFails, Sweep, Swept, Leave
    <3> QED  BY <1>1, <2>2, <3>1, NoRaceKept
  <2> QED  BY <2>1, <2>2
<1>4. SameParts
  <2>0. update[u] \in UpdateType /\ update \in [Updater -> UpdateType]
    BY DEF WindowInv, GChatInv, Typed
  <2>1. update[u].at \notin {"append", "remove"}
    BY DEF Enter, Fetch, Skip, Known, JoinFails, Sweep, Swept, Leave, At
  <2>2. \A v \in Updater \ {u} : update'[v] = update[v]
    BY <2>0 DEF Enter, Fetch, Skip, Known, JoinFails, Sweep, Swept, Leave, Set
  <2>3. update'[u].at \notin {"append", "remove"}
    <3>1. ~Quit(u)
      BY DEF Enter, Fetch, Skip, Known, JoinFails, Sweep, Swept, Leave, Quit, At
    <3>2. PICK t \in UpdateType : Set(u, t) /\ t.at # "append" /\ t.at # "remove"
      BY <3>1, UpdateSets DEF WindowInv
    <3> QED  BY <2>0, <3>2 DEF Set
  <2>4. UNCHANGED <<kick, fetch>>
    BY <1>1
  <2> QED  BY <2>1, <2>2, <2>3, <2>4, SetKeepsParts
<1>5. UNCHANGED <<joined, window>>
  BY <1>1
<1>6. raced => raced'
  BY <1>1, Zenon
<1>7. SweepsFromOne'
  <2>1. PICK t \in UpdateType : Set(u, t) /\ (t.at = "sweep" => t.i # 0)
    BY UpdateSets DEF WindowInv
  <2> QED  BY <2>1 DEF WindowInv, SweepsFromOne, GChatInv, Typed, Set, At
<1> QED  BY <1>2, <1>3, <1>4, <1>5, <1>6, <1>7, SamePartsKeep

LEMMA QuietOthers ==
    ASSUME WindowInv, GChatInv',
           SkypeStep \/ KickAnswer \/ KickGiveUp \/ \E m \in Member : KickAsk(m)
    PROVE  WindowInv'
<1>0. /\ update \in [Updater -> UpdateType] /\ kick = <<kick[1], kick[2]>>
      /\ fetch \in [Fetcher -> {"idle", "event", "remove", "done"} \X (Member \cup {None})]
  BY DEF WindowInv, GChatInv, Typed, FetchTyped
<1>1. CASE SkypeStep \/ KickAnswer
  <2>1. /\ UNCHANGED <<joined, window, mutex, raced>>
        /\ \E members : Tell(members)
        /\ UNCHANGED fetch \/ \E m \in Member, f \in Fetcher :
              fetch[f] = <<"idle", None>> /\ fetch' = [fetch EXCEPT ![f] = <<"event", m>>]
        /\ UNCHANGED kick \/ (kick[1] = "asked" /\ kick' = <<"answered", kick[2]>>)
    BY <1>1 DEF SkypeStep, Comes, Goes, IsKicked, KickAnswer
  <2>2. \A u \in Updater : update[u].at \in {"append", "remove"} \/ update'[u].at \in {"append", "remove"} =>
                              update'[u] = update[u]
    BY <1>0, <2>1 DEF Tell, Set, Idle
  <2>3. \A f \in Fetcher : fetch[f][1] = "remove" \/ fetch'[f][1] = "remove" => fetch'[f] = fetch[f]
    BY <1>0, <2>1
  <2>4. SameParts
    BY <2>1, <2>2, <2>3 DEF SameParts
  <2>5. FetchTyped'
    BY <1>0, <2>1 DEF FetchTyped, WindowInv
  <2>6. NoRace'
    BY <2>1, <2>3, NoRaceKept
  <2>7. SweepsFromOne'
    BY <1>0, <2>1 DEF WindowInv, SweepsFromOne, Tell, Set, Idle, At
  <2> QED  BY <2>1, <2>4, <2>5, <2>6, <2>7, SamePartsKeep
<1>2. CASE KickGiveUp
  <2>1. /\ UNCHANGED <<joined, window, raced, update, fetch>> /\ mutex' = None
        /\ kick[1] # "remove" /\ kick'[1] # "remove"
    BY <1>2 DEF KickGiveUp
  <2>2. FetchTyped' /\ NoRace' /\ SameParts /\ SweepsFromOne'
    BY <2>1, NoRaceKept DEF FetchTyped, SameParts, WindowInv, SweepsFromOne, At
  <2> QED  BY <2>1, <2>2, SamePartsKeep
<1>3. ASSUME NEW m \in Member, KickAsk(m) PROVE WindowInv'
  <2>1. /\ UNCHANGED <<joined, window, update, fetch>>
        /\ kick[1] # "remove" /\ kick'[1] # "remove" /\ raced' = (raced \/ Unlocked)
    BY <1>3 DEF KickAsk
  <2>2. FetchTyped' /\ SameParts
    BY <2>1, Zenon DEF FetchTyped, SameParts, WindowInv, Unlocked
  <2>3. NoRace'
    BY <2>1 DEF NoRace, Unlocked
  <2>4. SweepsFromOne'
    BY <2>1 DEF SweepsFromOne, WindowInv, At
  <2> QED  BY <2>1, <2>2, <2>3, <2>4, SamePartsKeep
<1> QED  BY <1>1, <1>2, <1>3

-----------------------------------------------------------------------------
(* The thread in m_GCMutex, when it is alone with the list and the window.     *)
Solo(u) == /\ \A v \in Updater \ {u} : update[v].at \notin Inside
           /\ kick[1] # "remove"
           /\ \A f \in Fetcher : fetch[f][1] # "remove"
SoloWindow(u) == \A m \in Member :
    /\ Appends(u, m) => m \in window
    /\ Quits(u, m) => m \notin window
    /\ Appends(u, m) \/ Quits(u, m) \/ (m \in window <=> Listed(m))

LEMMA SoloBefore ==
    ASSUME WindowInv, ~raced, NEW u \in Updater, update[u].at \in Inside
    PROVE  Solo(u) /\ SoloWindow(u)
<1>1. mutex = u /\ u # None /\ u # Main
  BY DEF WindowInv, GChatInv, Holder
<1>2. Solo(u)
  BY <1>1, Alone DEF Solo
<1>3. \A m : InTransit(m) => Appends(u, m) \/ Quits(u, m)
  BY <1>2 DEF Solo, InTransit, Appends, Quits, IsKickedOut, WasKicked, At, Inside
<1> QED  BY <1>2, <1>3 DEF WindowInv, WindowTold, WindowShows, SoloWindow

LEMMA SoloAfter ==
    ASSUME NEW u \in Updater, ~raced' => Solo(u)' /\ SoloWindow(u)'
    PROVE  WindowTold' /\ WindowShows'
<1> SUFFICES ASSUME ~raced', NEW m \in Member
             PROVE  /\ \A v \in Updater : Appends(v, m)' => m \in window'
                    /\ \A v \in Updater : Quits(v, m)' => m \notin window'
                    /\ ~IsKickedOut(m)' /\ \A f \in Fetcher : ~WasKicked(f, m)'
                    /\ InTransit(m)' \/ (m \in window' <=> Listed(m)')
  BY Zenon DEF WindowTold, WindowShows
<1>1. \A v \in Updater : v # u => ~Appends(v, m)' /\ ~Quits(v, m)'
  BY DEF Solo, Appends, Quits, At, Inside
<1>2. ~IsKickedOut(m)' /\ \A f \in Fetcher : ~WasKicked(f, m)'
  BY DEF Solo, IsKickedOut, WasKicked
<1> QED  BY <1>1, <1>2, Zenon DEF SoloWindow, InTransit

LEMMA SoloStays ==
    ASSUME WindowInv, NEW u \in Updater, Solo(u), NEW t, Set(u, t), UNCHANGED <<kick, fetch>>
    PROVE  Solo(u)'
BY DEF Solo, Set, WindowInv, GChatInv, Typed

(* Who is listed after a removal, or an append.                                *)
LEMMA ListedAfterRemoval ==
    ASSUME GChatInv, NEW k \in Nat, joined' = RemChatContact(joined, k)
    PROVE  \A m : Listed(m)' <=> Listed(m) /\ ~(k \in DOMAIN joined /\ joined[k] = m)
<1>0. joined \in Seq(Member) /\ Len(joined) \in Nat /\ DOMAIN joined = 1 .. Len(joined)
  BY LenProperties DEF GChatInv, Typed
<1>1. CASE k \notin DOMAIN joined
  BY <1>1 DEF RemChatContact, Listed
<1>2. CASE k \in DOMAIN joined
  <2>1. /\ DOMAIN joined' = 1 .. Len(joined) - 1
        /\ \A n \in DOMAIN joined' : joined'[n] = IF n < k THEN joined[n] ELSE joined[n + 1]
    BY <1>0, <1>2, Removed
  <2>2. \A i, j \in DOMAIN joined : joined[i] = joined[j] => i = j
    BY DEF GChatInv, NoDuplicate
  <2> SUFFICES ASSUME NEW m PROVE Listed(m)' <=> Listed(m) /\ joined[k] # m
    BY <1>2
  <2>3. ASSUME Listed(m)' PROVE Listed(m) /\ joined[k] # m
    <3>1. PICK n \in DOMAIN joined' : joined'[n] = m
      BY <2>3 DEF Listed
    <3>2. PICK o \in DOMAIN joined : o # k /\ joined[o] = m
      BY <1>0, <1>2, <2>1, <3>1
    <3> QED  BY <1>2, <2>2, <3>2 DEF Listed
  <2>4. ASSUME Listed(m), joined[k] # m PROVE Listed(m)'
    <3>1. PICK o \in DOMAIN joined : joined[o] = m /\ o # k
      BY <2>4 DEF Listed
    <3>2. PICK n \in DOMAIN joined' : joined'[n] = m
      <4>1. CASE o < k
        BY <1>0, <1>2, <2>1, <3>1, <4>1
      <4>2. CASE o > k
        <5>1. o - 1 \in DOMAIN joined' /\ ~(o - 1 < k) /\ (o - 1) + 1 = o
          BY <1>0, <1>2, <2>1, <3>1, <4>2
        <5> QED  BY <2>1, <3>1, <5>1
      <4> QED  BY <1>0, <1>2, <3>1, <4>1, <4>2
    <3> QED  BY <3>2 DEF Listed
  <2> QED  BY <2>3, <2>4
<1> QED  BY <1>1, <1>2

LEMMA ListedAfterAppend ==
    ASSUME GChatInv, NEW who \in Member, joined' = Append(joined, who)
    PROVE  \A m : Listed(m)' <=> Listed(m) \/ m = who
<1>0. joined \in Seq(Member) /\ Len(joined) \in Nat /\ DOMAIN joined = 1 .. Len(joined)
  BY LenProperties DEF GChatInv, Typed
<1>1. /\ Len(joined') = Len(joined) + 1 /\ DOMAIN joined' = 1 .. Len(joined) + 1
      /\ \A k \in 1 .. Len(joined) : joined'[k] = joined[k]
      /\ joined'[Len(joined) + 1] = who
  BY <1>0, AppendProperties, LenProperties
<1> QED  BY <1>0, <1>1 DEF Listed

LEMMA ListedAfterIndex ==
    ASSUME GChatInv, NEW m, joined' = RemChatContact(joined, Index(m))
    PROVE  \A n : Listed(n)' <=> Listed(n) /\ n # m
<1>1. CASE Listed(m)
  <2>1. Index(m) \in DOMAIN joined /\ joined[Index(m)] = m
    BY <1>1, Zenon DEF Index, Listed
  <2>2. Index(m) \in Nat
    BY IndexIs
  <2> QED  BY <2>1, <2>2, ListedAfterRemoval
<1>2. CASE ~Listed(m)
  <2>1. Index(m) = 0 /\ 0 \notin DOMAIN joined
    <3>1. DOMAIN joined = 1 .. Len(joined) /\ Len(joined) \in Nat
      BY LenProperties DEF GChatInv, Typed
    <3> QED  BY <1>2, <3>1 DEF Index, Listed
  <2>2. joined' = joined
    BY <2>1 DEF RemChatContact
  <2> QED  BY <1>2, <2>2 DEF Listed
<1> QED  BY <1>1, <1>2

(* AddMembers tells the window of somebody who comes, and adds him; tells it   *)
(* of somebody who quits, and removes him.                                     *)
LEMMA JoinShown ==
    ASSUME WindowInv, GChatInv', NEW u \in Updater,
           Join(u) \/ AppendMember(u) \/ Quit(u) \/ QuitRemove(u)
    PROVE  WindowInv'
<1>0. /\ update \in [Updater -> UpdateType] /\ update[u] \in UpdateType
      /\ joined \in Seq(Member) /\ raced \in BOOLEAN
  BY DEF WindowInv, GChatInv, Typed, FetchTyped
<1>1. /\ UNCHANGED <<kick, fetch, raced, mutex>> /\ update[u].at \in Inside
      /\ \E t : Set(u, t)
  BY DEF Join, AppendMember, Quit, QuitRemove, Others, At, Inside
<1>2. FetchTyped' /\ NoRace'
  BY <1>1 DEF WindowInv, FetchTyped, NoRace, Unlocked
<1>a. SweepsFromOne'
  <2>1. ASSUME NEW v \in Updater, v # u PROVE update'[v] = update[v]
    BY <1>0, <1>1, <2>1 DEF Set
  <2>2. update'[u].at = "sweep" => update'[u].i # 0
    <3>1. CASE Quit(u)
      <4>1. PICK k \in Unmarked(u, update[u].i) : Set(u, [update[u] EXCEPT !.at = "remove", !.i = k])
        BY <3>1 DEF Quit
      <4> QED  BY <1>0, <4>1 DEF Set, UpdateType
    <3>2. CASE Join(u)
      <4>1. PICK m \in update[u].left :
               Set(u, [update[u] EXCEPT !.left = @ \ {m}, !.at = "append", !.who = m])
        BY <3>2 DEF Join
      <4> QED  BY <1>0, <4>1 DEF Set, UpdateType
    <3>3. CASE AppendMember(u)
      <4>1. Set(u, [update[u] EXCEPT !.at = "next", !.mask = Marked(@, joined', Len(joined'))])
        BY <3>3 DEF AppendMember
      <4> QED  BY <1>0, <4>1 DEF Set, UpdateType
    <3>4. CASE QuitRemove(u)
      <4>1. Set(u, [update[u] EXCEPT !.at = "sweep", !.i = @ + 1])
        BY <3>4 DEF QuitRemove
      <4>2. update[u].i \in Nat
        BY <1>0 DEF UpdateType
      <4>3. update'[u].i = update[u].i + 1
        BY <1>0, <4>1 DEF Set, UpdateType
      <4> QED  BY <4>2, <4>3
    <3> QED  BY <3>1, <3>2, <3>3, <3>4
  <2> QED  BY <2>1, <2>2 DEF WindowInv, SweepsFromOne, At
<1> SUFFICES ASSUME ~raced' PROVE Solo(u)' /\ SoloWindow(u)'
  BY <1>2, <1>a, SoloAfter DEF WindowInv
<1>3. ~raced
  BY <1>1
<1>4. Solo(u) /\ SoloWindow(u)
  BY <1>1, <1>3, SoloBefore
<1>5. Solo(u)'
  BY <1>1, <1>4, SoloStays
<1>6. CASE Join(u)
  <2>1. PICK m \in update[u].left : /\ Index(m) = 0 /\ window' = window \cup {m}
           /\ update' = [update EXCEPT ![u] = [update[u] EXCEPT !.left = @ \ {m}, !.at = "append", !.who = m]]
    BY <1>6 DEF Join, Set
  <2>2. update'[u].at = "append" /\ update'[u].who = m /\ update[u].at = "next" /\ joined' = joined
    BY <1>0, <1>6, <2>1 DEF UpdateType, Join, At, Others
  <2>3. \A n : Listed(n)' <=> Listed(n)
    BY <2>2 DEF Listed
  <2> QED  BY <1>4, <1>5, <2>1, <2>2, <2>3 DEF SoloWindow, Appends, Quits, At
<1>7. CASE AppendMember(u)
  <2>1. /\ joined' = Append(joined, update[u].who) /\ update[u].who \in Member
        /\ update[u].at = "append" /\ window' = window
    BY <1>7 DEF AppendMember, At, WindowInv, GChatInv, NewOne
  <2>2. update'[u].at = "next"
    <3>1. Set(u, [update[u] EXCEPT !.at = "next", !.mask = Marked(@, joined', Len(joined'))])
      BY <1>7 DEF AppendMember
    <3> HIDE DEF Marked
    <3> QED  BY <1>0, <3>1 DEF Set, UpdateType
  <2>3. \A n : Listed(n)' <=> Listed(n) \/ n = update[u].who
    BY <2>1, ListedAfterAppend DEF WindowInv
  <2> QED  BY <1>4, <1>5, <2>1, <2>2, <2>3 DEF SoloWindow, Appends, Quits, At
<1>8. CASE Quit(u)
  <2>1. PICK k \in Unmarked(u, update[u].i) : /\ window' = window \ {joined[k]}
           /\ update' = [update EXCEPT ![u] = [update[u] EXCEPT !.at = "remove", !.i = k]]
    BY <1>8 DEF Quit, Set
  <2>2. update'[u].at = "remove" /\ update'[u].i = k /\ update[u].at = "sweep" /\ joined' = joined
    BY <1>0, <1>8, <2>1 DEF UpdateType, Quit, At, Others
  <2>3. k \in DOMAIN joined
    <3>1. Len(joined) \in Nat /\ DOMAIN joined = 1 .. Len(joined)
      BY <1>0, LenProperties
    <3>2. update[u].i \in Nat /\ update[u].i # 0
      BY <1>0, <2>2 DEF UpdateType, WindowInv, SweepsFromOne, At
    <3> QED  BY <2>1, <3>1, <3>2 DEF Unmarked
  <2>4. \A n : Listed(n)' <=> Listed(n)
    BY <2>2 DEF Listed
  <2> QED  BY <1>4, <1>5, <2>1, <2>2, <2>3, <2>4 DEF SoloWindow, Appends, Quits, At
<1>9. CASE QuitRemove(u)
  <2>1. /\ joined' = RemChatContact(joined, update[u].i) /\ update[u].i \in Nat
        /\ update[u].at = "remove" /\ window' = window
        /\ update' = [update EXCEPT ![u] = [update[u] EXCEPT !.at = "sweep", !.i = @ + 1]]
    BY <1>0, <1>9 DEF QuitRemove, At, UpdateType, Set
  <2>2. update'[u].at = "sweep"
    BY <1>0, <2>1 DEF UpdateType
  <2>3. \A n : Listed(n)' <=> Listed(n) /\ ~Quits(u, n)
    BY <2>1, ListedAfterRemoval DEF WindowInv, Quits, At
  <2> QED  BY <1>4, <1>5, <2>1, <2>2, <2>3 DEF SoloWindow, Appends, Quits, At
<1> QED  BY <1>6, <1>7, <1>8, <1>9


(* Somebody is kicked: by the user, with m_GCMutex, or by others, without it.  *)
LEMMA KickShown ==
    ASSUME WindowInv, GChatInv', KickEvent \/ KickRemove
    PROVE  WindowInv'
<1>0. joined \in Seq(Member) /\ kick = <<kick[1], kick[2]>>
  BY DEF WindowInv, GChatInv, Typed
<1>1. /\ UNCHANGED <<update, fetch, raced>> /\ mutex = Main
      /\ mutex' = mutex \/ mutex' = None
  BY DEF KickEvent, KickRemove, WindowInv, GChatInv, Holder
<1>2. FetchTyped' /\ NoRace' /\ SweepsFromOne'
  BY <1>1, NoRaceKept DEF WindowInv, FetchTyped, SweepsFromOne, At
<1> SUFFICES ASSUME ~raced' PROVE WindowTold' /\ WindowShows'
  BY <1>2, Zenon DEF WindowInv, WindowTold, WindowShows
<1>3. ~raced
  BY <1>1
<1>4. /\ \A u \in Updater : update[u].at \notin Inside
      /\ \A f \in Fetcher : fetch[f][1] # "remove"
  <2>1. Main # None /\ Main \notin Updater
    OBVIOUS
  <2> QED  BY <1>1, <1>3, <2>1, Alone DEF WindowInv
<1>5. /\ \A m \in Member : IsKickedOut(m) => m \notin window
      /\ \A m \in Member : IsKickedOut(m) \/ (m \in window <=> Listed(m))
  BY <1>3, <1>4 DEF WindowInv, WindowTold, WindowShows, InTransit, Appends, Quits, WasKicked, At, Inside
<1>6. \A m \in Member : /\ \A u \in Updater : ~Appends(u, m)' /\ ~Quits(u, m)'
                        /\ \A f \in Fetcher : ~WasKicked(f, m)'
  BY <1>1, <1>4 DEF Appends, Quits, WasKicked, At, Inside
<1>7. \A m \in Member : /\ IsKickedOut(m)' => m \notin window'
                        /\ IsKickedOut(m)' \/ (m \in window' <=> Listed(m)')
  <2>1. CASE KickEvent
    <3>1. kick[1] = "answered" /\ kick' = <<"remove", kick[2]>> /\ window' = window \ {kick[2]} /\ joined' = joined
      BY <2>1 DEF KickEvent
    <3>2. \A m : Listed(m)' <=> Listed(m)
      BY <3>1 DEF Listed
    <3> QED  BY <1>5, <3>1, <3>2 DEF IsKickedOut
  <2>2. CASE KickRemove
    <3>1. /\ kick[1] = "remove" /\ kick' = <<"done", None>> /\ window' = window
          /\ joined' = RemChatContact(joined, Index(kick[2]))
      BY <2>2 DEF KickRemove
    <3>2. \A m : Listed(m)' <=> Listed(m) /\ m # kick[2]
      BY <3>1, ListedAfterIndex DEF WindowInv
    <3> QED  BY <1>5, <3>1, <3>2 DEF IsKickedOut
  <2> QED  BY <2>1, <2>2
<1>8. WindowTold'
  BY <1>6, <1>7 DEF WindowTold
<1>9. WindowShows'
  BY <1>6, <1>7 DEF WindowShows, InTransit
<1> QED  BY <1>8, <1>9

LEMMA KickedShown ==
    ASSUME WindowInv, GChatInv', NEW f \in Fetcher, KickedEvent(f) \/ KickedRemove(f)
    PROVE  WindowInv'
<1>0. /\ fetch \in [Fetcher -> {"idle", "event", "remove", "done"} \X (Member \cup {None})]
      /\ raced \in BOOLEAN
  BY DEF WindowInv, FetchTyped
<1>1. UNCHANGED <<update, kick, mutex>>
  BY DEF KickedEvent, KickedRemove
<1>r. raced => raced'
  BY Zenon DEF KickedEvent, KickedRemove
<1>2. FetchTyped' /\ SweepsFromOne'
  <2>1. raced' \in BOOLEAN
    BY <1>0, Zenon DEF KickedEvent, KickedRemove
  <2>2. fetch' \in [Fetcher -> {"idle", "event", "remove", "done"} \X (Member \cup {None})]
    BY <1>0 DEF KickedEvent, KickedRemove
  <2> QED  BY <1>1, <2>1, <2>2 DEF WindowInv, FetchTyped, SweepsFromOne, At
<1> SUFFICES ASSUME ~raced' PROVE mutex' = None /\ WindowTold' /\ WindowShows'
  BY <1>2, Zenon DEF WindowInv, WindowTold, WindowShows, NoRace
<1>3. ~raced /\ mutex = None
  <2>1. CASE KickedEvent(f)
    BY <1>r, <2>1 DEF KickedEvent
  <2>2. CASE KickedRemove(f)
    BY <1>r, <2>2 DEF KickedRemove, WindowInv, NoRace, Unlocked
  <2> QED  BY <2>1, <2>2
<1>4. /\ \A u \in Updater : update[u].at \notin Inside
      /\ kick[1] # "remove"
  BY <1>3 DEF WindowInv, GChatInv, Holder
<1>5. /\ \A m \in Member, g \in Fetcher : WasKicked(g, m) => m \notin window
      /\ \A m \in Member : (\E g \in Fetcher : WasKicked(g, m)) \/ (m \in window <=> Listed(m))
  BY <1>3, <1>4 DEF WindowInv, WindowTold, WindowShows, InTransit, Appends, Quits, IsKickedOut, At, Inside
<1>6. \A m \in Member : ~IsKickedOut(m)' /\ \A u \in Updater : ~Appends(u, m)' /\ ~Quits(u, m)'
  BY <1>1, <1>4 DEF Appends, Quits, IsKickedOut, At, Inside
<1>7. /\ \A m \in Member, g \in Fetcher : WasKicked(g, m)' => m \notin window'
      /\ \A m \in Member : (\E g \in Fetcher : WasKicked(g, m)') \/ (m \in window' <=> Listed(m)')
  <2>1. CASE KickedEvent(f)
    <3>1. /\ fetch[f][1] = "event" /\ fetch' = [fetch EXCEPT ![f] = <<"remove", @[2]>>]
          /\ window' = window \ {fetch[f][2]} /\ joined' = joined
      BY <2>1 DEF KickedEvent
    <3>2. \A m : \A g \in Fetcher : WasKicked(g, m)' <=> WasKicked(g, m) \/ (g = f /\ m = fetch[f][2])
      BY <1>0, <3>1 DEF WasKicked
    <3>3. \A m : Listed(m)' <=> Listed(m)
      BY <3>1 DEF Listed
    <3> QED  BY <1>5, <3>1, <3>2, <3>3
  <2>2. CASE KickedRemove(f)
    <3>1. /\ fetch[f][1] = "remove" /\ fetch' = [fetch EXCEPT ![f] = <<"done", None>>]
          /\ window' = window /\ joined' = RemChatContact(joined, Index(fetch[f][2]))
      BY <2>2 DEF KickedRemove
    <3>2. \A m : \A g \in Fetcher : WasKicked(g, m)' <=> WasKicked(g, m) /\ g # f
      BY <1>0, <3>1 DEF WasKicked
    <3>3. \A m : Listed(m)' <=> Listed(m) /\ m # fetch[f][2]
      BY <3>1, ListedAfterIndex DEF WindowInv
    <3>4. \A m : WasKicked(f, m) <=> m = fetch[f][2]
      BY <3>1 DEF WasKicked
    <3> QED  BY <1>5, <3>1, <3>2, <3>3, <3>4
  <2> QED  BY <2>1, <2>2
<1>8. WindowTold'
  BY <1>6, <1>7 DEF WindowTold
<1>9. WindowShows'
  BY <1>6, <1>7 DEF WindowShows, InTransit
<1> QED  BY <1>1, <1>3, <1>8, <1>9

LEMMA WindowInit == Init => WindowInv
<1> SUFFICES ASSUME Init PROVE WindowInv
  OBVIOUS
<1>1. GChatInv
  BY GChatInit
<1>2. \A u \in Updater : update[u].at \in {"idle", "enter"}
  BY DEF Init, Idle
<1>3. FetchTyped /\ SweepsFromOne /\ NoRace
  BY <1>2 DEF Init, FetchTyped, SweepsFromOne, NoRace, At
<1>4. \A m : ~Listed(m)
  BY DEF Init, Listed
<1>5. \A m : ~InTransit(m)
  BY <1>2 DEF Init, InTransit, Appends, Quits, IsKickedOut, WasKicked, At
<1>6. WindowTold
  BY <1>5 DEF WindowTold, InTransit
<1>7. WindowShows
  BY <1>4 DEF WindowShows, Init
<1> QED  BY <1>1, <1>3, <1>6, <1>7 DEF WindowInv

LEMMA WindowStep == WindowInv /\ [Next]_vars => WindowInv'
<1> SUFFICES ASSUME WindowInv, [Next]_vars PROVE WindowInv'
  OBVIOUS
<1>0. GChatInv'
  BY GChatStep DEF WindowInv
<1>1. CASE SkypeStep \/ KickAnswer \/ KickGiveUp \/ \E m \in Member : KickAsk(m)
  BY <1>0, <1>1, QuietOthers
<1>2. ASSUME NEW u \in Updater, UpdateStep(u) PROVE WindowInv'
  BY <1>0, <1>2, QuietUpdate, JoinShown DEF UpdateStep
<1>3. CASE KickEvent \/ KickRemove
  BY <1>0, <1>3, KickShown
<1>4. ASSUME NEW f \in Fetcher, FetchStep(f) PROVE WindowInv'
  BY <1>0, <1>4, KickedShown DEF FetchStep
<1>5. CASE UNCHANGED vars
  <2>1. UNCHANGED <<joined, window, mutex, update, kick, fetch, raced>>
    BY <1>5 DEF vars
  <2>2. FetchTyped' /\ SweepsFromOne' /\ NoRace' /\ SameParts
    BY <2>1 DEF WindowInv, FetchTyped, SweepsFromOne, NoRace, Unlocked, SameParts, At
  <2> QED  BY <1>0, <2>1, <2>2, SamePartsKeep
<1> QED  BY <1>1, <1>2, <1>3, <1>4, <1>5 DEF Next, KickEnds

(* The window shows those who are in the list, but for those one step between  *)
(* the two is about: WindowAgrees, for any members, threads and fetchers.      *)
THEOREM WindowFollows == Spec => []WindowAgrees
<1>1. WindowInv => WindowAgrees
  BY WindowShowsAgrees DEF WindowInv
<1> QED  BY <1>1, WindowInit, WindowStep, PTL DEF Spec

-----------------------------------------------------------------------------
(* The thread's copy of the message, and contactmask, which is as long as the  *)
(* list when it is read.                                                       *)
Working == {"next", "append", "sweep", "remove"}
RowRight(u) == /\ update[u].left \subseteq update[u].list
               /\ update[u].at \in Working =>
                     \A k \in DOMAIN joined : k \in DOMAIN update[u].mask
RowsInv == WindowInv /\ \A u \in Updater : RowRight(u)

LEMMA MarkedIs ==
    ASSUME NEW mask, NEW list, NEW i
    PROVE  /\ DOMAIN Marked(mask, list, i) = DOMAIN list
           /\ \A k \in DOMAIN list : Marked(mask, list, i)[k] <=> k = i \/ (k \in DOMAIN mask /\ mask[k])
BY Zenon DEF Marked

LEMMA RemovalShortens ==
    ASSUME GChatInv, NEW k \in Nat, joined' = RemChatContact(joined, k)
    PROVE  DOMAIN joined' \subseteq DOMAIN joined
<1>0. joined \in Seq(Member) /\ Len(joined) \in Nat /\ DOMAIN joined = 1 .. Len(joined)
  BY LenProperties DEF GChatInv, Typed
<1>1. CASE k \in DOMAIN joined
  <2>1. DOMAIN joined' = 1 .. Len(joined) - 1
    BY <1>0, <1>1, Removed
  <2> QED  BY <1>0, <2>1
<1> QED  BY <1>1 DEF RemChatContact

LEMMA OwnRow ==
    ASSUME RowsInv, NEW u \in Updater, UpdateStep(u)
    PROVE  RowRight(u)'
<1>0. /\ update \in [Updater -> UpdateType] /\ update[u] \in UpdateType
      /\ joined \in Seq(Member) /\ Len(joined) \in Nat /\ DOMAIN joined = 1 .. Len(joined)
  BY LenProperties DEF RowsInv, WindowInv, GChatInv, Typed
<1>a. /\ update[u].left \subseteq update[u].list
      /\ update[u].at \in Working => \A k \in DOMAIN joined : k \in DOMAIN update[u].mask
  BY DEF RowsInv, RowRight
<1>b. DOMAIN Cleared = DOMAIN joined
  BY DEF Cleared
<1>1. CASE Enter(u)
  <2>1. Set(u, [update[u] EXCEPT !.at = IF roles THEN "fetch" ELSE "next",
                                 !.left = update[u].list, !.mask = Cleared]) /\ joined' = joined
    BY <1>1 DEF Enter
  <2>2. update'[u].mask = Cleared /\ update'[u].left = update'[u].list
    BY <1>0, <2>1 DEF Set, UpdateType
  <2> QED  BY <1>b, <2>1, <2>2 DEF RowRight
<1>2. CASE Fetch(u)
  <2>1. /\ \/ Set(u, [update[u] EXCEPT !.at = "next", !.objects = TRUE, !.list = skype,
                                   !.left = skype, !.mask = Cleared])
           \/ Set(u, [update[u] EXCEPT !.at = "next", !.mask = Cleared])
        /\ joined' = joined
    BY <1>2 DEF Fetch
  <2>2. update'[u].mask = Cleared /\ update'[u].left \subseteq update'[u].list
    <3>1. CASE Set(u, [update[u] EXCEPT !.at = "next", !.objects = TRUE, !.list = skype,
                                        !.left = skype, !.mask = Cleared])
      BY <1>0, <3>1 DEF Set, UpdateType
    <3>2. CASE Set(u, [update[u] EXCEPT !.at = "next", !.mask = Cleared])
      BY <1>0, <1>a, <3>2 DEF Set, UpdateType
    <3> QED  BY <2>1, <3>1, <3>2
  <2> QED  BY <1>b, <2>1, <2>2 DEF RowRight
<1>3. CASE Skip(u)
  <2>1. PICK m \in update[u].left : Set(u, [update[u] EXCEPT !.left = @ \ {m}, !.exact = FALSE])
    BY <1>3 DEF Skip
  <2>2. /\ update'[u].left = update[u].left \ {m} /\ update'[u].list = update[u].list
        /\ update'[u].mask = update[u].mask
    BY <1>0, <2>1 DEF Set, UpdateType
  <2>3. update[u].at = "next" /\ joined' = joined
    BY <1>3 DEF Skip, At
  <2> QED  BY <1>a, <2>2, <2>3 DEF RowRight, Working
<1>4. CASE Known(u)
  <2>1. PICK m \in update[u].left :
           Set(u, [update[u] EXCEPT !.left = @ \ {m}, !.mask = Marked(@, joined, Index(m))])
    BY <1>4 DEF Known
  <2>2. /\ update'[u].left = update[u].left \ {m} /\ update'[u].list = update[u].list
        /\ update'[u].mask = Marked(update[u].mask, joined, Index(m))
    BY <1>0, <2>1 DEF Set, UpdateType
  <2>3. joined' = joined
    BY <1>4 DEF Known
  <2> QED  BY <1>a, <2>2, <2>3, MarkedIs DEF RowRight
<1>5. CASE Join(u)
  <2>1. PICK m \in update[u].left :
           Set(u, [update[u] EXCEPT !.left = @ \ {m}, !.at = "append", !.who = m])
    BY <1>5 DEF Join
  <2>2. /\ update'[u].left = update[u].left \ {m} /\ update'[u].list = update[u].list
        /\ update'[u].mask = update[u].mask
    BY <1>0, <2>1 DEF Set, UpdateType
  <2>3. update[u].at = "next" /\ joined' = joined
    BY <1>5 DEF Join, At, Others
  <2> QED  BY <1>a, <2>2, <2>3 DEF RowRight, Working
<1>6. CASE JoinFails(u)
  <2>1. PICK m \in update[u].left :
           Set(u, [update[u] EXCEPT !.left = @ \ {m}, !.exact = FALSE,
                      !.at = IF update[u].objects THEN "next" ELSE "leave",
                      !.mask = Marked(@, joined, 0)])
    BY <1>6 DEF JoinFails
  <2>2. /\ update'[u].left = update[u].left \ {m} /\ update'[u].list = update[u].list
        /\ update'[u].mask = Marked(update[u].mask, joined, 0)
    BY <1>0, <2>1 DEF Set, UpdateType
  <2>3. joined' = joined
    BY <1>6 DEF JoinFails
  <2> QED  BY <1>a, <2>2, <2>3, MarkedIs DEF RowRight
<1>7. CASE AppendMember(u)
  <2>1. Set(u, [update[u] EXCEPT !.at = "next", !.mask = Marked(@, joined', Len(joined'))])
    BY <1>7 DEF AppendMember
  <2>2. /\ update'[u].left = update[u].left /\ update'[u].list = update[u].list
        /\ update'[u].mask = Marked(update[u].mask, joined', Len(joined'))
    BY <1>0, <2>1 DEF Set, UpdateType
  <2> QED  BY <1>a, <2>2, MarkedIs DEF RowRight
<1>8. CASE Sweep(u)
  <2>1. PICK many \in {Cardinality(Unmarked(u, 1)) > 1} :
           Set(u, [update[u] EXCEPT !.at = "sweep", !.i = 1, !.exact = @ /\ ~many])
    BY <1>8 DEF Sweep
  <2>2. /\ update'[u].left = update[u].left /\ update'[u].list = update[u].list
        /\ update'[u].mask = update[u].mask
    BY <1>0, <2>1 DEF Set, UpdateType
  <2>3. update[u].at = "next" /\ joined' = joined
    BY <1>8 DEF Sweep, At
  <2> QED  BY <1>a, <2>2, <2>3 DEF RowRight, Working
<1>9. CASE Quit(u)
  <2>1. PICK k \in Unmarked(u, update[u].i) : Set(u, [update[u] EXCEPT !.at = "remove", !.i = k])
    BY <1>9 DEF Quit
  <2>2. /\ update'[u].left = update[u].left /\ update'[u].list = update[u].list
        /\ update'[u].mask = update[u].mask
    BY <1>0, <2>1 DEF Set, UpdateType
  <2>3. update[u].at = "sweep" /\ joined' = joined
    BY <1>9 DEF Quit, At
  <2> QED  BY <1>a, <2>2, <2>3 DEF RowRight, Working
<1>10. CASE QuitRemove(u)
  <2>1. Set(u, [update[u] EXCEPT !.at = "sweep", !.i = @ + 1]) /\ update[u].at = "remove"
    BY <1>10 DEF QuitRemove, At
  <2>2. /\ update'[u].left = update[u].left /\ update'[u].list = update[u].list
        /\ update'[u].mask = update[u].mask
    BY <1>0, <2>1 DEF Set, UpdateType
  <2>3. DOMAIN joined' \subseteq DOMAIN joined
    <3>1. joined' = RemChatContact(joined, update[u].i) /\ update[u].i \in Nat
      BY <1>0, <1>10 DEF QuitRemove, UpdateType
    <3> QED  BY <3>1, RemovalShortens DEF RowsInv, WindowInv
  <2> QED  BY <1>a, <2>1, <2>2, <2>3 DEF RowRight, Working
<1>11. CASE Swept(u) \/ Leave(u)
  <2>1. Set(u, [update[u] EXCEPT !.at = "leave"]) \/ Set(u, [Idle EXCEPT !.at = "done"])
    BY <1>11 DEF Swept, Leave
  <2>2. update'[u].at \notin Working /\ update'[u].left \subseteq update'[u].list
    <3>1. CASE Set(u, [update[u] EXCEPT !.at = "leave"])
      BY <1>0, <1>a, <3>1 DEF Set, UpdateType, Working
    <3>2. CASE Set(u, [Idle EXCEPT !.at = "done"])
      BY <1>0, <3>2 DEF Set, Idle, Working
    <3> QED  BY <2>1, <3>1, <3>2
  <2> QED  BY <2>2 DEF RowRight
<1> QED  BY <1>1, <1>2, <1>3, <1>4, <1>5, <1>6, <1>7, <1>8, <1>9, <1>10, <1>11 DEF UpdateStep


(* Another thread's row, whose list may have become shorter, or longer if it   *)
(* does not work on it.                                                        *)
LEMMA OtherRow ==
    ASSUME RowsInv, NEW v \in Updater, update'[v] = update[v],
           DOMAIN joined' \subseteq DOMAIN joined \/ update[v].at \notin Inside
    PROVE  RowRight(v)'
BY DEF RowsInv, RowRight, Working, Inside

LEMMA RowsKeep ==
    ASSUME RowsInv, WindowInv', Next
    PROVE  RowsInv'
<1>0. /\ update \in [Updater -> UpdateType]
      /\ joined \in Seq(Member) /\ Len(joined) \in Nat /\ DOMAIN joined = 1 .. Len(joined)
  BY LenProperties DEF RowsInv, WindowInv, GChatInv, Typed
<1> SUFFICES ASSUME NEW v \in Updater PROVE RowRight(v)'
  BY DEF RowsInv
<1>1. CASE SkypeStep \/ KickAnswer
  <2>1. PICK u \in Updater : \E members : Set(u, [Idle EXCEPT !.at = "enter", !.list = members])
    BY <1>1 DEF SkypeStep, Comes, Goes, IsKicked, KickAnswer, Tell
  <2>2. joined' = joined
    BY <1>1 DEF SkypeStep, Comes, Goes, IsKicked, KickAnswer
  <2>3. CASE v = u
    BY <1>0, <2>1, <2>3 DEF Set, Idle, RowRight, Working
  <2>4. CASE v # u
    BY <1>0, <2>1, <2>2, <2>4, OtherRow DEF Set
  <2> QED  BY <2>3, <2>4
<1>2. ASSUME NEW u \in Updater, UpdateStep(u) PROVE RowRight(v)'
  <2>1. CASE v = u
    BY <1>2, <2>1, OwnRow
  <2>2. CASE v # u
    <3>1. update'[v] = update[v]
      <4>1. \E t : Set(u, t)
        BY <1>2 DEF UpdateStep, Enter, Fetch, Skip, Known, Join, JoinFails, AppendMember,
                    Sweep, Quit, QuitRemove, Swept, Leave
      <4> QED  BY <1>0, <2>2, <4>1 DEF Set
    <3>2. DOMAIN joined' \subseteq DOMAIN joined \/ update[v].at \notin Inside
      <4>1. CASE AppendMember(u)
        BY <2>2, <4>1 DEF AppendMember, At, RowsInv, WindowInv, GChatInv, Holder, Inside
      <4>2. CASE QuitRemove(u)
        <5>1. joined' = RemChatContact(joined, update[u].i) /\ update[u].i \in Nat
          BY <1>0, <4>2 DEF QuitRemove, UpdateType
        <5> QED  BY <5>1, RemovalShortens DEF RowsInv, WindowInv
      <4>3. CASE ~AppendMember(u) /\ ~QuitRemove(u)
        <5>1. joined' = joined
          BY <1>2, <4>3 DEF UpdateStep, Enter, Fetch, Skip, Known, Join, JoinFails,
                    Sweep, Quit, Swept, Leave, Others
        <5> QED  BY <5>1
      <4> QED  BY <4>1, <4>2, <4>3
    <3> QED  BY <3>1, <3>2, OtherRow
  <2> QED  BY <2>1, <2>2
<1>3. CASE (\E m \in Member : KickAsk(m)) \/ KickEnds \/ \E f \in Fetcher : FetchStep(f)
  <2>1. update' = update
    BY <1>3 DEF KickAsk, KickEnds, KickEvent, KickRemove, KickGiveUp, FetchStep, KickedEvent, KickedRemove
  <2>2. DOMAIN joined' \subseteq DOMAIN joined
    <3>1. joined' = joined \/ \E m : joined' = RemChatContact(joined, Index(m))
      BY <1>3 DEF KickAsk, KickEnds, KickEvent, KickRemove, KickGiveUp, FetchStep, KickedEvent, KickedRemove
    <3> QED  BY <3>1, RemovalShortens, IndexIs DEF RowsInv, WindowInv
  <2> QED  BY <2>1, <2>2, OtherRow
<1> QED  BY <1>1, <1>2, <1>3 DEF Next

-----------------------------------------------------------------------------
(* The marks.  Those of the message that a thread has worked on already:       *)
Seen(u) == update[u].list \ update[u].left
(* Exactly they are marked in the list, and the mask is long enough.           *)
Fits(u) == \A k \in DOMAIN joined :
    /\ k \in DOMAIN update[u].mask
    /\ update[u].mask[k] <=> joined[k] \in Seen(u)
AllListed(set) == \A m \in set : Listed(m)

Marks(u) ==
    /\ At(u, "fetch") => update[u].left = update[u].list
    /\ At(u, "next") => Fits(u) /\ AllListed(Seen(u))
    /\ At(u, "append") => /\ Fits(u) /\ update[u].who \in Seen(u)
                          /\ AllListed(Seen(u) \ {update[u].who})
    /\ At(u, "sweep") =>
          /\ AllListed(update[u].list) /\ update[u].left = {}
          /\ \/ update[u].i = 1 /\ Fits(u) /\ \A k, n \in Unmarked(u, 1) : k = n
             \/ (\A k \in DOMAIN joined : joined[k] \in update[u].list) /\ Unmarked(u, update[u].i) = {}
    /\ At(u, "remove") =>
          /\ AllListed(update[u].list) /\ update[u].left = {} /\ Fits(u)
          /\ update[u].i \in DOMAIN joined /\ joined[update[u].i] \notin update[u].list
          /\ \A k \in DOMAIN joined : k # update[u].i => joined[k] \in update[u].list
MarksRight == ~raced => \A u \in Updater : update[u].exact => Marks(u)
MarksInv == RowsInv /\ MarksRight

(* At the end of the loop nobody is left in the list whom Skype did not name.  *)
LEMMA SweptExact ==
    ASSUME MarksInv, NEW u \in Updater, Swept(u), update[u].exact, ~raced
    PROVE  ToSet(joined) = update[u].list
<1>0. joined \in Seq(Member) /\ Len(joined) \in Nat /\ DOMAIN joined = 1 .. Len(joined)
  BY LenProperties DEF MarksInv, RowsInv, WindowInv, GChatInv, Typed
<1>1. /\ At(u, "sweep") /\ Unmarked(u, update[u].i) = {} /\ Marks(u)
  BY DEF MarksInv, MarksRight, Swept
<1>2. /\ AllListed(update[u].list) /\ update[u].left = {}
      /\ \/ update[u].i = 1 /\ Fits(u)
         \/ \A k \in DOMAIN joined : joined[k] \in update[u].list
  BY <1>1 DEF Marks
<1>3. \A k \in DOMAIN joined : joined[k] \in update[u].list
  <2>1. CASE update[u].i = 1 /\ Fits(u)
    BY <1>0, <1>1, <1>2, <2>1 DEF Fits, Unmarked, Seen
  <2> QED  BY <1>2, <2>1
<1> QED  BY <1>2, <1>3 DEF AllListed, Listed, ToSet

(* Another thread does not disturb the marks.                                  *)
LEMMA MarksKept ==
    ASSUME MarksInv, NEW v \in Updater, update'[v] = update[v], ~raced, update[v].exact,
           joined' = joined \/ update[v].at \notin Inside
    PROVE  Marks(v)'
<1>1. Marks(v)
  BY DEF MarksInv, MarksRight
<1>2. CASE update[v].at \notin Inside
  BY <1>2 DEF Marks, At, Inside
<1>3. CASE joined' = joined
  BY <1>1, <1>3 DEF Marks, At, Fits, Seen, AllListed, Listed, Unmarked
<1> QED  BY <1>2, <1>3

LEMMA AtMostOne ==
    ASSUME NEW S, IsFiniteSet(S), ~(Cardinality(S) > 1), NEW k \in S, NEW n \in S
    PROVE  k = n
<1> SUFFICES ASSUME k # n PROVE FALSE
  OBVIOUS
<1>1. IsFiniteSet({k}) /\ Cardinality({k}) = 1
  BY FS_Singleton
<1>2. IsFiniteSet({k} \cup {n}) /\ Cardinality({k} \cup {n}) = 2
  <2>1. n \notin {k}
    OBVIOUS
  <2>2. IsFiniteSet({k} \cup {n}) /\ Cardinality({k} \cup {n}) = Cardinality({k}) + 1
    BY <1>1, <2>1, FS_AddElement, Zenon
  <2> QED  BY <1>1, <2>2
<1>3. Cardinality({k} \cup {n}) <= Cardinality(S)
  <2>1. {k} \cup {n} \subseteq S
    OBVIOUS
  <2> QED  BY <2>1, FS_Subset
<1> QED  BY <1>2, <1>3, FS_CardinalityType

(* The marks as a thread looks through the message.                            *)
LEMMA LookMarks ==
    ASSUME MarksInv, GChatInv', ~raced', ~raced, NEW u \in Updater, update'[u].exact,
           Enter(u) \/ Fetch(u) \/ Known(u) \/ Join(u) \/ AppendMember(u)
    PROVE  Marks(u)'
<1>0. /\ update \in [Updater -> UpdateType] /\ update[u] \in UpdateType
      /\ joined \in Seq(Member) /\ Len(joined) \in Nat /\ DOMAIN joined = 1 .. Len(joined)
  BY LenProperties DEF MarksInv, RowsInv, WindowInv, GChatInv, Typed
<1>1. CASE Enter(u)
  <2>1. Set(u, [update[u] EXCEPT !.at = IF roles THEN "fetch" ELSE "next",
                                 !.left = update[u].list, !.mask = Cleared]) /\ joined' = joined
    BY <1>1 DEF Enter
  <2>2. /\ update'[u].at \in {"fetch", "next"} /\ update'[u].mask = Cleared
        /\ update'[u].left = update'[u].list
    BY <1>0, <2>1 DEF Set, UpdateType
  <2>3. \A k \in DOMAIN joined : k \in DOMAIN Cleared /\ ~Cleared[k]
    BY DEF Cleared
  <2> QED  BY <2>1, <2>2, <2>3 DEF Marks, At, Fits, Seen, AllListed
<1>2. CASE Fetch(u)
  <2>1. /\ \/ Set(u, [update[u] EXCEPT !.at = "next", !.objects = TRUE, !.list = skype,
                                   !.left = skype, !.mask = Cleared])
           \/ Set(u, [update[u] EXCEPT !.at = "next", !.mask = Cleared])
        /\ update[u].at = "fetch" /\ joined' = joined
    BY <1>2 DEF Fetch, At
  <2>2. update[u].exact
    <3>1. CASE Set(u, [update[u] EXCEPT !.at = "next", !.objects = TRUE, !.list = skype,
                                        !.left = skype, !.mask = Cleared])
      BY <1>0, <3>1 DEF Set, UpdateType
    <3>2. CASE Set(u, [update[u] EXCEPT !.at = "next", !.mask = Cleared])
      BY <1>0, <3>2 DEF Set, UpdateType
    <3> QED  BY <2>1, <3>1, <3>2
  <2>3. update[u].left = update[u].list
    BY <2>1, <2>2 DEF MarksInv, MarksRight, Marks, At
  <2>4. /\ update'[u].at = "next" /\ update'[u].mask = Cleared
        /\ update'[u].left = update'[u].list
    <3>1. CASE Set(u, [update[u] EXCEPT !.at = "next", !.objects = TRUE, !.list = skype,
                                        !.left = skype, !.mask = Cleared])
      BY <1>0, <3>1 DEF Set, UpdateType
    <3>2. CASE Set(u, [update[u] EXCEPT !.at = "next", !.mask = Cleared])
      BY <1>0, <2>3, <3>2 DEF Set, UpdateType
    <3> QED  BY <2>1, <3>1, <3>2
  <2>5. \A k \in DOMAIN joined : k \in DOMAIN Cleared /\ ~Cleared[k]
    BY DEF Cleared
  <2> QED  BY <2>1, <2>4, <2>5 DEF Marks, At, Fits, Seen, AllListed
<1>3. CASE Known(u)
  <2>1. PICK m \in update[u].left :
           /\ Set(u, [update[u] EXCEPT !.left = @ \ {m}, !.mask = Marked(@, joined, Index(m))])
           /\ Index(m) # 0
    BY <1>3 DEF Known
  <2> DEFINE mask == Marked(update[u].mask, joined, Index(m))
  <2>2. /\ update'[u].at = "next" /\ update'[u].mask = mask /\ update'[u].exact = update[u].exact
        /\ update'[u].left = update[u].left \ {m} /\ update'[u].list = update[u].list
        /\ update[u].at = "next" /\ joined' = joined
    BY <1>0, <1>3, <2>1 DEF Known, Set, UpdateType, At, Others
  <2>3. Marks(u)
    BY <2>2 DEF MarksInv, MarksRight
  <2>4. Fits(u) /\ AllListed(Seen(u))
    BY <2>2, <2>3 DEF Marks, At
  <2>5. \A k \in DOMAIN joined : k = Index(m) <=> joined[k] = m
    <3>1. Index(m) \in DOMAIN joined /\ joined[Index(m)] = m
      BY <2>1, Zenon DEF Index
    <3> QED  BY <3>1 DEF MarksInv, RowsInv, WindowInv, GChatInv, NoDuplicate
  <2>6. DOMAIN mask = DOMAIN joined /\ \A k \in DOMAIN joined : mask[k] <=> k = Index(m) \/ update[u].mask[k]
    BY <2>4, MarkedIs DEF Fits
  <2>7. Seen(u)' \subseteq Seen(u) \cup {m} /\ Seen(u) \subseteq Seen(u)' /\ (m \in Seen(u)' \/ m \notin update[u].list)
    BY <2>2 DEF Seen
  <2>8. m \in update[u].list
    BY <2>1 DEF MarksInv, RowsInv, RowRight
  <2>9. Seen(u)' = Seen(u) \cup {m}
    BY <2>1, <2>2, <2>8 DEF Seen
  <2> HIDE DEF mask
  <2>10. Fits(u)'
    BY <2>2, <2>4, <2>5, <2>6, <2>9 DEF Fits
  <2>11. AllListed(Seen(u))'
    BY <2>1, <2>2, <2>4, <2>9 DEF AllListed, Listed, Index
  <2> QED  BY <2>2, <2>10, <2>11 DEF Marks, At
<1>4. CASE Join(u)
  <2>1. PICK m \in update[u].left :
           Set(u, [update[u] EXCEPT !.left = @ \ {m}, !.at = "append", !.who = m]) /\ Index(m) = 0
    BY <1>4 DEF Join
  <2>a. \A k \in DOMAIN joined : joined[k] # m
    BY <2>1, IndexIs DEF MarksInv, RowsInv, WindowInv
  <2>2. /\ update'[u].at = "append" /\ update'[u].mask = update[u].mask
        /\ update'[u].exact = update[u].exact /\ update'[u].who = m
        /\ update'[u].left = update[u].left \ {m} /\ update'[u].list = update[u].list
        /\ update[u].at = "next" /\ joined' = joined
    BY <1>0, <1>4, <2>1 DEF Join, Set, UpdateType, At, Others
  <2>3. Fits(u) /\ AllListed(Seen(u))
    BY <2>2 DEF MarksInv, MarksRight, Marks, At
  <2>4. m \in update[u].list
    BY <2>1 DEF MarksInv, RowsInv, RowRight
  <2>5. Seen(u)' = Seen(u) \cup {m}
    BY <2>1, <2>2, <2>4 DEF Seen
  <2>6. Fits(u)'
    BY <2>a, <2>2, <2>3, <2>5 DEF Fits
  <2>7. AllListed(Seen(u) \ {update[u].who})'
    BY <2>2, <2>3, <2>5 DEF AllListed, Listed
  <2> QED  BY <2>2, <2>5, <2>6, <2>7 DEF Marks, At
<1>5. CASE AppendMember(u)
  <2>1. /\ Set(u, [update[u] EXCEPT !.at = "next", !.mask = Marked(@, joined', Len(joined'))])
        /\ joined' = Append(joined, update[u].who) /\ update[u].at = "append"
    BY <1>5 DEF AppendMember, At
  <2> DEFINE mask == Marked(update[u].mask, joined', Len(joined'))
  <2>2. /\ update'[u].at = "next" /\ update'[u].mask = mask
        /\ update'[u].left = update[u].left /\ update'[u].list = update[u].list
        /\ update'[u].exact = update[u].exact
    BY <1>0, <2>1 DEF Set, UpdateType
  <2>3. /\ Fits(u) /\ update[u].who \in Seen(u)
        /\ AllListed(Seen(u) \ {update[u].who})
    BY <2>1, <2>2 DEF MarksInv, MarksRight, Marks, At
  <2>4. update[u].who \in Member
    BY <2>1 DEF MarksInv, RowsInv, WindowInv, GChatInv, NewOne, At
  <2>5. /\ Len(joined') = Len(joined) + 1 /\ DOMAIN joined' = 1 .. Len(joined) + 1
        /\ \A k \in 1 .. Len(joined) : joined'[k] = joined[k]
        /\ joined'[Len(joined) + 1] = update[u].who
    BY <1>0, <2>1, <2>4, AppendProperties, LenProperties
  <2>6. /\ DOMAIN mask = DOMAIN joined'
        /\ \A k \in DOMAIN joined' : mask[k] <=> k = Len(joined') \/ (k \in DOMAIN update[u].mask /\ update[u].mask[k])
    BY MarkedIs
  <2>7. Seen(u)' = Seen(u)
    BY <2>2 DEF Seen
  <2> HIDE DEF mask
  <2>8. Fits(u)'
    <3> SUFFICES ASSUME NEW k \in DOMAIN joined'
                 PROVE  k \in DOMAIN mask /\ (mask[k] <=> joined'[k] \in Seen(u))
      BY <2>2, <2>7 DEF Fits
    <3>1. CASE k = Len(joined) + 1
      BY <2>3, <2>5, <2>6, <3>1
    <3>2. CASE k \in 1 .. Len(joined)
      <4>1. k # Len(joined')
        BY <1>0, <2>5, <3>2
      <4> QED  BY <1>0, <2>3, <2>5, <2>6, <3>2, <4>1 DEF Fits
    <3> QED  BY <1>0, <2>5, <3>1, <3>2
  <2>9. AllListed(Seen(u))'
    <3>1. \A m : Listed(m)' <=> Listed(m) \/ m = update[u].who
      BY <2>1, <2>4, ListedAfterAppend DEF MarksInv, RowsInv, WindowInv
    <3> QED  BY <2>3, <2>7, <3>1 DEF AllListed
  <2> QED  BY <2>2, <2>8, <2>9 DEF Marks, At
<1> QED  BY <1>1, <1>2, <1>3, <1>4, <1>5

(* The marks as a thread works on the loop at the end.                         *)
LEMMA LoopMarks ==
    ASSUME MarksInv, GChatInv', ~raced, NEW u \in Updater, update'[u].exact,
           Sweep(u) \/ Quit(u) \/ QuitRemove(u) \/ Swept(u) \/ Leave(u)
    PROVE  Marks(u)'
<1>0. /\ update \in [Updater -> UpdateType] /\ update[u] \in UpdateType
      /\ joined \in Seq(Member) /\ Len(joined) \in Nat /\ DOMAIN joined = 1 .. Len(joined)
  BY LenProperties DEF MarksInv, RowsInv, WindowInv, GChatInv, Typed
<1>1. CASE Sweep(u)
  <2>1. /\ Set(u, [update[u] EXCEPT !.at = "sweep", !.i = 1,
                                    !.exact = @ /\ ~(Cardinality(Unmarked(u, 1)) > 1)])
        /\ update[u].at = "next" /\ update[u].left = {} /\ joined' = joined
    BY <1>1 DEF Sweep, At
  <2>2. /\ update'[u].at = "sweep" /\ update'[u].i = 1 /\ update'[u].mask = update[u].mask
        /\ update'[u].left = update[u].left /\ update'[u].list = update[u].list
    BY <1>0, <2>1 DEF Set, UpdateType
  <2>3. update'[u].exact = (update[u].exact /\ ~(Cardinality(Unmarked(u, 1)) > 1))
    BY <1>0, <2>1 DEF Set, UpdateType
  <2>4. update[u].exact /\ ~(Cardinality(Unmarked(u, 1)) > 1)
    BY <2>3, Zenon
  <2>5. Fits(u) /\ AllListed(Seen(u)) /\ Seen(u) = update[u].list
    BY <2>1, <2>4 DEF MarksInv, MarksRight, Marks, At, Seen
  <2>6. Fits(u)' /\ AllListed(update[u].list)' /\ Unmarked(u, 1)' = Unmarked(u, 1)
    BY <2>1, <2>2, <2>5 DEF Fits, Seen, AllListed, Listed, Unmarked
  <2>7. IsFiniteSet(Unmarked(u, 1))
    <3>1. Unmarked(u, 1) \subseteq 1 .. Len(joined)
      BY DEF Unmarked
    <3>2. IsFiniteSet(1 .. Len(joined))
      BY <1>0, FS_Interval
    <3> QED  BY <3>1, <3>2, FS_Subset
  <2>8. \A k, n \in Unmarked(u, 1) : k = n
    BY <2>4, <2>7, AtMostOne
  <2> QED  BY <2>1, <2>2, <2>6, <2>8 DEF Marks, At
<1>2. CASE Quit(u)
  <2>1. PICK k \in Unmarked(u, update[u].i) :
           Set(u, [update[u] EXCEPT !.at = "remove", !.i = k])
    BY <1>2 DEF Quit
  <2>2. /\ update'[u].at = "remove" /\ update'[u].i = k /\ update'[u].mask = update[u].mask
        /\ update'[u].left = update[u].left /\ update'[u].list = update[u].list
        /\ update'[u].exact = update[u].exact
        /\ update[u].at = "sweep" /\ joined' = joined
    BY <1>0, <1>2, <2>1 DEF Quit, Set, UpdateType, At
  <2>3. /\ AllListed(update[u].list) /\ update[u].left = {}
        /\ update[u].i = 1 /\ Fits(u) /\ \A n, o \in Unmarked(u, 1) : n = o
    BY <2>1, <2>2 DEF MarksInv, MarksRight, Marks, At
  <2>4. /\ k \in DOMAIN joined
        /\ \A n \in DOMAIN joined : n \in Unmarked(u, 1) <=> joined[n] \notin update[u].list
    BY <1>0, <2>1, <2>3 DEF Unmarked, Fits, Seen
  <2>5. Fits(u)' /\ AllListed(update[u].list)'
    BY <2>2, <2>3 DEF Fits, Seen, AllListed, Listed
  <2> QED  BY <2>1, <2>2, <2>3, <2>4, <2>5 DEF Marks, At
<1>3. CASE QuitRemove(u)
  <2>1. /\ Set(u, [update[u] EXCEPT !.at = "sweep", !.i = @ + 1])
        /\ update[u].at = "remove" /\ joined' = RemChatContact(joined, update[u].i)
    BY <1>3 DEF QuitRemove, At
  <2>2. /\ update'[u].at = "sweep" /\ update'[u].i = update[u].i + 1 /\ update'[u].mask = update[u].mask
        /\ update'[u].left = update[u].left /\ update'[u].list = update[u].list
        /\ update'[u].exact = update[u].exact
    BY <1>0, <2>1 DEF Set, UpdateType
  <2>3. /\ AllListed(update[u].list) /\ update[u].left = {} /\ Fits(u)
        /\ update[u].i \in DOMAIN joined /\ joined[update[u].i] \notin update[u].list
        /\ \A k \in DOMAIN joined : k # update[u].i => joined[k] \in update[u].list
    BY <2>1, <2>2 DEF MarksInv, MarksRight, Marks, At
  <2>4. \A m : Listed(m)' <=> Listed(m) /\ joined[update[u].i] # m
    BY <1>0, <2>1, <2>3, ListedAfterRemoval DEF MarksInv, RowsInv, WindowInv
  <2>5. AllListed(update[u].list)'
    BY <2>2, <2>3, <2>4 DEF AllListed
  <2>6. \A k \in DOMAIN joined' : joined'[k] \in update[u].list
    <3>1. ASSUME NEW k \in DOMAIN joined' PROVE Listed(joined'[k]) /\ joined[update[u].i] # joined'[k]
      BY <2>4 DEF Listed
    <3> QED  BY <2>3, <3>1 DEF Listed
  <2>7. Unmarked(u, update[u].i)' = {}
    <3>1. Len(joined') = Len(joined) - 1
      BY <1>0, <2>1, <2>3, Removed
    <3>2. \A k \in update[u].i + 1 .. Len(joined) : k \in DOMAIN update[u].mask /\ update[u].mask[k]
      BY <1>0, <2>3 DEF Fits, Seen
    <3> QED  BY <1>0, <2>2, <2>3, <3>1, <3>2 DEF Unmarked
  <2> QED  BY <2>2, <2>3, <2>5, <2>6, <2>7 DEF Marks, At
<1>4. CASE Swept(u) \/ Leave(u)
  <2>1. update'[u].at \notin Inside \/ update'[u].at = "leave"
    <3>1. CASE Set(u, [update[u] EXCEPT !.at = "leave"])
      BY <1>0, <3>1 DEF Set, UpdateType
    <3>2. CASE Set(u, [Idle EXCEPT !.at = "done"])
      BY <1>0, <3>2 DEF Set, Idle, Inside
    <3> QED  BY <1>4, <3>1, <3>2 DEF Swept, Leave
  <2> QED  BY <2>1 DEF Marks, At, Inside
<1> QED  BY <1>1, <1>2, <1>3, <1>4

LEMMA RacedStays == Next => (raced => raced')
<1> SUFFICES ASSUME Next, raced PROVE raced'
  OBVIOUS
<1>1. CASE SkypeStep \/ KickAnswer
  BY <1>1, Zenon DEF SkypeStep, Comes, Goes, IsKicked, KickAnswer
<1>2. ASSUME NEW u \in Updater, UpdateStep(u) PROVE raced'
  BY <1>2, Zenon DEF UpdateStep, Enter, Fetch, Skip, Known, Join, JoinFails, AppendMember,
                     Sweep, Quit, QuitRemove, Swept, Leave, Others
<1>3. CASE (\E m \in Member : KickAsk(m)) \/ KickEnds
  BY <1>3, Zenon DEF KickAsk, KickEnds, KickEvent, KickRemove, KickGiveUp
<1>4. ASSUME NEW f \in Fetcher, FetchStep(f) PROVE raced'
  BY <1>4, Zenon DEF FetchStep, KickedEvent, KickedRemove
<1> QED  BY <1>1, <1>2, <1>3, <1>4 DEF Next

LEMMA MarksKeep ==
    ASSUME MarksInv, GChatInv', Next
    PROVE  MarksRight'
<1> SUFFICES ASSUME ~raced', NEW v \in Updater, update'[v].exact PROVE Marks(v)'
  BY DEF MarksRight
<1>0. update \in [Updater -> UpdateType] /\ update[v] \in UpdateType
  BY DEF MarksInv, RowsInv, WindowInv, GChatInv, Typed
<1>r. ~raced
  BY RacedStays
<1>1. CASE SkypeStep \/ KickAnswer
  <2>1. PICK u \in Updater : \E members : Set(u, [Idle EXCEPT !.at = "enter", !.list = members])
    BY <1>1 DEF SkypeStep, Comes, Goes, IsKicked, KickAnswer, Tell
  <2>2. joined' = joined
    BY <1>1 DEF SkypeStep, Comes, Goes, IsKicked, KickAnswer
  <2>3. CASE v = u
    BY <1>0, <2>1, <2>3 DEF Set, Idle, Marks, At
  <2>4. CASE v # u
    <3>1. update'[v] = update[v]
      BY <1>0, <2>1, <2>4 DEF Set
    <3> QED  BY <1>r, <2>2, <3>1, MarksKept
  <2> QED  BY <2>3, <2>4
<1>2. ASSUME NEW u \in Updater, UpdateStep(u) PROVE Marks(v)'
  <2>1. CASE v = u
    <3>1. CASE Skip(v)
      <4>1. PICK m : Set(v, [update[v] EXCEPT !.left = @ \ {m}, !.exact = FALSE])
        BY <3>1 DEF Skip
      <4>2. update'[v].exact = FALSE
        BY <1>0, <4>1 DEF Set, UpdateType
      <4> QED  BY <4>2
    <3>2. CASE JoinFails(v)
      <4>1. PICK m : Set(v, [update[v] EXCEPT !.left = @ \ {m}, !.exact = FALSE,
                                !.at = IF update[v].objects THEN "next" ELSE "leave",
                                !.mask = Marked(@, joined, 0)])
        BY <3>2 DEF JoinFails
      <4>2. update'[v].exact = FALSE
        BY <1>0, <4>1 DEF Set, UpdateType
      <4> QED  BY <4>2
    <3> QED  BY <1>2, <1>r, <2>1, <3>1, <3>2, LookMarks, LoopMarks DEF UpdateStep
  <2>2. CASE v # u
    <3>1. update'[v] = update[v]
      <4>1. \E t : Set(u, t)
        BY <1>2 DEF UpdateStep, Enter, Fetch, Skip, Known, Join, JoinFails, AppendMember,
                    Sweep, Quit, QuitRemove, Swept, Leave
      <4> QED  BY <1>0, <2>2, <4>1 DEF Set
    <3>2. joined' = joined \/ update[v].at \notin Inside
      <4>1. CASE AppendMember(u) \/ QuitRemove(u)
        BY <2>2, <4>1 DEF AppendMember, QuitRemove, At, MarksInv, RowsInv, WindowInv, GChatInv, Holder, Inside
      <4>2. CASE ~AppendMember(u) /\ ~QuitRemove(u)
        BY <1>2, <4>2 DEF UpdateStep, Enter, Fetch, Skip, Known, Join, JoinFails,
                    Sweep, Quit, Swept, Leave, Others
      <4> QED  BY <4>1, <4>2
    <3> QED  BY <1>r, <3>1, <3>2, MarksKept
  <2> QED  BY <2>1, <2>2
<1>3. CASE (\E m \in Member : KickAsk(m)) \/ KickEnds \/ \E f \in Fetcher : FetchStep(f)
  <2>1. update' = update
    BY <1>3 DEF KickAsk, KickEnds, KickEvent, KickRemove, KickGiveUp, FetchStep, KickedEvent, KickedRemove
  <2>2. joined' = joined \/ KickRemove \/ \E f \in Fetcher : KickedRemove(f)
    BY <1>3 DEF KickAsk, KickEnds, KickEvent, KickGiveUp, FetchStep, KickedEvent
  <2>3. CASE KickRemove
    <3>1. mutex = Main
      BY <2>3 DEF KickRemove, MarksInv, RowsInv, WindowInv, GChatInv, Holder
    <3>2. update[v].at \notin Inside
      BY <3>1 DEF MarksInv, RowsInv, WindowInv, GChatInv, Holder
    <3> QED  BY <1>r, <2>1, <3>2, MarksKept
  <2>4. ASSUME NEW f \in Fetcher, KickedRemove(f) PROVE Marks(v)'
    <3>1. mutex = None
      BY <1>r, <2>4 DEF KickedRemove, MarksInv, RowsInv, WindowInv, NoRace, Unlocked
    <3>2. update[v].at \notin Inside
      BY <3>1 DEF MarksInv, RowsInv, WindowInv, GChatInv, Holder
    <3> QED  BY <1>r, <2>1, <3>2, MarksKept
  <2> QED  BY <1>r, <2>1, <2>2, <2>3, <2>4, MarksKept
<1> QED  BY <1>1, <1>2, <1>3 DEF Next

LEMMA MarksInit == Init => MarksInv
<1> SUFFICES ASSUME Init PROVE MarksInv
  OBVIOUS
<1>1. WindowInv
  BY WindowInit
<1>2. \A u \in Updater : update[u].at \in {"idle", "enter"} /\ update[u].left = {}
  BY DEF Init, Idle
<1> QED  BY <1>1, <1>2 DEF MarksInv, RowsInv, RowRight, MarksRight, Marks, At, Working

LEMMA MarksStep == MarksInv /\ [Next]_vars => MarksInv'
<1> SUFFICES ASSUME MarksInv, [Next]_vars PROVE MarksInv'
  OBVIOUS
<1>1. WindowInv'
  BY WindowStep DEF MarksInv, RowsInv
<1>2. CASE Next
  BY <1>1, <1>2, RowsKeep, MarksKeep DEF MarksInv, RowsInv, WindowInv
<1>3. CASE UNCHANGED vars
  <2>1. UNCHANGED <<joined, update, raced>>
    BY <1>3 DEF vars
  <2>2. \A u \in Updater : (RowRight(u)' <=> RowRight(u)) /\ (Marks(u)' <=> Marks(u))
    BY <2>1 DEF RowRight, Marks, At, Fits, Seen, AllListed, Listed, Unmarked
  <2> QED  BY <1>1, <2>1, <2>2 DEF MarksInv, RowsInv, MarksRight
<1> QED  BY <1>2, <1>3

(* What an update that was not disturbed leaves in the list: UpdateExact.      *)
THEOREM SweepExact == Spec => UpdateExact
<1>1. MarksInv => [\A u \in Updater : Swept(u) /\ update[u].exact /\ ~raced /\ mutex' = u =>
                      ToSet(joined) = update[u].list]_vars
  BY SweptExact
<1> QED  BY <1>1, MarksInit, MarksStep, PTL DEF Spec, UpdateExact

(* The type invariant; among others, contactmask is as long as the list when   *)
(* the loop at the end of AddMembers reads it.                                 *)
RestTyped == /\ roles \in BOOLEAN /\ window \subseteq Member /\ spoilt \in BOOLEAN
             /\ mutex \in Updater \cup {Main, None}
LEMMA RestStep == MarksInv /\ RestTyped /\ [Next]_vars => RestTyped'
<1> SUFFICES ASSUME MarksInv, RestTyped, [Next]_vars PROVE RestTyped'
  OBVIOUS
<1>0. /\ update \in [Updater -> UpdateType] /\ kick \in {"idle", "asked", "answered", "remove", "done"} \X (Member \cup {None})
      /\ fetch \in [Fetcher -> {"idle", "event", "remove", "done"} \X (Member \cup {None})]
  BY DEF MarksInv, RowsInv, WindowInv, GChatInv, Typed, FetchTyped
<1>1. CASE SkypeStep \/ KickAnswer
  BY <1>1 DEF RestTyped, SkypeStep, Comes, Goes, IsKicked, KickAnswer
<1>2. ASSUME NEW u \in Updater, UpdateStep(u) PROVE RestTyped'
  <2>1. roles' = roles /\ (mutex' = mutex \/ mutex' = u \/ mutex' = None)
    BY <1>2 DEF UpdateStep, Enter, Fetch, Skip, Known, Join, JoinFails, AppendMember,
                Sweep, Quit, QuitRemove, Swept, Leave, Others
  <2>2. window' \subseteq Member
    <3>1. CASE Join(u)
      <4>1. update[u].left \subseteq Member
        BY <1>0 DEF UpdateType
      <4> QED  BY <3>1, <4>1 DEF Join, RestTyped
    <3>2. window' = window \/ Join(u) \/ \E k : window' = window \ {joined[k]}
      BY <1>2 DEF UpdateStep, Enter, Fetch, Skip, Known, JoinFails, AppendMember,
                Sweep, Quit, QuitRemove, Swept, Leave, Others
    <3> QED  BY <3>1, <3>2 DEF RestTyped
  <2>3. spoilt' \in BOOLEAN
    BY <1>2, Zenon DEF RestTyped, UpdateStep, Enter, Fetch, Skip, Known, Join, JoinFails, AppendMember,
                Sweep, Quit, QuitRemove, Swept, Leave, Spoil
  <2> QED  BY <2>1, <2>2, <2>3 DEF RestTyped
<1>3. CASE (\E m \in Member : KickAsk(m)) \/ KickEnds \/ \E f \in Fetcher : FetchStep(f)
  BY <1>3 DEF RestTyped, KickAsk, KickEnds, KickEvent, KickRemove, KickGiveUp, FetchStep, KickedEvent, KickedRemove
<1>4. CASE UNCHANGED vars
  BY <1>4 DEF vars, RestTyped
<1> QED  BY <1>1, <1>2, <1>3, <1>4 DEF Next

LEMMA InvIsTyped == MarksInv /\ RestTyped => GChatTypeOK
<1> SUFFICES ASSUME MarksInv, RestTyped PROVE GChatTypeOK
  OBVIOUS
<1>1. joined \in Seq(Member) /\ Len(joined) \in Nat /\ DOMAIN joined = 1 .. Len(joined)
  BY LenProperties DEF MarksInv, RowsInv, WindowInv, GChatInv, Typed
<1>2. ASSUME NEW u \in Updater
      PROVE  /\ update[u].list \subseteq Member /\ update[u].left \subseteq update[u].list
             /\ update[u].at \in {"sweep", "remove"} => Len(joined) <= Len(update[u].mask)
  <2>1. update[u] \in UpdateType /\ RowRight(u)
    BY DEF MarksInv, RowsInv, WindowInv, GChatInv, Typed
  <2>2. /\ Len(update[u].mask) \in Nat /\ DOMAIN update[u].mask = 1 .. Len(update[u].mask)
    BY <2>1, LenProperties DEF UpdateType
  <2>3. update[u].at \in {"sweep", "remove"} => \A k \in 1 .. Len(joined) : k \in 1 .. Len(update[u].mask)
    BY <1>1, <2>1, <2>2 DEF RowRight, Working
  <2> QED  BY <1>1, <2>1, <2>2, <2>3 DEF UpdateType, RowRight
<1> QED  BY <1>1, <1>2 DEF GChatTypeOK, MarksInv, RowsInv, WindowInv, GChatInv, Typed, FetchTyped, RestTyped

THEOREM GChatTypeCorrect == Spec => []GChatTypeOK
<1>1. Init => MarksInv /\ RestTyped
  BY MarksInit DEF Init, RestTyped
<1> QED  BY <1>1, MarksStep, RestStep, InvIsTyped, PTL DEF Spec
=============================================================================
