---------------------------- MODULE SkypeProofs -----------------------------
(***************************************************************************)
(* Proofs about two parts of the Skype plug-in: how messages are fetched   *)
(* and sent (SkypeMessage), for any messages, threads and number of edits, *)
(* and how replies reach those who wait for them (SkypeReply), for any     *)
(* requests, limits and size of the semaphore. The parts share nothing;    *)
(* the messages come first.                                                *)
(***************************************************************************)
EXTENDS SkypeMessage, SkypeReply, Integers, FiniteSetTheorems, SequenceTheorems, TLAPS

-----------------------------------------------------------------------------
(***************************************************************************)
(* Messages (SkypeMessage).                                                *)
(*                                                                         *)
(* StoredOnce is not inductive: what bounds the versions in the history is *)
(* who still has the right to store one.  Under the event one fetch at a   *)
(* time looks at the list of messages and stores, so the list may be       *)
(* trusted while it does (UnlistedUnstored); what the list says decides    *)
(* whether there is room for one more version (RoomForAll, RoomForEdit);   *)
(* and a message that a sender will store is fetched only when its edit    *)
(* makes room for both (SenderFirst). A version that the window stores on  *)
(* trust, before there is any answer, is not counted (Stored).             *)
(***************************************************************************)

USE MessageAssumption

\* Where a thread is, and what it has in its hands.
FetchPlace == {"idle", "wait", "look", "body", "store", "list", "done"}
FetchOK(t) ==
    /\ t \in [at : FetchPlace, todo : Seq(Messages), query : BOOLEAN, got : Nat \cup {None}]
    /\ t.at \notin {"idle", "done"} => t.todo # <<>>
    /\ t.at = "store" => t.got \in Nat

StoreTyped ==
    /\ status \in [Messages -> {"new", "received", "read", "sent", "sending", "queued", "failed"}]
    /\ body \in [Messages -> Nat] /\ noticed \in [Messages -> Nat]
    /\ entry \in [Messages -> {"none", "plain", "edited"}]
    /\ history \in [Messages -> Seq(Nat)]
    /\ event \in BOOLEAN /\ slow \in BOOLEAN
    /\ DOMAIN fetch = Fetcher /\ \A f \in Fetcher : FetchOK(fetch[f])
    /\ watch \in [Own -> {"none", "wait", "told", "trusted", "list", "done"}]

\* The event is the token of the fetches.
Token == ~slow => IF event THEN Inside = {} ELSE \E f \in Fetcher : Inside = {f}

Waiting == {m \in Own : watch[m] \in {"wait", "told"}}
Watchers == sendwatchers = Cardinality(Waiting)

\* A thread will still fetch the message; it is about to store it; it is about
\* to list it; and the thread that sent it will still store it.
Wanted(m)  == \E f \in Fetcher : \E i \in DOMAIN fetch[f].todo : fetch[f].todo[i] = m
Storing(m) == \E f \in Fetcher : fetch[f].at \in {"body", "store"} /\ Number(f) = m
Listing(m) == \E f \in Fetcher : fetch[f].at = "list" /\ Number(f) = m
Watched(m) == m \in Own /\ watch[m] \in {"wait", "list"}

\* Nothing is known here of a message Skype has not told of.
NewUntouched ==
    \A m \in Messages : status[m] = "new" =>
        /\ entry[m] = "none" /\ history[m] = <<>> /\ body[m] = 0 /\ ~Wanted(m)
        /\ m \in Own => watch[m] = "none"

One(b) == IF b THEN 1 ELSE 0

\* How often it is stored, but for what the window stored on trust.
Stored(m) == Len(history[m]) - One(Trusted(m))

\* What the list of messages says of the history.
UnlistedUnstored ==
    \A m \in Messages : entry[m] = "none" /\ ~Listing(m) => Stored(m) = 0

Orderly == ~slow /\ ~early

\* What a sender watches is fetched only if it was edited.
SenderFirst == Orderly => \A m \in Messages : Watched(m) /\ Wanted(m) => noticed[m] >= 1

\* Who is about to store a message has a right to: it is the first time, or
\* there was an edit that is not in the history.
RoomForAll ==
    Orderly => \A m \in Messages :
        Stored(m) + One(Watched(m)) + One(Storing(m)) <= 1 + noticed[m]
RoomForEdit ==
    Orderly => \A m \in Messages : entry[m] = "edited" /\ ~Listing(m) =>
        Stored(m) + One(Watched(m)) <= noticed[m]

StoreInv ==
    /\ StoreTyped /\ Token /\ Watchers /\ NewUntouched /\ UnlistedUnstored
    /\ SenderFirst /\ RoomForAll /\ RoomForEdit

-----------------------------------------------------------------------------
(* The threads that fetch.                                                 *)

\* The list of missed messages is a sequence of them.
LEMMA ListOfSet ==
    ASSUME NEW S, IsFiniteSet(S)
    PROVE  SetToSeq(S) \in Seq(S)
<1>1. PICK n \in Nat : ExistsBijection(1..n, S)
  BY FS_NatBijection
<1>2. Cardinality(S) = n
  BY <1>1, FS_CountingElements
<1>3. \E g \in [1..n -> S] : IsInjective(g)
  BY <1>1 DEF ExistsBijection, Bijection, Injection
<1>4. SetToSeq(S) \in [1..n -> S]
  BY <1>2, <1>3 DEF SetToSeq
<1>5. QED
  BY <1>4, SeqDef

\* One thread gets another record: nothing changes for the others.
LEMMA OneThread ==
    ASSUME StoreTyped, NEW f \in Fetcher, NEW t, FetchOK(t), fetch' = [fetch EXCEPT ![f] = t]
    PROVE  /\ DOMAIN fetch' = Fetcher /\ \A g \in Fetcher : FetchOK(fetch'[g])
           /\ fetch'[f] = t /\ \A g \in Fetcher : g # f => fetch'[g] = fetch[g]
           /\ Inside' = IF t.at \in {"look", "body", "store", "list"} THEN Inside \cup {f} ELSE Inside \ {f}
<1>1. /\ DOMAIN fetch' = Fetcher /\ fetch'[f] = t
      /\ \A g \in Fetcher : g # f => fetch'[g] = fetch[g]
  BY DEF StoreTyped
<1>2. \A g \in Fetcher : FetchOK(fetch'[g])
  <2>1. ASSUME NEW g \in Fetcher PROVE FetchOK(fetch'[g])
    <3>1. CASE g = f
      BY <1>1, <3>1
    <3>2. CASE g # f
      <4>1. fetch'[g] = fetch[g] /\ FetchOK(fetch[g])
        BY <1>1, <3>2 DEF StoreTyped
      <4>2. QED
        BY <4>1
    <3>3. QED
      BY <3>1, <3>2
  <2>2. QED
    BY <2>1
<1>3. Inside' = IF t.at \in {"look", "body", "store", "list"} THEN Inside \cup {f} ELSE Inside \ {f}
  BY <1>1 DEF Inside
<1>4. QED
  BY <1>1, <1>2, <1>3

\* A thread that starts waits for its turn.
LEMMA Starts ==
    ASSUME StoreTyped, NEW todo \in Seq(Messages), todo # <<>>, NEW q \in BOOLEAN, Start(todo, q)
    PROVE  /\ DOMAIN fetch' = Fetcher /\ \A g \in Fetcher : FetchOK(fetch'[g])
           /\ Inside' = Inside
           /\ \A m \in Messages : /\ Storing(m)' => Storing(m)
                                  /\ Listing(m)' <=> Listing(m)
                                  /\ Wanted(m)' => Wanted(m) \/ \E i \in DOMAIN todo : todo[i] = m
<1> DEFINE f == CHOOSE g \in Fresh : TRUE
           t == [NoFetch EXCEPT !.at = "wait", !.todo = todo, !.query = q]
<1>1. f \in Fresh /\ fetch' = [fetch EXCEPT ![f] = t]
  BY DEF Start
<1>2. f \in Fetcher /\ fetch[f].at = "idle"
  BY <1>1 DEF Fresh
<1>3. t.at = "wait" /\ t.todo = todo /\ FetchOK(t)
  BY DEF NoFetch, FetchOK, FetchPlace
<1> HIDE DEF f, t
<1>4. /\ DOMAIN fetch' = Fetcher /\ \A g \in Fetcher : FetchOK(fetch'[g])
      /\ fetch'[f] = t /\ \A g \in Fetcher : g # f => fetch'[g] = fetch[g]
      /\ Inside' = Inside \ {f}
  BY <1>1, <1>2, <1>3, OneThread
<1>5. Inside' = Inside
  BY <1>2, <1>4 DEF Inside
<1>6. ASSUME NEW m \in Messages
      PROVE  /\ Storing(m)' => Storing(m)
             /\ Listing(m)' <=> Listing(m)
             /\ Wanted(m)' => Wanted(m) \/ \E i \in DOMAIN todo : todo[i] = m
  <2>1. Storing(m)' => Storing(m)
    BY <1>2, <1>3, <1>4 DEF Storing, Number
  <2>2. Listing(m)' <=> Listing(m)
    BY <1>2, <1>3, <1>4 DEF Listing, Number
  <2>3. Wanted(m)' => Wanted(m) \/ \E i \in DOMAIN todo : todo[i] = m
    BY <1>3, <1>4 DEF Wanted
  <2>4. QED
    BY <2>1, <2>2, <2>3
<1>7. QED
  BY <1>4, <1>5, <1>6

\* A thread that leaves goes on with the rest of its list.
LEMMA Leaves ==
    ASSUME StoreTyped, NEW f \in Fetcher, fetch[f].at \in {"look", "body", "store", "list"}, EndFetch(f)
    PROVE  /\ DOMAIN fetch' = Fetcher /\ \A g \in Fetcher : FetchOK(fetch'[g])
           /\ Inside' = Inside \ {f} /\ event' = TRUE
           /\ Number(f) \in Messages
           /\ \A m \in Messages : /\ Storing(m)' => Storing(m)
                                  /\ Listing(m)' => Listing(m)
                                  /\ Listing(m) => Listing(m)' \/ (fetch[f].at = "list" /\ Number(f) = m)
                                  /\ Wanted(m)' => Wanted(m)
<1> DEFINE rest == Tail(fetch[f].todo)
           t == [NoFetch EXCEPT !.todo = rest, !.query = fetch[f].query,
                                !.at = IF rest = <<>> THEN "done" ELSE "wait"]
<1>1. event' = TRUE /\ fetch' = [fetch EXCEPT ![f] = t]
  BY DEF EndFetch
<1>2. FetchOK(fetch[f])
  BY DEF StoreTyped
<1>3. fetch[f].todo \in Seq(Messages) /\ fetch[f].todo # <<>> /\ fetch[f].query \in BOOLEAN
  BY <1>2 DEF FetchOK
<1>4. /\ Number(f) \in Messages /\ rest \in Seq(Messages)
      /\ \A i \in DOMAIN rest : i + 1 \in DOMAIN fetch[f].todo /\ rest[i] = fetch[f].todo[i + 1]
  BY <1>3, HeadTailProperties, LenProperties DEF Number
<1> HIDE DEF rest
<1>5. t.at \in {"wait", "done"} /\ t.todo = rest /\ FetchOK(t)
  BY <1>3, <1>4 DEF NoFetch, FetchOK, FetchPlace
<1> HIDE DEF t
<1>6. /\ DOMAIN fetch' = Fetcher /\ \A g \in Fetcher : FetchOK(fetch'[g])
      /\ fetch'[f] = t /\ \A g \in Fetcher : g # f => fetch'[g] = fetch[g]
      /\ Inside' = Inside \ {f}
  BY <1>1, <1>5, OneThread
<1>7. ASSUME NEW m \in Messages
      PROVE  /\ Storing(m)' => Storing(m)
             /\ Listing(m)' => Listing(m)
             /\ Listing(m) => Listing(m)' \/ (fetch[f].at = "list" /\ Number(f) = m)
             /\ Wanted(m)' => Wanted(m)
  <2>1. Storing(m)' => Storing(m)
    BY <1>5, <1>6 DEF Storing, Number
  <2>2. /\ Listing(m)' => Listing(m)
        /\ Listing(m) => Listing(m)' \/ (fetch[f].at = "list" /\ Number(f) = m)
    BY <1>5, <1>6 DEF Listing, Number
  <2>3. Wanted(m)' => Wanted(m)
    BY <1>4, <1>5, <1>6 DEF Wanted
  <2>4. QED
    BY <2>1, <2>2, <2>3
<1>8. QED
  BY <1>1, <1>4, <1>6, <1>7

\* A thread goes on to the next place with the message it is at.
LEMMA Moves ==
    ASSUME StoreTyped, NEW f \in Fetcher, NEW t, FetchOK(t), t.todo = fetch[f].todo,
           fetch[f].at \in {"wait", "look", "body", "store"},
           t.at \in {"look", "body", "store", "list"}, fetch' = [fetch EXCEPT ![f] = t]
    PROVE  /\ DOMAIN fetch' = Fetcher /\ \A g \in Fetcher : FetchOK(fetch'[g])
           /\ Inside' = Inside \cup {f}
           /\ Number(f) \in Messages /\ Wanted(Number(f))
           /\ \A m \in Messages : /\ Storing(m)' => Storing(m) \/ (t.at \in {"body", "store"} /\ Number(f) = m)
                                  /\ Listing(m) => Listing(m)'
                                  /\ Listing(m)' => Listing(m) \/ (t.at = "list" /\ Number(f) = m)
                                  /\ Wanted(m)' => Wanted(m)
<1>1. FetchOK(fetch[f])
  BY DEF StoreTyped
<1>2. fetch[f].todo \in Seq(Messages) /\ fetch[f].todo # <<>>
  BY <1>1 DEF FetchOK
<1>3. Number(f) \in Messages /\ 1 \in DOMAIN fetch[f].todo /\ fetch[f].todo[1] = Number(f)
  BY <1>2 DEF Number
<1>4. Wanted(Number(f))
  BY <1>3 DEF Wanted
<1>5. /\ DOMAIN fetch' = Fetcher /\ \A g \in Fetcher : FetchOK(fetch'[g])
      /\ fetch'[f] = t /\ \A g \in Fetcher : g # f => fetch'[g] = fetch[g]
      /\ Inside' = Inside \cup {f}
  BY OneThread
<1>6. \A g \in Fetcher : fetch'[g].todo = fetch[g].todo
  BY <1>5
<1>7. ASSUME NEW m \in Messages
      PROVE  /\ Storing(m)' => Storing(m) \/ (t.at \in {"body", "store"} /\ Number(f) = m)
             /\ Listing(m) => Listing(m)'
             /\ Listing(m)' => Listing(m) \/ (t.at = "list" /\ Number(f) = m)
             /\ Wanted(m)' => Wanted(m)
  <2>1. Storing(m)' => Storing(m) \/ (t.at \in {"body", "store"} /\ Number(f) = m)
    BY <1>5, <1>6 DEF Storing, Number
  <2>2. Listing(m) => Listing(m)'
    BY <1>5, <1>6 DEF Listing, Number
  <2>3. Listing(m)' => Listing(m) \/ (t.at = "list" /\ Number(f) = m)
    BY <1>5, <1>6 DEF Listing, Number
  <2>4. Wanted(m)' => Wanted(m)
    BY <1>6 DEF Wanted
  <2>5. QED
    BY <2>1, <2>2, <2>3, <2>4
<1>8. QED
  BY <1>3, <1>4, <1>5, <1>7

-----------------------------------------------------------------------------
\* How often a message is stored is a number; it changes with the history and
\* with what the senders do only.
LEMMA StoredInt ==
    ASSUME StoreTyped
    PROVE  \A m \in Messages : Stored(m) \in Int
<1>1. \A m \in Messages : Len(history[m]) \in Nat
  BY LenProperties DEF StoreTyped
<1>2. QED
  BY <1>1 DEF Stored, One

LEMMA StoredSame ==
    ASSUME UNCHANGED <<history, watch>>
    PROVE  \A m \in Messages : Stored(m)' = Stored(m)
<1>1. QED
  BY DEF Stored, Trusted

\* Steps that store nothing, list nothing and give nobody the right to.
LEMMA QuietKeeps ==
    ASSUME StoreInv, StoreTyped', Token', Watchers', NewUntouched', SenderFirst',
           UNCHANGED <<noticed, entry>>, slow => slow', early => early',
           \A m \in Messages : /\ Stored(m)' = Stored(m)
                               /\ Watched(m)' => Watched(m)
                               /\ Storing(m)' => Storing(m)
                               /\ Listing(m)' <=> Listing(m)
    PROVE  StoreInv'
<1>1. Orderly' => Orderly
  BY DEF Orderly
<1>2. UnlistedUnstored'
  BY DEF StoreInv, UnlistedUnstored
<1>3. \A m \in Messages : Stored(m) \in Int /\ noticed[m] \in Nat
  BY StoredInt DEF StoreInv, StoreTyped
<1>4. \A m \in Messages : One(Watched(m)') <= One(Watched(m)) /\ One(Storing(m)') <= One(Storing(m))
  BY DEF One
<1>5. \A m \in Messages : /\ One(Watched(m)) \in Nat /\ One(Storing(m)) \in Nat
                          /\ One(Watched(m)') \in Nat /\ One(Storing(m)') \in Nat
  BY DEF One
<1>6. RoomForAll'
  <2>1. ASSUME Orderly', NEW m \in Messages
        PROVE  Stored(m)' + One(Watched(m)') + One(Storing(m)') <= 1 + noticed'[m]
    <3>1. Stored(m) + One(Watched(m)) + One(Storing(m)) <= 1 + noticed[m]
      BY <1>1, <2>1 DEF StoreInv, RoomForAll
    <3>2. QED
      BY <3>1, <1>3, <1>4, <1>5
  <2>2. QED
    BY <2>1 DEF RoomForAll
<1>7. RoomForEdit'
  <2>1. ASSUME Orderly', NEW m \in Messages, entry'[m] = "edited", ~Listing(m)'
        PROVE  Stored(m)' + One(Watched(m)') <= noticed'[m]
    <3>1. Stored(m) + One(Watched(m)) <= noticed[m]
      BY <1>1, <2>1 DEF StoreInv, RoomForEdit
    <3>2. QED
      BY <3>1, <1>3, <1>4, <1>5
  <2>2. QED
    BY <2>1 DEF RoomForEdit
<1>8. QED
  BY <1>2, <1>6, <1>7 DEF StoreInv

\* The parts about the threads when the senders and Skype do nothing.
LEMMA SameSenders ==
    ASSUME StoreInv, UNCHANGED <<status, body, noticed, watch, sendwatchers>>,
           early => early', slow => slow',
           \A m \in Messages : Wanted(m)' => Wanted(m)
    PROVE  /\ Watchers' /\ SenderFirst'
           /\ \A m \in Messages : Watched(m)' <=> Watched(m)
           /\ (UNCHANGED <<entry, history>> => NewUntouched')
<1>1. \A m \in Messages : Watched(m)' <=> Watched(m)
  BY DEF Watched
<1>2. Watchers'
  BY DEF StoreInv, Watchers, Waiting
<1>3. SenderFirst'
  BY <1>1 DEF StoreInv, SenderFirst, Orderly
<1>4. UNCHANGED <<entry, history>> => NewUntouched'
  BY DEF StoreInv, NewUntouched
<1>5. QED
  BY <1>1, <1>2, <1>3, <1>4

-----------------------------------------------------------------------------
(* FetchMessageThreadSync.                                                 *)

\* A thread gets its turn, or goes on without it; or it has its answer.
LEMMA WaitKeeps ==
    ASSUME StoreInv, NEW f \in Fetcher, Wait(f) \/ WaitTimeout(f) \/ Body(f)
    PROVE  StoreInv'
<1> DEFINE t == IF Body(f) THEN [fetch[f] EXCEPT !.at = "store", !.got = body[Number(f)]]
                           ELSE [fetch[f] EXCEPT !.at = "look"]
<1>1. StoreTyped /\ FetchOK(fetch[f])
  BY DEF StoreInv, StoreTyped
<1>2. /\ fetch' = [fetch EXCEPT ![f] = t]
      /\ fetch[f].at \in {"wait", "body"} /\ (Body(f) <=> fetch[f].at = "body")
      /\ UNCHANGED <<skypeVars, entry, history, sendVars, early>>
      /\ slow => slow'
      /\ event' \in BOOLEAN /\ slow' \in BOOLEAN
  BY <1>1 DEF Wait, WaitTimeout, Body, At, ghosts, StoreTyped
<1>3. FetchOK(t) /\ t.todo = fetch[f].todo /\ t.at \in {"look", "store"} /\ (t.at = "store" <=> Body(f))
  <2>1. CASE Body(f)
    <3>1. Number(f) \in Messages
      BY <1>1, <1>2, HeadTailProperties DEF FetchOK, Number
    <3>2. body[Number(f)] \in Nat
      BY <1>1, <3>1 DEF StoreTyped
    <3>3. QED
      BY <1>1, <1>2, <2>1, <3>2 DEF FetchOK, FetchPlace
  <2>2. CASE ~Body(f)
    BY <1>1, <1>2, <2>2 DEF FetchOK, FetchPlace
  <2>3. QED
    BY <2>1, <2>2
<1> HIDE DEF t
<1>4. /\ DOMAIN fetch' = Fetcher /\ \A g \in Fetcher : FetchOK(fetch'[g])
      /\ Inside' = Inside \cup {f}
      /\ \A m \in Messages : /\ Storing(m)' => Storing(m) \/ (t.at \in {"body", "store"} /\ Number(f) = m)
                             /\ Listing(m) => Listing(m)'
                             /\ Listing(m)' => Listing(m) \/ (t.at = "list" /\ Number(f) = m)
                             /\ Wanted(m)' => Wanted(m)
  BY <1>1, <1>2, <1>3, Moves
<1>5. \A m \in Messages : (Storing(m)' => Storing(m)) /\ (Listing(m)' <=> Listing(m)) /\ (Wanted(m)' => Wanted(m))
  BY <1>2, <1>3, <1>4 DEF Storing
<1>6. StoreTyped'
  BY <1>1, <1>2, <1>4 DEF StoreTyped, skypeVars, sendVars
<1>7. Token'
  <2>1. CASE Wait(f)
    BY <1>4, <2>1 DEF Wait, ghosts, StoreInv, Token
  <2>2. CASE WaitTimeout(f)
    BY <2>2 DEF WaitTimeout, Token
  <2>3. CASE Body(f)
    <3>1. f \in Inside /\ UNCHANGED <<slow, event>>
      BY <2>3 DEF Body, At, Inside, ghosts
    <3>2. Inside' = Inside
      BY <1>4, <3>1
    <3>3. QED
      BY <3>1, <3>2 DEF StoreInv, Token
  <2>4. QED
    BY <2>1, <2>2, <2>3
<1>8. Watchers' /\ SenderFirst' /\ NewUntouched' /\ \A m \in Messages : Watched(m)' <=> Watched(m)
  BY <1>2, <1>5, SameSenders DEF skypeVars, sendVars
<1>9. QED
  BY <1>2, <1>5, <1>6, <1>7, <1>8, StoredSame, QuietKeeps DEF skypeVars, sendVars

\* A thread that leaves under the event gives it back.
LEMMA LeaveToken ==
    ASSUME StoreInv, NEW f \in Inside, EndFetch(f), slow' = slow
    PROVE  Token'
<1>1. Inside' = Inside \ {f} /\ event' = TRUE
  BY Leaves DEF StoreInv, Inside
<1>2. ~slow => Inside = {f}
  BY DEF StoreInv, Token
<1>3. QED
  BY <1>1, <1>2 DEF Token

\* What is known, or cannot be had, is left as it is.
LEMMA SkipKeeps ==
    ASSUME StoreInv, NEW f \in Fetcher, LookKnown(f) \/ GiveUp(f)
    PROVE  StoreInv'
<1>1. /\ fetch[f].at \in {"look", "body", "store"} /\ EndFetch(f)
      /\ UNCHANGED <<skypeVars, entry, history, sendVars, slow, early>>
  BY DEF LookKnown, GiveUp, At, ghosts
<1>2. StoreTyped /\ f \in Inside
  BY <1>1 DEF StoreInv, Inside
<1>3. /\ DOMAIN fetch' = Fetcher /\ \A g \in Fetcher : FetchOK(fetch'[g])
      /\ event' = TRUE
      /\ \A m \in Messages : /\ Storing(m)' => Storing(m)
                             /\ Listing(m)' <=> Listing(m)
                             /\ Wanted(m)' => Wanted(m)
  BY <1>1, <1>2, Leaves
<1>4. StoreTyped'
  BY <1>1, <1>2, <1>3 DEF StoreTyped, skypeVars, sendVars
<1>5. Token'
  BY <1>1, <1>2, LeaveToken
<1>6. Watchers' /\ SenderFirst' /\ NewUntouched' /\ \A m \in Messages : Watched(m)' <=> Watched(m)
  BY <1>1, <1>3, SameSenders DEF skypeVars, sendVars
<1>7. QED
  BY <1>1, <1>3, <1>4, <1>5, <1>6, StoredSame, QuietKeeps DEF skypeVars, sendVars

\* Under the event, only the thread inside stores or lists.
LEMMA Alone ==
    ASSUME StoreInv, NEW f \in Inside, ~slow
    PROVE  /\ Inside = {f} /\ event = FALSE
           /\ \A m \in Messages : /\ Storing(m) <=> fetch[f].at \in {"body", "store"} /\ Number(f) = m
                                  /\ Listing(m) <=> fetch[f].at = "list" /\ Number(f) = m
<1>1. Inside = {f} /\ event = FALSE
  BY DEF StoreInv, Token, StoreTyped
<1>2. f \in Fetcher /\ \A g \in Fetcher : fetch[g].at \in {"body", "store", "list"} => g = f
  BY <1>1 DEF Inside
<1>3. QED
  BY <1>1, <1>2 DEF Storing, Listing

\* A message that the list does not know, or knows as edited, may be stored: in
\* the first case nothing of it is stored yet, in the second there was an edit.
LEMMA LookKeeps ==
    ASSUME StoreInv, NEW f \in Fetcher, Look(f)
    PROVE  StoreInv'
<1> DEFINE n == Number(f)
           t == [fetch[f] EXCEPT !.at = "body"]
<1>1. /\ fetch[f].at = "look" /\ entry[n] # "plain" /\ fetch' = [fetch EXCEPT ![f] = t]
      /\ UNCHANGED <<skypeVars, entry, history, event, sendVars, slow, early>>
  BY DEF Look, At, ghosts
<1>2. StoreTyped /\ FetchOK(fetch[f]) /\ f \in Inside
  BY <1>1 DEF StoreInv, StoreTyped, Inside
<1>3. FetchOK(t) /\ t.todo = fetch[f].todo /\ t.at = "body"
  BY <1>1, <1>2 DEF FetchOK, FetchPlace
<1> HIDE DEF t
<1>4. /\ DOMAIN fetch' = Fetcher /\ \A g \in Fetcher : FetchOK(fetch'[g])
      /\ Inside' = Inside \cup {f} /\ n \in Messages /\ Wanted(n)
      /\ \A m \in Messages : /\ Storing(m)' => Storing(m) \/ n = m
                             /\ Listing(m)' <=> Listing(m)
                             /\ Wanted(m)' => Wanted(m)
  BY <1>1, <1>2, <1>3, Moves
<1>5. StoreTyped'
  BY <1>1, <1>2, <1>4 DEF StoreTyped, skypeVars, sendVars
<1>6. Token'
  <2>1. Inside' = Inside
    BY <1>2, <1>4
  <2>2. QED
    BY <1>1, <2>1 DEF StoreInv, Token
<1>7. Watchers' /\ SenderFirst' /\ NewUntouched' /\ \A m \in Messages : Watched(m)' <=> Watched(m)
  BY <1>1, <1>4, SameSenders DEF skypeVars, sendVars
<1>8. \A m \in Messages : Stored(m)' = Stored(m)
  BY <1>1, StoredSame DEF sendVars
<1>9. UnlistedUnstored'
  BY <1>1, <1>4, <1>8 DEF StoreInv, UnlistedUnstored
<1>10. \A m \in Messages : /\ Stored(m) \in Int /\ noticed[m] \in Nat
                          /\ One(Watched(m)') = One(Watched(m))
                          /\ One(Watched(m)) \in {0, 1} /\ One(Storing(m)) \in {0, 1} /\ One(Storing(m)') \in {0, 1}
  BY <1>2, <1>7, StoredInt DEF StoreTyped, One
<1>11. RoomForEdit'
  <2>1. ASSUME Orderly', NEW m \in Messages, entry'[m] = "edited", ~Listing(m)'
        PROVE  Stored(m)' + One(Watched(m)') <= noticed'[m]
    <3>1. Stored(m) + One(Watched(m)) <= noticed[m]
      BY <1>1, <1>4, <2>1 DEF StoreInv, RoomForEdit, Orderly
    <3>2. QED
      BY <3>1, <1>1, <1>10, <1>8 DEF skypeVars
  <2>2. QED
    BY <2>1 DEF RoomForEdit
<1>12. RoomForAll'
  <2>1. ASSUME Orderly', NEW m \in Messages
        PROVE  Stored(m)' + One(Watched(m)') + One(Storing(m)') <= 1 + noticed'[m]
    <3>1. Orderly
      BY <1>1, <2>1 DEF Orderly
    <3>2. Stored(m) + One(Watched(m)) + One(Storing(m)) <= 1 + noticed[m]
      BY <3>1 DEF StoreInv, RoomForAll
    <3>3. CASE m # n
      <4>1. One(Storing(m)') <= One(Storing(m))
        BY <1>4, <3>3 DEF One
      <4>2. QED
        BY <1>1, <1>10, <1>8, <3>2, <4>1 DEF skypeVars
    <3>4. CASE m = n
      <4>1. ~Listing(n)
        BY <1>1, <1>2, <1>4, <3>1, Alone DEF Orderly
      <4>2. Stored(n) + One(Watched(n)) <= noticed[n]
        <5>1. CASE entry[n] = "edited"
          BY <1>4, <3>1, <4>1, <5>1 DEF StoreInv, RoomForEdit
        <5>2. CASE entry[n] = "none"
          <6>1. Stored(n) = 0
            BY <1>4, <4>1, <5>2 DEF StoreInv, UnlistedUnstored
          <6>2. Watched(n) => noticed[n] >= 1
            BY <1>4, <3>1 DEF StoreInv, SenderFirst
          <6>3. One(Watched(n)) <= noticed[n]
            BY <1>4, <1>10, <6>2 DEF One
          <6>4. QED
            BY <1>4, <1>10, <6>1, <6>3
        <5>3. QED
          BY <1>1, <1>2, <1>4, <5>1, <5>2 DEF StoreTyped
      <4>3. QED
        BY <1>1, <1>10, <1>8, <3>4, <4>2 DEF skypeVars
    <3>5. QED
      BY <3>3, <3>4
  <2>2. QED
    BY <2>1 DEF RoomForAll
<1>13. QED
  BY <1>5, <1>6, <1>7, <1>9, <1>11, <1>12 DEF StoreInv

\* Storing uses up the right to store.
LEMMA StoreKeeps ==
    ASSUME StoreInv, NEW f \in Fetcher, Store(f)
    PROVE  StoreInv'
<1> DEFINE n == Number(f)
           t == [fetch[f] EXCEPT !.at = "list"]
<1>1. /\ fetch[f].at = "store" /\ fetch' = [fetch EXCEPT ![f] = t]
      /\ history' = [history EXCEPT ![n] = Append(@, fetch[f].got)]
      /\ UNCHANGED <<skypeVars, entry, event, sendVars, slow, early>>
  BY DEF Store, At, ghosts
<1>2. StoreTyped /\ FetchOK(fetch[f]) /\ f \in Inside
  BY <1>1 DEF StoreInv, StoreTyped, Inside
<1>3. FetchOK(t) /\ t.todo = fetch[f].todo /\ t.at = "list"
  BY <1>1, <1>2 DEF FetchOK, FetchPlace
<1> HIDE DEF t
<1>4. /\ DOMAIN fetch' = Fetcher /\ \A g \in Fetcher : FetchOK(fetch'[g])
      /\ Inside' = Inside \cup {f} /\ n \in Messages /\ Wanted(n)
      /\ \A m \in Messages : /\ Storing(m)' => Storing(m)
                             /\ Listing(m) => Listing(m)'
                             /\ Listing(m)' => Listing(m) \/ n = m
                             /\ Wanted(m)' => Wanted(m)
  BY <1>1, <1>2, <1>3, Moves
<1>5. (\A m \in Messages : m = n => Listing(m)') /\ Inside' = Inside
  <2>1. fetch'[f] = t
    BY <1>1, <1>2 DEF StoreTyped
  <2>2. QED
    BY <1>2, <1>3, <1>4, <2>1 DEF Listing, Number
<1> HIDE DEF n
<1>6. /\ history' \in [Messages -> Seq(Nat)]
      /\ \A m \in Messages : Len(history[m]) \in Nat /\ Len(history'[m]) = Len(history[m]) + (IF m = n THEN 1 ELSE 0)
      /\ \A m \in Messages : m # n => history'[m] = history[m]
  <2>1. fetch[f].got \in Nat /\ history \in [Messages -> Seq(Nat)]
    BY <1>1, <1>2 DEF FetchOK, StoreTyped
  <2>2. Append(history[n], fetch[f].got) \in Seq(Nat) /\ Len(Append(history[n], fetch[f].got)) = Len(history[n]) + 1
    BY <1>4, <2>1, AppendProperties
  <2>3. \A m \in Messages : Len(history[m]) \in Nat
    BY <2>1, LenProperties
  <2>4. /\ DOMAIN history' = Messages /\ history'[n] = Append(history[n], fetch[f].got)
        /\ \A m \in Messages : m # n => history'[m] = history[m]
    BY <1>1, <1>4, <2>1
  <2>5. \A m \in Messages : Len(history'[m]) = Len(history[m]) + (IF m = n THEN 1 ELSE 0)
    <3>1. ASSUME NEW m \in Messages
          PROVE  Len(history'[m]) = Len(history[m]) + (IF m = n THEN 1 ELSE 0)
      <4>1. CASE m = n
        BY <2>2, <2>4, <4>1
      <4>2. CASE m # n
        BY <2>3, <2>4, <4>2
      <4>3. QED
        BY <4>1, <4>2
    <3>2. QED
      BY <3>1
  <2>6. history' \in [Messages -> Seq(Nat)]
    BY <1>1, <1>4, <2>1, <2>2
  <2>7. QED
    BY <2>3, <2>4, <2>5, <2>6
<1>7. \A m \in Messages : Stored(m) \in Int /\ Stored(m)' = Stored(m) + (IF m = n THEN 1 ELSE 0)
  <2>1. \A m \in Messages : Trusted(m)' <=> Trusted(m)
    BY <1>1 DEF Trusted, sendVars
  <2>2. ASSUME NEW m \in Messages
        PROVE  Stored(m) \in Int /\ Stored(m)' = Stored(m) + (IF m = n THEN 1 ELSE 0)
    <3>1. /\ Len(history[m]) \in Nat
          /\ Len(history'[m]) = Len(history[m]) + (IF m = n THEN 1 ELSE 0)
      BY <1>6
    <3>2. CASE Trusted(m)
      <4>1. Trusted(m)' <=> Trusted(m)
        BY <2>1
      <4>2. Stored(m) = Len(history[m]) - 1
        BY <3>2 DEF Stored, One
      <4>3. Stored(m)' = Len(history'[m]) - 1
        BY <3>2, <4>1 DEF Stored, One
      <4>4. QED
        BY <3>1, <4>2, <4>3
    <3>3. CASE ~Trusted(m)
      <4>1. Trusted(m)' <=> Trusted(m)
        BY <2>1
      <4>2. Stored(m) = Len(history[m]) - 0
        BY <3>3 DEF Stored, One
      <4>3. Stored(m)' = Len(history'[m]) - 0
        BY <3>3, <4>1 DEF Stored, One
      <4>4. QED
        BY <3>1, <4>2, <4>3
    <3>4. QED
      BY <3>2, <3>3
  <2>3. QED
    BY <2>2
<1>8. StoreTyped'
  BY <1>1, <1>2, <1>4, <1>6 DEF StoreTyped, skypeVars, sendVars
<1>9. Token'
  BY <1>1, <1>5 DEF StoreInv, Token
<1>10. Watchers' /\ SenderFirst' /\ \A m \in Messages : Watched(m)' <=> Watched(m)
  BY <1>1, <1>4, SameSenders DEF skypeVars, sendVars
<1>11. NewUntouched'
  <2>1. status[n] # "new"
    BY <1>4 DEF StoreInv, NewUntouched
  <2>2. QED
    BY <1>1, <1>4, <1>6, <2>1 DEF StoreInv, NewUntouched, skypeVars, sendVars
<1>12. UnlistedUnstored'
  BY <1>1, <1>4, <1>5, <1>7 DEF StoreInv, UnlistedUnstored
<1>13. \A m \in Messages : /\ noticed[m] \in Nat /\ One(Watched(m)') = One(Watched(m))
                           /\ One(Watched(m)) \in {0, 1} /\ One(Storing(m)) \in {0, 1} /\ One(Storing(m)') \in {0, 1}
  BY <1>2, <1>10 DEF StoreTyped, One
<1>14. RoomForEdit'
  <2>1. ASSUME Orderly', NEW m \in Messages, entry'[m] = "edited", ~Listing(m)'
        PROVE  Stored(m)' + One(Watched(m)') <= noticed'[m]
    <3>1. m # n /\ ~Listing(m)
      BY <1>4, <1>5, <2>1
    <3>2. Stored(m) + One(Watched(m)) <= noticed[m]
      BY <1>1, <2>1, <3>1 DEF StoreInv, RoomForEdit, Orderly
    <3>3. QED
      BY <1>1, <1>13, <1>7, <3>1, <3>2 DEF skypeVars
  <2>2. QED
    BY <2>1 DEF RoomForEdit
<1>15. RoomForAll'
  <2>1. ASSUME Orderly', NEW m \in Messages
        PROVE  Stored(m)' + One(Watched(m)') + One(Storing(m)') <= 1 + noticed'[m]
    <3>1. Orderly
      BY <1>1, <2>1 DEF Orderly
    <3>2. Stored(m) + One(Watched(m)) + One(Storing(m)) <= 1 + noticed[m]
      BY <3>1 DEF StoreInv, RoomForAll
    <3>3. (IF m = n THEN 1 ELSE 0) + One(Storing(m)') <= One(Storing(m))
      <4>1. CASE m = n
        <5>1. Storing(m)
          BY <1>1, <1>2, <4>1 DEF Storing, n, Inside
        <5>2. ~Storing(m)'
          <6>1. \A g \in Fetcher : fetch[g].at \in {"body", "store"} => g = f
            BY <1>2, <3>1, Alone DEF Orderly, Inside
          <6>2. fetch'[f].at = "list" /\ \A g \in Fetcher : g # f => fetch'[g] = fetch[g]
            BY <1>1, <1>2, <1>3 DEF StoreTyped
          <6>3. QED
            BY <6>1, <6>2 DEF Storing
        <5>3. QED
          BY <4>1, <5>1, <5>2 DEF One
      <4>2. CASE m # n
        BY <1>4, <4>2 DEF One
      <4>3. QED
        BY <4>1, <4>2
    <3>4. noticed'[m] = noticed[m] /\ One(Watched(m)') = One(Watched(m))
      BY <1>1, <1>13 DEF skypeVars
    <3>5. CASE m = n
      <4>1. Stored(m)' = Stored(m) + 1 /\ 1 + One(Storing(m)') <= One(Storing(m))
        BY <1>7, <3>3, <3>5
      <4>2. QED
        BY <1>13, <1>7, <3>2, <3>4, <4>1
    <3>6. CASE m # n
      <4>1. Stored(m)' = Stored(m) /\ One(Storing(m)') <= One(Storing(m))
        BY <1>13, <1>7, <3>3, <3>6
      <4>2. QED
        BY <1>13, <1>7, <3>2, <3>4, <4>1
    <3>7. QED
      BY <3>5, <3>6
  <2>2. QED
    BY <2>1 DEF RoomForAll
<1>16. QED
  BY <1>8, <1>9, <1>10, <1>11, <1>12, <1>14, <1>15 DEF StoreInv

\* A message that is listed is one of the history, edited no more.
LEMMA ListKeeps ==
    ASSUME StoreInv, NEW f \in Fetcher, List(f)
    PROVE  StoreInv'
<1> DEFINE n == Number(f)
<1>1. /\ fetch[f].at = "list" /\ EndFetch(f) /\ entry' = [entry EXCEPT ![n] = "plain"]
      /\ UNCHANGED <<skypeVars, history, sendVars, slow, early>>
  BY DEF List, At, ghosts
<1>2. StoreTyped /\ f \in Inside
  BY <1>1 DEF StoreInv, Inside
<1>3. /\ DOMAIN fetch' = Fetcher /\ \A g \in Fetcher : FetchOK(fetch'[g])
      /\ event' = TRUE /\ n \in Messages
      /\ \A m \in Messages : /\ Storing(m)' => Storing(m)
                             /\ Listing(m)' => Listing(m)
                             /\ Listing(m) => Listing(m)' \/ n = m
                             /\ Wanted(m)' => Wanted(m)
  BY <1>1, <1>2, Leaves
<1>4. Listing(n)
  BY <1>1 DEF Listing
<1> HIDE DEF n
<1>5. /\ entry' \in [Messages -> {"none", "plain", "edited"}] /\ entry'[n] = "plain"
      /\ \A m \in Messages : m # n => entry'[m] = entry[m]
  BY <1>1, <1>2, <1>3 DEF StoreTyped
<1>6. StoreTyped'
  BY <1>1, <1>2, <1>3, <1>5 DEF StoreTyped, skypeVars, sendVars
<1>7. Token'
  BY <1>1, <1>2, LeaveToken
<1>8. Watchers' /\ SenderFirst' /\ \A m \in Messages : Watched(m)' <=> Watched(m)
  BY <1>1, <1>3, SameSenders DEF skypeVars, sendVars
<1>9. NewUntouched'
  <2>1. Wanted(n)
    <3>1. fetch[f].todo \in Seq(Messages) /\ fetch[f].todo # <<>>
      BY <1>1, <1>2 DEF StoreTyped, FetchOK
    <3>2. 1 \in DOMAIN fetch[f].todo /\ fetch[f].todo[1] = n
      BY <3>1 DEF n, Number
    <3>3. QED
      BY <3>2 DEF Wanted
  <2>2. status[n] # "new"
    BY <1>3, <2>1 DEF StoreInv, NewUntouched
  <2>3. QED
    BY <1>1, <1>3, <1>5, <2>2 DEF StoreInv, NewUntouched, skypeVars, sendVars
<1>10. \A m \in Messages : Stored(m)' = Stored(m)
  BY <1>1, StoredSame DEF sendVars
<1>11. UnlistedUnstored'
  BY <1>1, <1>3, <1>5, <1>10 DEF StoreInv, UnlistedUnstored
<1>12. \A m \in Messages : /\ Stored(m) \in Int /\ noticed[m] \in Nat
                           /\ One(Watched(m)') = One(Watched(m)) /\ One(Storing(m)') <= One(Storing(m))
                           /\ One(Watched(m)) \in {0, 1} /\ One(Storing(m)) \in {0, 1} /\ One(Storing(m)') \in {0, 1}
  BY <1>2, <1>3, <1>8, StoredInt DEF StoreTyped, One
<1>13. RoomForEdit'
  <2>1. ASSUME Orderly', NEW m \in Messages, entry'[m] = "edited", ~Listing(m)'
        PROVE  Stored(m)' + One(Watched(m)') <= noticed'[m]
    <3>1. m # n /\ ~Listing(m) /\ entry[m] = "edited"
      BY <1>3, <1>5, <2>1
    <3>2. Stored(m) + One(Watched(m)) <= noticed[m]
      BY <1>1, <2>1, <3>1 DEF StoreInv, RoomForEdit, Orderly
    <3>3. QED
      BY <1>1, <1>12, <1>10, <3>2 DEF skypeVars
  <2>2. QED
    BY <2>1 DEF RoomForEdit
<1>14. RoomForAll'
  <2>1. ASSUME Orderly', NEW m \in Messages
        PROVE  Stored(m)' + One(Watched(m)') + One(Storing(m)') <= 1 + noticed'[m]
    <3>1. Stored(m) + One(Watched(m)) + One(Storing(m)) <= 1 + noticed[m]
      BY <1>1, <2>1 DEF StoreInv, RoomForAll, Orderly
    <3>2. QED
      BY <1>1, <1>12, <1>10, <3>1 DEF skypeVars
  <2>2. QED
    BY <2>1 DEF RoomForAll
<1>15. QED
  BY <1>6, <1>7, <1>8, <1>9, <1>11, <1>13, <1>14 DEF StoreInv

-----------------------------------------------------------------------------
(* What WndProc hears of.                                                  *)

\* A fetch starts for messages Skype has told of.
LEMMA StartKeeps ==
    ASSUME StoreInv, NEW todo \in Seq(Messages), todo # <<>>, NEW q \in BOOLEAN, Start(todo, q),
           UNCHANGED <<body, noticed, entry, history, event, watch, sendwatchers, slow>>,
           early => early',
           status' \in [Messages -> {"new", "received", "read", "sent", "sending", "queued", "failed"}],
           \A m \in Messages : status'[m] = "new" => status[m] = "new",
           \A i \in DOMAIN todo : status'[todo[i]] # "new" /\ (early' \/ ~Watched(todo[i]))
    PROVE  StoreInv'
<1>1. StoreTyped
  BY DEF StoreInv
<1>2. /\ DOMAIN fetch' = Fetcher /\ \A f \in Fetcher : FetchOK(fetch'[f])
      /\ Inside' = Inside
      /\ \A m \in Messages : /\ Storing(m)' => Storing(m)
                             /\ Listing(m)' <=> Listing(m)
                             /\ Wanted(m)' => Wanted(m) \/ \E i \in DOMAIN todo : todo[i] = m
  BY <1>1, Starts
<1>3. StoreTyped'
  BY <1>1, <1>2 DEF StoreTyped
<1>4. Token' /\ Watchers'
  BY <1>2 DEF StoreInv, Token, Watchers, Waiting
<1>5. \A m \in Messages : Watched(m)' <=> Watched(m)
  BY DEF Watched
<1>6. NewUntouched'
  BY <1>2 DEF StoreInv, NewUntouched
<1>7. SenderFirst'
  <2>1. ASSUME Orderly', NEW m \in Messages, Watched(m)', Wanted(m)' PROVE noticed'[m] >= 1
    <3>1. Watched(m) /\ Wanted(m)
      BY <1>2, <1>5, <2>1 DEF Orderly
    <3>2. QED
      BY <2>1, <3>1 DEF StoreInv, SenderFirst, Orderly
  <2>2. QED
    BY <2>1 DEF SenderFirst
<1>8. QED
  BY <1>2, <1>3, <1>4, <1>5, <1>6, <1>7, StoredSame, QuietKeeps

LEMMA ReceivedKeeps == ASSUME StoreInv, NEW m \in Messages, Received(m) PROVE StoreInv'
<1>1. m \in Incoming /\ Start(<<m>>, FALSE)
  BY DEF Received
<1>2. /\ status' \in [Messages -> {"new", "received", "read", "sent", "sending", "queued", "failed"}]
      /\ status'[m] # "new"
      /\ \A n \in Messages : status'[n] = "new" => status[n] = "new"
  BY DEF Received, StoreInv, StoreTyped
<1>3. <<m>> \in Seq(Messages) /\ <<m>> # <<>> /\ \A i \in DOMAIN <<m>> : <<m>>[i] = m
  OBVIOUS
<1>4. ~Watched(m)
  BY <1>1 DEF Watched
<1>5. UNCHANGED <<body, noticed, entry, history, event, watch, sendwatchers, slow, early>>
  BY DEF Received, sendVars, ghosts
<1>6. \A i \in DOMAIN <<m>> : status'[<<m>>[i]] # "new" /\ (early' \/ ~Watched(<<m>>[i]))
  BY <1>2, <1>3, <1>4
<1>7. QED
  BY <1>1, <1>2, <1>3, <1>5, <1>6, StartKeeps

LEMMA MissedKeeps == ASSUME StoreInv, Missed PROVE StoreInv'
<1> DEFINE S == {m \in Incoming : status[m] # "new"}
           todo == SetToSeq(S)
<1>1. todo # <<>> /\ Start(todo, TRUE)
  BY DEF Missed
<1>2. todo \in Seq(S)
  <2>1. IsFiniteSet(S)
    BY FS_Subset
  <2>2. QED
    BY <2>1, ListOfSet
<1> HIDE DEF todo
<1>3. \A i \in DOMAIN todo : todo[i] \in S
  BY <1>2, ElementOfSeq
<1>4. todo \in Seq(Messages)
  <2>1. S \subseteq Messages
    BY DEF Messages
  <2>2. QED
    BY <1>2, <2>1, SeqMonotonic
<1>5. UNCHANGED <<status, body, noticed, entry, history, event, watch, sendwatchers, slow, early>>
  BY DEF Missed, skypeVars, sendVars, ghosts
<1>6. \A i \in DOMAIN todo : status'[todo[i]] # "new" /\ (early' \/ ~Watched(todo[i]))
  BY <1>3, <1>5 DEF Watched
<1>7. /\ status' \in [Messages -> {"new", "received", "read", "sent", "sending", "queued", "failed"}]
      /\ \A m \in Messages : status'[m] = "new" => status[m] = "new"
  BY <1>5 DEF StoreInv, StoreTyped
<1>8. QED
  BY <1>1, <1>4, <1>5, <1>6, <1>7, StartKeeps

\* SENT starts a fetch only if no thread watches this message, or the sender has
\* already been told and not listed it yet.
LEMMA SentKeeps == ASSUME StoreInv, NEW m \in Messages, Sent(m) PROVE StoreInv'
<1>1. StoreTyped
  BY DEF StoreInv
<1>2. /\ status' \in [Messages -> {"new", "received", "read", "sent", "sending", "queued", "failed"}]
      /\ status'[m] # "new"
      /\ \A n \in Messages : status'[n] = "new" => status[n] = "new"
      /\ UNCHANGED <<body, noticed, entry, history, event, watch, sendwatchers, slow>>
  BY <1>1 DEF Sent, StoreTyped
<1>3. CASE FetchSent(m)
  <2>1. Start(<<m>>, FALSE) /\ early' = (early \/ (m \in Own /\ watch[m] = "list"))
    BY <1>3 DEF Sent
  <2>2. Waiting = {}
    <3>1. IsFiniteSet(Waiting)
      BY FS_Subset DEF Waiting
    <3>2. Cardinality(Waiting) = 0
      BY <1>3 DEF FetchSent, StoreInv, Watchers
    <3>3. QED
      BY <3>1, <3>2, FS_EmptySet
  <2>3. early' \/ ~Watched(m)
    BY <2>1, <2>2 DEF Watched, Waiting
  <2>4. <<m>> \in Seq(Messages) /\ <<m>> # <<>> /\ \A i \in DOMAIN <<m>> : <<m>>[i] = m
    OBVIOUS
  <2>5. \A i \in DOMAIN <<m>> : status'[<<m>>[i]] # "new" /\ (early' \/ ~Watched(<<m>>[i]))
    BY <1>2, <2>3, <2>4
  <2>6. early => early'
    BY <2>1
  <2>7. QED
    BY <1>2, <2>1, <2>4, <2>5, <2>6, StartKeeps
<1>4. CASE ~FetchSent(m)
  <2>1. UNCHANGED <<fetch, early>>
    BY <1>4 DEF Sent
  <2>2. \A n \in Messages : /\ (Watched(n)' <=> Watched(n)) /\ (Storing(n)' <=> Storing(n))
                            /\ (Listing(n)' <=> Listing(n)) /\ (Wanted(n)' <=> Wanted(n))
    BY <1>2, <2>1 DEF Watched, Storing, Listing, Wanted, Number
  <2>3. StoreTyped'
    BY <1>1, <1>2, <2>1 DEF StoreTyped
  <2>4. Token' /\ Watchers'
    BY <1>2, <2>1 DEF StoreInv, Token, Inside, Watchers, Waiting
  <2>5. NewUntouched' /\ SenderFirst'
    BY <1>2, <2>1, <2>2 DEF StoreInv, NewUntouched, SenderFirst, Orderly
  <2>6. QED
    BY <1>2, <2>1, <2>2, <2>3, <2>4, <2>5, StoredSame, QuietKeeps
<1>5. QED
  BY <1>3, <1>4

LEMMA AnsweredKeeps == ASSUME StoreInv, NEW m \in Messages, Edit(m) \/ SendAnswered(m) PROVE StoreInv'
<1>1. /\ StoreTyped
      /\ UNCHANGED <<noticed, entry, history, event, fetch, sendwatchers, watch, slow, early>>
  BY DEF StoreInv, Edit, SendAnswered, sendVars, ghosts
<1>2. /\ status' \in [Messages -> {"new", "received", "read", "sent", "sending", "queued", "failed"}]
      /\ body' \in [Messages -> Nat]
      /\ \A n \in Messages : status'[n] = "new" => status[n] = "new" /\ body'[n] = body[n]
  <2>1. CASE Edit(m)
    BY <1>1, <2>1 DEF Edit, StoreTyped
  <2>2. CASE SendAnswered(m)
    <3>1. body' = body /\ status[m] = "sending"
      BY <2>2 DEF SendAnswered
    <3>2. CASE status' = [status EXCEPT ![m] = "queued"]
      BY <1>1, <3>1, <3>2 DEF StoreTyped
    <3>3. CASE status' = [status EXCEPT ![m] = "failed"]
      BY <1>1, <3>1, <3>3 DEF StoreTyped
    <3>4. QED
      BY <2>2, <3>2, <3>3 DEF SendAnswered
  <2>3. QED
    BY <2>1, <2>2
<1>3. \A n \in Messages : /\ (Watched(n)' <=> Watched(n)) /\ (Storing(n)' <=> Storing(n))
                          /\ (Listing(n)' <=> Listing(n)) /\ (Wanted(n)' <=> Wanted(n))
  BY <1>1 DEF Watched, Storing, Listing, Wanted, Number
<1>4. StoreTyped'
  BY <1>1, <1>2 DEF StoreTyped
<1>5. Token' /\ Watchers'
  BY <1>1 DEF StoreInv, Token, Inside, Watchers, Waiting
<1>6. NewUntouched' /\ SenderFirst'
  BY <1>1, <1>2, <1>3 DEF StoreInv, NewUntouched, SenderFirst, Orderly
<1>7. QED
  BY <1>1, <1>3, <1>4, <1>5, <1>6, StoredSame, QuietKeeps

\* An edit makes room for one more version.
LEMMA EditedKeeps == ASSUME StoreInv, NEW n \in Messages, Edited(n) PROVE StoreInv'
<1>1. /\ StoreTyped /\ noticed[n] < body[n] /\ noticed' = [noticed EXCEPT ![n] = body[n]]
      /\ Start(<<n>>, FALSE) /\ entry' = EditMarked(n)
      /\ UNCHANGED <<status, body, history, event, sendVars, slow, early>>
  BY DEF StoreInv, Edited
<1>2. <<n>> \in Seq(Messages) /\ <<n>> # <<>> /\ \A i \in DOMAIN <<n>> : <<n>>[i] = n
  OBVIOUS
<1>3. /\ DOMAIN fetch' = Fetcher /\ \A f \in Fetcher : FetchOK(fetch'[f])
      /\ Inside' = Inside
      /\ \A m \in Messages : /\ Storing(m)' => Storing(m)
                             /\ Listing(m)' <=> Listing(m)
                             /\ Wanted(m)' => Wanted(m) \/ \E i \in DOMAIN <<n>> : <<n>>[i] = m
  BY <1>1, <1>2, Starts
<1>4. \A m \in Messages : Wanted(m)' => Wanted(m) \/ m = n
  BY <1>2, <1>3
<1>5. /\ noticed' \in [Messages -> Nat] /\ noticed'[n] >= 1 /\ noticed'[n] >= noticed[n] + 1
      /\ \A m \in Messages : m # n => noticed'[m] = noticed[m]
      /\ \A m \in Messages : noticed[m] \in Nat /\ noticed'[m] \in Nat
      /\ body[n] > 0
  BY <1>1 DEF StoreTyped
<1>6. /\ entry' \in [Messages -> {"none", "plain", "edited"}]
      /\ \A m \in Messages : m # n => entry'[m] = entry[m]
      /\ \A m \in Messages : entry'[m] = "none" <=> entry[m] = "none"
  BY <1>1 DEF StoreTyped, EditMarked
<1>7. StoreTyped'
  BY <1>1, <1>3, <1>5, <1>6 DEF StoreTyped, sendVars
<1>8. Token' /\ Watchers'
  BY <1>1, <1>3 DEF StoreInv, Token, Watchers, Waiting, sendVars
<1>9. \A m \in Messages : Watched(m)' <=> Watched(m)
  BY <1>1 DEF Watched, sendVars
<1>10. NewUntouched'
  <2>1. status[n] # "new"
    BY <1>5 DEF StoreInv, NewUntouched
  <2>2. QED
    BY <1>1, <1>4, <1>6, <2>1 DEF StoreInv, NewUntouched, sendVars
<1>11. SenderFirst'
  <2>1. ASSUME Orderly', NEW m \in Messages, Watched(m)', Wanted(m)' PROVE noticed'[m] >= 1
    <3>1. CASE m = n
      BY <1>5, <3>1
    <3>2. CASE m # n
      BY <1>1, <1>4, <1>5, <1>9, <2>1, <3>2 DEF StoreInv, SenderFirst, Orderly
    <3>3. QED
      BY <3>1, <3>2
  <2>2. QED
    BY <2>1 DEF SenderFirst
<1>12. \A m \in Messages : Stored(m)' = Stored(m)
  BY <1>1, StoredSame DEF sendVars
<1>13. UnlistedUnstored'
  BY <1>1, <1>3, <1>6, <1>12 DEF StoreInv, UnlistedUnstored
<1>14. \A m \in Messages : /\ Stored(m) \in Int
                           /\ One(Watched(m)') = One(Watched(m)) /\ One(Storing(m)') <= One(Storing(m))
                           /\ One(Watched(m)) \in {0, 1} /\ One(Storing(m)) \in {0, 1} /\ One(Storing(m)') \in {0, 1}
  BY <1>1, <1>3, <1>9, StoredInt DEF StoreTyped, One
<1>15. \A m \in Messages : noticed'[m] >= noticed[m]
  BY <1>5
<1>16. ASSUME Orderly', NEW m \in Messages
       PROVE  Stored(m) + One(Watched(m)) + One(Storing(m)) <= 1 + noticed[m]
  BY <1>1, <1>16 DEF StoreInv, RoomForAll, Orderly
<1>17. RoomForAll'
  <2>1. ASSUME Orderly', NEW m \in Messages
        PROVE  Stored(m)' + One(Watched(m)') + One(Storing(m)') <= 1 + noticed'[m]
    BY <1>1, <1>5, <1>14, <1>15, <1>16, <1>12, <2>1
  <2>2. QED
    BY <2>1 DEF RoomForAll
<1>18. RoomForEdit'
  <2>1. ASSUME Orderly', NEW m \in Messages, entry'[m] = "edited", ~Listing(m)'
        PROVE  Stored(m)' + One(Watched(m)') <= noticed'[m]
    <3>1. CASE m = n
      <4>1. noticed'[m] >= noticed[m] + 1
        BY <1>5, <3>1
      <4>2. QED
        BY <1>1, <1>5, <1>14, <1>16, <1>12, <2>1, <4>1
    <3>2. CASE m # n
      <4>1. Stored(m) + One(Watched(m)) <= noticed[m]
        BY <1>1, <1>3, <1>6, <2>1, <3>2 DEF StoreInv, RoomForEdit, Orderly
      <4>2. QED
        BY <1>1, <1>5, <1>14, <1>12, <3>2, <4>1
    <3>3. QED
      BY <3>1, <3>2
  <2>2. QED
    BY <2>1 DEF RoomForEdit
<1>19. QED
  BY <1>7, <1>8, <1>10, <1>11, <1>13, <1>17, <1>18 DEF StoreInv

-----------------------------------------------------------------------------
(* The threads that send.                                                  *)

\* A message that is sent was not known to anyone before.
LEMMA SendKeeps == ASSUME StoreInv, NEW n \in Messages, Send(n) PROVE StoreInv'
<1>1. /\ StoreTyped /\ n \in Own /\ status[n] = "new" /\ status' = [status EXCEPT ![n] = "sending"]
      /\ sendwatchers' = sendwatchers + 1 /\ watch' = [watch EXCEPT ![n] = "wait"]
      /\ UNCHANGED <<body, noticed, entry, history, event, fetch, slow, early>>
  BY DEF StoreInv, Send, ghosts
<1>2. /\ entry[n] = "none" /\ history[n] = <<>> /\ ~Wanted(n) /\ watch[n] = "none"
  BY <1>1 DEF StoreInv, NewUntouched
<1>3. /\ watch' \in [Own -> {"none", "wait", "told", "trusted", "list", "done"}] /\ watch'[n] = "wait"
      /\ \A m \in Own : m # n => watch'[m] = watch[m]
      /\ status' \in [Messages -> {"new", "received", "read", "sent", "sending", "queued", "failed"}]
      /\ status'[n] # "new" /\ \A m \in Messages : m # n => status'[m] = status[m]
  BY <1>1 DEF StoreTyped
<1>4. StoreTyped'
  BY <1>1, <1>3 DEF StoreTyped
<1>5. Token'
  BY <1>1 DEF StoreInv, Token, Inside
<1>6. Watchers'
  <2>1. Waiting' = Waiting \cup {n} /\ n \notin Waiting
    BY <1>1, <1>2, <1>3 DEF Waiting
  <2>2. IsFiniteSet(Waiting)
    BY FS_Subset DEF Waiting
  <2>3. Cardinality(Waiting') = Cardinality(Waiting) + 1
    BY <2>1, <2>2, FS_AddElement
  <2>4. QED
    BY <1>1, <2>3 DEF StoreInv, Watchers
<1>7. \A m \in Messages : /\ (Storing(m)' <=> Storing(m)) /\ (Listing(m)' <=> Listing(m))
                          /\ (Wanted(m)' <=> Wanted(m))
                          /\ (m # n => (Watched(m)' <=> Watched(m)))
  BY <1>1, <1>3 DEF Watched, Storing, Listing, Wanted, Number
<1>8. NewUntouched'
  BY <1>1, <1>3, <1>7 DEF StoreInv, NewUntouched
<1>9. /\ \A m \in Messages : Stored(m)' = Stored(m)
       /\ Stored(n) = 0
  <2>1. \A m \in Messages : Trusted(m)' <=> Trusted(m)
    BY <1>1, <1>2, <1>3 DEF Trusted
  <2>2. \A m \in Messages : Stored(m)' = Stored(m)
    BY <1>1, <2>1 DEF Stored, One
  <2>3. Stored(n) = 0
    BY <1>1, <1>2 DEF Stored, Trusted, One
  <2>4. QED
    BY <2>2, <2>3
<1>10. UnlistedUnstored'
  BY <1>1, <1>7, <1>9 DEF StoreInv, UnlistedUnstored
<1>11. SenderFirst'
  BY <1>1, <1>2, <1>7 DEF StoreInv, SenderFirst, Orderly
<1>12. \A m \in Messages : /\ Stored(m) \in Int /\ noticed[m] \in Nat
                           /\ One(Storing(m)') = One(Storing(m))
                           /\ (m # n => One(Watched(m)') = One(Watched(m)))
                           /\ One(Watched(m)) \in {0, 1} /\ One(Watched(m)') \in {0, 1} /\ One(Storing(m)) \in {0, 1}
  BY <1>1, <1>7, StoredInt DEF StoreTyped, One
<1>13. RoomForAll'
  <2>1. ASSUME Orderly', NEW m \in Messages
        PROVE  Stored(m)' + One(Watched(m)') + One(Storing(m)') <= 1 + noticed'[m]
    <3>1. CASE m = n
      <4>1. ~Storing(n)
        <5>1. ASSUME NEW f \in Fetcher, fetch[f].at \in {"body", "store"} PROVE Number(f) # n
          <6>1. FetchOK(fetch[f])
            BY <1>1 DEF StoreTyped
          <6>2. fetch[f].todo \in Seq(Messages) /\ fetch[f].todo # <<>>
            BY <5>1, <6>1 DEF FetchOK
          <6>3. 1 \in DOMAIN fetch[f].todo /\ fetch[f].todo[1] = Number(f)
            BY <6>2 DEF Number
          <6>4. QED
            BY <1>2, <6>3 DEF Wanted
        <5>2. QED
          BY <5>1 DEF Storing
      <4>2. One(Storing(n)) = 0 /\ Stored(n) = 0
        BY <1>9, <4>1 DEF One
      <4>3. QED
        BY <1>1, <1>12, <1>9, <3>1, <4>2
    <3>2. CASE m # n
      <4>1. Stored(m) + One(Watched(m)) + One(Storing(m)) <= 1 + noticed[m]
        BY <1>1, <2>1 DEF StoreInv, RoomForAll, Orderly
      <4>2. QED
        BY <1>1, <1>12, <1>9, <3>2, <4>1
    <3>3. QED
      BY <3>1, <3>2
  <2>2. QED
    BY <2>1 DEF RoomForAll
<1>14. RoomForEdit'
  <2>1. ASSUME Orderly', NEW m \in Messages, entry'[m] = "edited", ~Listing(m)'
        PROVE  Stored(m)' + One(Watched(m)') <= noticed'[m]
    <3>1. m # n
      BY <1>1, <1>2, <2>1
    <3>2. Stored(m) + One(Watched(m)) <= noticed[m]
      BY <1>1, <1>7, <2>1 DEF StoreInv, RoomForEdit, Orderly
    <3>3. QED
      BY <1>1, <1>12, <1>9, <3>1, <3>2
  <2>2. QED
    BY <2>1 DEF RoomForEdit
<1>15. QED
  BY <1>4, <1>5, <1>6, <1>8, <1>10, <1>11, <1>13, <1>14 DEF StoreInv

\* The window stores a message on trust: it is not counted as stored.
LEMMA WatchNoAckKeeps == ASSUME StoreInv, NEW n \in Messages, WatchNoAck(n) PROVE StoreInv'
<1>1. /\ StoreTyped /\ n \in Own /\ watch[n] = "wait" /\ watch' = [watch EXCEPT ![n] = "told"]
      /\ history' = [history EXCEPT ![n] = Append(@, 0)]
      /\ UNCHANGED <<status, body, noticed, entry, event, fetch, sendwatchers, slow, early>>
  BY DEF StoreInv, WatchNoAck, skypeVars, ghosts
<1>2. /\ watch' \in [Own -> {"none", "wait", "told", "trusted", "list", "done"}] /\ watch'[n] = "told"
      /\ \A m \in Own : m # n => watch'[m] = watch[m]
  BY <1>1 DEF StoreTyped
<1>3. /\ history' \in [Messages -> Seq(Nat)] /\ Len(history'[n]) = Len(history[n]) + 1
      /\ \A m \in Messages : m # n => history'[m] = history[m]
      /\ Len(history[n]) \in Nat
  <2>1. history \in [Messages -> Seq(Nat)]
    BY <1>1 DEF StoreTyped
  <2>2. Append(history[n], 0) \in Seq(Nat) /\ Len(Append(history[n], 0)) = Len(history[n]) + 1
    BY <2>1, AppendProperties
  <2>3. QED
    BY <1>1, <2>1, <2>2, LenProperties
<1>4. StoreTyped'
  BY <1>1, <1>2, <1>3 DEF StoreTyped
<1>5. Token'
  BY <1>1 DEF StoreInv, Token, Inside
<1>6. Watchers'
  <2>1. Waiting' = Waiting
    BY <1>1, <1>2 DEF Waiting
  <2>2. QED
    BY <1>1, <2>1 DEF StoreInv, Watchers
<1>7. \A m \in Messages : /\ (Storing(m)' <=> Storing(m)) /\ (Listing(m)' <=> Listing(m))
                          /\ (Wanted(m)' <=> Wanted(m)) /\ (Watched(m)' => Watched(m))
  BY <1>1, <1>2 DEF Watched, Storing, Listing, Wanted, Number
<1>8. NewUntouched'
  <2>1. status[n] # "new"
    BY <1>1 DEF StoreInv, NewUntouched
  <2>2. QED
    BY <1>1, <1>2, <1>3, <1>7, <2>1 DEF StoreInv, NewUntouched
<1>9. SenderFirst'
  BY <1>1, <1>7 DEF StoreInv, SenderFirst, Orderly
<1>10. \A m \in Messages : Stored(m)' = Stored(m)
  <2>1. ~Trusted(n) /\ Trusted(n)'
    BY <1>1, <1>2 DEF Trusted
  <2>2. One(Trusted(n)) = 0 /\ One(Trusted(n)') = 1
    BY <2>1 DEF One
  <2>3. Stored(n)' = Stored(n)
    BY <1>3, <2>2 DEF Stored
  <2>4. \A m \in Messages : m # n => (Trusted(m)' <=> Trusted(m))
    BY <1>2 DEF Trusted
  <2>5. \A m \in Messages : m # n => Stored(m)' = Stored(m)
    BY <1>3, <2>4 DEF Stored, One
  <2>6. QED
    BY <2>3, <2>5
<1>11. QED
  BY <1>1, <1>4, <1>5, <1>6, <1>7, <1>8, <1>9, <1>10, QuietKeeps

\* It is no longer counted then.
LEMMA WatchLeavesKeeps == ASSUME StoreInv, NEW n \in Messages, WatchLeaves(n) PROVE StoreInv'
<1>1. /\ StoreTyped /\ n \in Own /\ watch[n] = "told" /\ sendwatchers' = sendwatchers - 1
      /\ watch' = [watch EXCEPT ![n] = "trusted"]
      /\ UNCHANGED <<status, body, noticed, entry, history, event, fetch, slow, early>>
  BY DEF StoreInv, WatchLeaves, skypeVars, ghosts
<1>2. /\ watch' \in [Own -> {"none", "wait", "told", "trusted", "list", "done"}] /\ watch'[n] = "trusted"
      /\ \A m \in Own : m # n => watch'[m] = watch[m]
  BY <1>1 DEF StoreTyped
<1>3. StoreTyped'
  BY <1>1, <1>2 DEF StoreTyped
<1>4. Token'
  BY <1>1 DEF StoreInv, Token, Inside
<1>5. Watchers'
  <2>1. Waiting' = Waiting \ {n} /\ n \in Waiting
    BY <1>1, <1>2 DEF Waiting
  <2>2. IsFiniteSet(Waiting)
    BY FS_Subset DEF Waiting
  <2>3. Cardinality(Waiting') = Cardinality(Waiting) - 1
    BY <2>1, <2>2, FS_RemoveElement
  <2>4. QED
    BY <1>1, <2>3 DEF StoreInv, Watchers
<1>6. \A m \in Messages : /\ (Storing(m)' <=> Storing(m)) /\ (Listing(m)' <=> Listing(m))
                          /\ (Wanted(m)' <=> Wanted(m)) /\ (Watched(m)' => Watched(m))
  BY <1>1, <1>2 DEF Watched, Storing, Listing, Wanted, Number
<1>7. NewUntouched'
  <2>1. status[n] # "new"
    BY <1>1 DEF StoreInv, NewUntouched
  <2>2. QED
    BY <1>1, <1>2, <1>6, <2>1 DEF StoreInv, NewUntouched
<1>8. SenderFirst'
  BY <1>1, <1>6 DEF StoreInv, SenderFirst, Orderly
<1>9. \A m \in Messages : Stored(m)' = Stored(m)
  <2>1. \A m \in Messages : Trusted(m)' <=> Trusted(m)
    BY <1>1, <1>2 DEF Trusted
  <2>2. QED
    BY <1>1, <2>1 DEF Stored, One
<1>10. QED
  BY <1>1, <1>3, <1>4, <1>5, <1>6, <1>7, <1>8, <1>9, QuietKeeps

\* Whoever got an answer is no longer counted.
LEMMA WatchReturnsKeeps == ASSUME StoreInv, NEW n \in Messages, WatchReturns(n) PROVE StoreInv'
<1>1. /\ StoreTyped /\ n \in Own /\ watch[n] = "wait" /\ sendwatchers' = sendwatchers - 1
      /\ watch' = [watch EXCEPT ![n] = IF reply[n] = "ok" THEN "list" ELSE "done"]
      /\ UNCHANGED <<status, body, noticed, entry, history, event, fetch, slow, early>>
  BY DEF StoreInv, WatchReturns, skypeVars, ghosts
<1>2. /\ watch' \in [Own -> {"none", "wait", "told", "trusted", "list", "done"}] /\ watch'[n] \in {"list", "done"}
      /\ \A m \in Own : m # n => watch'[m] = watch[m]
  BY <1>1 DEF StoreTyped
<1>3. StoreTyped'
  BY <1>1, <1>2 DEF StoreTyped
<1>4. Token'
  BY <1>1 DEF StoreInv, Token, Inside
<1>5. Watchers'
  <2>1. Waiting' = Waiting \ {n} /\ n \in Waiting
    BY <1>1, <1>2 DEF Waiting
  <2>2. IsFiniteSet(Waiting)
    BY FS_Subset DEF Waiting
  <2>3. Cardinality(Waiting') = Cardinality(Waiting) - 1
    BY <2>1, <2>2, FS_RemoveElement
  <2>4. QED
    BY <1>1, <2>3 DEF StoreInv, Watchers
<1>6. \A m \in Messages : /\ (Storing(m)' <=> Storing(m)) /\ (Listing(m)' <=> Listing(m))
                          /\ (Wanted(m)' <=> Wanted(m)) /\ (Watched(m)' => Watched(m))
  BY <1>1, <1>2 DEF Watched, Storing, Listing, Wanted, Number
<1>7. NewUntouched'
  <2>1. status[n] # "new"
    BY <1>1 DEF StoreInv, NewUntouched
  <2>2. QED
    BY <1>1, <1>2, <1>6, <2>1 DEF StoreInv, NewUntouched
<1>8. SenderFirst'
  BY <1>1, <1>6 DEF StoreInv, SenderFirst, Orderly
<1>9. \A m \in Messages : Stored(m)' = Stored(m)
  <2>1. \A m \in Messages : Trusted(m)' <=> Trusted(m)
    BY <1>1, <1>2 DEF Trusted
  <2>2. QED
    BY <1>1, <2>1 DEF Stored, One
<1>10. QED
  BY <1>1, <1>3, <1>4, <1>5, <1>6, <1>7, <1>8, <1>9, QuietKeeps

\* The sender stores what it had the right to store, and lists it.
LEMMA WatchListsKeeps == ASSUME StoreInv, NEW n \in Messages, WatchLists(n) PROVE StoreInv'
<1>1. /\ StoreTyped /\ n \in Own /\ watch[n] = "list" /\ watch' = [watch EXCEPT ![n] = "done"]
      /\ entry' = [entry EXCEPT ![n] = "plain"]
      /\ history' = [history EXCEPT ![n] = Append(@, 0)]
      /\ UNCHANGED <<status, body, noticed, event, fetch, sendwatchers, slow, early>>
  BY DEF StoreInv, WatchLists, skypeVars, ghosts
<1>2. /\ watch' \in [Own -> {"none", "wait", "told", "trusted", "list", "done"}] /\ watch'[n] = "done"
      /\ \A m \in Own : m # n => watch'[m] = watch[m]
      /\ entry' \in [Messages -> {"none", "plain", "edited"}] /\ entry'[n] = "plain"
      /\ \A m \in Messages : m # n => entry'[m] = entry[m]
  BY <1>1 DEF StoreTyped
<1>3. /\ history' \in [Messages -> Seq(Nat)] /\ Len(history'[n]) = Len(history[n]) + 1
      /\ \A m \in Messages : m # n => history'[m] = history[m]
      /\ \A m \in Messages : Len(history[m]) \in Nat /\ Len(history'[m]) \in Nat
  <2>1. history \in [Messages -> Seq(Nat)]
    BY <1>1 DEF StoreTyped
  <2>2. Append(history[n], 0) \in Seq(Nat) /\ Len(Append(history[n], 0)) = Len(history[n]) + 1
    BY <2>1, AppendProperties
  <2>3. /\ history' \in [Messages -> Seq(Nat)] /\ history'[n] = Append(history[n], 0)
        /\ \A m \in Messages : m # n => history'[m] = history[m]
    BY <1>1, <2>1, <2>2
  <2>4. QED
    BY <2>1, <2>2, <2>3, LenProperties
<1>4. \A m \in Messages : /\ Stored(m) \in Int /\ Stored(m)' = Stored(m) + (IF m = n THEN 1 ELSE 0)
  <2>1. \A m \in Messages : Trusted(m)' <=> Trusted(m)
    BY <1>1, <1>2 DEF Trusted
  <2>2. ASSUME NEW m \in Messages
        PROVE  Stored(m) \in Int /\ Stored(m)' = Stored(m) + (IF m = n THEN 1 ELSE 0)
    <3>1. /\ Len(history[m]) \in Nat
          /\ Len(history'[m]) = Len(history[m]) + (IF m = n THEN 1 ELSE 0)
      <4>1. CASE m = n
        BY <1>3, <4>1
      <4>2. CASE m # n
        BY <1>3, <4>2
      <4>3. QED
        BY <4>1, <4>2
    <3>2. CASE Trusted(m)
      <4>1. Trusted(m)' <=> Trusted(m)
        BY <2>1
      <4>2. Stored(m) = Len(history[m]) - 1
        BY <3>2 DEF Stored, One
      <4>3. Stored(m)' = Len(history'[m]) - 1
        BY <3>2, <4>1 DEF Stored, One
      <4>4. QED
        BY <3>1, <4>2, <4>3
    <3>3. CASE ~Trusted(m)
      <4>1. Trusted(m)' <=> Trusted(m)
        BY <2>1
      <4>2. Stored(m) = Len(history[m]) - 0
        BY <3>3 DEF Stored, One
      <4>3. Stored(m)' = Len(history'[m]) - 0
        BY <3>3, <4>1 DEF Stored, One
      <4>4. QED
        BY <3>1, <4>2, <4>3
    <3>4. QED
      BY <3>2, <3>3
  <2>3. QED
    BY <2>2
<1>5. StoreTyped'
  BY <1>1, <1>2, <1>3 DEF StoreTyped
<1>6. Token'
  BY <1>1 DEF StoreInv, Token, Inside
<1>7. Watchers'
  <2>1. Waiting' = Waiting
    BY <1>1, <1>2 DEF Waiting
  <2>2. QED
    BY <1>1, <2>1 DEF StoreInv, Watchers
<1>8. \A m \in Messages : /\ (Storing(m)' <=> Storing(m)) /\ (Listing(m)' <=> Listing(m))
                          /\ (Wanted(m)' <=> Wanted(m)) /\ (Watched(m)' => Watched(m))
                          /\ (m = n => Watched(m) /\ ~Watched(m)')
  BY <1>1, <1>2 DEF Watched, Storing, Listing, Wanted, Number
<1>9. NewUntouched'
  <2>1. status[n] # "new"
    BY <1>1 DEF StoreInv, NewUntouched
  <2>2. QED
    BY <1>1, <1>2, <1>3, <1>8, <2>1 DEF StoreInv, NewUntouched
<1>10. UnlistedUnstored'
  BY <1>1, <1>2, <1>8, <1>4 DEF StoreInv, UnlistedUnstored
<1>11. SenderFirst'
  BY <1>1, <1>8 DEF StoreInv, SenderFirst, Orderly
<1>12. \A m \in Messages : /\ noticed[m] \in Nat /\ One(Storing(m)') = One(Storing(m))
                           /\ One(Watched(m)') <= One(Watched(m))
                           /\ (m = n => One(Watched(m)) = 1 /\ One(Watched(m)') = 0)
                           /\ One(Watched(m)) \in {0, 1} /\ One(Watched(m)') \in {0, 1} /\ One(Storing(m)) \in {0, 1}
  BY <1>1, <1>8 DEF StoreTyped, One
<1>13. RoomForAll'
  <2>1. ASSUME Orderly', NEW m \in Messages
        PROVE  Stored(m)' + One(Watched(m)') + One(Storing(m)') <= 1 + noticed'[m]
    <3>1. Stored(m) + One(Watched(m)) + One(Storing(m)) <= 1 + noticed[m]
      BY <1>1, <2>1 DEF StoreInv, RoomForAll, Orderly
    <3>2. CASE m = n
      <4>1. Stored(m)' = Stored(m) + 1
        BY <1>4, <3>2
      <4>2. One(Watched(m)) = 1 /\ One(Watched(m)') = 0
        BY <1>12, <3>2
      <4>3. QED
        BY <1>1, <1>12, <1>4, <3>1, <4>1, <4>2
    <3>3. CASE m # n
      <4>1. Stored(m)' = Stored(m)
        BY <1>4, <3>3
      <4>2. /\ One(Watched(m)') <= One(Watched(m)) /\ One(Storing(m)') = One(Storing(m))
            /\ One(Watched(m)) \in {0, 1} /\ One(Watched(m)') \in {0, 1} /\ One(Storing(m)) \in {0, 1}
        BY <1>12
      <4>3. noticed'[m] = noticed[m] /\ noticed[m] \in Nat /\ Stored(m) \in Int
        BY <1>1, <1>12, <1>4
      <4>4. QED
        BY <3>1, <4>1, <4>2, <4>3
    <3>4. QED
      BY <3>2, <3>3
  <2>2. QED
    BY <2>1 DEF RoomForAll
<1>14. RoomForEdit'
  <2>1. ASSUME Orderly', NEW m \in Messages, entry'[m] = "edited", ~Listing(m)'
        PROVE  Stored(m)' + One(Watched(m)') <= noticed'[m]
    <3>1. m # n /\ entry[m] = "edited"
      BY <1>2, <2>1
    <3>2. Stored(m) + One(Watched(m)) <= noticed[m]
      BY <1>1, <1>8, <2>1, <3>1 DEF StoreInv, RoomForEdit, Orderly
    <3>3. Stored(m)' = Stored(m)
      BY <1>4, <3>1
    <3>4. /\ One(Watched(m)') <= One(Watched(m))
          /\ One(Watched(m)) \in {0, 1} /\ One(Watched(m)') \in {0, 1}
      BY <1>12
    <3>5. noticed'[m] = noticed[m] /\ noticed[m] \in Nat /\ Stored(m) \in Int
      BY <1>1, <1>12, <1>4
    <3>6. QED
      BY <3>2, <3>3, <3>4, <3>5
  <2>2. QED
    BY <2>1 DEF RoomForEdit
<1>15. QED
  BY <1>5, <1>6, <1>7, <1>9, <1>10, <1>11, <1>13, <1>14 DEF StoreInv

-----------------------------------------------------------------------------
LEMMA NextKeeps == StoreInv /\ [Next]_vars => StoreInv'
<1> SUFFICES ASSUME StoreInv, [Next]_vars PROVE StoreInv'
  OBVIOUS
<1>1. CASE Hears
  BY <1>1, ReceivedKeeps, MissedKeeps, SentKeeps, AnsweredKeeps, EditedKeeps DEF Hears
<1>2. ASSUME NEW f \in Fetcher, Fetches(f) PROVE StoreInv'
  BY <1>2, WaitKeeps, SkipKeeps, LookKeeps, StoreKeeps, ListKeeps DEF Fetches
<1>3. ASSUME NEW m \in Messages, Send(m) \/ Sends(m) PROVE StoreInv'
  BY <1>3, SendKeeps, WatchNoAckKeeps, WatchLeavesKeeps, WatchReturnsKeeps, WatchListsKeeps DEF Sends
<1>4. CASE UNCHANGED vars
  <2>1. UNCHANGED <<status, body, noticed, entry, history, event, fetch, sendwatchers, watch, slow, early>>
    BY <1>4 DEF vars, skypeVars, sendVars, ghosts
  <2>2. \A m \in Messages : /\ (Watched(m)' <=> Watched(m)) /\ (Storing(m)' <=> Storing(m))
                            /\ (Listing(m)' <=> Listing(m)) /\ (Wanted(m)' <=> Wanted(m))
    BY <2>1 DEF Watched, Storing, Listing, Wanted, Number
  <2>3. StoreTyped' /\ Token'
    BY <2>1 DEF StoreInv, StoreTyped, Token, Inside
  <2>4. Watchers' /\ SenderFirst' /\ NewUntouched'
    BY <2>1, <2>2, SameSenders
  <2>5. QED
    BY <2>1, <2>2, <2>3, <2>4, StoredSame, QuietKeeps
<1>5. QED
  BY <1>1, <1>2, <1>3, <1>4 DEF Next

LEMMA InitHasStoreInv == Init => StoreInv
<1> SUFFICES ASSUME Init PROVE StoreInv
  OBVIOUS
<1>1. /\ status = [m \in Messages |-> "new"] /\ body = [m \in Messages |-> 0] /\ noticed = body
      /\ entry = [m \in Messages |-> "none"] /\ history = [m \in Messages |-> <<>>]
      /\ fetch = [f \in Fetcher |-> NoFetch] /\ sendwatchers = 0
      /\ watch = [m \in Own |-> "none"]
  BY DEF Init
<1>2. event = TRUE /\ slow = FALSE
  BY DEF Init
<1>3. \A f \in Fetcher : fetch[f] = NoFetch /\ fetch[f].at = "idle" /\ fetch[f].todo = <<>>
  BY <1>1 DEF NoFetch
<1>4. StoreTyped
  <2>1. FetchOK(NoFetch)
    BY DEF FetchOK, NoFetch, FetchPlace
  <2>2. event \in BOOLEAN /\ slow \in BOOLEAN
    BY <1>2
  <2>3. DOMAIN fetch = Fetcher /\ \A f \in Fetcher : FetchOK(fetch[f])
    BY <1>1, <1>3, <2>1
  <2>4. /\ body \in [Messages -> Nat] /\ noticed \in [Messages -> Nat] /\ history \in [Messages -> Seq(Nat)]
        /\ status \in [Messages -> {"new", "received", "read", "sent", "sending", "queued", "failed"}]
        /\ entry \in [Messages -> {"none", "plain", "edited"}]
        /\ watch \in [Own -> {"none", "wait", "told", "trusted", "list", "done"}]
    BY <1>1
  <2>5. QED
    BY <2>2, <2>3, <2>4 DEF StoreTyped
<1>5. Token
  BY <1>2, <1>3 DEF Token, Inside
<1>6. Watchers
  <2>1. Waiting = {}
    BY <1>1 DEF Waiting
  <2>2. QED
    BY <1>1, <2>1, FS_EmptySet DEF Watchers
<1>7. \A m \in Messages : ~Wanted(m) /\ ~Storing(m) /\ ~Listing(m) /\ ~Watched(m)
  BY <1>1, <1>3 DEF Wanted, Storing, Listing, Watched
<1>8. \A m \in Messages : Stored(m) = 0
  <2>1. \A m \in Messages : ~Trusted(m) /\ Len(history[m]) = 0
    BY <1>1 DEF Trusted
  <2>2. QED
    BY <2>1 DEF Stored, One
<1>9. NewUntouched /\ UnlistedUnstored
  BY <1>1, <1>7, <1>8 DEF NewUntouched, UnlistedUnstored, Messages
<1>10. SenderFirst /\ RoomForEdit
  BY <1>1, <1>7 DEF SenderFirst, RoomForEdit
<1>11. RoomForAll
  <2>1. \A m \in Messages : Stored(m) = 0 /\ noticed[m] = 0
    BY <1>1, <1>8
  <2>2. \A m \in Messages : One(Watched(m)) = 0 /\ One(Storing(m)) = 0
    BY <1>7 DEF One
  <2>3. QED
    BY <2>1, <2>2 DEF RoomForAll
<1>12. QED
  BY <1>4, <1>5, <1>6, <1>9, <1>10, <1>11 DEF StoreInv

LEMMA StoreInvariant == Spec => []StoreInv
<1>1. QED
  BY InitHasStoreInv, NextKeeps, PTL DEF Spec

\* The event is set exactly when no fetch is under way, as long as no fetch went
\* on without it (FetchMessageThreadSync, skype.c), and sendwatchers is the number
\* of threads that wait for Skype's word on a message (MessageSendWatchThread).
THEOREM MessageTypeCorrect == Spec => []MessageTypeOK
<1>1. StoreInv => MessageTypeOK
  <2> SUFFICES ASSUME StoreInv PROVE MessageTypeOK
    OBVIOUS
  <2>1. /\ event \in BOOLEAN /\ entry \in [Messages -> {"none", "plain", "edited"}]
        /\ history \in [Messages -> Seq(Nat)]
    BY DEF StoreInv, StoreTyped
  <2>2. ~slow => Cardinality(Inside) = IF event THEN 0 ELSE 1
    <3>1. CASE event
      BY <3>1, FS_EmptySet DEF StoreInv, Token
    <3>2. CASE ~event
      BY <3>2, FS_Singleton DEF StoreInv, Token
    <3>3. QED
      BY <3>1, <3>2
  <2>3. sendwatchers = Cardinality({m \in Own : watch[m] \in {"wait", "told"}})
    BY DEF StoreInv, Watchers, Waiting
  <2>4. QED
    BY <2>1, <2>2, <2>3 DEF MessageTypeOK
<1>2. QED
  BY StoreInvariant, <1>1, PTL

\* The history holds a message once, and once more for every edit at most,
\* however the threads that fetch and the one that sends interleave, if fetches
\* wait for each other (FetchMessageThreadSync and MsgList_FindMessage).
THEOREM StoredOnceEach == Spec => []StoredOnce
<1>1. StoreInv => StoredOnce
  <2> SUFFICES ASSUME StoreInv, ~slow, ~early, NEW m \in Messages
               PROVE  Len(history[m]) <= 1 + noticed[m] + (IF Trusted(m) THEN 1 ELSE 0)
    BY DEF StoredOnce
  <2>1. Stored(m) + One(Watched(m)) + One(Storing(m)) <= 1 + noticed[m]
    BY DEF StoreInv, RoomForAll, Orderly
  <2>2. Len(history[m]) \in Nat /\ noticed[m] \in Nat /\ One(Watched(m)) \in {0, 1} /\ One(Storing(m)) \in {0, 1}
    BY LenProperties DEF StoreInv, StoreTyped, One
  <2>3. Stored(m) \in Int
    BY StoredInt DEF StoreInv
  <2>4. Stored(m) <= 1 + noticed[m]
    BY <2>1, <2>2, <2>3
  <2>5. CASE Trusted(m)
    BY <2>2, <2>4, <2>5 DEF Stored, One
  <2>6. CASE ~Trusted(m)
    BY <2>2, <2>4, <2>6 DEF Stored, One
  <2>7. QED
    BY <2>5, <2>6
<1>2. QED
  BY StoreInvariant, <1>1, PTL

-----------------------------------------------------------------------------
(***************************************************************************)
(* Replies (SkypeReply).                                                   *)
(***************************************************************************)

USE ReplyAssumption

\* The part of the type invariant the proofs need.
Typed ==
    /\ receivers \in Int
    /\ pc \in [Req -> Place]
    /\ DOMAIN got = Req
    /\ expired \subseteq Timed
    /\ shutting \in BOOLEAN

\* SkypeFlush does not run before the shutdown.
FlushWaits == ~shutting => pc[Main] = "idle"

ReplyInv == Typed /\ FlushWaits /\ ReceiversCount /\ InfiniteWaits

\* The sets whose sizes the counter is compared with are finite.
LEMMA FiniteParts ==
    ASSUME NEW S, S \subseteq Req
    PROVE  IsFiniteSet(S) /\ Cardinality(S) \in Nat
BY FS_Subset, FS_CardinalityType

\* A step of one request changes the two sets by at most that request.
LEMMA OneMoves ==
    ASSUME Typed, NEW r \in Req, NEW p \in Place, Goto(r, p)
    PROVE  /\ pc' \in [Req -> Place]
           /\ pc'[r] = p
           /\ \A t \in Req : t # r => pc'[t] = pc[t]
           /\ Counted' = IF p \in {"wait", "woken", "leave"} THEN Counted \cup {r} ELSE Counted \ {r}
           /\ GaveUp' = IF p = "null" THEN GaveUp \cup {r} ELSE GaveUp \ {r}
<1>1. /\ pc' \in [Req -> Place]
      /\ pc'[r] = p
      /\ \A t \in Req : t # r => pc'[t] = pc[t]
  BY DEF Typed, Goto
<1>2. Counted' = IF p \in {"wait", "woken", "leave"} THEN Counted \cup {r} ELSE Counted \ {r}
  BY <1>1 DEF Counted
<1>3. GaveUp' = IF p = "null" THEN GaveUp \cup {r} ELSE GaveUp \ {r}
  BY <1>1 DEF GaveUp
<1>4. QED
  BY <1>1, <1>2, <1>3

\* The same, in numbers.
LEMMA OneCounts ==
    ASSUME Typed, NEW r \in Req, NEW p \in Place, Goto(r, p)
    PROVE  LET counts == p \in {"wait", "woken", "leave"} IN
           /\ Cardinality(Counted) \in Nat /\ Cardinality(Counted') \in Nat
           /\ Cardinality(GaveUp) \in Nat /\ Cardinality(GaveUp') \in Nat
           /\ Cardinality(Counted') = Cardinality(Counted)
                + (IF r \notin Counted /\ counts THEN 1 ELSE 0)
                - (IF r \in Counted /\ ~counts THEN 1 ELSE 0)
           /\ Cardinality(GaveUp') = Cardinality(GaveUp)
                + (IF r \notin GaveUp /\ p = "null" THEN 1 ELSE 0)
                - (IF r \in GaveUp /\ p # "null" THEN 1 ELSE 0)
<1>1. Counted \subseteq Req /\ GaveUp \subseteq Req
  BY DEF Counted, GaveUp
<1>2. /\ Counted' = IF p \in {"wait", "woken", "leave"} THEN Counted \cup {r} ELSE Counted \ {r}
      /\ GaveUp' = IF p = "null" THEN GaveUp \cup {r} ELSE GaveUp \ {r}
  BY OneMoves
<1>3. Counted' \subseteq Req /\ GaveUp' \subseteq Req
  BY <1>1, <1>2
<1>4. /\ Cardinality(Counted) \in Nat /\ Cardinality(Counted') \in Nat
      /\ Cardinality(GaveUp) \in Nat /\ Cardinality(GaveUp') \in Nat
      /\ IsFiniteSet(Counted) /\ IsFiniteSet(GaveUp)
  BY <1>1, <1>3, FiniteParts
<1>5. /\ Cardinality(Counted \cup {r}) = IF r \in Counted THEN Cardinality(Counted) ELSE Cardinality(Counted) + 1
      /\ Cardinality(Counted \ {r}) = IF r \in Counted THEN Cardinality(Counted) - 1 ELSE Cardinality(Counted)
      /\ Cardinality(GaveUp \cup {r}) = IF r \in GaveUp THEN Cardinality(GaveUp) ELSE Cardinality(GaveUp) + 1
      /\ Cardinality(GaveUp \ {r}) = IF r \in GaveUp THEN Cardinality(GaveUp) - 1 ELSE Cardinality(GaveUp)
  BY <1>4, FS_AddElement, FS_RemoveElement
<1>6. QED
  BY <1>2, <1>4, <1>5

-----------------------------------------------------------------------------
(* The steps of a request.                                                 *)

\* A search never touches the counter: whoever searches is not counted.
LEMMA ScanKeepsInv == ASSUME ReplyInv, NEW r \in Req, Scan(r) PROVE ReplyInv'
<1>1. /\ pc[r] = "scan" /\ Typed
      /\ UNCHANGED <<receivers, expired, shutting>>
  BY DEF Scan, ReplyInv
<1>2. CASE pc' = pc /\ got' = got
  BY <1>1, <1>2 DEF ReplyInv, Typed, FlushWaits, ReceiversCount, Counted, GaveUp, InfiniteWaits
<1>3. CASE Goto(r, "count") /\ got' = got
  <2>1. /\ pc' \in [Req -> Place] /\ pc'[r] = "count"
        /\ \A t \in Req : t # r => pc'[t] = pc[t]
    BY <1>1, <1>3, OneMoves DEF Place
  <2>2. Cardinality(Counted') = Cardinality(Counted) /\ Cardinality(GaveUp') = Cardinality(GaveUp)
    <3>1. r \notin Counted /\ r \notin GaveUp
      BY <1>1 DEF Counted, GaveUp
    <3>2. QED
      BY <1>1, <1>3, <3>1, OneCounts DEF Place
  <2>3. ReceiversCount'
    BY <1>1, <2>2 DEF ReplyInv, ReceiversCount
  <2>4. InfiniteWaits'
    BY <1>1, <1>3, <2>1 DEF ReplyInv, InfiniteWaits
  <2>5. QED
    BY <1>1, <1>3, <2>1, <2>3, <2>4 DEF ReplyInv, Typed, FlushWaits
<1>4. CASE /\ r # Main /\ Goto(r, "done")
           /\ \E i \in Found(r) : got' = [got EXCEPT ![r] = queue[i]]
  <2>1. /\ pc' \in [Req -> Place] /\ pc'[r] = "done"
        /\ \A t \in Req : t # r => pc'[t] = pc[t]
    BY <1>1, <1>4, OneMoves DEF Place
  <2>2. Cardinality(Counted') = Cardinality(Counted) /\ Cardinality(GaveUp') = Cardinality(GaveUp)
    <3>1. r \notin Counted /\ r \notin GaveUp
      BY <1>1 DEF Counted, GaveUp
    <3>2. QED
      BY <1>1, <1>4, <3>1, OneCounts DEF Place
  <2>3. ReceiversCount'
    BY <1>1, <2>2 DEF ReplyInv, ReceiversCount
  <2>4. PICK i \in Found(r) : got' = [got EXCEPT ![r] = queue[i]]
    BY <1>4
  <2>5. queue[i].kind = "error" \/ queue[i].to = r
    BY <1>4 DEF Found, Places, Asked, Acceptable
  <2>6. /\ DOMAIN got' = Req /\ got'[r] = queue[i]
        /\ \A t \in Req : t # r => got'[t] = got[t]
    BY <1>1, <2>4 DEF Typed
  <2>7. InfiniteWaits'
    BY <1>1, <2>1, <2>5, <2>6 DEF ReplyInv, InfiniteWaits
  <2>8. QED
    BY <1>1, <1>4, <2>1, <2>3, <2>6, <2>7 DEF ReplyInv, Typed, FlushWaits
<1>5. QED
  BY <1>2, <1>3, <1>4 DEF Scan, Take

\* A step of a waiting request that returns nothing: the counter follows it.
LEMMA StepKeepsInv ==
    ASSUME ReplyInv, NEW r \in Req, NEW p \in Place \ {"done", "null", "idle"}, Goto(r, p),
           pc[r] \notin {"idle", "null"}, receivers' \in Int,
           receivers' - receivers =
               (IF pc[r] \notin {"wait", "woken", "leave"} /\ p \in {"wait", "woken", "leave"} THEN 1 ELSE 0)
             - (IF pc[r] \in {"wait", "woken", "leave"} /\ p \notin {"wait", "woken", "leave"} THEN 1 ELSE 0),
           expired' \subseteq Timed, UNCHANGED <<got, shutting>>
    PROVE  ReplyInv'
<1>1. Typed
  BY DEF ReplyInv
<1>2. /\ pc' \in [Req -> Place] /\ pc'[r] = p
      /\ \A t \in Req : t # r => pc'[t] = pc[t]
  BY <1>1, OneMoves
<1>3. r \in Counted <=> pc[r] \in {"wait", "woken", "leave"}
  BY DEF Counted
<1>4. r \notin GaveUp
  BY DEF GaveUp
<1>5. /\ Cardinality(Counted) \in Nat /\ Cardinality(Counted') \in Nat
      /\ Cardinality(Counted') - Cardinality(Counted) = receivers' - receivers
      /\ Cardinality(GaveUp') = Cardinality(GaveUp) /\ Cardinality(GaveUp) \in Nat
  BY <1>1, <1>3, <1>4, OneCounts
<1>6. ReceiversCount'
  BY <1>1, <1>5 DEF ReplyInv, ReceiversCount, Typed
<1>7. InfiniteWaits'
  BY <1>2 DEF ReplyInv, InfiniteWaits
<1>8. FlushWaits'
  BY <1>2 DEF ReplyInv, FlushWaits
<1>9. QED
  BY <1>1, <1>2, <1>6, <1>7, <1>8 DEF ReplyInv, Typed

\* Counting, waiting and waking up keep the invariant.
LEMMA WaitKeepsInv ==
    ASSUME ReplyInv, NEW r \in Req, Count(r) \/ Wake(r) \/ TimeOut(r) \/ Leave(r)
    PROVE  ReplyInv'
<1>1. Typed
  BY DEF ReplyInv
<1>2. CASE Count(r)
  BY <1>1, <1>2, StepKeepsInv DEF Count, Typed, Place
<1>3. CASE Wake(r)
  BY <1>1, <1>3, StepKeepsInv DEF Wake, Typed, Place
<1>4. CASE TimeOut(r)
  BY <1>1, <1>4, StepKeepsInv DEF TimeOut, Typed, Place
<1>5. CASE Leave(r)
  BY <1>1, <1>5, StepKeepsInv DEF Leave, Discount, Uncount, Typed, Place
<1>6. QED
  BY <1>2, <1>3, <1>4, <1>5

\* Whoever finds receivers at one or below is not discounted, which leaves the
\* counter too high by one only if it was too low before.
LEMMA CheckKeepsInv == ASSUME ReplyInv, NEW r \in Req, Check(r) PROVE ReplyInv'
<1>1. /\ Typed /\ pc[r] = "woken" /\ UNCHANGED <<receivers, expired, got, shutting>>
  BY DEF ReplyInv, Check
<1>2. CASE receivers > 1
  BY <1>1, <1>2, StepKeepsInv DEF Check, Typed, Place
<1>3. CASE ~(receivers > 1)
  <2>1. Goto(r, "loop")
    BY <1>3 DEF Check
  <2>2. /\ pc' \in [Req -> Place] /\ pc'[r] = "loop"
        /\ \A t \in Req : t # r => pc'[t] = pc[t]
    BY <1>1, <2>1, OneMoves DEF Place
  <2>3. r \in Counted /\ r \notin GaveUp
    BY <1>1 DEF Counted, GaveUp
  <2>4. /\ Cardinality(Counted) \in Nat /\ Cardinality(Counted') \in Nat
        /\ Cardinality(Counted') = Cardinality(Counted) - 1
        /\ Cardinality(GaveUp') = Cardinality(GaveUp) /\ Cardinality(GaveUp) \in Nat
    BY <1>1, <2>1, <2>3, OneCounts DEF Place
  <2>5. ReceiversCount'
    BY <1>1, <1>3, <2>4 DEF ReplyInv, ReceiversCount, Typed
  <2>6. InfiniteWaits'
    BY <1>1, <2>2 DEF ReplyInv, InfiniteWaits
  <2>7. FlushWaits'
    BY <1>1, <2>2 DEF ReplyInv, FlushWaits
  <2>8. QED
    BY <1>1, <2>2, <2>5, <2>6, <2>7 DEF ReplyInv, Typed
<1>4. QED
  BY <1>2, <1>3

\* A request that returns NULL decrements once more than it incremented.
LEMMA LoopKeepsInv == ASSUME ReplyInv, NEW r \in Req, Loop(r) PROVE ReplyInv'
<1>1. /\ Typed /\ pc[r] = "loop" /\ UNCHANGED <<expired, got, shutting>>
  BY DEF ReplyInv, Loop
<1>2. CASE GoesOn(r)
  BY <1>1, <1>2, StepKeepsInv DEF Loop, Typed, Place
<1>3. CASE ~GoesOn(r)
  <2>1. Goto(r, "null") /\ receivers' = receivers - 1
    BY <1>3 DEF Loop, Uncount
  <2>2. /\ pc' \in [Req -> Place] /\ pc'[r] = "null"
        /\ \A t \in Req : t # r => pc'[t] = pc[t]
    BY <1>1, <2>1, OneMoves DEF Place
  <2>3. r \notin Counted /\ r \notin GaveUp
    BY <1>1 DEF Counted, GaveUp
  <2>4. /\ Cardinality(Counted) \in Nat /\ Cardinality(Counted') = Cardinality(Counted)
        /\ Cardinality(GaveUp') = Cardinality(GaveUp) + 1 /\ Cardinality(GaveUp) \in Nat
    BY <1>1, <2>1, <2>3, OneCounts DEF Place
  <2>5. ReceiversCount'
    BY <1>1, <2>1, <2>4 DEF ReplyInv, ReceiversCount, Typed
  <2>6. r \in Timed \/ shutting
    BY <1>1, <1>3 DEF GoesOn, Typed
  <2>7. InfiniteWaits'
    BY <1>1, <2>2, <2>6 DEF ReplyInv, InfiniteWaits
  <2>8. FlushWaits'
    BY <1>1, <2>2 DEF ReplyInv, FlushWaits
  <2>9. QED
    BY <1>1, <2>1, <2>2, <2>5, <2>7, <2>8 DEF ReplyInv, Typed
<1>4. QED
  BY <1>2, <1>3

-----------------------------------------------------------------------------
\* The start of a request, and of SkypeFlush at the shutdown.
LEMMA StartKeepsInv ==
    ASSUME ReplyInv, NEW r \in Req, Goto(r, "scan"), pc[r] = "idle",
           UNCHANGED <<receivers, expired, got>>, shutting' \in BOOLEAN,
           shutting => shutting', r # Main \/ shutting'
    PROVE  ReplyInv'
<1>1. Typed
  BY DEF ReplyInv
<1>2. /\ pc' \in [Req -> Place] /\ pc'[r] = "scan"
      /\ \A t \in Req : t # r => pc'[t] = pc[t]
  BY <1>1, OneMoves DEF Place
<1>3. r \notin Counted /\ r \notin GaveUp
  BY DEF Counted, GaveUp
<1>4. Cardinality(Counted') = Cardinality(Counted) /\ Cardinality(GaveUp') = Cardinality(GaveUp)
  BY <1>1, <1>3, OneCounts DEF Place
<1>5. ReceiversCount'
  BY <1>4 DEF ReplyInv, ReceiversCount
<1>6. InfiniteWaits'
  BY <1>2 DEF ReplyInv, InfiniteWaits
<1>7. FlushWaits'
  BY <1>2 DEF ReplyInv, FlushWaits
<1>8. QED
  BY <1>1, <1>2, <1>5, <1>6, <1>7 DEF ReplyInv, Typed

\* What the pump, the timer and Skype do leaves the requests alone.
LEMMA PumpKeepsInv ==
    ASSUME ReplyInv, UNCHANGED <<receivers, pc, expired, got, shutting>>
    PROVE  ReplyInv'
BY DEF ReplyInv, Typed, FlushWaits, ReceiversCount, Counted, GaveUp, InfiniteWaits

LEMMA NextKeepsInv == ReplyInv /\ [ReplyNext]_replyVars => ReplyInv'
<1> SUFFICES ASSUME ReplyInv, [ReplyNext]_replyVars PROVE ReplyInv'
  OBVIOUS
<1>1. ASSUME NEW r \in Req, Request(r) PROVE ReplyInv'
  BY <1>1, StartKeepsInv DEF Request, ReplyInv, Typed
<1>2. ASSUME NEW r \in Req, RequestStep(r) PROVE ReplyInv'
  BY <1>2, ScanKeepsInv, WaitKeepsInv, CheckKeepsInv, LoopKeepsInv DEF RequestStep
<1>3. ASSUME NEW r \in Req, Reply(r) PROVE ReplyInv'
  BY <1>3, PumpKeepsInv DEF Reply
<1>4. CASE PumpRelease \/ Timer \/ Unasked \/ SkypeMsgCleanup
  BY <1>4, PumpKeepsInv DEF PumpRelease, Timer, Unasked, SkypeMsgCleanup, CleanupAdd, CleanupRelease, CleanupExit
<1>5. CASE OkToExit
  <2>1. pc[Main] = "idle" /\ Main \in Req
    BY <1>5 DEF OkToExit, ReplyInv, FlushWaits
  <2>2. QED
    BY <1>5, <2>1, StartKeepsInv DEF OkToExit
<1>6. CASE UNCHANGED replyVars
  BY <1>6, PumpKeepsInv DEF replyVars
<1>7. QED
  BY <1>1, <1>2, <1>3, <1>4, <1>5, <1>6 DEF ReplyNext

LEMMA InitHasInv == ReplyInit => ReplyInv
<1> SUFFICES ASSUME ReplyInit PROVE ReplyInv
  OBVIOUS
<1>1. Counted = {} /\ GaveUp = {}
  BY DEF ReplyInit, Counted, GaveUp
<1>2. Cardinality({}) = 0
  BY FS_EmptySet
<1>3. ReceiversCount
  BY <1>1, <1>2 DEF ReplyInit, ReceiversCount
<1>4. Typed
  <2>1. receivers \in Int /\ expired \subseteq Timed /\ shutting \in BOOLEAN
    <3>1. receivers = 1 /\ expired = {}
      BY DEF ReplyInit
    <3>2. shutting \in BOOLEAN
      BY Zenon DEF ReplyInit
    <3>3. QED
      BY <3>1, <3>2
  <2>2. pc \in [Req -> Place]
    BY DEF ReplyInit, Place
  <2>3. DOMAIN got = Req
    BY DEF ReplyInit
  <2>4. QED
    BY <2>1, <2>2, <2>3 DEF Typed
<1>5. FlushWaits /\ InfiniteWaits
  BY DEF ReplyInit, FlushWaits, InfiniteWaits
<1>6. QED
  BY <1>3, <1>4, <1>5 DEF ReplyInv

LEMMA ReplyInvariant == ReplySpec => []ReplyInv
<1>1. QED
  BY InitHasInv, NextKeepsInv, PTL DEF ReplySpec

\* The counter `receivers', which decides how many threads a message wakes, is
\* never above the truth, and below it by at most one for every wait that ended
\* without a message (SkypeRcvTime, skypeapi.c).
THEOREM ReceiversCounted == ReplySpec => []ReceiversCount
<1>1. ReplyInv => ReceiversCount
  BY DEF ReplyInv
<1>2. QED
  BY ReplyInvariant, <1>1, PTL

\* A request without a time limit returns its own answer or an ERROR, and NULL
\* only when Miranda shuts down (SkypeRcvTime, skypeapi.c).
THEOREM InfiniteWaitsAnswered == ReplySpec => []InfiniteWaits
<1>1. ReplyInv => InfiniteWaits
  BY DEF ReplyInv
<1>2. QED
  BY ReplyInvariant, <1>1, PTL

-----------------------------------------------------------------------------
(* The types of everything, which rest on two facts about the lists: the    *)
(* queue is in the order its messages came in, so that the garbage is at its *)
(* head; and who waits is in the line of the semaphore.                      *)

OldestFirst == \A i, j \in DOMAIN queue : i <= j => queue[j].age <= queue[i].age
WaitersInLine == \A r \in Req : pc[r] = "wait" => \E i \in DOMAIN line : line[i] = r

ListInv == ReplyTypeOK /\ OldestFirst /\ WaitersInLine

\* What a list is after one of its elements was taken out.
LEMMA WithoutKeeps ==
    ASSUME NEW S, NEW s \in Seq(S), NEW i \in DOMAIN s
    PROVE  /\ Without(s, i) \in Seq(S)
           /\ DOMAIN Without(s, i) = 1..(Len(s) - 1)
           /\ \A j \in DOMAIN Without(s, i) :
                  Without(s, i)[j] = IF j < i THEN s[j] ELSE s[j + 1]
           /\ \A j \in DOMAIN s : j # i => \E k \in DOMAIN Without(s, i) : Without(s, i)[k] = s[j]
<1> DEFINE w == Without(s, i)
<1>1. /\ Len(s) \in Nat /\ DOMAIN s = 1..Len(s) /\ i \in 1..Len(s) /\ Len(s) - 1 \in Nat
      /\ \A j \in 1..Len(s) : s[j] \in S
  BY LenProperties, ElementOfSeq
<1>2. /\ DOMAIN w = 1..(Len(s) - 1)
      /\ \A j \in DOMAIN w : w[j] = IF j < i THEN s[j] ELSE s[j + 1]
  BY DEF Without
<1>3. w \in Seq(S)
  <2>1. \A j \in 1..(Len(s) - 1) : w[j] \in S
    BY <1>1, <1>2
  <2>2. w = [j \in 1..(Len(s) - 1) |-> w[j]]
    BY DEF Without
  <2> HIDE DEF w
  <2>3. QED
    BY <1>1, <2>1, <2>2, IsASeq
<1>4. ASSUME NEW j \in DOMAIN s, j # i PROVE \E k \in DOMAIN w : w[k] = s[j]
  <2>1. CASE j < i
    BY <1>1, <1>2, <2>1
  <2>2. CASE ~(j < i)
    <3>1. j - 1 \in DOMAIN w /\ ~(j - 1 < i) /\ (j - 1) + 1 = j
      BY <1>1, <1>2, <1>4, <2>2
    <3>2. QED
      BY <1>2, <3>1
  <2>3. QED
    BY <2>1, <2>2
<1>5. QED
  BY <1>2, <1>3, <1>4

\* A new message is the youngest of all.
LEMMA PumpAddKeeps ==
    ASSUME queue \in Seq(Message), OldestFirst, NEW m \in Message, m.age = 0, PumpAdd(m)
    PROVE  queue' \in Seq(Message) /\ OldestFirst'
<1>1. /\ queue' \in Seq(Message) /\ Len(queue') = Len(queue) + 1 /\ Len(queue) \in Nat
      /\ queue'[Len(queue) + 1] = m
      /\ \A i \in 1..Len(queue) : queue'[i] = queue[i]
  BY AppendProperties, LenProperties DEF PumpAdd
<1>2. DOMAIN queue = 1..Len(queue) /\ DOMAIN queue' = 1..(Len(queue) + 1)
  BY <1>1, LenProperties
<1>3. \A i \in DOMAIN queue : queue[i].age \in Nat
  <2>1. \A n \in Message : n.age \in Nat
    BY DEF Message
  <2>2. QED
    BY <2>1, ElementOfSeq, <1>2
<1>4. ASSUME NEW i \in DOMAIN queue', NEW j \in DOMAIN queue', i <= j
      PROVE  queue'[j].age <= queue'[i].age
  <2>1. CASE j \in 1..Len(queue)
    <3>1. i \in 1..Len(queue)
      BY <1>1, <1>2, <1>4, <2>1
    <3>2. QED
      BY <1>1, <1>2, <1>4, <2>1, <3>1 DEF OldestFirst
  <2>2. CASE j = Len(queue) + 1
    <3>1. queue'[j].age = 0
      BY <1>1, <2>2
    <3>2. queue'[i].age \in Nat
      BY <1>1, <1>2, <1>3
    <3>3. QED
      BY <3>1, <3>2
  <2>3. QED
    BY <1>1, <1>2, <2>1, <2>2
<1>5. QED
  BY <1>1, <1>4 DEF OldestFirst

\* Release never exceeds the maximum of the semaphore.
LEMMA ReleaseBounded ==
    ASSUME sem \in 0..MaxPermits, NEW n \in Int, Release(n) PROVE sem' \in 0..MaxPermits
BY DEF Release

LEMMA ScanKeepsLists == ASSUME ListInv, NEW r \in Req, Scan(r) PROVE ListInv'
<1>1. /\ pc[r] = "scan" /\ pc \in [Req -> Place] /\ queue \in Seq(Message)
      /\ got \in [Req -> Message \cup {Nothing}]
      /\ UNCHANGED <<line, receivers, sem, waited, expired, open, pump, shutting>>
  BY DEF Scan, ListInv, ReplyTypeOK
<1>2. /\ queue' \in Seq(Message) /\ OldestFirst'
      /\ got' \in [Req -> Message \cup {Nothing}]
  <2>1. CASE UNCHANGED <<queue, got>>
    BY <1>1, <2>1 DEF ListInv, OldestFirst
  <2>2. ASSUME NEW i \in Found(r), Take(r, i)
      PROVE  queue' \in Seq(Message) /\ OldestFirst' /\ got' \in [Req -> Message \cup {Nothing}]
    <3>1. i \in DOMAIN queue
      BY DEF Found, Places
    <3>2. /\ queue' \in Seq(Message) /\ DOMAIN queue' = 1..(Len(queue) - 1)
          /\ \A j \in DOMAIN queue' : queue'[j] = IF j < i THEN queue[j] ELSE queue[j + 1]
      BY <1>1, <2>2, <3>1, WithoutKeeps DEF Take
    <3>3. DOMAIN queue = 1..Len(queue) /\ Len(queue) \in Nat /\ queue[i] \in Message
      BY <1>1, <3>1, LenProperties, ElementOfSeq
    <3>4. OldestFirst'
      <4>1. ASSUME NEW j \in DOMAIN queue', NEW k \in DOMAIN queue', j <= k
            PROVE  queue'[k].age <= queue'[j].age
        <5>1. PICK a \in DOMAIN queue, b \in DOMAIN queue :
                  a <= b /\ queue'[j] = queue[a] /\ queue'[k] = queue[b]
          BY <3>1, <3>2, <3>3, <4>1
        <5>2. QED
          BY <5>1 DEF ListInv, OldestFirst
      <4>2. QED
        BY <4>1 DEF OldestFirst
    <3>5. got' \in [Req -> Message \cup {Nothing}]
      BY <1>1, <2>2, <3>3 DEF Take
    <3>6. QED
      BY <3>2, <3>4, <3>5
  <2>3. QED
    BY <2>1, <2>2 DEF Scan
<1>3. /\ pc' \in [Req -> Place] /\ pc'[r] # "wait"
      /\ \A t \in Req : t # r => pc'[t] = pc[t]
  <2>1. CASE pc' = pc
    BY <1>1, <2>1
  <2>2. CASE Goto(r, "done") \/ Goto(r, "count")
    BY <1>1, <2>2 DEF Goto, Place
  <2>3. QED
    BY <2>1, <2>2 DEF Scan, Take
<1>4. WaitersInLine'
  BY <1>1, <1>3 DEF ListInv, WaitersInLine
<1>5. QED
  BY <1>1, <1>2, <1>3, <1>4 DEF ListInv, ReplyTypeOK

LEMMA CountKeepsLists == ASSUME ListInv, NEW r \in Req, Count(r) PROVE ListInv'
<1>1. ReplyTypeOK /\ OldestFirst /\ WaitersInLine
  BY DEF ListInv
<1>2. /\ line' = Append(line, r) /\ receivers' = receivers + 1
      /\ UNCHANGED <<queue, sem, waited, expired, got, open, pump, shutting>>
  BY DEF Count
<1>3. /\ pc' \in [Req -> Place]
      /\ \A t \in Req : t # r => pc'[t] = pc[t]
  BY <1>1 DEF Count, Goto, ReplyTypeOK, Place
<1>4. /\ line' \in Seq(Req) /\ Len(line) \in Nat /\ DOMAIN line = 1..Len(line)
      /\ DOMAIN line' = 1..(Len(line) + 1) /\ line'[Len(line) + 1] = r
      /\ \A i \in 1..Len(line) : line'[i] = line[i]
  BY <1>1, <1>2, AppendProperties, LenProperties DEF ReplyTypeOK
<1>5. WaitersInLine'
  <2>1. ASSUME NEW t \in Req, pc'[t] = "wait" PROVE \E i \in DOMAIN line' : line'[i] = t
    <3>1. CASE t = r
      BY <1>4, <3>1
    <3>2. CASE t # r
      <4>1. PICK i \in DOMAIN line : line[i] = t
        BY <1>1, <1>3, <2>1, <3>2 DEF WaitersInLine
      <4>2. QED
        BY <1>4, <4>1
    <3>3. QED
      BY <3>1, <3>2
  <2>2. QED
    BY <2>1 DEF WaitersInLine
<1>6. QED
  BY <1>1, <1>2, <1>3, <1>4, <1>5 DEF ListInv, ReplyTypeOK, OldestFirst

LEMMA WakeKeepsLists == ASSUME ListInv, NEW r \in Req, Wake(r) PROVE ListInv'
<1>1. ReplyTypeOK /\ OldestFirst /\ WaitersInLine
  BY DEF ListInv
<1>2. /\ pc[r] = "wait" /\ sem > 0 /\ r = Head(line) /\ sem' = sem - 1 /\ line' = Tail(line)
      /\ UNCHANGED <<queue, receivers, waited, expired, got, open, pump, shutting>>
  BY DEF Wake
<1>3. /\ pc' \in [Req -> Place] /\ pc'[r] = "woken"
      /\ \A t \in Req : t # r => pc'[t] = pc[t]
  BY <1>1 DEF Wake, Goto, ReplyTypeOK, Place
<1>4. line \in Seq(Req) /\ line # <<>>
  <2>1. line \in Seq(Req)
    BY <1>1 DEF ReplyTypeOK
  <2>2. PICK i \in DOMAIN line : line[i] = r
    BY <1>1, <1>2 DEF WaitersInLine
  <2>3. QED
    BY <2>1, <2>2
<1>5. /\ line' \in Seq(Req) /\ Len(line) \in Nat /\ DOMAIN line = 1..Len(line)
      /\ DOMAIN line' = 1..(Len(line) - 1) /\ Head(line) = line[1]
      /\ \A i \in 1..(Len(line) - 1) : line'[i] = line[i + 1]
  BY <1>2, <1>4, HeadTailProperties, LenProperties
<1>6. WaitersInLine'
  <2>1. ASSUME NEW t \in Req, pc'[t] = "wait" PROVE \E i \in DOMAIN line' : line'[i] = t
    <3>1. t # r
      BY <1>3, <2>1
    <3>2. PICK i \in DOMAIN line : line[i] = t
      BY <1>1, <1>3, <2>1, <3>1 DEF WaitersInLine
    <3>3. i - 1 \in DOMAIN line' /\ (i - 1) + 1 = i
      BY <1>2, <1>5, <3>1, <3>2
    <3>4. QED
      BY <1>5, <3>2, <3>3
  <2>2. QED
    BY <2>1 DEF WaitersInLine
<1>7. sem' \in 0..MaxPermits
  BY <1>1, <1>2 DEF ReplyTypeOK
<1>8. QED
  BY <1>1, <1>2, <1>3, <1>5, <1>6, <1>7 DEF ListInv, ReplyTypeOK, OldestFirst

LEMMA TimeOutKeepsLists == ASSUME ListInv, NEW r \in Req, TimeOut(r) PROVE ListInv'
<1>1. ReplyTypeOK /\ OldestFirst /\ WaitersInLine
  BY DEF ListInv
<1>2. PICK i \in DOMAIN line : line[i] = r /\ line' = Without(line, i)
  BY DEF TimeOut
<1>3. /\ pc' \in [Req -> Place] /\ pc'[r] = "woken"
      /\ \A t \in Req : t # r => pc'[t] = pc[t]
  BY <1>1 DEF TimeOut, Goto, ReplyTypeOK, Place
<1>4. /\ line' \in Seq(Req)
      /\ \A j \in DOMAIN line : j # i => \E k \in DOMAIN line' : line'[k] = line[j]
  <2>1. line \in Seq(Req)
    BY <1>1 DEF ReplyTypeOK
  <2>2. QED
    BY <1>2, <2>1, WithoutKeeps
<1>5. WaitersInLine'
  BY <1>1, <1>2, <1>3, <1>4 DEF WaitersInLine
<1>6. /\ expired' \subseteq Timed
      /\ UNCHANGED <<queue, receivers, sem, waited, got, open, pump, shutting>>
  BY <1>1 DEF TimeOut, ReplyTypeOK
<1>7. QED
  BY <1>1, <1>3, <1>4, <1>5, <1>6 DEF ListInv, ReplyTypeOK, OldestFirst

\* Steps that change neither list.
LEMMA RestKeepsLists ==
    ASSUME ListInv, UNCHANGED <<queue, line, waited, expired, got>>,
           receivers' \in Int, sem' \in 0..MaxPermits, pc' \in [Req -> Place],
           \A r \in Req : pc'[r] = "wait" => pc[r] = "wait",
           open' \subseteq Req, pump' \in PumpPlace, shutting' \in BOOLEAN
    PROVE  ListInv'
BY DEF ListInv, ReplyTypeOK, OldestFirst, WaitersInLine

LEMMA StepKeepsLists == ASSUME ListInv, NEW r \in Req, RequestStep(r) PROVE ListInv'
<1>1. ReplyTypeOK
  BY DEF ListInv
<1>2. CASE Check(r) \/ Leave(r) \/ Loop(r)
  <2>1. /\ UNCHANGED <<queue, line, waited, expired, got, sem, open, pump, shutting>>
        /\ receivers' \in Int
    BY <1>1, <1>2 DEF Check, Leave, Loop, Discount, Uncount, ReplyTypeOK
  <2>2. \E p \in {"leave", "loop", "scan", "null"} : Goto(r, p)
    BY <1>2 DEF Check, Leave, Loop
  <2>3. /\ pc' \in [Req -> Place]
        /\ \A t \in Req : pc'[t] = "wait" => pc[t] = "wait"
    BY <1>1, <2>2 DEF Goto, ReplyTypeOK, Place
  <2>4. /\ sem' \in 0..MaxPermits /\ open' \subseteq Req /\ pump' \in PumpPlace /\ shutting' \in BOOLEAN
    BY <1>1, <2>1 DEF ReplyTypeOK
  <2>5. QED
    BY <2>1, <2>3, <2>4, RestKeepsLists
<1>3. QED
  BY <1>2, ScanKeepsLists, CountKeepsLists, WakeKeepsLists, TimeOutKeepsLists DEF RequestStep

\* What stays of the queue when the garbage is thrown out had not reached the
\* age limit, because what follows is younger.
LEMMA TimerKeepsLists == ASSUME ListInv, Timer PROVE ListInv'
<1>1. ReplyTypeOK /\ OldestFirst /\ WaitersInLine
  BY DEF ListInv
<1>2. /\ queue \in Seq(Message) /\ Len(queue) \in Nat /\ DOMAIN queue = 1..Len(queue)
      /\ \A i \in 1..Len(queue) : queue[i] \in Message
  BY <1>1, LenProperties, ElementOfSeq DEF ReplyTypeOK
<1>3. PICK n \in 0..Len(queue) :
          /\ n < Len(queue) => ~Garbage(queue[n + 1])
          /\ queue' = [i \in 1..(Len(queue) - n) |-> Older(queue[i + n])]
  BY DEF Timer
<1> DEFINE m == Len(queue) - n
<1>4. /\ m \in Nat /\ n \in Nat /\ DOMAIN queue' = 1..m
      /\ \A i \in 1..m : i + n \in 1..Len(queue) /\ queue'[i] = Older(queue[i + n])
  BY <1>2, <1>3
<1> HIDE DEF m
<1>5. ASSUME NEW i \in 1..m
      PROVE  /\ queue'[i] \in Message
             /\ queue'[i].age = queue[i + n].age + 1
  <2>1. i + n \in DOMAIN queue /\ n + 1 \in DOMAIN queue /\ n + 1 <= i + n /\ n < Len(queue)
    BY <1>2, <1>4 DEF m
  <2>2. queue[i + n].age <= queue[n + 1].age
    BY <1>1, <2>1 DEF OldestFirst
  <2>3. queue[n + 1].age # MaxAge
    BY <1>3, <2>1 DEF Garbage
  <2>4. queue[i + n] \in Message /\ queue[n + 1] \in Message
    BY <1>2, <2>1
  <2>5. queue[i + n].age + 1 \in 0..MaxAge
    <3>1. queue[i + n].age \in 0..MaxAge /\ queue[n + 1].age \in 0..MaxAge
      BY <2>4 DEF Message
    <3>2. \A a \in 0..MaxAge, b \in 0..MaxAge : a <= b /\ b # MaxAge => a + 1 \in 0..MaxAge
      OBVIOUS
    <3>3. QED
      BY ONLY <2>2, <2>3, <3>1, <3>2
  <2>6. QED
    BY <1>4, <2>4, <2>5 DEF Message, Older
<1>6. queue' \in Seq(Message)
  <2>1. \A i \in 1..m : queue'[i] \in Message
    BY <1>5
  <2>2. queue' = [i \in 1..m |-> queue'[i]]
    BY <1>3 DEF m
  <2>3. QED
    BY <1>4, <2>1, <2>2, IsASeq
<1>7. OldestFirst'
  <2>1. ASSUME NEW i \in 1..m, NEW j \in 1..m, i <= j PROVE queue'[j].age <= queue'[i].age
    <3>1. i + n \in DOMAIN queue /\ j + n \in DOMAIN queue /\ i + n <= j + n
      BY <1>2, <1>4, <2>1
    <3>2. queue[j + n].age <= queue[i + n].age
      BY <1>1, <3>1 DEF OldestFirst
    <3>3. queue[i + n].age \in Nat /\ queue[j + n].age \in Nat
      BY <1>2, <3>1 DEF Message
    <3>4. queue'[j].age = queue[j + n].age + 1 /\ queue'[i].age = queue[i + n].age + 1
      BY <1>5
    <3>5. QED
      BY ONLY <3>2, <3>3, <3>4
  <2>2. QED
    BY <1>4, <2>1 DEF OldestFirst
<1>8. waited' \in [Req -> 0..MaxAge]
  BY <1>1 DEF Timer, ReplyTypeOK
<1>9. UNCHANGED <<line, receivers, sem, pc, expired, got, open, pump, shutting>>
  BY DEF Timer
<1>10. QED
  BY <1>1, <1>6, <1>7, <1>8, <1>9 DEF ListInv, ReplyTypeOK, WaitersInLine

\* SkypeMsgCleanup adds one ERROR for each receiver.
LEMMA CleanupAddKeeps ==
    ASSUME queue \in Seq(Message), OldestFirst, NEW n \in Nat,
           queue' = queue \o [i \in 1..n |-> Blocked]
    PROVE  queue' \in Seq(Message) /\ OldestFirst'
<1>1. Blocked \in Message
  BY DEF Blocked, Message, Kind
<1>2. [i \in 1..n |-> Blocked] \in Seq(Message) /\ Len([i \in 1..n |-> Blocked]) = n
  BY <1>1, IsASeq
<1>3. /\ queue' \in Seq(Message) /\ Len(queue') = Len(queue) + n /\ Len(queue) \in Nat
      /\ \A i \in 1..Len(queue') : queue'[i] = IF i <= Len(queue) THEN queue[i] ELSE Blocked
  BY <1>2, ConcatProperties
<1>4. DOMAIN queue = 1..Len(queue) /\ DOMAIN queue' = 1..Len(queue')
  BY <1>3, LenProperties
<1>5. \A i \in DOMAIN queue : queue[i].age \in Nat
  <2>1. \A q \in Message : q.age \in Nat
    BY DEF Message
  <2>2. QED
    BY <2>1, ElementOfSeq, <1>4
<1>6. ASSUME NEW i \in DOMAIN queue', NEW j \in DOMAIN queue', i <= j
      PROVE  queue'[j].age <= queue'[i].age
  <2>1. CASE j <= Len(queue)
    <3>1. i \in DOMAIN queue /\ j \in DOMAIN queue
      BY <1>3, <1>4, <1>6, <2>1
    <3>2. QED
      BY <1>3, <1>4, <1>6, <2>1, <3>1 DEF OldestFirst
  <2>2. CASE ~(j <= Len(queue))
    <3>1. queue'[j].age = 0
      BY <1>3, <1>4, <2>2 DEF Blocked
    <3>2. queue'[i].age \in Nat
      BY <1>3, <1>4, <1>5 DEF Blocked
    <3>3. QED
      BY <3>1, <3>2
  <2>3. QED
    BY <2>1, <2>2
<1>7. QED
  BY <1>3, <1>6 DEF OldestFirst

\* The pump: a message is added, or threads are released, and the queue is
\* emptied in the end.
LEMMA PumpKeepsLists ==
    ASSUME ListInv, (\E r \in Req : Reply(r)) \/ PumpRelease \/ Unasked \/ SkypeMsgCleanup
    PROVE  ListInv'
<1> USE DEF SkypeMsgCleanup
<1>1. ReplyTypeOK /\ OldestFirst /\ WaitersInLine
  BY DEF ListInv
<1>2. UNCHANGED <<line, receivers, pc, waited, expired, got, shutting>>
  BY DEF Reply, PumpRelease, Unasked, CleanupAdd, CleanupRelease, CleanupExit
<1>3. queue' \in Seq(Message) /\ OldestFirst'
  <2>1. ASSUME NEW r \in Req, Reply(r) PROVE queue' \in Seq(Message) /\ OldestFirst'
    <3>1. PICK k \in Kind : PumpAdd([kind |-> k, to |-> r, age |-> 0])
      BY <2>1 DEF Reply
    <3>2. [kind |-> k, to |-> r, age |-> 0] \in Message
      BY DEF Message
    <3>3. QED
      BY <1>1, <3>1, <3>2, PumpAddKeeps DEF ReplyTypeOK
  <2>2. CASE Unasked
    <3>1. [kind |-> "other", to |-> Main, age |-> 0] \in Message
      BY DEF Message, Kind
    <3>2. PumpAdd([kind |-> "other", to |-> Main, age |-> 0])
      BY <2>2 DEF Unasked
    <3>3. QED
      BY <1>1, <3>1, <3>2, PumpAddKeeps DEF ReplyTypeOK
  <2>3. CASE UNCHANGED queue
    BY <1>1, <2>3 DEF ReplyTypeOK, OldestFirst
  <2>4. CASE CleanupAdd /\ receivers > 1
    <3>0. receivers \in Nat
      BY <1>1, <2>4 DEF ReplyTypeOK
    <3>1. receivers \in Nat /\ queue' = queue \o [i \in 1..receivers |-> Blocked]
      BY <2>4, <3>0, Zenon DEF CleanupAdd
    <3>2. QED
      BY <1>1, <3>1, CleanupAddKeeps DEF ReplyTypeOK
  <2>5. CASE CleanupExit
    BY <2>5 DEF CleanupExit, OldestFirst
  <2>6. QED
    BY <2>1, <2>2, <2>3, <2>4, <2>5 DEF PumpRelease, CleanupAdd, CleanupRelease
<1>4. sem' \in 0..MaxPermits
  BY <1>1, ReleaseBounded DEF Reply, PumpRelease, PostReceived, Unasked, CleanupAdd, CleanupRelease, CleanupExit, ReplyTypeOK
<1>5. pump' \in PumpPlace
  BY DEF Reply, PumpRelease, Unasked, PumpAdd, CleanupAdd, CleanupRelease, CleanupExit, PumpPlace
<1>6. open' \subseteq Req
  BY <1>1 DEF Reply, PumpRelease, Unasked, CleanupAdd, CleanupRelease, CleanupExit, ReplyTypeOK
<1>7. QED
  BY <1>1, <1>2, <1>3, <1>4, <1>5, <1>6 DEF ListInv, ReplyTypeOK, WaitersInLine

LEMMA NextKeepsLists == ListInv /\ [ReplyNext]_replyVars => ListInv'
<1> SUFFICES ASSUME ListInv, [ReplyNext]_replyVars PROVE ListInv'
  OBVIOUS
<1>1. ReplyTypeOK
  BY DEF ListInv
<1>2. ASSUME NEW r \in Req, Request(r) PROVE ListInv'
  <2>1. /\ pc' \in [Req -> Place]
        /\ \A t \in Req : pc'[t] = "wait" => pc[t] = "wait"
    BY <1>1, <1>2 DEF Request, Goto, ReplyTypeOK, Place
  <2>2. UNCHANGED <<queue, line, waited, expired, got, receivers, sem, pump, shutting>>
    BY <1>2 DEF Request
  <2>3. open' \subseteq Req
    BY <1>1, <1>2 DEF Request, ReplyTypeOK
  <2>4. QED
    BY <1>1, <2>1, <2>2, <2>3, RestKeepsLists DEF ReplyTypeOK
<1>3. CASE OkToExit
  <2>1. /\ pc' \in [Req -> Place]
        /\ \A t \in Req : pc'[t] = "wait" => pc[t] = "wait"
    BY <1>1, <1>3 DEF OkToExit, Goto, ReplyTypeOK, Place
  <2>2. UNCHANGED <<queue, line, waited, expired, got, receivers, open, pump>>
    BY <1>3 DEF OkToExit
  <2>3. sem' \in 0..MaxPermits
    BY <1>1, <1>3, ReleaseBounded DEF OkToExit, ReplyTypeOK
  <2>4. shutting' \in BOOLEAN
    BY <1>3 DEF OkToExit
  <2>5. QED
    BY <1>1, <2>1, <2>2, <2>3, <2>4, RestKeepsLists DEF ReplyTypeOK
<1>4. CASE UNCHANGED replyVars
  BY <1>4 DEF replyVars, ListInv, ReplyTypeOK, OldestFirst, WaitersInLine
<1>5. QED
  BY <1>2, <1>3, <1>4, StepKeepsLists, TimerKeepsLists, PumpKeepsLists DEF ReplyNext

LEMMA InitHasLists == ReplyInit => ListInv
<1> SUFFICES ASSUME ReplyInit PROVE ListInv
  OBVIOUS
<1>1. /\ queue = <<>> /\ line = <<>> /\ receivers = 1 /\ sem = 0 /\ expired = {} /\ open = {}
      /\ pump = "idle"
  BY DEF ReplyInit
<1>2. shutting \in BOOLEAN
  BY Zenon DEF ReplyInit
<1>3. /\ pc \in [Req -> Place] /\ \A r \in Req : pc[r] = "idle"
      /\ waited \in [Req -> 0..MaxAge] /\ got \in [Req -> Message \cup {Nothing}]
  BY DEF ReplyInit, Place
<1>4. QED
  BY <1>1, <1>2, <1>3 DEF ListInv, ReplyTypeOK, OldestFirst, WaitersInLine, PumpPlace

\* Everything keeps its type: what a request returns is a message of the queue,
\* and no message gets older than the garbage collector allows (SkypeRcvTime and
\* SkypeMsgCollectGarbage, skypeapi.c and msgq.c); and the semaphore never has
\* more permits than it was made for.
THEOREM ReplyTypeCorrect == ReplySpec => []ReplyTypeOK
<1>1. ListInv => ReplyTypeOK
  BY DEF ListInv
<1>2. QED
  BY InitHasLists, NextKeepsLists, <1>1, PTL DEF ReplySpec

=============================================================================
