--------------------------------- MODULE GChat ---------------------------------
(* skype/gchat.c: the members of one group chat.  Skype tells about every      *)
(* change with the new list, each message is worked on by a thread of its own  *)
(* (AddMembers), and the user or others may kick members (KickUser, and the    *)
(* KICKED message in skype.c).  All but the last one hold m_GCMutex.           *)
(*                                                                             *)
(* The code between two calls of Skype, of the chat window or of EnterCritical-*)
(* Section is one step.  The chat stays in the list of chats.                  *)
EXTENDS Naturals, FiniteSets, Sequences, SequencesExt

CONSTANTS Member,      \* without the user himself, who is not in the list
          Updater,     \* threads of AddMembers; as many messages are sent
          Fetcher,     \* threads that fetch a KICKED message
          None, Main

ASSUME ThreadAssumption == None \notin Member /\ Main \notin Updater /\ None \notin Updater \cup {Main}

VARIABLES
    skype,      \* the members, as Skype knows them
    roles,      \* protocol >= 7: members are asked for one by one
    joined,     \* mJoinedContacts
    window,     \* the members the chat window shows
    mutex,      \* who is inside m_GCMutex
    update,     \* the threads of AddMembers
    kick,       \* the main thread in KickUser
    fetch,      \* the threads with a KICKED message
    raced,      \* history: a fetcher worked while somebody was inside m_GCMutex,
                \* or after the one who was kicked had come back
    spoilt      \* history: an update could not do its work

vars == <<skype, roles, joined, window, mutex, update, kick, fetch, raced, spoilt>>

Idle == [at |-> "idle", list |-> {}, left |-> {}, objects |-> FALSE,
         mask |-> <<>>, i |-> 0, who |-> None, exact |-> TRUE]
Index(m) == IF \E k \in DOMAIN joined : joined[k] = m
            THEN CHOOSE k \in DOMAIN joined : joined[k] = m ELSE 0
Cleared == [k \in DOMAIN joined |-> FALSE]
(* Bug: the mask does not grow with the list. *)
MarkedShort(mask, list, i) == [k \in DOMAIN mask |-> k = i \/ mask[k]]
(* realloc(contactmask, mJoinedCount), and contactmask[i] = TRUE *)
Marked(mask, list, i) ==
    [k \in DOMAIN list |-> k = i \/ (k \in DOMAIN mask /\ mask[k])]
RemChatContact(list, k) == IF k \in DOMAIN list THEN RemoveAt(list, k) ELSE list

Unmarked(u, from) ==
    {k \in from .. Len(joined) : ~(k \in DOMAIN update[u].mask /\ update[u].mask[k])}

Set(u, t) == update' = [update EXCEPT ![u] = t]
Spoil(b) == spoilt' = (spoilt \/ b)

-----------------------------------------------------------------------------
(* Skype: a member comes or goes, and the MEMBERS message starts a thread.     *)
Tell(members) == \E u \in Updater :
    /\ update[u].at = "idle"
    /\ Set(u, [Idle EXCEPT !.at = "enter", !.list = members])
    /\ skype' = members

Comes(m) == /\ m \notin skype /\ Tell(skype \cup {m})
            /\ UNCHANGED <<roles, joined, window, mutex, kick, fetch, raced, spoilt>>
Goes(m) == /\ m \in skype /\ Tell(skype \ {m})
           /\ UNCHANGED <<roles, joined, window, mutex, kick, fetch, raced, spoilt>>
IsKicked(m) == /\ m \in skype /\ Tell(skype \ {m})
               /\ \E f \in Fetcher : /\ fetch[f] = <<"idle", None>>
                                     /\ fetch' = [fetch EXCEPT ![f] = <<"event", m>>]
               /\ UNCHANGED <<roles, joined, window, mutex, kick, raced, spoilt>>

-----------------------------------------------------------------------------
(* AddMembers *)
At(u, place) == update[u].at = place
Unlocked == \E f \in Fetcher : fetch[f][1] = "remove"
Others == UNCHANGED <<skype, roles, kick, fetch, raced>>

(* Bug: nobody waits for m_GCMutex. *)
EnterUnlocked(u) ==
    /\ At(u, "enter") /\ mutex' = u
    /\ Set(u, [update[u] EXCEPT !.at = IF roles THEN "fetch" ELSE "next",
                                !.left = update[u].list, !.mask = Cleared])
    /\ raced' = (raced \/ Unlocked)
    /\ UNCHANGED <<skype, roles, joined, window, kick, fetch, spoilt>>
Enter(u) ==
    /\ At(u, "enter") /\ mutex = None /\ mutex' = u
    /\ Set(u, [update[u] EXCEPT !.at = IF roles THEN "fetch" ELSE "next",
                                !.left = update[u].list, !.mask = Cleared])
    /\ raced' = (raced \/ Unlocked)
    /\ UNCHANGED <<skype, roles, joined, window, kick, fetch, spoilt>>

(* Bug: the members of the message, instead of those of now. *)
FetchTold(u) ==
    /\ At(u, "fetch")
    /\ Set(u, [update[u] EXCEPT !.at = "next", !.objects = TRUE, !.mask = Cleared])
    /\ Others /\ UNCHANGED <<joined, window, mutex, spoilt>>
(* MEMBEROBJECTS are the members of now; without an answer those of the message *)
Fetch(u) ==
    /\ At(u, "fetch")
    /\ \/ Set(u, [update[u] EXCEPT !.at = "next", !.objects = TRUE, !.list = skype,
                                   !.left = skype, !.mask = Cleared]) /\ Spoil(FALSE)
       \/ Set(u, [update[u] EXCEPT !.at = "next", !.mask = Cleared]) /\ Spoil(TRUE)
    /\ Others /\ UNCHANGED <<joined, window, mutex>>

(* The next member has no IDENTITY. *)
Skip(u) == \E m \in update[u].left :
    /\ At(u, "next") /\ update[u].objects
    /\ Set(u, [update[u] EXCEPT !.left = @ \ {m}, !.exact = FALSE])
    /\ Spoil(TRUE) /\ Others /\ UNCHANGED <<joined, window, mutex>>

(* AddChatContact of one who is in the list already. *)
Known(u) == \E m \in update[u].left :
    /\ At(u, "next") /\ Index(m) # 0
    /\ Set(u, [update[u] EXCEPT !.left = @ \ {m}, !.mask = Marked(@, joined, Index(m))])
    /\ Others /\ UNCHANGED <<joined, window, mutex, spoilt>>

(* AddChatContact of another one: GC_EVENT_JOIN, which may fail. *)
Join(u) == \E m \in update[u].left :
    /\ At(u, "next") /\ Index(m) = 0
    /\ window' = window \cup {m}
    /\ Set(u, [update[u] EXCEPT !.left = @ \ {m}, !.at = "append", !.who = m])
    /\ Others /\ UNCHANGED <<joined, mutex, spoilt>>
(* It returns -1: with roles contactmask[-1] is written, else the thread stops. *)
JoinFails(u) == \E m \in update[u].left :
    /\ At(u, "next") /\ Index(m) = 0
    /\ Set(u, [update[u] EXCEPT !.left = @ \ {m}, !.exact = FALSE,
                  !.at = IF update[u].objects THEN "next" ELSE "leave",
                  !.mask = Marked(@, joined, 0)])
    /\ Spoil(TRUE) /\ Others /\ UNCHANGED <<joined, window, mutex>>

(* Bug: the new one is not marked. *)
AppendUnmarked(u) ==
    /\ At(u, "append") /\ joined' = Append(joined, update[u].who)
    /\ Set(u, [update[u] EXCEPT !.at = "next", !.mask = Marked(@, joined', 0)])
    /\ Others /\ UNCHANGED <<window, mutex, spoilt>>
AppendMember(u) ==
    /\ At(u, "append") /\ joined' = Append(joined, update[u].who)
    /\ Set(u, [update[u] EXCEPT !.at = "next", !.mask = Marked(@, joined', Len(joined'))])
    /\ Others /\ UNCHANGED <<window, mutex, spoilt>>

(* All members are marked; those who are not are to quit. *)
Sweep(u) ==
    /\ At(u, "next") /\ update[u].left = {}
    /\ \E many \in {Cardinality(Unmarked(u, 1)) > 1} :
          /\ Set(u, [update[u] EXCEPT !.at = "sweep", !.i = 1, !.exact = @ /\ ~many])
          /\ Spoil(many)
    /\ Others /\ UNCHANGED <<joined, window, mutex>>

(* GC_EVENT_QUIT of the next one who is not marked, or the end of the loop. *)
Quit(u) ==
    /\ At(u, "sweep") /\ \E k \in Unmarked(u, update[u].i) :
          /\ \A n \in Unmarked(u, update[u].i) : k <= n
          /\ window' = window \ {joined[k]}
          /\ Set(u, [update[u] EXCEPT !.at = "remove", !.i = k])
    /\ Others /\ UNCHANGED <<joined, mutex, spoilt>>
(* The mask is not shifted with the list. *)
QuitRemove(u) ==
    /\ At(u, "remove") /\ joined' = RemChatContact(joined, update[u].i)
    /\ Set(u, [update[u] EXCEPT !.at = "sweep", !.i = @ + 1])
    /\ Others /\ UNCHANGED <<window, mutex, spoilt>>
Swept(u) == /\ At(u, "sweep") /\ Unmarked(u, update[u].i) = {}
            /\ Set(u, [update[u] EXCEPT !.at = "leave"])
            /\ Others /\ UNCHANGED <<joined, window, mutex, spoilt>>
Leave(u) == /\ At(u, "leave") /\ mutex' = None
            /\ Set(u, [Idle EXCEPT !.at = "done"])
            /\ Others /\ UNCHANGED <<joined, window, spoilt>>

-----------------------------------------------------------------------------
(* KickUser, in the main thread: ALTER CHAT KICK, and 2 s for the answer. *)
KickAsk(m) == /\ kick = <<"idle", None>> /\ mutex = None
              /\ mutex' = Main /\ kick' = <<"asked", m>>
              /\ raced' = (raced \/ Unlocked)
              /\ UNCHANGED <<skype, roles, joined, window, update, fetch, spoilt>>
KickAnswer == /\ kick[1] = "asked" /\ kick[2] \in skype
              /\ Tell(skype \ {kick[2]}) /\ kick' = <<"answered", kick[2]>>
              /\ UNCHANGED <<roles, joined, window, mutex, fetch, raced, spoilt>>
KickEvent == /\ kick[1] = "answered" /\ kick' = <<"remove", kick[2]>>
             /\ window' = window \ {kick[2]}
             /\ UNCHANGED <<skype, roles, joined, mutex, update, fetch, raced, spoilt>>
(* Bug: he is left in the list. *)
KickForget == /\ kick[1] = "remove" /\ kick' = <<"done", None>> /\ mutex' = None
              /\ UNCHANGED <<skype, roles, joined, window, update, fetch, raced, spoilt>>
KickRemove == /\ kick[1] = "remove" /\ kick' = <<"done", None>> /\ mutex' = None
              /\ joined' = RemChatContact(joined, Index(kick[2]))
              /\ UNCHANGED <<skype, roles, window, update, fetch, raced, spoilt>>
(* No answer, an ERROR, or no name of the user in the database. *)
KickGiveUp == /\ kick[1] \in {"asked", "answered"} /\ kick' = <<"done", None>> /\ mutex' = None
              /\ UNCHANGED <<skype, roles, joined, window, update, fetch, raced, spoilt>>

(* A KICKED message (skype.c), without m_GCMutex. *)
KickedEvent(f) == /\ fetch[f][1] = "event"
                  /\ fetch' = [fetch EXCEPT ![f] = <<"remove", @[2]>>]
                  /\ window' = window \ {fetch[f][2]}
                  /\ raced' = (raced \/ mutex # None \/ fetch[f][2] \in skype)
                  /\ UNCHANGED <<skype, roles, joined, mutex, update, kick, spoilt>>
KickedRemove(f) == /\ fetch[f][1] = "remove"
                   /\ fetch' = [fetch EXCEPT ![f] = <<"done", None>>]
                   /\ joined' = RemChatContact(joined, Index(fetch[f][2]))
                   /\ UNCHANGED <<skype, roles, window, mutex, update, kick, raced, spoilt>>

-----------------------------------------------------------------------------
(* ChatInit has asked for the members. *)
Init == /\ skype \in SUBSET Member /\ roles \in BOOLEAN
        /\ joined = <<>> /\ window = {} /\ mutex = None
        /\ \E u \in Updater : update = [v \in Updater |->
               IF v = u THEN [Idle EXCEPT !.at = "enter", !.list = skype] ELSE Idle]
        /\ kick = <<"idle", None>> /\ fetch = [f \in Fetcher |-> <<"idle", None>>]
        /\ raced = FALSE /\ spoilt = FALSE

SkypeStep == \E m \in Member : Comes(m) \/ Goes(m) \/ IsKicked(m)
UpdateStep(u) == \/ Enter(u) \/ Fetch(u) \/ Skip(u) \/ Known(u) \/ Join(u) \/ JoinFails(u)
                 \/ AppendMember(u) \/ Sweep(u) \/ Quit(u) \/ QuitRemove(u) \/ Swept(u) \/ Leave(u)
KickEnds == KickEvent \/ KickRemove \/ KickGiveUp
FetchStep(f) == KickedEvent(f) \/ KickedRemove(f)

Next == \/ SkypeStep
        \/ \E u \in Updater : UpdateStep(u)
        \/ \E m \in Member : KickAsk(m)
        \/ KickAnswer \/ KickEnds
        \/ \E f \in Fetcher : FetchStep(f)

Spec == Init /\ [][Next]_vars
FairSpec == /\ Spec /\ WF_vars(KickEnds)
            /\ \A u \in Updater : WF_vars(UpdateStep(u))
            /\ \A f \in Fetcher : WF_vars(FetchStep(f))

-----------------------------------------------------------------------------
GChatTypeOK ==
    /\ skype \subseteq Member /\ roles \in BOOLEAN
    /\ joined \in Seq(Member) /\ window \subseteq Member
    /\ mutex \in Updater \cup {Main, None}
    /\ \A u \in Updater :
          /\ update[u].list \subseteq Member /\ update[u].left \subseteq update[u].list
          /\ update[u].at \in {"sweep", "remove"} => Len(joined) <= Len(update[u].mask)
    /\ raced \in BOOLEAN /\ spoilt \in BOOLEAN

(* Nobody is in the list twice, whatever threads work on it: only a thread     *)
(* inside m_GCMutex adds, and looks before it does (gchat.c 122-172).          *)
NoDuplicate == \A i, j \in DOMAIN joined : joined[i] = joined[j] => i = j

(* Those of whom the window has been told and the list not yet.                *)
Halfway == {update[u].who : u \in {v \in Updater : update[v].at = "append"}}
       \cup {joined[update[u].i] : u \in {v \in Updater :
                update[v].at = "remove" /\ update[v].i \in DOMAIN joined}}
       \cup {kick[2] : k \in {n \in {1} : kick[1] = "remove"}}
       \cup {fetch[f][2] : f \in {g \in Fetcher : fetch[g][1] = "remove"}}
(* The window shows those who are in the list, unless a KICKED message came    *)
(* between, whose handler does not take m_GCMutex (skype.c 1125-1126).         *)
WindowAgrees == ~raced => \A m \in Member \ Halfway : m \in window <=> m \in ToSet(joined)

(* An update that was not disturbed leaves those in the list whom Skype named, *)
(* if no more than one had left (gchat.c 234-350).                             *)
UpdateExact ==
    [][\A u \in Updater : Swept(u) /\ update[u].exact /\ ~raced /\ mutex' = u =>
          ToSet(joined) = update[u].list]_vars

(* With roles, it does not matter in which order the threads enter m_GCMutex:  *)
(* the list is Skype's in the end.  (Without them an old message may be last.) *)
Converges == <>[](roles /\ ~raced /\ ~spoilt => ToSet(joined) = skype)

(* What gchat.c:302 says of the loop at its end: "Quit contacts which are no   *)
(* longer there".                                                              *)
QuitGone ==
    [][\A u \in Updater : Swept(u) /\ ~raced => ToSet(joined) \subseteq update[u].list]_vars
=============================================================================
