------------------------------ MODULE HistoryKeeper ------------------------------
(* historykeeper reports changes of contacts: nickname, status, status message *)
(* and so on.  When a setting changes it waits some seconds, in the queue, and *)
(* then compares the setting with the value it saw last.  The status message   *)
(* is part of the status: if both change there is one notice.                  *)
EXTENDS ContactAsyncQueue

CONSTANTS Type,     \* what is tracked
          SubOf,    \* the type a type is part of, or None
          Wait,     \* how long a change of a type waits (opts[].ttw)
          Value,    \* values of the settings
          Nothing,  \* the value of a setting that is not there, or is empty
          Default,  \* what a type counts as while nothing is recorded
          Same,     \* the pairs of values of a type that count as equal
          AtLoad,   \* the settings a contact may have when the plugin is loaded
          TracksRemoves   \* types that can be removed, and the user asked to be told

ASSUME TypeAssumption ==
    /\ None \notin Type /\ None \notin Value
    /\ AtLoad \subseteq [Type -> Value]
    /\ Nothing \in Value /\ Default \in [Type -> Value] /\ TracksRemoves \subseteq Type
    /\ \A t \in Type, v \in Value : <<v, v>> \in Same[t]
    /\ SubOf \in [Type -> Type \cup {None}] /\ Wait \in [Type -> Delay]
    /\ \A t \in Type : SubOf[t] # None => SubOf[SubOf[t]] = None
    /\ \A s, t \in Type : SubOf[s] = SubOf[t] /\ SubOf[s] # None => s = t

VARIABLES
    value,      \* the settings of the contacts
    recorded,   \* the values seen last ("..._Current")
    hooks,      \* the change of which SettingChanged is still to be told
    todo,       \* the types the callback has still to track
    seen        \* the value TrackChange... has read, and will store

keeper == <<value, recorded, hooks, todo, seen>>
vars == <<queueVars, keeper>>

(* QueueData *)
Data(t, also) == [type |-> t, also |-> also]
ParentOf(t) == IF \E s \in Type : SubOf[s] = t THEN CHOOSE s \in Type : SubOf[s] = t ELSE None

(* The last item of contact c and type t, 0 if there is none. *)
Last(q, c, t) ==
    IF \E i \in 1..Len(q) : q[i].contact = c /\ q[i].param.type = t
    THEN CHOOSE i \in 1..Len(q) :
            /\ q[i].contact = c /\ q[i].param.type = t
            /\ \A j \in i + 1 .. Len(q) : ~(q[j].contact = c /\ q[j].param.type = t)
    ELSE 0
Drop(q, k) == IF k = 0 THEN q ELSE Without(q, k)

-----------------------------------------------------------------------------
(* Somebody writes a setting, and the database will tell its listeners. *)
Write(c, t, v) ==
    /\ owner = "none" /\ hooks = {} /\ added < MaxAdded
    /\ value[c][t] # v
    /\ value' = [value EXCEPT ![c][t] = v]
    /\ hooks' = {<<c, t>>}
    /\ UNCHANGED <<queueVars, recorded, todo, seen>>

(* A change of a part is reported with the change of the whole that waits. *)
JoinParent(c, t) == /\ queue' = [queue EXCEPT ![Last(queue, c, SubOf[t])].param.also = t]
                    /\ UNCHANGED <<event, added>>

(* The change of the whole replaces that of a part, and the change of a type   *)
(* that of the same type, which wait; they are reported with it.               *)
(* Bug: what was to be reported with the change that is replaced is forgotten. *)
AlsoPart(t, part, own, q) == IF part # 0 THEN ParentOf(t) ELSE None
Also(t, part, own, q) ==
    IF own # 0 /\ q[own].param.also # None THEN q[own].param.also
    ELSE IF part # 0 THEN ParentOf(t) ELSE None

(* Bug: the change of a part is left in the queue. *)
NoPart(c, t) == 0
Part(c, t) == IF ParentOf(t) = None THEN 0 ELSE Last(queue, c, ParentOf(t))
Replace(c, t) ==
    \E part \in {Part(c, t)} : \E rest \in {Drop(queue, part)} : \E own \in {Last(rest, c, t)} :
        \E q \in {Drop(rest, own)} :
            InternalAdd(q, c, Data(t, Also(t, part, own, rest)), Wait[t])

SettingChanged(c, t) ==
    /\ owner = "none" /\ <<c, t>> \in hooks
    /\ hooks' = hooks \ {<<c, t>>}
    /\ IF SubOf[t] # None /\ Last(queue, c, SubOf[t]) # 0 THEN JoinParent(c, t) ELSE Replace(c, t)
    /\ Ours /\ UNCHANGED <<value, recorded, todo, seen>>

-----------------------------------------------------------------------------
(* Process(), the callback: TrackChange... for one or two types, each of which *)
(* compares the setting with what is recorded and, after the notices, stores   *)
(* what it read.                                                               *)
Recorded(t, old) == IF old = Nothing THEN Default[t] ELSE old
Changed(t, new, old) == new # Nothing /\ <<new, Recorded(t, old)>> \notin Same[t]
Removed(new, old) == new = Nothing /\ old # Nothing
(* A removal nobody asked for is neither noticed nor recorded.                 *)
Noticed(t, new, old) == Changed(t, new, old) \/ (Removed(new, old) /\ t \in TracksRemoves)

Begin == /\ Take
         /\ LET d == queue[1].param IN
            todo' = IF d.also = None THEN <<d.type>> ELSE <<d.type, d.also>>
         /\ UNCHANGED <<value, recorded, hooks, seen>>

Differs(c, t) == Noticed(t, value[c][t], recorded[c][t])
TrackRead ==
    /\ place = "callback" /\ todo # <<>> /\ seen = None
    /\ \/ Differs(item.contact, Head(todo)) /\ seen' = value[item.contact][Head(todo)]
          /\ UNCHANGED todo
       \/ ~Differs(item.contact, Head(todo)) /\ todo' = Tail(todo) /\ UNCHANGED seen
    /\ UNCHANGED <<queueVars, value, recorded, hooks>>

(* Bug: what is to be reported with it is forgotten. *)
TrackOne == /\ seen # None /\ seen' = None
            /\ recorded' = [recorded EXCEPT ![item.contact][Head(todo)] = seen]
            /\ todo' = <<>>
            /\ UNCHANGED <<queueVars, value, hooks>>
TrackWrite == /\ seen # None /\ seen' = None
              /\ recorded' = [recorded EXCEPT ![item.contact][Head(todo)] = seen]
              /\ todo' = Tail(todo)
              /\ UNCHANGED <<queueVars, value, hooks>>

Finished == /\ todo = <<>> /\ Return /\ UNCHANGED keeper

(* PreShutdown runs where the hooks run, so no hook is under way. *)
PreShutdown == /\ hooks = {} /\ FinishMark /\ UNCHANGED keeper

-----------------------------------------------------------------------------
(* What changed before the plugin was loaded is found with the next change of  *)
(* the setting only; here there is nothing of the kind.                        *)
KeeperInit == /\ QueueInit
              /\ value \in [Contact -> AtLoad]
              /\ recorded \in [Contact -> [Type -> Value]]
              /\ \A c \in Contact, t \in Type : ~Differs(c, t)
              /\ hooks = {} /\ todo = <<>> /\ seen = None

Work == Begin \/ TrackRead \/ TrackWrite \/ Finished \/ (Resting /\ UNCHANGED keeper)
Changes == \E c \in Contact, t \in Type : (\E v \in Value : Write(c, t, v)) \/ SettingChanged(c, t)
Told == \E c \in Contact, t \in Type : SettingChanged(c, t)

KeeperNext == \/ Changes \/ Work \/ PreShutdown
              \/ Passing /\ UNCHANGED keeper

KeeperSpec == KeeperInit /\ [][KeeperNext]_vars
KeeperFairness == /\ WF_vars(Work) /\ WF_vars(Told)
                  /\ WF_vars(Passing /\ UNCHANGED keeper)
FairKeeperSpec == KeeperSpec /\ KeeperFairness

-----------------------------------------------------------------------------
Covers(d, t) == d.type = t \/ d.also = t

(* No change is forgotten: as long as the setting differs from the value seen  *)
(* last in a way that is to be noticed, an item waits for it, or the callback  *)
(* has still to read it, or the database has still to tell                     *)
(* (historykeeper.cpp 970-1036, 1072-1126, 1239-1259).                         *)
ToBeRead(c, t) ==
    /\ place = "callback" /\ item.contact = c
    /\ \E i \in 1..Len(todo) : todo[i] = t /\ (i = 1 /\ seen # None => seen = value[c][t])
ChangeCovered ==
    owner # "done" =>
        \A c \in Contact, t \in Type :
            Differs(c, t) =>
                \/ <<c, t>> \in hooks
                \/ ToBeRead(c, t)
                \/ \E i \in 1..Len(queue) : queue[i].contact = c /\ Covers(queue[i].param, t)

(* One notice for changes that come together: of a contact, no two items for a *)
(* type wait, and none for a part together with one for the whole.             *)
Family(t) == IF SubOf[t] = None THEN t ELSE SubOf[t]
OneNotice ==
    \A i, j \in 1..Len(queue) :
        /\ queue[i].contact = queue[j].contact
        /\ Family(queue[i].param.type) = Family(queue[j].param.type)
        => i = j

(* When no more settings change, every change has been noticed in the end.     *)
AllRecorded == <>[](owner = "none" => \A c \in Contact, t \in Type : ~Differs(c, t))
=============================================================================
