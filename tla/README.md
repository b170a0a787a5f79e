# Formal models of mgoodies-skype

This directory holds TLA+ models of the parts of the repository that have a
protocol of their own: the Skype plugin for Miranda (`skype`), the database
driver `dbx_tree`, the mail checker `yamn`, and `historykeeper` with the queue
of `utils` it works from. TLC checks the models on small instances; TLAPS proves
theorems about them for every value of the constants.

`PROJECT.json` is the index: which definition models which lines, which run
checks which property, which theorem proves what.

1. [The system](#1-the-system)
2. [The modules](#2-the-modules)
3. [Runs and bounds](#3-runs-and-bounds)
4. [Fairness](#4-fairness)
5. [Proofs](#5-proofs)
6. [Disagreements found](#6-disagreements-found)
7. [What is not modelled](#7-what-is-not-modelled)
8. [Plan](#8-plan)

## 1. The system

The repository is a collection of some sixty plugins for the Miranda instant
messenger. A plugin is a DLL in Miranda's process. Miranda calls it from its
main thread, through services and hooks; the plugin starts threads of its own,
and all of them share the plugin's globals and Miranda's database. So the hard
questions are those of shared memory: who holds which lock, who waits for whom,
which pointer or setting is still good when it is used.

Most plugins are a dialog or a hook each. The ones with a protocol of their own
are these.

### skype (`skype/src`)

Drives the Skype client by text commands sent as window messages. One thread,
the message pump, receives everything Skype says; every other thread sends a
command and looks for the reply in a queue.

| Part | State | Operations | What makes it correct |
|---|---|---|---|
| Call tracking (`skype.c`, `skypeapi.c`) | the settings `CallId`, `OnHold`, `SkypeOutNr` of a contact; `RingAndEndcallMutex` | a thread per `CALL n STATUS s`; the call, hang-up and hold services; the dial dialog | a `CallId` belongs to a running call of that contact, is not overwritten, is removed with the call; contacts of the list are never deleted; the mutex is given back |
| Replies (`skypeapi.c`, `msgq.c`) | `SkypeMsgs`, `receivers`, the semaphore `SkypeMsgReceived` | `SkypeRcvTime`, `__SkypeGet`, the pump's `SkypeMsgAdd` and release, the timer's garbage collector, `OkToExit`, `SkypeMsgCleanup` | a request returns with its reply, none is lost, shutdown ends all waits |
| Dispatch (`skype.c`) | the window procedure | starts threads for messages of Skype | every message is handled once |
| Messages (`skype.c`, `msglist.c`) | `rcvwatchers`, `sendwatchers`, `MsgList`, a fetch mutex | fetching, sending and watching messages | each message is delivered once and in order |
| Sending (`skypeapi.c`, `msgq.c`) | the send queue, one formatting buffer | `SkypeSend`, `sendThread`, `rcvThread` | commands arrive whole and in order |
| Connection (`skypeapi.c`, `skype.c`) | attach status, process handle | launch, attach, reconnect, close | the plugin ends in a defined state |
| Group chats (`gchat.c`) | the list of chats and of their members, `m_GCMutex` | `AddMembers`, `KickUser`, `KillChatSession` | the member list is Skype's |
| File transfers (`filexfer.c`) | state per transfer | status messages | monotone states |
| Sorted list (`memlist.c`) | an array of pointers | add, remove, find | sorted, no element twice |
| `skypeproxy` | a list of sockets | lends a Skype client over TCP | replies go to who asked |

The parts interact through the queue of replies (everybody), the database
settings (calls, chats, contacts), the counters of watchers (dispatch and
messages) and window messages.

### dbx_tree (`dbx_tree`)

A database in one file. `MREWSync.cpp` is the lock that guards everything else;
`BlockManager.cpp` and `FileAccess.cpp` keep blocks, a cache and a journal with
transactions; `BTree.h`/`FileBTree.h` are the trees; `Settings.cpp`,
`Events.cpp` and `Entities.cpp` are Miranda's database services on top. The lock
must exclude, must not starve and must tell an upgrading reader honestly whether
its data is stale. A transaction must survive a crash whole or not at all.

### yamn (`yamn`)

Checks mailboxes. A protocol plugin (POP3) has a list of accounts. A timer, a
hot key and the user start threads that check an account; these start windows
with threads of their own. `synchro.cpp` gives a read/write lock with a stop
event and a counter of threads; each account has two locks and a counter, and
the list has a lock. An account must not be freed while a thread can use it,
must be freed in the end, and Miranda must be able to exit.

### imo2sproxy (`imo2sproxy`)

Stands in for Skype by talking to the web service imo.im: queues, lists, a
client of the service and an emulation of the Skype API.

### smaller ones

`utils/ContactAsyncQueue.cpp` (delayed work per contact, one thread) and
`smr/poll.cpp` (a delayed queue of requests with pauses) are small and
concurrent. JGmail, siprtc, jingle, spellchecker, voiceservice, eSpeak and
sslservice wrap third-party code. The history, notification, status and view
plugins react to one event each.

### Behaviours that are hard

* Order: one thread per message of Skype, so messages are handled in any order.
* Waiting: a wake-up lost between looking and waiting; counters that count wrong.
* Time: a time limit that races the answer; a garbage collector by age.
* Shutdown: everybody who waits must be let go, with locks held by others.
* Lifetime: a contact, an account or a chat that is deleted under a thread.
* Failure: an ERROR meant for somebody else, a failed dial, a failed connection.
* Crashes: of Skype (reconnect) and of the process (journal).

`PROJECT.json` lists these hazards at their lines, with the properties that
would catch each.

## 2. The modules

| Module | Models | Proofs |
|---|---|---|
| `SkypeCall` | call tracking of the Skype plugin | `HandlerProofs` |
| `SkypeReply` | waiting for Skype's replies | `SkypeProofs` |
| `RWLock` | what a read/write lock promises (abstract) | |
| `MREWSync` | the lock of dbx_tree, implements `RWLock` | `DbxFileProofs` |
| `SWMRG` | the lock of YAMN, implements `RWLock` | `SWMRGProofs` |
| `YamnAccount` | the life of a YAMN account and of the threads that use it | `YamnAccountProofs` |
| `SkypeMessage` | fetching, listing, sending and editing of messages | `SkypeProofs` |
| `GChat` | the members of a group chat | `GChatProofs` |
| `AtomicStore` | what a journalled file promises (abstract) | |
| `BlockManager` | blocks, journal and recovery of dbx_tree, implements `AtomicStore` | `DbxFileProofs` |
| `OrderedSet` | what a tree of keys promises (abstract) | |
| `BTree` | the balanced tree of dbx_tree, implements `OrderedSet` | `BTreeProofs`, `BTreeIteratorProofs` |
| `ContactAsyncQueue` | the delayed queue of `utils` and its thread | |
| `HistoryKeeper` | tracking of changes, on `ContactAsyncQueue` | `HandlerProofs` |

`MC...` modules and their `.cfg` files instantiate them for TLC.

In all of them a thread is a program counter `pc[t]` whose values name the
places between the calls at which another thread may interfere: a wait, a
database or window call, an access to a shared variable. What lies between two
such places is one action. Definitions next to an operator that differ from it
in one detail and are used nowhere (`AnyReader` next to `LastReader`) are
plausible mistakes; `PROJECT.json` names them as mutants, each of which breaks
a property.

### SkypeCall

One thread per status message. `CallStatus` is Skype moving a call on and
`WndProc` starting the thread; `RingEnter`, `RingFind`, `RingSave` and `RingType`
are `RingThread` (enter the critical section; ask for the caller and look whether
it has a `CallId`; store one; ask for the type and leave), `EndEnter`, `EndClear`
and `EndDelete` are `EndCallThread` (enter; find the contact and remove its
`CallId`; delete a temporary contact and leave), `HoldCall` and `ResumeCall` the
two threads without a lock. `SkypeCall`, `SkypeCallHangup`, `SkypeHoldCall`,
`SkypeOutHangup` are the services of the main thread. `OpenDial` is `SkypeOutCall`
opening a dial dialog, which is where `CallId` is looked at; `Dial` is IDDIAL up to
the blocking call in which it waits for an ERROR, `DialDone` and `DialFailed` what
comes after, `CloseDial` a dialog that is closed. Several dialogs may be open; they
share the static `hContact` (`dialFor`), as in the code, so each dials for the one
opened last.

`callId`, `onHold`, `outNr` and `exists` are the database. `found` is `hContact` of
the thread in the critical section. `overtaken` is a history variable: the calls of
which a `RingThread` entered after an `EndCallThread`.

* `EndedStaysEnded`: a finished `EndCallThread` leaves no `CallId`, unless overtaken.
* `CallIdKept`: the `CallId` of one call is never replaced by another's, and is
  removed by an `EndCallThread` of that call or with a contact that could not be
  dialled; so the contact that `EndDelete` deletes takes no newer call with it.
* `ListedKept`: only a failed dial deletes a contact of the list, if it added it itself
  (proved).
* `OnlySkypeHoldsUp`: in the end a thread that has not finished waits for an answer
  of Skype, or at the entry of the critical section for a thread that does. The
  waits have no limit (`skypeapi.c:611`), and that Skype answers is not assumed.

Several database and event calls between two of these places are one step if no
other thread's action depends on what lies between them: the events marked as read
after a call (`skype.c:1851-1864`), the data of a contact that is added.

### SkypeReply

`Request` and the steps of a request are `SkypeRcvTime` as `__SkypeGet` and its
callers use it: search the queue, count oneself in `receivers`, wait for the
semaphore, discount oneself, search again or give up. The pump (`WndProc`) adds
a message and then, in a second step, releases the semaphore `receivers` times;
`Reply` is a message that answers a request, `Unasked` any other that reaches the
queue. `Timer` is the garbage collector. A PONG is not such a message: once the
plugin is initialised `WndProc` leaves before it adds it (`skype.c:2260-2266`).
`OkToExit`, `CleanupAdd`, `CleanupRelease` and `CleanupExit` are the shutdown with
`SkypeMsgCleanup`, which adds an ERROR for each receiver before it wakes them.

The semaphore keeps the order of those who wait in `line`. A message has a kind
and the request it is meant for; an ERROR may be taken by any request on its
second search, as in the code. `waited` and the age of a message are counted in
ticks of the timer.

* `ReceiversCount`: how wrong the counter `receivers` can be, and no more.
* `InfiniteWaits`: a request without a time limit returns with its answer, an
  ERROR, or because of the shutdown.
* `WaitersAnswered`: until some wait has ended without a message, a request that
  waits when its answer comes returns, whoever else is woken for it.
* `Answered`: every request that Skype answers returns. The code breaks it, see
  section 6.

### RWLock, MREWSync

`RWLock` has two sets, `reading` and `writing`, and six steps: read, end, write,
end, upgrade, downgrade.

`MREWSync` is `CMultiReadExclusiveWriteSynchronizer`. `m_Sentinel`, one 64-bit
word changed by compare-and-exchange, is five variables that change together;
so each successful exchange is one action, and a failed one changes nothing and
is left out. The events, `m_WriterID`, `m_WriteRecursion` and the thread-local
counts are variables too. `EndWrite` has three places, because it resets an
event, changes `m_Sentinel` and sets another event in three steps, and every
hand-over sets its event in a step of its own. `current` and `overtaken` model
the revision number: a thread is in `current` while the number it read before
waiting is the present one; `overtaken` is history.

The refinement maps `reading` to the threads that may read as `BeginRead` has
returned or is about to, `writing` to the one that owns the lock.

* `Exclusive`: a writer is alone (proved; part of `Refines` in the run).
* `UpgradeHonest`: `BeginWrite` returns true for an upgrade only if nobody wrote meanwhile.
* `MREWInv`: what every field of `m_Sentinel` counts and which events can be set
  when (proved).
* `Refines`: implements `RWLock`.
* `Served`: whoever waits is served.

### SWMRG

YAMN's lock is made of kernel objects only: `hEventNoWriter` (a token),
`hEventNoReaders`, the semaphore `hSemNumReaders` that counts readers, and
`hFinishEV`, which ends all waits. A count can be read only by releasing the
semaphore and waiting for it again: `Leave`, `Restore` and `Take` are these
steps. `Impatient` are the threads that wait with a time limit of zero
(`AccountMailCheck`, `TimerProc`). `intruded` is history: somebody gave back a
token it never had, which `SWMRGWaitToRead` does when its wait timed out and
`hFinishEV` is set by then.

* `SWMRGInv`: the token is in one place, the semaphore counts the readers.
* `Refines`: implements `RWLock`, intruders or not.
* `AllReturn`: after the stop everybody returns, unless somebody intruded.

### YamnAccount

The protocol described above `DeleteAccountSvc` (`account.cpp:1283`), with the
threads it is about:

* `Begin`, `Start`, `Count`, `Uncount`: a thread is created, counts itself with
  `SCInc`, and sets the event its creator waits for (`Resume`); at its end `SCDec`.
* `Look` ... `Release`: `SynchroPOP3`, with `UseInternetFree` as `internet`.
  `PostError` and `Reported` are `PostErrorProc`.
* `LookBrowser` ... `WriteAccounts`: the threads `MailBrowser`, `BadConnection`
  and `ShowEmailThread`, which differ in `kind`. `Close` is the user, `Quit` the
  message `WM_YAMN_STOPACCOUNT`. A window in the place `hung` is one whose
  `WM_DESTROY` returned before `PostQuitMessage`.
* `Enter`, `ForceCheck`, `Leave`: the timer (main thread) and `ForceCheckSvc`
  (main thread or hot key), which hold `PluginRegCS` and the list.
* `DeleteAccount`, `Unlink`, `Unused`, `Free`: `DeleteAccountSvc` and
  `DeleteAccountInBackground`.
* `Shutdown`, `StopAccounts`, `DeleteAccounts`, `WaitFor`, `DeleteAll`: the end
  of `UnregisterProtoPlugins`.

The locks of the account are abstracted to what `SWMRG` shows of them: a wait
fails after the stop (`finish`). `UsingThreads->Event` is an auto-reset event
and modelled as such: `Unused` takes it, `WaitFor` takes it and sets it again.

* `AccountKept`: no thread that has counted itself, or that somebody waits for,
  finds its account freed. Threads that show a message are excepted: nobody
  waits for them (`mailbrowser.cpp:2106`, the wait is commented out).
* `DeletedFreed`: a deleted account is freed, unless a window of it lingers. Two
  windows linger: that of a failed connection, which is not in the list of
  windows that hear of the stop, and one opened or closed too late to hear of it.
* `ShutdownEnds`: so does the exit of Miranda. Excepted are, besides those, the
  two windows that wait for what the main thread holds: `AccountMailCheck` for
  `PluginRegCS` (`services.cpp:186`; the test of `ExitEV` before it never
  succeeds, nobody sets it) and `WritePOP3Accounts` for `AccountBrowserSO`.
* `OneOnline`: one check at a time is on the internet. The code breaks it, see below.

### SkypeMessage

How a message gets into the history once. WndProc starts a thread for every
status of a message it hears of (`Received`, `Missed`, `Edited`, `Sent`);
`Wait` ... `List` are `FetchMessageThreadSync` and the fetch inside it: wait for
`FetchMessageEvent`, look the message up in `MsgList`, ask Skype, store it, list
it, set the event. `WaitTimeout` is the fetch that goes on after 30 s without
the event, `GiveUp` one that gets an ERROR, or cannot ask. `Send`, `WatchReturns`,
`WatchLists` are `SkypeSendMessage` and `MessageSendWatchThread` with
`sendwatchers`; `WatchNoAck` and `WatchLeaves` are the same thread with the option
`NoAck` (`skype.c:2906-2909`), which tells the window of the success at once, and
lists nothing. The option is read for each message, so both may happen. `FetchSent` is the test by which WndProc leaves a `SENT` to
them. `body` and `noticed` are the versions of a message in Skype and as told;
`entry` is `MsgList` with `tEdited`. `slow`, `early`, `overlapped`, `failed` are
history: the circumstances the properties except, each of them named by the code
or a time limit.

* `MessageTypeOK`: the event is set exactly when nobody fetches; `sendwatchers` counts.
* `StoredOnce`: a message is stored once, and once more for every edit at most. One
  whose sender did not wait (`Trusted`) may be stored once more: its `SENT` finds
  nobody who watches and no entry, and is fetched as that of another client.
* `ReceivedStored`: a received message gets into the history.
* `EditShown`: in the end the history shows the last version.

Left out: protocols below 4 with `rcvwatchers`, the garbage collection of
`MsgList` after 30 minutes, deletion by an empty edit, messages of group chats, and
those sent to one, which the sender does not list (`skype.c:2915`).
`MsgList_Add` and `MsgList_FindMessage` are a step each.

### GChat

The members of one chat. Skype tells of every change with the whole list, and
each MEMBERS message gets a thread: `Enter` to `Leave` are `AddMembers`
(`m_GCMutex`, `MEMBEROBJECTS` if there are roles, mark or join each member, let
those who are not marked quit). `KickAsk` ... `KickRemove` is `KickUser` in the
main thread. `KickedEvent` and `KickedRemove` are the KICKED message, which
changes the list without `m_GCMutex`. `joined` is `mJoinedContacts`, `window`
what the chat window was told, `mask` the `contactmask` of a thread. The code
between two calls of Skype, of the window or of the critical section is a step.
`raced` and `spoilt` are history: a KICKED message overlapped, or an update
could not do its work (no answer, a failed join, two members gone at once).

* `NoDuplicate`: nobody is listed twice.
* `WindowAgrees`: the window shows who is listed, but for those who are halfway.
* `UpdateExact`: an update that was not disturbed leaves those Skype named.
* `Converges`: with roles, the list is Skype's in the end, whatever the order of
  the threads. Without them the list of an older message may be the last.

One chat, which stays in the list of chats: a pointer that is kept while the
list of chats moves (`gchat.c:63`) is not in it. Nor is the chat window.

### BlockManager, AtomicStore

`AtomicStore` is a map from blocks to contents that changes by transactions:
`Begin`, `Change`, `Commit`; `Secure` makes the last commit durable, and `Fail`
goes back to a commit that is not older than that.

`BlockManager` is `CBlockManager` with `CFileAccess`: the actions from
`CreateBlock` to `ReadBlock` are its operations, with the queue of pending
operations and the free blocks; `TransactionEndWrite` writes the queue to the
journal, `Flush` the queue to the file, `Closed` is the destructor. `LoadFile`
replays the journal and scans the file. `Kill` ends the program at any moment
with the write under way half done; `PowerFailure` may lose journal entries that
were not flushed and any pages of the file. A cell stands for a few bytes; the
header is cell 0; a page is `Granularity` cells. `Seen` is what a reader gets, the
`current` of the abstract store, `commits` its `history`.

* `PendingCached`: what is queued of a block is its one, present state.
* `NoOverlap`: blocks and free blocks do not overlap and lie inside the file.
* `Recoverable`: at every moment the journal makes a sound file of what is there.
* `Atomic`: implements `AtomicStore`.

Assumed: after a kill the system writes out journal and file before a later power
failure; emptying the journal is durable. A flush without a purge is a purge that
drops nothing. A kill leaves no tail of a journal entry; `PowerFailure` does, and the
tail is ignored then. The code ignores it but for one length: `ProcessJournal` adds
the size of a pointer, not of the entry's header, to the size of its data
(`FileAccess.cpp:164`), so it takes an entry that lacks its last few bytes for a whole
one and goes on to read behind it. Such an entry is not followed by the mark of a
commit in the file. Left out: `MakeBlockVirtual`, which has no caller,
read-only files, `m_SaveMode` off, encryption.

### BTree, OrderedSet

`BTree.h` at the grain of one pass of the loop in `Insert` or `Delete`, each of
which leaves a tree. `InsertGrow`, `InsertSplit`, `InsertLeaf` and so on are the
branches of the one, `DeleteMerge` ... `MergeNeighbours` those of the other;
`Split`, `KeyDelete`, `Merge` are the helpers of the same name. `Carry` and
`CarryDelete` are what each of them does to managed iterators, by which
enumerations of settings and events keep their place while the tree changes;
`PlaceLower` ... `PreviousAgain` are the iterator's own operations. `at` in an
iterator is history: the key it should be at.

* `Balanced`: the tree is balanced and in order between any two passes, children
  know their parents, and `Delete` only enters nodes it can take a key from.
* `KeepsPlace`: iterators stand where they should, or know the key they lost.
* `IsOrderedSet`: implements `OrderedSet`.

`Balanced` has a part without recursion, `Shaped`, and three with it: that all leaves
are at one depth (`Height`), that each key parts what is below the children beside it
(`Sorted`, of `Below`), and that all keys there are can be reached from the root.

Two cases lose an iterator, in the code as in the model, and `KeepsPlace` excepts
them: `Backup` runs when the key has been counted off its node, so for the last
key of a leaf the iterator takes itself for one at the end and saves nothing; and
`KeyMove` of a replacement over a deleted inner key tells nobody (section 6).

`++` and `--` of an iterator whose key was deleted compare the key at the new position
before they ask whether there is one (`BTree.h:1190`, `:1218`). If there is none they
read node 0, and `CFileBTree::Read` takes what is in front of a null pointer for a node
(`FileBTree.h:89-91`). In the model that is the end of the program: `NextFaults` and
`PreviousFaults` lead to `Broken`, where only `Gone` is left, so that deadlock is still
checked everywhere else; `NextAgain` and `PreviousAgain` are the other cases. See
section 6 (`NoFault`). The tree in memory that `Events.cpp` also uses would read a key
from what a null handle stands for; trees in files are what is modelled.

Left out: what `Insert` returns, `DeleteTree`, `DestroyTree`, the free list of
nodes, how `CFileBTree` keeps nodes in blocks, and what an enumeration does with an
iterator at the end.

### ContactAsyncQueue, HistoryKeeper

`ContactAsyncQueue` has one thread: `Loop`, `Reset`, `Check`, `Postpone` or
`Take`, `Rest`, `Wake`, `Return` are the places of `Thread()` and `wait()`.
`InternalAdd` sorts an item in and sets the event. `FinishMark`, `Finish`,
`Destroy` are `Finish()` and the destructor, which waits for the thread
`Patience` ticks; one that took longer goes on with a queue that is gone
(`stray`). Time are ticks; `check_time` is kept as the time left, since the code
compares by differences.

`HistoryKeeper` EXTENDS it: `Write` is somebody changing a setting,
`SettingChanged` the hook that queues it. A status message is part of the
status, so `JoinParent` and `Replace` merge what waits already. `Begin`,
`TrackRead`, `TrackWrite`, `Finished` are the callback. `TrackRead` reads the setting
and compares it with what is recorded, as `TrackChangeString` and `TrackChangeNumber`
do: `Changed` is their result 1 (a value that is there and does not count as equal,
`Same`, to the recorded one or, while nothing is recorded, to the `Default` of the
type), `Removed` their result 2. `Noticed` says which of these are told and stored: a
removal only for a type that can be removed and whose removals the user tracks
(`TracksRemoves`). All else leaves the record alone, so a nickname that is removed
stays recorded. `TrackWrite` stores what was read, or deletes the record.

* `NoOversleep`: the thread never sleeps past the first item that is due.
* `ChangeCovered`: no change that is to be noticed is forgotten.
* `OneNotice`: changes that come together give one notice.
* `AllRecorded`: in the end all that is to be noticed was.

Assumed: times differ by less than 2^31 ms; the thread's own steps take no time;
hooks run in the main thread, one at a time; options do not change; what changed
before the plugin was loaded is found with the next change of that setting only, and
is left out of the initial states. Left out: filters by status and protocol,
templates, and operations of the queue that nobody calls. `InOrder` and
`StopHeard` state what eSpeak relies on and what the destructor may find.

## 3. Runs and bounds

| Run | Instance | States | Shows |
|---|---|---|---|
| `call` | one SkypeOut number, a call out and a call in, up to four threads per call, two dial dialogs | 731 000 | the settings stay consistent in every order of the threads, services and failed dials; only Skype holds a thread up |
| `reply` | one infinite request with an id, a timed one, a message nobody asked for, the shutdown; ERROR replies | 912 000 | the counter's bounds; infinite waits return with a reply; who waits is answered |
| `reply_lost` | two infinite requests, no ERRORs | | `Answered` fails (section 6) |
| `mrew` | three threads, nesting to depth two | 156 000 | honesty, refinement, no deadlock, no starvation |
| `swmrg` | three patient threads and an impatient one | 14 000 | the token, refinement, the stop |
| `yamn_account` | one account, a check, two windows, hot key, main thread | 109 000 | the account's life, its end and Miranda's |
| `yamn_online` | one account, two checks, a window | | `OneOnline` fails (section 6) |
| `messages` | a message received, one sent here (with `NoAck` or without), one sent elsewhere, three fetching threads, one edit | 802 000 | stored once, never lost, the last edit shown |
| `group_chat` | two members, three updates, a kick, a KICKED message | 722 000 | list, window and Skype agree |
| `block_manager` | two blocks of size one or three, a file of five cells, failures at any moment | 249 000 | atomic transactions, recovery, no overlap |
| `btree` | nine keys, nodes of at most three, one iterator | 650 000 | balance, iterators, refinement |
| `history_keeper` | one contact, a status, its message and a nickname, three changes, shutdown | 1.4 million | nothing overslept, forgotten or told twice |

Every bound is a constant: `MaxThreads` (threads per call), `MaxAge` (ticks a
message is kept; in the code 30 s over a tick of 10 s, here one tick, which
leaves receivers less time), `MaxPermits` (the semaphore's maximum, 128 in the
code, here 3 to 6), `MaxDepth` (nesting of locks), `MaxEdits`, `MaxFile`,
`MaxQueue`, `MaxJournal` (cells of the file, pending operations, entries of the
journal), `Watched` and `Frozen` (which keys the tree may have while an iterator
is in use), `HandleLeft` (a node can be allocated; with twelve nodes for nine keys it
always can), `MaxAdded` (items queued), `MaxDialogs` (dial dialogs open at a time), `MaxOthers`
(messages in the queue that nobody asked for), `AtLoad` (what a contact's settings may
be when the plugin is loaded), and the sets of threads. `Smooth` bounds
the fetches that go wrong to one.

Why they are enough. A call is reported by at most four messages that matter to
the settings: routing or ringing, hold or resume, end; the last thread of the
bound is kept for the end. Two calls of one contact are what it takes to confuse
`CallId`s, and two dialogs to dial for a contact that another one opened. For the
replies, two wait while the third times out or shuts down; with more they only repeat. A read/write lock distinguishes the thread that
owns, one that waits to read, one that waits to write and one that upgrades, of
which three can matter at once, and the theorems cover any number. An account
is used by a check, which starts a window, which starts another (the message);
the counter is above one in this instance, and both creators of checks, the
main thread and the hot key, are there. Accounts share nothing but
`PluginRegCS` and the list, so one suffices for `AccountKept` and
`DeletedFreed`. What the instance does not have is two checks of one account
that wait for each other: only `yamn_online` has them, and the theorems of
`YamnAccountProofs`.

Three fetches of a message are the least with which one waits while another
has the event and a third is started by an edit. In a chat of two, one member
can be removed while the other moves up in the array, and both can be gone at
once; three updates give an old one, a new one and one that waits. A file of five
cells has room for a block of three and one of one, so that growing, a free block
that is too large and one that is split all happen; two operations per
transaction are enough to have one in the journal while the next is queued. With
nodes of at most three keys, the smallest the code allows, nine keys make three
levels, so that splits, merges and moves have a node above and one below; while
an iterator is in use six keys (two levels) bound what TLC must explore, and the
frozen ones keep those interesting. A status, its message and a third setting are
what the merging of items distinguishes.

`CHECK_DEADLOCK FALSE` is set where the system may stop: all calls are over, all
requests have returned, the account is gone, all messages and updates are dealt with, the queue has ended. `mrew`, `btree` and `block_manager`
check deadlock.

## 4. Fairness

* `SkypeCall`: some thread that can go on without an answer goes on (weak fairness of
  the steps of all threads but those that come after an answer, `AwaitsAnswer`). There
  are finitely many messages, hence threads, so each of them gets its turn. Nothing is
  assumed about Skype.
* `SkypeReply`: weak fairness of every thread, of the time limits (2 s at most) and of
  the pump; nothing is assumed about Skype and the timer. `RunningSpec` in the MC module,
  for `Answered`, is this without a shutdown and with strong fairness of Skype's
  answers and of the time limits (`Answers`): what fails there fails although every request is answered.
* `MREWSync`: weak fairness of each thread inside the lock; strong fairness of
  waking a writer (an event that is set again and again serves those who wait in
  order); and whoever holds the lock lets go of it once in a while, which is the
  users' part of the bargain. Nothing is assumed of a thread that holds no lock.
* `SWMRG`: weak fairness of each thread. Users release what they took.
* `YamnAccount`: weak fairness of threads; strong fairness of the waits for the
  internet, for `PluginRegCS` and for the list, which kernel objects serve in
  order. A connection ends, by success or failure: `StopAccountFcnPtr` makes the
  client stop. The user owes nothing: he need not close a window.

* `SkypeMessage`: weak fairness of threads; one that waits for the event gets it or
  its 30 s pass. Skype answers a fetch, or says ERROR; the code would wait for ever
  (`skype.c:1330`, `:1351`), and that an answer may be overlooked is the subject of
  `SkypeReply`.
* `GChat`: weak fairness of the updates, of the end of a kick (2 s at most) and of
  the KICKED message's thread. Nothing is assumed of Skype's changes.
* `HistoryKeeper`: weak fairness of the queue's thread, of the hooks and of time.
* `BlockManager` and `BTree` have safety properties only.

## 5. Proofs

Eight modules hold proofs, checked by TLAPS to the last leaf. Assumptions are the
`ASSUME`s of the modules, which TLC evaluates on every run: the sets of threads
requests and messages are finite where they are counted, the distinguished values are
distinct, `MREWSync` has fewer threads than a field of `m_Sentinel` can count, and
`BTree` has a greatest key, `MaxKey`, as every type of key of dbx_tree has. Of
`BlockManager` it is assumed that sizes are positive and that the names of the header,
of free blocks and of what is absent are no block's. Three modules prove about two
components that share nothing else: `DbxFileProofs` about the block manager and the
lock of dbx_tree, `SkypeProofs` about `SkypeMessage` and `SkypeReply`, `HandlerProofs`
about `SkypeCall` and `HistoryKeeper`. `BTreeIteratorProofs` builds on `BTreeProofs`.

**SkypeCall.** `CallInv` is inductive. `EndedStaysEnded` alone is not: it needs
to know that no `RingThread` is about to save a `CallId` when `EndCallThread` is
through. That is `LateRing`, which in turn needs that a thread is between the
ends of the critical section exactly when it owns `RingAndEndcallMutex`
(`MutexHeld`), and that a thread number above `started` is free (`IdleAbove`).
What the thread inside has found is the other end of its call and has no `CallId` until
one is stored (`FoundRight`), and a `CallId` is always with the other end of its call
(`AtPartner`). The theorems `CallTypeCorrect` and `EndedCallsStayEnded` are its parts;
`CallIdsKept` and `ListedContactsKept` are action properties that follow from it step
by step.

**SkypeReply.** `ReceiversCounted` and `InfiniteWaitsAnswered` rest on one
invariant: types, what a place says of a thread, that `receivers` differs from
the number of counted threads by at most the number of those that gave up, and
that after the flush of the shutdown the wait ends. The counting steps are
lemmas on the cardinality of a set that gains or loses one element.
`ReplyTypeCorrect` needs two facts about the order of the lists (`ListInv`): the
messages of the queue are in the order they came in (`OldestFirst`), so that
what the garbage collector drops is the head of the queue and nobody's age passes
`MaxAge`; and who waits is in the line of the semaphore (`WaitersInLine`), so that
a wait that times out has a place to leave.

**MREWSync.** `MREWInv` says that the lock has one owner or is in somebody's
hands (`OneOwner`), what the fields count (`FieldsCount`), that readers and
writers keep apart and somebody who is inside will wake those who wait
(`Apart`), which events can be set (`SignalsFit`) and what places imply
(`ThreadsFit`). There is one lemma per action. `Exclusive` and `UpgradeHonest`
and the types (`MREWTypeCorrect`) follow. For `LockImplemented`, a step moves at most one thread in or out of
`Reading` and `Writing`; with `Exclusive` before and after, it is one of the six
steps of `RWLock` or a stutter.

**BTree.** That a tree has an order, one depth and no cycles is said in `Balanced` by
recursion from the root. `TreeInv` says it with labels, without recursion: there are a height `h[n]` and bounds `s[n]` for each node `n` such that a node
and each of its children agree on them. `s[n]` begins with the lower bound of all
that is below `n`, goes on with its keys and ends with the upper bound, and rises;
the height falls by one from a node to its child and is 0 in leaves. So two nodes of
one height have spans that do not overlap (`NodesSeparate`, by the least distance to
the root at which that could fail), and no key is in two places (`KeyOnce`). Besides
the tree, `TreeInv` says how full nodes are, with the exception of a new root that
`InsertSplit` is about to give a key, and where the loop can be (`OpFits`): in a node
on the way to its key or to a neighbour of it, which can give or take one.

The proof finds the labels that each action leaves. Passes that go down leave them as
they are, a leaf that changes keeps its bounds (`LeafChanged`), and a neighbour
that takes the place of a deleted key replaces it in every bound (`KeyReplaced`).
Moving keys between neighbours cuts the row of their keys, with the one between them,
in another place (`RecutFits`); `SplitFits` and `MergeFits` do the same for a node more
and a node less; `Rebuilt` reduces them to the nodes that change, their parent and
their children. `SplitIs`, `CutIs` and `MergeIs` connect them with the sequences of
`BTree.h`, index by index.

`TreeStaysBalanced` says `TreeInv` of every state. With the keys that each action keeps,
adds or removes (`StepAnswers`) follows `TreeIsOrderedSet`, the refinement. The part of
`TreeInv` that can be said without labels is `NodesStayShaped`.

`BTreeIteratorProofs` goes from the labels to what the code and `Balanced` say by
recursion. `Height`, `Inc`, `Dec` and `Land` follow a way from node to node: down the
children, or up the parents until the node is not at the end of its row. The labels
give each way a rank that falls, the height downwards and what is missing to that of
the root upwards. So there is a function that follows it (`WayExists`, by the least rank
at which there would be none), and every such function has at the start of the way the
value of its end (`WayEnds`): `Height` is the label plus one, `Below` the keys between
the bounds, and the ways lead to the key that is a bound of where they began (`At`).
Hence `AlwaysBalanced`; and `++`, `--`, `LowerBound` and `UpperBound` lead to the next
key, the one before, the first from a bound and the last up to it.

`KeepsPlace` is proved as `PlaceInv`: the position of an iterator is that of its key,
or it knows the key because it was deleted under it. For each edit of the nodes, `Follows`
says where the position of each key goes: behind the gap (`LeafFollows`), back
(`LeafTakenFollows`), into the new node or the parent (`SplitFollows`), between
neighbours (`FromRightFollows`, `FromLeftFollows`), into the merged node
(`MergedFollows`). `Carried` says that an iterator went there, or that it lost its place
in one of the two ways that the code has. The end of the program in `NextFaults`
and `PreviousFaults` moves nothing. `IteratorsKeepPlace` follows for any number of
iterators.

**BlockManager.** The proof describes the file by tiles, stretches that each hold a
block or are free and that fill the file behind the header. A state of memory is right
if there are tiles that the queue of pending operations is going to make (`Core`): for
each tile, the last operation that touches it is its own, or no operation touches it
and the file shows it already; and each cell that an operation may write was written by
the journal or will be before the flush, so that a flush or a replay that stops halfway
leaves nothing a second replay does not put right. `Kept` relates the cache, the
address, `forced` and `avail` of each block to its tile, and `Runs` takes all this together
for a program that runs.

* What the operations on blocks do to the queue is a sequence of a few steps: an
  operation is dropped, one is added, a free block comes in, leaves the list, is
  split or found (`Dropped`, `Inserted`, `Found`, `PutBlock`, each with the tiles it
  leaves). Meanwhile a tile may be without a place in the list of free blocks and a
  block without a tile; these are parameters of `Core`. The actions are put together
  from them (`CreateStep` ... `WriteStep`).
* The journal replays patches: a cell is as the last patch that has it left it
  (`WrittenAt`), so a commit overwrites whatever was replayed before
  (`CommitOverwrites`), and after a flush the file shows all tiles (`TileComes`).
* `Scanned` and `Blocks` read a file from tile to tile. That they find the tiles and
  nothing else is an induction over the address; that the recursive function exists
  needs a witness, the intersection of all sets closed under its step (`ScanExists`). Free
  blocks that lie side by side come back as one (`Joined`), which leaves other tiles
  with the same blocks.
* `Inv` adds that for each commit that the journal still has, the replay up to it makes a
  file of its contents. It is inductive under failures too: `Kill` and `PowerFailure`
  leave pages of the file before or after a write of a flush or a replay, and every
  cell in which these differ is one the journal writes (`StepsWithin`, `Mixture`).

`StoreIsAtomic` is the refinement; `AlwaysRecoverable`, `BlocksNeverOverlap`,
`PendingIsCached` and `StoreTypeCorrect` are parts of `Inv`. The bounds of the queue, the
journal and the file are parameters, so none of this depends on them.

**SWMRG.** `SWMRGInv` has two halves. The count of the semaphore is that of the
threads between counting and discounting themselves, always. The token is in
one place and `hEventNoReaders` is right (`Orderly`) until somebody intrudes;
after that nobody is admitted, because intruding presupposes the stop, and so
the lock still excludes. Hence `SWMRGImplemented` holds without exception,
although `StopReturns` does not.

**YamnAccount.** `AccountKept` speaks only of accounts that are freed. To be
inductive it must hold already when nobody waits for the account any more
(`Left`, of accounts that are `Gone`), and it must be known why nobody who could
still come is forgotten at that moment: `UsingThreads` counts, and its event is set
only when nobody is counted (`Counts`); who was started and has not counted itself
is waited for by a thread that is counted for the same account, or by the main
thread or the hot key, which hold the account in the list meanwhile (`Awaited`);
an account that is to be freed is told to stop and not in the list (`Stopped`); and
the hot key is kept out of the shutdown by `PluginRegCS` (`Guarded`). Most actions
move one thread from place to place or start another; two lemmas (`Walk`,
`Starts`) serve them all, and the actions that count, stop and delete have one
each. `AccountsKept` and `YamnTypeCorrect` follow for any number of accounts,
checks and windows.

**GChat.** `NoDuplicate` alone is not inductive: it needs that who is between the
look and the append of `AddChatContact` is inside `m_GCMutex` (`Holder`) and that
the member is still not listed (`NewOne`). That survives the KICKED message, which
takes no lock, because it only removes. On top of it are three layers, each
inductive with those below:

* `WindowInv`, for `WindowFollows`: the only ones about whom the list and the
  window differ are in transit (`WindowShows`), where a place is known for each
  of them: a thread about to tell the window of a join or a quit, the main thread
  in `KickUser`, or the handler of a KICKED message. In all of them the window is
  told before the list changes (`WindowTold`).
* `RowsInv`, for `GChatTypeCorrect`: `contactmask` is as long as the list when
  it is read, though others shorten the list meanwhile.
* `MarksInv`, for `SweepExact`: as long as nothing disturbed an update, exactly
  those of the message whom the thread has worked on are marked, and they are
  listed. The last loop finds one at most who is not marked; when it is through,
  everybody named is listed and nobody else is.

**SkypeMessage.** `StoreInv` has two parts. `FetchMessageEvent` is the token of the
fetches (`Token`): it is set when no thread is inside, otherwise exactly one is,
until one did not wait for its turn (`slow`); with `Watchers` that is
`MessageTypeCorrect`. For `StoredOnceEach`, counting what is in the history is not
enough: a thread that has looked the message up, or a sender that is going to
store what it sent, holds a right to one more. `RoomForAll` counts these rights
together with the versions stored (`Stored`, those stored on trust not counted), `RoomForEdit` says that an entry marked as
edited leaves room for the edit, and `SenderFirst` that nobody fetches what a
sender will store, unless it was edited. The token is what makes the look of one thread and
its store belong together.

**HistoryKeeper.** `NeverOversleeps` follows from what the thread knows from the
place `rest` on: the time it is going to sleep is the time of the first item or the
event is set, which an item that is sorted in before it ensures. `OneNoticeEach`
needs that what waits besides an item is a part of its type. `NoChangeForgotten`
needs in addition that while the callback stores what it read, a later change of
the setting has an item or a hook of its own; and that a setting which is not to be
noticed needs none, before and after the record changes. How an item that is taken out, put
in or replaced moves the others is in `TakenOutIs` and `PutInIs`.

Every invariant and every refinement that a run checks is also a theorem. Only
model-checked are the liveness properties (`OnlySkypeHoldsUp`, `WaitersAnswered`, `Served`,
`AllReturn`, `DeletedFreed`, `ShutdownEnds`, `ReceivedStored`, `EditShown`, `Converges`,
`AllRecorded`), which are out of the prover's reach under fairness.

## 6. Disagreements found

* **Two checks use one POP3 client** (run `yamn_online`,
  property `OneOnline`). After an error
  `PostErrorProc` sets `UseInternetFree` (`pop3comm.cpp:545`) and `SynchroPOP3`
  sets it again (`pop3comm.cpp:1025`). A check that took the event between the
  two shares the client with the next one.

* **An answer may be overlooked for ever** (run `reply_lost`, property `Answered`).
  `skypeapi.c:593-594` says that a GET waits until the answer is received and returns the
  answer, or NULL on failure. `SkypeRcvTime` searches the queue and only then counts
  itself (`skypeapi.c:499`). If the answer is added and posted in between, one permit is
  left for it. Another waiter may take that permit, search, find nothing and wait again;
  the first one waits INFINITE with its answer in the queue. Only the next message that
  is added to the queue wakes it, if the garbage collector has not removed the answer
  by then (30 s). The PONG that the timer causes every ten seconds is not added
  (`skype.c:2265`).

The following are not among the runs. Each has a configuration beside its module
with which `tlc -config` shows the violation; the properties are stated in the
modules.

* **A call that is over may block its contact** (`CallableAgain`). `skype.c:1701`
  says the critical section makes messages be processed in the correct order.
  It does not: the `RingThread` of an earlier message may enter after the
  `EndCallThread` of a later one, stores a `CallId` nobody removes, and
  `SkypeCall` refuses to call that contact.
* **Two timeouts starve a third request** (`Answered`). A wait that ends
  without a message decrements `receivers` twice (`skypeapi.c:501`, `:505`). Two
  of them bring it to zero, after which the pump wakes nobody.
* **An ERROR with an id is never accepted** (`Answered`). `__SkypeGet`
  expects it (`skypeapi.c:613`), the search (`skypeapi.c:477`) only takes
  messages that begin with what was asked for or with `ERROR`.
* **A reader that timed out gives back a token it never had** (`StopReturns`,
  `synchro.cpp:218`). Two readers then leave at once, neither finds itself the
  last, and a writer waits for ever in spite of the stop.
* **Of two members who left, one stays** (`QuitGone`). `gchat.c:302` says of the
  loop at the end of `AddMembers` that it quits contacts which are no longer there.
  The loop (`gchat.c:320-334`) removes them from the array it walks over and does
  not shift `contactmask`, so the one who moves up into the place is passed over.
* **A sent message is stored twice** (`SentOnce`). `skype.c:2933` says the sender's
  `MsgList_Add` ensures that the main thread does not pick up the sent message, but
  `sendwatchers` is decremented some calls earlier (`skype.c:2912`). A `SENT` heard
  in between is fetched as one of another client.
* **`++` reads node 0** (`NoFault`). An enumeration that stands on a key which is
  deleted, and goes on when no key is left in that direction, dereferences its iterator
  before it asks whether it is at the end (`BTree.h:1190`, `:1218`). Enumerations of
  settings go on like that (`Settings.cpp:1236-1248`, `:1283-1284`), and those of events
  (`Events.cpp:755`).
* **A message sent without acknowledgement is stored twice** (in the model; excepted by
  `StoredOnce` and `SentOnce`). With `NoAck` the window stores the message, nothing is
  listed, and the `SENT` that follows is fetched (`skype.c:2397`, `:2906`).
* **An iterator is not told that its key is gone** (`DeletionTold`). `BTree.h:73`
  says that a managed iterator keeps track of changes in the tree. `Delete` of a key
  in an inner node moves its neighbour over it (`KeyMove`, `BTree.h:694-709`) without
  a word to an iterator that stands there.

| Configuration | Module | Fails |
|---|---|---|
| `MCSkypeCallStale.cfg` | `MCSkypeCall` | `CallableAgain` |
| `MCSkypeReplyTimeouts.cfg`, `MCSkypeReplyIdError.cfg` | `MCSkypeReply` | `Answered` |
| `MCSWMRGStop.cfg` | `MCSWMRG` | `StopReturns` |
| `MCGChatQuit.cfg` | `MCGChat` | `QuitGone` |
| `MCSkypeMessageSent.cfg` | `MCSkypeMessage` | `SentOnce` |
| `MCBTreeTold.cfg` | `MCBTree` | `DeletionTold` |
| `MCBTreeFault.cfg` | `MCBTree` | `NoFault` |

Met while modelling `YamnAccount`, part of the model but excepted by its
properties: the shutdown waits for a message window that waits for
`PluginRegCS`, or for a browser that writes the accounts; a browser closed after
the stop never quits (`mailbrowser.cpp:1904`); nobody waits for `ShowEmailThread`
to count itself. Seen but not in the model: `SCDec` sets the event before it
leaves the critical section that is freed with the account (`synchro.cpp:372`);
popups keep a pointer to an account without counting; `InitAccount` initialises
`MessagesAccessSO` twice (`account.cpp:288`); `ContactMailCheck` gives the read
lock back twice on failure (`services.cpp:268`).

## 7. What is not modelled

In the modules above, besides what their sections name: `SkypeRcvMsg` as a second
reader of the reply queue (its outcome is in `SkypeMessage`), `SkypeAnswerCall` and
conference calls; the query functions of the dbx_tree lock; deleted handles and
`SWMRGDelete`; the thread that deletes mails, popups, several protocol plugins,
creating and editing of accounts.

Of the rest of the repository, what the plan below names. The others are drawing,
dialogs, data conversion or third-party code, much of it vendored (hunspell,
libjingle, the SDK headers of media players); they have no protocol that a model of
states would show more of than the code does. `PROJECT.json` gives the reason for
each.

Hazards that no property covers: a chat that is removed while a thread keeps a
pointer to it (`gchat.c:63`) and `m_GCMutex` held across calls of the chat window
(`gchat.c:245`), because the chat window is not in this repository; the shared
buffer of `SkypeSend` (`skypeapi.c:405`).

## 8. Plan

Done, in this order, the most shared code first: `SkypeCall`, `SkypeReply`,
`RWLock` with `MREWSync` and `SWMRG`, `YamnAccount`; then `BlockManager` on
`AtomicStore`, `HistoryKeeper` on `ContactAsyncQueue`, `GChat`, `SkypeMessage` and
`BTree` on `OrderedSet`.

Left:

1. `SkypeSend` and `SkypeConnect`: the shared buffer, the sender, losing Skype and
   finding it again (`skypeapi.c:259`, `:405`).
2. The database services on the tree: what `Settings.cpp`, `Events.cpp` and
   `Entities.cpp` keep consistent between several trees; composed with `MREWSync`.
3. `MemList`, `Poll`, `ImoQueue`, `SkypeProxy`, `FileXfer`: small, mostly sequential.
