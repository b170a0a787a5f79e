----------------------------- MODULE BlockManager -----------------------------
(* dbx_tree keeps its data in blocks of a file (BlockManager.cpp) and         *)
(* protects them by a journal (FileAccess.cpp).  A write transaction changes   *)
(* blocks in the cache and queues what is to be written.  Its end writes the   *)
(* queue to the journal; now and then the whole queue is written to the file   *)
(* itself and the journal is emptied.  After a crash the journal is replayed   *)
(* and the file scanned.                                                       *)
(*                                                                             *)
(* A cell stands for a few bytes of the file.  The header is cell 0 and holds  *)
(* the size of the file.  The program may be killed and the power may fail at  *)
(* any moment: the two actions that write to the file and to the journal are   *)
(* one step each, and a failure may leave any part of what they write.         *)
(* Transactions exclude each other and readers (MREWSync).                     *)
EXTENDS Naturals, SequencesExt, FiniteSetsExt, TLC

CONSTANTS Block,        \* block IDs the file may use
          Value,        \* contents of a block
          BlockSizes,   \* sizes of blocks, in cells
          Granularity,  \* the file grows and shrinks by so many cells
          MaxFile,      \* bound: cells in the file
          MaxQueue,     \* bound: pending operations when another is begun
          MaxJournal,   \* bound: entries of the journal when a transaction begins
          Absent        \* stands for no content

ASSUME StoreAssumption ==
    /\ Granularity \in Nat \ {0}
    /\ BlockSizes \subseteq Nat \ {0}
    /\ MaxFile \in Nat \ {0} /\ MaxQueue \in Nat /\ MaxJournal \in Nat
    /\ {"free", "header", Absent} \cap Block = {}
    /\ Absent \notin [size : BlockSizes, val : Value]

VARIABLES
    phase,     \* between transactions, inside one, before a full flush, not running
    goal,      \* what a full flush is for
    m,         \* m_Size, m_FreeBlocks, the pending operations and m_PendingLast
    cache,     \* content of the cached blocks
    forced,    \* blocks that are in memory only
    addr,      \* m_BlockTable: where a block is in the file, or 0
    avail,     \* block IDs that can be given out
    lastSize,  \* m_LastSize
    file,      \* the database file
    journal,   \* the journal file
    commits    \* history: contents after the commits that may be lost and the one before

memory == <<m, cache, forced, addr, avail, lastSize>>
vars == <<phase, goal, memory, file, journal, commits>>

Header == "header"
Free == "free"
FirstBlock == 1

-----------------------------------------------------------------------------
(* Cells, and patches: what a write changes. *)
Zero == [id |-> Absent, size |-> 0, val |-> Absent, at |-> 0]
FreeCell(n, i) == [id |-> Free, size |-> n, val |-> Absent, at |-> i]
HeaderCell(n) == [id |-> Header, size |-> FirstBlock, val |-> n, at |-> 0]
BlockCells(b, a, c) ==
    [x \in a .. a + c.size - 1 |-> [id |-> b, size |-> c.size, val |-> c.val, at |-> x - a]]
FreeCells(a, n, wipe) ==
    [x \in IF wipe THEN a .. a + n - 1 ELSE {a, a + n - 1} |->
        IF x = a THEN FreeCell(n, 0) ELSE IF x = a + n - 1 THEN FreeCell(n, n - 1) ELSE Zero]

Alloc(n) == LET g == (n + Granularity - 1) \div Granularity IN IF g = 0 THEN Granularity ELSE g * Granularity
Cells == 0..MaxFile
Cut(f, n) == [x \in Cells |-> IF x < n THEN f[x] ELSE Zero]
Truncate(f, n) == Cut(f, Alloc(n))

(* File f after the first n patches of p: the last that has a cell decides. *)
Written(f, p, n) ==
    [x \in Cells |-> LET w == {i \in 1..n : x \in DOMAIN p[i]} IN
                     IF w = {} THEN f[x] ELSE p[Max(w)][x]]

(* A block that lies at a in file f.  What is no block gives no content. *)
Whole(f, a) == /\ a + f[a].size <= MaxFile
               /\ \A i \in 0 .. f[a].size - 1 : f[a + i] = [f[a] EXCEPT !.at = i]
BlockAt(f, a) == IF Whole(f, a) THEN [size |-> f[a].size, val |-> f[a].val] ELSE Absent

-----------------------------------------------------------------------------
(* Pending operations and free blocks. *)
FreeOp(a, n, wipe) == [id |-> Free, addr |-> a, size |-> n, wipe |-> wipe]
BlockOp(b, a, n) == [id |-> b, addr |-> a, size |-> n, wipe |-> FALSE]
Without(s, k) == SubSeq(s, 1, k - 1) \o SubSeq(s, k + 1, Len(s))

(* Bug: every operation that is removed is taken for one in the journal. *)
RemoveUncounted(q, b) ==
    IF \E k \in 1..Len(q.pend) : q.pend[k].id = b
    THEN [q EXCEPT !.pend = Without(@, CHOOSE i \in 1..Len(@) : @[i].id = b), !.last = @ - 1]
    ELSE q
PendingRemove(q, b) ==
    IF \E k \in 1..Len(q.pend) : q.pend[k].id = b
    THEN LET k == CHOOSE i \in 1..Len(q.pend) : q.pend[i].id = b IN
         [q EXCEPT !.pend = Without(@, k), !.last = IF k <= @ THEN @ - 1 ELSE @]
    ELSE q
(* Bug: an operation that is queued already stays there. *)
AddAnother(q, b, a, n) == [q EXCEPT !.pend = Append(@, BlockOp(b, a, n))]
PendingAdd(q, b, a, n) == [PendingRemove(q, b) EXCEPT !.pend = Append(@, BlockOp(b, a, n))]

(* Bug: the file is not told of the free block. *)
FreeInMemory(q, a, n, wipe, reuse) ==
    IF ~reuse THEN q ELSE IF a + n = q.size THEN [q EXCEPT !.size = a]
    ELSE [q EXCEPT !.free = @ \cup {<<a, n>>}]
InsertFreeBlock(q, a, n, wipe, reuse) ==
    IF a + n = q.size
    THEN IF reuse THEN [q EXCEPT !.size = a] ELSE q
    ELSE [q EXCEPT !.free = IF reuse THEN @ \cup {<<a, n>>} ELSE @,
                   !.pend = Append(@, FreeOp(a, n, wipe))]

(* The free blocks _FindFreePosition may choose: one of the size asked for, or *)
(* the largest if more than twice that size.                                   *)
Suitable(q, n) ==
    LET exact == {f \in q.free : f[2] = n} IN
    IF exact # {} THEN exact
    ELSE {f \in q.free : f[2] > 2 * n /\ \A g \in q.free : g[2] <= f[2]}

(* Bug: a block is taken from the front of a free block, which stays as it is. *)
SplitWhole(q, f, n) == IF f[2] = n THEN q ELSE InsertFreeBlock(q, f[1] + n, f[2], FALSE, TRUE)
Split(q, f, n) == IF f[2] = n THEN q ELSE InsertFreeBlock(q, f[1] + n, f[2] - n, FALSE, TRUE)
Occupy(q, f, n) == [InsertFreeBlock(Split(q, f, n), f[1], n, FALSE, FALSE) EXCEPT !.free = @ \ {f}]

(* _FindFreePosition: pairs of an address and the state it leaves. *)
FindFreePosition(q, n) ==
    IF Suitable(q, n) = {} THEN {<<q.size, [q EXCEPT !.size = @ + n]>>}
    ELSE {<<f[1], Occupy(q, f, n)>> : f \in Suitable(q, n)}
-----------------------------------------------------------------------------
(* Operations inside a write transaction. *)
Content == [size : BlockSizes, val : Value]
Cached(b) == cache[b] # Absent
Known(b) == Cached(b) \/ addr[b] # 0
MayChange == phase = "open" /\ Len(m.pend) < MaxQueue
Keep == UNCHANGED <<phase, goal, lastSize, file, journal, commits>>

(* _InitOperation finds the block in the cache or reads it from the file. *)
Load(b) == IF Cached(b) THEN cache[b] ELSE BlockAt(file, addr[b])

(* What a reader would get.  While there is no program, what was left to it. *)
Seen == IF phase = "down" THEN commits[Len(commits)]
        ELSE [b \in Block |-> IF Known(b) /\ b \notin forced THEN Load(b) ELSE Absent]

(* _FindFreePosition followed by _UpdateBlock. *)
Allocate(q, b, c) == \E r \in FindFreePosition(q, c.size) :
    /\ r[2].size <= MaxFile
    /\ addr' = [addr EXCEPT ![b] = r[1]]
    /\ m' = PendingAdd(r[2], b, r[1], c.size)

CreateBlock(b, c) ==
    /\ MayChange /\ b \in avail
    /\ avail' = avail \ {b}
    /\ cache' = [cache EXCEPT ![b] = c]
    /\ Allocate(m, b, c)
    /\ Keep /\ UNCHANGED forced

CreateBlockVirtual(b, c) ==
    /\ MayChange /\ b \in avail
    /\ avail' = avail \ {b}
    /\ cache' = [cache EXCEPT ![b] = c]
    /\ forced' = forced \cup {b}
    /\ Keep /\ UNCHANGED <<m, addr>>

DeleteBlock(b) ==
    /\ MayChange /\ Known(b)
    /\ cache' = [cache EXCEPT ![b] = Absent]
    /\ forced' = forced \ {b}
    /\ addr' = [addr EXCEPT ![b] = 0]
    /\ m' = IF addr[b] = 0 THEN PendingRemove(m, b)
            ELSE InsertFreeBlock(PendingRemove(m, b), addr[b], Load(b).size, TRUE, TRUE)
    /\ Keep /\ UNCHANGED avail

ResizeBlock(b, n) ==
    /\ MayChange /\ Known(b) /\ n # Load(b).size
    /\ LET c == [Load(b) EXCEPT !.size = n] IN
       /\ cache' = [cache EXCEPT ![b] = c]
       /\ IF addr[b] = 0 THEN UNCHANGED <<m, addr>>
          ELSE Allocate(InsertFreeBlock(m, addr[b], Load(b).size, TRUE, TRUE), b, c)
    /\ Keep /\ UNCHANGED <<forced, avail>>

UpdateBlock(b, v) ==
    /\ MayChange /\ Known(b)
    /\ LET c == [Load(b) EXCEPT !.val = v] IN
       /\ cache' = [cache EXCEPT ![b] = c]
       /\ m' = IF b \in forced THEN m ELSE PendingAdd(m, b, addr[b], c.size)
    /\ Keep /\ UNCHANGED <<forced, addr, avail>>

WriteBlockToDisk(b) ==
    /\ MayChange /\ b \in forced
    /\ forced' = forced \ {b}
    /\ Allocate(m, b, cache[b])
    /\ Keep /\ UNCHANGED <<cache, avail>>

(* Readers and writers alike bring blocks into the cache. *)
ReadBlock(b) ==
    /\ phase \in {"idle", "open"}
    /\ ~Cached(b) /\ addr[b] # 0
    /\ cache' = [cache EXCEPT ![b] = Load(b)]
    /\ Keep /\ UNCHANGED <<m, forced, addr, avail>>

-----------------------------------------------------------------------------
(* The end of a transaction: the journal, then perhaps the file. *)
TransactionBeginWrite ==
    /\ phase = "idle" /\ Len(journal) <= MaxJournal
    /\ phase' = "open"
    /\ UNCHANGED <<goal, memory, file, journal, commits>>

(* CompleteTransaction emits sigFileSizeChanged, and the header is rewritten. *)
Completed == IF m.size = lastSize THEN m ELSE PendingAdd(m, Header, 0, FirstBlock)

(* What a pending operation writes.  Free blocks the file has shrunk over are  *)
(* left out.                                                                   *)
Patch(q, op) ==
    CASE op.id = Free -> IF op.addr + op.size <= q.size THEN FreeCells(op.addr, op.size, op.wipe) ELSE <<>>
      [] op.id = Header -> [x \in {0} |-> HeaderCell(q.size)]
      [] OTHER -> BlockCells(op.id, op.addr, cache[op.id])

(* _PendingFlush(false): what was queued since the last time, then 'fini'. *)
(* Bug: the first operation is left out. *)
AllButFirst(q) == [i \in 1 .. Len(q.pend) - q.last - 1 |->
                    [sig |-> "writ", patch |-> Patch(q, q.pend[q.last + i + 1]), size |-> 0]]
Entries(q) == [i \in 1 .. Len(q.pend) - q.last |->
                [sig |-> "writ", patch |-> Patch(q, q.pend[q.last + i]), size |-> 0]]
Fini(q) == [sig |-> "fini", patch |-> <<>>, size |-> q.size]
CloseTransaction(q) ==
    /\ journal' = Append(journal \o Entries(q), Fini(q))
    /\ m' = [q EXCEPT !.last = Len(q.pend)]
    /\ commits' = IF phase' = "flush" THEN <<Seen>> ELSE Append(commits, Seen)

TransactionEndWrite ==
    /\ phase = "open"
    /\ \/ phase' = "idle" /\ UNCHANGED goal
       \/ phase' = "flush" /\ goal' = "purge"
    /\ lastSize' = Completed.size
    /\ CloseTransaction(Completed)
    /\ UNCHANGED <<cache, forced, addr, avail, file>>

(* The destructors of CBlockManager and CFileAccess. *)
Close ==
    /\ phase = "idle"
    /\ phase' = "flush" /\ goal' = "close"
    /\ CloseTransaction(m)
    /\ UNCHANGED <<cache, forced, addr, avail, lastSize, file>>

(* _PendingFlush(true): the file as it is when i operations were written. *)
Patches == [k \in 1..Len(m.pend) |-> Patch(m, m.pend[k])]
Flushed == [i \in 0..Len(m.pend) |-> Written(Truncate(file, m.size), Patches, i)]

(* _CachePurge drops blocks that were not used lately.  A flush without a      *)
(* purge is one that drops nothing.                                            *)
Flush ==
    /\ phase = "flush" /\ goal = "purge"
    /\ file' = Flushed[Len(m.pend)]
    /\ journal' = <<>>
    /\ m' = [m EXCEPT !.pend = <<>>, !.last = 0]
    /\ \E old \in SUBSET {b \in Block : Cached(b) /\ b \notin forced} :
            cache' = [b \in Block |-> IF b \in old THEN Absent ELSE cache[b]]
    /\ phase' = "idle" /\ goal' = "none"
    /\ UNCHANGED <<forced, addr, avail, lastSize, commits>>

Nothing == [size |-> 0, free |-> {}, pend |-> <<>>, last |-> 0]
Forget ==
    /\ phase' = "down" /\ goal' = "none" /\ m' = Nothing
    /\ cache' = [b \in Block |-> Absent] /\ addr' = [b \in Block |-> 0]
    /\ forced' = {} /\ avail' = {} /\ lastSize' = 0

(* The file is cut at its used size and closed, the journal deleted. *)
Closed ==
    /\ phase = "flush" /\ goal = "close"
    /\ Forget
    /\ file' = Cut(Flushed[Len(m.pend)], m.size)
    /\ journal' = <<>>
    /\ UNCHANGED commits

-----------------------------------------------------------------------------
(* The start: the journal is replayed and the file scanned. *)
Finis == {k \in 1..Len(journal) : journal[k].sig = "fini"}
LastBefore(k) == Max({0} \cup {i \in Finis : i < k})

(* ProcessJournal: the entries of a transaction are written, then the file is *)
(* cut.  Replayed[k] is the file after the transaction that ends at k.         *)
Effect(e) == IF e.sig = "fini" THEN [x \in Alloc(e.size) .. MaxFile |-> Zero] ELSE e.patch
Replayed == [k \in {0} \cup Finis |-> Written(file, [i \in 1..k |-> Effect(journal[i])], k)]

(* Addresses the scan of f comes to, from FirstBlock to the size in the header *)
(* or a block without a size.                                                  *)
Scanned(f) ==
    LET from[p \in Nat] ==
            IF p >= f[0].val \/ f[p].size = 0 THEN {p} ELSE {p} \cup from[p + f[p].size]
    IN from[FirstBlock]

Used(f) == {p \in Scanned(f) : p < f[0].val}
Blocks(f) == {p \in Used(f) : f[p].id \in Block}
(* Free blocks between blocks are joined; those at the end are not collected. *)
Joined(f) == {e \in Used(f) \X (1..MaxFile) :
                /\ f[e[1]].id = Free /\ e[1] + e[2] \in Blocks(f)
                /\ \A q \in Blocks(f) : q < e[1] \/ q >= e[1] + e[2]
                /\ e[1] = FirstBlock \/ \E q \in Blocks(f) : q + f[q].size = e[1]}
InOrder(s) == CHOOSE q \in [1..Cardinality(s) -> s] :
                \A i, j \in 1..Cardinality(s) : i < j => q[i][1] < q[j][1]
Queue(f, s) == [i \in DOMAIN s |-> FreeOp(s[i][1], s[i][2], f[s[i][1]].size # s[i][2])]

LoadFile ==
    /\ phase = "down"
    /\ file' = Replayed[Max({0} \cup Finis)]
    /\ journal' = <<>>
    /\ m' = [size |-> file'[0].val, free |-> Joined(file'), last |-> 0,
             pend |-> Queue(file', InOrder(Joined(file')))]
    /\ addr' = [b \in Block |-> IF \E p \in Blocks(file') : file'[p].id = b
                                THEN CHOOSE p \in Blocks(file') : file'[p].id = b ELSE 0]
    /\ avail' = {b \in Block : addr'[b] = 0}
    /\ phase' = "open"
    /\ UNCHANGED <<goal, cache, forced, lastSize, commits>>

-----------------------------------------------------------------------------
(* Failures. *)

(* The file before and after each write to it: of an operation in a flush, of  *)
(* a transaction when the journal is replayed.                                 *)
Steps == CASE phase = "flush" -> {<<Flushed[i - 1], Flushed[i]>> : i \in 1..Len(m.pend)}
           [] phase = "down" -> {<<Replayed[LastBefore(k)], Replayed[k]>> : k \in Finis}
           [] OTHER -> {}

(* Of the difference between f and g a first part is there, or any pages. *)
Torn(f, g) == {[x \in Cells |-> IF x < n THEN g[x] ELSE f[x]] : n \in Cells}
Mixed(f, g) == {[x \in Cells |-> IF x \div Granularity \in s THEN g[x] ELSE f[x]] :
                    s \in SUBSET {x \div Granularity : x \in {y \in Cells : f[y] # g[y]}}}

(* The program is killed: what it wrote stays, the last write half done.  (A   *)
(* transaction that was being closed leaves entries without a 'fini'; so does  *)
(* a power failure.)                                                           *)
Kill ==
    /\ Forget
    /\ \/ file' = file
       \/ \E s \in Steps : file' \in Torn(s[1], s[2]) \cup {s[2]}
    /\ commits' = <<commits[Len(commits)]>>
    /\ UNCHANGED journal

(* The power fails.  Journal entries that were not flushed may be missing, and *)
(* so may any pages written to the file.                                       *)
PowerFailure ==
    /\ Forget
    /\ \E n \in 0 .. Len(journal) :
        /\ phase \in {"flush", "down"} => n = Len(journal)
        /\ journal' = SubSeq(journal, 1, n)
        /\ commits' = <<commits[IF phase \in {"flush", "down"} THEN Len(commits)
                                ELSE 1 + Cardinality({k \in Finis : k <= n})]>>
    /\ \/ file' = file
       \/ \E s \in Steps : file' \in Mixed(file, s[2])

-----------------------------------------------------------------------------
(* A new file has a header and no blocks. *)
BlockManagerInit ==
    /\ phase = "down" /\ goal = "none" /\ m = Nothing
    /\ cache = [b \in Block |-> Absent] /\ addr = [b \in Block |-> 0]
    /\ forced = {} /\ avail = {} /\ lastSize = 0
    /\ file = [x \in Cells |-> IF x = 0 THEN HeaderCell(FirstBlock) ELSE Zero]
    /\ journal = <<>>
    /\ commits = <<[b \in Block |-> Absent]>>

Change == \E b \in Block :
    \/ \E c \in Content : CreateBlock(b, c) \/ CreateBlockVirtual(b, c)
    \/ \E n \in BlockSizes : ResizeBlock(b, n)
    \/ \E v \in Value : UpdateBlock(b, v)
    \/ DeleteBlock(b) \/ WriteBlockToDisk(b)

BlockManagerNext ==
    \/ TransactionBeginWrite \/ Change \/ TransactionEndWrite
    \/ \E b \in Block : ReadBlock(b)
    \/ Flush \/ Close \/ Closed
    \/ Kill \/ PowerFailure \/ LoadFile

Spec == BlockManagerInit /\ [][BlockManagerNext]_vars

-----------------------------------------------------------------------------
(* Types.  The queue counts what of it is in the journal already. *)
Operation == [id : Block \cup {Free, Header}, addr : Nat, size : Nat, wipe : BOOLEAN]
BlockManagerTypeOK ==
    /\ phase \in {"idle", "open", "flush", "down"}
    /\ goal \in {"none", "purge", "close"}
    /\ m \in [size : Nat, free : SUBSET (Nat \X Nat), pend : Seq(Operation), last : Nat]
    /\ m.last <= Len(m.pend)
    /\ cache \in [Block -> Content \cup {Absent}]
    /\ forced \subseteq Block /\ avail \subseteq Block
    /\ addr \in [Block -> Nat]
    /\ journal \in Seq([sig : {"writ", "fini"}, size : Nat, patch : {e.patch : e \in ToSet(journal)}])

(* A flush writes every pending operation of a block from the cache to the     *)
(* address the operation was queued with (BlockManager.cpp 282-341).  So such  *)
(* a block must be cached, lie at that address and have that size, whatever    *)
(* was resized, moved, deleted or purged since; and it must be queued once, or *)
(* an old operation would write over what now lies there.                      *)
PendingOf(b) == {k \in 1..Len(m.pend) : m.pend[k].id = b}
PendingCached ==
    \A b \in Block : \A k \in PendingOf(b) :
        /\ Cached(b) /\ b \notin forced
        /\ addr[b] = m.pend[k].addr /\ cache[b].size = m.pend[k].size
        /\ \A i \in PendingOf(b) : i = k

(* While the program runs, blocks and free blocks do not overlap and lie       *)
(* between the header and the end of the file.                                 *)
Extents == {<<b, addr[b], Load(b).size>> : b \in {c \in Block : addr[c] # 0}}
           \cup {<<Free, f[1], f[2]>> : f \in m.free}
NoOverlap ==
    phase # "down" =>
        \A e \in Extents :
            /\ FirstBlock <= e[2] /\ e[2] + e[3] <= m.size
            /\ \A g \in Extents : e = g \/ e[2] + e[3] <= g[2] \/ g[2] + g[3] <= e[2]

(* A scan of f is not misled: it ends where the header says, every block is    *)
(* whole and there only once.                                                  *)
Sound(f) ==
    /\ f[0] = HeaderCell(f[0].val)
    /\ f[0].val \in Scanned(f)
    /\ \A p \in Used(f) : f[p].at = 0 /\ (f[p].id = Free \/ Whole(f, p))
    /\ \A p, q \in Blocks(f) : f[p].id = f[q].id => p = q

(* At every moment, what is in the journal makes a sound file of the one that  *)
(* is there: whatever was half written is written over.                        *)
Recoverable == Sound(Replayed[Max({0} \cup Finis)])

Abstract == INSTANCE AtomicStore WITH
    open <- phase = "open", current <- Seen, history <- commits, None <- Absent

(* Changes of blocks take effect together when their transaction is committed, *)
(* and a failure leaves what some commit left, none older than the last one    *)
(* known to be on the disk.                                                    *)
Atomic == Abstract!Spec
=============================================================================
