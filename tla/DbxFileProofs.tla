--------------------------- MODULE DbxFileProofs ----------------------------
(***************************************************************************)
(* Proofs about two parts of the database driver: its file, that is        *)
(* blocks, their journal and its replay (BlockManager), and the abstract   *)
(* store they implement (AtomicStore), for any set of blocks, values and   *)
(* sizes, any size of the file and any bound of the queue and the journal, *)
(* and, at the end, its read/write lock (MREWSync, RWLock). The parts      *)
(* share nothing.                                                          *)
(*                                                                         *)
(* The argument is about tiles: stretches, each free or of a block with    *)
(* its value, that fill the file from the header to the end. Core says of  *)
(* tiles, the queue of pending operations, the file and the journal that a *)
(* flush makes the file show the tiles and that the journal, if it replays *)
(* the queue, does too. Every operation changes the tiles of its own block *)
(* and lets others merge or split free ones; the queue goes along          *)
(* (Continues), which gives Core again. Inv adds what memory says of the   *)
(* blocks while the program runs, and that the replay of the journal on    *)
(* the file there is shows a commit, also when a flush was cut off in the  *)
(* middle. Safety and the refinement follow from Inv.                      *)
(***************************************************************************)
EXTENDS MREWSync, BlockManager, Integers, FiniteSetTheorems, SequenceTheorems, WellFoundedInduction, TLAPS

-----------------------------------------------------------------------------
(* Tiles.  The proofs describe the file by tiles: stretches that hold a      *)
(* block or are free and that fill it behind the header.  Core relates them  *)
(* to the queue of pending operations, the file and what the journal makes   *)
(* of it.                                                                    *)

\* What a stretch of the file is for, from cell s up to cell e: a block and its
\* value, or free.
Tile == {t \in [s : Nat, e : Nat, id : Block \cup {Free}, val : Value \cup {Absent}] :
            /\ 1 <= t.s /\ t.s < t.e
            /\ t.id \in Block => t.e - t.s \in BlockSizes /\ t.val \in Value}
TileOf(i, a, n, v) == [s |-> a, e |-> a + n, id |-> i, val |-> v]
Inside(x, t) == t.s <= x /\ x < t.e
Disjoint(t, u) == t.e <= u.s \/ u.e <= t.s
BlocksOf(T) == {t \in T : t.id \in Block}
Carries(t) == [size |-> t.e - t.s, val |-> t.val]

\* Tiles that fill a file of z cells, behind the header.
Tiling(z, T) ==
    /\ z \in Nat /\ 1 <= z /\ T \subseteq Tile
    /\ \A t \in T : t.e <= z
    /\ \A t, u \in T : t = u \/ Disjoint(t, u)
    /\ \A x \in 1 .. z - 1 : \E t \in T : Inside(x, t)
    /\ \A t, u \in BlocksOf(T) : t.id = u.id => t = u

\* File f shows tile t: of a free one only the first cell counts.
Shown(f, t) ==
    IF t.id = Free THEN f[t.s] = FreeCell(t.e - t.s, 0)
    ELSE \A x \in Nat : Inside(x, t) =>
            f[x] = [id |-> t.id, size |-> t.e - t.s, val |-> t.val, at |-> x - t.s]
Needs(t, x) == IF t.id = Free THEN x = t.s ELSE Inside(x, t)

\* The cells of a pending operation, and those of them that it writes.
Touches(op, x) == op.addr <= x /\ x < op.addr + op.size
Writes(op, x) == IF op.id = Free /\ ~op.wipe THEN x = op.addr \/ x = op.addr + op.size - 1
                 ELSE Touches(op, x)
Own(op, t) == op.id = t.id /\ op.addr = t.s /\ op.size = t.e - t.s

QueueOK(q) ==
    /\ q \in [size : Nat, free : SUBSET (Nat \X Nat), pend : Seq(Operation), last : Nat]
    /\ q.last <= Len(q.pend)
    /\ \A j \in 1..Len(q.pend) :
        /\ q.pend[j].id = Header => q.pend[j].addr = 0 /\ q.pend[j].size = 1
        /\ q.pend[j].id # Header => q.pend[j].addr >= 1 /\ q.pend[j].size >= 1
    /\ \A i, j \in 1..Len(q.pend) : q.pend[i].id = q.pend[j].id /\ q.pend[i].id # Free => i = j

\* What a flush leaves of tile t was written by operation k, or was there
\* before the queue if k = 0; and if the journal has k, it brings t back.
Serves(q, t, k, f, R) ==
    /\ \A j \in 1..Len(q.pend) : \A x \in Nat : k < j /\ Needs(t, x) => ~Touches(q.pend[j], x)
    /\ k > 0 => Own(q.pend[k], t)
    /\ k = 0 => Shown(f, t)
    /\ k <= q.last => Shown(R, t)
Provided(q, t, f, R) == \E k \in 0..Len(q.pend) : Serves(q, t, k, f, R)

\* Whatever a flush may write in t, the journal has written, or an operation
\* will that is to be journalled and lies before the end of t.
Logged(q, t, x, O, J) ==
    x \in J \/ \E i \in 1..Len(q.pend) : /\ q.last < i /\ Writes(q.pend[i], x)
                                        /\ q.pend[i].addr + q.pend[i].size <= t.e
                                        /\ q.pend[i].id \notin O
Covered(q, t, O, J) ==
    \A j \in 1..Len(q.pend) : \A x \in Nat : Inside(x, t) /\ Writes(q.pend[j], x) => Logged(q, t, x, O, J)

Clean(q, C, O, f, R, J) == \A t \in C : Provided(q, t, f, R) /\ Covered(q, t, O, J)
FreeListed(q, C) == \A r \in q.free : \E t \in C : t.id = Free /\ r = <<t.s, t.e - t.s>>
Owned(q, T, O) == /\ \A j \in 1..Len(q.pend) : q.pend[j].id \in Block /\ q.pend[j].id \notin O => \E t \in T : Own(q.pend[j], t)
                  /\ \A t \in T : t.id \notin O

\* The queue q tells how file f becomes one with the tiles T; R is the file
\* that the journal makes of f, J the cells the journal writes.  The tiles D
\* are being changed, and what is queued for the blocks O is about to go.
Core(q, T, D, O, f, R, J) ==
    /\ QueueOK(q) /\ Tiling(q.size, T)
    /\ D \subseteq T /\ (\A t \in D : t.id = Free) /\ O \subseteq Block
    /\ Clean(q, T \ D, O, f, R, J) /\ FreeListed(q, T \ D) /\ Owned(q, T, O)

\* The names that are no block's differ from all blocks.
LEMMA Names == Free \notin Block /\ Header \notin Block /\ Absent \notin Block /\ Free # Header
  BY StoreAssumption DEF Free, Header

\* What is left of a sequence without one element.
LEMMA WithoutOne ==
    ASSUME NEW S, NEW s \in Seq(S), NEW k \in 1..Len(s)
    PROVE  /\ Without(s, k) \in Seq(S) /\ Len(Without(s, k)) = Len(s) - 1
           /\ \A j \in 1 .. Len(s) - 1 : Without(s, k)[j] = s[IF j < k THEN j ELSE j + 1]
<1> DEFINE a == SubSeq(s, 1, k - 1)
           b == SubSeq(s, k + 1, Len(s))
<1>1. a \in Seq(S) /\ Len(a) = k - 1 /\ \A i \in 1 .. k - 1 : a[i] = s[i]
  BY SubSeqProperties
<1>2. b \in Seq(S) /\ Len(b) = Len(s) - k /\ \A i \in 1 .. Len(s) - k : b[i] = s[k + i]
  BY SubSeqProperties
<1>3. /\ a \o b \in Seq(S) /\ Len(a \o b) = Len(s) - 1
      /\ \A j \in 1 .. Len(s) - 1 : (a \o b)[j] = IF j <= k - 1 THEN a[j] ELSE b[j - (k - 1)]
  <2> HIDE DEF a, b
  <2> QED  BY <1>1, <1>2, ConcatProperties
<1> QED
  <2> SUFFICES ASSUME NEW j \in 1 .. Len(s) - 1 PROVE (a \o b)[j] = s[IF j < k THEN j ELSE j + 1]
    BY <1>3 DEF Without
  <2>1. CASE j < k
    <3>1. j \in 1 .. k - 1 /\ j <= k - 1
      BY <2>1
    <3> HIDE DEF a, b
    <3> QED  BY <2>1, <3>1, <1>1, <1>3
  <2>2. CASE ~(j < k)
    <3>1. j - (k - 1) \in 1 .. Len(s) - k /\ k + (j - (k - 1)) = j + 1
      BY <2>2
    <3> HIDE DEF a, b
    <3> QED  BY <2>2, <3>1, <1>2, <1>3
  <2> QED  BY <2>1, <2>2

\* Queue r is q without its operation k.
CutOut(q, k, r) ==
    /\ r \in [size : Nat, free : SUBSET (Nat \X Nat), pend : Seq(Operation), last : Nat]
    /\ r.size = q.size /\ r.free = q.free /\ r.last <= Len(r.pend)
    /\ r.last = IF k <= q.last THEN q.last - 1 ELSE q.last
    /\ Len(r.pend) = Len(q.pend) - 1
    /\ \A j \in 1..Len(r.pend) : LET i == IF j < k THEN j ELSE j + 1 IN
            i \in 1..Len(q.pend) /\ i # k /\ r.pend[j] = q.pend[i] /\ (r.last < j <=> q.last < i)
    /\ \A i \in 1..Len(q.pend) : i # k => LET j == IF i < k THEN i ELSE i - 1 IN
            j \in 1..Len(r.pend) /\ r.pend[j] = q.pend[i] /\ (r.last < j <=> q.last < i)

\* PendingRemove makes such a queue.
LEMMA CutsOut ==
    ASSUME NEW q, QueueOK(q), NEW k \in 1..Len(q.pend),
           NEW r, r = [q EXCEPT !.pend = Without(q.pend, k), !.last = IF k <= q.last THEN q.last - 1 ELSE q.last]
    PROVE  CutOut(q, k, r)
<1>1. /\ q.pend \in Seq(Operation) /\ q.last \in Nat /\ q.last <= Len(q.pend)
      /\ q \in [size : Nat, free : SUBSET (Nat \X Nat), pend : Seq(Operation), last : Nat]
  BY DEF QueueOK
<1>2. /\ Without(q.pend, k) \in Seq(Operation) /\ Len(Without(q.pend, k)) = Len(q.pend) - 1
      /\ \A j \in 1 .. Len(q.pend) - 1 : Without(q.pend, k)[j] = q.pend[IF j < k THEN j ELSE j + 1]
  BY <1>1, WithoutOne
<1>3. /\ r.pend = Without(q.pend, k) /\ r.last = IF k <= q.last THEN q.last - 1 ELSE q.last
      /\ r.size = q.size /\ r.free = q.free
  BY <1>1
<1>5. Len(q.pend) \in Nat
  BY <1>1
<1>6. r.last \in Nat /\ r.last <= Len(r.pend)
  BY <1>1, <1>2, <1>3, <1>5
<1>4. r \in [size : Nat, free : SUBSET (Nat \X Nat), pend : Seq(Operation), last : Nat]
  <2>1. r = [size |-> q.size, free |-> q.free, pend |-> r.pend, last |-> r.last]
    BY <1>1, <1>3
  <2> QED  BY <1>1, <1>2, <1>3, <1>6, <2>1
<1>7. ASSUME NEW j \in 1..Len(r.pend)
      PROVE LET i == IF j < k THEN j ELSE j + 1 IN
                i \in 1..Len(q.pend) /\ i # k /\ r.pend[j] = q.pend[i] /\ (r.last < j <=> q.last < i)
  <2>1. CASE j < k
    BY <1>1, <1>2, <1>3, <1>5, <2>1
  <2>2. CASE ~(j < k)
    BY <1>1, <1>2, <1>3, <1>5, <2>2
  <2> QED  BY <2>1, <2>2
<1>8. ASSUME NEW i \in 1..Len(q.pend), i # k
      PROVE LET j == IF i < k THEN i ELSE i - 1 IN
                j \in 1..Len(r.pend) /\ r.pend[j] = q.pend[i] /\ (r.last < j <=> q.last < i)
  <2>1. CASE i < k
    BY <1>1, <1>2, <1>3, <1>5, <1>7, <2>1
  <2>2. CASE ~(i < k)
    <3>1. i - 1 \in 1..Len(r.pend) /\ ~(i - 1 < k) /\ (i - 1) + 1 = i
      BY <1>2, <1>3, <1>5, <1>8, <2>2
    <3> QED  BY <1>1, <1>2, <1>3, <1>5, <1>7, <1>8, <2>2, <3>1
  <2> QED  BY <2>1, <2>2
<1> QED  BY <1>2, <1>3, <1>4, <1>6, <1>7, <1>8 DEF CutOut

\* PendingRemove takes the one operation of b away, if there is one.
LEMMA Removed ==
    ASSUME NEW q, QueueOK(q), NEW b, b # Free
    PROVE  \/ PendingRemove(q, b) = q /\ \A j \in 1..Len(q.pend) : q.pend[j].id # b
           \/ \E k \in 1..Len(q.pend) : q.pend[k].id = b /\ CutOut(q, k, PendingRemove(q, b))
<1>1. CASE \E k \in 1..Len(q.pend) : q.pend[k].id = b
  <2> DEFINE k == CHOOSE i \in 1..Len(q.pend) : q.pend[i].id = b
             r == PendingRemove(q, b)
  <2>1. k \in 1..Len(q.pend) /\ q.pend[k].id = b
    BY <1>1
  <2>2. r = [q EXCEPT !.pend = Without(q.pend, k), !.last = IF k <= q.last THEN q.last - 1 ELSE q.last]
    BY <1>1 DEF PendingRemove
  <2> HIDE DEF k, r
  <2>3. CutOut(q, k, r)
    BY <2>1, <2>2, CutsOut, Zenon
  <2> QED  BY <2>1, <2>3 DEF r
<1>2. CASE ~ \E k \in 1..Len(q.pend) : q.pend[k].id = b
  BY <1>2 DEF PendingRemove
<1> QED  BY <1>1, <1>2

-----------------------------------------------------------------------------
(* Operations leave the queue.                                               *)

\* What a core says of the queue, as the provers like it.
LEMMA QueueFacts ==
    ASSUME NEW q, QueueOK(q)
    PROVE  /\ q.pend \in Seq(Operation) /\ Len(q.pend) \in Nat /\ q.last \in Nat /\ q.last <= Len(q.pend)
           /\ q.size \in Nat /\ q.free \subseteq Nat \X Nat
           /\ \A j \in 1..Len(q.pend) : /\ q.pend[j] \in Operation /\ q.pend[j].addr \in Nat /\ q.pend[j].size \in Nat
                                        /\ q.pend[j].id \in Block \cup {Free, Header}
                                        /\ q.pend[j].id = Header => q.pend[j].addr = 0 /\ q.pend[j].size = 1
                                        /\ q.pend[j].id # Header => q.pend[j].addr >= 1 /\ q.pend[j].size >= 1
<1>1. q.pend \in Seq(Operation) /\ q.last \in Nat /\ q.size \in Nat /\ q.free \subseteq Nat \X Nat
  BY DEF QueueOK
<1>2. \A j \in 1..Len(q.pend) : q.pend[j] \in Operation
  BY <1>1
<1>3. \A j \in 1..Len(q.pend) : q.pend[j].addr \in Nat /\ q.pend[j].size \in Nat /\ q.pend[j].id \in Block \cup {Free, Header}
  BY <1>2 DEF Operation
<1> QED  BY <1>1, <1>2, <1>3 DEF QueueOK

\* A tile, field by field.
LEMMA TileFacts ==
    ASSUME NEW t \in Tile
    PROVE  /\ t.s \in Nat /\ t.e \in Nat /\ 1 <= t.s /\ t.s < t.e /\ t.id \in Block \cup {Free}
           /\ t.val \in Value \cup {Absent}
           /\ t.id \in Block => t.e - t.s \in BlockSizes /\ t.val \in Value
           /\ t = [s |-> t.s, e |-> t.e, id |-> t.id, val |-> t.val]
  BY DEF Tile

\* Who does not touch a cell does not write it.
LEMMA WritesTouch ==
    ASSUME NEW op, NEW x \in Nat, op.addr \in Nat, op.size \in Nat, op.size >= 1, ~Touches(op, x)
    PROVE  ~Writes(op, x)
<1>1. x # op.addr /\ x # op.addr + op.size - 1
  BY DEF Touches
<1> QED  BY <1>1 DEF Writes

\* The queue without the operation of a block that is about to change, or of
\* the header.
LEMMA DropQueue ==
    ASSUME NEW q, QueueOK(q), NEW b, b # Free
    PROVE  /\ QueueOK(PendingRemove(q, b)) /\ PendingRemove(q, b).size = q.size
           /\ PendingRemove(q, b).free = q.free
           /\ \A j \in 1..Len(PendingRemove(q, b).pend) : PendingRemove(q, b).pend[j].id # b
           /\ \A j \in 1..Len(PendingRemove(q, b).pend) : \E i \in 1..Len(q.pend) : PendingRemove(q, b).pend[j] = q.pend[i]
<1> DEFINE r == PendingRemove(q, b)
<1>1. CASE r = q /\ \A j \in 1..Len(q.pend) : q.pend[j].id # b
  BY <1>1
<1>2. ASSUME NEW k \in 1..Len(q.pend), q.pend[k].id = b, CutOut(q, k, r)
      PROVE  /\ QueueOK(r) /\ r.size = q.size /\ r.free = q.free
             /\ \A j \in 1..Len(r.pend) : r.pend[j].id # b
             /\ \A j \in 1..Len(r.pend) : \E i \in 1..Len(q.pend) : r.pend[j] = q.pend[i]
  <2> HIDE DEF r
  <2>1. /\ r \in [size : Nat, free : SUBSET (Nat \X Nat), pend : Seq(Operation), last : Nat]
        /\ r.size = q.size /\ r.free = q.free /\ r.last <= Len(r.pend)
        /\ \A j \in 1..Len(r.pend) : LET i == IF j < k THEN j ELSE j + 1 IN
                i \in 1..Len(q.pend) /\ i # k /\ r.pend[j] = q.pend[i]
    BY <1>2 DEF CutOut
  <2>2. \A j \in 1..Len(r.pend) : \E i \in 1..Len(q.pend) : i # k /\ r.pend[j] = q.pend[i]
    BY <2>1
  <2>3. \A j \in 1..Len(r.pend) : r.pend[j].id # b
    BY <2>2, <1>2 DEF QueueOK
  <2>4. ASSUME NEW j \in 1..Len(r.pend)
        PROVE /\ r.pend[j].id = Header => r.pend[j].addr = 0 /\ r.pend[j].size = 1
              /\ r.pend[j].id # Header => r.pend[j].addr >= 1 /\ r.pend[j].size >= 1
    <3>1. PICK i \in 1..Len(q.pend) : r.pend[j] = q.pend[i]
      BY <2>2
    <3> QED  BY <3>1 DEF QueueOK
  <2>5. Len(r.pend) \in Nat /\ Len(q.pend) \in Nat
    BY <2>1 DEF QueueOK
  <2>6. ASSUME NEW i \in 1..Len(r.pend), NEW j \in 1..Len(r.pend), r.pend[i].id = r.pend[j].id, r.pend[i].id # Free
        PROVE i = j
    <3> DEFINE ii == IF i < k THEN i ELSE i + 1
               jj == IF j < k THEN j ELSE j + 1
    <3>1. ii \in 1..Len(q.pend) /\ jj \in 1..Len(q.pend) /\ r.pend[i] = q.pend[ii] /\ r.pend[j] = q.pend[jj]
      BY <2>1
    <3>2. ii = jj
      BY <3>1, <2>6 DEF QueueOK
    <3> QED  BY <3>2, <2>5
  <2> QED  BY <2>1, <2>2, <2>3, <2>4, <2>6 DEF QueueOK
<1>3. (r = q /\ \A j \in 1..Len(q.pend) : q.pend[j].id # b) \/ \E k \in 1..Len(q.pend) : q.pend[k].id = b /\ CutOut(q, k, r)
  BY Removed, Zenon
<1> QED
  <2> HIDE DEF r
  <2>1. QueueOK(r) /\ r.size = q.size /\ r.free = q.free /\ (\A j \in 1..Len(r.pend) : r.pend[j].id # b)
        /\ \A j \in 1..Len(r.pend) : \E i \in 1..Len(q.pend) : r.pend[j] = q.pend[i]
    BY <1>1, <1>2, <1>3
  <2> QED  BY <2>1 DEF r

\* An operation of a block in O, or of the header, may be taken out of the
\* queue.
LEMMA Dropped ==
    ASSUME NEW q, NEW T, NEW D, NEW O, NEW f, NEW R, NEW J, NEW b \in O \cup {Header},
           Core(q, T, D, O, f, R, J)
    PROVE  Core(PendingRemove(q, b), T, D, O \ {b}, f, R, J)
<1> DEFINE r == PendingRemove(q, b)
<1> USE Names
<1>0. /\ QueueOK(q) /\ Tiling(q.size, T) /\ D \subseteq T /\ (\A t \in D : t.id = Free) /\ O \subseteq Block
      /\ Clean(q, T \ D, O, f, R, J) /\ FreeListed(q, T \ D) /\ Owned(q, T, O) /\ T \subseteq Tile
  BY DEF Core, Tiling
<1>1. b # Free
  BY <1>0
<1>2. /\ QueueOK(r) /\ r.size = q.size /\ r.free = q.free
      /\ \A j \in 1..Len(r.pend) : r.pend[j].id # b
      /\ \A j \in 1..Len(r.pend) : \E i \in 1..Len(q.pend) : r.pend[j] = q.pend[i]
  BY <1>0, <1>1, DropQueue
<1>3. Owned(r, T, O \ {b}) /\ FreeListed(r, T \ D)
  <2> HIDE DEF r
  <2>1. \A j \in 1..Len(r.pend) : r.pend[j].id \in Block /\ r.pend[j].id \notin O \ {b} => \E t \in T : Own(r.pend[j], t)
    BY <1>0, <1>2 DEF Owned
  <2> QED  BY <2>1, <1>0, <1>2 DEF Owned, FreeListed
<1>4. ASSUME NEW t \in T \ D
      PROVE Provided(r, t, f, R) /\ Covered(r, t, O \ {b}, J)
  <2>1. PICK n \in 0..Len(q.pend) : Serves(q, t, n, f, R)
    BY <1>0 DEF Clean, Provided
  <2>2. Covered(q, t, O, J)
    BY <1>0 DEF Clean
  <2>3. t.s >= 1 /\ t.id # b /\ t.s \in Nat /\ t.e \in Nat
    BY <1>0, TileFacts DEF Owned
  <2>4. CASE r = q
    <3>1. Covered(q, t, O \ {b}, J)
      <4> SUFFICES ASSUME NEW j \in 1..Len(q.pend), NEW x \in Nat, Inside(x, t), Writes(q.pend[j], x)
                   PROVE Logged(q, t, x, O \ {b}, J)
        BY DEF Covered
      <4> QED  BY <2>2 DEF Covered, Logged
    <3> QED  BY <1>0, <2>4, <3>1 DEF Clean
  <2>5. ASSUME NEW k \in 1..Len(q.pend), q.pend[k].id = b, CutOut(q, k, r)
        PROVE Provided(r, t, f, R) /\ Covered(r, t, O \ {b}, J)
    <3> HIDE DEF r
    <3>1. /\ r.last = IF k <= q.last THEN q.last - 1 ELSE q.last
          /\ Len(r.pend) = Len(q.pend) - 1
          /\ \A j \in 1..Len(r.pend) : LET i == IF j < k THEN j ELSE j + 1 IN
                i \in 1..Len(q.pend) /\ i # k /\ r.pend[j] = q.pend[i] /\ (r.last < j <=> q.last < i)
          /\ \A i \in 1..Len(q.pend) : i # k => LET j == IF i < k THEN i ELSE i - 1 IN
                j \in 1..Len(r.pend) /\ r.pend[j] = q.pend[i] /\ (r.last < j <=> q.last < i)
      BY <1>0, <2>5 DEF CutOut
    <3>2. n # k
      BY <2>1, <2>3, <2>5 DEF Serves, Own
    <3>3. Len(q.pend) \in Nat /\ q.last \in Nat /\ q.last <= Len(q.pend)
      BY <1>0, QueueFacts
    <3>4. Provided(r, t, f, R)
      <4> DEFINE l == IF n < k THEN n ELSE n - 1
      <4>1. l \in 0..Len(r.pend) /\ (l <= r.last => n <= q.last)
        BY <3>1, <3>2, <3>3
      <4>2. ASSUME NEW j \in 1..Len(r.pend), NEW x \in Nat, l < j, Needs(t, x) PROVE ~Touches(r.pend[j], x)
        <5> DEFINE i == IF j < k THEN j ELSE j + 1
        <5>1. i \in 1..Len(q.pend) /\ r.pend[j] = q.pend[i] /\ i # k
          BY <3>1
        <5>2. n < i
          BY <4>2, <3>2, <3>3
        <5> QED  BY <5>1, <5>2, <4>2, <2>1 DEF Serves
      <4>3. l > 0 => Own(r.pend[l], t)
        <5> HAVE l > 0
        <5>1. n \in 1..Len(q.pend) /\ r.pend[l] = q.pend[n]
          BY <3>1, <3>2, <3>3
        <5> QED  BY <5>1, <2>1 DEF Serves
      <4>4. l = 0 => Shown(f, t)
        BY <2>1, <3>2, <3>3 DEF Serves
      <4>5. l <= r.last => Shown(R, t)
        BY <4>1, <2>1 DEF Serves
      <4> HIDE DEF l
      <4> QED  BY <4>1, <4>2, <4>3, <4>4, <4>5 DEF Provided, Serves
    <3>5. Covered(r, t, O \ {b}, J)
      <4> SUFFICES ASSUME NEW j \in 1..Len(r.pend), NEW x \in Nat, Inside(x, t), Writes(r.pend[j], x)
                   PROVE Logged(r, t, x, O \ {b}, J)
        BY DEF Covered
      <4>1. PICK i \in 1..Len(q.pend) : r.pend[j] = q.pend[i]
        BY <1>2
      <4>2. Logged(q, t, x, O, J)
        BY <4>1, <2>2 DEF Covered
      <4>3. CASE x \in J
        BY <4>3 DEF Logged
      <4>4. ASSUME NEW h \in 1..Len(q.pend), q.last < h, Writes(q.pend[h], x),
                   q.pend[h].addr + q.pend[h].size <= t.e, q.pend[h].id \notin O
            PROVE Logged(r, t, x, O \ {b}, J)
        <5>1. h # k
          <6> SUFFICES ASSUME h = k PROVE FALSE
            OBVIOUS
          <6>1. q.pend[h].id = Header
            BY <2>5, <4>4
          <6>2. q.pend[h].addr = 0 /\ q.pend[h].size = 1
            BY <6>1, <1>0, QueueFacts
          <6> QED  BY <6>1, <6>2, <4>4, <2>3 DEF Writes, Touches, Inside
        <5> DEFINE hh == IF h < k THEN h ELSE h - 1
        <5>2. hh \in 1..Len(r.pend) /\ r.pend[hh] = q.pend[h] /\ r.last < hh
          BY <3>1, <5>1, <4>4
        <5> HIDE DEF hh
        <5> QED  BY <4>4, <5>2 DEF Logged
      <4> QED  BY <4>2, <4>3, <4>4 DEF Logged
    <3> QED  BY <3>4, <3>5
  <2>6. r = q \/ \E k \in 1..Len(q.pend) : q.pend[k].id = b /\ CutOut(q, k, r)
    BY <1>0, <1>1, Removed, Zenon
  <2> QED  BY <2>4, <2>5, <2>6
<1> QED
  <2> HIDE DEF r
  <2>1. Core(r, T, D, O \ {b}, f, R, J)
    BY <1>0, <1>2, <1>3, <1>4 DEF Core, Clean
  <2> QED  BY <2>1 DEF r

-----------------------------------------------------------------------------
(* Operations come to the queue, and tilings change.                         *)

\* Queue r is q with operation o behind it; the free list may differ.
Grown(q, o, r) ==
    /\ r \in [size : Nat, free : SUBSET (Nat \X Nat), pend : Seq(Operation), last : Nat]
    /\ r.pend = Append(q.pend, o) /\ r.last = q.last
Fresh(q, o) ==
    /\ o \in Operation /\ o.id # Header /\ o.addr >= 1 /\ o.size >= 1
    /\ o.id # Free => \A j \in 1..Len(q.pend) : q.pend[j].id # o.id

\* The queue is still one, and where its operations are.
LEMMA GrownQueue ==
    ASSUME NEW q, NEW o, NEW r, QueueOK(q), Fresh(q, o), Grown(q, o, r)
    PROVE  /\ QueueOK(r) /\ Len(r.pend) = Len(q.pend) + 1 /\ Len(q.pend) \in Nat /\ r.last = q.last
           /\ q.last \in Nat /\ q.last <= Len(q.pend)
           /\ r.pend[Len(r.pend)] = o /\ o.addr \in Nat /\ o.size \in Nat
           /\ \A j \in 1..Len(q.pend) : j \in 1..Len(r.pend) /\ r.pend[j] = q.pend[j]
           /\ \A j \in 1..Len(r.pend) : j \in 1..Len(q.pend) \/ j = Len(r.pend)
<1>1. q.pend \in Seq(Operation) /\ Len(q.pend) \in Nat /\ q.last \in Nat /\ q.last <= Len(q.pend)
  BY QueueFacts
<1>2. o \in Operation /\ o.addr \in Nat /\ o.size \in Nat
  BY DEF Fresh, Operation
<1>3. r.pend = Append(q.pend, o) /\ r.last = q.last
  BY DEF Grown
<1>4. /\ Len(r.pend) = Len(q.pend) + 1 /\ r.pend[Len(r.pend)] = o
      /\ \A j \in 1..Len(q.pend) : r.pend[j] = q.pend[j]
  BY <1>1, <1>2, <1>3
<1>5. /\ \A j \in 1..Len(q.pend) : j \in 1..Len(r.pend) /\ r.pend[j] = q.pend[j]
      /\ \A j \in 1..Len(r.pend) : j \in 1..Len(q.pend) \/ j = Len(r.pend)
  BY <1>1, <1>4
<1>6. ASSUME NEW j \in 1..Len(r.pend)
      PROVE  /\ r.pend[j].id = Header => r.pend[j].addr = 0 /\ r.pend[j].size = 1
             /\ r.pend[j].id # Header => r.pend[j].addr >= 1 /\ r.pend[j].size >= 1
  BY <1>4, <1>5 DEF QueueOK, Fresh
<1>7. ASSUME NEW i \in 1..Len(r.pend), NEW j \in 1..Len(r.pend), r.pend[i].id = r.pend[j].id, r.pend[i].id # Free
      PROVE i = j
  <2>1. CASE i \in 1..Len(q.pend) /\ j \in 1..Len(q.pend)
    BY <1>5, <1>7, <2>1 DEF QueueOK
  <2>2. CASE i = Len(r.pend) /\ j = Len(r.pend)
    BY <2>2
  <2>3. CASE i \in 1..Len(q.pend) /\ j = Len(r.pend)
    BY <1>4, <1>7, <2>3 DEF Fresh
  <2>4. CASE i = Len(r.pend) /\ j \in 1..Len(q.pend)
    BY <1>4, <1>7, <2>4 DEF Fresh
  <2> QED  BY <1>5, <2>1, <2>2, <2>3, <2>4
<1>8. QueueOK(r)
  BY <1>1, <1>3, <1>4, <1>6, <1>7 DEF QueueOK, Grown
<1> QED  BY <1>1, <1>2, <1>3, <1>4, <1>5, <1>8

\* An operation elsewhere does not disturb what is known of a tile.
LEMMA GrownElsewhere ==
    ASSUME NEW q, NEW o, NEW r, QueueOK(q), Fresh(q, o), Grown(q, o, r), NEW O, NEW f, NEW R, NEW J,
           NEW t \in Tile, NEW d \in Tile, Disjoint(t, d), d.s <= o.addr, o.addr + o.size <= d.e,
           Provided(q, t, f, R), Covered(q, t, O, J)
    PROVE  Provided(r, t, f, R) /\ Covered(r, t, O, J)
<1>1. /\ QueueOK(r) /\ Len(r.pend) = Len(q.pend) + 1 /\ Len(q.pend) \in Nat /\ r.last = q.last
      /\ q.last \in Nat /\ q.last <= Len(q.pend)
      /\ r.pend[Len(r.pend)] = o /\ o.addr \in Nat /\ o.size \in Nat
      /\ \A j \in 1..Len(q.pend) : j \in 1..Len(r.pend) /\ r.pend[j] = q.pend[j]
      /\ \A j \in 1..Len(r.pend) : j \in 1..Len(q.pend) \/ j = Len(r.pend)
  BY GrownQueue
<1>2. t.s \in Nat /\ t.e \in Nat /\ t.s < t.e /\ d.s \in Nat /\ d.e \in Nat /\ o.size >= 1
  BY TileFacts DEF Fresh
<1>3. \A x \in Nat : Inside(x, t) => ~Touches(o, x) /\ ~Writes(o, x)
  <2> SUFFICES ASSUME NEW x \in Nat, Inside(x, t) PROVE ~Touches(o, x) /\ ~Writes(o, x)
    OBVIOUS
  <2>1. ~Touches(o, x)
    BY <1>1, <1>2 DEF Inside, Touches, Disjoint
  <2> QED  BY <1>1, <1>2, <2>1, WritesTouch
<1>4. Provided(r, t, f, R)
  <2>1. PICK k \in 0..Len(q.pend) : Serves(q, t, k, f, R)
    BY DEF Provided
  <2>2. ASSUME NEW j \in 1..Len(r.pend), NEW x \in Nat, k < j, Needs(t, x) PROVE ~Touches(r.pend[j], x)
    <3>1. Inside(x, t)
      BY <1>2, <2>2 DEF Needs, Inside
    <3>2. CASE j \in 1..Len(q.pend)
      BY <1>1, <2>1, <2>2, <3>2 DEF Serves
    <3>3. CASE j = Len(r.pend)
      BY <1>1, <1>3, <3>1, <3>3
    <3> QED  BY <1>1, <3>2, <3>3
  <2>3. k \in 0..Len(r.pend) /\ (k > 0 => Own(r.pend[k], t)) /\ (k = 0 => Shown(f, t)) /\ (k <= r.last => Shown(R, t))
    BY <1>1, <2>1 DEF Serves
  <2> QED  BY <2>2, <2>3 DEF Provided, Serves
<1>5. Covered(r, t, O, J)
  <2> SUFFICES ASSUME NEW j \in 1..Len(r.pend), NEW x \in Nat, Inside(x, t), Writes(r.pend[j], x)
               PROVE Logged(r, t, x, O, J)
    BY DEF Covered
  <2>1. j \in 1..Len(q.pend) /\ r.pend[j] = q.pend[j]
    BY <1>1, <1>3
  <2>2. Logged(q, t, x, O, J)
    BY <2>1 DEF Covered
  <2> QED  BY <1>1, <2>2 DEF Logged
<1> QED  BY <1>4, <1>5

\* The operation that is added is the tile's own.
LEMMA GrownOwn ==
    ASSUME NEW q, NEW o, NEW r, QueueOK(q), Fresh(q, o), Grown(q, o, r), NEW O, NEW f, NEW R, NEW J,
           NEW t \in Tile, Own(o, t), o.id \notin O,
           \A j \in 1..Len(q.pend) : \A x \in Nat :
                Inside(x, t) /\ Writes(q.pend[j], x) => Logged(q, t, x, O, J) \/ Writes(o, x)
    PROVE  Provided(r, t, f, R) /\ Covered(r, t, O, J)
<1>1. /\ QueueOK(r) /\ Len(r.pend) = Len(q.pend) + 1 /\ Len(q.pend) \in Nat /\ r.last = q.last
      /\ q.last \in Nat /\ q.last <= Len(q.pend)
      /\ r.pend[Len(r.pend)] = o /\ o.addr \in Nat /\ o.size \in Nat
      /\ \A j \in 1..Len(q.pend) : j \in 1..Len(r.pend) /\ r.pend[j] = q.pend[j]
      /\ \A j \in 1..Len(r.pend) : j \in 1..Len(q.pend) \/ j = Len(r.pend)
  BY GrownQueue
<1>2. Serves(r, t, Len(r.pend), f, R)
  BY <1>1 DEF Serves
<1>3. o.addr + o.size <= t.e
  BY TileFacts DEF Own
<1>4. \A x \in Nat : Writes(o, x) => Logged(r, t, x, O, J)
  <2>1. Len(r.pend) \in 1..Len(r.pend) /\ r.last < Len(r.pend)
    BY <1>1
  <2> QED  BY <1>1, <1>3, <2>1 DEF Logged
<1>5. \A x \in Nat : Logged(q, t, x, O, J) => Logged(r, t, x, O, J)
  BY <1>1 DEF Logged
<1>6. Covered(r, t, O, J)
  <2> SUFFICES ASSUME NEW j \in 1..Len(r.pend), NEW x \in Nat, Inside(x, t), Writes(r.pend[j], x)
               PROVE Logged(r, t, x, O, J)
    BY DEF Covered
  <2>1. CASE j \in 1..Len(q.pend)
    BY <1>1, <1>4, <1>5, <2>1
  <2>2. CASE j = Len(r.pend)
    BY <1>1, <1>4, <2>2
  <2> QED  BY <1>1, <2>1, <2>2
<1> QED  BY <1>1, <1>2, <1>6 DEF Provided

\* Ways to change a tiling.
LEMMA TilingFacts ==
    ASSUME NEW z, NEW T, Tiling(z, T)
    PROVE  /\ z \in Nat /\ 1 <= z /\ T \subseteq Tile
           /\ \A t \in T : t \in Tile /\ t.s \in Nat /\ t.e \in Nat /\ 1 <= t.s /\ t.s < t.e /\ t.e <= z
           /\ \A t, u \in T : t = u \/ Disjoint(t, u)
  BY TileFacts DEF Tiling

\* The last tile is cut off.
LEMMA CutEnd ==
    ASSUME NEW z, NEW T, Tiling(z, T), NEW t \in T, t.e = z
    PROVE  Tiling(t.s, T \ {t})
<1>1. /\ z \in Nat /\ T \subseteq Tile
      /\ \A u \in T : u \in Tile /\ u.s \in Nat /\ u.e \in Nat /\ 1 <= u.s /\ u.s < u.e /\ u.e <= z
      /\ \A u, v \in T : u = v \/ Disjoint(u, v)
  BY TilingFacts
<1>2. \A u \in T \ {t} : u.e <= t.s
  BY <1>1 DEF Disjoint
<1>3. \A x \in 1 .. t.s - 1 : \E u \in T \ {t} : Inside(x, u)
  <2> TAKE x \in 1 .. t.s - 1
  <2>1. x \in 1 .. z - 1
    BY <1>1
  <2>2. PICK u \in T : Inside(x, u)
    BY <2>1 DEF Tiling
  <2> QED  BY <1>1, <2>2 DEF Inside
<1>4. \A u, v \in BlocksOf(T \ {t}) : u.id = v.id => u = v
  BY DEF Tiling, BlocksOf
<1> QED  BY <1>1, <1>2, <1>3, <1>4 DEF Tiling

\* The file grows by a free tile.
LEMMA AddEnd ==
    ASSUME NEW z, NEW T, Tiling(z, T), NEW u \in Tile, u.s = z, u.id = Free
    PROVE  Tiling(u.e, T \cup {u}) /\ u \notin T /\ BlocksOf(T \cup {u}) = BlocksOf(T)
<1>1. /\ z \in Nat /\ T \subseteq Tile
      /\ \A t \in T : t \in Tile /\ t.s \in Nat /\ t.e \in Nat /\ 1 <= t.s /\ t.s < t.e /\ t.e <= z
      /\ \A t, v \in T : t = v \/ Disjoint(t, v)
  BY TilingFacts
<1>2. u.s \in Nat /\ u.e \in Nat /\ 1 <= u.s /\ u.s < u.e
  BY TileFacts
<1>3. BlocksOf(T \cup {u}) = BlocksOf(T)
  BY Names DEF BlocksOf
<1>4. \A t, v \in T \cup {u} : t = v \/ Disjoint(t, v)
  BY <1>1, <1>2 DEF Disjoint
<1>5. \A x \in 1 .. u.e - 1 : \E t \in T \cup {u} : Inside(x, t)
  <2> TAKE x \in 1 .. u.e - 1
  <2>1. CASE x < z
    BY <1>1, <1>2, <2>1 DEF Tiling
  <2>2. CASE x >= z
    BY <1>1, <1>2, <2>2 DEF Inside
  <2> QED  BY <1>1, <2>1, <2>2
<1>6. \A t, v \in BlocksOf(T \cup {u}) : t.id = v.id => t = v
  BY <1>3 DEF Tiling
<1>7. (T \cup {u} \subseteq Tile) /\ \A t \in T \cup {u} : t.e <= u.e
  BY <1>1, <1>2
<1>8. Tiling(u.e, T \cup {u})
  <2>1. 1 <= u.e
    BY <1>2
  <2> QED  BY <1>2, <1>4, <1>5, <1>6, <1>7, <2>1, Zenon DEF Tiling
<1> QED  BY <1>1, <1>2, <1>3, <1>8

\* One tile gives its place to another.
LEMMA Retiled ==
    ASSUME NEW z, NEW T, Tiling(z, T), NEW t \in T, NEW u \in Tile, u.s = t.s, u.e = t.e,
           u.id \in Block => \A v \in T \ {t} : v.id # u.id
    PROVE  Tiling(z, (T \ {t}) \cup {u})
<1>1. /\ z \in Nat /\ 1 <= z /\ T \subseteq Tile
      /\ \A v \in T : v \in Tile /\ v.s \in Nat /\ v.e \in Nat /\ 1 <= v.s /\ v.s < v.e /\ v.e <= z
      /\ \A v, w \in T : v = w \/ Disjoint(v, w)
  BY TilingFacts
<1>2. \A v, w \in (T \ {t}) \cup {u} : v = w \/ Disjoint(v, w)
  BY <1>1 DEF Disjoint
<1>3. \A x \in 1 .. z - 1 : \E v \in (T \ {t}) \cup {u} : Inside(x, v)
  <2> TAKE x \in 1 .. z - 1
  <2>1. PICK v \in T : Inside(x, v)
    BY DEF Tiling
  <2> QED  BY <2>1 DEF Inside
<1>4. \A v, w \in BlocksOf((T \ {t}) \cup {u}) : v.id = w.id => v = w
  BY DEF Tiling, BlocksOf
<1> QED  BY <1>1, <1>2, <1>3, <1>4 DEF Tiling

\* A free tile is cut in two.
LEMMA Halved ==
    ASSUME NEW z, NEW T, Tiling(z, T), NEW t \in T, t.id = Free, NEW a \in Tile, NEW b \in Tile,
           a.id = Free, b.id = Free, a.s = t.s, a.e = b.s, b.e = t.e
    PROVE  /\ Tiling(z, (T \ {t}) \cup {a, b}) /\ BlocksOf((T \ {t}) \cup {a, b}) = BlocksOf(T)
           /\ a \notin T /\ b \notin T /\ a # b
<1>1. /\ z \in Nat /\ 1 <= z /\ T \subseteq Tile
      /\ \A v \in T : v \in Tile /\ v.s \in Nat /\ v.e \in Nat /\ 1 <= v.s /\ v.s < v.e /\ v.e <= z
      /\ \A v, w \in T : v = w \/ Disjoint(v, w)
  BY TilingFacts
<1>2. a.s \in Nat /\ a.e \in Nat /\ a.s < a.e /\ b.s \in Nat /\ b.e \in Nat /\ b.s < b.e
  BY TileFacts
<1>3. a # b /\ a \notin T /\ b \notin T
  BY <1>1, <1>2 DEF Disjoint
<1>4. \A v, w \in (T \ {t}) \cup {a, b} : v = w \/ Disjoint(v, w)
  BY <1>1, <1>2 DEF Disjoint
<1>5. \A x \in 1 .. z - 1 : \E v \in (T \ {t}) \cup {a, b} : Inside(x, v)
  <2> TAKE x \in 1 .. z - 1
  <2>1. PICK v \in T : Inside(x, v)
    BY DEF Tiling
  <2>2. v = t => Inside(x, a) \/ Inside(x, b)
    BY <1>1, <1>2, <2>1 DEF Inside
  <2> QED  BY <2>1, <2>2
<1>6. BlocksOf((T \ {t}) \cup {a, b}) = BlocksOf(T)
  BY Names DEF BlocksOf
<1>7. \A v, w \in BlocksOf((T \ {t}) \cup {a, b}) : v.id = w.id => v = w
  BY <1>6 DEF Tiling
<1>8. ((T \ {t}) \cup {a, b} \subseteq Tile) /\ \A v \in (T \ {t}) \cup {a, b} : v.e <= z
  BY <1>1, <1>2
<1>9. Tiling(z, (T \ {t}) \cup {a, b})
  BY <1>1, <1>4, <1>5, <1>7, <1>8 DEF Tiling
<1> QED  BY <1>3, <1>6, <1>9

-----------------------------------------------------------------------------
(* Blocks are given up and become free.                                      *)

\* A core, conjunct by conjunct.
LEMMA CoreFacts ==
    ASSUME NEW q, NEW T, NEW D, NEW O, NEW f, NEW R, NEW J, Core(q, T, D, O, f, R, J)
    PROVE  /\ QueueOK(q) /\ Tiling(q.size, T) /\ D \subseteq T /\ (\A t \in D : t.id = Free) /\ O \subseteq Block
           /\ Clean(q, T \ D, O, f, R, J) /\ FreeListed(q, T \ D) /\ Owned(q, T, O)
           /\ q.size \in Nat /\ 1 <= q.size /\ T \subseteq Tile
           /\ \A t \in T : t \in Tile /\ t.s \in Nat /\ t.e \in Nat /\ 1 <= t.s /\ t.s < t.e /\ t.e <= q.size
           /\ \A t, u \in T : t = u \/ Disjoint(t, u)
<1>1. Tiling(q.size, T)
  BY DEF Core
<1> QED  BY <1>1, TilingFacts DEF Core

\* TileOf makes a tile.
LEMMA TileIs ==
    ASSUME NEW i \in Block \cup {Free}, NEW a \in Nat, NEW n \in Nat, a >= 1, n >= 1, NEW v \in Value \cup {Absent},
           i \in Block => n \in BlockSizes /\ v \in Value
    PROVE  /\ TileOf(i, a, n, v) \in Tile
           /\ TileOf(i, a, n, v).s = a /\ TileOf(i, a, n, v).e = a + n /\ TileOf(i, a, n, v).id = i
           /\ TileOf(i, a, n, v).val = v
<1>1. (a + n) - a = n /\ a + n \in Nat
  OBVIOUS
<1> QED  BY <1>1 DEF TileOf, Tile

\* The tile of a block is given up; its operation, if there is one, stays for now.
GivesUp(q, T, t, u, f, R, J) ==
    /\ Core(q, (T \ {t}) \cup {u}, {u}, {t.id}, f, R, J)
    /\ BlocksOf((T \ {t}) \cup {u}) = BlocksOf(T) \ {t}
    /\ u.s = t.s /\ u.e = t.e

\* A block that is to be moved or deleted first leaves its tile to a free one.
LEMMA Orphaned ==
    ASSUME NEW q, NEW T, NEW f, NEW R, NEW J, Core(q, T, {}, {}, f, R, J), NEW t \in BlocksOf(T)
    PROVE  GivesUp(q, T, t, TileOf(Free, t.s, t.e - t.s, Absent), f, R, J)
<1> USE Names
<1> DEFINE u == TileOf(Free, t.s, t.e - t.s, Absent)
<1>a. t \in T /\ t.id \in Block /\ u = TileOf(Free, t.s, t.e - t.s, Absent)
  BY DEF BlocksOf
<1> HIDE DEF u
<1> USE <1>a
<1>0. /\ QueueOK(q) /\ Tiling(q.size, T) /\ Clean(q, T, {}, f, R, J) /\ FreeListed(q, T) /\ Owned(q, T, {})
      /\ T \subseteq Tile
      /\ \A v \in T : v \in Tile /\ v.s \in Nat /\ v.e \in Nat /\ 1 <= v.s /\ v.s < v.e /\ v.e <= q.size
      /\ \A v, w \in T : v = w \/ Disjoint(v, w)
  <2>1. T \ {} = T
    OBVIOUS
  <2>2. /\ QueueOK(q) /\ Tiling(q.size, T) /\ Clean(q, T \ {}, {}, f, R, J) /\ FreeListed(q, T \ {}) /\ Owned(q, T, {})
        /\ T \subseteq Tile
        /\ \A v \in T : v \in Tile /\ v.s \in Nat /\ v.e \in Nat /\ 1 <= v.s /\ v.s < v.e /\ v.e <= q.size
        /\ \A v, w \in T : v = w \/ Disjoint(v, w)
    BY CoreFacts, Zenon
  <2> QED  BY <2>1, <2>2
<1>1. t.e - t.s \in Nat /\ t.e - t.s >= 1 /\ t.s + (t.e - t.s) = t.e
  BY <1>0
<1>2. u \in Tile /\ u.s = t.s /\ u.e = t.e /\ u.id = Free
  BY <1>0, <1>1, TileIs
<1>3. u \notin T
  BY <1>0, <1>2 DEF Disjoint
<1> DEFINE S == (T \ {t}) \cup {u}
<1>4. S \ {u} = T \ {t}
  BY <1>3
<1>5. Tiling(q.size, S)
  BY <1>0, <1>2, Retiled
<1>6. BlocksOf(S) = BlocksOf(T) \ {t}
  BY <1>2 DEF BlocksOf
<1>7. \A v \in T \ {t} : v.id # t.id
  BY <1>0 DEF Tiling, BlocksOf
<1>8. ASSUME NEW v \in T \ {t}
      PROVE Provided(q, v, f, R) /\ Covered(q, v, {t.id}, J)
  <2>1. Provided(q, v, f, R) /\ Covered(q, v, {}, J)
    BY <1>0 DEF Clean
  <2> SUFFICES ASSUME NEW j \in 1..Len(q.pend), NEW x \in Nat, Inside(x, v), Writes(q.pend[j], x)
               PROVE Logged(q, v, x, {t.id}, J)
    BY <2>1 DEF Covered
  <2>2. Logged(q, v, x, {}, J)
    BY <2>1 DEF Covered
  <2>3. ASSUME NEW i \in 1..Len(q.pend), Writes(q.pend[i], x), q.pend[i].id = t.id PROVE FALSE
    <3>1. PICK w \in T : Own(q.pend[i], w)
      BY <1>0, <2>3 DEF Owned
    <3>2. w = t
      BY <1>7, <2>3, <3>1 DEF Own
    <3>3. q.pend[i].addr = t.s /\ q.pend[i].size = t.e - t.s
      BY <3>1, <3>2 DEF Own
    <3>4. Inside(x, t)
      BY <1>0, <2>3, <3>3 DEF Writes, Touches, Inside
    <3> QED  BY <1>0, <3>4 DEF Inside, Disjoint
  <2> QED  BY <2>2, <2>3 DEF Logged
<1>9. FreeListed(q, T \ {t})
  BY <1>0 DEF FreeListed
<1>10. Owned(q, S, {t.id})
  BY <1>0, <1>2, <1>7 DEF Owned, Own
<1>11. Core(q, S, {u}, {t.id}, f, R, J)
  BY <1>0, <1>2, <1>4, <1>5, <1>8, <1>9, <1>10 DEF Core, Clean
<1> QED  BY <1>2, <1>6, <1>11 DEF GivesUp, u

\* A block that has no tile has no operation either.
LEMMA Unheld ==
    ASSUME NEW q, NEW T, NEW f, NEW R, NEW J, Core(q, T, {}, {}, f, R, J), NEW b \in Block, \A t \in T : t.id # b
    PROVE  Core(q, T, {}, {b}, f, R, J)
<1>0. /\ QueueOK(q) /\ Tiling(q.size, T) /\ Clean(q, T \ {}, {}, f, R, J) /\ FreeListed(q, T \ {}) /\ Owned(q, T, {})
  BY CoreFacts
<1>1. \A j \in 1..Len(q.pend) : q.pend[j].id # b
  BY <1>0 DEF Owned, Own
<1>2. ASSUME NEW t \in T \ {} PROVE Covered(q, t, {b}, J)
  <2>1. Covered(q, t, {}, J)
    BY <1>0 DEF Clean
  <2>2. \A x : Logged(q, t, x, {}, J) => Logged(q, t, x, {b}, J)
    BY <1>1 DEF Logged
  <2> QED  BY <2>1, <2>2 DEF Covered
<1>3. Owned(q, T, {b})
  BY <1>0 DEF Owned
<1> QED  BY <1>0, <1>2, <1>3 DEF Core, Clean

\* An operation of a free block can be queued at any time.
LEMMA FreeOpFresh ==
    ASSUME NEW q, NEW a \in Nat, NEW n \in Nat, a >= 1, n >= 1, NEW w \in BOOLEAN
    PROVE  Fresh(q, FreeOp(a, n, w)) /\ FreeOp(a, n, w).id = Free /\ FreeOp(a, n, w).addr = a
           /\ FreeOp(a, n, w).size = n /\ FreeOp(a, n, w).wipe = w
  BY Names DEF Fresh, FreeOp, Operation

\* A stretch that was given up becomes free, or the end of the file.
Inserts(q, T, D, d, r, O, f, R, J) ==
    \E S \in SUBSET T : /\ Core(r, S, D \ {d}, O, f, R, J) /\ BlocksOf(S) = BlocksOf(T)
                        /\ r.size <= q.size

\* InsertFreeBlock makes free what was given up.
LEMMA Inserted ==
    ASSUME NEW q, NEW T, NEW D, NEW O, NEW f, NEW R, NEW J, Core(q, T, D, O, f, R, J), NEW d \in D,
           NEW n, n = d.e - d.s, NEW w \in BOOLEAN, w \/ Covered(q, d, O, J)
    PROVE  Inserts(q, T, D, d, InsertFreeBlock(q, d.s, n, w, TRUE), O, f, R, J)
<1> USE Names
<1> DEFINE r == InsertFreeBlock(q, d.s, n, w, TRUE)
<1>0. /\ QueueOK(q) /\ Tiling(q.size, T) /\ D \subseteq T /\ (\A t \in D : t.id = Free) /\ O \subseteq Block
      /\ Clean(q, T \ D, O, f, R, J) /\ FreeListed(q, T \ D) /\ Owned(q, T, O)
      /\ q.size \in Nat /\ 1 <= q.size /\ T \subseteq Tile
      /\ \A t \in T : t \in Tile /\ t.s \in Nat /\ t.e \in Nat /\ 1 <= t.s /\ t.s < t.e /\ t.e <= q.size
      /\ \A t, u \in T : t = u \/ Disjoint(t, u)
  BY CoreFacts
<1>1. /\ q \in [size : Nat, free : SUBSET (Nat \X Nat), pend : Seq(Operation), last : Nat]
      /\ q.pend \in Seq(Operation) /\ Len(q.pend) \in Nat /\ q.last \in Nat
  BY <1>0, QueueFacts DEF QueueOK
<1>2. d \in T /\ n \in Nat /\ n >= 1 /\ d.s + n = d.e /\ d.s \in Nat /\ d.s >= 1 /\ d.id = Free
  BY <1>0
<1>3. CASE d.e = q.size
  <2>1. r = [q EXCEPT !.size = d.s]
    BY <1>2, <1>3 DEF InsertFreeBlock
  <2>2. /\ r.size = d.s /\ r.free = q.free /\ r.pend = q.pend /\ r.last = q.last
        /\ r \in [size : Nat, free : SUBSET (Nat \X Nat), pend : Seq(Operation), last : Nat]
    BY <1>1, <1>2, <2>1
  <2> DEFINE S == T \ {d}
  <2> HIDE DEF r
  <2>3. Tiling(r.size, S)
    BY <1>0, <1>2, <1>3, <2>2, CutEnd
  <2>4. QueueOK(r)
    BY <1>0, <2>2 DEF QueueOK
  <2>5. S \ (D \ {d}) = T \ D
    BY <1>2
  <2>6. Clean(r, T \ D, O, f, R, J)
    BY <1>0, <2>2 DEF Clean, Provided, Serves, Covered, Logged
  <2>7. FreeListed(r, T \ D)
    BY <1>0, <2>2 DEF FreeListed
  <2>8. Owned(r, S, O)
    BY <1>0, <1>2, <2>2 DEF Owned, Own
  <2>9. BlocksOf(S) = BlocksOf(T)
    BY <1>2 DEF BlocksOf
  <2>10. Core(r, S, D \ {d}, O, f, R, J)
    BY <1>0, <2>3, <2>4, <2>5, <2>6, <2>7, <2>8 DEF Core
  <2>11. r.size <= q.size
    BY <1>0, <1>2, <2>2
  <2>12. Inserts(q, T, D, d, r, O, f, R, J)
    BY <2>9, <2>10, <2>11 DEF Inserts
  <2> QED  BY <2>12 DEF r
<1>4. CASE d.e # q.size
  <2> DEFINE o == FreeOp(d.s, n, w)
  <2>1. r = [q EXCEPT !.free = @ \cup {<<d.s, n>>}, !.pend = Append(@, o)]
    BY <1>2, <1>4 DEF InsertFreeBlock
  <2>2. Fresh(q, o) /\ o.id = Free /\ o.addr = d.s /\ o.size = n /\ o.wipe = w
    BY <1>2, FreeOpFresh
  <2>3. o \in Operation
    BY <2>2 DEF Fresh
  <2> HIDE DEF o
  <2>4. /\ r.size = q.size /\ r.free = q.free \cup {<<d.s, n>>} /\ r.pend = Append(q.pend, o) /\ r.last = q.last
        /\ r = [size |-> r.size, free |-> r.free, pend |-> r.pend, last |-> r.last]
    BY <1>1, <1>2, <2>1
  <2>5. Append(q.pend, o) \in Seq(Operation)
    BY <1>1, <2>3
  <2>6. q.free \cup {<<d.s, n>>} \in SUBSET (Nat \X Nat)
    BY <1>1, <1>2
  <2> HIDE DEF r
  <2>7. r \in [size : Nat, free : SUBSET (Nat \X Nat), pend : Seq(Operation), last : Nat]
    BY <1>0, <1>1, <2>4, <2>5, <2>6
  <2>8. Grown(q, o, r)
    BY <2>4, <2>7 DEF Grown
  <2>9. QueueOK(r)
    BY <1>0, <2>2, <2>8, GrownQueue
  <2>10. ASSUME NEW t \in T \ D PROVE Provided(r, t, f, R) /\ Covered(r, t, O, J)
    <3>1. Provided(q, t, f, R) /\ Covered(q, t, O, J)
      BY <1>0 DEF Clean
    <3>2. Disjoint(t, d) /\ t \in Tile /\ d \in Tile /\ d.s <= o.addr /\ o.addr + o.size <= d.e
      BY <1>0, <1>2, <2>2
    <3> QED  BY <1>0, <2>2, <2>8, <3>1, <3>2, GrownElsewhere
  <2>11. Provided(r, d, f, R) /\ Covered(r, d, O, J)
    <3>1. Own(o, d) /\ o.id \notin O /\ d \in Tile
      BY <1>0, <1>2, <2>2 DEF Own
    <3>2. ASSUME NEW j \in 1..Len(q.pend), NEW x \in Nat, Inside(x, d), Writes(q.pend[j], x)
          PROVE Logged(q, d, x, O, J) \/ Writes(o, x)
      <4>1. CASE w
        BY <1>2, <2>2, <3>2, <4>1 DEF Writes, Touches, Inside
      <4>2. CASE Covered(q, d, O, J)
        BY <3>2, <4>2 DEF Covered
      <4> QED  BY <4>1, <4>2
    <3> QED  BY <1>0, <2>2, <2>8, <3>1, <3>2, GrownOwn
  <2>12. T \ (D \ {d}) = (T \ D) \cup {d}
    BY <1>2
  <2>13. FreeListed(r, (T \ D) \cup {d})
    BY <1>0, <1>2, <2>4 DEF FreeListed
  <2>14. Owned(r, T, O)
    <3>1. \A j \in 1..Len(r.pend) : (j \in 1..Len(q.pend) /\ r.pend[j] = q.pend[j]) \/ r.pend[j] = o
      BY <1>0, <2>2, <2>8, GrownQueue
    <3> QED  BY <1>0, <2>2, <3>1 DEF Owned
  <2>15. Core(r, T, D \ {d}, O, f, R, J)
    BY <1>0, <2>4, <2>9, <2>10, <2>11, <2>12, <2>13, <2>14 DEF Core, Clean
  <2>16. r.size <= q.size
    BY <1>0, <2>4
  <2>17. Inserts(q, T, D, d, r, O, f, R, J)
    BY <2>15, <2>16 DEF Inserts
  <2> QED  BY <2>17 DEF r
<1> QED  BY <1>3, <1>4

-----------------------------------------------------------------------------
(* Free blocks are found and split.                                          *)

Unlist(q, r) == [q EXCEPT !.free = @ \ {r}]

\* Unlist changes the free list alone.
LEMMA UnlistFields ==
    ASSUME NEW a, NEW b, NEW c, NEW d, NEW r
    PROVE  Unlist([size |-> a, free |-> b, pend |-> c, last |-> d], r) = [size |-> a, free |-> b \ {r}, pend |-> c, last |-> d]
BY DEF Unlist

Fields(q) == q \in [size : {q.size}, free : {q.free}, pend : {q.pend}, last : {q.last}]

\* A queue is a record of these fields.
LEMMA QueueFields ==
    ASSUME NEW q, QueueOK(q)
    PROVE  Fields(q)
  BY DEF QueueOK, Fields

\* It still is after InsertFreeBlock.
LEMMA InsertFields ==
    ASSUME NEW q, Fields(q), NEW a, NEW n, NEW w, NEW u \in BOOLEAN
    PROVE  Fields(InsertFreeBlock(q, a, n, w, u))
<1>1. CASE a + n = q.size
  BY <1>1 DEF InsertFreeBlock, Fields
<1>2. CASE a + n # q.size
  BY <1>2 DEF InsertFreeBlock, Fields
<1> QED  BY <1>1, <1>2

\* Whether a free block leaves the list before or after another comes in does
\* not matter.
LEMMA UnlistLater ==
    ASSUME NEW q, Fields(q), NEW r, NEW a, NEW n, NEW w, NEW u \in BOOLEAN, u => <<a, n>> # r
    PROVE  Unlist(InsertFreeBlock(q, a, n, w, u), r) = InsertFreeBlock(Unlist(q, r), a, n, w, u)
<1>1. q \in [size : {q.size}, free : {q.free}, pend : {q.pend}, last : {q.last}]
  BY DEF Fields
<1>2. q = [size |-> q.size, free |-> q.free, pend |-> q.pend, last |-> q.last]
  BY <1>1
<1>3. Unlist(q, r) = [size |-> q.size, free |-> q.free \ {r}, pend |-> q.pend, last |-> q.last]
  <2>1. Unlist([size |-> q.size, free |-> q.free, pend |-> q.pend, last |-> q.last], r)
            = [size |-> q.size, free |-> q.free \ {r}, pend |-> q.pend, last |-> q.last]
    BY UnlistFields
  <2> QED  BY <1>2, <2>1, Zenon
<1>4. CASE a + n = q.size
  BY <1>2, <1>3, <1>4 DEF Unlist, InsertFreeBlock
<1>5. CASE a + n # q.size
  <2> DEFINE o == FreeOp(a, n, w)
             g == IF u THEN q.free \cup {<<a, n>>} ELSE q.free
             h == IF u THEN (q.free \ {r}) \cup {<<a, n>>} ELSE q.free \ {r}
  <2>1. g \ {r} = h
    OBVIOUS
  <2>2. InsertFreeBlock(q, a, n, w, u) = [size |-> q.size, free |-> g, pend |-> Append(q.pend, o), last |-> q.last]
    <3> HIDE DEF o
    <3>1. InsertFreeBlock(q, a, n, w, u) = [q EXCEPT !.free = g, !.pend = Append(q.pend, o)]
      BY <1>1, <1>5 DEF InsertFreeBlock, o
    <3> HIDE DEF g
    <3> QED  BY <1>1, <3>1
  <2>3. InsertFreeBlock(Unlist(q, r), a, n, w, u) = [size |-> q.size, free |-> h, pend |-> Append(q.pend, o), last |-> q.last]
    <3> DEFINE p == Unlist(q, r)
    <3>1. p.size = q.size /\ p.free = q.free \ {r} /\ p.pend = q.pend /\ p.last = q.last
      BY <1>3
    <3>2. InsertFreeBlock(p, a, n, w, u) = [p EXCEPT !.free = h, !.pend = Append(q.pend, o)]
      <4> HIDE DEF p
      <4> QED  BY <1>1, <1>5, <3>1 DEF InsertFreeBlock
    <3>3. p = [size |-> q.size, free |-> q.free \ {r}, pend |-> q.pend, last |-> q.last]
      BY <1>3
    <3> HIDE DEF p, h, o
    <3>4. InsertFreeBlock(p, a, n, w, u) = [size |-> q.size, free |-> h, pend |-> Append(q.pend, o), last |-> q.last]
      BY <3>2, <3>3
    <3> QED  BY <3>4 DEF p
  <2> HIDE DEF g, h, o
  <2>4. Unlist(InsertFreeBlock(q, a, n, w, u), r) = [size |-> q.size, free |-> g \ {r}, pend |-> Append(q.pend, o), last |-> q.last]
    <3>1. Unlist([size |-> q.size, free |-> g, pend |-> Append(q.pend, o), last |-> q.last], r)
            = [size |-> q.size, free |-> g \ {r}, pend |-> Append(q.pend, o), last |-> q.last]
      BY UnlistFields
    <3> QED  BY <2>2, <3>1, Zenon
  <2> QED  BY <2>1, <2>3, <2>4
<1> QED  BY <1>4, <1>5

\* The same, if the other does not come in.
LEMMA UnlistReserve ==
    ASSUME NEW q, Fields(q), NEW r, NEW a, NEW n
    PROVE  /\ Unlist(InsertFreeBlock(q, a, n, FALSE, FALSE), r) = InsertFreeBlock(Unlist(q, r), a, n, FALSE, FALSE)
           /\ Fields(InsertFreeBlock(q, a, n, FALSE, FALSE))
<1>1. \A w, u \in BOOLEAN : ~u => Unlist(InsertFreeBlock(q, a, n, w, u), r) = InsertFreeBlock(Unlist(q, r), a, n, w, u)
  BY UnlistLater
<1>2. \A w, u \in BOOLEAN : Fields(InsertFreeBlock(q, a, n, w, u))
  BY InsertFields
<1> QED  BY <1>1, <1>2

\* The same, if the other does come in.
LEMMA UnlistInsert ==
    ASSUME NEW q, Fields(q), NEW r, NEW a, NEW n, <<a, n>> # r
    PROVE  /\ Unlist(InsertFreeBlock(q, a, n, FALSE, TRUE), r) = InsertFreeBlock(Unlist(q, r), a, n, FALSE, TRUE)
           /\ Fields(InsertFreeBlock(q, a, n, FALSE, TRUE))
<1>1. \A w, u \in BOOLEAN : Unlist(InsertFreeBlock(q, a, n, w, u), r) = InsertFreeBlock(Unlist(q, r), a, n, w, u)
  BY UnlistLater
<1>2. \A w, u \in BOOLEAN : Fields(InsertFreeBlock(q, a, n, w, u))
  BY InsertFields
<1> QED  BY <1>1, <1>2

\* A free block leaves the list: its tile is about to be used.
LEMMA Unlisted ==
    ASSUME NEW q, NEW T, NEW O, NEW f, NEW R, NEW J, Core(q, T, {}, O, f, R, J), NEW r \in q.free
    PROVE  \E t \in T : /\ Core(Unlist(q, r), T, {t}, O, f, R, J)
                        /\ r = <<t.s, t.e - t.s>> /\ t.id = Free /\ Covered(Unlist(q, r), t, O, J)
<1>0. /\ QueueOK(q) /\ Tiling(q.size, T) /\ Clean(q, T \ {}, O, f, R, J) /\ FreeListed(q, T \ {}) /\ Owned(q, T, O)
      /\ O \subseteq Block
  BY CoreFacts
<1>1. PICK t \in T : t.id = Free /\ r = <<t.s, t.e - t.s>>
  BY <1>0 DEF FreeListed
<1> DEFINE p == Unlist(q, r)
<1>2. /\ q \in [size : Nat, free : SUBSET (Nat \X Nat), pend : Seq(Operation), last : Nat]
  BY <1>0 DEF QueueOK
<1>3. /\ p \in [size : Nat, free : SUBSET (Nat \X Nat), pend : Seq(Operation), last : Nat]
      /\ p.size = q.size /\ p.free = q.free \ {r} /\ p.pend = q.pend /\ p.last = q.last
  BY <1>2 DEF Unlist
<1> HIDE DEF p
<1>4. QueueOK(p)
  BY <1>0, <1>3 DEF QueueOK
<1>5. Clean(p, T, O, f, R, J)
  BY <1>0, <1>3 DEF Clean, Provided, Serves, Covered, Logged
<1>6. FreeListed(p, T \ {t})
  BY <1>0, <1>1, <1>3 DEF FreeListed
<1>7. Owned(p, T, O)
  BY <1>0, <1>3 DEF Owned
<1>8. Core(p, T, {t}, O, f, R, J)
  BY <1>0, <1>1, <1>3, <1>4, <1>5, <1>6, <1>7 DEF Core, Clean
<1> QED  BY <1>1, <1>5, <1>8 DEF Clean, p

\* The free block that will be written over is marked as one.
Reserves(q, T, D, O, f, R, J, r) == Core(r, T, D, O, f, R, J) /\ r.size = q.size

\* InsertFreeBlock does so.
LEMMA Reserved ==
    ASSUME NEW q, NEW T, NEW D, NEW O, NEW f, NEW R, NEW J, Core(q, T, D, O, f, R, J), NEW d \in D,
           NEW n, n = d.e - d.s
    PROVE  Reserves(q, T, D, O, f, R, J, InsertFreeBlock(q, d.s, n, FALSE, FALSE))
<1> USE Names
<1> DEFINE r == InsertFreeBlock(q, d.s, n, FALSE, FALSE)
<1>0. /\ QueueOK(q) /\ Tiling(q.size, T) /\ D \subseteq T /\ (\A t \in D : t.id = Free) /\ O \subseteq Block
      /\ Clean(q, T \ D, O, f, R, J) /\ FreeListed(q, T \ D) /\ Owned(q, T, O)
      /\ q.size \in Nat /\ 1 <= q.size /\ T \subseteq Tile
      /\ \A t \in T : t \in Tile /\ t.s \in Nat /\ t.e \in Nat /\ 1 <= t.s /\ t.s < t.e /\ t.e <= q.size
      /\ \A t, u \in T : t = u \/ Disjoint(t, u)
  BY CoreFacts
<1>1. /\ q \in [size : Nat, free : SUBSET (Nat \X Nat), pend : Seq(Operation), last : Nat]
      /\ q.pend \in Seq(Operation) /\ Len(q.pend) \in Nat /\ q.last \in Nat
  BY <1>0, QueueFacts DEF QueueOK
<1>2. d \in T /\ n \in Nat /\ n >= 1 /\ d.s + n = d.e /\ d.s \in Nat /\ d.s >= 1 /\ d.id = Free
  BY <1>0
<1>3. CASE d.e = q.size
  BY <1>2, <1>3 DEF InsertFreeBlock, Reserves
<1>4. CASE d.e # q.size
  <2> DEFINE o == FreeOp(d.s, n, FALSE)
  <2>1. r = [q EXCEPT !.free = @, !.pend = Append(@, o)]
    BY <1>2, <1>4 DEF InsertFreeBlock
  <2>2. Fresh(q, o) /\ o.id = Free /\ o.addr = d.s /\ o.size = n
    <3>1. FALSE \in BOOLEAN /\ d.s \in Nat /\ n \in Nat /\ d.s >= 1 /\ n >= 1
      BY <1>2
    <3>2. ASSUME NEW a \in Nat, NEW k \in Nat, a >= 1, k >= 1
          PROVE  Fresh(q, FreeOp(a, k, FALSE)) /\ FreeOp(a, k, FALSE).id = Free
                 /\ FreeOp(a, k, FALSE).addr = a /\ FreeOp(a, k, FALSE).size = k
      BY <3>2, Names DEF Fresh, FreeOp, Operation
    <3> QED  BY <3>1, <3>2, Zenon
  <2>3. o \in Operation
    BY <2>2 DEF Fresh
  <2> HIDE DEF o
  <2>4. /\ r.size = q.size /\ r.free = q.free /\ r.pend = Append(q.pend, o) /\ r.last = q.last
        /\ r = [size |-> r.size, free |-> r.free, pend |-> r.pend, last |-> r.last]
    BY <1>1, <1>2, <2>1
  <2>5. Append(q.pend, o) \in Seq(Operation)
    BY <1>1, <2>3
  <2> HIDE DEF r
  <2>7. r \in [size : Nat, free : SUBSET (Nat \X Nat), pend : Seq(Operation), last : Nat]
    BY <1>0, <1>1, <2>4, <2>5
  <2>8. Grown(q, o, r)
    BY <2>4, <2>7 DEF Grown
  <2>9. QueueOK(r)
    BY <1>0, <2>2, <2>8, GrownQueue
  <2>10. ASSUME NEW t \in T \ D PROVE Provided(r, t, f, R) /\ Covered(r, t, O, J)
    <3>1. Provided(q, t, f, R) /\ Covered(q, t, O, J)
      BY <1>0 DEF Clean
    <3>2. Disjoint(t, d) /\ t \in Tile /\ d \in Tile /\ d.s <= o.addr /\ o.addr + o.size <= d.e
      BY <1>0, <1>2, <2>2
    <3> QED  BY <1>0, <2>2, <2>8, <3>1, <3>2, GrownElsewhere
  <2>13. FreeListed(r, T \ D)
    BY <1>0, <1>2, <2>4 DEF FreeListed
  <2>14. Owned(r, T, O)
    <3>1. \A j \in 1..Len(r.pend) : (j \in 1..Len(q.pend) /\ r.pend[j] = q.pend[j]) \/ r.pend[j] = o
      BY <1>0, <2>2, <2>8, GrownQueue
    <3> QED  BY <1>0, <2>2, <3>1 DEF Owned
  <2>15. Core(r, T, D, O, f, R, J)
    BY <1>0, <2>4, <2>9, <2>10, <2>13, <2>14 DEF Core, Clean
  <2> QED  BY <2>4, <2>15 DEF r, Reserves
<1> QED  BY <1>3, <1>4

\* A tile to be changed is cut in two.
LEMMA HalvedCore ==
    ASSUME NEW q, NEW T, NEW O, NEW f, NEW R, NEW J, NEW t, Core(q, T, {t}, O, f, R, J), Covered(q, t, O, J),
           NEW a \in Tile, NEW b \in Tile, a.id = Free, b.id = Free, a.s = t.s, a.e = b.s, b.e = t.e
    PROVE  /\ Core(q, (T \ {t}) \cup {a, b}, {a, b}, O, f, R, J) /\ Covered(q, b, O, J)
           /\ BlocksOf((T \ {t}) \cup {a, b}) = BlocksOf(T) /\ a # b
<1>0. /\ QueueOK(q) /\ Tiling(q.size, T) /\ t \in T /\ t.id = Free /\ O \subseteq Block
      /\ Clean(q, T \ {t}, O, f, R, J) /\ FreeListed(q, T \ {t}) /\ Owned(q, T, O)
      /\ T \subseteq Tile
      /\ \A u \in T : u \in Tile /\ u.s \in Nat /\ u.e \in Nat /\ 1 <= u.s /\ u.s < u.e /\ u.e <= q.size
  BY CoreFacts
<1> DEFINE S == (T \ {t}) \cup {a, b}
<1>1. Tiling(q.size, S) /\ BlocksOf(S) = BlocksOf(T) /\ a \notin T /\ b \notin T /\ a # b
  BY <1>0, Halved
<1>2. S \ {a, b} = T \ {t}
  BY <1>1
<1>3. Owned(q, S, O)
  <2>1. \A j \in 1..Len(q.pend) : q.pend[j].id \in Block => ~ Own(q.pend[j], t)
    BY <1>0, Names DEF Own
  <2>2. \A j \in 1..Len(q.pend) : q.pend[j].id \in Block /\ q.pend[j].id \notin O => \E u \in S : Own(q.pend[j], u)
    BY <1>0, <2>1 DEF Owned
  <2>3. \A u \in S : u.id \notin O
    BY <1>0 DEF Owned
  <2> QED  BY <2>2, <2>3 DEF Owned
<1>4. \A x \in Nat : Inside(x, b) => Inside(x, t)
  BY <1>0, TileFacts DEF Inside
<1>5. Covered(q, b, O, J)
  <2> SUFFICES ASSUME NEW j \in 1..Len(q.pend), NEW x \in Nat, Inside(x, b), Writes(q.pend[j], x)
               PROVE Logged(q, b, x, O, J)
    BY DEF Covered
  <2>1. Logged(q, t, x, O, J)
    BY <1>4 DEF Covered
  <2> QED  BY <2>1 DEF Logged
<1>6. Core(q, S, {a, b}, O, f, R, J)
  BY <1>0, <1>1, <1>2, <1>3 DEF Core
<1> QED  BY <1>1, <1>5, <1>6

\* The file grows by a tile that is to be filled.
LEMMA Grows ==
    ASSUME NEW q, NEW T, NEW O, NEW f, NEW R, NEW J, Core(q, T, {}, O, f, R, J), NEW n \in Nat, n >= 1,
           NEW u, u = TileOf(Free, q.size, n, Absent)
    PROVE  /\ Core([q EXCEPT !.size = @ + n], T \cup {u}, {u}, O, f, R, J)
           /\ BlocksOf(T \cup {u}) = BlocksOf(T) /\ u.s = q.size /\ u.e = q.size + n
<1>0. /\ QueueOK(q) /\ Tiling(q.size, T) /\ O \subseteq Block /\ q.size \in Nat /\ 1 <= q.size
      /\ Clean(q, T \ {}, O, f, R, J) /\ FreeListed(q, T \ {}) /\ Owned(q, T, O)
  BY CoreFacts
<1> DEFINE p == [q EXCEPT !.size = @ + n]
<1>1. q \in [size : Nat, free : SUBSET (Nat \X Nat), pend : Seq(Operation), last : Nat]
  BY <1>0 DEF QueueOK
<1>2. /\ p \in [size : Nat, free : SUBSET (Nat \X Nat), pend : Seq(Operation), last : Nat]
      /\ p.size = q.size + n /\ p.free = q.free /\ p.pend = q.pend /\ p.last = q.last
  BY <1>0, <1>1
<1>3. u \in Tile /\ u.s = q.size /\ u.e = q.size + n /\ u.id = Free
  BY <1>0, TileIs, Names
<1> HIDE DEF p
<1>4. Tiling(p.size, T \cup {u}) /\ u \notin T /\ BlocksOf(T \cup {u}) = BlocksOf(T)
  BY <1>0, <1>2, <1>3, AddEnd
<1>5. QueueOK(p)
  BY <1>0, <1>2 DEF QueueOK
<1>6. (T \cup {u}) \ {u} = T /\ T \ {} = T
  BY <1>4
<1>7. Clean(p, T, O, f, R, J)
  BY <1>0, <1>2 DEF Clean, Provided, Serves, Covered, Logged
<1>8. FreeListed(p, T)
  BY <1>0, <1>2 DEF FreeListed
<1>9. Owned(p, T \cup {u}, O)
  BY <1>0, <1>2, <1>3, Names DEF Owned
<1>10. Core(p, T \cup {u}, {u}, O, f, R, J)
  BY <1>0, <1>3, <1>4, <1>5, <1>6, <1>7, <1>8, <1>9 DEF Core
<1> QED  BY <1>3, <1>4, <1>10 DEF p

\* A place for a block of n cells.
LEMMA OccupiedPlace ==
    ASSUME NEW q, NEW T, NEW O, NEW f, NEW R, NEW J, Core(q, T, {}, O, f, R, J), NEW n \in Nat, n >= 1,
           NEW r \in q.free, r[2] >= n
    PROVE  \E S, d : /\ Core(Occupy(q, r, n), S, {d}, O, f, R, J) /\ BlocksOf(S) = BlocksOf(T)
                     /\ d.s = r[1] /\ d.e = r[1] + n /\ Occupy(q, r, n).size <= q.size
<1> USE Names
<1>0. QueueOK(q) /\ q.size \in Nat
  BY CoreFacts
<1> DEFINE p == Unlist(q, r)
<1>1. PICK t \in T : Core(p, T, {t}, O, f, R, J) /\ r = <<t.s, t.e - t.s>> /\ t.id = Free /\ Covered(p, t, O, J)
  BY Unlisted
<1>2. /\ t \in Tile /\ t.s \in Nat /\ t.e \in Nat /\ 1 <= t.s /\ t.s < t.e
      /\ r[1] = t.s /\ r[2] = t.e - t.s
  BY <1>1, CoreFacts
<1>3. p.size = q.size /\ QueueOK(p)
  BY <1>0, <1>1, CoreFacts DEF Unlist, QueueOK
<1> HIDE DEF p
<1>4. CASE r[2] = n
  <2>1. Occupy(q, r, n) = InsertFreeBlock(p, r[1], n, FALSE, FALSE)
    <3>1. Occupy(q, r, n) = Unlist(InsertFreeBlock(q, r[1], n, FALSE, FALSE), r)
      BY <1>4 DEF Occupy, Split, Unlist
    <3>2. FALSE \in BOOLEAN
      OBVIOUS
    <3>3. Unlist(InsertFreeBlock(q, r[1], n, FALSE, FALSE), r) = InsertFreeBlock(Unlist(q, r), r[1], n, FALSE, FALSE)
      BY <1>0, QueueFields, UnlistReserve
    <3> QED  BY <3>1, <3>3, Zenon DEF p
  <2>2. t \in {t} /\ n = t.e - t.s
    BY <1>2, <1>4
  <2>3. /\ Core(InsertFreeBlock(p, t.s, n, FALSE, FALSE), T, {t}, O, f, R, J)
        /\ InsertFreeBlock(p, t.s, n, FALSE, FALSE).size = p.size
    <3>1. Reserves(p, T, {t}, O, f, R, J, InsertFreeBlock(p, t.s, n, FALSE, FALSE))
      BY <1>1, <2>2, Reserved
    <3> QED  BY <3>1 DEF Reserves
  <2>4. t.e = r[1] + n
    BY <1>2, <1>4
  <2>6. Occupy(q, r, n) = InsertFreeBlock(p, t.s, n, FALSE, FALSE)
    BY <1>2, <2>1, Zenon
  <2>5. Core(Occupy(q, r, n), T, {t}, O, f, R, J) /\ Occupy(q, r, n).size <= q.size
    <3>1. q.size <= q.size
      BY <1>0
    <3> QED  BY <1>3, <2>3, <2>6, <3>1
  <2> QED  BY <1>2, <2>4, <2>5
<1>5. CASE r[2] # n
  <2> DEFINE k == r[2] - n
             a == TileOf(Free, t.s, n, Absent)
             b == TileOf(Free, t.s + n, k, Absent)
             g == InsertFreeBlock(p, r[1] + n, k, FALSE, TRUE)
  <2>0. k \in Nat /\ k >= 1 /\ t.s + n \in Nat /\ t.s + n >= 1 /\ (t.s + n) + k = t.e
    BY <1>2, <1>5
  <2>1. /\ a \in Tile /\ a.s = t.s /\ a.e = t.s + n /\ a.id = Free
        /\ b \in Tile /\ b.s = t.s + n /\ b.e = t.e /\ b.id = Free
    <3> HIDE DEF k
    <3> QED  BY <1>2, <2>0, TileIs
  <2> DEFINE S == (T \ {t}) \cup {a, b}
  <2> HIDE DEF a, b
  <2>2. Core(p, S, {a, b}, O, f, R, J) /\ Covered(p, b, O, J) /\ BlocksOf(S) = BlocksOf(T) /\ a # b
    BY <1>1, <2>1, HalvedCore
  <2>3. b \in {a, b} /\ k = b.e - b.s /\ FALSE \in BOOLEAN /\ r[1] + n = b.s
    BY <1>2, <2>0, <2>1
  <2> HIDE DEF k, S
  <2>4. PICK S2 \in SUBSET S : /\ Core(InsertFreeBlock(p, b.s, k, FALSE, TRUE), S2, {a, b} \ {b}, O, f, R, J)
                               /\ BlocksOf(S2) = BlocksOf(S)
                               /\ InsertFreeBlock(p, b.s, k, FALSE, TRUE).size <= p.size
    <3>1. Inserts(p, S, {a, b}, b, InsertFreeBlock(p, b.s, k, FALSE, TRUE), O, f, R, J)
      BY <2>2, <2>3, Inserted
    <3> QED  BY <3>1 DEF Inserts
  <2>5. {a, b} \ {b} = {a}
    BY <2>2
  <2>6. Core(g, S2, {a}, O, f, R, J) /\ g.size <= p.size
    BY <2>3, <2>4, <2>5
  <2> HIDE DEF g
  <2>7. a \in {a} /\ n = a.e - a.s
    BY <1>2, <2>1
  <2>8. /\ Core(InsertFreeBlock(g, a.s, n, FALSE, FALSE), S2, {a}, O, f, R, J)
        /\ InsertFreeBlock(g, a.s, n, FALSE, FALSE).size = g.size
    <3>1. Reserves(g, S2, {a}, O, f, R, J, InsertFreeBlock(g, a.s, n, FALSE, FALSE))
      BY <2>6, <2>7, Reserved
    <3> QED  BY <3>1 DEF Reserves
  <2>9. Occupy(q, r, n) = InsertFreeBlock(g, r[1], n, FALSE, FALSE)
    <3> DEFINE h == InsertFreeBlock(q, r[1] + n, k, FALSE, TRUE)
    <3>1. Occupy(q, r, n) = Unlist(InsertFreeBlock(h, r[1], n, FALSE, FALSE), r)
      BY <1>5 DEF Occupy, Split, Unlist, k
    <3>2. FALSE \in BOOLEAN /\ TRUE \in BOOLEAN
      OBVIOUS
    <3>3. <<r[1] + n, k>> # r
      <4>1. r[1] + n # r[1]
        BY <1>2
      <4> QED  BY <4>1
    <3>4. Unlist(h, r) = g
      BY <1>0, <3>3, QueueFields, UnlistInsert DEF p, g
    <3>5. Fields(h)
      BY <1>0, <3>3, QueueFields, UnlistInsert
    <3> HIDE DEF h
    <3>6. Unlist(InsertFreeBlock(h, r[1], n, FALSE, FALSE), r) = InsertFreeBlock(Unlist(h, r), r[1], n, FALSE, FALSE)
      BY <3>5, UnlistReserve
    <3> QED  BY <3>1, <3>4, <3>6, Zenon
  <2>10. Core(Occupy(q, r, n), S2, {a}, O, f, R, J) /\ a.s = r[1]
    BY <1>2, <2>1, <2>8, <2>9
  <2>11. Occupy(q, r, n).size <= q.size /\ a.e = r[1] + n
    BY <1>2, <1>3, <2>1, <2>6, <2>8, <2>9
  <2>12. BlocksOf(S2) = BlocksOf(T)
    BY <2>2, <2>4
  <2> QED  BY <2>10, <2>11, <2>12
<1> QED  BY <1>4, <1>5

-----------------------------------------------------------------------------
(* A place for a block.                                                      *)

FoundAs(q, T, n, r, O, f, R, J) ==
    \E S, d : Core(r[2], S, {d}, O, f, R, J) /\ BlocksOf(S) = BlocksOf(T) /\ d.s = r[1] /\ d.e = r[1] + n

\* FindFreePosition leaves a free tile of the size asked for, that nothing else
\* uses.
LEMMA Found ==
    ASSUME NEW q, NEW T, NEW O, NEW f, NEW R, NEW J, Core(q, T, {}, O, f, R, J), NEW n \in Nat, n >= 1,
           NEW r \in FindFreePosition(q, n)
    PROVE  FoundAs(q, T, n, r, O, f, R, J)
<1>0. QueueOK(q) /\ q.size \in Nat /\ q.free \subseteq Nat \X Nat
  BY CoreFacts, QueueFacts
<1>1. CASE Suitable(q, n) = {}
  <2>1. r = <<q.size, [q EXCEPT !.size = @ + n]>>
    BY <1>1 DEF FindFreePosition
  <2>2. r[1] = q.size /\ r[2] = [q EXCEPT !.size = @ + n]
    BY <2>1
  <2> DEFINE u == TileOf(Free, q.size, n, Absent)
  <2>3. /\ Core([q EXCEPT !.size = @ + n], T \cup {u}, {u}, O, f, R, J)
        /\ BlocksOf(T \cup {u}) = BlocksOf(T) /\ u.s = q.size /\ u.e = q.size + n
    BY Grows
  <2> HIDE DEF u
  <2> QED  BY <2>2, <2>3 DEF FoundAs
<1>2. CASE Suitable(q, n) # {}
  <2>1. PICK g \in Suitable(q, n) : r = <<g[1], Occupy(q, g, n)>>
    BY <1>2 DEF FindFreePosition
  <2>2. g \in q.free /\ (g[2] = n \/ g[2] > 2 * n)
    BY DEF Suitable
  <2>3. g[2] \in Nat /\ g[2] >= n
    BY <1>0, <2>2
  <2>4. \E S, d : /\ Core(Occupy(q, g, n), S, {d}, O, f, R, J) /\ BlocksOf(S) = BlocksOf(T)
                  /\ d.s = g[1] /\ d.e = g[1] + n /\ Occupy(q, g, n).size <= q.size
    BY <2>2, <2>3, OccupiedPlace
  <2>5. r[1] = g[1] /\ r[2] = Occupy(q, g, n)
    BY <2>1
  <2> QED  BY <2>4, <2>5 DEF FoundAs
<1> QED  BY <1>1, <1>2

\* A block is queued for a tile that waits for it.
Puts(q, T, d, b, n, u, f, R, J) ==
    /\ Core([q EXCEPT !.pend = Append(@, BlockOp(b, d.s, n))], (T \ {d}) \cup {u}, {}, {}, f, R, J)
    /\ BlocksOf((T \ {d}) \cup {u}) = BlocksOf(T) \cup {u}

\* The block is put there.
LEMMA PutBlock ==
    ASSUME NEW q, NEW T, NEW f, NEW R, NEW J, NEW d, NEW b \in Block, Core(q, T, {d}, {}, f, R, J),
           \A t \in T : t.id # b, NEW n \in BlockSizes, n = d.e - d.s, NEW v \in Value
    PROVE  Puts(q, T, d, b, n, TileOf(b, d.s, n, v), f, R, J)
<1> DEFINE u == TileOf(b, d.s, n, v)
<1>a. u = TileOf(b, d.s, n, v)
  OBVIOUS
<1> HIDE DEF u
<1> USE <1>a
<1> USE Names
<1>0. /\ QueueOK(q) /\ Tiling(q.size, T) /\ d \in T /\ d.id = Free
      /\ Clean(q, T \ {d}, {}, f, R, J) /\ FreeListed(q, T \ {d}) /\ Owned(q, T, {})
      /\ q.size \in Nat /\ 1 <= q.size /\ T \subseteq Tile
      /\ \A t \in T : t \in Tile /\ t.s \in Nat /\ t.e \in Nat /\ 1 <= t.s /\ t.s < t.e /\ t.e <= q.size
      /\ \A t, w \in T : t = w \/ Disjoint(t, w)
  <2>1. /\ QueueOK(q) /\ Tiling(q.size, T) /\ {d} \subseteq T /\ (\A t \in {d} : t.id = Free)
        /\ Clean(q, T \ {d}, {}, f, R, J) /\ FreeListed(q, T \ {d}) /\ Owned(q, T, {})
    BY DEF Core
  <2> QED  BY <2>1, TilingFacts
<1>1. n \in Nat /\ n >= 1 /\ d.s + n = d.e
  BY <1>0, StoreAssumption
<1>2. u \in Tile /\ u.s = d.s /\ u.e = d.e /\ u.id = b /\ u.val = v
  <2>1. d.s \in Nat /\ d.s >= 1 /\ b \in Block \cup {Free} /\ v \in Value \cup {Absent} /\ (b \in Block => n \in BlockSizes /\ v \in Value)
    BY <1>0
  <2>2. /\ TileOf(b, d.s, n, v) \in Tile /\ TileOf(b, d.s, n, v).s = d.s /\ TileOf(b, d.s, n, v).e = d.s + n
        /\ TileOf(b, d.s, n, v).id = b /\ TileOf(b, d.s, n, v).val = v
    <3>1. (d.s + n) - d.s = n /\ d.s + n \in Nat /\ d.s < d.s + n
      BY <1>1, <2>1
    <3> QED  BY <1>1, <2>1, <3>1 DEF TileOf, Tile
  <2> QED  BY <1>1, <2>2
<1> DEFINE o == BlockOp(b, d.s, n)
           r == [q EXCEPT !.pend = Append(@, o)]
           S == (T \ {d}) \cup {u}
<1>3. \A j \in 1..Len(q.pend) : q.pend[j].id # b
  BY <1>0 DEF Owned, Own
<1>4. Fresh(q, o) /\ o.id = b /\ o.addr = d.s /\ o.size = n
  <2>1. o \in Operation /\ o.id = b /\ o.addr = d.s /\ o.size = n
    BY <1>0, <1>1 DEF BlockOp, Operation
  <2> HIDE DEF o
  <2> QED  BY <1>0, <1>1, <1>3, <2>1 DEF Fresh
<1> HIDE DEF o
<1>5. Grown(q, o, r) /\ r.size = q.size /\ r.free = q.free
  <2>1. q \in [size : Nat, free : SUBSET (Nat \X Nat), pend : Seq(Operation), last : Nat] /\ q.pend \in Seq(Operation)
    BY <1>0 DEF QueueOK
  <2>2. Append(q.pend, o) \in Seq(Operation)
    BY <1>4, <2>1 DEF Fresh
  <2> QED  BY <2>1, <2>2 DEF Grown
<1> HIDE DEF r
<1>6. QueueOK(r)
  BY <1>0, <1>4, <1>5, GrownQueue
<1>7. u \notin T
  BY <1>0, <1>2
<1>8. S \ {} = (T \ {d}) \cup {u} /\ T \ {d} = S \ {u}
  BY <1>7
<1>9. Tiling(r.size, S)
  BY <1>0, <1>2, <1>5, Retiled
<1>10. BlocksOf(S) = BlocksOf(T) \cup {u}
  BY <1>0, <1>2 DEF BlocksOf
<1>11. ASSUME NEW t \in T \ {d} PROVE Provided(r, t, f, R) /\ Covered(r, t, {}, J)
  <2>1. Provided(q, t, f, R) /\ Covered(q, t, {}, J)
    BY <1>0 DEF Clean
  <2>2. Disjoint(t, d) /\ t \in Tile /\ d \in Tile /\ d.s <= o.addr /\ o.addr + o.size <= d.e
    BY <1>0, <1>1, <1>4
  <2> QED  BY <1>0, <1>4, <1>5, <2>1, <2>2, GrownElsewhere
<1>12. Provided(r, u, f, R) /\ Covered(r, u, {}, J)
  <2>1. Own(o, u) /\ o.id \notin {}
    BY <1>2, <1>4 DEF Own
  <2>2. \A x \in Nat : Inside(x, u) => Writes(o, x)
    BY <1>1, <1>2, <1>4, <1>0 DEF Inside, Writes, Touches
  <2>3. \A j \in 1..Len(q.pend) : \A x \in Nat :
            Inside(x, u) /\ Writes(q.pend[j], x) => Logged(q, u, x, {}, J) \/ Writes(o, x)
    BY <2>2
  <2> QED  BY <1>0, <1>2, <1>4, <1>5, <2>1, <2>3, GrownOwn
<1>13. FreeListed(r, S)
  BY <1>0, <1>5 DEF FreeListed
<1>14. Owned(r, S, {})
  <2>1. \A j \in 1..Len(r.pend) : (j \in 1..Len(q.pend) /\ r.pend[j] = q.pend[j]) \/ r.pend[j] = o
    BY <1>0, <1>4, <1>5, GrownQueue
  <2>2. Own(o, u)
    BY <1>2, <1>4 DEF Own
  <2>3. ASSUME NEW j \in 1..Len(q.pend), q.pend[j].id \in Block PROVE \E t \in S : Own(q.pend[j], t)
    BY <1>0, <2>3 DEF Owned, Own
  <2> QED  BY <2>1, <2>2, <2>3 DEF Owned
<1>15. Core(r, S, {}, {}, f, R, J)
  <2>1. Clean(r, S \ {}, {}, f, R, J)
    BY <1>8, <1>11, <1>12 DEF Clean
  <2>2. FreeListed(r, S \ {})
    BY <1>8, <1>13
  <2> QED  BY <1>6, <1>9, <1>14, <2>1, <2>2 DEF Core
<1>16. Core([q EXCEPT !.pend = Append(@, BlockOp(b, d.s, n))], (T \ {d}) \cup {u}, {}, {}, f, R, J)
  BY <1>15 DEF r, o
<1> QED  BY <1>10, <1>16 DEF Puts, u

-----------------------------------------------------------------------------
(* Patches and the replay of a journal.                                      *)

Smaller == {p \in Nat \X Nat : p[1] < p[2]}

\* Induction over data goes by the least counterexample.
LEMMA LeastOf ==
    ASSUME NEW S, S \subseteq Nat, S # {}
    PROVE  \E x \in S : \A y \in S : x <= y
<1>1. IsWellFoundedOn(Smaller, Nat)
  BY NatLessThanWellFounded, Zenon DEF OpToRel, Smaller
<1>2. PICK x \in S : \A y \in S : ~ (<<y, x>> \in Smaller)
  BY <1>1, WFMin, Zenon
<1>3. \A y \in S : ~(y < x)
  BY <1>2 DEF Smaller
<1> QED  BY <1>3

\* The maximum of a bounded set of numbers.
LEMMA MaxIs ==
    ASSUME NEW S, S \subseteq Nat, S # {}, NEW n \in Nat, \A x \in S : x <= n
    PROVE  Max(S) \in S /\ \A y \in S : y <= Max(S)
<1> DEFINE D == {n - x : x \in S}
<1>1. D \subseteq Nat /\ D # {}
  <2>1. \A x \in S : x \in Nat /\ n - x \in Nat
    OBVIOUS
  <2>2. \E x : x \in S
    OBVIOUS
  <2> QED  BY <2>1, <2>2
<1>2. PICK d \in D : \A e \in D : d <= e
  <2> HIDE DEF D
  <2> QED  BY <1>1, LeastOf
<1>3. PICK x \in S : d = n - x
  OBVIOUS
<1>4. \A y \in S : x >= y
  <2> TAKE y \in S
  <2>1. n - y \in D
    OBVIOUS
  <2>2. n - x <= n - y
    BY <1>2, <1>3, <2>1
  <2> QED  BY <2>2
<1>5. Max(S) \in S /\ \A y \in S : Max(S) >= y
  BY <1>4 DEF Max
<1> QED  BY <1>5

\* Patch k of the first n is the last to write x.
LastTo(p, n, x, k) == k \in 1..n /\ x \in DOMAIN p[k] /\ \A i \in 1..n : k < i => x \notin DOMAIN p[i]

\* A cell after some patches: as it was, or as the last patch that has it.
LEMMA WrittenAt ==
    ASSUME NEW f, NEW p, NEW n \in Nat, NEW x \in Cells
    PROVE  \/ Written(f, p, n)[x] = f[x] /\ \A i \in 1..n : x \notin DOMAIN p[i]
           \/ \E k \in 1..n : LastTo(p, n, x, k) /\ Written(f, p, n)[x] = p[k][x]
<1> DEFINE w == {i \in 1..n : x \in DOMAIN p[i]}
<1>1. Written(f, p, n)[x] = IF w = {} THEN f[x] ELSE p[Max(w)][x]
  BY DEF Written
<1>2. CASE w = {}
  BY <1>1, <1>2
<1>3. CASE w # {}
  <2>1. w \subseteq Nat /\ \A i \in w : i <= n
    OBVIOUS
  <2> DEFINE k == Max(w)
  <2>2. k \in w /\ \A i \in w : i <= k
    <3> HIDE DEF w
    <3> QED  BY <1>3, <2>1, MaxIs
  <2>3. k \in 1..n /\ x \in DOMAIN p[k]
    BY <2>2
  <2>4. \A i \in 1..n : k < i => x \notin DOMAIN p[i]
    <3> TAKE i \in 1..n
    <3>1. i \in w => i <= k
      BY <2>2
    <3> HIDE DEF k
    <3> QED  BY <2>3, <3>1
  <2>5. Written(f, p, n)[x] = p[k][x]
    BY <1>1, <1>3
  <2> HIDE DEF k
  <2> QED  BY <2>3, <2>4, <2>5 DEF LastTo
<1> QED  BY <1>2, <1>3

\* It is as the last patch that has it.
LEMMA WrittenBy ==
    ASSUME NEW f, NEW p, NEW n \in Nat, NEW x \in Cells, NEW k, LastTo(p, n, x, k)
    PROVE  Written(f, p, n)[x] = p[k][x]
<1>1. PICK i \in 1..n : LastTo(p, n, x, i) /\ Written(f, p, n)[x] = p[i][x]
  BY WrittenAt DEF LastTo
<1>2. i = k
  BY <1>1 DEF LastTo
<1> QED  BY <1>1, <1>2

\* It is as it was if no patch has it.
LEMMA WrittenElse ==
    ASSUME NEW f, NEW p, NEW n \in Nat, NEW x \in Cells, \A i \in 1..n : x \notin DOMAIN p[i]
    PROVE  Written(f, p, n)[x] = f[x]
BY WrittenAt DEF LastTo

\* What is written over does not matter.
LEMMA WrittenSame ==
    ASSUME NEW f, NEW g, NEW p, NEW r, NEW n \in Nat, \A i \in 1..n : p[i] = r[i],
           \A x \in Cells : f[x] = g[x] \/ \E i \in 1..n : x \in DOMAIN p[i]
    PROVE  Written(f, p, n) = Written(g, r, n)
<1>1. ASSUME NEW x \in Cells PROVE Written(f, p, n)[x] = Written(g, r, n)[x]
  <2>1. CASE \A i \in 1..n : x \notin DOMAIN p[i]
    BY <2>1, WrittenElse
  <2>2. ASSUME NEW k \in 1..n, LastTo(p, n, x, k) PROVE Written(f, p, n)[x] = Written(g, r, n)[x]
    <3>1. LastTo(r, n, x, k)
      BY <2>2 DEF LastTo
    <3> QED  BY <2>2, <3>1, WrittenBy
  <2> QED  BY <2>1, <2>2, WrittenAt
<1>2. Written(f, p, n) = [x \in Cells |-> Written(f, p, n)[x]] /\ Written(g, r, n) = [x \in Cells |-> Written(g, r, n)[x]]
  BY DEF Written
<1> QED  BY <1>1, <1>2

\* The journal j replayed up to entry k on file f, and the cells it writes.
RecOf(f, j, k) == Written(f, [i \in 1..k |-> Effect(j[i])], k)
LogOf(j, k) == {x \in Cells : \E i \in 1..k : x \in DOMAIN Effect(j[i])}
FiniOf(j) == {k \in 1..Len(j) : j[k].sig = "fini"}
EndOf(j) == Max({0} \cup FiniOf(j))
Recovered == RecOf(file, journal, EndOf(journal))
Touched == LogOf(journal, EndOf(journal))

\* What ProcessJournal makes of the file (FileAccess.cpp).
LEMMA ReplayedIs ==
    /\ Finis = FiniOf(journal)
    /\ \A k \in {0} \cup Finis : Replayed[k] = RecOf(file, journal, k)
BY DEF Finis, FiniOf, Replayed, RecOf

\* Where the last transaction in the journal ends.
LEMMA EndIs ==
    ASSUME NEW j, Len(j) \in Nat
    PROVE  /\ EndOf(j) \in {0} \cup FiniOf(j) /\ EndOf(j) \in Nat /\ EndOf(j) <= Len(j)
           /\ \A k \in FiniOf(j) : k <= EndOf(j)
           /\ Len(j) > 0 /\ j[Len(j)].sig = "fini" => EndOf(j) = Len(j)
<1> DEFINE S == {0} \cup FiniOf(j)
<1>1. S \subseteq Nat /\ 0 \in S /\ \A k \in S : k <= Len(j)
  BY DEF FiniOf
<1>2. EndOf(j) \in S /\ \A k \in S : k <= EndOf(j)
  <2> HIDE DEF S
  <2>1. Max(S) \in S /\ \A k \in S : k <= Max(S)
    BY <1>1, MaxIs
  <2> QED  BY <2>1 DEF EndOf, S
<1>3. Len(j) > 0 /\ j[Len(j)].sig = "fini" => Len(j) \in FiniOf(j)
  BY DEF FiniOf
<1>4. EndOf(j) \in Nat /\ EndOf(j) <= Len(j)
  BY <1>1, <1>2
<1>5. Len(j) > 0 /\ j[Len(j)].sig = "fini" => EndOf(j) = Len(j)
  BY <1>2, <1>3, <1>4
<1> QED  BY <1>2, <1>4, <1>5

\* Replaying a journal makes the same file of two that differ only where the
\* journal writes.
LEMMA RecSame ==
    ASSUME NEW f, NEW g, NEW j, NEW h, NEW k \in Nat, \A i \in 1..k : j[i] = h[i],
           \A x \in Cells : f[x] = g[x] \/ x \in LogOf(j, k)
    PROVE  RecOf(f, j, k) = RecOf(g, h, k) /\ LogOf(j, k) = LogOf(h, k)
<1> DEFINE p == [i \in 1..k |-> Effect(j[i])]
           r == [i \in 1..k |-> Effect(h[i])]
<1>1. \A i \in 1..k : p[i] = r[i] /\ p[i] = Effect(j[i])
  OBVIOUS
<1>2. \A x \in Cells : f[x] = g[x] \/ \E i \in 1..k : x \in DOMAIN p[i]
  BY DEF LogOf
<1>3. Written(f, p, k) = Written(g, r, k)
  <2> HIDE DEF p, r
  <2> QED  BY <1>1, <1>2, WrittenSame
<1> QED  BY <1>3 DEF RecOf, LogOf

\* A cell after the replay.
LEMMA RecAt ==
    ASSUME NEW f, NEW j, NEW k \in Nat, NEW x \in Cells
    PROVE  \/ RecOf(f, j, k)[x] = f[x] /\ x \notin LogOf(j, k)
           \/ \E i \in 1..k : x \in DOMAIN Effect(j[i]) /\ RecOf(f, j, k)[x] = Effect(j[i])[x]
<1> DEFINE p == [i \in 1..k |-> Effect(j[i])]
<1>1. \A i \in 1..k : p[i] = Effect(j[i])
  OBVIOUS
<1>2. \/ Written(f, p, k)[x] = f[x] /\ \A i \in 1..k : x \notin DOMAIN p[i]
      \/ \E i \in 1..k : LastTo(p, k, x, i) /\ Written(f, p, k)[x] = p[i][x]
  <2> HIDE DEF p
  <2> QED  BY WrittenAt
<1>3. CASE Written(f, p, k)[x] = f[x] /\ \A i \in 1..k : x \notin DOMAIN p[i]
  BY <1>1, <1>3 DEF RecOf, LogOf
<1>4. CASE \E i \in 1..k : LastTo(p, k, x, i) /\ Written(f, p, k)[x] = p[i][x]
  BY <1>1, <1>4 DEF RecOf, LastTo
<1> QED  BY <1>2, <1>3, <1>4

-----------------------------------------------------------------------------
(* What a flush writes.                                                      *)

\* A block with a pending operation has its content in the cache.
Backed(q, T) == \A t \in T : \A j \in 1..Len(q.pend) :
                    t.id \in Block /\ Own(q.pend[j], t) => cache[t.id] = Carries(t)
Active(q, op) == op.id = Free => op.addr + op.size <= q.size

\* A pending operation writes the cells that Writes says, if its extent is
\* still in the file.
LEMMA PatchDomain ==
    ASSUME NEW q, NEW T, NEW f, NEW R, NEW J, Core(q, T, {}, {}, f, R, J), Backed(q, T),
           NEW j \in 1..Len(q.pend)
    PROVE  \A x : x \in DOMAIN Patch(q, q.pend[j]) <=> x \in Nat /\ Writes(q.pend[j], x) /\ Active(q, q.pend[j])
<1> USE Names
<1> DEFINE o == q.pend[j]
<1>0. /\ QueueOK(q) /\ Owned(q, T, {}) /\ q.size \in Nat
      /\ \A t \in T : t \in Tile /\ t.s \in Nat /\ t.e \in Nat /\ 1 <= t.s /\ t.s < t.e /\ t.e <= q.size
  BY CoreFacts
<1>1. /\ o.addr \in Nat /\ o.size \in Nat /\ o.id \in Block \cup {Free, Header}
      /\ o.id = Header => o.addr = 0 /\ o.size = 1
      /\ o.id # Header => o.addr >= 1 /\ o.size >= 1
  BY <1>0, QueueFacts
<1>2. CASE o.id = Free
  <2> HIDE DEF o
  <2>1. CASE o.addr + o.size <= q.size
    <3>1. Patch(q, o) = FreeCells(o.addr, o.size, o.wipe)
      BY <1>2, <2>1 DEF Patch
    <3>2. DOMAIN Patch(q, o) = IF o.wipe THEN o.addr .. o.addr + o.size - 1 ELSE {o.addr, o.addr + o.size - 1}
      BY <3>1 DEF FreeCells
    <3>3. ASSUME NEW x PROVE x \in DOMAIN Patch(q, o) <=> x \in Nat /\ Writes(o, x)
      BY <1>1, <1>2, <3>2 DEF Writes, Touches
    <3> QED  BY <2>1, <3>3 DEF Active, o
  <2>2. CASE ~(o.addr + o.size <= q.size)
    <3>1. Patch(q, o) = <<>>
      BY <1>2, <2>2 DEF Patch
    <3>2. DOMAIN Patch(q, o) = {}
      BY <3>1
    <3> QED  BY <1>2, <2>2, <3>2 DEF Active, o
  <2> QED  BY <2>1, <2>2
<1>3. CASE o.id = Header
  <2> HIDE DEF o
  <2>1. DOMAIN Patch(q, o) = {0}
    BY <1>3 DEF Patch
  <2>2. \A x : x \in {0} <=> x \in Nat /\ Writes(o, x)
    BY <1>1, <1>3 DEF Writes, Touches
  <2> QED  BY <1>3, <2>1, <2>2 DEF Active, o
<1>4. CASE o.id \in Block
  <2>1. PICK t \in T : Own(o, t)
    BY <1>0, <1>4 DEF Owned
  <2>2. cache[o.id] = Carries(t) /\ o.size = t.e - t.s
    BY <1>4, <2>1 DEF Backed, Own
  <2>3. cache[o.id].size = o.size
    BY <2>2 DEF Carries
  <2> HIDE DEF o
  <2>4. Patch(q, o) = BlockCells(o.id, o.addr, cache[o.id])
    BY <1>4 DEF Patch
  <2>5. DOMAIN Patch(q, o) = o.addr .. o.addr + o.size - 1
    BY <2>3, <2>4 DEF BlockCells
  <2>6. \A x : x \in DOMAIN Patch(q, o) <=> x \in Nat /\ Writes(o, x)
    BY <1>1, <1>4, <2>5 DEF Writes, Touches
  <2> QED  BY <1>4, <2>6 DEF Active, o
<1> QED  BY <1>1, <1>2, <1>3, <1>4

\* What a tile's own operation writes shows it.
LEMMA PatchShows ==
    ASSUME NEW q, NEW T, NEW f, NEW R, NEW J, Core(q, T, {}, {}, f, R, J), Backed(q, T),
           NEW j \in 1..Len(q.pend), NEW t \in T, Own(q.pend[j], t)
    PROVE  /\ \A x \in Nat : Needs(t, x) => x \in DOMAIN Patch(q, q.pend[j])
           /\ t.id = Free => Patch(q, q.pend[j])[t.s] = FreeCell(t.e - t.s, 0)
           /\ t.id # Free => \A x \in Nat : Inside(x, t) =>
                Patch(q, q.pend[j])[x] = [id |-> t.id, size |-> t.e - t.s, val |-> t.val, at |-> x - t.s]
<1> USE Names
<1> DEFINE o == q.pend[j]
<1>0. /\ t \in Tile /\ t.s \in Nat /\ t.e \in Nat /\ 1 <= t.s /\ t.s < t.e /\ t.e <= q.size /\ q.size \in Nat
      /\ t.id \in Block \cup {Free}
  BY CoreFacts, TileFacts
<1>1. o.id = t.id /\ o.addr = t.s /\ o.size = t.e - t.s
  BY DEF Own
<1>2. \A x : x \in DOMAIN Patch(q, o) <=> x \in Nat /\ Writes(o, x) /\ Active(q, o)
  BY PatchDomain
<1> DEFINE n == t.e - t.s
<1>4. t.id \in Block => cache[t.id] = Carries(t)
  BY DEF Backed
<1> HIDE DEF o
<1>3. Active(q, o) /\ n \in Nat /\ n >= 1 /\ t.s + n = t.e
  BY <1>0, <1>1 DEF Active
<1>5. \A x \in Nat : Needs(t, x) => x \in DOMAIN Patch(q, o)
  BY <1>0, <1>1, <1>2, <1>3 DEF Needs, Writes, Touches, Inside
<1>6. t.id = Free => Patch(q, o)[t.s] = FreeCell(n, 0)
  <2> HAVE t.id = Free
  <2>1. Patch(q, o) = FreeCells(t.s, n, o.wipe)
    BY <1>0, <1>1, <1>3 DEF Patch
  <2>2. t.s \in IF o.wipe THEN t.s .. t.s + n - 1 ELSE {t.s, t.s + n - 1}
    BY <1>0, <1>3
  <2> QED  BY <2>1, <2>2 DEF FreeCells
<1>7. t.id # Free => \A x \in Nat : Inside(x, t) =>
                Patch(q, o)[x] = [id |-> t.id, size |-> n, val |-> t.val, at |-> x - t.s]
  <2> SUFFICES ASSUME t.id # Free, NEW x \in Nat, Inside(x, t)
               PROVE Patch(q, o)[x] = [id |-> t.id, size |-> n, val |-> t.val, at |-> x - t.s]
    OBVIOUS
  <2>1. Patch(q, o) = BlockCells(t.id, t.s, Carries(t))
    BY <1>0, <1>1, <1>4 DEF Patch
  <2>2. x \in t.s .. t.s + n - 1
    BY <1>0, <1>3 DEF Inside
  <2>3. Carries(t).size = n /\ Carries(t).val = t.val
    BY DEF Carries
  <2> HIDE DEF n
  <2> QED  BY <2>1, <2>2, <2>3 DEF BlockCells
<1> QED  BY <1>5, <1>6, <1>7 DEF o

\* Of the cells before the end of the file, G has what the operations behind l
\* write, and else what B has.
Overwrites(G, B, q, l) ==
    \A x \in Cells : x < q.size =>
        \/ G[x] = B[x] /\ \A i \in 1..Len(q.pend) : l < i => x \notin DOMAIN Patch(q, q.pend[i])
        \/ \E k \in 1..Len(q.pend) :
            /\ l < k /\ x \in DOMAIN Patch(q, q.pend[k]) /\ G[x] = Patch(q, q.pend[k])[x]
            /\ \A i \in 1..Len(q.pend) : k < i => x \notin DOMAIN Patch(q, q.pend[i])

\* After such a write the file shows every tile, if it showed those that only
\* older operations would.
LEMMA TileComes ==
    ASSUME NEW q, NEW T, NEW f, NEW R, NEW J, Core(q, T, {}, {}, f, R, J), Backed(q, T), q.size <= MaxFile,
           NEW G, NEW B, NEW l \in Nat, Overwrites(G, B, q, l), NEW t \in T,
           \A k \in 0..Len(q.pend) : Serves(q, t, k, f, R) /\ k <= l => Shown(B, t)
    PROVE  Shown(G, t)
<1>0. /\ t \in Tile /\ t.s \in Nat /\ t.e \in Nat /\ 1 <= t.s /\ t.s < t.e /\ t.e <= q.size /\ q.size \in Nat
      /\ QueueOK(q) /\ Clean(q, T \ {}, {}, f, R, J) /\ Len(q.pend) \in Nat
  BY CoreFacts, QueueFacts
<1>1. PICK k \in 0..Len(q.pend) : Serves(q, t, k, f, R)
  BY <1>0 DEF Clean, Provided
<1>2. \A x \in Nat : Needs(t, x) => x \in Cells /\ x < q.size
  BY <1>0, StoreAssumption DEF Needs, Inside, Cells
<1>3. ASSUME NEW x \in Nat, Needs(t, x), NEW i \in 1..Len(q.pend), k < i PROVE x \notin DOMAIN Patch(q, q.pend[i])
  <2>1. ~Touches(q.pend[i], x)
    BY <1>1, <1>3 DEF Serves
  <2>2. q.pend[i].size >= 1 /\ q.pend[i].addr \in Nat /\ q.pend[i].size \in Nat
    <3>1. /\ q.pend[i].addr \in Nat /\ q.pend[i].size \in Nat
          /\ q.pend[i].id = Header => q.pend[i].size = 1
          /\ q.pend[i].id # Header => q.pend[i].size >= 1
      BY <1>0, QueueFacts
    <3> QED  BY <3>1
  <2>3. ~Writes(q.pend[i], x)
    BY <2>1, <2>2, WritesTouch
  <2> QED  BY <2>3, PatchDomain
<1>4. CASE k <= l
  <2>1. \A x \in Nat : Needs(t, x) => G[x] = B[x]
    <3> SUFFICES ASSUME NEW x \in Nat, Needs(t, x) PROVE G[x] = B[x]
      OBVIOUS
    <3>1. \A i \in 1..Len(q.pend) : l < i => x \notin DOMAIN Patch(q, q.pend[i])
      BY <1>3, <1>4
    <3> QED  BY <1>2, <3>1 DEF Overwrites
  <2>2. Shown(B, t)
    BY <1>1, <1>4
  <2> QED  BY <1>0, <2>1, <2>2 DEF Shown, Needs
<1>5. CASE ~(k <= l)
  <2>1. k \in 1..Len(q.pend) /\ Own(q.pend[k], t) /\ l < k
    BY <1>1, <1>5 DEF Serves
  <2>2. \A x \in Nat : Needs(t, x) => G[x] = Patch(q, q.pend[k])[x]
    <3> SUFFICES ASSUME NEW x \in Nat, Needs(t, x) PROVE G[x] = Patch(q, q.pend[k])[x]
      OBVIOUS
    <3>1. x \in DOMAIN Patch(q, q.pend[k])
      BY <2>1, PatchShows
    <3>2. PICK h \in 1..Len(q.pend) :
            /\ l < h /\ x \in DOMAIN Patch(q, q.pend[h]) /\ G[x] = Patch(q, q.pend[h])[x]
            /\ \A i \in 1..Len(q.pend) : h < i => x \notin DOMAIN Patch(q, q.pend[i])
      BY <1>2, <2>1, <3>1 DEF Overwrites
    <3>3. ~(k < h) /\ ~(h < k)
      BY <1>3, <2>1, <3>1, <3>2
    <3> QED  BY <2>1, <3>2, <3>3
  <2>3. /\ t.id = Free => Patch(q, q.pend[k])[t.s] = FreeCell(t.e - t.s, 0)
        /\ t.id # Free => \A x \in Nat : Inside(x, t) =>
                Patch(q, q.pend[k])[x] = [id |-> t.id, size |-> t.e - t.s, val |-> t.val, at |-> x - t.s]
    BY <2>1, PatchShows
  <2> QED  BY <1>0, <2>2, <2>3 DEF Shown, Needs
<1> QED  BY <1>4, <1>5

\* And the header, if one is queued.
LEMMA HeaderComes ==
    ASSUME NEW q, NEW T, NEW f, NEW R, NEW J, Core(q, T, {}, {}, f, R, J), Backed(q, T), q.size <= MaxFile,
           NEW G, NEW B, NEW l \in Nat, Overwrites(G, B, q, l)
    PROVE  \/ G[0] = HeaderCell(q.size)
           \/ G[0] = B[0] /\ \A i \in 1..Len(q.pend) : l < i => q.pend[i].id # Header
<1>0. QueueOK(q) /\ q.size \in Nat /\ 1 <= q.size
  BY CoreFacts
<1>1. 0 \in Cells /\ 0 < q.size
  BY <1>0, StoreAssumption DEF Cells
<1>2. ASSUME NEW i \in 1..Len(q.pend)
      PROVE 0 \in DOMAIN Patch(q, q.pend[i]) <=> q.pend[i].id = Header
  <2>1. /\ q.pend[i].id = Header => q.pend[i].addr = 0 /\ q.pend[i].size = 1
        /\ q.pend[i].id # Header => q.pend[i].addr >= 1 /\ q.pend[i].size >= 1
        /\ q.pend[i].addr \in Nat /\ q.pend[i].size \in Nat
    BY <1>0, QueueFacts
  <2>2. Writes(q.pend[i], 0) /\ Active(q, q.pend[i]) <=> q.pend[i].id = Header
    BY <2>1, Names DEF Writes, Touches, Active
  <2> QED  BY <2>2, PatchDomain
<1>3. CASE G[0] = B[0] /\ \A i \in 1..Len(q.pend) : l < i => 0 \notin DOMAIN Patch(q, q.pend[i])
  BY <1>2, <1>3
<1>4. ASSUME NEW k \in 1..Len(q.pend), 0 \in DOMAIN Patch(q, q.pend[k]), G[0] = Patch(q, q.pend[k])[0]
      PROVE G[0] = HeaderCell(q.size)
  <2>1. q.pend[k].id = Header
    BY <1>2, <1>4
  <2>2. Patch(q, q.pend[k]) = [x \in {0} |-> HeaderCell(q.size)]
    BY <2>1, Names DEF Patch
  <2> QED  BY <1>4, <2>2
<1> QED  BY <1>1, <1>3, <1>4 DEF Overwrites

-----------------------------------------------------------------------------
(* The commit.                                                               *)

\* Division, as the provers need it.
LEMMA Quotient ==
    ASSUME NEW a \in Nat, NEW b \in Nat, b >= 1
    PROVE  /\ a \div b \in Nat /\ (a \div b) * b \in Nat
           /\ (a \div b) * b <= a /\ a < (a \div b) * b + b
<1>1. a \div b \in Int
  OBVIOUS
<1>2. a \div b >= 0
  OBVIOUS
<1>3. (a \div b) * b <= a /\ a < (a \div b) * b + b
  OBVIOUS
<1>4. \A g \in Nat : g * b \in Nat
  OBVIOUS
<1> QED  BY <1>1, <1>2, <1>3, <1>4

\* The file is at least as large as what is used of it.
LEMMA AllocAbove ==
    ASSUME NEW n \in Nat
    PROVE  Alloc(n) \in Nat /\ Alloc(n) >= n /\ Alloc(n) >= 1
<1> DEFINE a == n + Granularity - 1
           g == a \div Granularity
<1>0. Granularity \in Nat /\ Granularity >= 1
  BY StoreAssumption
<1>1. a \in Nat /\ a + 1 = n + Granularity
  BY <1>0
<1>7. Alloc(n) = IF g = 0 THEN Granularity ELSE g * Granularity
  BY DEF Alloc
<1> HIDE DEF a
<1>2. g \in Nat /\ g * Granularity \in Nat /\ a < g * Granularity + Granularity
  BY <1>0, <1>1, Quotient
<1> HIDE DEF g
<1>4. g * Granularity >= n
  BY <1>0, <1>1, <1>2
<1>5. g # 0 => g * Granularity >= 1
  <2>1. CASE g >= 1
    <3>1. g * Granularity >= Granularity
      BY <1>0, <1>2, <2>1
    <3> QED  BY <1>0, <1>2, <3>1
  <2> QED  BY <1>2, <2>1
<1>6. g = 0 => n = 0
  <2>1. g = 0 => g * Granularity = 0
    BY <1>0
  <2> QED  BY <1>2, <1>4, <2>1
<1> DEFINE h == g * Granularity
<1> HIDE DEF h
<1> QED  BY <1>0, <1>2, <1>4, <1>5, <1>6, <1>7 DEF h

\* A full flush: each operation in turn.
LEMMA FlushOverwrites ==
    ASSUME NEW q, QueueOK(q), q.size <= MaxFile, NEW f,
           NEW p, \A k \in 1..Len(q.pend) : p[k] = Patch(q, q.pend[k])
    PROVE  Overwrites(Written(Truncate(f, q.size), p, Len(q.pend)), f, q, 0)
<1>0. q.size \in Nat /\ Len(q.pend) \in Nat
  BY QueueFacts
<1> DEFINE G == Written(Truncate(f, q.size), p, Len(q.pend))
<1> HIDE DEF G
<1> SUFFICES ASSUME NEW x \in Cells, x < q.size
             PROVE  \/ G[x] = f[x] /\ \A i \in 1..Len(q.pend) : 0 < i => x \notin DOMAIN Patch(q, q.pend[i])
                    \/ \E k \in 1..Len(q.pend) :
                        /\ 0 < k /\ x \in DOMAIN Patch(q, q.pend[k]) /\ G[x] = Patch(q, q.pend[k])[x]
                        /\ \A i \in 1..Len(q.pend) : k < i => x \notin DOMAIN Patch(q, q.pend[i])
  BY DEF Overwrites, G
<1>1. Truncate(f, q.size)[x] = f[x]
  <2>1. x < Alloc(q.size)
    <3>1. Alloc(q.size) \in Nat /\ Alloc(q.size) >= q.size
      BY <1>0, AllocAbove, Zenon
    <3>2. x \in Nat
      BY StoreAssumption DEF Cells
    <3> QED  BY <1>0, <3>1, <3>2
  <2> QED  BY <2>1 DEF Truncate, Cut
<1>2. \A i \in 1..Len(q.pend) : p[i] = Patch(q, q.pend[i])
  OBVIOUS
<1>3. \/ G[x] = Truncate(f, q.size)[x] /\ \A i \in 1..Len(q.pend) : x \notin DOMAIN p[i]
      \/ \E k \in 1..Len(q.pend) : LastTo(p, Len(q.pend), x, k) /\ G[x] = p[k][x]
  <2> DEFINE n == Len(q.pend)
             c == Truncate(f, q.size)
  <2>1. n \in Nat
    BY <1>0
  <2> HIDE DEF n, c
  <2>2. \/ Written(c, p, n)[x] = c[x] /\ \A i \in 1..n : x \notin DOMAIN p[i]
        \/ \E k \in 1..n : LastTo(p, n, x, k) /\ Written(c, p, n)[x] = p[k][x]
    BY <2>1, WrittenAt
  <2> QED  BY <2>2 DEF G, n, c
<1>4. CASE G[x] = Truncate(f, q.size)[x] /\ \A i \in 1..Len(q.pend) : x \notin DOMAIN p[i]
  BY <1>1, <1>2, <1>4
<1>5. ASSUME NEW k \in 1..Len(q.pend), LastTo(p, Len(q.pend), x, k), G[x] = p[k][x]
      PROVE  /\ 0 < k /\ x \in DOMAIN Patch(q, q.pend[k]) /\ G[x] = Patch(q, q.pend[k])[x]
             /\ \A i \in 1..Len(q.pend) : k < i => x \notin DOMAIN Patch(q, q.pend[i])
  BY <1>2, <1>5 DEF LastTo
<1> QED  BY <1>3, <1>4, <1>5

\* The journal j when what is new in queue q was added to it.
Closing(j, q) == Append(j \o Entries(q), Fini(q))

Closes(h, j, q, e) ==
    /\ Len(h) = Len(j) + e + 1 /\ e \in Nat /\ Len(j) \in Nat
    /\ \A i \in 1..Len(j) : h[i] = j[i]
    /\ \A i \in 1..e : /\ h[Len(j) + i].sig = "writ" /\ q.last + i \in 1..Len(q.pend)
                        /\ h[Len(j) + i].patch = Patch(q, q.pend[q.last + i])
                        /\ Effect(h[Len(j) + i]) = Patch(q, q.pend[q.last + i])
    /\ h[Len(h)] = Fini(q) /\ h[Len(h)].sig = "fini" /\ h[Len(h)].size = q.size /\ h[Len(h)].patch = <<>>
    /\ Effect(h[Len(h)]) = [x \in Alloc(q.size) .. MaxFile |-> Zero]

\* The entries of the new journal: the old ones, one for each new operation,
\* and a 'fini'.
LEMMA ClosingIs ==
    ASSUME NEW S, NEW j \in Seq(S), NEW q, QueueOK(q)
    PROVE  Closes(Closing(j, q), j, q, Len(q.pend) - q.last)
<1> DEFINE e == Len(q.pend) - q.last
           E == Entries(q)
           P(i) == Patch(q, q.pend[q.last + i])
           U == S \cup {E[i] : i \in 1..e} \cup {Fini(q)}
<1>0. e \in Nat /\ Len(j) \in Nat /\ q.last \in Nat /\ Len(q.pend) \in Nat
  BY QueueFacts
<1>1. E \in Seq(U) /\ Len(E) = e /\ \A i \in 1..e : E[i] = [sig |-> "writ", patch |-> P(i), size |-> 0]
  <2>1. E = [i \in 1..e |-> [sig |-> "writ", patch |-> P(i), size |-> 0]]
    BY DEF Entries
  <2>2. \A i \in 1..e : E[i] \in U
    OBVIOUS
  <2>3. DOMAIN E = 1..e /\ E = [i \in 1..e |-> E[i]]
    BY <2>1
  <2> HIDE DEF E, U, e
  <2>4. E \in [1..e -> U]
    BY <2>2, <2>3
  <2> QED  BY <1>0, <2>1, <2>3, <2>4
<1>2. j \in Seq(U) /\ Fini(q) \in U
  <2>1. S \subseteq U /\ Fini(q) \in U
    OBVIOUS
  <2> HIDE DEF U
  <2> QED  BY <2>1
<1> DEFINE g == j \o E
           h == Append(g, Fini(q))
<1> HIDE DEF U, E, P
<1>3. /\ g \in Seq(U) /\ Len(g) = Len(j) + e
      /\ \A i \in 1..Len(j) + e : g[i] = IF i <= Len(j) THEN j[i] ELSE E[i - Len(j)]
  BY <1>1, <1>2, ConcatProperties
<1> HIDE DEF g, e
<1>4. Len(h) = Len(j) + e + 1 /\ h[Len(h)] = Fini(q) /\ \A i \in 1..Len(j) + e : h[i] = g[i]
  <2> DEFINE F == Fini(q)
  <2> HIDE DEF F
  <2>1. /\ Len(Append(g, F)) = Len(g) + 1 /\ Append(g, F)[Len(g) + 1] = F
        /\ \A i \in 1..Len(g) : Append(g, F)[i] = g[i]
    BY <1>3, <1>2, AppendProperties DEF F
  <2> QED  BY <1>0, <1>3, <2>1 DEF F
<1>5. h = Closing(j, q)
  BY DEF Closing, g, E
<1> HIDE DEF h
<1>6. \A i \in 1..Len(j) : h[i] = j[i]
  BY <1>0, <1>3, <1>4
<1>7. ASSUME NEW i \in 1..e
      PROVE  h[Len(j) + i] = [sig |-> "writ", patch |-> P(i), size |-> 0] /\ q.last + i \in 1..Len(q.pend)
  <2>1. Len(j) + i \in 1..Len(j) + e /\ ~(Len(j) + i <= Len(j)) /\ (Len(j) + i) - Len(j) = i
    BY <1>0
  <2>2. h[Len(j) + i] = E[i]
    BY <1>3, <1>4, <2>1
  <2> QED  BY <1>0, <1>1, <2>2 DEF e
<1>8. \A i \in 1..e : /\ h[Len(j) + i].sig = "writ" /\ h[Len(j) + i].patch = P(i)
                      /\ Effect(h[Len(j) + i]) = P(i)
  <2> SUFFICES ASSUME NEW i \in 1..e
               PROVE  /\ h[Len(j) + i].sig = "writ" /\ h[Len(j) + i].patch = P(i)
                      /\ Effect(h[Len(j) + i]) = P(i)
    OBVIOUS
  <2> DEFINE d == P(i)
             y == h[Len(j) + i]
  <2>1. y = [sig |-> "writ", patch |-> d, size |-> 0]
    BY <1>7
  <2> HIDE DEF d, y
  <2>2. y.sig = "writ" /\ y.patch = d /\ Effect(y) = d
    BY <2>1 DEF Effect
  <2> QED  BY <2>2 DEF d, y
<1>9. /\ h[Len(h)].sig = "fini" /\ h[Len(h)].size = q.size /\ h[Len(h)].patch = <<>>
      /\ Effect(h[Len(h)]) = [x \in Alloc(q.size) .. MaxFile |-> Zero]
  BY <1>4 DEF Fini, Effect
<1>10. Closes(h, j, q, e)
  BY <1>0, <1>4, <1>6, <1>7, <1>8, <1>9 DEF Closes, P
<1> QED  BY <1>5, <1>10 DEF e

\* Replaying what a commit added overwrites what was replayed before.
LEMMA CommitOverwrites ==
    ASSUME NEW S, NEW j \in Seq(S), NEW q, QueueOK(q), q.size <= MaxFile, NEW f
    PROVE  Overwrites(RecOf(f, Closing(j, q), Len(Closing(j, q))), RecOf(f, j, Len(j)), q, q.last)
<1> DEFINE h == Closing(j, q)
           e == Len(q.pend) - q.last
           G == RecOf(f, h, Len(h))
           B == RecOf(f, j, Len(j))
           p == [i \in 1..Len(h) |-> Effect(h[i])]
           r == [i \in 1..Len(j) |-> Effect(j[i])]
<1>0. /\ Len(h) = Len(j) + e + 1 /\ e \in Nat /\ Len(j) \in Nat
      /\ \A i \in 1..Len(j) : h[i] = j[i]
      /\ \A i \in 1..e : Effect(h[Len(j) + i]) = Patch(q, q.pend[q.last + i])
      /\ Effect(h[Len(h)]) = [x \in Alloc(q.size) .. MaxFile |-> Zero]
  <2>1. Closes(h, j, q, e)
    BY ClosingIs
  <2> HIDE DEF h, e
  <2> QED  BY <2>1 DEF Closes
<1>1. q.size \in Nat /\ Len(q.pend) \in Nat /\ q.last \in Nat /\ q.last <= Len(q.pend)
  BY QueueFacts
<1>2. \A i \in 1..Len(q.pend) : q.last < i => i - q.last \in 1..e /\ q.last + (i - q.last) = i
  BY <1>1
<1>3. G = Written(f, p, Len(h)) /\ B = Written(f, r, Len(j))
  BY DEF RecOf
<1>4. /\ \A i \in 1..Len(h) : p[i] = Effect(h[i])
      /\ \A i \in 1..Len(j) : r[i] = Effect(j[i])
  OBVIOUS
<1> HIDE DEF h, G, B, p, r, e
<1> SUFFICES ASSUME NEW x \in Cells, x < q.size
      PROVE  \/ G[x] = B[x] /\ \A i \in 1..Len(q.pend) : q.last < i => x \notin DOMAIN Patch(q, q.pend[i])
             \/ \E k \in 1..Len(q.pend) :
                 /\ q.last < k /\ x \in DOMAIN Patch(q, q.pend[k]) /\ G[x] = Patch(q, q.pend[k])[x]
                 /\ \A i \in 1..Len(q.pend) : k < i => x \notin DOMAIN Patch(q, q.pend[i])
  BY DEF Overwrites, G, B, h
<1>6. Len(h) \in Nat /\ x \notin DOMAIN p[Len(h)]
  <2>1. Alloc(q.size) \in Nat /\ Alloc(q.size) >= q.size
    BY <1>1, AllocAbove, Zenon
  <2>2. x \in Nat /\ MaxFile \in Nat
    BY StoreAssumption DEF Cells
  <2>3. Len(h) \in Nat /\ Len(h) \in 1..Len(h)
    BY <1>0
  <2>4. DOMAIN p[Len(h)] = Alloc(q.size) .. MaxFile
    BY <1>0, <1>4, <2>3
  <2> QED  BY <1>1, <2>1, <2>2, <2>3, <2>4
<1>7. \A i \in 1..Len(j) : i \in 1..Len(h) /\ p[i] = r[i]
  BY <1>0, <1>4
<1>8. \A i \in 1..Len(q.pend) : q.last < i => /\ Len(j) + (i - q.last) \in 1..Len(h)
                                               /\ p[Len(j) + (i - q.last)] = Patch(q, q.pend[i])
  <2> TAKE i \in 1..Len(q.pend)
  <2> HAVE q.last < i
  <2> DEFINE k == i - q.last
  <2>1. k \in 1..e /\ q.last + k = i
    BY <1>2
  <2> HIDE DEF k
  <2>2. Len(j) + k \in 1..Len(h)
    BY <1>0, <2>1
  <2>3. Effect(h[Len(j) + k]) = Patch(q, q.pend[i])
    BY <1>0, <2>1
  <2> QED  BY <1>4, <2>2, <2>3 DEF k
<1>9. \/ G[x] = f[x] /\ \A i \in 1..Len(h) : x \notin DOMAIN p[i]
      \/ \E k \in 1..Len(h) : LastTo(p, Len(h), x, k) /\ G[x] = p[k][x]
  BY <1>3, <1>6, WrittenAt
<1>10. CASE G[x] = f[x] /\ \A i \in 1..Len(h) : x \notin DOMAIN p[i]
  <2>1. B[x] = f[x]
    <3>1. \A i \in 1..Len(j) : x \notin DOMAIN r[i]
      BY <1>7, <1>10
    <3> QED  BY <1>0, <1>3, <3>1, WrittenElse
  <2>2. \A i \in 1..Len(q.pend) : q.last < i => x \notin DOMAIN Patch(q, q.pend[i])
    BY <1>8, <1>10
  <2> QED  BY <1>10, <2>1, <2>2
<1>11. ASSUME NEW k \in 1..Len(h), LastTo(p, Len(h), x, k), G[x] = p[k][x], k <= Len(j)
       PROVE  G[x] = B[x] /\ \A i \in 1..Len(q.pend) : q.last < i => x \notin DOMAIN Patch(q, q.pend[i])
  <2>1. k \in 1..Len(j)
    BY <1>0, <1>11
  <2>2. LastTo(r, Len(j), x, k)
    BY <1>7, <1>11, <2>1 DEF LastTo
  <2>3. B[x] = r[k][x]
    BY <1>0, <1>3, <2>2, WrittenBy
  <2>4. ASSUME NEW i \in 1..Len(q.pend), q.last < i PROVE x \notin DOMAIN Patch(q, q.pend[i])
    <3>1. Len(j) + (i - q.last) > k
      BY <1>0, <1>1, <1>11, <2>4
    <3> QED  BY <1>8, <1>11, <2>4, <3>1 DEF LastTo
  <2> QED  BY <1>7, <1>11, <2>1, <2>3, <2>4
<1>12. ASSUME NEW k \in 1..Len(h), LastTo(p, Len(h), x, k), G[x] = p[k][x], ~(k <= Len(j))
       PROVE  \E n \in 1..Len(q.pend) :
                 /\ q.last < n /\ x \in DOMAIN Patch(q, q.pend[n]) /\ G[x] = Patch(q, q.pend[n])[x]
                 /\ \A i \in 1..Len(q.pend) : n < i => x \notin DOMAIN Patch(q, q.pend[i])
  <2>1. k # Len(h)
    BY <1>6, <1>12 DEF LastTo
  <2> DEFINE n == q.last + (k - Len(j))
  <2>2. n \in 1..Len(q.pend) /\ q.last < n /\ Len(j) + (n - q.last) = k
    <3> DEFINE d == k - Len(j)
    <3>1. d \in 1..e /\ Len(j) + d = k
      <4>1. Len(h) = Len(j) + e + 1 /\ e \in Nat /\ Len(j) \in Nat
        BY <1>0
      <4> QED  BY <4>1, <1>12, <2>1
    <3>2. e = Len(q.pend) - q.last
      BY DEF e
    <3> HIDE DEF d
    <3>3. ASSUME NEW a \in Nat, NEW z \in Nat, a <= z, d \in 1 .. z - a
          PROVE  a + d \in 1..z /\ a < a + d /\ (a + d) - a = d
      BY <3>3
    <3>4. q.last \in Nat /\ Len(q.pend) \in Nat /\ q.last <= Len(q.pend)
      BY <1>1
    <3>5. q.last + d \in 1..Len(q.pend) /\ q.last < q.last + d /\ (q.last + d) - q.last = d
      BY ONLY <3>1, <3>2, <3>3, <3>4
    <3> QED  BY <3>1, <3>5 DEF d
  <2> HIDE DEF n
  <2>3. p[k] = Patch(q, q.pend[n])
    BY <1>8, <2>2
  <2>4. ASSUME NEW i \in 1..Len(q.pend), n < i PROVE x \notin DOMAIN Patch(q, q.pend[i])
    <3>1. Len(j) + (i - q.last) > k /\ q.last < i
      BY <1>0, <1>1, <2>2, <2>4
    <3> QED  BY <1>8, <1>12, <3>1 DEF LastTo
  <2> QED  BY <1>12, <2>2, <2>3, <2>4 DEF LastTo
<1> QED  BY <1>9, <1>10, <1>11, <1>12

\* The cells that the journal writes after a commit.
LEMMA CommitLogs ==
    ASSUME NEW S, NEW j \in Seq(S), NEW q, QueueOK(q)
    PROVE  /\ LogOf(j, Len(j)) \subseteq LogOf(Closing(j, q), Len(Closing(j, q)))
           /\ \A i \in 1..Len(q.pend) : q.last < i =>
                \A x \in Cells : x \in DOMAIN Patch(q, q.pend[i]) => x \in LogOf(Closing(j, q), Len(Closing(j, q)))
           /\ \A x \in Cells : x >= Alloc(q.size) => x \in LogOf(Closing(j, q), Len(Closing(j, q)))
<1> DEFINE h == Closing(j, q)
           e == Len(q.pend) - q.last
<1>0. /\ Len(h) = Len(j) + e + 1 /\ e \in Nat /\ Len(j) \in Nat
      /\ \A i \in 1..Len(j) : h[i] = j[i]
      /\ \A i \in 1..e : Effect(h[Len(j) + i]) = Patch(q, q.pend[q.last + i])
      /\ Effect(h[Len(h)]) = [x \in Alloc(q.size) .. MaxFile |-> Zero]
  <2>1. Closes(h, j, q, e)
    BY ClosingIs
  <2> HIDE DEF h, e
  <2> QED  BY <2>1 DEF Closes
<1>1. q.size \in Nat /\ Len(q.pend) \in Nat /\ q.last \in Nat /\ q.last <= Len(q.pend)
  BY QueueFacts
<1> HIDE DEF h
<1>2. \A i \in 1..Len(j) : i \in 1..Len(h)
  BY <1>0
<1>3. LogOf(j, Len(j)) \subseteq LogOf(h, Len(h))
  BY <1>0, <1>2 DEF LogOf
<1>4. ASSUME NEW i \in 1..Len(q.pend), q.last < i, NEW x \in Cells, x \in DOMAIN Patch(q, q.pend[i])
      PROVE  x \in LogOf(h, Len(h))
  <2> DEFINE k == i - q.last
  <2>1. k \in 1..e /\ q.last + k = i
    BY <1>1, <1>4
  <2> HIDE DEF k
  <2>2. Len(j) + k \in 1..Len(h)
    BY <1>0, <2>1
  <2>3. Effect(h[Len(j) + k]) = Patch(q, q.pend[i])
    BY <1>0, <2>1
  <2> QED  BY <1>4, <2>2, <2>3 DEF LogOf
<1>5. ASSUME NEW x \in Cells, x >= Alloc(q.size) PROVE x \in LogOf(h, Len(h))
  <2>1. x \in 0..MaxFile /\ MaxFile \in Nat
    BY StoreAssumption DEF Cells
  <2>2. Alloc(q.size) \in Nat
    BY <1>1, AllocAbove, Zenon
  <2>3. x \in Alloc(q.size) .. MaxFile
    BY <1>5, <2>1, <2>2
  <2>4. Len(h) \in 1..Len(h)
    BY <1>0
  <2>5. x \in DOMAIN Effect(h[Len(h)])
    BY <1>0, <2>3
  <2> QED  BY <2>4, <2>5 DEF LogOf
<1> QED  BY <1>3, <1>4, <1>5 DEF h

\* A commit: the journal has the whole queue, and makes it good.
LEMMA Committed ==
    ASSUME NEW q, NEW T, NEW f, NEW S, NEW j \in Seq(S),
           Core(q, T, {}, {}, f, RecOf(f, j, Len(j)), LogOf(j, Len(j))), Backed(q, T), q.size <= MaxFile
    PROVE  /\ Core([q EXCEPT !.last = Len(q.pend)], T, {}, {}, f,
                   RecOf(f, Closing(j, q), Len(Closing(j, q))), LogOf(Closing(j, q), Len(Closing(j, q))))
           /\ \A t \in T : Shown(RecOf(f, Closing(j, q), Len(Closing(j, q))), t)
<1> DEFINE h == Closing(j, q)
           G == RecOf(f, h, Len(h))
           B == RecOf(f, j, Len(j))
           J == LogOf(j, Len(j))
           L == LogOf(h, Len(h))
           r == [q EXCEPT !.last = Len(q.pend)]
<1>0. QueueOK(q) /\ Tiling(q.size, T) /\ Clean(q, T, {}, f, B, J) /\ FreeListed(q, T) /\ Owned(q, T, {})
  <2>1. T \ {} = T
    OBVIOUS
  <2> QED  BY <2>1 DEF Core
<1>1. Overwrites(G, B, q, q.last)
  BY <1>0, CommitOverwrites
<1>2. /\ J \subseteq L
      /\ \A i \in 1..Len(q.pend) : q.last < i => \A x \in Cells : x \in DOMAIN Patch(q, q.pend[i]) => x \in L
  BY <1>0, CommitLogs
<1> HIDE DEF h, G, B, J, L
<1>3. q.size \in Nat /\ Len(q.pend) \in Nat /\ q.last \in Nat /\ q.last <= Len(q.pend)
  BY <1>0, QueueFacts
<1>4. ASSUME NEW t \in T PROVE Shown(G, t)
  <2>1. \A k \in 0..Len(q.pend) : Serves(q, t, k, f, B) /\ k <= q.last => Shown(B, t)
    BY DEF Serves
  <2>2. Core(q, T, {}, {}, f, B, J)
    BY DEF B, J
  <2> QED  BY <1>1, <1>3, <2>1, <2>2, TileComes
<1>5. /\ r.size = q.size /\ r.free = q.free /\ r.pend = q.pend /\ r.last = Len(q.pend)
      /\ r \in [size : Nat, free : SUBSET (Nat \X Nat), pend : Seq(Operation), last : Nat]
  <2>1. q \in [size : Nat, free : SUBSET (Nat \X Nat), pend : Seq(Operation), last : Nat]
    BY <1>0 DEF QueueOK
  <2> QED  BY <1>3, <2>1
<1> HIDE DEF r
<1>6. QueueOK(r)
  <2>1. r.last <= Len(r.pend)
    BY <1>3, <1>5
  <2> QED  BY <1>0, <1>5, <2>1 DEF QueueOK
<1>7. Tiling(r.size, T) /\ FreeListed(r, T) /\ Owned(r, T, {})
  BY <1>0, <1>5 DEF FreeListed, Owned
<1>8. ASSUME NEW t \in T PROVE Provided(r, t, f, G) /\ Covered(r, t, {}, L)
  <2>1. PICK k \in 0..Len(q.pend) : Serves(q, t, k, f, B)
    BY <1>0 DEF Clean, Provided
  <2>2. Provided(r, t, f, G)
    BY <1>4, <1>5, <2>1 DEF Provided, Serves
  <2>3. Covered(q, t, {}, J)
    BY <1>0 DEF Clean
  <2>4. t.s \in Nat /\ t.e \in Nat /\ t.e <= q.size
    BY <1>0, TileFacts DEF Tiling
  <2>5. ASSUME NEW i \in 1..Len(r.pend), NEW x \in Nat, Inside(x, t), Writes(r.pend[i], x)
        PROVE  x \in L
    <3>1. Logged(q, t, x, {}, J)
      BY <1>5, <2>3, <2>5 DEF Covered
    <3>2. x \in Cells
      <4>1. x < t.e /\ q.size <= MaxFile
        BY <2>5 DEF Inside
      <4>2. MaxFile \in Nat
        BY StoreAssumption
      <4>3. ASSUME NEW a \in Nat, NEW b \in Nat, NEW c \in Nat, x < a, a <= b, b <= c PROVE x <= c
        BY <4>3
      <4>4. x <= MaxFile
        BY ONLY <1>3, <2>4, <4>1, <4>2, <4>3
      <4> QED  BY <4>2, <4>4 DEF Cells
    <3>3. ASSUME NEW n \in 1..Len(q.pend), q.last < n, Writes(q.pend[n], x), q.pend[n].addr + q.pend[n].size <= t.e
          PROVE  x \in L
      <4>1. q.pend[n].addr \in Nat /\ q.pend[n].size \in Nat
        BY <1>0, QueueFacts
      <4>2. Active(q, q.pend[n])
        <5>1. ASSUME NEW a \in Nat, NEW b \in Nat, NEW c \in Nat, NEW d \in Nat, a + b <= c, c <= d PROVE a + b <= d
          BY <5>1
        <5>2. q.pend[n].addr + q.pend[n].size <= q.size
          BY ONLY <1>3, <2>4, <3>3, <4>1, <5>1
        <5> QED  BY <5>2 DEF Active
      <4>3. Core(q, T, {}, {}, f, B, J)
        BY DEF B, J
      <4>4. x \in DOMAIN Patch(q, q.pend[n])
        BY <3>3, <4>2, <4>3, PatchDomain
      <4> QED  BY <1>2, <3>2, <3>3, <4>4
    <3> QED  BY <1>2, <3>1, <3>3 DEF Logged
  <2>6. Covered(r, t, {}, L)
    BY <2>5 DEF Covered, Logged
  <2> QED  BY <2>2, <2>6
<1>9. Core(r, T, {}, {}, f, G, L)
  <2>1. Clean(r, T \ {}, {}, f, G, L) /\ FreeListed(r, T \ {})
    <3>1. T \ {} = T
      OBVIOUS
    <3> QED  BY <1>7, <1>8, <3>1 DEF Clean
  <2> QED  BY <1>6, <1>7, <2>1 DEF Core
<1> QED  BY <1>4, <1>9 DEF r, G, L, h

-----------------------------------------------------------------------------
(* The full flush.                                                           *)

\* A full flush writes only where the journal does.
LEMMA FlushAgrees ==
    ASSUME NEW q, NEW T, NEW f, NEW R, NEW J, Core(q, T, {}, {}, f, R, J), Backed(q, T), q.size <= MaxFile,
           q.last = Len(q.pend), \A x \in Cells : x >= Alloc(q.size) => x \in J,
           \A j \in 1..Len(q.pend) : q.pend[j].id = Header => 0 \in J,
           NEW p, \A k \in 1..Len(q.pend) : p[k] = Patch(q, q.pend[k]), NEW i \in 0..Len(q.pend)
    PROVE  \A x \in Cells : Written(Truncate(f, q.size), p, i)[x] = f[x] \/ x \in J
<1>0. QueueOK(q) /\ Tiling(q.size, T) /\ Clean(q, T, {}, f, R, J) /\ Owned(q, T, {}) /\ T \subseteq Tile
  <2>1. T \ {} = T
    OBVIOUS
  <2> QED  BY <2>1 DEF Core, Tiling
<1>1. q.size \in Nat /\ Len(q.pend) \in Nat /\ q.last \in Nat
  BY <1>0, QueueFacts
<1>2. ASSUME NEW k \in 1..Len(q.pend), NEW x \in Nat, x \in DOMAIN Patch(q, q.pend[k]) PROVE x \in J
  <2>1. Writes(q.pend[k], x) /\ Active(q, q.pend[k])
    BY <1>2, PatchDomain
  <2>2. /\ q.pend[k].addr \in Nat /\ q.pend[k].size \in Nat /\ q.pend[k].id \in Block \cup {Free, Header}
        /\ q.pend[k].id = Header => q.pend[k].addr = 0 /\ q.pend[k].size = 1
        /\ q.pend[k].id # Header => q.pend[k].addr >= 1 /\ q.pend[k].size >= 1
    BY <1>0, QueueFacts
  <2>3. q.pend[k].addr <= x /\ x < q.pend[k].addr + q.pend[k].size
    BY <2>1, <2>2 DEF Writes, Touches
  <2>4. CASE q.pend[k].id = Header
    BY <2>2, <2>3, <2>4
  <2>5. CASE q.pend[k].id # Header
    <3>1. q.pend[k].addr + q.pend[k].size <= q.size
      <4>1. CASE q.pend[k].id = Free
        BY <2>1, <4>1 DEF Active
      <4>2. CASE q.pend[k].id \in Block
        <5>1. PICK t \in T : Own(q.pend[k], t)
          BY <1>0, <4>2 DEF Owned
        <5>2. t.s \in Nat /\ t.e \in Nat /\ t.e <= q.size
          BY <1>0, TileFacts DEF Tiling
        <5> QED  BY <5>1, <5>2 DEF Own
      <4> QED  BY <2>2, <2>5, <4>1, <4>2
    <3>2. x \in 1 .. q.size - 1
      BY <1>1, <2>2, <2>3, <2>5, <3>1
    <3>3. PICK t \in T : Inside(x, t)
      BY <1>0, <3>2 DEF Tiling
    <3>4. Logged(q, t, x, {}, J)
      BY <1>0, <2>1, <3>3 DEF Clean, Covered
    <3> QED  BY <1>1, <3>4 DEF Logged
  <2> QED  BY <2>4, <2>5
<1>3. SUFFICES ASSUME NEW x \in Cells, x \notin J PROVE Written(Truncate(f, q.size), p, i)[x] = f[x]
  OBVIOUS
<1>4. x \in Nat /\ i \in Nat
  BY StoreAssumption DEF Cells
<1>5. \A k \in 1..i : x \notin DOMAIN p[k]
  BY <1>2, <1>3, <1>4
<1>6. Written(Truncate(f, q.size), p, i)[x] = Truncate(f, q.size)[x]
  BY <1>3, <1>4, <1>5, WrittenElse
<1>7. x < Alloc(q.size)
  <2>1. Alloc(q.size) \in Nat
    BY <1>1, AllocAbove, Zenon
  <2> QED  BY <1>3, <1>4, <2>1
<1> QED  BY <1>3, <1>6, <1>7 DEF Truncate, Cut

\* File G shows the tiles, and the header if the queue q has it; otherwise it
\* has that of f.
FlushedTo(G, T, f, q) ==
    /\ \A t \in T : Shown(G, t)
    /\ \/ G[0] = HeaderCell(q.size)
       \/ G[0] = f[0] /\ \A i \in 1..Len(q.pend) : q.pend[i].id # Header

\* A full flush leaves a good file.
LEMMA FlushShows ==
    ASSUME NEW q, NEW T, NEW f, NEW R, NEW J, Core(q, T, {}, {}, f, R, J), Backed(q, T), q.size <= MaxFile,
           NEW p, \A k \in 1..Len(q.pend) : p[k] = Patch(q, q.pend[k])
    PROVE  FlushedTo(Written(Truncate(f, q.size), p, Len(q.pend)), T, f, q)
<1> DEFINE G == Written(Truncate(f, q.size), p, Len(q.pend))
<1>0. QueueOK(q)
  BY DEF Core
<1>1. Overwrites(G, f, q, 0)
  BY <1>0, FlushOverwrites
<1>2. Len(q.pend) \in Nat
  BY <1>0, QueueFacts
<1> HIDE DEF G
<1>3. ASSUME NEW t \in T PROVE Shown(G, t)
  <2>1. \A k \in 0..Len(q.pend) : Serves(q, t, k, f, R) /\ k <= 0 => Shown(f, t)
    BY <1>2 DEF Serves
  <2> QED  BY <1>1, <2>1, TileComes
<1>4. \/ G[0] = HeaderCell(q.size)
      \/ G[0] = f[0] /\ \A i \in 1..Len(q.pend) : 0 < i => q.pend[i].id # Header
  BY <1>1, HeaderComes
<1>5. \A i \in 1..Len(q.pend) : 0 < i
  OBVIOUS
<1> QED  BY <1>3, <1>4, <1>5 DEF G, FlushedTo

\* The queue of a good file is empty.
LEMMA EmptyQueue ==
    ASSUME NEW q, NEW T, NEW f, NEW R, NEW J, Core(q, T, {}, {}, f, R, J),
           NEW G, \A t \in T : Shown(G, t)
    PROVE  Core([q EXCEPT !.pend = <<>>, !.last = 0], T, {}, {}, G, G, {})
<1> DEFINE r == [q EXCEPT !.pend = <<>>, !.last = 0]
<1>0. QueueOK(q) /\ Tiling(q.size, T) /\ FreeListed(q, T) /\ Owned(q, T, {})
  <2>1. T \ {} = T
    OBVIOUS
  <2> QED  BY <2>1 DEF Core
<1>1. /\ r.size = q.size /\ r.free = q.free /\ r.pend = <<>> /\ r.last = 0
      /\ r \in [size : Nat, free : SUBSET (Nat \X Nat), pend : Seq(Operation), last : Nat]
  <2>1. q \in [size : Nat, free : SUBSET (Nat \X Nat), pend : Seq(Operation), last : Nat]
    BY <1>0 DEF QueueOK
  <2>2. <<>> \in Seq(Operation)
    OBVIOUS
  <2> QED  BY <2>1, <2>2
<1> HIDE DEF r
<1>2. Len(r.pend) = 0
  BY <1>1
<1>3. QueueOK(r)
  BY <1>1, <1>2 DEF QueueOK
<1>4. Tiling(r.size, T) /\ FreeListed(r, T) /\ Owned(r, T, {})
  BY <1>0, <1>1, <1>2 DEF FreeListed, Owned
<1>5. Clean(r, T, {}, G, G, {})
  BY <1>1, <1>2 DEF Clean, Provided, Serves, Covered
<1>6. T \ {} = T
  OBVIOUS
<1>7. Core(r, T, {}, {}, G, G, {})
  BY <1>3, <1>4, <1>5, <1>6 DEF Core
<1> QED  BY <1>7 DEF r

-----------------------------------------------------------------------------
(* What can be seen, and what memory says of a block.                        *)

\* The blocks of a tiling and what they contain.
View(T) == [b \in Block |-> IF \E t \in BlocksOf(T) : t.id = b
                            THEN Carries(CHOOSE t \in BlocksOf(T) : t.id = b) ELSE Absent]

\* What a view says of a block.
LEMMA ViewAt ==
    ASSUME NEW z, NEW T, Tiling(z, T)
    PROVE  /\ View(T) \in [Block -> Content \cup {Absent}]
           /\ \A t \in BlocksOf(T) : View(T)[t.id] = Carries(t) /\ Carries(t) \in Content
           /\ \A b \in Block : (\A t \in BlocksOf(T) : t.id # b) => View(T)[b] = Absent
<1>1. \A t \in BlocksOf(T) : t.id \in Block /\ Carries(t) \in Content
  <2>1. \A t \in BlocksOf(T) : t \in Tile /\ t.id \in Block
    BY DEF BlocksOf, Tiling
  <2> QED  BY <2>1 DEF Tile, Carries, Content
<1>2. \A t \in BlocksOf(T) : View(T)[t.id] = Carries(t)
  <2> TAKE t \in BlocksOf(T)
  <2> DEFINE u == CHOOSE v \in BlocksOf(T) : v.id = t.id
  <2>1. u \in BlocksOf(T) /\ u.id = t.id
    OBVIOUS
  <2>2. View(T)[t.id] = Carries(u)
    BY <1>1 DEF View
  <2> HIDE DEF u
  <2>3. u = t
    BY <2>1 DEF Tiling
  <2> QED  BY <2>2, <2>3
<1>3. \A b \in Block : (\A t \in BlocksOf(T) : t.id # b) => View(T)[b] = Absent
  BY DEF View
<1>4. \A b \in Block : View(T)[b] \in Content \cup {Absent}
  BY <1>1, <1>2, <1>3
<1>5. View(T) = [b \in Block |-> View(T)[b]]
  BY DEF View
<1> QED  BY <1>1, <1>2, <1>3, <1>4, <1>5

\* A view depends on the blocks alone.
LEMMA ViewSame ==
    ASSUME NEW S, NEW T, BlocksOf(S) = BlocksOf(T)
    PROVE  View(S) = View(T)
BY DEF View

\* Tilings whose blocks differ in b alone.
LEMMA ViewElse ==
    ASSUME NEW y, NEW z, NEW S, NEW T, Tiling(y, S), Tiling(z, T), NEW b \in Block,
           \A t : t.id # b => (t \in BlocksOf(S) <=> t \in BlocksOf(T))
    PROVE  View(S) = [View(T) EXCEPT ![b] = View(S)[b]]
<1>1. ASSUME NEW a \in Block, a # b PROVE View(S)[a] = View(T)[a]
  <2>1. CASE \E t \in BlocksOf(T) : t.id = a
    <3>1. PICK t \in BlocksOf(T) : t.id = a
      BY <2>1
    <3>2. t \in BlocksOf(S)
      BY <1>1, <3>1
    <3> QED  BY <3>1, <3>2, ViewAt
  <2>2. CASE \A t \in BlocksOf(T) : t.id # a
    <3>1. \A t \in BlocksOf(S) : t.id # a
      BY <1>1, <2>2
    <3> QED  BY <2>2, <3>1, ViewAt
  <2> QED  BY <2>1, <2>2
<1>2. View(S) = [a \in Block |-> View(S)[a]] /\ View(T) = [a \in Block |-> View(T)[a]]
  BY DEF View
<1> QED  BY <1>1, <1>2

\* A block in memory, with the cache ca, the forced blocks fo, the table ad
\* and the free names av.
Kept(b, T, q, ca, fo, ad, av) ==
    /\ ca[b] \in Content \cup {Absent} /\ ad[b] \in Nat
    /\ \A t \in BlocksOf(T) : t.id = b => /\ ad[b] = t.s /\ b \notin fo /\ b \notin av
                                          /\ ca[b] # Absent => ca[b] = Carries(t)
    /\ ad[b] # 0 => \E t \in BlocksOf(T) : t.id = b
    /\ ca[b] # Absent /\ b \notin fo => ad[b] # 0
    /\ b \in fo => ca[b] # Absent /\ ad[b] = 0
    /\ b \in av => ca[b] = Absent /\ ad[b] = 0
    /\ \A j \in 1..Len(q.pend) : q.pend[j].id = b => ca[b] # Absent

\* The queue r goes on from q, as far as blocks other than b are concerned.
Continues(q, r, b) ==
    /\ \A j \in 1..Len(r.pend) : \/ r.pend[j].id = Free \/ r.pend[j].id = b
                                 \/ \E i \in 1..Len(q.pend) : r.pend[j] = q.pend[i] /\ (r.last < j => q.last < i)
    /\ \A i \in 1..Len(q.pend) : q.pend[i].id = Header => \E j \in 1..Len(r.pend) : r.pend[j] = q.pend[i]

QueueType == [size : Nat, free : SUBSET (Nat \X Nat), pend : Seq(Operation), last : Nat]

\* One queue may go on from another in several steps.
LEMMA ContinuesOn ==
    ASSUME NEW q, NEW r, NEW s, NEW b, Continues(q, r, b), Continues(r, s, b)
    PROVE  Continues(q, s, b)
<1>1. ASSUME NEW j \in 1..Len(s.pend), s.pend[j].id # Free, s.pend[j].id # b
      PROVE  \E i \in 1..Len(q.pend) : s.pend[j] = q.pend[i] /\ (s.last < j => q.last < i)
  <2>1. PICK i \in 1..Len(r.pend) : s.pend[j] = r.pend[i] /\ (s.last < j => r.last < i)
    BY <1>1 DEF Continues
  <2>2. PICK k \in 1..Len(q.pend) : r.pend[i] = q.pend[k] /\ (r.last < i => q.last < k)
    BY <1>1, <2>1 DEF Continues
  <2> QED  BY <2>1, <2>2
<1>2. ASSUME NEW i \in 1..Len(q.pend), q.pend[i].id = Header PROVE \E j \in 1..Len(s.pend) : s.pend[j] = q.pend[i]
  <2>1. PICK k \in 1..Len(r.pend) : r.pend[k] = q.pend[i]
    BY <1>2 DEF Continues
  <2> QED  BY <1>2, <2>1 DEF Continues
<1> QED  BY <1>1, <1>2 DEF Continues

\* The queue is the same.
LEMMA ContinuesSame ==
    ASSUME NEW q, NEW r, NEW b, r.pend = q.pend, r.last = q.last
    PROVE  Continues(q, r, b)
BY DEF Continues

\* One operation was queued, of a free block or of b.
LEMMA ContinuesAppend ==
    ASSUME NEW q \in QueueType, NEW r, NEW o, NEW b, r.pend = Append(q.pend, o), r.last = q.last,
           o.id = Free \/ o.id = b, o \in Operation
    PROVE  Continues(q, r, b)
<1>1. q.pend \in Seq(Operation) /\ Len(q.pend) \in Nat
  BY DEF QueueType
<1>2. /\ Len(r.pend) = Len(q.pend) + 1 /\ r.pend[Len(q.pend) + 1] = o
      /\ \A j \in 1..Len(q.pend) : r.pend[j] = q.pend[j]
  BY <1>1
<1>3. \A j \in 1..Len(r.pend) : j \in 1..Len(q.pend) \/ j = Len(q.pend) + 1
  BY <1>1, <1>2
<1>4. \A j \in 1..Len(q.pend) : j \in 1..Len(r.pend)
  BY <1>1, <1>2
<1> QED  BY <1>2, <1>3, <1>4 DEF Continues

\* InsertFreeBlock queues operations of free blocks only.
LEMMA ContinuesInsert ==
    ASSUME NEW q \in QueueType, NEW a \in Nat, NEW n \in Nat, NEW w \in BOOLEAN, NEW u \in BOOLEAN, NEW b
    PROVE  Continues(q, InsertFreeBlock(q, a, n, w, u), b) /\ InsertFreeBlock(q, a, n, w, u) \in QueueType
<1>0. FreeOp(a, n, w) \in Operation /\ FreeOp(a, n, w).id = Free
  BY DEF FreeOp, Operation
<1> DEFINE o == FreeOp(a, n, w)
<1> HIDE DEF o
<1>1. CASE a + n = q.size /\ u
  <2>1. InsertFreeBlock(q, a, n, w, u) = [q EXCEPT !.size = a]
    BY <1>1 DEF InsertFreeBlock
  <2>2. [q EXCEPT !.size = a].pend = q.pend /\ [q EXCEPT !.size = a].last = q.last /\ [q EXCEPT !.size = a] \in QueueType
    BY DEF QueueType
  <2> QED  BY <2>1, <2>2, ContinuesSame
<1>2. CASE a + n = q.size /\ ~u
  <2>1. InsertFreeBlock(q, a, n, w, u) = q
    BY <1>2 DEF InsertFreeBlock
  <2> QED  BY <2>1, ContinuesSame
<1>3. CASE a + n # q.size /\ u
  <2> DEFINE r == [q EXCEPT !.free = q.free \cup {<<a, n>>}, !.pend = Append(q.pend, o)]
  <2>1. InsertFreeBlock(q, a, n, w, u) = r
    BY <1>3 DEF InsertFreeBlock, o
  <2>2. r.pend = Append(q.pend, o) /\ r.last = q.last /\ r \in QueueType
    <3>1. q.pend \in Seq(Operation) /\ q.free \subseteq Nat \X Nat
      BY DEF QueueType
    <3>2. Append(q.pend, o) \in Seq(Operation)
      BY <3>1, <1>0 DEF o
    <3>3. q.free \cup {<<a, n>>} \subseteq Nat \X Nat
      BY <3>1
    <3> DEFINE p == Append(q.pend, o)
    <3> HIDE DEF p
    <3>4. r.pend = p /\ r.last = q.last /\ r \in QueueType
      BY <3>1, <3>2, <3>3 DEF QueueType, p
    <3> QED  BY <3>4 DEF p
  <2>3. Continues(q, r, b)
    <3> HIDE DEF r
    <3> QED  BY <1>0, <2>2, ContinuesAppend DEF o
  <2> QED  BY <2>1, <2>2, <2>3
<1>4. CASE a + n # q.size /\ ~u
  <2> DEFINE r == [q EXCEPT !.free = q.free, !.pend = Append(q.pend, o)]
  <2>1. InsertFreeBlock(q, a, n, w, u) = r
    BY <1>4 DEF InsertFreeBlock, o
  <2>2. r.pend = Append(q.pend, o) /\ r.last = q.last /\ r \in QueueType
    <3>1. q.pend \in Seq(Operation) /\ q.free \subseteq Nat \X Nat
      BY DEF QueueType
    <3>2. Append(q.pend, o) \in Seq(Operation)
      BY <3>1, <1>0 DEF o
    <3> QED  BY <3>1, <3>2 DEF QueueType
  <2>3. Continues(q, r, b)
    <3> HIDE DEF r
    <3> QED  BY <1>0, <2>2, ContinuesAppend DEF o
  <2> QED  BY <2>1, <2>2, <2>3
<1> QED  BY <1>1, <1>2, <1>3, <1>4

\* So does FindFreePosition.
LEMMA ContinuesFind ==
    ASSUME NEW q \in QueueType, NEW n \in Nat, NEW b, NEW r \in FindFreePosition(q, n)
    PROVE  Continues(q, r[2], b) /\ r[2] \in QueueType
<1>0. q.size \in Nat /\ q.free \subseteq Nat \X Nat
  BY DEF QueueType
<1>1. CASE Suitable(q, n) = {}
  <2>1. r = <<q.size, [q EXCEPT !.size = q.size + n]>>
    BY <1>1 DEF FindFreePosition
  <2>2. r[2] = [q EXCEPT !.size = q.size + n]
    BY <2>1
  <2>3. r[2].pend = q.pend /\ r[2].last = q.last /\ r[2] \in QueueType
    BY <1>0, <2>2 DEF QueueType
  <2> QED  BY <2>3, ContinuesSame
<1>2. CASE Suitable(q, n) # {}
  <2>1. PICK g \in Suitable(q, n) : r = <<g[1], Occupy(q, g, n)>>
    BY <1>2 DEF FindFreePosition
  <2>2. g \in q.free /\ (g[2] = n \/ g[2] > 2 * n)
    BY DEF Suitable
  <2>3. g[1] \in Nat /\ g[2] \in Nat /\ g[1] + n \in Nat /\ g[2] - n \in Nat
    BY <1>0, <2>2
  <2>4. Continues(q, Split(q, g, n), b) /\ Split(q, g, n) \in QueueType
    <3>1. CASE g[2] = n
      BY <3>1, ContinuesSame DEF Split
    <3>2. CASE g[2] # n
      BY <2>3, <3>2, ContinuesInsert DEF Split
    <3> QED  BY <3>1, <3>2
  <2> DEFINE s == Split(q, g, n)
             i == InsertFreeBlock(s, g[1], n, FALSE, FALSE)
             k == [i EXCEPT !.free = i.free \ {g}]
  <2>5. r[2] = k
    BY <2>1 DEF Occupy
  <2> HIDE DEF s
  <2>6. Continues(s, i, b) /\ i \in QueueType
    BY <2>3, <2>4, ContinuesInsert DEF s
  <2> HIDE DEF i
  <2>7. k.pend = i.pend /\ k.last = i.last /\ k \in QueueType
    BY <2>6 DEF QueueType
  <2> HIDE DEF k
  <2>8. Continues(i, k, b)
    BY <2>7, ContinuesSame
  <2>9. Continues(q, i, b)
    BY <2>4, <2>6, ContinuesOn DEF s
  <2> QED  BY <2>5, <2>7, <2>8, <2>9, ContinuesOn
<1> QED  BY <1>1, <1>2

\* PendingRemove takes operations of b out.
LEMMA ContinuesDrop ==
    ASSUME NEW q, QueueOK(q), NEW b, b # Free, b # Header
    PROVE  Continues(q, PendingRemove(q, b), b)
<1> DEFINE r == PendingRemove(q, b)
<1>1. CASE r = q
  BY <1>1, ContinuesSame
<1>2. ASSUME NEW k \in 1..Len(q.pend), q.pend[k].id = b, CutOut(q, k, r)
      PROVE  Continues(q, r, b)
  <2> HIDE DEF r
  <2>1. /\ \A j \in 1..Len(r.pend) : \E i \in 1..Len(q.pend) : r.pend[j] = q.pend[i] /\ (r.last < j => q.last < i)
        /\ \A i \in 1..Len(q.pend) : i # k => \E j \in 1..Len(r.pend) : r.pend[j] = q.pend[i]
    BY <1>2 DEF CutOut
  <2> QED  BY <1>2, <2>1 DEF Continues
<1>3. r = q \/ \E k \in 1..Len(q.pend) : q.pend[k].id = b /\ CutOut(q, k, r)
  BY Removed, Zenon
<1> QED  BY <1>1, <1>2, <1>3

-----------------------------------------------------------------------------
(* The scan of a file.  Scanned is a recursive function, which exists since  *)
(* the addresses it can reach make one, and it finds the tiles.              *)

\* A file that holds the tiles T, and one that holds the contents c.
TilesAs(f, T) ==
    /\ f[0] = HeaderCell(f[0].val) /\ f[0].val <= MaxFile
    /\ Tiling(f[0].val, T)
    /\ \A t \in T : Shown(f, t)
GoodFile(f, c) == \E T \in SUBSET Tile : TilesAs(f, T) /\ c = View(T)
Sized(f) == f = [x \in Cells |-> f[x]] /\ \A x \in Cells : f[x].size \in Nat

\* The scan is a recursive function: this is the step of it, and there is one.
ScanStep(f, g) ==
    [p \in Nat |-> IF p >= f[0].val \/ f[p].size = 0 THEN {p} ELSE {p} \cup g[p + f[p].size]]
Stops(f, p) == p >= f[0].val \/ f[p].size = 0
Follows(f, S) == \A p \in S : ~Stops(f, p) => p + f[p].size \in S
Reach(f, p) == {y \in Nat : \A S \in SUBSET Nat : p \in S /\ Follows(f, S) => y \in S}

\* There is a function that fits the step of the scan: what can be reached by
\* it.
LEMMA ScanExists ==
    ASSUME NEW f, Sized(f), f[0].val \in Nat, f[0].val <= MaxFile
    PROVE  \E g : g = ScanStep(f, g)
<1> DEFINE g == [p \in Nat |-> Reach(f, p)]
<1>1. ASSUME NEW p \in Nat PROVE g[p] = ScanStep(f, g)[p]
  <2>0. p \in Reach(f, p)
    BY DEF Reach
  <2>1. CASE Stops(f, p)
    <3>1. {p} \in SUBSET Nat /\ Follows(f, {p})
      BY <2>1 DEF Follows
    <3>2. Reach(f, p) = {p}
      BY <2>0, <3>1 DEF Reach
    <3> QED  BY <2>1, <3>2 DEF ScanStep, Stops
  <2>2. CASE ~Stops(f, p)
    <3> DEFINE n == p + f[p].size
    <3>1. n \in Nat
      <4>1. p \in Cells
        BY <2>2, StoreAssumption DEF Stops, Cells
      <4> QED  BY <4>1 DEF Sized
    <3>2. Reach(f, n) \subseteq Reach(f, p)
      <4> SUFFICES ASSUME NEW y \in Reach(f, n), NEW S \in SUBSET Nat, p \in S, Follows(f, S) PROVE y \in S
        BY DEF Reach
      <4>1. n \in S
        BY <2>2 DEF Follows
      <4> HIDE DEF n
      <4> QED  BY <4>1 DEF Reach
    <3>3. Follows(f, {p} \cup Reach(f, n))
      <4>1. n \in Reach(f, n)
        <5> HIDE DEF n
        <5> QED  BY <3>1 DEF Reach
      <4>2. ASSUME NEW y \in Reach(f, n), ~Stops(f, y) PROVE y + f[y].size \in Reach(f, n)
        <5>1. y \in Nat /\ y \in Cells
          BY <4>2, StoreAssumption DEF Stops, Cells, Reach
        <5>2. y + f[y].size \in Nat
          BY <5>1 DEF Sized
        <5>3. ASSUME NEW S \in SUBSET Nat, n \in S, Follows(f, S) PROVE y + f[y].size \in S
          <6> HIDE DEF n
          <6>1. y \in S
            BY <4>2, <5>3 DEF Reach
          <6> QED  BY <4>2, <5>3, <6>1 DEF Follows
        <5> HIDE DEF n
        <5> QED  BY <5>2, <5>3 DEF Reach
      <4> QED  BY <4>1, <4>2 DEF Follows
    <3>4. {p} \cup Reach(f, n) \in SUBSET Nat
      BY DEF Reach
    <3>5. Reach(f, p) \subseteq {p} \cup Reach(f, n)
      <4> HIDE DEF n
      <4> QED  BY <3>3, <3>4 DEF Reach
    <3>6. Reach(f, p) = {p} \cup Reach(f, n)
      BY <2>0, <3>2, <3>5
    <3>7. g[p] = {p} \cup g[n]
      BY <3>1, <3>6
    <3> HIDE DEF g
    <3> QED  BY <2>2, <3>7 DEF ScanStep, Stops
  <2> QED  BY <2>1, <2>2
<1>2. g = ScanStep(f, g)
  <2>1. g = [p \in Nat |-> g[p]] /\ ScanStep(f, g) = [p \in Nat |-> ScanStep(f, g)[p]]
    BY DEF ScanStep
  <2> HIDE DEF g
  <2> QED  BY <1>1, <2>1
<1> QED  BY <1>2

\* So the scan of the model is one.
LEMMA ScanIs ==
    ASSUME NEW f, Sized(f), f[0].val \in Nat, f[0].val <= MaxFile
    PROVE  \E g : /\ Scanned(f) = g[1]
                  /\ \A p \in Nat : g[p] = IF Stops(f, p) THEN {p} ELSE {p} \cup g[p + f[p].size]
<1> DEFINE g == CHOOSE h : h = ScanStep(f, h)
<1>1. Scanned(f) = g[1]
  BY DEF Scanned, ScanStep, FirstBlock
<1>2. g = ScanStep(f, g)
  BY ScanExists, Zenon
<1> HIDE DEF g
<1>3. \A p \in Nat : g[p] = IF Stops(f, p) THEN {p} ELSE {p} \cup g[p + f[p].size]
  BY <1>2 DEF ScanStep, Stops
<1> QED  BY <1>1, <1>3

\* The first cell of a tile tells what it is.
LEMMA TileCell ==
    ASSUME NEW f, NEW t \in Tile, Shown(f, t)
    PROVE  f[t.s].size = t.e - t.s /\ f[t.s].id = t.id /\ f[t.s].at = 0
<1>1. t.s \in Nat /\ t.e \in Nat /\ t.s < t.e
  BY TileFacts
<1>2. CASE t.id = Free
  BY <1>2 DEF Shown, FreeCell
<1>3. CASE t.id # Free
  <2>1. f[t.s] = [id |-> t.id, size |-> t.e - t.s, val |-> t.val, at |-> t.s - t.s]
    BY <1>1, <1>3 DEF Shown, Inside
  <2> QED  BY <1>1, <2>1
<1> QED  BY <1>2, <1>3

\* Tiles follow one another, from behind the header to the end.
LEMMA NextTile ==
    ASSUME NEW z, NEW T, Tiling(z, T)
    PROVE  /\ \A t \in T : t.e = z \/ \E u \in T : u.s = t.e
           /\ \A t, u \in T : u.s >= t.s => u = t \/ u.s >= t.e
           /\ (z = 1 /\ T = {}) \/ \E t \in T : t.s = 1
<1>0. /\ z \in Nat /\ 1 <= z
      /\ \A t \in T : t \in Tile /\ t.s \in Nat /\ t.e \in Nat /\ 1 <= t.s /\ t.s < t.e /\ t.e <= z
      /\ \A t, u \in T : t = u \/ t.e <= u.s \/ u.e <= t.s
      /\ \A x \in 1 .. z - 1 : \E t \in T : t.s <= x /\ x < t.e
  BY TileFacts DEF Tiling, Disjoint, Inside
<1>1. ASSUME NEW t \in T, t.e # z PROVE \E u \in T : u.s = t.e
  <2>1. t.e \in 1 .. z - 1
    BY <1>0, <1>1
  <2>2. PICK u \in T : u.s <= t.e /\ t.e < u.e
    BY <1>0, <2>1
  <2>3. u # t
    BY <1>0, <2>2
  <2>4. t.e <= u.s \/ u.e <= t.s
    BY <1>0, <2>3
  <2>5. u.s = t.e
    BY <1>0, <2>2, <2>4
  <2> QED  BY <2>5
<1>2. \A t, u \in T : u.s >= t.s => u = t \/ u.s >= t.e
  BY <1>0
<1>3. (z = 1 /\ T = {}) \/ \E t \in T : t.s = 1
  <2>1. CASE z = 1
    <3>1. \A t \in T : FALSE
      BY <1>0, <2>1
    <3> QED  BY <2>1, <3>1
  <2>2. CASE z # 1
    <3>1. 1 \in 1 .. z - 1
      BY <1>0, <2>2
    <3>2. PICK t \in T : t.s <= 1
      BY <1>0, <3>1
    <3> QED  BY <1>0, <3>2
  <2> QED  BY <2>1, <2>2
<1> QED  BY <1>1, <1>2, <1>3

\* The scan comes to the tiles, one after the other.
LEMMA ScanTiles ==
    ASSUME NEW f, Sized(f), NEW T, TilesAs(f, T)
    PROVE  /\ \A y : y \in Scanned(f) <=> y = f[0].val \/ \E u \in T : y = u.s
           /\ \A y : y \in Used(f) <=> \E u \in T : y = u.s
           /\ \A y : y \in Blocks(f) <=> \E u \in BlocksOf(T) : y = u.s
<1> DEFINE z == f[0].val
<1>0. /\ z \in Nat /\ 1 <= z /\ z <= MaxFile /\ Tiling(z, T)
      /\ \A t \in T : t \in Tile /\ t.s \in Nat /\ t.e \in Nat /\ 1 <= t.s /\ t.s < t.e /\ t.e <= z
      /\ \A t \in T : Shown(f, t)
  BY TileFacts DEF TilesAs, Tiling
<1>1. PICK g : /\ Scanned(f) = g[1]
               /\ \A p \in Nat : g[p] = IF Stops(f, p) THEN {p} ELSE {p} \cup g[p + f[p].size]
  BY <1>0, ScanIs
<1> HIDE DEF z
<1>2. g[z] = {z}
  <2>1. Stops(f, z)
    BY <1>0 DEF Stops, z
  <2> QED  BY <1>0, <1>1, <2>1
<1>3. ASSUME NEW t \in T PROVE g[t.s] = {t.s} \cup g[t.e]
  <2>1. f[t.s].size = t.e - t.s
    BY <1>0, TileCell
  <2>2. ~Stops(f, t.s)
    BY <1>0, <2>1 DEF Stops, z
  <2>3. t.s + f[t.s].size = t.e
    BY <1>0, <2>1
  <2> QED  BY <1>0, <1>1, <2>2, <2>3
<1>4. /\ \A t \in T : t.e = z \/ \E u \in T : u.s = t.e
      /\ \A t, u \in T : u.s >= t.s => u = t \/ u.s >= t.e
      /\ (z = 1 /\ T = {}) \/ \E t \in T : t.s = 1
  BY <1>0, NextTile
<1> DEFINE Good(t) == \A y : y \in g[t.s] <=> y = z \/ \E u \in T : u.s >= t.s /\ y = u.s
<1>5. \A t \in T : Good(t)
  <2> SUFFICES ASSUME \E t \in T : ~Good(t) PROVE FALSE
    OBVIOUS
  <2> DEFINE B == {z - t.s : t \in {v \in T : ~Good(v)}}
  <2>1. B \subseteq Nat
    <3>1. \A t \in T : z - t.s \in Nat
      BY <1>0
    <3> HIDE DEF Good
    <3> QED  BY <3>1
  <2>2. B # {}
    <3> HIDE DEF Good
    <3> QED  OBVIOUS
  <2>3. PICK b \in B : \A c \in B : b <= c
    <3> HIDE DEF B
    <3> QED  BY <2>1, <2>2, LeastOf
  <2>4. PICK t \in T : ~Good(t) /\ b = z - t.s
    <3> HIDE DEF Good
    <3> QED  OBVIOUS
  <2>5. ASSUME NEW u \in T, u.s = t.e PROVE Good(u)
    <3> HIDE DEF Good
    <3>1. SUFFICES ASSUME ~Good(u) PROVE FALSE
      OBVIOUS
    <3>2. z - u.s \in B
      BY <3>1
    <3>3. z - t.s <= z - u.s
      BY <2>3, <2>4, <3>2
    <3> QED  BY <1>0, <2>5, <3>3
  <2> HIDE DEF B
  <2>6. CASE t.e = z
    <3>1. \A u \in T : u.s >= t.s => u = t
      BY <1>0, <1>4, <2>6
    <3> QED  BY <1>0, <1>2, <1>3, <2>4, <2>6, <3>1
  <2>7. ASSUME NEW u \in T, u.s = t.e PROVE FALSE
    <3>1. Good(u)
      BY <2>5, <2>7
    <3>2. \A v \in T : v.s >= t.s <=> v = t \/ v.s >= u.s
      BY <1>0, <1>4, <2>7
    <3>3. g[t.s] = {t.s} \cup g[u.s]
      BY <1>3, <2>7
    <3>4. ASSUME NEW y PROVE y \in g[t.s] <=> y = z \/ \E v \in T : v.s >= t.s /\ y = v.s
      <4>1. y \in g[t.s] <=> y = t.s \/ y = z \/ \E v \in T : v.s >= u.s /\ y = v.s
        BY <3>1, <3>3
      <4> QED  BY <3>2, <4>1
    <3> QED  BY <2>4, <3>4
  <2> QED  BY <1>4, <2>6, <2>7
<1>6. ASSUME NEW y PROVE y \in Scanned(f) <=> y = z \/ \E u \in T : y = u.s
  <2>1. CASE z = 1 /\ T = {}
    BY <1>1, <1>2, <2>1
  <2>2. ASSUME NEW t \in T, t.s = 1 PROVE y \in Scanned(f) <=> y = z \/ \E u \in T : y = u.s
    <3>1. \A u \in T : u.s >= t.s
      BY <1>0, <2>2
    <3> QED  BY <1>1, <1>5, <2>2, <3>1
  <2> QED  BY <1>4, <2>1, <2>2
<1>7. ASSUME NEW y PROVE y \in Used(f) <=> \E u \in T : y = u.s
  BY <1>0, <1>6 DEF Used, z
<1>8. ASSUME NEW y PROVE y \in Blocks(f) <=> \E u \in BlocksOf(T) : y = u.s
  <2>1. \A u \in T : f[u.s].id = u.id
    BY <1>0, TileCell
  <2> QED  BY <1>7, <2>1 DEF Blocks, BlocksOf
<1> QED  BY <1>6, <1>7, <1>8 DEF z

\* A scan of a good file is not misled.
LEMMA GoodIsSound ==
    ASSUME NEW f, Sized(f), NEW T, TilesAs(f, T)
    PROVE  Sound(f)
<1>0. /\ f[0] = HeaderCell(f[0].val) /\ f[0].val \in Nat /\ f[0].val <= MaxFile /\ Tiling(f[0].val, T)
      /\ \A t \in T : t \in Tile /\ t.s \in Nat /\ t.e \in Nat /\ 1 <= t.s /\ t.s < t.e /\ t.e <= f[0].val
      /\ \A t \in T : Shown(f, t)
      /\ \A t \in T : f[t.s].size = t.e - t.s /\ f[t.s].id = t.id /\ f[t.s].at = 0
  BY TileFacts, TileCell DEF TilesAs, Tiling
<1>1. /\ f[0].val \in Scanned(f)
      /\ \A y : y \in Used(f) <=> \E u \in T : y = u.s
      /\ \A y : y \in Blocks(f) <=> \E u \in BlocksOf(T) : y = u.s
  BY ScanTiles
<1>2. ASSUME NEW p \in Used(f) PROVE f[p].at = 0 /\ (f[p].id = Free \/ Whole(f, p))
  <2>1. PICK t \in T : p = t.s
    BY <1>1
  <2>2. ASSUME t.id # Free PROVE Whole(f, p)
    <3>1. \A x \in Nat : Inside(x, t) => f[x] = [id |-> t.id, size |-> t.e - t.s, val |-> t.val, at |-> x - t.s]
      BY <1>0, <2>2 DEF Shown
    <3>2. f[p] = [id |-> t.id, size |-> t.e - t.s, val |-> t.val, at |-> t.s - t.s]
      BY <1>0, <2>1, <3>1 DEF Inside
    <3>3. ASSUME NEW i \in 0 .. f[p].size - 1 PROVE f[p + i] = [f[p] EXCEPT !.at = i]
      <4>1. p + i \in Nat /\ Inside(p + i, t) /\ (p + i) - t.s = i
        BY <1>0, <2>1, <3>3 DEF Inside
      <4>2. f[p + i] = [id |-> t.id, size |-> t.e - t.s, val |-> t.val, at |-> i]
        BY <3>1, <4>1
      <4> QED  BY <3>2, <4>2
    <3>4. p + f[p].size <= MaxFile
      BY <1>0, <2>1, StoreAssumption
    <3> QED  BY <3>3, <3>4 DEF Whole
  <2> QED  BY <1>0, <2>1, <2>2
<1>3. ASSUME NEW p \in Blocks(f), NEW q \in Blocks(f), f[p].id = f[q].id PROVE p = q
  <2>1. PICK t \in BlocksOf(T) : p = t.s
    BY <1>1
  <2>2. PICK u \in BlocksOf(T) : q = u.s
    BY <1>1
  <2>3. t \in T /\ u \in T
    BY DEF BlocksOf
  <2>4. t.id = u.id
    BY <1>0, <1>3, <2>1, <2>2, <2>3
  <2> QED  BY <1>0, <2>1, <2>2, <2>4 DEF Tiling
<1> QED  BY <1>0, <1>1, <1>2, <1>3 DEF Sound

-----------------------------------------------------------------------------
(* Joining free blocks.                                                      *)

\* The tiles that memory knows after a start: the free blocks between blocks are
\* joined.
JoinedTiles(f) == {TileOf(Free, e[1], e[2], Absent) : e \in Joined(f)}
AtTheEnd(T) == {t \in T : t.id = Free /\ \A u \in BlocksOf(T) : u.s < t.s}
Loaded(f, T) == BlocksOf(T) \cup JoinedTiles(f) \cup AtTheEnd(T)

\* The free extents a scan collects: from behind a block, or the header, to the
\* next block.
LEMMA JoinedIs ==
    ASSUME NEW f, Sized(f), NEW T, TilesAs(f, T)
    PROVE  /\ \A e \in Joined(f) :
                /\ e = <<e[1], e[2]>> /\ e[1] \in Nat /\ e[2] \in Nat /\ 1 <= e[1] /\ 1 <= e[2] /\ e[1] + e[2] <= f[0].val
                /\ \E t \in T : t.s = e[1]
                /\ \E u \in BlocksOf(T) : u.s = e[1] + e[2]
                /\ \A u \in BlocksOf(T) : u.s < e[1] \/ u.s >= e[1] + e[2]
                /\ e[1] = 1 \/ \E u \in BlocksOf(T) : u.e = e[1]
           /\ \A a \in Nat : \A b \in Nat :
                /\ a < b
                /\ \E t \in T : t.s = a /\ t.id = Free
                /\ \E u \in BlocksOf(T) : u.s = b
                /\ \A u \in BlocksOf(T) : u.s < a \/ u.s >= b
                /\ a = 1 \/ \E u \in BlocksOf(T) : u.e = a
                => <<a, b - a>> \in Joined(f)
<1> DEFINE z == f[0].val
<1>0. /\ z \in Nat /\ z <= MaxFile
      /\ \A t \in T : t \in Tile /\ t.s \in Nat /\ t.e \in Nat /\ 1 <= t.s /\ t.s < t.e /\ t.e <= z
      /\ \A t \in T : f[t.s].size = t.e - t.s /\ f[t.s].id = t.id
      /\ \A t \in BlocksOf(T) : t \in T
  BY TileFacts, TileCell DEF TilesAs, Tiling, BlocksOf
<1>1. /\ \A y : y \in Used(f) <=> \E u \in T : y = u.s
      /\ \A y : y \in Blocks(f) <=> \E u \in BlocksOf(T) : y = u.s
  BY ScanTiles
<1>2. \A t \in T : t.s + f[t.s].size = t.e
  BY <1>0
<1> HIDE DEF z
<1>3. ASSUME NEW e \in Joined(f)
      PROVE  /\ e = <<e[1], e[2]>> /\ e[1] \in Nat /\ e[2] \in Nat /\ 1 <= e[1] /\ 1 <= e[2] /\ e[1] + e[2] <= z
             /\ \E t \in T : t.s = e[1]
             /\ \E u \in BlocksOf(T) : u.s = e[1] + e[2]
             /\ \A u \in BlocksOf(T) : u.s < e[1] \/ u.s >= e[1] + e[2]
             /\ e[1] = 1 \/ \E u \in BlocksOf(T) : u.e = e[1]
  <2>1. /\ e \in Used(f) \X (1..MaxFile)
        /\ e[1] + e[2] \in Blocks(f)
        /\ \A q \in Blocks(f) : q < e[1] \/ q >= e[1] + e[2]
        /\ e[1] = FirstBlock \/ \E q \in Blocks(f) : q + f[q].size = e[1]
    BY <1>3 DEF Joined
  <2>2. e = <<e[1], e[2]>> /\ e[1] \in Used(f) /\ e[2] \in 1..MaxFile
    BY <2>1
  <2>3. e[2] \in Nat /\ 1 <= e[2]
    BY <2>2, StoreAssumption
  <2>4. PICK t \in T : t.s = e[1]
    BY <1>1, <2>2
  <2>5. PICK u \in BlocksOf(T) : u.s = e[1] + e[2]
    BY <1>1, <2>1
  <2>6. \A v \in BlocksOf(T) : v.s < e[1] \/ v.s >= e[1] + e[2]
    BY <1>1, <2>1
  <2>7. e[1] = 1 \/ \E v \in BlocksOf(T) : v.e = e[1]
    <3>1. ASSUME NEW q \in Blocks(f), q + f[q].size = e[1] PROVE \E v \in BlocksOf(T) : v.e = e[1]
      <4>1. PICK v \in BlocksOf(T) : q = v.s
        BY <1>1
      <4> QED  BY <1>0, <1>2, <3>1, <4>1
    <3> QED  BY <2>1, <3>1 DEF FirstBlock
  <2> QED  BY <1>0, <2>2, <2>3, <2>4, <2>5, <2>6, <2>7
<1>4. ASSUME NEW a \in Nat, NEW b \in Nat, a < b,
             NEW t \in T, t.s = a, t.id = Free,
             NEW u \in BlocksOf(T), u.s = b,
             \A v \in BlocksOf(T) : v.s < a \/ v.s >= b,
             a = 1 \/ \E v \in BlocksOf(T) : v.e = a
      PROVE  <<a, b - a>> \in Joined(f)
  <2>1. b - a \in Nat /\ 1 <= b - a /\ a + (b - a) = b /\ b < z
    BY <1>0, <1>4
  <2>2. b - a \in 1..MaxFile
    BY <1>0, <2>1, StoreAssumption
  <2> DEFINE n == b - a
  <2> HIDE DEF n
  <2>3. a \in Used(f) /\ b \in Blocks(f) /\ f[a].id = Free
    BY <1>0, <1>1, <1>4
  <2>4. \A q \in Blocks(f) : q < a \/ q >= a + n
    BY <1>1, <1>4, <2>1 DEF n
  <2>5. a = FirstBlock \/ \E q \in Blocks(f) : q + f[q].size = a
    <3>1. ASSUME NEW v \in BlocksOf(T), v.e = a PROVE \E q \in Blocks(f) : q + f[q].size = a
      BY <1>0, <1>1, <1>2, <3>1
    <3> QED  BY <1>4, <3>1 DEF FirstBlock
  <2>6. <<a, n>> \in Used(f) \X (1..MaxFile) /\ <<a, n>>[1] = a /\ <<a, n>>[2] = n /\ a + n = b
    BY <2>1, <2>2, <2>3 DEF n
  <2>7. <<a, n>> \in Joined(f)
    BY <2>3, <2>4, <2>5, <2>6 DEF Joined
  <2> QED  BY <2>7 DEF n
<1>5. \A a \in Nat : \A b \in Nat :
                /\ a < b
                /\ \E t \in T : t.s = a /\ t.id = Free
                /\ \E u \in BlocksOf(T) : u.s = b
                /\ \A u \in BlocksOf(T) : u.s < a \/ u.s >= b
                /\ a = 1 \/ \E u \in BlocksOf(T) : u.e = a
                => <<a, b - a>> \in Joined(f)
  BY <1>4
<1> QED  BY <1>3, <1>5 DEF z

\* They are tiles.
LEMMA JoinedTileIs ==
    ASSUME NEW f, Sized(f), NEW T, TilesAs(f, T), NEW e \in Joined(f), NEW t, t = TileOf(Free, e[1], e[2], Absent)
    PROVE  t \in Tile /\ t.s = e[1] /\ t.e = e[1] + e[2] /\ t.id = Free
<1>1. e[1] \in Nat /\ e[2] \in Nat /\ 1 <= e[1] /\ 1 <= e[2]
  BY JoinedIs
<1> USE Names
<1> QED  BY <1>1, TileIs

\* They do not overlap blocks, the free tile at the end, or one another.
LEMMA JoinedApart ==
    ASSUME NEW f, Sized(f), NEW T, TilesAs(f, T), NEW e \in Joined(f)
    PROVE  /\ \A u \in BlocksOf(T) : u.e <= e[1] \/ e[1] + e[2] <= u.s
           /\ \A u \in AtTheEnd(T) : e[1] + e[2] <= u.s
           /\ \A d \in Joined(f) : d = e \/ d[1] + d[2] <= e[1] \/ e[1] + e[2] <= d[1]
<1>0. /\ \A t \in T : t \in Tile /\ t.s \in Nat /\ t.e \in Nat /\ 1 <= t.s /\ t.s < t.e
      /\ \A t, u \in T : t = u \/ t.e <= u.s \/ u.e <= t.s
      /\ \A t \in BlocksOf(T) : t \in T
  BY TileFacts DEF TilesAs, Tiling, BlocksOf, Disjoint
<1>1. \A d \in Joined(f) :
                /\ d = <<d[1], d[2]>> /\ d[1] \in Nat /\ d[2] \in Nat /\ 1 <= d[1] /\ 1 <= d[2]
                /\ \E t \in T : t.s = d[1]
                /\ \E u \in BlocksOf(T) : u.s = d[1] + d[2]
                /\ \A u \in BlocksOf(T) : u.s < d[1] \/ u.s >= d[1] + d[2]
                /\ d[1] = 1 \/ \E u \in BlocksOf(T) : u.e = d[1]
  BY JoinedIs
<1>2. ASSUME NEW d \in Joined(f), NEW u \in BlocksOf(T) PROVE u.e <= d[1] \/ d[1] + d[2] <= u.s
  <2>1. CASE u.s >= d[1] + d[2]
    BY <1>0, <1>1, <2>1
  <2>2. CASE u.s < d[1]
    <3>1. PICK t \in T : t.s = d[1]
      BY <1>1
    <3> QED  BY <1>0, <1>1, <2>2, <3>1
  <2> QED  BY <1>1, <2>1, <2>2
<1>3. ASSUME NEW u \in AtTheEnd(T) PROVE e[1] + e[2] <= u.s
  <2>1. PICK v \in BlocksOf(T) : v.s = e[1] + e[2]
    BY <1>1
  <2>2. u \in T /\ v.s < u.s
    BY DEF AtTheEnd
  <2> QED  BY <1>0, <1>1, <2>1, <2>2
<1>4. ASSUME NEW c \in Joined(f), NEW d \in Joined(f), c[1] < d[1] PROVE c[1] + c[2] <= d[1]
  <2>1. PICK u \in BlocksOf(T) : u.e = d[1]
    BY <1>1, <1>4
  <2>2. u.e <= c[1] \/ c[1] + c[2] <= u.s
    BY <1>2
  <2> QED  BY <1>0, <1>1, <1>4, <2>1, <2>2
<1>5. ASSUME NEW d \in Joined(f), d[1] = e[1] PROVE d = e
  <2>1. PICK u \in BlocksOf(T) : u.s = d[1] + d[2]
    BY <1>1
  <2>2. PICK v \in BlocksOf(T) : v.s = e[1] + e[2]
    BY <1>1
  <2>3. ~(u.s < e[1]) /\ ~(v.s < d[1])
    BY <1>1, <1>5, <2>1, <2>2
  <2>4. u.s >= e[1] + e[2] /\ v.s >= d[1] + d[2]
    BY <1>1, <2>3
  <2>5. d[2] = e[2]
    BY <1>1, <1>5, <2>1, <2>2, <2>4
  <2> QED  BY <1>1, <1>5, <2>5
<1>6. ASSUME NEW d \in Joined(f) PROVE d = e \/ d[1] + d[2] <= e[1] \/ e[1] + e[2] <= d[1]
  <2>1. d[1] < e[1] \/ e[1] < d[1] \/ d[1] = e[1]
    BY <1>1
  <2> QED  BY <1>4, <1>5, <2>1
<1> QED  BY <1>2, <1>3, <1>6

\* A free tile with a block behind it is joined to its neighbours.
LEMMA JoinedCovers ==
    ASSUME NEW f, Sized(f), NEW T, TilesAs(f, T), NEW t \in T, t.id = Free, NEW w \in BlocksOf(T), w.s >= t.s
    PROVE  \E e \in Joined(f) : e[1] <= t.s /\ t.e <= e[1] + e[2]
<1>0. /\ \A v \in T : v \in Tile /\ v.s \in Nat /\ v.e \in Nat /\ 1 <= v.s /\ v.s < v.e /\ v.e <= f[0].val
      /\ \A v \in T : v.id \in Block \cup {Free}
      /\ \A v, u \in T : v = u \/ v.e <= u.s \/ u.e <= v.s
      /\ \A v \in T : v \in BlocksOf(T) <=> v.id \in Block
      /\ \A v \in BlocksOf(T) : v \in T /\ v # t
      /\ f[0].val \in Nat /\ Tiling(f[0].val, T)
  BY TileFacts, Names DEF TilesAs, Tiling, BlocksOf, Disjoint
<1>1. PICK b \in Nat : /\ \E u \in BlocksOf(T) : u.s = b /\ b >= t.e
                       /\ \A v \in BlocksOf(T) : v.s >= t.s => v.s >= b
  <2> DEFINE B == {v.s : v \in {u \in BlocksOf(T) : u.s >= t.s}}
  <2>1. B \subseteq Nat /\ B # {}
    BY <1>0
  <2>2. PICK b \in B : \A c \in B : b <= c
    <3> HIDE DEF B
    <3> QED  BY <2>1, LeastOf
  <2>3. PICK u \in BlocksOf(T) : u.s >= t.s /\ u.s = b
    OBVIOUS
  <2>4. b >= t.e /\ b \in Nat
    BY <1>0, <2>3
  <2>5. \A v \in BlocksOf(T) : v.s >= t.s => v.s >= b
    <3> TAKE v \in BlocksOf(T)
    <3> HAVE v.s >= t.s
    <3>1. v.s \in B
      OBVIOUS
    <3> QED  BY <1>0, <2>2, <2>4, <3>1
  <2> QED  BY <2>3, <2>4, <2>5
<1>2. PICK a \in Nat : /\ 1 <= a /\ a <= t.s
                       /\ a = 1 \/ \E u \in BlocksOf(T) : u.e = a
                       /\ \A v \in BlocksOf(T) : v.s < t.s => v.s < a
  <2> DEFINE A == {t.s - v.s : v \in {u \in BlocksOf(T) : u.s < t.s}}
  <2>1. CASE A = {}
    <3>1. \A v \in BlocksOf(T) : ~(v.s < t.s)
      BY <2>1
    <3> QED  BY <1>0, <3>1
  <2>2. CASE A # {}
    <3>1. A \subseteq Nat
      BY <1>0
    <3>2. PICK d \in A : \A c \in A : d <= c
      <4> HIDE DEF A
      <4> QED  BY <2>2, <3>1, LeastOf
    <3>3. PICK u \in BlocksOf(T) : u.s < t.s /\ d = t.s - u.s
      OBVIOUS
    <3>4. u.e <= t.s /\ u.e \in Nat /\ 1 <= u.e /\ u.s \in Nat /\ u.s < u.e
      BY <1>0, <3>3
    <3>5. ASSUME NEW v \in BlocksOf(T), v.s < t.s PROVE v.s < u.e
      <4>1. t.s - v.s \in A
        BY <3>5
      <4>2. t.s - u.s <= t.s - v.s
        BY <3>2, <3>3, <4>1
      <4> QED  BY <1>0, <3>4, <4>2
    <3> QED  BY <3>4, <3>5
  <2> QED  BY <2>1, <2>2
<1>3. a < b
  BY <1>0, <1>1, <1>2
<1>4. \A u \in BlocksOf(T) : u.s < a \/ u.s >= b
  <2> TAKE u \in BlocksOf(T)
  <2>1. u.s < t.s \/ u.s >= t.s
    BY <1>0
  <2> QED  BY <1>1, <1>2, <2>1
<1>5. \E v \in T : v.s = a /\ v.id = Free
  <2>1. \E v \in T : v.s = a
    <3>1. CASE a = 1
      BY <1>0, <3>1, NextTile
    <3>2. ASSUME NEW u \in BlocksOf(T), u.e = a PROVE \E v \in T : v.s = a
      <4>1. u.e # f[0].val
        BY <1>0, <1>2, <3>2
      <4> QED  BY <1>0, <3>2, <4>1, NextTile
    <3> QED  BY <1>2, <3>1, <3>2
  <2>2. PICK v \in T : v.s = a
    BY <2>1
  <2>3. v \notin BlocksOf(T)
    BY <1>0, <1>3, <1>4, <2>2
  <2> QED  BY <1>0, <2>2, <2>3
<1>6. <<a, b - a>> \in Joined(f)
  BY <1>1, <1>2, <1>3, <1>4, <1>5, JoinedIs
<1>7. <<a, b - a>>[1] = a /\ <<a, b - a>>[2] = b - a /\ a + (b - a) = b
  OBVIOUS
<1> QED  BY <1>1, <1>2, <1>6, <1>7

\* What a scan leaves in memory fills the file, with the same blocks.
LEMMA LoadedTiles ==
    ASSUME NEW f, Sized(f), NEW T, TilesAs(f, T)
    PROVE  Tiling(f[0].val, Loaded(f, T)) /\ BlocksOf(Loaded(f, T)) = BlocksOf(T)
<1> USE Names
<1> DEFINE z == f[0].val
           S == Loaded(f, T)
<1>0. /\ z \in Nat /\ 1 <= z /\ Tiling(z, T)
      /\ \A v \in T : v \in Tile /\ v.s \in Nat /\ v.e \in Nat /\ 1 <= v.s /\ v.s < v.e /\ v.e <= z
      /\ \A v \in T : v.id \in Block \cup {Free}
      /\ \A v, u \in T : v = u \/ Disjoint(v, u)
      /\ \A v \in T : v \in BlocksOf(T) <=> v.id \in Block
      /\ \A v \in BlocksOf(T) : v \in T
      /\ \A v, u \in BlocksOf(T) : v.id = u.id => v = u
  BY TileFacts DEF TilesAs, Tiling, BlocksOf
<1>1. \A t \in JoinedTiles(f) : \E e \in Joined(f) : /\ t = TileOf(Free, e[1], e[2], Absent)
                                                     /\ t \in Tile /\ t.s = e[1] /\ t.e = e[1] + e[2] /\ t.id = Free
  <2> TAKE t \in JoinedTiles(f)
  <2>1. PICK e \in Joined(f) : t = TileOf(Free, e[1], e[2], Absent)
    BY DEF JoinedTiles
  <2> QED  BY <2>1, JoinedTileIs
<1>2. \A t \in AtTheEnd(T) : t \in T /\ t.id = Free
  BY DEF AtTheEnd
<1>3. \A t \in S : t \in BlocksOf(T) \/ t \in JoinedTiles(f) \/ t \in AtTheEnd(T)
  BY DEF Loaded
<1>4. BlocksOf(S) = BlocksOf(T)
  BY <1>0, <1>1, <1>2, <1>3 DEF Loaded, BlocksOf
<1> HIDE DEF z, S
<1>5. \A e \in Joined(f) : e[1] + e[2] <= z
  BY JoinedIs DEF z
<1>6. \A t \in S : t \in Tile /\ t.e <= z
  BY <1>0, <1>1, <1>2, <1>3, <1>5
<1>7. ASSUME NEW t \in S, NEW u \in S PROVE t = u \/ Disjoint(t, u)
  <2>1. CASE t \in JoinedTiles(f) /\ u \in JoinedTiles(f)
    <3>1. PICK d \in Joined(f) : t = TileOf(Free, d[1], d[2], Absent) /\ t.s = d[1] /\ t.e = d[1] + d[2]
      BY <1>1, <2>1
    <3>2. PICK e \in Joined(f) : u = TileOf(Free, e[1], e[2], Absent) /\ u.s = e[1] /\ u.e = e[1] + e[2]
      BY <1>1, <2>1
    <3>3. d = e \/ d[1] + d[2] <= e[1] \/ e[1] + e[2] <= d[1]
      BY JoinedApart
    <3> QED  BY <3>1, <3>2, <3>3 DEF Disjoint
  <2>2. ASSUME NEW v \in JoinedTiles(f), NEW w \in T, w \in BlocksOf(T) \/ w \in AtTheEnd(T) PROVE Disjoint(v, w) /\ Disjoint(w, v)
    <3>1. PICK e \in Joined(f) : v.s = e[1] /\ v.e = e[1] + e[2]
      BY <1>1, <2>2
    <3>2. w.e <= e[1] \/ e[1] + e[2] <= w.s
      BY <2>2, JoinedApart
    <3> QED  BY <3>1, <3>2 DEF Disjoint
  <2> QED  BY <1>0, <1>2, <1>3, <2>1, <2>2
<1>8. ASSUME NEW x \in 1 .. z - 1 PROVE \E t \in S : Inside(x, t)
  <2>1. PICK t \in T : Inside(x, t)
    BY <1>0 DEF Tiling
  <2>2. CASE t.id \in Block
    BY <1>0, <2>1, <2>2 DEF S, Loaded
  <2>3. CASE t.id = Free
    <3>1. CASE t \in AtTheEnd(T)
      BY <2>1, <3>1 DEF S, Loaded
    <3>2. CASE t \notin AtTheEnd(T)
      <4>1. PICK w \in BlocksOf(T) : ~(w.s < t.s)
        BY <2>3, <3>2 DEF AtTheEnd
      <4>2. w.s >= t.s
        BY <1>0, <4>1
      <4>3. PICK e \in Joined(f) : e[1] <= t.s /\ t.e <= e[1] + e[2]
        BY <2>3, <4>2, JoinedCovers
      <4> DEFINE u == TileOf(Free, e[1], e[2], Absent)
      <4>4. u \in S
        BY DEF S, Loaded, JoinedTiles
      <4>5. u.s = e[1] /\ u.e = e[1] + e[2]
        BY JoinedTileIs
      <4>6. e[1] \in Nat /\ e[2] \in Nat
        BY JoinedIs
      <4> HIDE DEF u
      <4>7. Inside(x, u)
        BY <1>0, <2>1, <4>3, <4>5, <4>6 DEF Inside
      <4> QED  BY <4>4, <4>7
    <3> QED  BY <3>1, <3>2
  <2> QED  BY <1>0, <2>2, <2>3
<1>9. Tiling(z, S)
  BY <1>0, <1>4, <1>6, <1>7, <1>8 DEF Tiling, S
<1> QED  BY <1>4, <1>9 DEF S, z

-----------------------------------------------------------------------------
(* Putting them in order.                                                    *)

\* A set of extents can be put in order.
Sorted(s, n, q) == q \in [1..n -> s] /\ \A i, j \in 1..n : i < j => q[i][1] < q[j][1]

\* Sorting leaves nothing out and nothing twice.
LEMMA SortedAll ==
    ASSUME NEW s, IsFiniteSet(s), NEW q, Sorted(s, Cardinality(s), q), \A e \in s : e[1] \in Nat
    PROVE  /\ \A e \in s : \E i \in 1..Cardinality(s) : q[i] = e
           /\ \A i, j \in 1..Cardinality(s) : i # j => q[i] # q[j]
<1> DEFINE n == Cardinality(s)
<1>0. n \in Nat /\ q \in [1..n -> s]
  BY FS_CardinalityType DEF Sorted
<1> HIDE DEF n
<1>1. ASSUME NEW i \in 1..n, NEW j \in 1..n, i # j PROVE q[i] # q[j]
  <2>1. q[i][1] \in Nat /\ q[j][1] \in Nat
    BY <1>0
  <2>2. q[i][1] < q[j][1] \/ q[j][1] < q[i][1]
    BY <1>0, <1>1 DEF Sorted, n
  <2> QED  BY <2>1, <2>2
<1>2. ASSUME NEW e \in s, \A i \in 1..n : q[i] # e PROVE FALSE
  <2>1. IsFiniteSet(s \ {e}) /\ Cardinality(s \ {e}) = n - 1
    BY FS_RemoveElement DEF n
  <2>2. IsFiniteSet(1..n) /\ Cardinality(1..n) = n
    <3>1. 1 \in Int /\ n \in Int
      BY <1>0
    <3>2. IsFiniteSet(1..n) /\ Cardinality(1..n) = IF 1 > n THEN 0 ELSE n - 1 + 1
      BY <3>1, FS_Interval
    <3> QED  BY <1>0, <3>2
  <2>3. q \in [1..n -> s \ {e}]
    BY <1>0, <1>2
  <2>4. Cardinality(s \ {e}) < Cardinality(1..n)
    BY <1>0, <2>1, <2>2
  <2>5. \E x, y \in 1..n : x # y /\ q[x] = q[y]
    <3> DEFINE A == 1..n
               B == s \ {e}
    <3> HIDE DEF A, B
    <3>1. IsFiniteSet(A) /\ IsFiniteSet(B) /\ Cardinality(B) < Cardinality(A) /\ q \in [A -> B]
      BY <2>1, <2>2, <2>3, <2>4 DEF A, B
    <3>2. \E x, y \in A : x # y /\ q[x] = q[y]
      BY <3>1, FS_PigeonHole
    <3> QED  BY <3>2 DEF A
  <2> QED  BY <1>1, <2>5
<1> QED  BY <1>1, <1>2 DEF n

\* There is an order, by induction over the address from which on it is sorted.
LEMMA SortedExists ==
    ASSUME NEW s, IsFiniteSet(s), NEW N \in Nat, \A e \in s : e[1] \in Nat /\ e[1] <= N,
           \A d, e \in s : d[1] = e[1] => d = e
    PROVE  \E q : Sorted(s, Cardinality(s), q)
<1> DEFINE Bad == {n \in Nat : \E r \in SUBSET s : Cardinality(r) = n /\ ~ \E q : Sorted(r, n, q)}
<1>1. SUFFICES ASSUME Bad # {} PROVE FALSE
  <2>1. Cardinality(s) \in Nat /\ s \in SUBSET s
    BY FS_CardinalityType
  <2> QED  BY <2>1
<1>2. PICK n \in Bad : \A k \in Bad : n <= k
  <2>1. Bad \subseteq Nat
    OBVIOUS
  <2> HIDE DEF Bad
  <2> QED  BY <1>1, <2>1, LeastOf
<1>3. PICK r \in SUBSET s : n \in Nat /\ Cardinality(r) = n /\ ~ \E q : Sorted(r, n, q)
  OBVIOUS
<1>4. IsFiniteSet(r)
  BY FS_Subset
<1>5. CASE r = {}
  <2>1. n = 0
    BY <1>3, <1>5, FS_EmptySet
  <2>2. Sorted(r, n, [i \in 1..0 |-> 0])
    BY <2>1 DEF Sorted
  <2> QED  BY <1>3, <2>2
<1>6. CASE r # {}
  <2> DEFINE A == {e[1] : e \in r}
  <2>1. A \subseteq Nat /\ A # {} /\ \A x \in A : x <= N
    BY <1>6
  <2> DEFINE top == Max(A)
  <2>2. top \in A /\ \A x \in A : x <= top
    <3> HIDE DEF A
    <3> QED  BY <2>1, MaxIs
  <2> HIDE DEF top
  <2>3. PICK t \in r : top = t[1]
    BY <2>2
  <2>4. \A e \in r : e # t => e[1] < t[1]
    <3> TAKE e \in r
    <3> HAVE e # t
    <3>1. e[1] <= t[1] /\ e[1] # t[1]
      BY <2>2, <2>3
    <3> QED  BY <3>1
  <2>5. IsFiniteSet(r \ {t}) /\ Cardinality(r \ {t}) = n - 1 /\ n # 0
    BY <1>3, <1>4, FS_RemoveElement, FS_EmptySet
  <2>6. n - 1 \in Nat /\ n - 1 \notin Bad
    BY <1>2, <1>3, <2>5
  <2>7. PICK q : Sorted(r \ {t}, n - 1, q)
    BY <2>5, <2>6
  <2> DEFINE p == [i \in 1..n |-> IF i = n THEN t ELSE q[i]]
  <2>8. q \in [1 .. n - 1 -> r \ {t}] /\ \A i, j \in 1 .. n - 1 : i < j => q[i][1] < q[j][1]
    BY <2>7 DEF Sorted
  <2>9. \A i \in 1..n : i = n \/ i \in 1 .. n - 1
    BY <1>3
  <2>10. p \in [1..n -> r]
    BY <2>8, <2>9
  <2>11. ASSUME NEW i \in 1..n, NEW j \in 1..n, i < j PROVE p[i][1] < p[j][1]
    <3>1. i \in 1 .. n - 1 /\ i # n
      BY <1>3, <2>11
    <3>2. CASE j = n
      BY <2>4, <2>8, <3>1, <3>2
    <3>3. CASE j # n
      BY <2>8, <2>9, <2>11, <3>1, <3>3
    <3> QED  BY <3>2, <3>3
  <2>12. Sorted(r, n, p)
    <3> HIDE DEF p
    <3> QED  BY <2>10, <2>11 DEF Sorted
  <2> QED  BY <1>3, <2>12
<1> QED  BY <1>5, <1>6

\* InOrder is one.
LEMMA InOrderIs ==
    ASSUME NEW s, IsFiniteSet(s), NEW N \in Nat, \A e \in s : e[1] \in Nat /\ e[1] <= N,
           \A d, e \in s : d[1] = e[1] => d = e
    PROVE  /\ InOrder(s) \in [1..Cardinality(s) -> s] /\ Cardinality(s) \in Nat
           /\ \A e \in s : \E i \in 1..Cardinality(s) : InOrder(s)[i] = e
           /\ \A i, j \in 1..Cardinality(s) : i # j => InOrder(s)[i] # InOrder(s)[j]
<1> DEFINE n == Cardinality(s)
           P(q) == \A i, j \in 1..n : i < j => q[i][1] < q[j][1]
<1>1. \E q \in [1..n -> s] : P(q)
  BY SortedExists DEF Sorted
<1>2. InOrder(s) = CHOOSE q \in [1..n -> s] : P(q)
  BY DEF InOrder
<1>3. InOrder(s) \in [1..n -> s] /\ P(InOrder(s))
  <2> HIDE DEF P, n
  <2> QED  BY <1>1, <1>2
<1>4. Sorted(s, Cardinality(s), InOrder(s))
  BY <1>3 DEF Sorted
<1> QED  BY <1>3, <1>4, SortedAll, FS_CardinalityType

\* What LoadFile queues for the extents it joined.
QueuedAs(p, s) ==
    /\ p \in Seq(Operation) /\ Len(p) \in Nat
    /\ \A i \in 1..Len(p) : /\ p[i].id = Free /\ p[i].addr >= 1 /\ p[i].size >= 1
                            /\ p[i].addr \in Nat /\ p[i].size \in Nat
                            /\ \E e \in s : p[i].addr = e[1] /\ p[i].size = e[2]
    /\ \A e \in s : \E i \in 1..Len(p) :
         /\ p[i].addr = e[1] /\ p[i].size = e[2]
         /\ \A j \in 1..Len(p) : j # i => \E d \in s : d # e /\ p[j].addr = d[1] /\ p[j].size = d[2]

\* The queue after a start.
LEMMA QueueIs ==
    ASSUME NEW f, Sized(f), NEW T, TilesAs(f, T)
    PROVE  QueuedAs(Queue(f, InOrder(Joined(f))), Joined(f))
<1> DEFINE s == Joined(f)
           n == Cardinality(s)
           o == InOrder(s)
           p == Queue(f, o)
<1>0. /\ \A e \in s : e = <<e[1], e[2]>> /\ e[1] \in Nat /\ e[2] \in Nat /\ 1 <= e[1] /\ 1 <= e[2] /\ e[1] + e[2] <= f[0].val
      /\ f[0].val \in Nat
  BY JoinedIs DEF TilesAs, Tiling
<1>1. \A d, e \in s : d[1] = e[1] => d = e
  <2> SUFFICES ASSUME NEW d \in s, NEW e \in s, d[1] = e[1] PROVE d = e
    OBVIOUS
  <2>1. d = e \/ d[1] + d[2] <= e[1] \/ e[1] + e[2] <= d[1]
    BY JoinedApart
  <2> QED  BY <1>0, <2>1
<1>2. IsFiniteSet(s)
  <2> DEFINE z == f[0].val
  <2>1. s \subseteq (0..z) \X (0..z)
    BY <1>0
  <2>2. IsFiniteSet(0..z)
    <3>1. 0 \in Int /\ z \in Int
      BY <1>0
    <3> QED  BY <3>1, FS_Interval
  <2> HIDE DEF s, z
  <2>3. IsFiniteSet((0..z) \X (0..z))
    BY <2>2, FS_Product
  <2> QED  BY <2>1, <2>3, FS_Subset
<1>3. \A e \in s : e[1] \in Nat /\ e[1] <= f[0].val
  BY <1>0
<1> HIDE DEF s
<1>4. /\ o \in [1..n -> s] /\ n \in Nat
      /\ \A e \in s : \E i \in 1..n : o[i] = e
      /\ \A i, j \in 1..n : i # j => o[i] # o[j]
  BY <1>0, <1>1, <1>2, <1>3, InOrderIs
<1> HIDE DEF n, o
<1>5. p = [i \in 1..n |-> FreeOp(o[i][1], o[i][2], f[o[i][1]].size # o[i][2])]
  BY <1>4 DEF Queue
<1> HIDE DEF p
<1>6. ASSUME NEW i \in 1..n
      PROVE /\ p[i] \in Operation /\ p[i].id = Free /\ p[i].addr = o[i][1] /\ p[i].size = o[i][2]
            /\ o[i] \in s
  <2>1. o[i] \in s /\ o[i][1] \in Nat /\ o[i][2] \in Nat
    BY <1>0, <1>4
  <2> DEFINE w == (f[o[i][1]].size # o[i][2])
  <2>2. w \in BOOLEAN /\ p[i] = FreeOp(o[i][1], o[i][2], w)
    BY <1>5
  <2> HIDE DEF w
  <2> QED  BY <2>1, <2>2 DEF FreeOp, Operation
<1>7. p \in Seq(Operation) /\ Len(p) = n
  <2>1. p = [i \in 1..n |-> p[i]]
    BY <1>5
  <2>2. p \in [1..n -> Operation]
    BY <1>6, <2>1
  <2> QED  BY <1>4, <2>1, <2>2
<1>8. ASSUME NEW e \in s
      PROVE \E i \in 1..n : /\ p[i].addr = e[1] /\ p[i].size = e[2]
                            /\ \A j \in 1..n : j # i => \E d \in s : d # e /\ p[j].addr = d[1] /\ p[j].size = d[2]
  <2>1. PICK i \in 1..n : o[i] = e
    BY <1>4
  <2>2. \A j \in 1..n : j # i => o[j] \in s /\ o[j] # e /\ p[j].addr = o[j][1] /\ p[j].size = o[j][2]
    BY <1>4, <1>6, <2>1
  <2>3. ASSUME NEW j \in 1..n, j # i PROVE \E d \in s : d # e /\ p[j].addr = d[1] /\ p[j].size = d[2]
    BY <2>2, <2>3
  <2>4. p[i].addr = e[1] /\ p[i].size = e[2]
    BY <1>6, <2>1
  <2> QED  BY <2>3, <2>4
<1>9. ASSUME NEW i \in 1..n
      PROVE /\ p[i].id = Free /\ p[i].addr >= 1 /\ p[i].size >= 1 /\ p[i].addr \in Nat /\ p[i].size \in Nat
            /\ \E e \in s : p[i].addr = e[1] /\ p[i].size = e[2]
  <2>1. p[i].id = Free /\ p[i].addr = o[i][1] /\ p[i].size = o[i][2] /\ o[i] \in s
    BY <1>6
  <2>2. o[i][1] \in Nat /\ o[i][2] \in Nat /\ o[i][1] >= 1 /\ o[i][2] >= 1
    BY <1>0, <2>1
  <2> QED  BY <2>1, <2>2
<1>10. QueuedAs(p, s)
  BY <1>4, <1>7, <1>8, <1>9 DEF QueuedAs
<1> QED  BY <1>10 DEF p, o, s

-----------------------------------------------------------------------------
(* Memory after a start.                                                     *)

\* What a start has in memory is a way to the file as it is.
LEMMA LoadedCore ==
    ASSUME NEW f, Sized(f), NEW T, TilesAs(f, T),
           NEW q, q = [size |-> f[0].val, free |-> Joined(f), last |-> 0, pend |-> Queue(f, InOrder(Joined(f)))]
    PROVE  Core(q, Loaded(f, T), {}, {}, f, f, {})
<1> USE Names
<1> DEFINE S == Loaded(f, T)
           p == Queue(f, InOrder(Joined(f)))
<1>0. /\ \A v \in T : v \in Tile /\ v.s \in Nat /\ v.e \in Nat /\ 1 <= v.s /\ v.s < v.e
      /\ \A v \in T : v.id \in Block \cup {Free} /\ Shown(f, v)
      /\ \A v, u \in T : v = u \/ Disjoint(v, u)
      /\ \A v \in BlocksOf(T) : v \in T
  BY TileFacts DEF TilesAs, Tiling, BlocksOf
<1>1. /\ p \in Seq(Operation) /\ Len(p) \in Nat
      /\ \A i \in 1..Len(p) : /\ p[i].id = Free /\ p[i].addr >= 1 /\ p[i].size >= 1
                              /\ p[i].addr \in Nat /\ p[i].size \in Nat
                              /\ \E e \in Joined(f) : p[i].addr = e[1] /\ p[i].size = e[2]
      /\ \A e \in Joined(f) : \E i \in 1..Len(p) :
           /\ p[i].addr = e[1] /\ p[i].size = e[2]
           /\ \A j \in 1..Len(p) : j # i => \E d \in Joined(f) : d # e /\ p[j].addr = d[1] /\ p[j].size = d[2]
  <2>1. QueuedAs(p, Joined(f))
    BY QueueIs
  <2> HIDE DEF p
  <2> QED  BY <2>1 DEF QueuedAs
<1>2. Tiling(f[0].val, S) /\ BlocksOf(S) = BlocksOf(T)
  BY LoadedTiles
<1>3. \A e \in Joined(f) : /\ e = <<e[1], e[2]>> /\ e[1] \in Nat /\ e[2] \in Nat /\ 1 <= e[1] /\ 1 <= e[2]
                           /\ (e[1] + e[2]) - e[1] = e[2]
  <2>1. \A e \in Joined(f) : e = <<e[1], e[2]>> /\ e[1] \in Nat /\ e[2] \in Nat /\ 1 <= e[1] /\ 1 <= e[2]
    BY JoinedIs
  <2> QED  BY <2>1
<1>4. /\ q.size = f[0].val /\ q.free = Joined(f) /\ q.last = 0 /\ q.pend = p
      /\ q \in [size : Nat, free : SUBSET (Nat \X Nat), pend : Seq(Operation), last : Nat]
  <2>1. Joined(f) \subseteq Nat \X Nat
    BY <1>3
  <2>2. f[0].val \in Nat
    BY <1>2 DEF Tiling
  <2> HIDE DEF p
  <2>3. q = [size |-> f[0].val, free |-> Joined(f), pend |-> p, last |-> 0]
    BY DEF p
  <2> QED  BY <1>1, <2>1, <2>2, <2>3
<1> HIDE DEF p, S
<1>5. QueueOK(q)
  <2>1. \A j \in 1..Len(q.pend) : q.pend[j].id = Free /\ q.pend[j].addr >= 1 /\ q.pend[j].size >= 1
    BY <1>1, <1>4
  <2>2. q.last <= Len(q.pend)
    BY <1>1, <1>4
  <2> QED  BY <1>4, <2>1, <2>2 DEF QueueOK
<1>6. ASSUME NEW t \in S
      PROVE  \/ t \in T /\ t.id = Free /\ t \in AtTheEnd(T)
             \/ t \in BlocksOf(T)
             \/ \E e \in Joined(f) : t = TileOf(Free, e[1], e[2], Absent) /\ t.s = e[1] /\ t.e = e[1] + e[2] /\ t.id = Free
  <2>1. ASSUME NEW e \in Joined(f), t = TileOf(Free, e[1], e[2], Absent)
        PROVE  t.s = e[1] /\ t.e = e[1] + e[2] /\ t.id = Free
    BY <2>1, JoinedTileIs
  <2> QED  BY <1>6, <2>1 DEF S, Loaded, JoinedTiles, AtTheEnd
<1>7. \A e \in Joined(f) : /\ \A u \in BlocksOf(T) : u.e <= e[1] \/ e[1] + e[2] <= u.s
                           /\ \A u \in AtTheEnd(T) : e[1] + e[2] <= u.s
                           /\ \A d \in Joined(f) : d = e \/ d[1] + d[2] <= e[1] \/ e[1] + e[2] <= d[1]
  BY JoinedApart
\* A tile of the file as it is.
<1>8. ASSUME NEW t \in T, t \in BlocksOf(T) \/ t \in AtTheEnd(T)
      PROVE  Provided(q, t, f, f) /\ Covered(q, t, {}, {})
  <2>1. ASSUME NEW j \in 1..Len(p), NEW x \in Nat, Inside(x, t) PROVE ~Touches(p[j], x) /\ ~Writes(p[j], x)
    <3>1. PICK e \in Joined(f) : p[j].addr = e[1] /\ p[j].size = e[2]
      BY <1>1
    <3>2. t.e <= e[1] \/ e[1] + e[2] <= t.s
      BY <1>7, <1>8
    <3>3. /\ e[1] \in Nat /\ e[2] \in Nat /\ 1 <= e[2]
          /\ t.s \in Nat /\ t.e \in Nat /\ t.s <= x /\ x < t.e
      BY <1>0, <1>3, <2>1 DEF Inside
    <3>4. ASSUME NEW a \in Nat, NEW n \in Nat, NEW l \in Nat, NEW r \in Nat,
                 1 <= n, l <= x, x < r, r <= a \/ a + n <= l
          PROVE  ~(a <= x /\ x < a + n)
      BY <3>4
    <3>5. ~(e[1] <= x /\ x < e[1] + e[2])
      BY ONLY <3>2, <3>3, <3>4
    <3>6. ~Touches(p[j], x)
      BY <3>1, <3>5 DEF Touches
    <3>7. p[j].addr \in Nat /\ p[j].size \in Nat /\ p[j].size >= 1
      BY <1>1
    <3> QED  BY <3>6, <3>7, WritesTouch
  <2>2. \A x \in Nat : Needs(t, x) => Inside(x, t)
    BY <1>0 DEF Needs, Inside
  <2>3. Serves(q, t, 0, f, f)
    BY <1>0, <1>4, <2>1, <2>2 DEF Serves
  <2>4. 0 \in 0..Len(q.pend)
    BY <1>1, <1>4
  <2> QED  BY <1>4, <2>1, <2>3, <2>4 DEF Provided, Covered
\* A joined one.
<1>9. ASSUME NEW e \in Joined(f), NEW t, t = TileOf(Free, e[1], e[2], Absent), t.s = e[1], t.e = e[1] + e[2], t.id = Free
      PROVE  Provided(q, t, f, f) /\ Covered(q, t, {}, {})
  <2>1. PICK i \in 1..Len(p) :
           /\ p[i].addr = e[1] /\ p[i].size = e[2]
           /\ \A j \in 1..Len(p) : j # i => \E d \in Joined(f) : d # e /\ p[j].addr = d[1] /\ p[j].size = d[2]
    BY <1>1
  <2>2. ASSUME NEW j \in 1..Len(p), j # i, NEW x \in Nat, Inside(x, t) PROVE ~Touches(p[j], x) /\ ~Writes(p[j], x)
    <3>1. PICK d \in Joined(f) : d # e /\ p[j].addr = d[1] /\ p[j].size = d[2]
      BY <2>1, <2>2
    <3>2. d[1] + d[2] <= e[1] \/ e[1] + e[2] <= d[1]
      BY <1>7, <3>1
    <3>3. d[1] \in Nat /\ d[2] \in Nat /\ 1 <= d[2] /\ e[1] \in Nat /\ e[2] \in Nat
      BY <1>3
    <3>4. ASSUME NEW a \in Nat, NEW n \in Nat, NEW b \in Nat, NEW k \in Nat, a + n <= b \/ b + k <= a, b <= x, x < b + k
          PROVE  ~(a <= x /\ x < a + n)
      BY <3>4
    <3>5. e[1] <= x /\ x < e[1] + e[2]
      BY <1>9, <2>2 DEF Inside
    <3>6. ~(d[1] <= x /\ x < d[1] + d[2])
      BY ONLY <3>2, <3>3, <3>4, <3>5
    <3>7. ~Touches(p[j], x)
      BY <3>1, <3>6 DEF Touches
    <3> QED  BY <3>1, <3>3, <3>7, WritesTouch
  <2>3. \A x \in Nat : Needs(t, x) => Inside(x, t)
    BY <1>3, <1>9 DEF Needs, Inside
  <2>4. Own(p[i], t)
    BY <1>1, <1>3, <1>9, <2>1 DEF Own
  <2>5. Serves(q, t, i, f, f)
    BY <1>4, <2>2, <2>3, <2>4 DEF Serves
  <2>6. i \in 0..Len(q.pend) /\ q.last < i
    BY <1>1, <1>4
  <2>7. p[i].addr + p[i].size <= t.e
    BY <1>3, <1>9, <2>1
  <2>8. ASSUME NEW j \in 1..Len(q.pend), NEW x \in Nat, Inside(x, t), Writes(q.pend[j], x)
        PROVE  Logged(q, t, x, {}, {})
    <3>1. j = i
      BY <1>4, <2>2, <2>8
    <3> QED  BY <1>4, <2>6, <2>7, <2>8, <3>1 DEF Logged
  <2> QED  BY <2>5, <2>6, <2>8 DEF Provided, Covered
<1>10. Clean(q, S, {}, f, f, {})
  BY <1>0, <1>6, <1>8, <1>9 DEF Clean
<1>11. FreeListed(q, S)
  <2> SUFFICES ASSUME NEW r \in Joined(f) PROVE \E t \in S : t.id = Free /\ r = <<t.s, t.e - t.s>>
    BY <1>4 DEF FreeListed
  <2> DEFINE t == TileOf(Free, r[1], r[2], Absent)
  <2>1. t \in S
    BY DEF S, Loaded, JoinedTiles
  <2>2. t.s = r[1] /\ t.e = r[1] + r[2] /\ t.id = Free
    BY JoinedTileIs
  <2> HIDE DEF t
  <2> QED  BY <1>3, <2>1, <2>2
<1>12. Owned(q, S, {})
  BY <1>1, <1>4 DEF Owned
<1>13. S \ {} = S
  OBVIOUS
<1> QED  BY <1>2, <1>4, <1>5, <1>10, <1>11, <1>12, <1>13 DEF Core, S

\* And what it has in memory of a block.
LEMMA LoadedKept ==
    ASSUME NEW f, Sized(f), NEW T, TilesAs(f, T), NEW ca, NEW ad, NEW av, NEW b \in Block, ca[b] = Absent,
           (\E p \in Blocks(f) : f[p].id = b /\ ad[b] = p) \/ (ad[b] = 0 /\ \A p \in Blocks(f) : f[p].id # b),
           b \in av <=> ad[b] = 0,
           NEW q, \A i \in 1..Len(q.pend) : q.pend[i].id = Free
    PROVE  Kept(b, Loaded(f, T), q, ca, {}, ad, av)
<1> USE Names
<1>0. /\ \A v \in T : v \in Tile /\ v.s \in Nat /\ 1 <= v.s /\ f[v.s].id = v.id
      /\ \A v \in BlocksOf(T) : v \in T
      /\ \A v, u \in BlocksOf(T) : v.id = u.id => v = u
      /\ BlocksOf(Loaded(f, T)) = BlocksOf(T)
  <2>1. BlocksOf(Loaded(f, T)) = BlocksOf(T)
    BY LoadedTiles
  <2>2. /\ \A v \in T : v \in Tile /\ Shown(f, v)
        /\ \A v, u \in BlocksOf(T) : v.id = u.id => v = u
    BY DEF TilesAs, Tiling
  <2>3. \A v \in T : v.s \in Nat /\ 1 <= v.s /\ f[v.s].id = v.id
    BY <2>2, TileFacts, TileCell
  <2> QED  BY <2>1, <2>2, <2>3 DEF BlocksOf
<1>1. \A y : y \in Blocks(f) <=> \E u \in BlocksOf(T) : y = u.s
  BY ScanTiles
<1>2. ca[b] = Absent /\ \A i \in 1..Len(q.pend) : q.pend[i].id # b
  OBVIOUS
<1>3. ASSUME NEW p \in Blocks(f), f[p].id = b, ad[b] = p
      PROVE  Kept(b, Loaded(f, T), q, ca, {}, ad, av)
  <2>1. PICK u \in BlocksOf(T) : p = u.s
    BY <1>1, <1>3
  <2>2. u.id = b /\ ad[b] = u.s /\ ad[b] \in Nat /\ ad[b] # 0
    BY <1>0, <1>3, <2>1
  <2>3. \A t \in BlocksOf(T) : t.id = b => t = u
    BY <1>0, <2>2
  <2>4. b \notin av
    BY <2>2
  <2> QED  BY <1>0, <1>2, <2>2, <2>3, <2>4 DEF Kept
<1>4. ASSUME ad[b] = 0, \A p \in Blocks(f) : f[p].id # b
      PROVE  Kept(b, Loaded(f, T), q, ca, {}, ad, av)
  <2>1. \A t \in BlocksOf(T) : t.id # b
    BY <1>0, <1>1, <1>4
  <2> QED  BY <1>0, <1>2, <1>4, <2>1 DEF Kept
<1> QED  BY <1>3, <1>4

-----------------------------------------------------------------------------
(* Files and journals stay what they are.                                    *)

PatchesSized(p, n) == \A i \in 1..n : \A x \in DOMAIN p[i] : p[i][x].size \in Nat
JournalOK(j) == /\ \E S : j \in Seq([sig : {"writ", "fini"}, size : Nat, patch : S])
                /\ \A i \in 1..Len(j) : \A x \in DOMAIN j[i].patch : j[i].patch[x].size \in Nat

\* Patches of cells leave a file of cells.
LEMMA WrittenSized ==
    ASSUME NEW f, Sized(f), NEW p, NEW n \in Nat, PatchesSized(p, n)
    PROVE  Sized(Written(f, p, n))
<1>1. ASSUME NEW x \in Cells PROVE Written(f, p, n)[x].size \in Nat
  <2>1. \/ Written(f, p, n)[x] = f[x]
        \/ \E k \in 1..n : x \in DOMAIN p[k] /\ Written(f, p, n)[x] = p[k][x]
    BY WrittenAt DEF LastTo
  <2> QED  BY <2>1 DEF Sized, PatchesSized
<1>2. Written(f, p, n) = [x \in Cells |-> Written(f, p, n)[x]]
  BY DEF Written
<1> QED  BY <1>1, <1>2 DEF Sized

\* So does cutting it.
LEMMA CutSized ==
    ASSUME NEW f, Sized(f), NEW n
    PROVE  Sized(Cut(f, n))
<1>1. \A x \in Cells : Cut(f, n)[x].size \in Nat
  BY DEF Cut, Sized, Zero
<1>2. Cut(f, n) = [x \in Cells |-> Cut(f, n)[x]]
  BY DEF Cut
<1> QED  BY <1>1, <1>2 DEF Sized

\* A journal, entry by entry.
LEMMA JournalFacts ==
    ASSUME NEW j, JournalOK(j)
    PROVE  /\ Len(j) \in Nat
           /\ \A i \in 1..Len(j) : j[i].sig \in {"writ", "fini"} /\ j[i].size \in Nat
<1>1. PICK S : j \in Seq([sig : {"writ", "fini"}, size : Nat, patch : S])
  BY DEF JournalOK
<1> DEFINE E == [sig : {"writ", "fini"}, size : Nat, patch : S]
<1>2. j \in Seq(E) /\ \A e \in E : e.sig \in {"writ", "fini"} /\ e.size \in Nat
  BY <1>1
<1> HIDE DEF E
<1>3. Len(j) \in Nat /\ \A i \in 1..Len(j) : j[i] \in E
  BY <1>2
<1> QED  BY <1>2, <1>3

\* So does a replay.
LEMMA RecSized ==
    ASSUME NEW f, Sized(f), NEW j, JournalOK(j), NEW k \in 0..Len(j)
    PROVE  Sized(RecOf(f, j, k))
<1> DEFINE p == [i \in 1..k |-> Effect(j[i])]
<1>0. Len(j) \in Nat /\ k \in Nat
  BY JournalFacts
<1>1. ASSUME NEW i \in 1..k, NEW x \in DOMAIN Effect(j[i]) PROVE Effect(j[i])[x].size \in Nat
  <2>1. i \in 1..Len(j)
    BY <1>0
  <2>2. CASE j[i].sig = "fini"
    <3>1. Effect(j[i]) = [y \in Alloc(j[i].size) .. MaxFile |-> Zero]
      BY <2>2 DEF Effect
    <3>2. Effect(j[i])[x] = Zero
      BY <1>1, <3>1
    <3> QED  BY <3>2 DEF Zero
  <2>3. CASE j[i].sig # "fini"
    <3>1. Effect(j[i]) = j[i].patch
      BY <2>3 DEF Effect
    <3> QED  BY <1>1, <2>1, <3>1 DEF JournalOK
  <2> QED  BY <2>2, <2>3
<1>2. PatchesSized(p, k)
  BY <1>1 DEF PatchesSized
<1>3. Sized(Written(f, p, k))
  <2> HIDE DEF p
  <2> QED  BY <1>0, <1>2, WrittenSized
<1> QED  BY <1>3 DEF RecOf

\* What a pending operation writes are cells.
LEMMA PatchSized ==
    ASSUME NEW q, QueueOK(q), NEW j \in 1..Len(q.pend),
           q.pend[j].id \in Block => cache[q.pend[j].id] \in Content
    PROVE  \A x \in DOMAIN Patch(q, q.pend[j]) : Patch(q, q.pend[j])[x].size \in Nat
<1> USE Names
<1> DEFINE o == q.pend[j]
<1>0. o.addr \in Nat /\ o.size \in Nat /\ o.id \in Block \cup {Free, Header} /\ o.size >= 1 /\ q.size \in Nat
  BY QueueFacts
<1> HIDE DEF o
<1>1. CASE o.id = Free /\ o.addr + o.size <= q.size
  <2> DEFINE a == o.addr
             n == o.size
  <2>1. Patch(q, o) = FreeCells(a, n, o.wipe)
    BY <1>1 DEF Patch
  <2> HIDE DEF a, n
  <2>2. \A x \in DOMAIN FreeCells(a, n, o.wipe) : FreeCells(a, n, o.wipe)[x] \in {FreeCell(n, 0), FreeCell(n, n - 1), Zero}
    BY DEF FreeCells
  <2>3. FreeCell(n, 0).size = n /\ FreeCell(n, n - 1).size = n /\ Zero.size = 0
    BY DEF FreeCell, Zero
  <2>4. \A x \in DOMAIN Patch(q, o) : Patch(q, o)[x].size \in Nat
    BY <1>0, <2>1, <2>2, <2>3 DEF n
  <2> QED  BY <2>4 DEF o
<1>2. CASE o.id = Free /\ ~(o.addr + o.size <= q.size)
  <2>1. Patch(q, o) = <<>>
    BY <1>2 DEF Patch
  <2>2. \A x \in DOMAIN Patch(q, o) : Patch(q, o)[x].size \in Nat
    BY <2>1
  <2> QED  BY <2>2 DEF o
<1>3. CASE o.id = Header
  <2>1. Patch(q, o) = [x \in {0} |-> HeaderCell(q.size)]
    BY <1>3 DEF Patch
  <2>2. \A x \in DOMAIN Patch(q, o) : Patch(q, o)[x].size \in Nat
    BY <2>1 DEF HeaderCell, FirstBlock
  <2> QED  BY <2>2 DEF o
<1>4. CASE o.id \in Block
  <2> DEFINE c == cache[o.id]
  <2>1. Patch(q, o) = BlockCells(o.id, o.addr, c)
    BY <1>4 DEF Patch
  <2>2. c \in Content
    BY <1>4 DEF o
  <2>3. c.size \in Nat
    BY <2>2, StoreAssumption DEF Content
  <2> HIDE DEF c
  <2>4. \A x \in DOMAIN BlockCells(o.id, o.addr, c) : BlockCells(o.id, o.addr, c)[x].size = c.size
    BY DEF BlockCells
  <2>5. \A x \in DOMAIN Patch(q, o) : Patch(q, o)[x].size \in Nat
    BY <2>1, <2>3, <2>4
  <2> QED  BY <2>5 DEF o
<1> QED  BY <1>0, <1>1, <1>2, <1>3, <1>4

\* The journal after a commit.
LEMMA ClosingOK ==
    ASSUME NEW j, JournalOK(j), NEW q, QueueOK(q),
           \A i \in 1..Len(q.pend) : q.pend[i].id \in Block => cache[q.pend[i].id] \in Content
    PROVE  JournalOK(Closing(j, q))
<1> DEFINE h == Closing(j, q)
           e == Len(q.pend) - q.last
<1>1. PICK S : j \in Seq([sig : {"writ", "fini"}, size : Nat, patch : S])
  BY DEF JournalOK
<1>2. /\ Len(h) = Len(j) + e + 1 /\ e \in Nat /\ Len(j) \in Nat
      /\ \A i \in 1..Len(j) : h[i] = j[i]
      /\ \A i \in 1..e : q.last + i \in 1..Len(q.pend) /\ h[Len(j) + i].patch = Patch(q, q.pend[q.last + i])
      /\ h[Len(h)] = Fini(q)
  <2> DEFINE V == [sig : {"writ", "fini"}, size : Nat, patch : S]
  <2>0. j \in Seq(V)
    BY <1>1
  <2> HIDE DEF V
  <2>1. Closes(h, j, q, e)
    BY <2>0, ClosingIs
  <2> HIDE DEF h, e
  <2> QED  BY <2>1 DEF Closes
<1>3. q.size \in Nat
  BY QueueFacts
<1>4. \E U : h \in Seq([sig : {"writ", "fini"}, size : Nat, patch : U])
  <2> DEFINE U == S \cup {Patch(q, q.pend[q.last + i]) : i \in 1..e} \cup {<<>>}
             E == [sig : {"writ", "fini"}, size : Nat, patch : U]
  <2>1. j \in Seq(E)
    <3> DEFINE V == [sig : {"writ", "fini"}, size : Nat, patch : S]
    <3>1. V \subseteq E /\ j \in Seq(V)
      BY <1>1
    <3> HIDE DEF E, V
    <3>2. Len(j) \in Nat /\ j \in [1..Len(j) -> V]
      BY <3>1
    <3>3. j \in [1..Len(j) -> E]
      BY <3>1, <3>2
    <3> QED  BY <3>2, <3>3
  <2>2. Fini(q) \in E
    BY <1>3 DEF Fini
  <2>3. Entries(q) \in Seq(E)
    <3>1. Entries(q) = [i \in 1..e |-> [sig |-> "writ", patch |-> Patch(q, q.pend[q.last + i]), size |-> 0]]
      BY DEF Entries
    <3>2. \A i \in 1..e : [sig |-> "writ", patch |-> Patch(q, q.pend[q.last + i]), size |-> 0] \in E
      <4> TAKE i \in 1..e
      <4> DEFINE d == Patch(q, q.pend[q.last + i])
      <4>1. d \in U
        OBVIOUS
      <4> HIDE DEF d, U
      <4>2. [sig |-> "writ", patch |-> d, size |-> 0] \in E
        BY <4>1
      <4> QED  BY <4>2 DEF d
    <3> HIDE DEF E, e
    <3>3. Entries(q) \in [1..e -> E]
      BY <3>1, <3>2
    <3> QED  BY <1>2, <3>3
  <2> HIDE DEF E
  <2>4. j \o Entries(q) \in Seq(E)
    BY <2>1, <2>3, ConcatProperties
  <2>5. h \in Seq(E)
    BY <2>2, <2>4 DEF Closing
  <2> QED  BY <2>5 DEF E
<1> HIDE DEF h
<1>5. ASSUME NEW i \in 1..Len(h), NEW x \in DOMAIN h[i].patch PROVE h[i].patch[x].size \in Nat
  <2>1. CASE i \in 1..Len(j)
    BY <1>2, <1>5, <2>1 DEF JournalOK
  <2>2. CASE i = Len(h)
    <3>1. h[i].patch = <<>>
      BY <1>2, <2>2 DEF Fini
    <3> QED  BY <1>5, <3>1
  <2>3. ASSUME NEW k \in 1..e, i = Len(j) + k PROVE h[i].patch[x].size \in Nat
    <3>1. h[i].patch = Patch(q, q.pend[q.last + k]) /\ q.last + k \in 1..Len(q.pend)
      BY <1>2, <2>3
    <3> DEFINE n == q.last + k
    <3> HIDE DEF n
    <3>2. n \in 1..Len(q.pend) /\ h[i].patch = Patch(q, q.pend[n])
      BY <3>1 DEF n
    <3> QED  BY <1>5, <3>2, PatchSized
  <2>4. i \in 1..Len(j) \/ i = Len(h) \/ i - Len(j) \in 1..e
    <3>1. Len(h) = Len(j) + e + 1 /\ e \in Nat /\ Len(j) \in Nat
      BY <1>2
    <3> HIDE DEF e
    <3> QED  BY <3>1
  <2>5. i - Len(j) \in 1..e => i = Len(j) + (i - Len(j))
    BY <1>2
  <2> QED  BY <2>1, <2>2, <2>3, <2>4, <2>5
<1> QED  BY <1>4, <1>5 DEF JournalOK, h

-----------------------------------------------------------------------------
(* What the operations on blocks do to the queue.                            *)

\* Queue p goes on from q with the blocks B; of the others only b changed.
Becomes(q, p, B, b, f, R, J) ==
    \E S : Core(p, S, {}, {}, f, R, J) /\ BlocksOf(S) = B /\ Continues(q, p, b)

\* The queue of a core.
LEMMA CoreQueue ==
    ASSUME NEW q, NEW T, NEW D, NEW O, NEW f, NEW R, NEW J, Core(q, T, D, O, f, R, J)
    PROVE  QueueOK(q) /\ q \in QueueType
BY DEF Core, QueueOK, QueueType

\* A tile of a core.
LEMMA TileOfCore ==
    ASSUME NEW q, NEW T, NEW D, NEW O, NEW f, NEW R, NEW J, Core(q, T, D, O, f, R, J), NEW t \in T
    PROVE  t \in Tile /\ t.s \in Nat /\ t.e \in Nat /\ t.s >= 1 /\ t.s < t.e /\ t.e - t.s \in Nat
<1>1. t \in Tile
  BY DEF Core, Tiling
<1> QED  BY <1>1, TileFacts

\* A content has a size that a block can have.
LEMMA ContentFacts ==
    ASSUME NEW c \in Content
    PROVE  c.size \in BlockSizes /\ c.val \in Value /\ c.size \in Nat /\ c.size >= 1
<1>1. c.size \in BlockSizes /\ c.val \in Value
  BY DEF Content
<1> DEFINE n == c.size
<1> HIDE DEF n
<1>2. n \in BlockSizes
  BY <1>1 DEF n
<1>3. n \in Nat /\ n >= 1
  BY <1>2, StoreAssumption
<1> QED  BY <1>1, <1>3 DEF n

\* A tile for a content holds it.
LEMMA ContentTile ==
    ASSUME NEW b \in Block, NEW a \in Nat, a >= 1, NEW c \in Content
    PROVE  /\ c.size \in Nat /\ c.size >= 1 /\ c.size \in BlockSizes /\ c.val \in Value
           /\ TileOf(b, a, c.size, c.val) \in Tile /\ TileOf(b, a, c.size, c.val).s = a
           /\ TileOf(b, a, c.size, c.val).id = b
           /\ Carries(TileOf(b, a, c.size, c.val)) = c
<1>1. c.size \in BlockSizes /\ c.val \in Value /\ c = [size |-> c.size, val |-> c.val]
  BY DEF Content
<1>2. c.size \in Nat /\ c.size >= 1
  BY <1>1, StoreAssumption
<1> DEFINE n == c.size
           v == c.val
<1> HIDE DEF n, v
<1>3. /\ TileOf(b, a, n, v) \in Tile
      /\ TileOf(b, a, n, v).s = a /\ TileOf(b, a, n, v).e = a + n /\ TileOf(b, a, n, v).id = b
      /\ TileOf(b, a, n, v).val = v
  BY <1>1, <1>2, TileIs DEF n, v
<1>4. (a + n) - a = n
  BY <1>2 DEF n
<1>5. Carries(TileOf(b, a, n, v)) = c
  BY <1>1, <1>3, <1>4 DEF Carries, n, v
<1> QED  BY <1>1, <1>2, <1>3, <1>5 DEF n, v

\* A block without a tile gets one.
LEMMA Placed ==
    ASSUME NEW q, NEW T, NEW f, NEW R, NEW J, NEW b \in Block, Core(q, T, {}, {b}, f, R, J),
           NEW c \in Content, NEW r \in FindFreePosition(q, c.size)
    PROVE  /\ Becomes(q, PendingAdd(r[2], b, r[1], c.size), BlocksOf(T) \cup {TileOf(b, r[1], c.size, c.val)}, b, f, R, J)
           /\ r[1] \in Nat /\ r[1] >= 1
<1> DEFINE n == c.size
           v == c.val
<1>0. n \in BlockSizes /\ v \in Value /\ n \in Nat /\ n >= 1
  BY ContentFacts
<1>1. r \in FindFreePosition(q, n)
  OBVIOUS
<1> HIDE DEF n, v
<1>2. PICK S, d : Core(r[2], S, {d}, {b}, f, R, J) /\ BlocksOf(S) = BlocksOf(T) /\ d.s = r[1] /\ d.e = r[1] + n
  <2>1. FoundAs(q, T, n, r, {b}, f, R, J)
    BY <1>0, <1>1, Found
  <2> QED  BY <2>1 DEF FoundAs
<1>3. Continues(q, r[2], b) /\ r[2] \in QueueType
  BY <1>0, <1>1, CoreQueue, ContinuesFind
<1> DEFINE p == PendingRemove(r[2], b)
           u == TileOf(b, d.s, n, v)
           o == [p EXCEPT !.pend = Append(p.pend, BlockOp(b, d.s, n))]
           U == (S \ {d}) \cup {u}
<1> USE Names
<1>4. QueueOK(r[2]) /\ b # Free /\ b # Header
  BY <1>2, CoreQueue
<1>5. Core(p, S, {d}, {b} \ {b}, f, R, J)
  BY <1>2, Dropped
<1>6. Core(p, S, {d}, {}, f, R, J)
  BY <1>5
<1>7. \A t \in S : t.id # b
  BY <1>2 DEF Core, Owned
<1>8. d \in S /\ d \in Tile /\ d.s \in Nat /\ d.s >= 1 /\ n = d.e - d.s
  <2>0. d \in S
    BY <1>2 DEF Core
  <2>1. d \in Tile /\ d.s \in Nat /\ d.s >= 1
    BY <1>2, <2>0, TileOfCore, Zenon
  <2> QED  BY <1>0, <1>2, <2>0, <2>1
<1> HIDE DEF p
<1>9. Core(o, U, {}, {}, f, R, J) /\ BlocksOf(U) = BlocksOf(S) \cup {u}
  <2>1. Puts(p, S, d, b, n, TileOf(b, d.s, n, v), f, R, J)
    BY <1>0, <1>6, <1>7, <1>8, PutBlock
  <2> QED  BY <2>1 DEF Puts
<1>10. Continues(r[2], p, b)
  BY <1>4, ContinuesDrop DEF p
<1>11. p \in QueueType
  BY <1>6, CoreQueue
<1>12. Continues(p, o, b)
  <2> DEFINE k == BlockOp(b, d.s, n)
  <2>1. k \in Operation /\ k.id = b
    BY <1>0, <1>8 DEF BlockOp, Operation
  <2>2. o.pend = Append(p.pend, k) /\ o.last = p.last
    BY <1>11 DEF QueueType
  <2> HIDE DEF k, o
  <2> QED  BY <1>11, <2>1, <2>2, ContinuesAppend
<1>13. Continues(q, o, b)
  BY <1>3, <1>10, <1>12, ContinuesOn
<1>14. o = PendingAdd(r[2], b, r[1], c.size)
  BY <1>2 DEF PendingAdd, p, n
<1> HIDE DEF o, U
<1>15. Becomes(q, o, BlocksOf(S) \cup {u}, b, f, R, J)
  BY <1>9, <1>13 DEF Becomes
<1> QED  BY <1>2, <1>8, <1>14, <1>15 DEF n, v

\* The block of tile t is deleted.
LEMMA Freed ==
    ASSUME NEW q, NEW T, NEW f, NEW R, NEW J, Core(q, T, {}, {}, f, R, J), NEW t \in BlocksOf(T)
    PROVE  Becomes(q, InsertFreeBlock(PendingRemove(q, t.id), t.s, t.e - t.s, TRUE, TRUE), BlocksOf(T) \ {t}, t.id, f, R, J)
<1> USE Names
<1> DEFINE b == t.id
           u == TileOf(Free, t.s, t.e - t.s, Absent)
           S == (T \ {t}) \cup {u}
           p == PendingRemove(q, b)
           n == t.e - t.s
           o == InsertFreeBlock(p, t.s, n, TRUE, TRUE)
<1>0. t \in T /\ b \in Block /\ b # Free /\ b # Header
  BY DEF BlocksOf
<1>00. QueueOK(q) /\ q \in QueueType /\ t \in Tile /\ t.s \in Nat /\ n \in Nat
  BY <1>0, TileOfCore, CoreQueue
<1>1. Core(q, S, {u}, {b}, f, R, J) /\ BlocksOf(S) = BlocksOf(T) \ {t} /\ u.s = t.s /\ u.e = t.e
  <2>1. GivesUp(q, T, t, TileOf(Free, t.s, t.e - t.s, Absent), f, R, J)
    BY Orphaned
  <2> QED  BY <2>1 DEF GivesUp
<1> HIDE DEF S, u, p
<1>2. Core(p, S, {u}, {b} \ {b}, f, R, J)
  BY <1>1, Dropped DEF p
<1>3. Core(p, S, {u}, {}, f, R, J)
  BY <1>2
<1>4. n = u.e - u.s
  BY <1>1
<1> HIDE DEF n
<1>5. PICK V \in SUBSET S : Core(InsertFreeBlock(p, u.s, n, TRUE, TRUE), V, {u} \ {u}, {}, f, R, J) /\ BlocksOf(V) = BlocksOf(S)
  <2>1. Inserts(p, S, {u}, u, InsertFreeBlock(p, u.s, n, TRUE, TRUE), {}, f, R, J)
    BY <1>3, <1>4, Inserted
  <2> QED  BY <2>1 DEF Inserts
<1>6. Core(o, V, {}, {}, f, R, J)
  <2>1. {u} \ {u} = {}
    OBVIOUS
  <2> QED  BY <1>1, <1>5, <2>1
<1>7. Continues(q, p, b)
  BY <1>0, <1>00, ContinuesDrop DEF p
<1>8. p \in QueueType
  BY <1>3, CoreQueue
<1>9. Continues(p, o, b)
  BY <1>00, <1>8, ContinuesInsert
<1> HIDE DEF o
<1>10. Becomes(q, o, BlocksOf(T) \ {t}, b, f, R, J)
  BY <1>1, <1>5, <1>6, <1>7, <1>9, ContinuesOn DEF Becomes
<1> QED  BY <1>10 DEF o, p, n

\* A block without a tile is deleted.
LEMMA GivenUp ==
    ASSUME NEW q, NEW T, NEW f, NEW R, NEW J, Core(q, T, {}, {}, f, R, J), NEW b \in Block, \A t \in T : t.id # b
    PROVE  Becomes(q, PendingRemove(q, b), BlocksOf(T), b, f, R, J)
<1> USE Names
<1>1. Core(q, T, {}, {b}, f, R, J)
  BY Unheld
<1>2. Core(PendingRemove(q, b), T, {}, {b} \ {b}, f, R, J)
  BY <1>1, Dropped
<1>3. Core(PendingRemove(q, b), T, {}, {}, f, R, J)
  BY <1>2
<1>4. Continues(q, PendingRemove(q, b), b)
  BY CoreQueue, ContinuesDrop
<1> QED  BY <1>3, <1>4 DEF Becomes

\* The block of tile t gets the value v.
LEMMA Rewritten ==
    ASSUME NEW q, NEW T, NEW f, NEW R, NEW J, Core(q, T, {}, {}, f, R, J), NEW t \in BlocksOf(T), NEW v \in Value,
           NEW n, n = t.e - t.s
    PROVE  Becomes(q, PendingAdd(q, t.id, t.s, n), (BlocksOf(T) \ {t}) \cup {TileOf(t.id, t.s, n, v)}, t.id, f, R, J)
<1> USE Names
<1> DEFINE b == t.id
           d == TileOf(Free, t.s, t.e - t.s, Absent)
           S == (T \ {t}) \cup {d}
           p == PendingRemove(q, b)
           u == TileOf(b, d.s, n, v)
           o == [p EXCEPT !.pend = Append(p.pend, BlockOp(b, d.s, n))]
           U == (S \ {d}) \cup {u}
<1>0. t \in T /\ b \in Block /\ b # Free /\ b # Header
  BY DEF BlocksOf
<1>00. QueueOK(q) /\ q \in QueueType /\ t \in Tile /\ t.s \in Nat /\ n \in Nat /\ n \in BlockSizes
  <2>1. t \in Tile /\ t.s \in Nat /\ n \in Nat
    BY <1>0, TileOfCore
  <2> QED  BY <1>0, <2>1, CoreQueue, TileFacts
<1>1. Core(q, S, {d}, {b}, f, R, J) /\ BlocksOf(S) = BlocksOf(T) \ {t} /\ d.s = t.s /\ d.e = t.e
  <2>1. GivesUp(q, T, t, TileOf(Free, t.s, t.e - t.s, Absent), f, R, J)
    BY Orphaned
  <2> QED  BY <2>1 DEF GivesUp
<1> HIDE DEF S, d, p
<1>2. Core(p, S, {d}, {b} \ {b}, f, R, J)
  BY <1>1, Dropped DEF p
<1>3. Core(p, S, {d}, {}, f, R, J)
  BY <1>2
<1>4. n = d.e - d.s
  BY <1>1
<1>5. \A w \in S : w.id # b
  BY <1>1 DEF Core, Owned
<1>6. Core(o, U, {}, {}, f, R, J) /\ BlocksOf(U) = BlocksOf(S) \cup {u}
  <2>1. Puts(p, S, d, b, n, TileOf(b, d.s, n, v), f, R, J)
    BY <1>0, <1>00, <1>3, <1>4, <1>5, PutBlock
  <2> QED  BY <2>1 DEF Puts
<1>7. Continues(q, p, b)
  BY <1>0, <1>00, ContinuesDrop DEF p
<1>8. p \in QueueType
  BY <1>3, CoreQueue
<1>9. Continues(p, o, b)
  <2> DEFINE k == BlockOp(b, d.s, n)
  <2>1. k \in Operation /\ k.id = b
    BY <1>0, <1>00, <1>1 DEF BlockOp, Operation
  <2>2. o.pend = Append(p.pend, k) /\ o.last = p.last
    BY <1>8 DEF QueueType
  <2> HIDE DEF k, o
  <2> QED  BY <1>8, <2>1, <2>2, ContinuesAppend
<1>10. o = PendingAdd(q, t.id, t.s, n) /\ u = TileOf(t.id, t.s, n, v)
  BY <1>1 DEF PendingAdd, p
<1> HIDE DEF o, U, u
<1>11. Becomes(q, o, BlocksOf(S) \cup {u}, b, f, R, J)
  BY <1>6, <1>7, <1>9, ContinuesOn DEF Becomes
<1> QED  BY <1>1, <1>10, <1>11

\* The block of tile t moves.
LEMMA Moved ==
    ASSUME NEW q, NEW T, NEW f, NEW R, NEW J, Core(q, T, {}, {}, f, R, J), NEW t \in BlocksOf(T), NEW c \in Content,
           NEW n, n = t.e - t.s, NEW r \in FindFreePosition(InsertFreeBlock(q, t.s, n, TRUE, TRUE), c.size)
    PROVE  /\ Becomes(q, PendingAdd(r[2], t.id, r[1], c.size),
                      (BlocksOf(T) \ {t}) \cup {TileOf(t.id, r[1], c.size, c.val)}, t.id, f, R, J)
           /\ r[1] \in Nat /\ r[1] >= 1
<1> USE Names
<1> DEFINE b == t.id
           d == TileOf(Free, t.s, t.e - t.s, Absent)
           S == (T \ {t}) \cup {d}
           p == InsertFreeBlock(q, t.s, n, TRUE, TRUE)
           u == TileOf(b, r[1], c.size, c.val)
           o == PendingAdd(r[2], b, r[1], c.size)
<1>0. t \in T /\ b \in Block /\ b # Free /\ b # Header
  BY DEF BlocksOf
<1>00. QueueOK(q) /\ q \in QueueType /\ t \in Tile /\ t.s \in Nat /\ n \in Nat
  BY <1>0, TileOfCore, CoreQueue
<1>1. Core(q, S, {d}, {b}, f, R, J) /\ BlocksOf(S) = BlocksOf(T) \ {t} /\ d.s = t.s /\ d.e = t.e
  <2>1. GivesUp(q, T, t, TileOf(Free, t.s, t.e - t.s, Absent), f, R, J)
    BY Orphaned
  <2> QED  BY <2>1 DEF GivesUp
<1>2. n = d.e - d.s
  BY <1>1
<1>3. Continues(q, p, b)
  BY <1>00, ContinuesInsert
<1> HIDE DEF S, d
<1>4. PICK V \in SUBSET S : Core(InsertFreeBlock(q, d.s, n, TRUE, TRUE), V, {d} \ {d}, {b}, f, R, J) /\ BlocksOf(V) = BlocksOf(S)
  <2>1. Inserts(q, S, {d}, d, InsertFreeBlock(q, d.s, n, TRUE, TRUE), {b}, f, R, J)
    BY <1>1, <1>2, Inserted
  <2> QED  BY <2>1 DEF Inserts
<1>5. Core(p, V, {}, {b}, f, R, J)
  <2>1. {d} \ {d} = {}
    OBVIOUS
  <2> QED  BY <1>1, <1>4, <2>1
<1>6. r \in FindFreePosition(p, c.size)
  OBVIOUS
<1> HIDE DEF p
<1>7. Becomes(p, o, BlocksOf(V) \cup {u}, b, f, R, J) /\ r[1] \in Nat /\ r[1] >= 1
  BY <1>0, <1>5, <1>6, Placed
<1> HIDE DEF o, u
<1>8. Becomes(q, o, BlocksOf(V) \cup {u}, b, f, R, J)
  BY <1>3, <1>7, ContinuesOn DEF Becomes
<1> QED  BY <1>1, <1>4, <1>7, <1>8 DEF o, u

-----------------------------------------------------------------------------
(* The running program.                                                      *)

\* What the queue still has to say of the header; l is the size it was last
\* written with, or 0.
HeaderKept(q, l, f, R, J) ==
    /\ \A j \in 1..Len(q.pend) : q.pend[j].id = Header => j <= q.last /\ 0 \in J
    /\ l # 0 => /\ R[0] = HeaderCell(l)
                /\ (\A j \in 1..Len(q.pend) : q.pend[j].id # Header) => f[0] = HeaderCell(l)

\* The program runs with the tiles T.
Runs(T, q, ca, fo, ad, av, l, f, R, J) ==
    /\ Core(q, T, {}, {}, f, R, J) /\ q.size <= MaxFile
    /\ \A b \in Block : Kept(b, T, q, ca, fo, ad, av)
    /\ HeaderKept(q, l, f, R, J)

\* What is absent is no content.
LEMMA AbsentContent == Absent \notin Content
BY StoreAssumption DEF Content

\* Who has an operation has a tile.
LEMMA OpHasTile ==
    ASSUME NEW q, NEW T, NEW f, NEW R, NEW J, Core(q, T, {}, {}, f, R, J), NEW b \in Block,
           NEW j \in 1..Len(q.pend), q.pend[j].id = b
    PROVE  \E t \in BlocksOf(T) : t.id = b /\ Own(q.pend[j], t)
<1>1. \E t \in T : Own(q.pend[j], t)
  BY DEF Core, Owned
<1> QED  BY <1>1 DEF Own, BlocksOf

\* A block has one tile.
LEMMA TileOnce ==
    ASSUME NEW q, NEW T, NEW f, NEW R, NEW J, Core(q, T, {}, {}, f, R, J), NEW t \in BlocksOf(T), NEW u \in BlocksOf(T), u.id = t.id
    PROVE  u = t
BY DEF Core, Tiling

\* Where the tile of a block lies, and what it holds.
LEMMA TileLies ==
    ASSUME NEW q, NEW T, NEW f, NEW R, NEW J, Core(q, T, {}, {}, f, R, J), NEW t \in BlocksOf(T)
    PROVE  /\ t \in T /\ t \in Tile /\ t.id \in Block /\ t.s \in Nat /\ t.e \in Nat /\ t.s >= 1 /\ t.s < t.e
           /\ t.e - t.s \in Nat /\ t.e <= q.size /\ Carries(t) \in Content /\ Carries(t).size = t.e - t.s
           /\ Carries(t).val = t.val /\ t.val \in Value /\ t.e - t.s \in BlockSizes
<1>1. t \in T /\ t.id \in Block
  BY DEF BlocksOf
<1>2. Tiling(q.size, T) /\ t.e <= q.size
  BY <1>1 DEF Core, Tiling
<1>3. Carries(t) \in Content
  BY <1>2, ViewAt
<1>4. t \in Tile /\ t.s \in Nat /\ t.e \in Nat /\ t.s >= 1 /\ t.s < t.e /\ t.e - t.s \in Nat
  BY <1>1, TileOfCore
<1>5. Carries(t).size = t.e - t.s /\ Carries(t).val = t.val
  BY DEF Carries
<1>6. t.val \in Value /\ t.e - t.s \in BlockSizes
  BY <1>1, <1>4, TileFacts
<1> QED  BY <1>1, <1>2, <1>3, <1>4, <1>5, <1>6

\* A block that is nowhere is kept by having nothing in memory.
LEMMA KeptGone ==
    ASSUME NEW q, NEW T, NEW f, NEW R, NEW J, Core(q, T, {}, {}, f, R, J), NEW b \in Block,
           \A t \in BlocksOf(T) : t.id # b, NEW ca, NEW fo, NEW ad, NEW av,
           ca[b] = Absent, ad[b] = 0, b \notin fo
    PROVE  Kept(b, T, q, ca, fo, ad, av)
BY OpHasTile DEF Kept

\* One in memory only, by having everything there.
LEMMA KeptForced ==
    ASSUME NEW q, NEW T, NEW f, NEW R, NEW J, Core(q, T, {}, {}, f, R, J), NEW b \in Block,
           \A t \in BlocksOf(T) : t.id # b, NEW ca, NEW fo, NEW ad, NEW av,
           ca[b] \in Content, ad[b] = 0, b \in fo, b \notin av
    PROVE  Kept(b, T, q, ca, fo, ad, av)
BY AbsentContent DEF Kept

\* One with a tile, by its address.
LEMMA KeptTile ==
    ASSUME NEW q, NEW T, NEW f, NEW R, NEW J, Core(q, T, {}, {}, f, R, J), NEW t \in BlocksOf(T), NEW b, b = t.id,
           NEW ca, NEW fo, NEW ad, NEW av,
           ca[b] = Carries(t), ad[b] = t.s, b \notin fo, b \notin av
    PROVE  Kept(b, T, q, ca, fo, ad, av)
<1>1. Carries(t) \in Content /\ t.s \in Nat /\ t.s >= 1
  BY TileLies
<1>2. \A u \in BlocksOf(T) : u.id = b => u = t
  BY TileOnce
<1> QED  BY <1>1, <1>2, AbsentContent DEF Kept

\* What happens to one block leaves the others as they are.
LEMMA OneBlock ==
    ASSUME NEW T, NEW q, NEW ca, NEW fo, NEW ad, NEW av, NEW l, NEW f, NEW R, NEW J,
           Runs(T, q, ca, fo, ad, av, l, f, R, J), NEW b \in Block,
           NEW S, NEW p, Core(p, S, {}, {}, f, R, J), Continues(q, p, b), p.size <= MaxFile,
           \A t : t.id # b => (t \in BlocksOf(S) <=> t \in BlocksOf(T)),
           NEW ca2, NEW fo2, NEW ad2, NEW av2,
           \A a \in Block : a # b => /\ ca2[a] = ca[a] /\ ad2[a] = ad[a]
                                     /\ (a \in fo2 <=> a \in fo) /\ (a \in av2 <=> a \in av),
           Kept(b, S, p, ca2, fo2, ad2, av2)
    PROVE  /\ Runs(S, p, ca2, fo2, ad2, av2, l, f, R, J)
           /\ View(S) = [View(T) EXCEPT ![b] = View(S)[b]] /\ View(S)[b] \in Content \cup {Absent}
<1> USE Names
<1>1. ASSUME NEW a \in Block, a # b PROVE Kept(a, S, p, ca2, fo2, ad2, av2)
  <2>1. Kept(a, T, q, ca, fo, ad, av)
    BY DEF Runs
  <2>2. \A t \in BlocksOf(S) : t.id = a => t \in BlocksOf(T)
    BY <1>1
  <2>3. \A t \in BlocksOf(T) : t.id = a => t \in BlocksOf(S)
    BY <1>1
  <2>4. \A j \in 1..Len(p.pend) : p.pend[j].id = a => ca2[a] # Absent
    <3> SUFFICES ASSUME NEW j \in 1..Len(p.pend), p.pend[j].id = a PROVE ca2[a] # Absent
      OBVIOUS
    <3>1. \E i \in 1..Len(q.pend) : p.pend[j] = q.pend[i]
      BY <1>1 DEF Continues
    <3> QED  BY <1>1, <2>1, <3>1 DEF Kept
  <2>5. ca2[a] = ca[a] /\ ad2[a] = ad[a] /\ (a \in fo2 <=> a \in fo) /\ (a \in av2 <=> a \in av)
    BY <1>1
  <2> QED  BY <2>1, <2>2, <2>3, <2>4, <2>5 DEF Kept
<1>2. HeaderKept(p, l, f, R, J)
  <2>1. HeaderKept(q, l, f, R, J)
    BY DEF Runs
  <2>2. ASSUME NEW j \in 1..Len(p.pend), p.pend[j].id = Header PROVE j <= p.last /\ 0 \in J
    <3>1. PICK i \in 1..Len(q.pend) : p.pend[j] = q.pend[i] /\ (p.last < j => q.last < i)
      BY <2>2 DEF Continues
    <3>2. i <= q.last /\ 0 \in J
      BY <2>1, <2>2, <3>1 DEF HeaderKept
    <3>3. q.last \in Nat /\ p.last \in Nat
      <4>1. QueueOK(q) /\ QueueOK(p)
        BY CoreQueue DEF Runs
      <4> QED  BY <4>1, QueueFacts
    <3> QED  BY <3>1, <3>2, <3>3
  <2>3. ASSUME \A j \in 1..Len(p.pend) : p.pend[j].id # Header PROVE \A i \in 1..Len(q.pend) : q.pend[i].id # Header
    BY <2>3 DEF Continues
  <2> QED  BY <2>1, <2>2, <2>3 DEF HeaderKept
<1>3. Runs(S, p, ca2, fo2, ad2, av2, l, f, R, J)
  BY <1>1, <1>2 DEF Runs
<1>4. Tiling(q.size, T) /\ Tiling(p.size, S)
  BY DEF Runs, Core
<1>5. View(S) = [View(T) EXCEPT ![b] = View(S)[b]]
  BY <1>4, ViewElse
<1>6. View(S)[b] \in Content \cup {Absent}
  BY <1>4, ViewAt
<1> QED  BY <1>3, <1>5, <1>6

\* What is read is what the tile holds: from the cache, or from the file, for
\* then nothing is pending.
LoadOf(ca, ad, f, b) == IF ca[b] # Absent THEN ca[b] ELSE BlockAt(f, ad[b])
SeenOf(ca, fo, ad, f) ==
    [b \in Block |-> IF (ca[b] # Absent \/ ad[b] # 0) /\ b \notin fo THEN LoadOf(ca, ad, f, b) ELSE Absent]

\* Reading a block whose tile the file shows gives what the tile holds.
LEMMA ShownIsRead ==
    ASSUME NEW f, NEW t \in Tile, t.id \in Block, Shown(f, t), t.e <= MaxFile
    PROVE  BlockAt(f, t.s) = Carries(t)
<1>0. t.s \in Nat /\ t.e \in Nat /\ 1 <= t.s /\ t.s < t.e /\ t.id # Free
  BY TileFacts, Names
<1> DEFINE n == t.e - t.s
           C(i) == [id |-> t.id, size |-> n, val |-> t.val, at |-> i]
<1>1. \A x \in Nat : t.s <= x /\ x < t.e => f[x] = C(x - t.s)
  BY <1>0 DEF Shown, Inside
<1>2. n \in Nat /\ t.s + n = t.e /\ n >= 1
  BY <1>0
<1>3. f[t.s] = C(0)
  <2>1. t.s - t.s = 0
    BY <1>0
  <2> HIDE DEF C, n
  <2>2. f[t.s] = C(t.s - t.s)
    BY <1>0, <1>1
  <2> QED  BY <2>1, <2>2
<1>4. f[t.s].size = n /\ f[t.s].val = t.val
  BY <1>3
<1>5. ASSUME NEW i \in 0 .. n - 1 PROVE f[t.s + i] = [f[t.s] EXCEPT !.at = i]
  <2>1. t.s + i \in Nat /\ t.s <= t.s + i /\ t.s + i < t.e /\ (t.s + i) - t.s = i
    BY <1>0
  <2>2. f[t.s + i] = C(i)
    <3> HIDE DEF C, n
    <3>1. f[t.s + i] = C((t.s + i) - t.s)
      BY <1>1, <2>1
    <3> QED  BY <2>1, <3>1
  <2>3. [C(0) EXCEPT !.at = i] = C(i)
    OBVIOUS
  <2> QED  BY <1>3, <2>2, <2>3
<1> HIDE DEF n, C
<1>6. Whole(f, t.s)
  BY <1>2, <1>4, <1>5 DEF Whole
<1>7. BlockAt(f, t.s) = [size |-> n, val |-> t.val]
  BY <1>4, <1>6 DEF BlockAt
<1> QED  BY <1>7 DEF Carries, n

\* So _InitOperation gets what the tile holds, from the cache or from the file.
LEMMA RunsLoad ==
    ASSUME NEW T, NEW q, NEW ca, NEW fo, NEW ad, NEW av, NEW l, NEW f, NEW R, NEW J,
           Runs(T, q, ca, fo, ad, av, l, f, R, J), NEW t \in BlocksOf(T)
    PROVE  LoadOf(ca, ad, f, t.id) = Carries(t)
<1> DEFINE b == t.id
<1>0. Core(q, T, {}, {}, f, R, J) /\ q.size <= MaxFile
  BY DEF Runs
<1>1. t \in T /\ t \in Tile /\ b \in Block /\ t.e \in Nat /\ t.e <= q.size
  BY <1>0, TileLies
<1>2. Kept(b, T, q, ca, fo, ad, av)
  BY <1>1 DEF Runs
<1>3. ad[b] = t.s /\ (ca[b] # Absent => ca[b] = Carries(t))
  BY <1>2 DEF Kept
<1>4. CASE ca[b] # Absent
  BY <1>3, <1>4 DEF LoadOf
<1>5. CASE ca[b] = Absent
  <2>1. \A j \in 1..Len(q.pend) : q.pend[j].id # b
    BY <1>2, <1>5 DEF Kept
  <2>2. Provided(q, t, f, R)
    BY <1>0, <1>1 DEF Core, Clean
  <2>3. PICK k \in 0..Len(q.pend) : Serves(q, t, k, f, R)
    BY <2>2 DEF Provided
  <2>4. Len(q.pend) \in Nat
    BY <1>0, CoreQueue, QueueFacts
  <2>5. k = 0
    <3>1. k > 0 => Own(q.pend[k], t)
      BY <2>3 DEF Serves
    <3> QED  BY <2>1, <2>4, <3>1 DEF Own
  <2>6. Shown(f, t)
    BY <2>3, <2>5 DEF Serves
  <2>7. q.size \in Nat /\ MaxFile \in Nat
    <3>1. MaxFile \in Nat
      BY StoreAssumption
    <3> QED  BY <3>1, <1>0, CoreQueue, QueueFacts
  <2>8. t.e <= MaxFile
    BY <1>0, <1>1, <2>7
  <2>9. BlockAt(f, t.s) = Carries(t)
    BY <1>1, <2>6, <2>8, ShownIsRead
  <2> QED  BY <1>3, <1>5, <2>9 DEF LoadOf
<1> QED  BY <1>4, <1>5

\* A reader sees what the tiles hold.
LEMMA RunsSeen ==
    ASSUME NEW T, NEW q, NEW ca, NEW fo, NEW ad, NEW av, NEW l, NEW f, NEW R, NEW J,
           Runs(T, q, ca, fo, ad, av, l, f, R, J)
    PROVE  SeenOf(ca, fo, ad, f) = View(T)
<1>0. Core(q, T, {}, {}, f, R, J) /\ Tiling(q.size, T)
  BY DEF Runs, Core
<1>1. ASSUME NEW b \in Block PROVE SeenOf(ca, fo, ad, f)[b] = View(T)[b]
  <2>1. Kept(b, T, q, ca, fo, ad, av)
    BY DEF Runs
  <2>2. ASSUME NEW t \in BlocksOf(T), t.id = b PROVE SeenOf(ca, fo, ad, f)[b] = View(T)[b]
    <3>1. LoadOf(ca, ad, f, b) = Carries(t)
      BY <2>2, RunsLoad
    <3>2. ad[b] = t.s /\ b \notin fo /\ t.s >= 1 /\ t.s \in Nat
      BY <1>0, <2>1, <2>2, TileLies DEF Kept
    <3>3. ad[b] # 0
      BY <3>2
    <3>4. View(T)[b] = Carries(t)
      BY <1>0, <2>2, ViewAt
    <3> QED  BY <3>1, <3>2, <3>3, <3>4 DEF SeenOf
  <2>3. ASSUME \A t \in BlocksOf(T) : t.id # b PROVE SeenOf(ca, fo, ad, f)[b] = View(T)[b]
    <3>1. View(T)[b] = Absent
      BY <1>0, <2>3, ViewAt
    <3>2. ~((ca[b] # Absent \/ ad[b] # 0) /\ b \notin fo)
      BY <2>1, <2>3 DEF Kept
    <3> QED  BY <3>1, <3>2 DEF SeenOf
  <2> QED  BY <2>2, <2>3
<1>2. SeenOf(ca, fo, ad, f) = [b \in Block |-> SeenOf(ca, fo, ad, f)[b]] /\ View(T) = [b \in Block |-> View(T)[b]]
  BY DEF SeenOf, View
<1> QED  BY <1>1, <1>2

-----------------------------------------------------------------------------
(* What the operations on blocks do to the running program.                  *)

\* The program goes on with tiles that differ from T in the block b alone.
Turns(T, b, q, ca, fo, ad, av, l, f, R, J) ==
    \E S : /\ Runs(S, q, ca, fo, ad, av, l, f, R, J)
           /\ View(S) = [View(T) EXCEPT ![b] = View(S)[b]] /\ View(S)[b] \in Content \cup {Absent}

Elsewhere(b, x, y) == \A a \in Block : a # b => x[a] = y[a]
ElsewhereIn(b, x, y) == \A a \in Block : a # b => (a \in x <=> a \in y)

\* A queue that goes on with one block changed, and memory that does, make the
\* program go on.
LEMMA Turning ==
    ASSUME NEW T, NEW q, NEW ca, NEW fo, NEW ad, NEW av, NEW l, NEW f, NEW R, NEW J,
           Runs(T, q, ca, fo, ad, av, l, f, R, J), NEW b \in Block,
           NEW B, NEW p, Becomes(q, p, B, b, f, R, J), p.size <= MaxFile,
           \A t : t.id # b => (t \in B <=> t \in BlocksOf(T)),
           NEW ca2, NEW fo2, NEW ad2, NEW av2,
           Elsewhere(b, ca2, ca), Elsewhere(b, ad2, ad), ElsewhereIn(b, fo2, fo), ElsewhereIn(b, av2, av),
           \A S : Core(p, S, {}, {}, f, R, J) /\ BlocksOf(S) = B => Kept(b, S, p, ca2, fo2, ad2, av2)
    PROVE  Turns(T, b, p, ca2, fo2, ad2, av2, l, f, R, J)
<1>1. PICK S : Core(p, S, {}, {}, f, R, J) /\ BlocksOf(S) = B /\ Continues(q, p, b)
  BY DEF Becomes
<1>2. Kept(b, S, p, ca2, fo2, ad2, av2)
  BY <1>1
<1>3. \A t : t.id # b => (t \in BlocksOf(S) <=> t \in BlocksOf(T))
  BY <1>1
<1>4. \A a \in Block : a # b => /\ ca2[a] = ca[a] /\ ad2[a] = ad[a]
                                /\ (a \in fo2 <=> a \in fo) /\ (a \in av2 <=> a \in av)
  BY DEF Elsewhere, ElsewhereIn
<1>5. /\ Runs(S, p, ca2, fo2, ad2, av2, l, f, R, J)
      /\ View(S) = [View(T) EXCEPT ![b] = View(S)[b]] /\ View(S)[b] \in Content \cup {Absent}
  BY <1>1, <1>2, <1>3, <1>4, OneBlock
<1> QED  BY <1>5 DEF Turns

\* Queueing an operation leaves the size of the file as it is.
LEMMA AddSize ==
    ASSUME NEW q, QueueOK(q), NEW b \in Block, NEW a, NEW n
    PROVE  PendingAdd(q, b, a, n).size = q.size
<1>1. QueueOK(PendingRemove(q, b)) /\ PendingRemove(q, b).size = q.size
  BY Names, DropQueue
<1> DEFINE p == PendingRemove(q, b)
<1> HIDE DEF p
<1>2. p \in [size : Nat, free : SUBSET (Nat \X Nat), pend : Seq(Operation), last : Nat] /\ p.size = q.size
  BY <1>1 DEF QueueOK, p
<1>3. [p EXCEPT !.pend = Append(@, BlockOp(b, a, n))].size = q.size
  BY <1>2
<1> QED  BY <1>3 DEF PendingAdd, p

\* Freeing a block does not make the file longer.
LEMMA InsertSize ==
    ASSUME NEW q, QueueOK(q), NEW a \in Nat, NEW n \in Nat
    PROVE  InsertFreeBlock(q, a, n, TRUE, TRUE).size \in Nat /\ InsertFreeBlock(q, a, n, TRUE, TRUE).size <= q.size
<1> DEFINE r == InsertFreeBlock(q, a, n, TRUE, TRUE)
<1>1. q \in [size : Nat, free : SUBSET (Nat \X Nat), pend : Seq(Operation), last : Nat]
  BY DEF QueueOK
<1>4. q.size \in Nat
  BY QueueFacts
<1>2. ASSUME a + n = q.size PROVE r.size \in Nat /\ r.size <= q.size
  <2>1. InsertFreeBlock(q, a, n, TRUE, TRUE) = [q EXCEPT !.size = a]
    BY <1>2 DEF InsertFreeBlock
  <2>2. r.size = a
    BY <1>1, <2>1
  <2>3. a \in Nat /\ a <= q.size
    BY <1>2, <1>4
  <2> HIDE DEF r
  <2> QED  BY <2>2, <2>3
<1>3. ASSUME a + n # q.size PROVE r.size \in Nat /\ r.size <= q.size
  <2>1. InsertFreeBlock(q, a, n, TRUE, TRUE) = [q EXCEPT !.free = @ \cup {<<a, n>>}, !.pend = Append(@, FreeOp(a, n, TRUE))]
    BY <1>3 DEF InsertFreeBlock
  <2>2. r.size = q.size
    BY <1>1, <2>1
  <2> HIDE DEF r
  <2> QED  BY <1>4, <2>2
<1> HIDE DEF r
<1>5. r.size \in Nat /\ r.size <= q.size
  BY <1>2, <1>3
<1> QED  BY <1>5 DEF r

\* A block that has no tile gets one: it is created, or written at last.
LEMMA PlaceTurns ==
    ASSUME NEW T, NEW q, NEW ca, NEW fo, NEW ad, NEW av, NEW l, NEW f, NEW R, NEW J,
           Runs(T, q, ca, fo, ad, av, l, f, R, J), NEW b \in Block, \A t \in BlocksOf(T) : t.id # b,
           NEW c \in Content, NEW r \in FindFreePosition(q, c.size), r[2].size <= MaxFile,
           NEW ca2, NEW fo2, NEW ad2, NEW av2,
           Elsewhere(b, ca2, ca), Elsewhere(b, ad2, ad), ElsewhereIn(b, fo2, fo), ElsewhereIn(b, av2, av),
           ca2[b] = c, ad2[b] = r[1], b \notin fo2, b \notin av2
    PROVE  Turns(T, b, PendingAdd(r[2], b, r[1], c.size), ca2, fo2, ad2, av2, l, f, R, J)
<1> DEFINE p == PendingAdd(r[2], b, r[1], c.size)
           u == TileOf(b, r[1], c.size, c.val)
           B == BlocksOf(T) \cup {u}
<1>0. Core(q, T, {}, {}, f, R, J)
  BY DEF Runs
<1>1. \A t \in T : t.id # b
  BY DEF BlocksOf
<1>2. Core(q, T, {}, {b}, f, R, J)
  BY <1>0, <1>1, Unheld
<1>3. Becomes(q, p, B, b, f, R, J) /\ r[1] \in Nat /\ r[1] >= 1
  BY <1>2, Placed
<1>4. u.s = r[1] /\ u.id = b /\ Carries(u) = c /\ u \in Tile
  BY <1>3, ContentTile
<1>5. p.size <= MaxFile
  <2>1. c.size \in Nat /\ c.size >= 1
    BY ContentFacts
  <2>2. FoundAs(q, T, c.size, r, {b}, f, R, J)
    BY <1>2, <2>1, Found
  <2>3. QueueOK(r[2])
    BY <2>2 DEF FoundAs, Core
  <2> QED  BY <2>3, AddSize
<1> HIDE DEF p, u
<1>6. \A t : t.id # b => (t \in B <=> t \in BlocksOf(T))
  BY <1>4
<1>7. u \in B
  OBVIOUS
<1> HIDE DEF B
<1>8. ASSUME NEW S, Core(p, S, {}, {}, f, R, J), BlocksOf(S) = B PROVE Kept(b, S, p, ca2, fo2, ad2, av2)
  <2>1. u \in BlocksOf(S) /\ ca2[b] = Carries(u) /\ ad2[b] = u.s /\ b = u.id
    BY <1>4, <1>7, <1>8
  <2> QED  BY <1>8, <2>1, KeptTile
<1>9. Turns(T, b, p, ca2, fo2, ad2, av2, l, f, R, J)
  BY <1>3, <1>5, <1>6, <1>8, Turning
<1> QED  BY <1>9 DEF p

\* A block that is in memory only changes there.
LEMMA VirtualTurns ==
    ASSUME NEW T, NEW q, NEW ca, NEW fo, NEW ad, NEW av, NEW l, NEW f, NEW R, NEW J,
           Runs(T, q, ca, fo, ad, av, l, f, R, J), NEW b \in Block, \A t \in BlocksOf(T) : t.id # b,
           NEW ca2, NEW fo2, NEW ad2, NEW av2,
           Elsewhere(b, ca2, ca), Elsewhere(b, ad2, ad), ElsewhereIn(b, fo2, fo), ElsewhereIn(b, av2, av),
           ca2[b] \in Content, ad2[b] = 0, b \in fo2, b \notin av2
    PROVE  Turns(T, b, q, ca2, fo2, ad2, av2, l, f, R, J)
<1>1. Core(q, T, {}, {}, f, R, J) /\ q.size <= MaxFile
  BY DEF Runs
<1>2. Continues(q, q, b)
  BY ContinuesSame
<1> DEFINE B == BlocksOf(T)
<1>3. Becomes(q, q, B, b, f, R, J)
  BY <1>1, <1>2 DEF Becomes
<1>4. \A t : t.id # b => (t \in B <=> t \in BlocksOf(T))
  OBVIOUS
<1>5. ASSUME NEW S, Core(q, S, {}, {}, f, R, J), BlocksOf(S) = B PROVE Kept(b, S, q, ca2, fo2, ad2, av2)
  BY <1>5, KeptForced
<1> HIDE DEF B
<1> QED  BY <1>1, <1>3, <1>4, <1>5, Turning

\* It is deleted.
LEMMA GoneTurns ==
    ASSUME NEW T, NEW q, NEW ca, NEW fo, NEW ad, NEW av, NEW l, NEW f, NEW R, NEW J,
           Runs(T, q, ca, fo, ad, av, l, f, R, J), NEW b \in Block, \A t \in BlocksOf(T) : t.id # b,
           NEW ca2, NEW fo2, NEW ad2,
           Elsewhere(b, ca2, ca), Elsewhere(b, ad2, ad), ElsewhereIn(b, fo2, fo),
           ca2[b] = Absent, ad2[b] = 0, b \notin fo2
    PROVE  Turns(T, b, PendingRemove(q, b), ca2, fo2, ad2, av, l, f, R, J)
<1>1. Core(q, T, {}, {}, f, R, J) /\ q.size <= MaxFile
  BY DEF Runs
<1> DEFINE B == BlocksOf(T)
           p == PendingRemove(q, b)
<1>2. \A t \in T : t.id # b
  BY DEF BlocksOf
<1>3. Becomes(q, p, B, b, f, R, J)
  BY <1>1, <1>2, GivenUp
<1>4. \A t : t.id # b => (t \in B <=> t \in BlocksOf(T))
  OBVIOUS
<1>5. p.size <= MaxFile
  <2>1. p.size = q.size
    BY <1>1, CoreQueue, Names, DropQueue
  <2> QED  BY <1>1, <2>1
<1>6. ElsewhereIn(b, av, av)
  BY DEF ElsewhereIn
<1> HIDE DEF p
<1>7. ASSUME NEW S, Core(p, S, {}, {}, f, R, J), BlocksOf(S) = B PROVE Kept(b, S, p, ca2, fo2, ad2, av)
  BY <1>7, KeptGone
<1> HIDE DEF B
<1>8. Turns(T, b, p, ca2, fo2, ad2, av, l, f, R, J)
  BY <1>3, <1>4, <1>5, <1>6, <1>7, Turning
<1> QED  BY <1>8 DEF p

\* A block of the file is deleted.
LEMMA FreedTurns ==
    ASSUME NEW T, NEW q, NEW ca, NEW fo, NEW ad, NEW av, NEW l, NEW f, NEW R, NEW J,
           Runs(T, q, ca, fo, ad, av, l, f, R, J), NEW t \in BlocksOf(T), NEW b, b = t.id,
           NEW ca2, NEW fo2, NEW ad2,
           Elsewhere(b, ca2, ca), Elsewhere(b, ad2, ad), ElsewhereIn(b, fo2, fo),
           ca2[b] = Absent, ad2[b] = 0, b \notin fo2
    PROVE  Turns(T, b, InsertFreeBlock(PendingRemove(q, b), t.s, t.e - t.s, TRUE, TRUE), ca2, fo2, ad2, av, l, f, R, J)
<1>1. Core(q, T, {}, {}, f, R, J) /\ q.size <= MaxFile
  BY DEF Runs
<1> DEFINE B == BlocksOf(T) \ {t}
           p == InsertFreeBlock(PendingRemove(q, b), t.s, t.e - t.s, TRUE, TRUE)
<1>2. b \in Block /\ t.s \in Nat /\ t.e - t.s \in Nat
  BY <1>1, TileLies
<1>3. Becomes(q, p, B, b, f, R, J)
  BY <1>1, Freed
<1>4. \A u : u.id # b => (u \in B <=> u \in BlocksOf(T))
  OBVIOUS
<1>5. p.size <= MaxFile
  <2>0. QueueOK(q)
    BY <1>1, CoreQueue
  <2>1. QueueOK(PendingRemove(q, b)) /\ PendingRemove(q, b).size = q.size
    BY <2>0, <1>2, Names, DropQueue
  <2>2. p.size \in Nat /\ p.size <= q.size
    BY <1>2, <2>1, InsertSize
  <2>3. q.size \in Nat /\ MaxFile \in Nat
    <3>1. MaxFile \in Nat
      BY StoreAssumption
    <3> QED  BY <3>1, <2>0, QueueFacts
  <2> HIDE DEF p
  <2> QED  BY <1>1, <2>2, <2>3
<1>6. ElsewhereIn(b, av, av)
  BY DEF ElsewhereIn
<1>7. \A u \in B : u.id # b
  BY <1>1, TileOnce
<1> HIDE DEF p, B
<1>8. ASSUME NEW S, Core(p, S, {}, {}, f, R, J), BlocksOf(S) = B PROVE Kept(b, S, p, ca2, fo2, ad2, av)
  BY <1>2, <1>7, <1>8, KeptGone
<1>9. Turns(T, b, p, ca2, fo2, ad2, av, l, f, R, J)
  BY <1>2, <1>3, <1>4, <1>5, <1>6, <1>8, Turning
<1> QED  BY <1>9 DEF p

\* A block of the file gets another value, in its place.
LEMMA RewriteTurns ==
    ASSUME NEW T, NEW q, NEW ca, NEW fo, NEW ad, NEW av, NEW l, NEW f, NEW R, NEW J,
           Runs(T, q, ca, fo, ad, av, l, f, R, J), NEW t \in BlocksOf(T), NEW b, b = t.id,
           NEW c \in Content, c.size = t.e - t.s,
           NEW ca2, Elsewhere(b, ca2, ca), ca2[b] = c
    PROVE  Turns(T, b, PendingAdd(q, b, t.s, c.size), ca2, fo, ad, av, l, f, R, J)
<1>1. Core(q, T, {}, {}, f, R, J) /\ q.size <= MaxFile
  BY DEF Runs
<1> DEFINE u == TileOf(b, t.s, c.size, c.val)
           B == (BlocksOf(T) \ {t}) \cup {u}
           p == PendingAdd(q, b, t.s, c.size)
<1>2. b \in Block /\ t.s \in Nat /\ t.s >= 1
  BY <1>1, TileLies
<1>3. c.val \in Value
  BY ContentFacts
<1>4. Becomes(q, p, B, b, f, R, J)
  BY <1>1, <1>3, Rewritten
<1>5. u.s = t.s /\ u.id = b /\ Carries(u) = c
  BY <1>2, ContentTile
<1>6. p.size <= MaxFile
  <2>1. p.size = q.size
    BY <1>1, <1>2, CoreQueue, AddSize
  <2> QED  BY <1>1, <2>1
<1> HIDE DEF u, p
<1>7. \A v : v.id # b => (v \in B <=> v \in BlocksOf(T))
  BY <1>5
<1>8. ElsewhereIn(b, av, av) /\ ElsewhereIn(b, fo, fo) /\ Elsewhere(b, ad, ad)
  BY DEF ElsewhereIn, Elsewhere
<1>9. ad[b] = t.s /\ b \notin fo /\ b \notin av
  BY <1>2 DEF Runs, Kept
<1>10. u \in B
  OBVIOUS
<1> HIDE DEF B
<1>11. ASSUME NEW S, Core(p, S, {}, {}, f, R, J), BlocksOf(S) = B PROVE Kept(b, S, p, ca2, fo, ad, av)
  <2>1. u \in BlocksOf(S) /\ ca2[b] = Carries(u) /\ ad[b] = u.s /\ b = u.id
    BY <1>5, <1>9, <1>10, <1>11
  <2> QED  BY <1>9, <1>11, <2>1, KeptTile
<1>12. Turns(T, b, p, ca2, fo, ad, av, l, f, R, J)
  BY <1>2, <1>4, <1>6, <1>7, <1>8, <1>11, Turning
<1> QED  BY <1>12 DEF p

\* A block of the file gets another size, and another place.
LEMMA MoveTurns ==
    ASSUME NEW T, NEW q, NEW ca, NEW fo, NEW ad, NEW av, NEW l, NEW f, NEW R, NEW J,
           Runs(T, q, ca, fo, ad, av, l, f, R, J), NEW t \in BlocksOf(T), NEW b, b = t.id,
           NEW c \in Content, NEW n, n = t.e - t.s,
           NEW i, i = InsertFreeBlock(q, t.s, n, TRUE, TRUE),
           NEW r \in FindFreePosition(i, c.size), r[2].size <= MaxFile,
           NEW ca2, NEW ad2, Elsewhere(b, ca2, ca), Elsewhere(b, ad2, ad), ca2[b] = c, ad2[b] = r[1]
    PROVE  Turns(T, b, PendingAdd(r[2], b, r[1], c.size), ca2, fo, ad2, av, l, f, R, J)
<1>1. /\ Core(q, T, {}, {}, f, R, J) /\ q.size <= MaxFile
      /\ r \in FindFreePosition(InsertFreeBlock(q, t.s, n, TRUE, TRUE), c.size)
  BY Zenon DEF Runs
<1> DEFINE u == TileOf(b, r[1], c.size, c.val)
           B == (BlocksOf(T) \ {t}) \cup {u}
           p == PendingAdd(r[2], b, r[1], c.size)
<1>2. b \in Block /\ t.s \in Nat /\ t.s >= 1 /\ n \in Nat
  BY <1>1, TileLies
<1>4. Becomes(q, p, B, b, f, R, J) /\ r[1] \in Nat /\ r[1] >= 1
  BY <1>1, Moved
<1>5. u.s = r[1] /\ u.id = b /\ Carries(u) = c
  BY <1>2, <1>4, ContentTile
<1>6. p.size <= MaxFile
  <2>1. q \in QueueType
    BY <1>1, CoreQueue
  <2>2. InsertFreeBlock(q, t.s, n, TRUE, TRUE) \in QueueType
    BY <1>2, <2>1, ContinuesInsert
  <2>3. c.size \in Nat
    BY ContentFacts
  <2>4. r[2] \in QueueType
    BY <2>2, <2>3, ContinuesFind
  <2>5. p.size = r[2].size
    <3> DEFINE g == r[2]
    <3> HIDE DEF g
    <3>0. g \in QueueType
      BY <2>4 DEF g
    <3>1. PendingRemove(g, b) \in [size : {g.size}, free : {g.free}, pend : {PendingRemove(g, b).pend}, last : {PendingRemove(g, b).last}]
      BY <3>0 DEF PendingRemove, QueueType
    <3>2. [PendingRemove(g, b) EXCEPT !.pend = Append(@, BlockOp(b, r[1], c.size))].size = g.size
      BY <3>1
    <3> QED  BY <3>2 DEF PendingAdd, g
  <2> QED  BY <2>5
<1> HIDE DEF u, p
<1>7. \A v : v.id # b => (v \in B <=> v \in BlocksOf(T))
  BY <1>5
<1>8. ElsewhereIn(b, av, av) /\ ElsewhereIn(b, fo, fo)
  BY DEF ElsewhereIn
<1>9. b \notin fo /\ b \notin av
  BY <1>2 DEF Runs, Kept
<1>10. u \in B
  OBVIOUS
<1> HIDE DEF B
<1>11. ASSUME NEW S, Core(p, S, {}, {}, f, R, J), BlocksOf(S) = B PROVE Kept(b, S, p, ca2, fo, ad2, av)
  <2>1. u \in BlocksOf(S) /\ ca2[b] = Carries(u) /\ ad2[b] = u.s /\ b = u.id
    BY <1>5, <1>10, <1>11
  <2> QED  BY <1>9, <1>11, <2>1, KeptTile
<1>12. Turns(T, b, p, ca2, fo, ad2, av, l, f, R, J)
  BY <1>2, <1>4, <1>6, <1>7, <1>8, <1>11, Turning
<1> QED  BY <1>12 DEF p

\* A block is brought into the cache.
LEMMA ReadTurns ==
    ASSUME NEW T, NEW q, NEW ca, NEW fo, NEW ad, NEW av, NEW l, NEW f, NEW R, NEW J,
           Runs(T, q, ca, fo, ad, av, l, f, R, J), NEW t \in BlocksOf(T), NEW b, b = t.id,
           NEW ca2, Elsewhere(b, ca2, ca), ca2[b] = Carries(t)
    PROVE  Runs(T, q, ca2, fo, ad, av, l, f, R, J)
<1>1. Core(q, T, {}, {}, f, R, J) /\ q.size <= MaxFile
  BY DEF Runs
<1>2. b \in Block
  BY <1>1, TileLies
<1>3. ad[b] = t.s /\ b \notin fo /\ b \notin av
  BY <1>2 DEF Runs, Kept
<1>4. Kept(b, T, q, ca2, fo, ad, av)
  BY <1>1, <1>3, KeptTile
<1>5. Continues(q, q, b)
  BY ContinuesSame
<1>6. \A a \in Block : a # b => /\ ca2[a] = ca[a] /\ ad[a] = ad[a]
                                /\ (a \in fo <=> a \in fo) /\ (a \in av <=> a \in av)
  BY DEF Elsewhere
<1>7. \A v : v.id # b => (v \in BlocksOf(T) <=> v \in BlocksOf(T))
  OBVIOUS
<1> QED  BY <1>1, <1>2, <1>4, <1>5, <1>6, <1>7, OneBlock

-----------------------------------------------------------------------------
(* The inductive invariant.                                                  *)

Contents == [Block -> Content \cup {Absent}]

Types(ph, g, ca, fo, ad, av, f, j, c) ==
    /\ ph \in {"idle", "open", "flush", "down"} /\ g \in {"none", "purge", "close"}
    /\ ca \in Contents /\ fo \subseteq Block /\ ad \in [Block -> Nat] /\ av \subseteq Block
    /\ Sized(f) /\ JournalOK(j) /\ c \in Seq(Contents)

\* What holds while the program runs.  Between transactions everything is in
\* the journal, and the last commit is what the tiles hold.
Prog(T, ph, q, ca, fo, ad, av, l, f, j, c) ==
    /\ Runs(T, q, ca, fo, ad, av, l, f, RecOf(f, j, Len(j)), LogOf(j, Len(j)))
    /\ ph \in {"idle", "flush"} => q.last = Len(q.pend) /\ l = q.size /\ c[Len(c)] = View(T)
    /\ ph = "flush" => Len(j) > 0 /\ j[Len(j)].sig = "fini" /\ j[Len(j)].size = q.size
    /\ EndOf(j) = Len(j)

\* The file and the journal up to any commit that may be lost make a good file
\* of the contents of that commit.
Upto(j, k) == {i \in FiniOf(j) : i <= k}
Listed(f, j, c) ==
    /\ Len(c) = 1 + Cardinality(FiniOf(j))
    /\ \A k \in {0} \cup FiniOf(j) : GoodFile(RecOf(f, j, k), c[1 + Cardinality(Upto(j, k))])
Single(f, j, c) == Len(c) = 1 /\ GoodFile(RecOf(f, j, EndOf(j)), c[1])
Hist(ph, f, j, c) == /\ ph \in {"idle", "open"} => Listed(f, j, c)
                     /\ ph \notin {"idle", "open"} => Single(f, j, c)

Blank == /\ m = Nothing /\ cache = [b \in Block |-> Absent] /\ addr = [b \in Block |-> 0]
         /\ forced = {} /\ avail = {} /\ lastSize = 0

Inv == /\ Types(phase, goal, cache, forced, addr, avail, file, journal, commits)
       /\ phase # "down" =>
            \E T : Prog(T, phase, m, cache, forced, addr, avail, lastSize, file, journal, commits)
       /\ phase = "down" => Blank
       /\ Hist(phase, file, journal, commits)

\* A step keeps the invariant and is one of the abstract store.
StoreStep == Inv' /\ [Abstract!StoreNext]_<<phase = "open", Seen, commits>>

Here(T) == Prog(T, phase, m, cache, forced, addr, avail, lastSize, file, journal, commits)
RunsHere(T) == Runs(T, m, cache, forced, addr, avail, lastSize, file, RecOf(file, journal, Len(journal)), LogOf(journal, Len(journal)))

\* What is seen, in a running program and without one.
LEMMA SeenHere ==
    /\ phase # "down" => Seen = SeenOf(cache, forced, addr, file)
    /\ phase' # "down" => Seen' = SeenOf(cache', forced', addr', file')
    /\ phase = "down" => Seen = commits[Len(commits)]
    /\ phase' = "down" => Seen' = commits'[Len(commits')]
BY DEF Seen, SeenOf, LoadOf, Known, Cached, Load

\* In a running program it is what the tiles hold.
LEMMA SeenIs ==
    ASSUME NEW T, RunsHere(T), phase # "down"
    PROVE  Seen = View(T)
BY SeenHere, RunsSeen DEF RunsHere

\* A running program has tiles.
LEMMA Running ==
    ASSUME Inv, phase # "down"
    PROVE  \E T : Here(T) /\ RunsHere(T) /\ Seen = View(T)
<1>1. PICK T : Here(T)
  BY DEF Inv, Here
<1>2. RunsHere(T)
  BY <1>1 DEF Here, Prog, RunsHere
<1> QED  BY <1>1, <1>2, SeenIs

\* A change of one block inside a transaction.
LEMMA Changes ==
    ASSUME Inv, phase = "open", Keep, NEW T, Here(T), RunsHere(T), Seen = View(T), NEW b \in Block,
           Turns(T, b, m', cache', forced', addr', avail', lastSize, file, RecOf(file, journal, Len(journal)), LogOf(journal, Len(journal))),
           cache' = [a \in Block |-> cache'[a]], addr' = [a \in Block |-> addr'[a]], forced' \subseteq Block, avail' \subseteq Block
    PROVE  StoreStep
<1>0. UNCHANGED <<phase, goal, lastSize, file, journal, commits>>
  BY DEF Keep
<1> DEFINE R == RecOf(file, journal, Len(journal))
           J == LogOf(journal, Len(journal))
<1>1. PICK S : /\ Runs(S, m', cache', forced', addr', avail', lastSize, file, R, J)
               /\ View(S) = [View(T) EXCEPT ![b] = View(S)[b]] /\ View(S)[b] \in Content \cup {Absent}
  BY DEF Turns
<1>2. Seen' = View(S)
  <2>1. SeenOf(cache', forced', addr', file) = View(S)
    BY <1>1, RunsSeen
  <2>2. Seen' = SeenOf(cache', forced', addr', file')
    BY <1>0, SeenHere
  <2> QED  BY <1>0, <2>1, <2>2
<1>3. Prog(S, phase', m', cache', forced', addr', avail', lastSize', file', journal', commits')
  <2>1. EndOf(journal) = Len(journal)
    BY DEF Here, Prog
  <2> QED  BY <1>0, <1>1, <2>1 DEF Prog
<1>4. Types(phase, goal, cache', forced', addr', avail', file, journal, commits)
  <2>1. Types(phase, goal, cache, forced, addr, avail, file, journal, commits)
    BY DEF Inv
  <2>2. \A a \in Block : cache'[a] \in Content \cup {Absent} /\ addr'[a] \in Nat
    <3>1. \A a \in Block : Kept(a, S, m', cache', forced', addr', avail')
      BY <1>1 DEF Runs
    <3> QED  BY <3>1 DEF Kept
  <2> QED  BY <2>1, <2>2 DEF Types, Contents
<1>5. Types(phase, goal, cache, forced, addr, avail, file, journal, commits)'
  BY <1>0, <1>4 DEF Types
<1>6. Hist(phase, file, journal, commits)'
  <2>1. Hist(phase, file, journal, commits)
    BY DEF Inv
  <2> QED  BY <1>0, <2>1
<1>7. Inv'
  BY <1>0, <1>3, <1>5, <1>6 DEF Inv
<1>8. Abstract!Change
  BY <1>0, <1>1, <1>2 DEF Abstract!Change
<1> QED  BY <1>7, <1>8 DEF StoreStep, Abstract!StoreNext

\* A change of one block leaves the others.
LEMMA Altered ==
    ASSUME NEW b \in Block, NEW v
    PROVE  /\ \A g : g = [a \in Block |-> g[a]] =>
                        /\ [g EXCEPT ![b] = v] = [a \in Block |-> [g EXCEPT ![b] = v][a]]
                        /\ Elsewhere(b, [g EXCEPT ![b] = v], g) /\ [g EXCEPT ![b] = v][b] = v
           /\ \A s : ElsewhereIn(b, s, s) /\ ElsewhereIn(b, s \ {b}, s) /\ ElsewhereIn(b, s \cup {b}, s)
           /\ \A g : Elsewhere(b, g, g)
BY DEF Elsewhere, ElsewhereIn

\* The tables have an entry for each block.
LEMMA Shapes ==
    ASSUME Inv
    PROVE  /\ cache \in Contents /\ addr \in [Block -> Nat] /\ forced \subseteq Block /\ avail \subseteq Block
           /\ cache = [a \in Block |-> cache[a]] /\ addr = [a \in Block |-> addr[a]]
<1>1. cache \in Contents /\ addr \in [Block -> Nat] /\ forced \subseteq Block /\ avail \subseteq Block
  BY DEF Inv, Types
<1> QED  BY <1>1 DEF Contents

-----------------------------------------------------------------------------
(* The actions of a transaction.                                             *)

\* What memory says of a block.
LEMMA BlockKept ==
    ASSUME NEW T, RunsHere(T), NEW b \in Block
    PROVE  /\ cache[b] \in Content \cup {Absent} /\ addr[b] \in Nat
           /\ \A t \in BlocksOf(T) : t.id = b => /\ addr[b] = t.s /\ b \notin forced /\ b \notin avail
                                                 /\ Load(b) = Carries(t) /\ Load(b).size = t.e - t.s /\ Load(b) \in Content
                                                 /\ addr[b] # 0
           /\ addr[b] # 0 => \E t \in BlocksOf(T) : t.id = b
           /\ addr[b] = 0 => \A t \in BlocksOf(T) : t.id # b
           /\ cache[b] # Absent /\ b \notin forced => addr[b] # 0
           /\ b \in forced => cache[b] # Absent /\ addr[b] = 0 /\ Load(b) = cache[b] /\ Load(b) \in Content
           /\ b \in avail => cache[b] = Absent /\ addr[b] = 0
<1>1. Kept(b, T, m, cache, forced, addr, avail)
  BY DEF RunsHere, Runs
<1>2. Load(b) = LoadOf(cache, addr, file, b)
  BY DEF Load, LoadOf, Cached
<1>3. ASSUME NEW t \in BlocksOf(T), t.id = b
      PROVE Load(b) = Carries(t) /\ Load(b).size = t.e - t.s /\ Load(b) \in Content /\ t.s # 0
  <2>1. LoadOf(cache, addr, file, b) = Carries(t)
    BY <1>3, RunsLoad DEF RunsHere
  <2>2. Core(m, T, {}, {}, file, RecOf(file, journal, Len(journal)), LogOf(journal, Len(journal)))
    BY DEF RunsHere, Runs
  <2>3. Carries(t).size = t.e - t.s /\ Carries(t) \in Content /\ t.s \in Nat /\ t.s >= 1
    BY <2>2, TileLies
  <2>4. t.s # 0
    BY <2>3
  <2> QED  BY <1>2, <2>1, <2>3, <2>4
<1>4. b \in forced => Load(b) = cache[b]
  BY <1>1 DEF Kept, Load, Cached
<1> QED  BY <1>1, <1>3, <1>4 DEF Kept

\* CreateBlock.
LEMMA CreateStep ==
    ASSUME Inv, NEW b \in Block, NEW c \in Content, CreateBlock(b, c)
    PROVE  StoreStep
<1>0. /\ phase = "open" /\ b \in avail /\ Keep
      /\ avail' = avail \ {b} /\ cache' = [cache EXCEPT ![b] = c] /\ forced' = forced
  BY DEF CreateBlock, MayChange
<1>1. PICK r \in FindFreePosition(m, c.size) :
        r[2].size <= MaxFile /\ addr' = [addr EXCEPT ![b] = r[1]] /\ m' = PendingAdd(r[2], b, r[1], c.size)
  BY DEF CreateBlock, Allocate
<1>2. PICK T : Here(T) /\ RunsHere(T) /\ Seen = View(T)
  BY <1>0, Running
<1>3. (\A t \in BlocksOf(T) : t.id # b) /\ b \notin forced
  BY <1>0, <1>2, BlockKept
<1>4. /\ Elsewhere(b, cache', cache) /\ Elsewhere(b, addr', addr) /\ ElsewhereIn(b, forced', forced)
      /\ ElsewhereIn(b, avail', avail) /\ cache'[b] = c /\ addr'[b] = r[1] /\ b \notin forced' /\ b \notin avail'
      /\ cache' = [a \in Block |-> cache'[a]] /\ addr' = [a \in Block |-> addr'[a]]
      /\ forced' \subseteq Block /\ avail' \subseteq Block
  BY <1>0, <1>1, <1>3, Shapes, Altered
<1>5. Turns(T, b, m', cache', forced', addr', avail', lastSize, file, RecOf(file, journal, Len(journal)), LogOf(journal, Len(journal)))
  BY <1>1, <1>2, <1>3, <1>4, PlaceTurns DEF RunsHere
<1> QED  BY <1>0, <1>2, <1>4, <1>5, Changes

\* CreateBlockVirtual.
LEMMA VirtualStep ==
    ASSUME Inv, NEW b \in Block, NEW c \in Content, CreateBlockVirtual(b, c)
    PROVE  StoreStep
<1>0. /\ phase = "open" /\ b \in avail /\ Keep /\ m' = m /\ addr' = addr
      /\ avail' = avail \ {b} /\ cache' = [cache EXCEPT ![b] = c] /\ forced' = forced \cup {b}
  BY DEF CreateBlockVirtual, MayChange
<1>2. PICK T : Here(T) /\ RunsHere(T) /\ Seen = View(T)
  BY <1>0, Running
<1>3. (\A t \in BlocksOf(T) : t.id # b) /\ addr[b] = 0
  BY <1>0, <1>2, BlockKept
<1>4. /\ Elsewhere(b, cache', cache) /\ Elsewhere(b, addr', addr) /\ ElsewhereIn(b, forced', forced)
      /\ ElsewhereIn(b, avail', avail) /\ cache'[b] = c /\ addr'[b] = 0 /\ b \in forced' /\ b \notin avail'
      /\ cache' = [a \in Block |-> cache'[a]] /\ addr' = [a \in Block |-> addr'[a]]
      /\ forced' \subseteq Block /\ avail' \subseteq Block
  BY <1>0, <1>3, Shapes, Altered
<1>5. Turns(T, b, m, cache', forced', addr', avail', lastSize, file, RecOf(file, journal, Len(journal)), LogOf(journal, Len(journal)))
  BY <1>2, <1>3, <1>4, VirtualTurns DEF RunsHere
<1> QED  BY <1>0, <1>2, <1>4, <1>5, Changes

\* DeleteBlock.
LEMMA DeleteStep ==
    ASSUME Inv, NEW b \in Block, DeleteBlock(b)
    PROVE  StoreStep
<1>0. /\ phase = "open" /\ Known(b) /\ Keep /\ avail' = avail
      /\ cache' = [cache EXCEPT ![b] = Absent] /\ forced' = forced \ {b} /\ addr' = [addr EXCEPT ![b] = 0]
      /\ m' = IF addr[b] = 0 THEN PendingRemove(m, b)
              ELSE InsertFreeBlock(PendingRemove(m, b), addr[b], Load(b).size, TRUE, TRUE)
  BY DEF DeleteBlock, MayChange
<1>2. PICK T : Here(T) /\ RunsHere(T) /\ Seen = View(T)
  BY <1>0, Running
<1>4. /\ Elsewhere(b, cache', cache) /\ Elsewhere(b, addr', addr) /\ ElsewhereIn(b, forced', forced)
      /\ ElsewhereIn(b, avail', avail) /\ cache'[b] = Absent /\ addr'[b] = 0 /\ b \notin forced'
      /\ cache' = [a \in Block |-> cache'[a]] /\ addr' = [a \in Block |-> addr'[a]]
      /\ forced' \subseteq Block /\ avail' \subseteq Block
  BY <1>0, Shapes, Altered
<1> DEFINE R == RecOf(file, journal, Len(journal))
           J == LogOf(journal, Len(journal))
<1>5. CASE addr[b] = 0
  <2>1. \A t \in BlocksOf(T) : t.id # b
    BY <1>2, <1>5, BlockKept
  <2>2. Turns(T, b, PendingRemove(m, b), cache', forced', addr', avail, lastSize, file, R, J)
    BY <1>2, <1>4, <2>1, GoneTurns DEF RunsHere
  <2>3. m' = PendingRemove(m, b)
    BY <1>0, <1>5
  <2>4. Turns(T, b, m', cache', forced', addr', avail', lastSize, file, R, J)
    BY <1>0, <2>2, <2>3, Zenon
  <2> QED  BY <1>0, <1>2, <1>4, <2>4, Changes
<1>6. CASE addr[b] # 0
  <2>1. PICK t \in BlocksOf(T) : t.id = b
    BY <1>2, <1>6, BlockKept
  <2>2. addr[b] = t.s /\ Load(b).size = t.e - t.s
    BY <1>2, <2>1, BlockKept
  <2>3. m' = InsertFreeBlock(PendingRemove(m, b), t.s, t.e - t.s, TRUE, TRUE)
    BY <1>0, <1>6, <2>2
  <2>4. Turns(T, b, InsertFreeBlock(PendingRemove(m, b), t.s, t.e - t.s, TRUE, TRUE), cache', forced', addr', avail, lastSize, file, R, J)
    BY <1>2, <1>4, <2>1, FreedTurns DEF RunsHere
  <2>5. Turns(T, b, m', cache', forced', addr', avail', lastSize, file, R, J)
    BY <1>0, <2>3, <2>4, Zenon
  <2> QED  BY <1>0, <1>2, <1>4, <2>5, Changes
<1> QED  BY <1>5, <1>6

\* ResizeBlock, which moves a block of the file to another place.
LEMMA ResizeStep ==
    ASSUME Inv, NEW b \in Block, NEW n \in BlockSizes, ResizeBlock(b, n)
    PROVE  StoreStep
<1> DEFINE c == [Load(b) EXCEPT !.size = n]
<1>0. /\ phase = "open" /\ Known(b) /\ Keep /\ avail' = avail /\ forced' = forced
      /\ cache' = [cache EXCEPT ![b] = c]
      /\ IF addr[b] = 0 THEN m' = m /\ addr' = addr
         ELSE Allocate(InsertFreeBlock(m, addr[b], Load(b).size, TRUE, TRUE), b, c)
  BY DEF ResizeBlock, MayChange
<1>2. PICK T : Here(T) /\ RunsHere(T) /\ Seen = View(T)
  BY <1>0, Running
<1>3. ASSUME Load(b) \in Content PROVE c \in Content
  BY <1>3 DEF Content
<1> HIDE DEF c
<1> DEFINE R == RecOf(file, journal, Len(journal))
           J == LogOf(journal, Len(journal))
<1>5. CASE addr[b] = 0
  <2>1. (\A t \in BlocksOf(T) : t.id # b) /\ b \in forced /\ c \in Content /\ b \notin avail
    <3>1. cache[b] # Absent
      BY <1>0, <1>5 DEF Known, Cached
    <3> QED  BY <1>2, <1>3, <1>5, <3>1, BlockKept
  <2>2. m' = m /\ addr' = addr
    BY <1>0, <1>5
  <2>3. /\ Elsewhere(b, cache', cache) /\ Elsewhere(b, addr', addr) /\ ElsewhereIn(b, forced', forced)
        /\ ElsewhereIn(b, avail', avail) /\ cache'[b] = c /\ addr'[b] = 0 /\ b \in forced' /\ b \notin avail'
        /\ cache' = [a \in Block |-> cache'[a]] /\ addr' = [a \in Block |-> addr'[a]]
        /\ forced' \subseteq Block /\ avail' \subseteq Block
    BY <1>0, <1>5, <2>1, <2>2, Shapes, Altered
  <2>4. Turns(T, b, m, cache', forced', addr', avail', lastSize, file, R, J)
    BY <1>2, <2>1, <2>3, VirtualTurns DEF RunsHere
  <2> QED  BY <1>0, <1>2, <2>2, <2>3, <2>4, Changes
<1>6. CASE addr[b] # 0
  <2>1. PICK t \in BlocksOf(T) : t.id = b
    BY <1>2, <1>6, BlockKept
  <2>2. addr[b] = t.s /\ Load(b).size = t.e - t.s /\ c \in Content
    BY <1>2, <1>3, <2>1, BlockKept
  <2> DEFINE k == t.e - t.s
             p == InsertFreeBlock(m, t.s, k, TRUE, TRUE)
  <2>3. p = InsertFreeBlock(m, addr[b], Load(b).size, TRUE, TRUE)
    BY <2>2
  <2>30. p = InsertFreeBlock(m, t.s, k, TRUE, TRUE)
    OBVIOUS
  <2> HIDE DEF p
  <2>4. Allocate(p, b, c)
    BY <1>0, <1>6, <2>3
  <2>5. PICK r \in FindFreePosition(p, c.size) :
            r[2].size <= MaxFile /\ addr' = [addr EXCEPT ![b] = r[1]] /\ m' = PendingAdd(r[2], b, r[1], c.size)
    BY <2>4 DEF Allocate
  <2>6. /\ Elsewhere(b, cache', cache) /\ Elsewhere(b, addr', addr)
        /\ cache'[b] = c /\ addr'[b] = r[1]
        /\ cache' = [a \in Block |-> cache'[a]] /\ addr' = [a \in Block |-> addr'[a]]
        /\ forced' \subseteq Block /\ avail' \subseteq Block
    BY <1>0, <2>5, Shapes, Altered
  <2>8. Turns(T, b, PendingAdd(r[2], b, r[1], c.size), cache', forced, addr', avail, lastSize, file, R, J)
    <3>1. Runs(T, m, cache, forced, addr, avail, lastSize, file, R, J)
      BY <1>2 DEF RunsHere
    <3>2. r[2].size <= MaxFile
      BY <2>5
    <3>3. Elsewhere(b, cache', cache) /\ Elsewhere(b, addr', addr) /\ cache'[b] = c /\ addr'[b] = r[1]
      BY <2>6
    <3> HIDE DEF R, J, k
    <3>4. k = t.e - t.s
      BY DEF k
    <3> QED  BY <2>1, <2>2, <2>30, <3>1, <3>2, <3>3, <3>4, MoveTurns
  <2>9. Turns(T, b, m', cache', forced', addr', avail', lastSize, file, R, J)
    BY <1>0, <2>5, <2>8
  <2> QED  BY <1>0, <1>2, <2>6, <2>9, Changes
<1> QED  BY <1>5, <1>6

\* WriteBlock and what ends in it: the content changes, the size does not.
LEMMA UpdateStep ==
    ASSUME Inv, NEW b \in Block, NEW v \in Value, UpdateBlock(b, v)
    PROVE  StoreStep
<1> DEFINE c == [Load(b) EXCEPT !.val = v]
<1>0. /\ phase = "open" /\ Known(b) /\ Keep /\ avail' = avail /\ forced' = forced /\ addr' = addr
      /\ cache' = [cache EXCEPT ![b] = c]
      /\ m' = IF b \in forced THEN m ELSE PendingAdd(m, b, addr[b], c.size)
  BY DEF UpdateBlock, MayChange
<1>2. PICK T : Here(T) /\ RunsHere(T) /\ Seen = View(T)
  BY <1>0, Running
<1>3. ASSUME Load(b) \in Content PROVE c \in Content /\ c.size = Load(b).size
  BY <1>3 DEF Content
<1> HIDE DEF c
<1>4. /\ Elsewhere(b, cache', cache) /\ Elsewhere(b, addr', addr) /\ ElsewhereIn(b, forced', forced)
      /\ ElsewhereIn(b, avail', avail) /\ cache'[b] = c
      /\ cache' = [a \in Block |-> cache'[a]] /\ addr' = [a \in Block |-> addr'[a]]
      /\ forced' \subseteq Block /\ avail' \subseteq Block
  BY <1>0, Shapes, Altered
<1> DEFINE R == RecOf(file, journal, Len(journal))
           J == LogOf(journal, Len(journal))
<1>5. CASE b \in forced
  <2>1. addr[b] = 0 /\ c \in Content /\ b \notin avail
    BY <1>2, <1>3, <1>5, BlockKept
  <2>2. \A t \in BlocksOf(T) : t.id # b
    BY <1>2, <2>1, BlockKept
  <2>3. m' = m /\ addr'[b] = 0 /\ cache'[b] \in Content /\ b \in forced' /\ b \notin avail'
    BY <1>0, <1>4, <1>5, <2>1
  <2>4. Turns(T, b, m, cache', forced', addr', avail', lastSize, file, R, J)
    BY <1>2, <1>4, <2>2, <2>3, VirtualTurns DEF RunsHere
  <2> QED  BY <1>0, <1>2, <1>4, <2>3, <2>4, Changes
<1>6. CASE b \notin forced
  <2>0. addr[b] # 0
    <3>1. cache[b] # Absent \/ addr[b] # 0
      BY <1>0 DEF Known, Cached
    <3> QED  BY <1>2, <1>6, <3>1, BlockKept
  <2>1. PICK t \in BlocksOf(T) : t.id = b
    BY <1>2, <2>0, BlockKept
  <2>2. addr[b] = t.s /\ c.size = t.e - t.s /\ c \in Content
    BY <1>2, <1>3, <2>1, BlockKept
  <2>3. m' = PendingAdd(m, b, t.s, c.size)
    BY <1>0, <1>6, <2>2
  <2>4. Turns(T, b, PendingAdd(m, b, t.s, c.size), cache', forced, addr, avail, lastSize, file, R, J)
    BY <1>2, <1>4, <2>1, <2>2, RewriteTurns DEF RunsHere
  <2>5. Turns(T, b, m', cache', forced', addr', avail', lastSize, file, R, J)
    BY <1>0, <2>3, <2>4
  <2> QED  BY <1>0, <1>2, <1>4, <2>5, Changes
<1> QED  BY <1>5, <1>6

\* WriteBlockToDisk: a block that was in memory only gets a place.
LEMMA WriteStep ==
    ASSUME Inv, NEW b \in Block, WriteBlockToDisk(b)
    PROVE  StoreStep
<1>0. /\ phase = "open" /\ b \in forced /\ Keep
      /\ avail' = avail /\ cache' = cache /\ forced' = forced \ {b} /\ Allocate(m, b, cache[b])
  BY DEF WriteBlockToDisk, MayChange
<1> DEFINE c == cache[b]
<1>1. PICK r \in FindFreePosition(m, c.size) :
        r[2].size <= MaxFile /\ addr' = [addr EXCEPT ![b] = r[1]] /\ m' = PendingAdd(r[2], b, r[1], c.size)
  BY <1>0 DEF Allocate
<1>2. PICK T : Here(T) /\ RunsHere(T) /\ Seen = View(T)
  BY <1>0, Running
<1>3. (\A t \in BlocksOf(T) : t.id # b) /\ b \notin avail /\ c \in Content
  BY <1>0, <1>2, BlockKept
<1>4. /\ Elsewhere(b, cache', cache) /\ Elsewhere(b, addr', addr) /\ ElsewhereIn(b, forced', forced)
      /\ ElsewhereIn(b, avail', avail) /\ cache'[b] = c /\ addr'[b] = r[1] /\ b \notin forced' /\ b \notin avail'
      /\ cache' = [a \in Block |-> cache'[a]] /\ addr' = [a \in Block |-> addr'[a]]
      /\ forced' \subseteq Block /\ avail' \subseteq Block
  BY <1>0, <1>1, <1>3, Shapes, Altered
<1> HIDE DEF c
<1>5. Turns(T, b, m', cache', forced', addr', avail', lastSize, file, RecOf(file, journal, Len(journal)), LogOf(journal, Len(journal)))
  BY <1>1, <1>2, <1>3, <1>4, PlaceTurns DEF RunsHere
<1> QED  BY <1>0, <1>2, <1>4, <1>5, Changes

\* ReadBlock: nothing that can be seen changes.
LEMMA ReadStep ==
    ASSUME Inv, NEW b \in Block, ReadBlock(b)
    PROVE  StoreStep
<1>0. /\ phase \in {"idle", "open"} /\ ~Cached(b) /\ addr[b] # 0
      /\ cache' = [cache EXCEPT ![b] = Load(b)]
      /\ UNCHANGED <<phase, goal, lastSize, file, journal, commits, m, forced, addr, avail>>
  BY DEF ReadBlock, Keep
<1>2. PICK T : Here(T) /\ RunsHere(T) /\ Seen = View(T)
  BY <1>0, Running
<1>3. PICK t \in BlocksOf(T) : t.id = b
  BY <1>0, <1>2, BlockKept
<1>4. Load(b) = Carries(t) /\ Load(b) \in Content
  BY <1>2, <1>3, BlockKept
<1>5. Elsewhere(b, cache', cache) /\ cache'[b] = Carries(t) /\ cache' \in Contents
  <2>1. Elsewhere(b, cache', cache) /\ cache'[b] = Carries(t) /\ cache' = [a \in Block |-> cache'[a]]
    BY <1>0, <1>4, Shapes, Altered
  <2>2. cache \in Contents
    BY Shapes
  <2> QED  BY <1>0, <1>4, <2>1, <2>2 DEF Contents
<1>6. Runs(T, m, cache', forced, addr, avail, lastSize, file, RecOf(file, journal, Len(journal)), LogOf(journal, Len(journal)))
  BY <1>2, <1>3, <1>5, ReadTurns DEF RunsHere
<1>7. Prog(T, phase', m', cache', forced', addr', avail', lastSize', file', journal', commits')
  BY <1>0, <1>2, <1>6 DEF Prog, Here
<1>8. Types(phase', goal', cache', forced', addr', avail', file', journal', commits')
  <2>1. Types(phase, goal, cache, forced, addr, avail, file, journal, commits)
    BY DEF Inv
  <2> QED  BY <1>0, <1>5, <2>1 DEF Types
<1>9. Hist(phase', file', journal', commits')
  <2>1. Hist(phase, file, journal, commits)
    BY DEF Inv
  <2> QED  BY <1>0, <2>1
<1>10. Inv'
  BY <1>0, <1>7, <1>8, <1>9 DEF Inv
<1>11. Seen' = Seen
  <2>1. SeenOf(cache', forced, addr, file) = View(T)
    BY <1>6, RunsSeen
  <2>2. Seen' = SeenOf(cache', forced', addr', file')
    BY <1>0, SeenHere
  <2> QED  BY <1>0, <1>2, <2>1, <2>2
<1> QED  BY <1>0, <1>10, <1>11 DEF StoreStep

-----------------------------------------------------------------------------
(* Failures: what was written so far lies where the journal writes too.      *)

\* There are finitely many transactions in the journal.
LEMMA FiniFinite ==
    ASSUME NEW j, Len(j) \in Nat, NEW k
    PROVE  /\ IsFiniteSet(FiniOf(j)) /\ Cardinality(FiniOf(j)) \in Nat
           /\ IsFiniteSet(Upto(j, k)) /\ Cardinality(Upto(j, k)) \in Nat /\ Cardinality(Upto(j, k)) <= Cardinality(FiniOf(j))
<1>1. IsFiniteSet(1..Len(j))
  BY FS_Interval
<1>2. FiniOf(j) \subseteq 1..Len(j) /\ Upto(j, k) \subseteq FiniOf(j)
  BY DEF FiniOf, Upto
<1>3. IsFiniteSet(FiniOf(j))
  BY <1>1, <1>2, FS_Subset
<1>4. IsFiniteSet(Upto(j, k)) /\ Cardinality(Upto(j, k)) <= Cardinality(FiniOf(j))
  BY <1>2, <1>3, FS_Subset
<1> QED  BY <1>3, <1>4, FS_CardinalityType

\* The journal and the file are what they should be.
LEMMA JournalHere ==
    ASSUME Inv
    PROVE  /\ JournalOK(journal) /\ Len(journal) \in Nat /\ Sized(file) /\ commits \in Seq(Contents)
           /\ EndOf(journal) \in {0} \cup FiniOf(journal) /\ EndOf(journal) \in 0..Len(journal)
           /\ \A k \in FiniOf(journal) : k <= EndOf(journal) /\ k \in 1..Len(journal)
<1>1. JournalOK(journal) /\ Sized(file) /\ commits \in Seq(Contents)
  BY DEF Inv, Types
<1>2. Len(journal) \in Nat
  BY <1>1, JournalFacts
<1>3. \A k \in FiniOf(journal) : k \in 1..Len(journal)
  BY DEF FiniOf
<1> QED  BY <1>1, <1>2, <1>3, EndIs

\* After any failure now, the last commit comes back.
LEMMA LastGood ==
    ASSUME Inv
    PROVE  /\ GoodFile(Recovered, commits[Len(commits)]) /\ Sized(Recovered)
           /\ Len(commits) \in Nat /\ Len(commits) >= 1
<1>1. Sized(Recovered)
  BY JournalHere, RecSized DEF Recovered
<1>2. CASE phase \in {"idle", "open"}
  <2>1. Listed(file, journal, commits)
    BY <1>2 DEF Inv, Hist
  <2>2. Upto(journal, EndOf(journal)) = FiniOf(journal)
    BY JournalHere DEF Upto
  <2>3. Cardinality(FiniOf(journal)) \in Nat
    BY JournalHere, FiniFinite
  <2>4. EndOf(journal) \in {0} \cup FiniOf(journal)
    BY JournalHere
  <2>5. GoodFile(RecOf(file, journal, EndOf(journal)), commits[1 + Cardinality(Upto(journal, EndOf(journal)))])
    BY <2>1, <2>4 DEF Listed
  <2>6. Len(commits) = 1 + Cardinality(FiniOf(journal))
    BY <2>1 DEF Listed
  <2> QED  BY <1>1, <2>2, <2>3, <2>5, <2>6 DEF Recovered
<1>3. CASE phase \notin {"idle", "open"}
  <2>1. Single(file, journal, commits)
    BY <1>3 DEF Inv, Hist
  <2> QED  BY <1>1, <2>1 DEF Single, Recovered
<1> QED  BY <1>2, <1>3

\* A scan of the file the journal brings back is not misled.
LEMMA InvRecoverable ==
    ASSUME Inv
    PROVE  Recoverable
<1>1. GoodFile(Recovered, commits[Len(commits)]) /\ Sized(Recovered)
  BY LastGood
<1>2. PICK T : TilesAs(Recovered, T)
  BY <1>1 DEF GoodFile
<1>3. Sound(Recovered)
  BY <1>1, <1>2, GoodIsSound
<1>4. Replayed[Max({0} \cup Finis)] = Recovered
  <2>1. Max({0} \cup Finis) = EndOf(journal)
    BY ReplayedIs DEF EndOf
  <2>2. EndOf(journal) \in {0} \cup Finis
    BY JournalHere, ReplayedIs
  <2>3. Replayed[EndOf(journal)] = RecOf(file, journal, EndOf(journal))
    BY <2>2, ReplayedIs
  <2> QED  BY <2>1, <2>3 DEF Recovered
<1> QED  BY <1>3, <1>4 DEF Recoverable

\* Cells that the journal writes do not matter to what it brings back.
LEMMA CrashFile ==
    ASSUME Inv, NEW g, \A x \in Cells : g[x] = file[x] \/ x \in Touched
    PROVE  RecOf(g, journal, EndOf(journal)) = Recovered
<1>1. EndOf(journal) \in Nat
  BY JournalHere
<1>2. \A x \in Cells : file[x] = g[x] \/ x \in LogOf(journal, EndOf(journal))
  BY DEF Touched
<1>3. RecOf(file, journal, EndOf(journal)) = RecOf(g, journal, EndOf(journal))
  BY <1>1, <1>2, RecSame
<1> QED  BY <1>3 DEF Recovered

\* A pending operation of a block has its content in the cache.
LEMMA BackedHere ==
    ASSUME NEW T, RunsHere(T)
    PROVE  /\ Backed(m, T)
           /\ \A i \in 1..Len(m.pend) : m.pend[i].id \in Block => cache[m.pend[i].id] \in Content
<1>1. \A b \in Block : Kept(b, T, m, cache, forced, addr, avail)
  BY DEF RunsHere, Runs
<1>2. Backed(m, T)
  <2> SUFFICES ASSUME NEW t \in T, NEW j \in 1..Len(m.pend), t.id \in Block, Own(m.pend[j], t)
               PROVE  cache[t.id] = Carries(t)
    BY DEF Backed
  <2>1. t \in BlocksOf(T) /\ m.pend[j].id = t.id
    BY DEF BlocksOf, Own
  <2> QED  BY <1>1, <2>1 DEF Kept
<1>3. \A i \in 1..Len(m.pend) : m.pend[i].id \in Block => cache[m.pend[i].id] \in Content
  BY <1>1 DEF Kept
<1> QED  BY <1>2, <1>3

\* Whatever a flush has written so far, the journal writes too.
LEMMA FlushWithin ==
    ASSUME Inv, phase = "flush", NEW i \in 0..Len(m.pend)
    PROVE  /\ Flushed[i] = Written(Truncate(file, m.size), Patches, i)
           /\ \A x \in Cells : Flushed[i][x] = file[x] \/ x \in Touched
           /\ Sized(Flushed[i])
<1>1. PICK T : Here(T) /\ RunsHere(T)
  BY Running
<1> DEFINE R == RecOf(file, journal, Len(journal))
           J == LogOf(journal, Len(journal))
<1>2. Core(m, T, {}, {}, file, R, J) /\ m.size <= MaxFile /\ HeaderKept(m, lastSize, file, R, J)
  BY <1>1 DEF RunsHere, Runs
<1>3. /\ m.last = Len(m.pend) /\ Len(journal) > 0 /\ journal[Len(journal)].sig = "fini"
      /\ journal[Len(journal)].size = m.size /\ EndOf(journal) = Len(journal)
  BY <1>1 DEF Here, Prog
<1>4. QueueOK(m) /\ Len(m.pend) \in Nat /\ m.size \in Nat
  BY <1>2, CoreQueue, QueueFacts
<1>5. Flushed[i] = Written(Truncate(file, m.size), Patches, i)
  BY DEF Flushed
<1>6. \A k \in 1..Len(m.pend) : Patches[k] = Patch(m, m.pend[k])
  BY DEF Patches
<1>7. \A x \in Cells : x >= Alloc(m.size) => x \in J
  <2> SUFFICES ASSUME NEW x \in Cells, x >= Alloc(m.size) PROVE x \in J
    OBVIOUS
  <2>1. Effect(journal[Len(journal)]) = [y \in Alloc(m.size) .. MaxFile |-> Zero]
    BY <1>3 DEF Effect
  <2>2. Alloc(m.size) \in Nat /\ MaxFile \in Nat
    BY <1>4, AllocAbove, StoreAssumption
  <2>3. x \in DOMAIN Effect(journal[Len(journal)])
    BY <2>1, <2>2 DEF Cells
  <2>4. Len(journal) \in 1..Len(journal)
    BY <1>3, JournalHere
  <2> QED  BY <2>3, <2>4 DEF LogOf
<1>8. \A j \in 1..Len(m.pend) : m.pend[j].id = Header => 0 \in J
  BY <1>2 DEF HeaderKept
<1>9. Backed(m, T)
  BY <1>1, BackedHere
<1> HIDE DEF R, J
<1>10. \A x \in Cells : Written(Truncate(file, m.size), Patches, i)[x] = file[x] \/ x \in J
  BY <1>2, <1>3, <1>6, <1>7, <1>8, <1>9, FlushAgrees
<1>11. J = Touched
  BY <1>3 DEF J, Touched
<1>12. Sized(Written(Truncate(file, m.size), Patches, i))
  <2>1. Sized(Truncate(file, m.size))
    BY JournalHere, CutSized DEF Truncate
  <2>2. PatchesSized(Patches, i)
    <3> SUFFICES ASSUME NEW k \in 1..i, NEW x \in DOMAIN Patches[k] PROVE Patches[k][x].size \in Nat
      BY DEF PatchesSized
    <3>1. k \in 1..Len(m.pend)
      BY <1>4
    <3>2. m.pend[k].id \in Block => cache[m.pend[k].id] \in Content
      BY <1>1, <3>1, BackedHere
    <3>3. \A y \in DOMAIN Patch(m, m.pend[k]) : Patch(m, m.pend[k])[y].size \in Nat
      BY <1>4, <3>1, <3>2, PatchSized
    <3> QED  BY <1>6, <3>1, <3>3
  <2> QED  BY <1>4, <2>1, <2>2, WrittenSized
<1> QED  BY <1>5, <1>10, <1>11, <1>12

\* So does what a replay has written.
LEMMA ReplayWithin ==
    ASSUME Inv, NEW k \in {0} \cup Finis
    PROVE  /\ \A x \in Cells : Replayed[k][x] = file[x] \/ x \in Touched
           /\ Sized(Replayed[k])
<1>1. k \in 0..Len(journal) /\ k <= EndOf(journal) /\ k \in Nat /\ EndOf(journal) \in Nat
  BY JournalHere, ReplayedIs
<1>2. Replayed[k] = RecOf(file, journal, k)
  BY ReplayedIs
<1>3. Sized(RecOf(file, journal, k))
  BY <1>1, JournalHere, RecSized
<1>4. ASSUME NEW x \in Cells PROVE RecOf(file, journal, k)[x] = file[x] \/ x \in Touched
  <2>1. \/ RecOf(file, journal, k)[x] = file[x]
        \/ \E i \in 1..k : x \in DOMAIN Effect(journal[i])
    BY <1>1, RecAt
  <2>2. \A i \in 1..k : i \in 1..EndOf(journal)
    BY <1>1
  <2> QED  BY <2>1, <2>2 DEF Touched, LogOf
<1> QED  BY <1>2, <1>3, <1>4

\* Neither a flush nor a replay writes where the journal does not.
LEMMA StepsWithin ==
    ASSUME Inv, NEW s \in Steps
    PROVE  \A i \in {1, 2} : Sized(s[i]) /\ \A x \in Cells : s[i][x] = file[x] \/ x \in Touched
<1>1. CASE phase = "flush"
  <2>1. PICK i \in 1..Len(m.pend) : s = <<Flushed[i - 1], Flushed[i]>>
    BY <1>1 DEF Steps
  <2>2. Len(m.pend) \in Nat
    <3>1. PICK T : RunsHere(T)
      BY <1>1, Running
    <3> QED  BY <3>1, CoreQueue, QueueFacts DEF RunsHere, Runs
  <2>3. i - 1 \in 0..Len(m.pend) /\ i \in 0..Len(m.pend)
    BY <2>2
  <2>4. s[1] = Flushed[i - 1] /\ s[2] = Flushed[i]
    BY <2>1
  <2>5. Sized(s[1]) /\ \A x \in Cells : s[1][x] = file[x] \/ x \in Touched
    BY <1>1, <2>3, <2>4, FlushWithin
  <2>6. Sized(s[2]) /\ \A x \in Cells : s[2][x] = file[x] \/ x \in Touched
    BY <1>1, <2>3, <2>4, FlushWithin
  <2> QED  BY <2>5, <2>6
<1>2. CASE phase = "down"
  <2>1. PICK k \in Finis : s = <<Replayed[LastBefore(k)], Replayed[k]>>
    BY <1>2 DEF Steps
  <2>2. LastBefore(k) \in {0} \cup Finis
    <3> DEFINE S == {0} \cup {i \in Finis : i < k}
    <3>1. S \subseteq Nat /\ S # {} /\ k \in Nat /\ \A x \in S : x <= k
      BY JournalHere, ReplayedIs
    <3>2. Max(S) \in S
      <4> HIDE DEF S
      <4> QED  BY <3>1, MaxIs
    <3> QED  BY <3>2 DEF LastBefore
  <2>3. s[1] = Replayed[LastBefore(k)] /\ s[2] = Replayed[k] /\ k \in {0} \cup Finis
    BY <2>1
  <2>5. Sized(s[1]) /\ \A x \in Cells : s[1][x] = file[x] \/ x \in Touched
    BY <2>2, <2>3, ReplayWithin
  <2>6. Sized(s[2]) /\ \A x \in Cells : s[2][x] = file[x] \/ x \in Touched
    BY <2>3, ReplayWithin
  <2> QED  BY <2>5, <2>6
<1>3. CASE phase # "flush" /\ phase # "down"
  BY <1>3 DEF Steps
<1> QED  BY <1>1, <1>2, <1>3

\* Nor does any part of two such writes.
LEMMA Mixture ==
    ASSUME Inv, NEW f, NEW g, Sized(f), Sized(g),
           \A x \in Cells : f[x] = file[x] \/ x \in Touched, \A x \in Cells : g[x] = file[x] \/ x \in Touched,
           NEW h, h = [x \in Cells |-> h[x]], \A x \in Cells : h[x] = f[x] \/ h[x] = g[x]
    PROVE  Sized(h) /\ RecOf(h, journal, EndOf(journal)) = Recovered
<1>1. Sized(h)
  BY DEF Sized
<1>2. \A x \in Cells : h[x] = file[x] \/ x \in Touched
  OBVIOUS
<1> QED  BY <1>1, <1>2, CrashFile

\* A commit is a content of all blocks.
LEMMA CommitAt ==
    ASSUME Inv, NEW n \in 1..Len(commits)
    PROVE  commits[n] \in Contents
BY JournalHere

\* After the program has gone, by failure or at its end.
LEMMA Gone ==
    ASSUME Inv, Forget, Len(commits') = 1, commits' \in Seq(Contents), Sized(file'), JournalOK(journal'),
           GoodFile(RecOf(file', journal', EndOf(journal')), commits'[1])
    PROVE  Inv' /\ Seen' = commits'[1] /\ phase' = "down"
<1>0. /\ phase' = "down" /\ goal' = "none" /\ m' = Nothing
      /\ cache' = [b \in Block |-> Absent] /\ addr' = [b \in Block |-> 0]
      /\ forced' = {} /\ avail' = {} /\ lastSize' = 0
  BY DEF Forget
<1>1. Types(phase', goal', cache', forced', addr', avail', file', journal', commits')
  BY <1>0 DEF Types, Contents
<1>2. Hist(phase', file', journal', commits')
  BY <1>0 DEF Hist, Single
<1>3. Blank'
  BY <1>0 DEF Blank
<1>4. Inv'
  BY <1>0, <1>1, <1>2, <1>3 DEF Inv
<1>5. Seen' = commits'[1]
  BY <1>0, SeenHere
<1> QED  BY <1>0, <1>4, <1>5

\* A failure, after which some commit is there.
LEMMA Fails ==
    ASSUME Inv, Forget, NEW n \in 1..Len(commits), commits' = <<commits[n]>>, Sized(file'), JournalOK(journal'),
           GoodFile(RecOf(file', journal', EndOf(journal')), commits[n])
    PROVE  StoreStep
<1>1. commits[n] \in Contents
  BY CommitAt
<1>2. Len(commits') = 1 /\ commits'[1] = commits[n] /\ commits' \in Seq(Contents)
  BY <1>1
<1>3. Inv' /\ Seen' = commits[n] /\ phase' = "down"
  BY <1>2, Gone
<1>4. Abstract!Fail
  BY <1>3 DEF Abstract!Fail
<1> QED  BY <1>3, <1>4 DEF StoreStep, Abstract!StoreNext

\* The program is killed.
LEMMA KillStep ==
    ASSUME Inv, Kill
    PROVE  StoreStep
<1>0. /\ Forget /\ commits' = <<commits[Len(commits)]>> /\ journal' = journal
      /\ file' = file \/ \E s \in Steps : file' \in Torn(s[1], s[2]) \cup {s[2]}
  BY DEF Kill
<1>1. Sized(file') /\ RecOf(file', journal, EndOf(journal)) = Recovered
  <2>1. CASE file' = file
    BY <2>1, JournalHere DEF Recovered
  <2>2. ASSUME NEW s \in Steps, file' \in Torn(s[1], s[2]) \cup {s[2]}
        PROVE Sized(file') /\ RecOf(file', journal, EndOf(journal)) = Recovered
    <3>1. /\ Sized(s[1]) /\ \A x \in Cells : s[1][x] = file[x] \/ x \in Touched
          /\ Sized(s[2]) /\ \A x \in Cells : s[2][x] = file[x] \/ x \in Touched
      BY StepsWithin
    <3>2. file' = [x \in Cells |-> file'[x]] /\ \A x \in Cells : file'[x] = s[1][x] \/ file'[x] = s[2][x]
      <4>1. CASE file' = s[2]
        BY <3>1, <4>1 DEF Sized
      <4>2. CASE file' \in Torn(s[1], s[2])
        <5>1. PICK n \in Cells : file' = [x \in Cells |-> IF x < n THEN s[2][x] ELSE s[1][x]]
          BY <4>2 DEF Torn
        <5> QED  BY <5>1
      <4> QED  BY <2>2, <4>1, <4>2
    <3> QED  BY <3>1, <3>2, Mixture
  <2> QED  BY <1>0, <2>1, <2>2
<1>2. GoodFile(Recovered, commits[Len(commits)]) /\ Len(commits) \in 1..Len(commits)
  BY LastGood
<1>3. JournalOK(journal')
  BY <1>0, JournalHere
<1>4. GoodFile(RecOf(file', journal', EndOf(journal')), commits[Len(commits)])
  BY <1>0, <1>1, <1>2
<1> QED  BY <1>0, <1>1, <1>2, <1>3, <1>4, Fails

\* A journal that lost its end.
LEMMA Shortened ==
    ASSUME NEW j, JournalOK(j), NEW n \in 0..Len(j)
    PROVE  /\ JournalOK(SubSeq(j, 1, n)) /\ FiniOf(SubSeq(j, 1, n)) = Upto(j, n)
           /\ Len(SubSeq(j, 1, n)) = n /\ \A i \in 1..n : SubSeq(j, 1, n)[i] = j[i]
<1>1. PICK S : j \in Seq([sig : {"writ", "fini"}, size : Nat, patch : S])
  BY DEF JournalOK
<1> DEFINE V == [sig : {"writ", "fini"}, size : Nat, patch : S]
           h == SubSeq(j, 1, n)
<1>2. j \in Seq(V)
  BY <1>1
<1> HIDE DEF V
<1>3. h \in Seq(V) /\ Len(h) = n /\ n \in Nat /\ n <= Len(j) /\ \A i \in 1..n : i \in 1..Len(j) /\ h[i] = j[i]
  <2>1. n \in Nat /\ n <= Len(j) /\ Len(j) \in Nat
    BY <1>2
  <2>2. \A i \in 1..n : i \in 1..Len(j) /\ 1 + i - 1 = i
    BY <2>1
  <2>3. CASE n = 0
    BY <1>2, <2>1, <2>3, SubSeqProperties
  <2>4. CASE n # 0
    BY <1>2, <2>1, <2>2, <2>4, SubSeqProperties
  <2> QED  BY <2>3, <2>4
<1> HIDE DEF h
<1>4. JournalOK(h)
  BY <1>3 DEF JournalOK, V
<1>5. FiniOf(h) = Upto(j, n)
  BY <1>3 DEF FiniOf, Upto
<1> QED  BY <1>3, <1>4, <1>5 DEF h

\* The power fails: journal entries may be missing, and pages of the file.
LEMMA PowerStep ==
    ASSUME Inv, PowerFailure
    PROVE  StoreStep
<1>0. /\ Forget
      /\ file' = file \/ \E s \in Steps : file' \in Mixed(file, s[2])
  BY DEF PowerFailure
<1>1. PICK n \in 0 .. Len(journal) :
        /\ phase \in {"flush", "down"} => n = Len(journal)
        /\ journal' = SubSeq(journal, 1, n)
        /\ commits' = <<commits[IF phase \in {"flush", "down"} THEN Len(commits)
                                ELSE 1 + Cardinality({k \in Finis : k <= n})]>>
  BY DEF PowerFailure
<1>2. JournalOK(journal') /\ FiniOf(journal') = Upto(journal, n) /\ Len(journal') = n /\ \A i \in 1..n : journal'[i] = journal[i]
  BY <1>1, JournalHere, Shortened
<1>6. Forget /\ JournalOK(journal')
  BY <1>0, <1>2
<1>3. CASE phase \in {"idle", "open"}
  <2>1. file' = file
    BY <1>0, <1>3 DEF Steps
  <2> DEFINE k == EndOf(journal')
             c == 1 + Cardinality(Upto(journal, n))
  <2>2. commits' = <<commits[c]>>
    <3>1. {i \in Finis : i <= n} = Upto(journal, n)
      BY ReplayedIs DEF Upto
    <3> QED  BY <1>1, <1>3, <3>1
  <2>3. Listed(file, journal, commits)
    BY <1>3 DEF Inv, Hist
  <2>4. c \in 1..Len(commits)
    <3>1. Cardinality(Upto(journal, n)) \in Nat /\ Cardinality(FiniOf(journal)) \in Nat /\ Cardinality(Upto(journal, n)) <= Cardinality(FiniOf(journal))
      BY JournalHere, FiniFinite
    <3> QED  BY <2>3, <3>1 DEF Listed
  <2>5. k \in {0} \cup Upto(journal, n) /\ k \in Nat /\ k <= n /\ \A i \in Upto(journal, n) : i <= k
    <3>1. Len(journal') \in Nat
      BY <1>2, JournalHere
    <3>2. /\ k \in {0} \cup FiniOf(journal') /\ k \in Nat /\ k <= Len(journal')
          /\ \A i \in FiniOf(journal') : i <= k
      BY <3>1, EndIs
    <3> QED  BY <1>2, <3>2
  <2> HIDE DEF k
  <2>6. Upto(journal, k) = Upto(journal, n)
    BY <2>5, JournalHere DEF Upto
  <2>7. k \in {0} \cup FiniOf(journal)
    BY <2>5 DEF Upto
  <2>8. GoodFile(RecOf(file, journal, k), commits[c])
    BY <2>3, <2>6, <2>7 DEF Listed
  <2>9. RecOf(file, journal, k) = RecOf(file, journal', k)
    <3>1. \A i \in 1..k : journal[i] = journal'[i]
      BY <1>1, <1>2, <2>5, JournalHere
    <3> QED  BY <2>5, <3>1, RecSame
  <2>10. GoodFile(RecOf(file', journal', EndOf(journal')), commits[c])
    BY <2>1, <2>8, <2>9 DEF k
  <2>11. Sized(file')
    BY <2>1, JournalHere
  <2> HIDE DEF c
  <2> QED  BY <1>6, <2>2, <2>4, <2>10, <2>11, Fails
<1>4. CASE phase \in {"flush", "down"}
  <2>1. n = Len(journal) /\ commits' = <<commits[Len(commits)]>>
    BY <1>1, <1>4
  <2>2. journal' = journal
    <3>1. PICK S : journal \in Seq([sig : {"writ", "fini"}, size : Nat, patch : S])
      BY JournalHere DEF JournalOK
    <3> DEFINE V == [sig : {"writ", "fini"}, size : Nat, patch : S]
    <3>2. journal \in Seq(V)
      BY <3>1
    <3> HIDE DEF V
    <3>3. SubSeq(journal, 1, Len(journal)) = journal
      BY <3>2
    <3> QED  BY <1>1, <2>1, <3>3
  <2>3. Sized(file') /\ RecOf(file', journal, EndOf(journal)) = Recovered
    <3>1. CASE file' = file
      BY <3>1, JournalHere DEF Recovered
    <3>2. ASSUME NEW s \in Steps, file' \in Mixed(file, s[2])
          PROVE Sized(file') /\ RecOf(file', journal, EndOf(journal)) = Recovered
      <4>1. Sized(s[2]) /\ \A x \in Cells : s[2][x] = file[x] \/ x \in Touched
        BY StepsWithin
      <4>2. Sized(file) /\ \A x \in Cells : file[x] = file[x] \/ x \in Touched
        BY JournalHere
      <4>3. PICK p : file' = [x \in Cells |-> IF x \div Granularity \in p THEN s[2][x] ELSE file[x]]
        BY <3>2 DEF Mixed
      <4>4. file' = [x \in Cells |-> file'[x]] /\ \A x \in Cells : file'[x] = file[x] \/ file'[x] = s[2][x]
        BY <4>3
      <4> QED  BY <4>1, <4>2, <4>4, Mixture
    <3> QED  BY <1>0, <3>1, <3>2
  <2>4. GoodFile(Recovered, commits[Len(commits)]) /\ Len(commits) \in 1..Len(commits)
    BY LastGood
  <2>5. GoodFile(RecOf(file', journal', EndOf(journal')), commits[Len(commits)])
    BY <2>2, <2>3, <2>4
  <2>6. commits' = <<commits[Len(commits)]>> /\ Sized(file')
    BY <2>1, <2>3
  <2> QED  BY <1>6, <2>4, <2>5, <2>6, Fails
<1>5. phase \in {"idle", "open", "flush", "down"}
  BY DEF Inv, Types
<1> QED  BY <1>3, <1>4, <1>5

-----------------------------------------------------------------------------
(* Starting.                                                                 *)

\* An empty journal changes nothing.
LEMMA EmptyJournal ==
    /\ Len(<<>>) = 0 /\ FiniOf(<<>>) = {} /\ EndOf(<<>>) = 0 /\ Upto(<<>>, 0) = {} /\ LogOf(<<>>, 0) = {}
    /\ JournalOK(<<>>)
    /\ \A f : Sized(f) => RecOf(f, <<>>, 0) = f
<1>1. Len(<<>>) = 0 /\ FiniOf(<<>>) = {}
  BY DEF FiniOf
<1>2. EndOf(<<>>) \in {0} \cup FiniOf(<<>>)
  <2> DEFINE j == <<>>
  <2>1. Len(j) \in Nat
    OBVIOUS
  <2> HIDE DEF j
  <2>2. EndOf(j) \in {0} \cup FiniOf(j)
    BY <2>1, EndIs
  <2> QED  BY <2>2 DEF j
<1>3. Upto(<<>>, 0) = {}
  BY <1>1 DEF Upto
<1>4. LogOf(<<>>, 0) = {}
  BY DEF LogOf
<1>5. JournalOK(<<>>)
  BY DEF JournalOK
<1>6. ASSUME NEW f, Sized(f) PROVE RecOf(f, <<>>, 0) = f
  <2> DEFINE j == <<>>
  <2> HIDE DEF j
  <2>1. \A x \in Cells : RecOf(f, j, 0)[x] = f[x]
    BY RecAt
  <2>2. RecOf(f, j, 0) = [x \in Cells |-> RecOf(f, j, 0)[x]]
    BY DEF RecOf, Written
  <2>3. f = [x \in Cells |-> f[x]]
    BY <1>6 DEF Sized
  <2>4. RecOf(f, j, 0) = f
    BY <2>1, <2>2, <2>3
  <2> QED  BY <2>4 DEF j
<1> QED  BY <1>1, <1>2, <1>3, <1>4, <1>5, <1>6

\* With an empty journal the file itself is good.
LEMMA EmptyListed ==
    ASSUME NEW f, Sized(f), NEW c, Len(c) = 1
    PROVE  Listed(f, <<>>, c) <=> GoodFile(f, c[1])
<1> DEFINE j == <<>>
<1>1. FiniOf(j) = {} /\ Upto(j, 0) = {} /\ RecOf(f, j, 0) = f
  BY EmptyJournal
<1> HIDE DEF j
<1>2. 1 + Cardinality({}) = 1
  BY FS_EmptySet
<1>3. Listed(f, j, c) <=> GoodFile(RecOf(f, j, 0), c[1 + Cardinality(Upto(j, 0))])
  BY <1>1, <1>2 DEF Listed
<1>4. GoodFile(RecOf(f, j, 0), c[1 + Cardinality(Upto(j, 0))]) <=> GoodFile(f, c[1])
  BY <1>1, <1>2
<1> QED  BY <1>3, <1>4 DEF j

\* The start: the journal is replayed and the file scanned.
LEMMA LoadStep ==
    ASSUME Inv, LoadFile
    PROVE  StoreStep
<1> USE Names
<1>0. /\ phase = "down" /\ journal' = <<>> /\ phase' = "open" /\ UNCHANGED <<goal, cache, forced, lastSize, commits>>
      /\ file' = Replayed[Max({0} \cup Finis)]
      /\ m' = [size |-> file'[0].val, free |-> Joined(file'), last |-> 0,
               pend |-> Queue(file', InOrder(Joined(file')))]
      /\ addr' = [b \in Block |-> IF \E p \in Blocks(file') : file'[p].id = b
                                  THEN CHOOSE p \in Blocks(file') : file'[p].id = b ELSE 0]
      /\ avail' = {b \in Block : addr'[b] = 0}
  BY DEF LoadFile
<1>1. file' = Recovered
  <2>1. Max({0} \cup Finis) = EndOf(journal)
    BY ReplayedIs DEF EndOf
  <2>2. EndOf(journal) \in {0} \cup Finis
    BY JournalHere, ReplayedIs
  <2>3. Replayed[EndOf(journal)] = RecOf(file, journal, EndOf(journal))
    BY <2>2, ReplayedIs
  <2> QED  BY <1>0, <2>1, <2>3 DEF Recovered
<1>2. Sized(file') /\ GoodFile(file', commits[1]) /\ Len(commits) = 1 /\ GoodFile(file', commits[Len(commits)])
  <2>1. Single(file, journal, commits)
    BY <1>0 DEF Inv, Hist
  <2> QED  BY <1>1, <2>1, LastGood DEF Single
<1>3. PICK T : TilesAs(file', T) /\ commits[1] = View(T)
  BY <1>2 DEF GoodFile
<1>4. Blank
  BY <1>0 DEF Inv
<1> DEFINE f == file'
           S == Loaded(f, T)
           q == [size |-> f[0].val, free |-> Joined(f), last |-> 0, pend |-> Queue(f, InOrder(Joined(f)))]
<1>5. m' = q /\ Sized(f) /\ TilesAs(f, T)
  BY <1>0, <1>2, <1>3
<1>6. Tiling(f[0].val, S) /\ BlocksOf(S) = BlocksOf(T)
  BY <1>5, LoadedTiles
<1> HIDE DEF f, S
<1>7. Core(q, S, {}, {}, f, f, {})
  <2> HIDE DEF q
  <2>1. q = [size |-> f[0].val, free |-> Joined(f), last |-> 0, pend |-> Queue(f, InOrder(Joined(f)))]
    BY DEF q
  <2> QED  BY <1>5, <2>1, LoadedCore DEF S
<1>8. \A i \in 1..Len(q.pend) : q.pend[i].id = Free
  <2>1. QueuedAs(q.pend, Joined(f))
    BY <1>5, QueueIs
  <2> HIDE DEF q
  <2> QED  BY <2>1 DEF QueuedAs, FreeOp
<1>9. q.size = f[0].val
  OBVIOUS
<1>10. q.size <= MaxFile
  BY <1>5 DEF TilesAs
<1> HIDE DEF q
<1>11. ASSUME NEW b \in Block PROVE Kept(b, S, q, cache, {}, addr', avail')
  <2>1. cache[b] = Absent
    BY <1>4 DEF Blank
  <2>2. \/ \E p \in Blocks(f) : f[p].id = b /\ addr'[b] = p
        \/ addr'[b] = 0 /\ \A p \in Blocks(f) : f[p].id # b
    <3>1. addr'[b] = IF \E p \in Blocks(f) : f[p].id = b THEN CHOOSE p \in Blocks(f) : f[p].id = b ELSE 0
      BY <1>0 DEF f
    <3>2. CASE \E p \in Blocks(f) : f[p].id = b
      BY <3>1, <3>2
    <3>3. CASE ~\E p \in Blocks(f) : f[p].id = b
      BY <3>1, <3>3
    <3> QED  BY <3>2, <3>3
  <2>3. b \in avail' <=> addr'[b] = 0
    BY <1>0
  <2> QED  BY <1>5, <1>8, <2>1, <2>2, <2>3, LoadedKept DEF S
<1>12. HeaderKept(q, 0, f, f, {})
  BY <1>8 DEF HeaderKept
<1>13. Runs(S, q, cache, {}, addr', avail', 0, f, f, {})
  BY <1>7, <1>10, <1>11, <1>12 DEF Runs
<1>14. RecOf(f, journal', Len(journal')) = f /\ LogOf(journal', Len(journal')) = {} /\ EndOf(journal') = Len(journal')
  BY <1>0, <1>5, EmptyJournal
<1>15. forced' = {} /\ lastSize' = 0 /\ cache' = cache
  BY <1>0, <1>4 DEF Blank
<1>16. Prog(S, phase', m', cache', forced', addr', avail', lastSize', file', journal', commits')
  <2>1. phase' \notin {"idle", "flush"}
    BY <1>0
  <2>2. Runs(S, m', cache', forced', addr', avail', lastSize', file', RecOf(file', journal', Len(journal')), LogOf(journal', Len(journal')))
    BY <1>5, <1>13, <1>14, <1>15 DEF f
  <2> QED  BY <1>14, <2>1, <2>2 DEF Prog
<1>17. Types(phase', goal', cache', forced', addr', avail', file', journal', commits')
  <2>1. Types(phase, goal, cache, forced, addr, avail, file, journal, commits)
    BY DEF Inv
  <2>2. addr' \in [Block -> Nat]
    <3>1. addr' = [b \in Block |-> addr'[b]]
      BY <1>0
    <3>2. \A b \in Block : addr'[b] \in Nat
      BY <1>11 DEF Kept
    <3> QED  BY <3>1, <3>2
  <2>3. avail' \subseteq Block /\ JournalOK(journal') /\ Sized(file')
    BY <1>0, <1>2, EmptyJournal
  <2>4. phase' \in {"idle", "open", "flush", "down"}
    BY <1>0
  <2> QED  BY <1>0, <2>1, <2>2, <2>3, <2>4 DEF Types
<1>18. Hist(phase', file', journal', commits')
  <2>1. Listed(file', journal', commits')
    BY <1>0, <1>2, EmptyListed
  <2> QED  BY <1>0, <2>1 DEF Hist
<1>19. Inv'
  BY <1>0, <1>16, <1>17, <1>18 DEF Inv
<1>20. Seen' = Seen
  <2>1. Seen = View(T)
    BY <1>0, <1>2, <1>3, SeenHere
  <2>2. SeenOf(cache', forced', addr', file') = View(S)
    BY <1>13, <1>15, RunsSeen DEF f
  <2>3. Seen' = View(S)
    BY <1>0, <2>2, SeenHere
  <2>4. View(S) = View(T)
    BY <1>6, ViewSame
  <2> QED  BY <2>1, <2>3, <2>4
<1>21. Abstract!Begin
  BY <1>0, <1>20 DEF Abstract!Begin
<1> QED  BY <1>19, <1>21 DEF StoreStep, Abstract!StoreNext

\* A transaction begins.
LEMMA BeginStep ==
    ASSUME Inv, TransactionBeginWrite
    PROVE  StoreStep
<1>0. /\ phase = "idle" /\ phase' = "open"
      /\ UNCHANGED <<goal, m, cache, forced, addr, avail, lastSize, file, journal, commits>>
  BY DEF TransactionBeginWrite, memory
<1>1. PICK T : Here(T) /\ RunsHere(T) /\ Seen = View(T)
  BY <1>0, Running
<1>2. Prog(T, phase', m', cache', forced', addr', avail', lastSize', file', journal', commits')
  BY <1>0, <1>1 DEF Here, Prog
<1>3. Types(phase', goal', cache', forced', addr', avail', file', journal', commits')
  <2>1. Types(phase, goal, cache, forced, addr, avail, file, journal, commits)
    BY DEF Inv
  <2> QED  BY <1>0, <2>1 DEF Types
<1>4. Hist(phase', file', journal', commits')
  <2>1. Hist(phase, file, journal, commits)
    BY DEF Inv
  <2> QED  BY <1>0, <2>1 DEF Hist
<1>5. Inv'
  BY <1>0, <1>2, <1>3, <1>4 DEF Inv
<1>6. Seen' = Seen
  <2>1. Seen' = SeenOf(cache', forced', addr', file') /\ Seen = SeenOf(cache, forced, addr, file)
    BY <1>0, SeenHere
  <2> QED  BY <1>0, <2>1
<1>7. Abstract!Begin
  BY <1>0, <1>6 DEF Abstract!Begin
<1> QED  BY <1>5, <1>7 DEF StoreStep, Abstract!StoreNext

-----------------------------------------------------------------------------
(* Committing.                                                               *)

\* The header is queued: no tile is there.
LEMMA HeaderQueued ==
    ASSUME NEW q, NEW T, NEW f, NEW R, NEW J, Core(q, T, {}, {}, f, R, J),
           \A j \in 1..Len(q.pend) : q.pend[j].id # Header,
           NEW o, o = BlockOp(Header, 0, FirstBlock),
           NEW r, r = [q EXCEPT !.pend = Append(@, o)]
    PROVE  /\ Core(r, T, {}, {}, f, R, J) /\ r.size = q.size /\ r.last = q.last
           /\ Len(r.pend) = Len(q.pend) + 1 /\ Len(q.pend) \in Nat /\ q.last \in Nat /\ q.last <= Len(q.pend)
           /\ r.pend[Len(r.pend)] = o /\ o.id = Header
           /\ \A j \in 1..Len(r.pend) : (j \in 1..Len(q.pend) /\ r.pend[j] = q.pend[j]) \/ (j = Len(r.pend) /\ r.pend[j] = o)
<1> USE Names
<1>0. /\ QueueOK(q) /\ Tiling(q.size, T) /\ Clean(q, T, {}, f, R, J) /\ FreeListed(q, T) /\ Owned(q, T, {})
      /\ \A t \in T : t \in Tile /\ t.s \in Nat /\ t.e \in Nat /\ 1 <= t.s /\ t.s < t.e
  <2>1. T \ {} = T
    OBVIOUS
  <2>2. /\ QueueOK(q) /\ Tiling(q.size, T) /\ Clean(q, T \ {}, {}, f, R, J) /\ FreeListed(q, T \ {}) /\ Owned(q, T, {})
    BY DEF Core
  <2>3. \A t \in T : t \in Tile /\ t.s \in Nat /\ t.e \in Nat /\ 1 <= t.s /\ t.s < t.e
    BY <2>2, TilingFacts
  <2> QED  BY <2>1, <2>2, <2>3
<1>1. q.pend \in Seq(Operation) /\ Len(q.pend) \in Nat /\ q.last \in Nat /\ q.last <= Len(q.pend) /\ q \in QueueType
  BY <1>0, QueueFacts, CoreQueue
<1>2. o \in Operation /\ o.id = Header /\ o.addr = 0 /\ o.size = 1 /\ o.wipe = FALSE
  BY DEF BlockOp, FirstBlock, Operation
<1>3. r.pend = Append(q.pend, o) /\ r.last = q.last /\ r.size = q.size /\ r.free = q.free /\ r \in QueueType
  <2>1. Append(q.pend, o) \in Seq(Operation)
    BY <1>1, <1>2
  <2> QED  BY <1>1, <2>1 DEF QueueType
<1>4. /\ Len(r.pend) = Len(q.pend) + 1 /\ r.pend[Len(r.pend)] = o
      /\ \A j \in 1..Len(q.pend) : j \in 1..Len(r.pend) /\ r.pend[j] = q.pend[j]
      /\ \A j \in 1..Len(r.pend) : j \in 1..Len(q.pend) \/ j = Len(r.pend)
  <2>1. /\ Len(r.pend) = Len(q.pend) + 1 /\ r.pend[Len(r.pend)] = o
        /\ \A j \in 1..Len(q.pend) : r.pend[j] = q.pend[j]
    BY <1>1, <1>2, <1>3
  <2> QED  BY <1>1, <2>1
<1>5. QueueOK(r)
  <2>1. ASSUME NEW j \in 1..Len(r.pend)
        PROVE  /\ r.pend[j].id = Header => r.pend[j].addr = 0 /\ r.pend[j].size = 1
               /\ r.pend[j].id # Header => r.pend[j].addr >= 1 /\ r.pend[j].size >= 1
    <3>1. CASE j \in 1..Len(q.pend)
      BY <1>0, <1>4, <3>1 DEF QueueOK
    <3>2. CASE j = Len(r.pend)
      BY <1>2, <1>4, <3>2
    <3> QED  BY <1>4, <3>1, <3>2
  <2>2. ASSUME NEW i \in 1..Len(r.pend), NEW j \in 1..Len(r.pend), r.pend[i].id = r.pend[j].id, r.pend[i].id # Free
        PROVE i = j
    <3>1. CASE i \in 1..Len(q.pend) /\ j \in 1..Len(q.pend)
      BY <1>0, <1>4, <2>2, <3>1 DEF QueueOK
    <3>2. CASE i = Len(r.pend) /\ j = Len(r.pend)
      BY <3>2
    <3>3. CASE i \in 1..Len(q.pend) /\ j = Len(r.pend)
      BY <1>2, <1>4, <2>2, <3>3
    <3>4. CASE i = Len(r.pend) /\ j \in 1..Len(q.pend)
      BY <1>2, <1>4, <2>2, <3>4
    <3> QED  BY <1>4, <3>1, <3>2, <3>3, <3>4
  <2>3. r.last <= Len(r.pend)
    BY <1>1, <1>3, <1>4
  <2> QED  BY <1>3, <2>1, <2>2, <2>3 DEF QueueOK, QueueType
<1>6. ASSUME NEW t \in T PROVE Provided(r, t, f, R) /\ Covered(r, t, {}, J)
  <2>1. Provided(q, t, f, R) /\ Covered(q, t, {}, J)
    BY <1>0 DEF Clean
  <2>2. \A x \in Nat : Inside(x, t) => ~Touches(o, x) /\ ~Writes(o, x)
    BY <1>0, <1>2 DEF Inside, Touches, Writes
  <2>3. Provided(r, t, f, R)
    <3>1. PICK k \in 0..Len(q.pend) : Serves(q, t, k, f, R)
      BY <2>1 DEF Provided
    <3>2. ASSUME NEW j \in 1..Len(r.pend), NEW x \in Nat, k < j, Needs(t, x) PROVE ~Touches(r.pend[j], x)
      <4>1. Inside(x, t)
        BY <1>0, <3>2 DEF Needs, Inside
      <4>2. CASE j \in 1..Len(q.pend)
        BY <1>4, <3>1, <3>2, <4>2 DEF Serves
      <4>3. CASE j = Len(r.pend)
        BY <1>4, <2>2, <4>1, <4>3
      <4> QED  BY <1>4, <4>2, <4>3
    <3>3. k \in 0..Len(r.pend) /\ (k > 0 => Own(r.pend[k], t)) /\ (k = 0 => Shown(f, t)) /\ (k <= r.last => Shown(R, t))
      BY <1>1, <1>3, <1>4, <3>1 DEF Serves
    <3> QED  BY <3>2, <3>3 DEF Provided, Serves
  <2>4. Covered(r, t, {}, J)
    <3> SUFFICES ASSUME NEW j \in 1..Len(r.pend), NEW x \in Nat, Inside(x, t), Writes(r.pend[j], x)
                 PROVE Logged(r, t, x, {}, J)
      BY DEF Covered
    <3>1. j \in 1..Len(q.pend) /\ r.pend[j] = q.pend[j]
      BY <1>4, <2>2
    <3>2. Logged(q, t, x, {}, J)
      BY <2>1, <3>1 DEF Covered
    <3> QED  BY <1>3, <1>4, <3>2 DEF Logged
  <2> QED  BY <2>3, <2>4
<1>7. Owned(r, T, {})
  <2>1. ASSUME NEW j \in 1..Len(r.pend), r.pend[j].id \in Block PROVE \E t \in T : Own(r.pend[j], t)
    <3>1. j \in 1..Len(q.pend) /\ r.pend[j] = q.pend[j]
      BY <1>2, <1>4, <2>1
    <3> QED  BY <1>0, <2>1, <3>1 DEF Owned
  <2> QED  BY <2>1 DEF Owned
<1>8. FreeListed(r, T)
  BY <1>0, <1>3 DEF FreeListed
<1>9. Core(r, T, {}, {}, f, R, J)
  <2>1. T \ {} = T
    OBVIOUS
  <2>2. Clean(r, T, {}, f, R, J)
    BY <1>6 DEF Clean
  <2> QED  BY <1>0, <1>3, <1>5, <1>7, <1>8, <2>1, <2>2 DEF Core
<1> QED  BY <1>1, <1>2, <1>3, <1>4, <1>9

\* Queue q can be committed: the header is there, or comes with it.
Ready(q, T, f, R, J) ==
    /\ Core(q, T, {}, {}, f, R, J) /\ q.size <= MaxFile
    /\ \A b \in Block : Kept(b, T, q, cache, forced, addr, avail)
    /\ \A j \in 1..Len(q.pend) : q.pend[j].id = Header => q.last < j \/ 0 \in J
    /\ \/ \E j \in 1..Len(q.pend) : q.last < j /\ q.pend[j].id = Header
       \/ /\ R[0] = HeaderCell(q.size)
          /\ (\A j \in 1..Len(q.pend) : q.pend[j].id # Header) => f[0] = HeaderCell(q.size)

\* If the file has kept its size, its header is right.
LEMMA SameReady ==
    ASSUME NEW T, NEW f, NEW R, NEW J, Runs(T, m, cache, forced, addr, avail, lastSize, f, R, J), lastSize = m.size
    PROVE  Ready(m, T, f, R, J)
<1>1. lastSize # 0
  <2>1. m.size \in Nat /\ 1 <= m.size
    BY CoreFacts DEF Runs
  <2> QED  BY <2>1
<1>2. /\ \A j \in 1..Len(m.pend) : m.pend[j].id = Header => j <= m.last /\ 0 \in J
      /\ R[0] = HeaderCell(m.size)
      /\ (\A j \in 1..Len(m.pend) : m.pend[j].id # Header) => f[0] = HeaderCell(m.size)
  BY <1>1 DEF Runs, HeaderKept
<1> QED  BY <1>2 DEF Runs, Ready

\* CompleteTransaction queues the header if the size changed.
LEMMA CompletedReady ==
    ASSUME NEW T, NEW f, NEW R, NEW J, Runs(T, m, cache, forced, addr, avail, lastSize, f, R, J)
    PROVE  Ready(Completed, T, f, R, J) /\ Completed.size = m.size
<1>1. CASE m.size = lastSize
  <2>1. Completed = m
    BY <1>1 DEF Completed
  <2> QED  BY <1>1, <2>1, SameReady
<1>2. CASE m.size # lastSize
  <2> DEFINE q == PendingRemove(m, Header)
             o == BlockOp(Header, 0, FirstBlock)
             r == [q EXCEPT !.pend = Append(@, o)]
  <2>0. Core(m, T, {}, {}, f, R, J) /\ QueueOK(m)
    BY CoreQueue DEF Runs
  <2>1. Core(q, T, {}, {}, f, R, J)
    <3>1. {} \ {Header} = {} /\ Header \in {} \cup {Header}
      OBVIOUS
    <3> QED  BY <2>0, <3>1, Dropped
  <2>2. /\ QueueOK(q) /\ q.size = m.size
        /\ \A j \in 1..Len(q.pend) : q.pend[j].id # Header
        /\ \A j \in 1..Len(q.pend) : \E i \in 1..Len(m.pend) : q.pend[j] = m.pend[i]
    BY <2>0, DropQueue, Names
  <2>3. Completed = r
    BY <1>2 DEF Completed, PendingAdd
  <2> HIDE DEF q, o
  <2>4. /\ Core(r, T, {}, {}, f, R, J) /\ r.size = q.size /\ r.last = q.last
        /\ Len(r.pend) = Len(q.pend) + 1 /\ Len(q.pend) \in Nat /\ q.last \in Nat /\ q.last <= Len(q.pend)
        /\ r.pend[Len(r.pend)] = o /\ o.id = Header
        /\ \A j \in 1..Len(r.pend) : (j \in 1..Len(q.pend) /\ r.pend[j] = q.pend[j]) \/ (j = Len(r.pend) /\ r.pend[j] = o)
    <3>1. o = BlockOp(Header, 0, FirstBlock)
      BY DEF o
    <3> QED  BY <2>1, <2>2, <3>1, HeaderQueued
  <2> HIDE DEF r
  <2>5. ASSUME NEW b \in Block PROVE Kept(b, T, r, cache, forced, addr, avail)
    <3>1. Kept(b, T, m, cache, forced, addr, avail)
      BY DEF Runs
    <3>2. ASSUME NEW j \in 1..Len(r.pend), r.pend[j].id = b PROVE cache[b] # Absent
      <4>1. j \in 1..Len(q.pend) /\ r.pend[j] = q.pend[j]
        BY <2>4, <3>2, Names
      <4>2. \E i \in 1..Len(m.pend) : q.pend[j] = m.pend[i]
        BY <2>2, <4>1
      <4> QED  BY <3>1, <3>2, <4>1, <4>2 DEF Kept
    <3> QED  BY <3>1, <3>2 DEF Kept
  <2>6. \A j \in 1..Len(r.pend) : r.pend[j].id = Header => r.last < j
    BY <2>2, <2>4
  <2>7. \E j \in 1..Len(r.pend) : r.last < j /\ r.pend[j].id = Header
    BY <2>4
  <2>8. r.size <= MaxFile
    BY <2>2, <2>4 DEF Runs
  <2>9. Ready(r, T, f, R, J)
    BY <2>4, <2>5, <2>6, <2>7, <2>8 DEF Ready
  <2> QED  BY <2>2, <2>3, <2>4, <2>9
<1> QED  BY <1>1, <1>2

\* The commits that may be lost, when one more was written.
LEMMA ListedMore ==
    ASSUME NEW f, NEW j, NEW c \in Seq(Contents), Listed(f, j, c), JournalOK(j),
           NEW h, NEW q, NEW e, Closes(h, j, q, e), NEW v \in Contents, GoodFile(RecOf(f, h, Len(h)), v)
    PROVE  Listed(f, h, Append(c, v))
<1>1. /\ Len(j) \in Nat /\ e \in Nat /\ Len(h) = Len(j) + e + 1 /\ Len(h) \in Nat
      /\ \A i \in 1..Len(j) : h[i] = j[i]
      /\ h[Len(h)].sig = "fini"
      /\ \A i \in 1..e : h[Len(j) + i].sig = "writ"
  <2>1. Len(j) \in Nat /\ e \in Nat /\ Len(h) = Len(j) + e + 1
    BY DEF Closes
  <2>2. Len(h) \in Nat
    BY <2>1
  <2>3. h[Len(h)].sig = "fini" /\ \A i \in 1..Len(j) : h[i] = j[i]
    BY DEF Closes
  <2>4. \A i \in 1..e : h[Len(j) + i].sig = "writ"
    BY DEF Closes
  <2> QED  BY <2>1, <2>2, <2>3, <2>4
<1>2. FiniOf(h) = FiniOf(j) \cup {Len(h)} /\ Len(h) \notin FiniOf(j)
  <2>1. ASSUME NEW k \in 1..Len(h) PROVE k \in FiniOf(h) <=> k \in FiniOf(j) \/ k = Len(h)
    <3>1. CASE k \in 1..Len(j)
      BY <1>1, <3>1 DEF FiniOf
    <3>2. CASE k = Len(h)
      BY <1>1, <3>2 DEF FiniOf
    <3>3. CASE k \notin 1..Len(j) /\ k # Len(h)
      <4>1. k - Len(j) \in 1..e /\ Len(j) + (k - Len(j)) = k
        BY <1>1, <3>3
      <4>2. h[k].sig = "writ"
        BY <1>1, <4>1
      <4> QED  BY <3>3, <4>2 DEF FiniOf
    <3> QED  BY <3>1, <3>2, <3>3
  <2>2. FiniOf(h) \subseteq 1..Len(h) /\ FiniOf(j) \subseteq 1..Len(j) /\ Len(h) \notin 1..Len(j) /\ Len(h) \in 1..Len(h)
        /\ 1..Len(j) \subseteq 1..Len(h)
    BY <1>1 DEF FiniOf
  <2> QED  BY <2>1, <2>2
<1>3. /\ IsFiniteSet(FiniOf(j)) /\ Cardinality(FiniOf(j)) \in Nat
      /\ \A k : Cardinality(Upto(j, k)) \in Nat /\ Cardinality(Upto(j, k)) <= Cardinality(FiniOf(j))
  BY <1>1, FiniFinite
<1>4. Cardinality(FiniOf(h)) = Cardinality(FiniOf(j)) + 1
  BY <1>2, <1>3, FS_AddElement
<1>5. Len(c) = 1 + Cardinality(FiniOf(j))
  BY DEF Listed
<1>6. Len(Append(c, v)) = 1 + Cardinality(FiniOf(h))
  BY <1>3, <1>4, <1>5
<1>7. ASSUME NEW k \in {0} \cup FiniOf(j)
      PROVE GoodFile(RecOf(f, h, k), Append(c, v)[1 + Cardinality(Upto(h, k))])
  <2>1. k \in Nat /\ k <= Len(j)
    BY <1>1 DEF FiniOf
  <2>2. Upto(h, k) = Upto(j, k)
    BY <1>1, <1>2, <2>1 DEF Upto
  <2>3. Append(c, v)[1 + Cardinality(Upto(j, k))] = c[1 + Cardinality(Upto(j, k))]
    <3> DEFINE n == 1 + Cardinality(Upto(j, k))
    <3>1. n \in 1..Len(c)
      BY <1>3, <1>5
    <3> HIDE DEF n
    <3>2. Append(c, v)[n] = c[n]
      BY <3>1
    <3> QED  BY <3>2 DEF n
  <2>4. RecOf(f, j, k) = RecOf(f, h, k)
    <3>1. \A i \in 1..k : j[i] = h[i]
      BY <1>1, <2>1
    <3> QED  BY <2>1, <3>1, RecSame
  <2>5. GoodFile(RecOf(f, j, k), c[1 + Cardinality(Upto(j, k))])
    BY DEF Listed
  <2> QED  BY <2>2, <2>3, <2>4, <2>5
<1>8. GoodFile(RecOf(f, h, Len(h)), Append(c, v)[1 + Cardinality(Upto(h, Len(h)))])
  <2>1. Upto(h, Len(h)) = FiniOf(h)
    BY <1>1 DEF Upto, FiniOf
  <2>2. 1 + Cardinality(FiniOf(h)) = Len(c) + 1
    BY <1>3, <1>4, <1>5
  <2>3. Append(c, v)[Len(c) + 1] = v
    OBVIOUS
  <2> QED  BY <2>1, <2>2, <2>3
<1> QED  BY <1>2, <1>6, <1>7, <1>8 DEF Listed

\* A commit.

\* The commit keeps the invariant, and what is seen.
LEMMA CommitKeeps ==
    ASSUME Inv, NEW T, NEW q, phase \in {"idle", "open"},
           Ready(q, T, file, RecOf(file, journal, Len(journal)), LogOf(journal, Len(journal))),
           CloseTransaction(q), Seen = View(T),
           UNCHANGED <<cache, forced, addr, avail, file>>, lastSize' = q.size,
           phase' \in {"idle", "flush"}, goal' \in {"none", "purge", "close"}
    PROVE  Inv' /\ Seen' = Seen
<1> USE Names
<1> DEFINE R == RecOf(file, journal, Len(journal))
           J == LogOf(journal, Len(journal))
           h == Closing(journal, q)
           G == RecOf(file, h, Len(h))
           K == LogOf(h, Len(h))
           r == [q EXCEPT !.last = Len(q.pend)]
<1>0. /\ journal' = h /\ m' = r
      /\ commits' = IF phase' = "flush" THEN <<Seen>> ELSE Append(commits, Seen)
  BY DEF CloseTransaction, Closing
<1>1. /\ Core(q, T, {}, {}, file, R, J) /\ q.size <= MaxFile
      /\ \A b \in Block : Kept(b, T, q, cache, forced, addr, avail)
      /\ \A j \in 1..Len(q.pend) : q.pend[j].id = Header => q.last < j \/ 0 \in J
      /\ \/ \E j \in 1..Len(q.pend) : q.last < j /\ q.pend[j].id = Header
         \/ /\ R[0] = HeaderCell(q.size)
            /\ (\A j \in 1..Len(q.pend) : q.pend[j].id # Header) => file[0] = HeaderCell(q.size)
  BY DEF Ready
<1>2. JournalOK(journal) /\ Len(journal) \in Nat /\ Sized(file) /\ commits \in Seq(Contents)
  BY JournalHere
<1>3. PICK S : journal \in Seq(S)
  BY <1>2 DEF JournalOK
<1>4. QueueOK(q) /\ q \in QueueType /\ q.last \in Nat /\ Len(q.pend) \in Nat /\ q.size \in Nat /\ Tiling(q.size, T)
  <2>1. QueueOK(q) /\ q \in QueueType
    BY <1>1, CoreQueue
  <2> QED  BY <1>1, <2>1, QueueFacts DEF Core
<1>5. r.pend = q.pend /\ r.last = Len(q.pend) /\ r.size = q.size
  BY <1>4 DEF QueueType
<1>6. /\ \A i \in 1..Len(q.pend) : q.pend[i].id \in Block => cache[q.pend[i].id] \in Content
      /\ Backed(q, T)
  <2>1. ASSUME NEW t \in T, NEW j \in 1..Len(q.pend), t.id \in Block, Own(q.pend[j], t) PROVE cache[t.id] = Carries(t)
    <3>1. t \in BlocksOf(T) /\ q.pend[j].id = t.id
      BY <2>1 DEF BlocksOf, Own
    <3> QED  BY <1>1, <2>1, <3>1 DEF Kept
  <2>2. ASSUME NEW i \in 1..Len(q.pend), q.pend[i].id \in Block PROVE cache[q.pend[i].id] \in Content
    BY <1>1, <2>2 DEF Kept
  <2> QED  BY <2>1, <2>2 DEF Backed
<1>7. Core(r, T, {}, {}, file, G, K) /\ \A t \in T : Shown(G, t)
  <2> HIDE DEF r
  <2>1. r = [q EXCEPT !.last = Len(q.pend)]
    BY DEF r
  <2> QED  BY <1>1, <1>3, <1>6, <2>1, Committed
<1>8. Closes(h, journal, q, Len(q.pend) - q.last)
  BY <1>3, <1>4, ClosingIs
<1>9. /\ J \subseteq K
      /\ \A i \in 1..Len(q.pend) : q.last < i => \A x \in Cells : x \in DOMAIN Patch(q, q.pend[i]) => x \in K
  BY <1>3, <1>4, CommitLogs
<1>10. Overwrites(G, R, q, q.last)
  BY <1>1, <1>3, <1>4, CommitOverwrites
<1>11. JournalOK(h)
  BY <1>2, <1>4, <1>6, ClosingOK
<1>12. Len(h) \in Nat /\ Len(h) > 0 /\ h[Len(h)].sig = "fini" /\ h[Len(h)].size = q.size /\ EndOf(h) = Len(h)
  <2>1. Len(h) \in Nat /\ Len(h) > 0 /\ h[Len(h)].sig = "fini" /\ h[Len(h)].size = q.size
    BY <1>4, <1>8 DEF Closes
  <2> QED  BY <2>1, EndIs
<1> HIDE DEF h, r, R, J, G, K
<1>13. G[0] = HeaderCell(q.size)
  <2>1. \/ G[0] = HeaderCell(q.size)
        \/ G[0] = R[0] /\ \A i \in 1..Len(q.pend) : q.last < i => q.pend[i].id # Header
    BY <1>1, <1>4, <1>6, <1>10, HeaderComes
  <2> QED  BY <1>1, <2>1
<1>14. HeaderKept(r, q.size, file, G, K)
  <2>1. ASSUME NEW j \in 1..Len(q.pend), q.pend[j].id = Header PROVE j <= Len(q.pend) /\ 0 \in K
    <3>1. CASE 0 \in J
      BY <1>4, <1>9, <3>1
    <3>2. CASE q.last < j
      <4>1. 0 \in DOMAIN Patch(q, q.pend[j])
        BY <2>1 DEF Patch
      <4>2. 0 \in Cells
        BY StoreAssumption DEF Cells
      <4> QED  BY <1>4, <1>9, <3>2, <4>1, <4>2
    <3> QED  BY <1>1, <2>1, <3>1, <3>2
  <2>2. (\A j \in 1..Len(q.pend) : q.pend[j].id # Header) => file[0] = HeaderCell(q.size)
    BY <1>1
  <2> QED  BY <1>5, <1>13, <2>1, <2>2 DEF HeaderKept
<1>15. Runs(T, r, cache, forced, addr, avail, q.size, file, G, K)
  <2>1. \A b \in Block : Kept(b, T, r, cache, forced, addr, avail)
    BY <1>1, <1>5 DEF Kept
  <2> QED  BY <1>1, <1>5, <1>7, <1>14, <2>1 DEF Runs
<1>16. View(T) \in Contents
  BY <1>4, ViewAt DEF Contents
<1>17. commits'[Len(commits')] = View(T) /\ commits' \in Seq(Contents)
  <2>1. CASE phase' = "flush"
    BY <1>0, <1>16, <2>1
  <2>2. CASE phase' # "flush"
    BY <1>0, <1>2, <1>16, <2>2
  <2> QED  BY <2>1, <2>2
<1>18. Prog(T, phase', m', cache', forced', addr', avail', lastSize', file', journal', commits')
  BY <1>0, <1>5, <1>12, <1>15, <1>17 DEF Prog, G, K
<1>19. Types(phase', goal', cache', forced', addr', avail', file', journal', commits')
  <2>1. Types(phase, goal, cache, forced, addr, avail, file, journal, commits)
    BY DEF Inv
  <2> QED  BY <1>0, <1>11, <1>17, <2>1 DEF Types
<1>20. GoodFile(G, View(T))
  <2>1. G[0].val = q.size
    BY <1>13 DEF HeaderCell
  <2>2. TilesAs(G, T)
    BY <1>1, <1>4, <1>7, <1>13, <2>1 DEF TilesAs
  <2>3. T \in SUBSET Tile
    BY <1>4 DEF Tiling
  <2> QED  BY <2>2, <2>3 DEF GoodFile
<1>21. Hist(phase', file', journal', commits')
  <2>1. CASE phase' = "flush"
    <3>1. commits' = <<View(T)>>
      BY <1>0, <2>1
    <3>2. Single(file, h, <<View(T)>>)
      BY <1>12, <1>20 DEF Single, G
    <3> QED  BY <1>0, <2>1, <3>1, <3>2 DEF Hist
  <2>2. CASE phase' = "idle"
    <3>1. commits' = Append(commits, View(T))
      BY <1>0, <2>2
    <3>2. Listed(file, journal, commits)
      BY DEF Inv, Hist
    <3>3. Listed(file, h, Append(commits, View(T)))
      BY <1>2, <1>8, <1>16, <1>20, <3>2, ListedMore DEF G
    <3> QED  BY <1>0, <2>2, <3>1, <3>3 DEF Hist
  <2> QED  BY <2>1, <2>2
<1>22. Inv'
  BY <1>18, <1>19, <1>21 DEF Inv
<1>23. Seen' = Seen
  <2>1. Seen' = SeenOf(cache', forced', addr', file') /\ Seen = SeenOf(cache, forced, addr, file)
    BY SeenHere
  <2> QED  BY <2>1
<1> QED  BY <1>22, <1>23

\* The end of a transaction.
LEMMA EndStep ==
    ASSUME Inv, TransactionEndWrite
    PROVE  StoreStep
<1>0. /\ phase = "open" /\ phase' \in {"idle", "flush"} /\ goal' \in {"none", "purge", "close"}
      /\ lastSize' = Completed.size /\ CloseTransaction(Completed)
      /\ UNCHANGED <<cache, forced, addr, avail, file>>
  <2>1. goal \in {"none", "purge", "close"}
    BY DEF Inv, Types
  <2> QED  BY <2>1 DEF TransactionEndWrite
<1>1. PICK T : Here(T) /\ RunsHere(T) /\ Seen = View(T)
  BY <1>0, Running
<1>2. Ready(Completed, T, file, RecOf(file, journal, Len(journal)), LogOf(journal, Len(journal)))
  BY <1>1, CompletedReady DEF RunsHere
<1>3. Inv' /\ Seen' = Seen
  BY <1>0, <1>1, <1>2, CommitKeeps
<1>4. commits' \in {Append(commits, Seen), <<Seen>>}
  BY <1>0 DEF CloseTransaction
<1>5. Abstract!Commit
  BY <1>0, <1>3, <1>4 DEF Abstract!Commit
<1> QED  BY <1>3, <1>5 DEF StoreStep, Abstract!StoreNext

\* The driver is shut down: everything is to be flushed.
LEMMA CloseStep ==
    ASSUME Inv, Close
    PROVE  StoreStep
<1>0. /\ phase = "idle" /\ phase' = "flush" /\ goal' = "close" /\ CloseTransaction(m)
      /\ UNCHANGED <<cache, forced, addr, avail, lastSize, file>>
  BY DEF Close
<1>1. PICK T : Here(T) /\ RunsHere(T) /\ Seen = View(T)
  BY <1>0, Running
<1>2. lastSize = m.size /\ commits[Len(commits)] = View(T)
  BY <1>0, <1>1 DEF Here, Prog
<1>3. Ready(m, T, file, RecOf(file, journal, Len(journal)), LogOf(journal, Len(journal)))
  BY <1>1, <1>2, SameReady DEF RunsHere
<1>4. Inv' /\ Seen' = Seen
  <2>1. lastSize' = m.size
    BY <1>0, <1>2
  <2> QED  BY <1>0, <1>1, <1>3, <2>1, CommitKeeps
<1>5. commits' = <<commits[Len(commits)]>>
  BY <1>0, <1>1, <1>2 DEF CloseTransaction
<1>6. Abstract!Secure
  BY <1>0, <1>4, <1>5 DEF Abstract!Secure
<1> QED  BY <1>4, <1>6 DEF StoreStep, Abstract!StoreNext

-----------------------------------------------------------------------------
(* Flushing.                                                                 *)

Emptied(q) == [q EXCEPT !.pend = <<>>, !.last = 0]

\* The file after a full flush.
LEMMA FlushGood ==
    ASSUME Inv, phase = "flush", NEW g, g = Flushed[Len(m.pend)]
    PROVE  \E T : /\ RunsHere(T) /\ Seen = View(T) /\ commits = <<View(T)>> /\ lastSize = m.size
                  /\ m.size \in Nat /\ 1 <= m.size /\ m.size <= MaxFile /\ Tiling(m.size, T)
                  /\ Sized(g) /\ g[0] = HeaderCell(m.size) /\ \A t \in T : Shown(g, t)
                  /\ Core(Emptied(m), T, {}, {}, g, g, {})
<1>1. PICK T : Here(T) /\ RunsHere(T) /\ Seen = View(T)
  BY Running
<1> DEFINE R == RecOf(file, journal, Len(journal))
           J == LogOf(journal, Len(journal))
<1>2. Core(m, T, {}, {}, file, R, J) /\ m.size <= MaxFile /\ HeaderKept(m, lastSize, file, R, J)
  BY <1>1 DEF RunsHere, Runs
<1>3. lastSize = m.size /\ commits[Len(commits)] = View(T)
  BY <1>1 DEF Here, Prog
<1>4. Backed(m, T)
  BY <1>1, BackedHere
<1>5. QueueOK(m) /\ Tiling(m.size, T) /\ m.size \in Nat /\ 1 <= m.size /\ Len(m.pend) \in Nat
  <2>1. QueueOK(m) /\ Tiling(m.size, T) /\ m.size \in Nat /\ 1 <= m.size
    BY <1>2, CoreFacts
  <2> QED  BY <2>1, QueueFacts
<1>6. g = Written(Truncate(file, m.size), Patches, Len(m.pend)) /\ Sized(g)
  <2>1. Len(m.pend) \in 0..Len(m.pend)
    BY <1>5
  <2> QED  BY <2>1, FlushWithin
<1>7. \A k \in 1..Len(m.pend) : Patches[k] = Patch(m, m.pend[k])
  BY DEF Patches
<1>8. /\ \A t \in T : Shown(g, t)
      /\ \/ g[0] = HeaderCell(m.size)
         \/ g[0] = file[0] /\ \A i \in 1..Len(m.pend) : m.pend[i].id # Header
  <2> DEFINE p == Patches
  <2> HIDE DEF p, R, J
  <2>1. \A k \in 1..Len(m.pend) : p[k] = Patch(m, m.pend[k])
    BY <1>7 DEF p
  <2>2. g = Written(Truncate(file, m.size), p, Len(m.pend))
    BY <1>6 DEF p
  <2>3. m.size <= MaxFile /\ Core(m, T, {}, {}, file, R, J)
    BY <1>2
  <2>4. FlushedTo(Written(Truncate(file, m.size), p, Len(m.pend)), T, file, m)
    BY <1>4, <2>1, <2>3, FlushShows
  <2> QED  BY <2>2, <2>4, Zenon DEF FlushedTo
<1>9. g[0] = HeaderCell(m.size)
  <2>1. lastSize # 0
    BY <1>3, <1>5
  <2>2. (\A i \in 1..Len(m.pend) : m.pend[i].id # Header) => file[0] = HeaderCell(m.size)
    BY <1>2, <1>3, <2>1 DEF HeaderKept
  <2> QED  BY <1>8, <2>2
<1>10. Core(Emptied(m), T, {}, {}, g, g, {})
  BY <1>2, <1>8, EmptyQueue DEF Emptied
<1>11. commits = <<View(T)>>
  <2>1. Len(commits) = 1 /\ commits \in Seq(Contents)
    BY JournalHere DEF Inv, Hist, Single
  <2>2. commits = <<commits[1]>>
    BY <2>1
  <2> QED  BY <1>3, <2>1, <2>2
<1> QED  BY <1>1, <1>2, <1>3, <1>5, <1>6, <1>8, <1>9, <1>10, <1>11

\* The whole queue is written to the file and the journal emptied.
LEMMA FlushStep ==
    ASSUME Inv, Flush
    PROVE  StoreStep
<1> DEFINE g == Flushed[Len(m.pend)]
<1>0. /\ phase = "flush" /\ phase' = "idle" /\ goal' = "none" /\ file' = g /\ journal' = <<>>
      /\ m' = Emptied(m) /\ UNCHANGED <<forced, addr, avail, lastSize, commits>>
  BY DEF Flush, Emptied
<1>1. PICK old \in SUBSET {b \in Block : Cached(b) /\ b \notin forced} :
            cache' = [b \in Block |-> IF b \in old THEN Absent ELSE cache[b]]
  BY DEF Flush
<1>2. PICK T : /\ RunsHere(T) /\ Seen = View(T) /\ commits = <<View(T)>> /\ lastSize = m.size
               /\ m.size \in Nat /\ 1 <= m.size /\ m.size <= MaxFile /\ Tiling(m.size, T)
               /\ Sized(g) /\ g[0] = HeaderCell(m.size) /\ \A t \in T : Shown(g, t)
               /\ Core(Emptied(m), T, {}, {}, g, g, {})
  BY <1>0, FlushGood
<1> HIDE DEF g
<1> DEFINE r == Emptied(m)
<1>3. r.pend = <<>> /\ r.last = 0 /\ r.size = m.size
  <2>1. m \in QueueType
    BY <1>2, CoreQueue DEF RunsHere, Runs
  <2> QED  BY <2>1 DEF Emptied, QueueType
<1> HIDE DEF r
<1>4. Len(r.pend) = 0 /\ 1..Len(r.pend) = {}
  BY <1>3
<1>5. ASSUME NEW b \in Block PROVE Kept(b, T, r, cache', forced, addr, avail)
  <2>1. Kept(b, T, m, cache, forced, addr, avail)
    BY <1>2 DEF RunsHere, Runs
  <2>2. cache'[b] = cache[b] \/ (cache'[b] = Absent /\ b \notin forced)
    <3>1. cache'[b] = IF b \in old THEN Absent ELSE cache[b]
      BY <1>1
    <3>2. b \in old => b \notin forced
      OBVIOUS
    <3> QED  BY <3>1, <3>2
  <2> QED  BY <1>4, <2>1, <2>2 DEF Kept
<1>6. HeaderKept(r, lastSize, g, g, {})
  BY <1>2, <1>4 DEF HeaderKept
<1>7. Runs(T, r, cache', forced, addr, avail, lastSize, g, g, {})
  BY <1>2, <1>3, <1>5, <1>6 DEF Runs, r
<1>8. Prog(T, phase', m', cache', forced', addr', avail', lastSize', file', journal', commits')
  <2>1. Len(journal') = 0 /\ EndOf(journal') = Len(journal') /\ RecOf(file', journal', Len(journal')) = g
        /\ LogOf(journal', Len(journal')) = {}
    BY <1>0, <1>2, EmptyJournal
  <2>2. m'.last = Len(m'.pend) /\ lastSize' = m'.size
    BY <1>0, <1>2, <1>3, <1>4 DEF r
  <2>3. commits'[Len(commits')] = View(T)
    BY <1>0, <1>2
  <2>4. Runs(T, m', cache', forced', addr', avail', lastSize', file', RecOf(file', journal', Len(journal')), LogOf(journal', Len(journal')))
    BY <1>0, <1>7, <2>1 DEF r
  <2> QED  BY <1>0, <2>1, <2>2, <2>3, <2>4 DEF Prog
<1>9. Types(phase', goal', cache', forced', addr', avail', file', journal', commits')
  <2>1. Types(phase, goal, cache, forced, addr, avail, file, journal, commits)
    BY DEF Inv
  <2>2. cache' \in Contents
    BY <1>1, <2>1 DEF Types, Contents
  <2> QED  BY <1>0, <1>2, <2>1, <2>2, EmptyJournal DEF Types
<1>10. Hist(phase', file', journal', commits')
  <2>1. TilesAs(g, T) /\ T \in SUBSET Tile
    BY <1>2 DEF TilesAs, HeaderCell, Tiling
  <2>2. GoodFile(g, commits[1])
    BY <1>2, <2>1 DEF GoodFile
  <2>3. Listed(file', journal', commits')
    BY <1>0, <1>2, <2>2, EmptyListed
  <2> QED  BY <1>0, <2>3 DEF Hist
<1>11. Inv'
  BY <1>0, <1>8, <1>9, <1>10 DEF Inv
<1>12. Seen' = Seen
  <2>1. SeenOf(cache', forced, addr, g) = View(T)
    BY <1>7, RunsSeen
  <2>2. Seen' = SeenOf(cache', forced', addr', file')
    BY <1>0, SeenHere
  <2> QED  BY <1>0, <1>2, <2>1, <2>2
<1>13. UNCHANGED <<phase = "open", Seen, commits>>
  BY <1>0, <1>12
<1> QED  BY <1>11, <1>13 DEF StoreStep

\* The file is cut where its tiles end.
LEMMA CutShows ==
    ASSUME NEW f, NEW z, NEW T, Tiling(z, T), z <= MaxFile, \A t \in T : Shown(f, t), f[0] = HeaderCell(z)
    PROVE  TilesAs(Cut(f, z), T)
<1>1. z \in Nat /\ 1 <= z /\ \A t \in T : t \in Tile /\ t.s \in Nat /\ t.e \in Nat /\ 1 <= t.s /\ t.s < t.e /\ t.e <= z
  BY TilingFacts
<1>2. MaxFile \in Nat
  BY StoreAssumption
<1>3. \A x \in Nat : x < z => Cut(f, z)[x] = f[x]
  BY <1>1, <1>2 DEF Cut, Cells
<1>4. ASSUME NEW t \in T PROVE Shown(Cut(f, z), t)
  <2>1. t.s < z /\ \A x \in Nat : Inside(x, t) => x < z
    BY <1>1 DEF Inside
  <2>2. Cut(f, z)[t.s] = f[t.s] /\ \A x \in Nat : Inside(x, t) => Cut(f, z)[x] = f[x]
    BY <1>1, <1>3, <2>1
  <2> QED  BY <2>2 DEF Shown
<1>5. Cut(f, z)[0] = HeaderCell(z)
  BY <1>1, <1>3
<1> QED  BY <1>4, <1>5 DEF TilesAs, HeaderCell

\* The same at the end of the program, and the file is cut at its used size.
LEMMA ClosedStep ==
    ASSUME Inv, Closed
    PROVE  StoreStep
<1> DEFINE g == Flushed[Len(m.pend)]
<1>0. /\ phase = "flush" /\ Forget /\ file' = Cut(g, m.size) /\ journal' = <<>> /\ commits' = commits
  BY DEF Closed
<1>2. PICK T : /\ RunsHere(T) /\ Seen = View(T) /\ commits = <<View(T)>> /\ lastSize = m.size
               /\ m.size \in Nat /\ 1 <= m.size /\ m.size <= MaxFile /\ Tiling(m.size, T)
               /\ Sized(g) /\ g[0] = HeaderCell(m.size) /\ \A t \in T : Shown(g, t)
               /\ Core(Emptied(m), T, {}, {}, g, g, {})
  BY <1>0, FlushGood
<1> HIDE DEF g
<1>3. TilesAs(file', T) /\ Sized(file')
  BY <1>0, <1>2, CutShows, CutSized
<1>4. GoodFile(file', commits'[1]) /\ Len(commits') = 1
  <2>1. T \in SUBSET Tile /\ commits'[1] = View(T)
    BY <1>0, <1>2 DEF Tiling
  <2> QED  BY <1>0, <1>2, <1>3, <2>1 DEF GoodFile
<1>5. JournalOK(journal') /\ RecOf(file', journal', EndOf(journal')) = file'
  BY <1>0, <1>3, EmptyJournal
<1>6. Inv' /\ Seen' = commits'[1] /\ phase' = "down"
  <2>1. commits' \in Seq(Contents)
    BY <1>0, JournalHere
  <2> QED  BY <1>0, <1>3, <1>4, <1>5, <2>1, Gone
<1>7. UNCHANGED <<phase = "open", Seen, commits>>
  BY <1>0, <1>2, <1>6
<1> QED  BY <1>6, <1>7 DEF StoreStep

-----------------------------------------------------------------------------
(* The theorems.                                                             *)

\* A new file.
LEMMA StoreStarts ==
    ASSUME BlockManagerInit
    PROVE  Inv /\ Abstract!StoreInit
<1>0. /\ phase = "down" /\ goal = "none" /\ m = Nothing
      /\ cache = [b \in Block |-> Absent] /\ addr = [b \in Block |-> 0]
      /\ forced = {} /\ avail = {} /\ lastSize = 0
      /\ file = [x \in Cells |-> IF x = 0 THEN HeaderCell(FirstBlock) ELSE Zero]
      /\ journal = <<>>
      /\ commits = <<[b \in Block |-> Absent]>>
  BY DEF BlockManagerInit
<1>1. MaxFile \in Nat /\ MaxFile >= 1 /\ 0 \in Cells
  BY StoreAssumption DEF Cells
<1>2. file[0] = HeaderCell(1)
  BY <1>0, <1>1 DEF FirstBlock
<1>3. Sized(file)
  <2>1. Zero.size = 0 /\ HeaderCell(FirstBlock).size = 1
    BY DEF Zero, HeaderCell, FirstBlock
  <2> QED  BY <1>0, <2>1 DEF Sized
<1>4. TilesAs(file, {})
  <2>1. Tiling(1, {})
    <3>1. 1 .. 1 - 1 = {}
      OBVIOUS
    <3> QED  BY <3>1 DEF Tiling, BlocksOf
  <2>2. HeaderCell(1).val = 1
    BY DEF HeaderCell
  <2> QED  BY <1>1, <1>2, <2>1, <2>2 DEF TilesAs
<1>5. View({}) = [b \in Block |-> Absent]
  <2>1. BlocksOf({}) = {}
    BY DEF BlocksOf
  <2> QED  BY <2>1 DEF View
<1>6. commits = <<View({})>> /\ View({}) \in Contents /\ commits[1] = View({}) /\ Len(commits) = 1
  BY <1>0, <1>5 DEF Contents
<1>7. Single(file, journal, commits)
  <2>1. RecOf(file, journal, EndOf(journal)) = file
    BY <1>0, <1>3, EmptyJournal
  <2>2. GoodFile(file, View({}))
    BY <1>4 DEF GoodFile
  <2> QED  BY <1>6, <2>1, <2>2 DEF Single
<1>8. Types(phase, goal, cache, forced, addr, avail, file, journal, commits)
  <2>1. commits \in Seq(Contents)
    BY <1>6
  <2>2. JournalOK(journal)
    BY <1>0, EmptyJournal
  <2> QED  BY <1>0, <1>3, <2>1, <2>2 DEF Types, Contents
<1>9. Inv
  BY <1>0, <1>7, <1>8 DEF Inv, Blank, Hist
<1>10. Seen = View({})
  BY <1>0, <1>6, SeenHere
<1>11. Abstract!StoreInit
  BY <1>0, <1>5, <1>6, <1>10 DEF Abstract!StoreInit
<1> QED  BY <1>9, <1>11

\* Nothing happens.
LEMMA StoreStutters ==
    ASSUME Inv, UNCHANGED vars
    PROVE  StoreStep
<1>0. UNCHANGED <<phase, goal, m, cache, forced, addr, avail, lastSize, file, journal, commits>>
  BY DEF vars, memory
<1>1. Inv'
  BY <1>0 DEF Inv, Blank
<1>2. Seen' = Seen
  <2>1. CASE phase = "down"
    BY <1>0, <2>1, SeenHere
  <2>2. CASE phase # "down"
    <3>1. Seen' = SeenOf(cache', forced', addr', file') /\ Seen = SeenOf(cache, forced, addr, file)
      BY <1>0, <2>2, SeenHere
    <3> QED  BY <1>0, <3>1
  <2> QED  BY <2>1, <2>2
<1>3. UNCHANGED <<phase = "open", Seen, commits>>
  BY <1>0, <1>2
<1> QED  BY <1>1, <1>3 DEF StoreStep

\* Every step of the block manager is one of the abstract store, or none.
LEMMA StoreSteps ==
    ASSUME Inv, [BlockManagerNext]_vars
    PROVE  StoreStep
<1>1. CASE TransactionBeginWrite
  BY <1>1, BeginStep
<1>2. CASE Change
  <2>1. PICK b \in Block :
            \/ \E c \in Content : CreateBlock(b, c) \/ CreateBlockVirtual(b, c)
            \/ \E n \in BlockSizes : ResizeBlock(b, n)
            \/ \E v \in Value : UpdateBlock(b, v)
            \/ DeleteBlock(b) \/ WriteBlockToDisk(b)
    BY <1>2 DEF Change
  <2> QED  BY <2>1, CreateStep, VirtualStep, ResizeStep, UpdateStep, DeleteStep, WriteStep
<1>3. CASE TransactionEndWrite
  BY <1>3, EndStep
<1>4. CASE \E b \in Block : ReadBlock(b)
  BY <1>4, ReadStep
<1>5. CASE Flush
  BY <1>5, FlushStep
<1>6. CASE Close
  BY <1>6, CloseStep
<1>7. CASE Closed
  BY <1>7, ClosedStep
<1>8. CASE Kill
  BY <1>8, KillStep
<1>9. CASE PowerFailure
  BY <1>9, PowerStep
<1>10. CASE LoadFile
  BY <1>10, LoadStep
<1>11. CASE UNCHANGED vars
  BY <1>11, StoreStutters
<1> QED  BY <1>1, <1>2, <1>3, <1>4, <1>5, <1>6, <1>7, <1>8, <1>9, <1>10, <1>11 DEF BlockManagerNext

\* Inv: the queue in memory tells how the file becomes the one that is seen,
\* and whatever is missing from the file or half written, the journal brings
\* back a commit that may be the last one.
THEOREM StoreInvariant == Spec => []Inv
<1>1. BlockManagerInit => Inv
  BY StoreStarts
<1>2. Inv /\ [BlockManagerNext]_vars => Inv'
  BY StoreSteps DEF StoreStep
<1> QED  BY <1>1, <1>2, PTL DEF Spec

\* The types follow from the invariant.
LEMMA InvTyped ==
    ASSUME Inv
    PROVE  BlockManagerTypeOK
<1>0. Types(phase, goal, cache, forced, addr, avail, file, journal, commits)
  BY DEF Inv
<1>1. m \in QueueType /\ m.last <= Len(m.pend)
  <2>1. CASE phase = "down"
    <3>1. m = [size |-> 0, free |-> {}, pend |-> <<>>, last |-> 0]
      BY <2>1 DEF Inv, Blank, Nothing
    <3>2. <<>> \in Seq(Operation) /\ 0 \in Nat /\ {} \in SUBSET (Nat \X Nat)
      OBVIOUS
    <3>3. m \in QueueType
      BY <3>1, <3>2 DEF QueueType
    <3>4. m.last = 0 /\ Len(m.pend) = 0
      BY <3>1
    <3> QED  BY <3>3, <3>4
  <2>2. CASE phase # "down"
    <3>1. PICK T : RunsHere(T)
      BY <2>2, Running
    <3>2. QueueOK(m)
      BY <3>1, CoreQueue DEF RunsHere, Runs
    <3> QED  BY <3>2 DEF QueueOK, QueueType
  <2> QED  BY <2>1, <2>2
<1>2. journal \in Seq([sig : {"writ", "fini"}, size : Nat, patch : {e.patch : e \in ToSet(journal)}])
  <2> DEFINE P == {e.patch : e \in ToSet(journal)}
             E == [sig : {"writ", "fini"}, size : Nat, patch : P]
  <2>1. PICK S : journal \in Seq([sig : {"writ", "fini"}, size : Nat, patch : S])
    BY <1>0 DEF Types, JournalOK
  <2> DEFINE Q == [sig : {"writ", "fini"}, size : Nat, patch : S]
  <2>2. Len(journal) \in Nat /\ journal \in [1..Len(journal) -> Q]
    <3> HIDE DEF Q
    <3>1. journal \in Seq(Q)
      BY <2>1 DEF Q
    <3> QED  BY <3>1
  <2>3. ASSUME NEW i \in 1..Len(journal) PROVE journal[i] \in E
    <3>1. journal[i] \in ToSet(journal)
      BY <2>2 DEF ToSet
    <3>2. journal[i].patch \in P
      BY <3>1
    <3>3. journal[i] \in Q
      BY <2>2
    <3> HIDE DEF P
    <3> QED  BY <3>2, <3>3
  <2> HIDE DEF E
  <2>4. journal \in [1..Len(journal) -> E]
    <3>1. journal = [i \in 1..Len(journal) |-> journal[i]]
      BY <2>2
    <3> QED  BY <2>3, <3>1
  <2>5. journal \in Seq(E)
    BY <2>2, <2>4
  <2> QED  BY <2>5 DEF E
<1> QED  BY <1>0, <1>1, <1>2 DEF Types, Contents, BlockManagerTypeOK, QueueType

\* So does what a flush needs of the cache.
LEMMA InvCached ==
    ASSUME Inv
    PROVE  PendingCached
<1> SUFFICES ASSUME NEW b \in Block, NEW k \in PendingOf(b)
             PROVE  /\ Cached(b) /\ b \notin forced
                    /\ addr[b] = m.pend[k].addr /\ cache[b].size = m.pend[k].size
                    /\ \A i \in PendingOf(b) : i = k
  BY DEF PendingCached
<1> USE Names
<1>1. phase # "down"
  <2> SUFFICES ASSUME phase = "down" PROVE FALSE
    OBVIOUS
  <2>1. m.pend = <<>>
    BY DEF Inv, Blank, Nothing
  <2>2. Len(m.pend) = 0
    BY <2>1
  <2> QED  BY <2>2 DEF PendingOf
<1>2. PICK T : RunsHere(T)
  BY <1>1, Running
<1> DEFINE R == RecOf(file, journal, Len(journal))
           J == LogOf(journal, Len(journal))
<1>3. Core(m, T, {}, {}, file, R, J) /\ Kept(b, T, m, cache, forced, addr, avail)
  BY <1>2 DEF RunsHere, Runs
<1>4. k \in 1..Len(m.pend) /\ m.pend[k].id = b
  BY DEF PendingOf
<1> HIDE DEF R, J
<1>5. PICK t \in BlocksOf(T) : t.id = b /\ Own(m.pend[k], t)
  BY <1>3, <1>4, OpHasTile
<1>6. cache[b] = Carries(t) /\ cache[b] # Absent /\ addr[b] = t.s /\ b \notin forced
  BY <1>3, <1>4, <1>5 DEF Kept
<1>7. m.pend[k].addr = t.s /\ m.pend[k].size = t.e - t.s /\ Carries(t).size = t.e - t.s
  BY <1>5 DEF Own, Carries
<1>8. \A i \in PendingOf(b) : i = k
  <2>1. QueueOK(m)
    BY <1>3, CoreQueue
  <2> QED  BY <1>4, <2>1 DEF PendingOf, QueueOK
<1> QED  BY <1>6, <1>7, <1>8 DEF Cached

\* And that blocks and free blocks do not overlap.
LEMMA InvApart ==
    ASSUME Inv
    PROVE  NoOverlap
<1> SUFFICES ASSUME phase # "down", NEW e \in Extents
             PROVE  /\ FirstBlock <= e[2] /\ e[2] + e[3] <= m.size
                    /\ \A g \in Extents : e = g \/ e[2] + e[3] <= g[2] \/ g[2] + g[3] <= e[2]
  BY DEF NoOverlap
<1>1. PICK T : RunsHere(T)
  BY Running
<1>2. /\ \A t \in T : t \in Tile /\ t.s \in Nat /\ t.e \in Nat /\ 1 <= t.s /\ t.s < t.e /\ t.e <= m.size
      /\ \A t, u \in T : t = u \/ Disjoint(t, u)
      /\ FreeListed(m, T)
  <2>1. Tiling(m.size, T) /\ FreeListed(m, T \ {})
    BY <1>1 DEF RunsHere, Runs, Core
  <2>2. T \ {} = T
    OBVIOUS
  <2> QED  BY <2>1, <2>2, TilingFacts
<1>3. ASSUME NEW x \in Extents PROVE \E t \in T : x = <<t.id, t.s, t.e - t.s>>
  <2>1. CASE \E b \in Block : addr[b] # 0 /\ x = <<b, addr[b], Load(b).size>>
    <3>1. PICK b \in Block : addr[b] # 0 /\ x = <<b, addr[b], Load(b).size>>
      BY <2>1
    <3>2. PICK t \in BlocksOf(T) : t.id = b
      BY <1>1, <3>1, BlockKept
    <3>3. addr[b] = t.s /\ Load(b).size = t.e - t.s
      BY <1>1, <3>2, BlockKept
    <3> QED  BY <3>1, <3>2, <3>3 DEF BlocksOf
  <2>2. CASE \E f \in m.free : x = <<Free, f[1], f[2]>>
    <3>1. PICK f \in m.free : x = <<Free, f[1], f[2]>>
      BY <2>2
    <3>2. PICK t \in T : t.id = Free /\ f = <<t.s, t.e - t.s>>
      BY <1>2 DEF FreeListed
    <3> QED  BY <3>1, <3>2
  <2> QED  BY <2>1, <2>2 DEF Extents
<1>4. PICK t \in T : e = <<t.id, t.s, t.e - t.s>>
  BY <1>3
<1>5. e[2] = t.s /\ e[2] + e[3] = t.e
  BY <1>2, <1>4
<1>6. ASSUME NEW g \in Extents PROVE e = g \/ e[2] + e[3] <= g[2] \/ g[2] + g[3] <= e[2]
  <2>1. PICK u \in T : g = <<u.id, u.s, u.e - u.s>>
    BY <1>3
  <2>2. g[2] = u.s /\ g[2] + g[3] = u.e
    BY <1>2, <2>1
  <2>3. CASE t = u
    BY <1>4, <2>1, <2>3
  <2>4. CASE Disjoint(t, u)
    BY <1>5, <2>2, <2>4 DEF Disjoint
  <2> QED  BY <1>2, <2>3, <2>4
<1> QED  BY <1>2, <1>5, <1>6 DEF FirstBlock

\* The queue, the cache, the table of blocks and the journal keep their types,
\* and no more of the queue counts as journalled than there is (m_PendingLast,
\* BlockManager.cpp).
THEOREM StoreTypeCorrect == Spec => []BlockManagerTypeOK
<1>1. Inv => BlockManagerTypeOK
  BY InvTyped
<1> QED  BY <1>1, StoreInvariant, PTL

\* Every pending operation of a block finds it in the cache, at the address and
\* with the size it was queued with, and there is one for a block at most: what
\* _PendingFlush relies on (BlockManager.cpp 282-341).
THEOREM PendingIsCached == Spec => []PendingCached
<1>1. Inv => PendingCached
  BY InvCached
<1> QED  BY <1>1, StoreInvariant, PTL

\* Blocks and free blocks lie between header and end of the file and do not
\* overlap, whatever was created, resized and deleted (_FindFreePosition and
\* _InsertFreeBlock).
THEOREM BlocksNeverOverlap == Spec => []NoOverlap
<1>1. Inv => NoOverlap
  BY InvApart
<1> QED  BY <1>1, StoreInvariant, PTL

\* At every moment, also in the middle of a flush or a replay that failed, the
\* journal makes a file of the one that is there that a scan reads without
\* mistake (ProcessJournal and ScanFile).
THEOREM AlwaysRecoverable == Spec => []Recoverable
<1>1. Inv => Recoverable
  BY InvRecoverable
<1> QED  BY <1>1, StoreInvariant, PTL

\* Write transactions are atomic and durable as AtomicStore says: for any
\* blocks, contents and sizes, and any failure at any moment, what comes back
\* is what some commit left, none older than the last one known to be on the
\* disk.
THEOREM StoreIsAtomic == Spec => Atomic
<1>1. BlockManagerInit => Abstract!StoreInit
  BY StoreStarts
<1>2. Inv /\ [BlockManagerNext]_vars => [Abstract!StoreNext]_(Abstract!store)
  BY StoreSteps DEF StoreStep, Abstract!store
<1> QED  BY <1>1, <1>2, StoreInvariant, PTL DEF Spec, Atomic, Abstract!Spec

-----------------------------------------------------------------------------
(***************************************************************************)
(* The lock (MREWSync), for any number of threads below 2^20, the width of *)
(* a field of m_Sentinel, and any depth of nesting.                        *)
(***************************************************************************)

USE MREWAssumption

One(b) == IF b THEN 1 ELSE 0

\* The sizes of two sets that differ in at most one element.
LEMMA OneDiffers ==
    ASSUME NEW S, NEW T, IsFiniteSet(S), NEW t, T \ {t} = S \ {t}
    PROVE  /\ IsFiniteSet(T) /\ Cardinality(S) \in Nat /\ Cardinality(T) \in Nat
           /\ Cardinality(T) = Cardinality(S) + One(t \in T) - One(t \in S)
<1>1. CASE t \in T /\ t \notin S
  <2>1. T = S \cup {t}
    BY <1>1
  <2>2. QED
    BY <1>1, <2>1, FS_AddElement, FS_CardinalityType DEF One
<1>2. CASE t \notin T /\ t \in S
  <2>1. T = S \ {t}
    BY <1>2
  <2>2. IsFiniteSet(S \ {t}) /\ Cardinality(S \ {t}) = Cardinality(S) - 1
    BY <1>2, FS_RemoveElement
  <2>3. Cardinality(S) \in Nat /\ Cardinality(S \ {t}) \in Nat
    BY <2>2, FS_CardinalityType
  <2>4. QED
    BY <1>2, <2>1, <2>2, <2>3 DEF One
<1>3. CASE t \in T <=> t \in S
  <2>1. \A x : x \in T <=> x \in S
    <3>1. \A x : x # t => (x \in T <=> x \in T \ {t}) /\ (x \in S <=> x \in S \ {t})
      OBVIOUS
    <3>2. QED
      BY <1>3, <3>1
  <2>2. T = S
    BY <2>1
  <2>3. QED
    BY <1>3, <2>2, FS_CardinalityType DEF One
<1>4. QED
  BY <1>1, <1>2, <1>3

LEMMA Sizes ==
    ASSUME NEW S, S \subseteq Thread
    PROVE  /\ IsFiniteSet(S) /\ Cardinality(S) \in Nat
           /\ Cardinality(S) = 0 <=> S = {}
           /\ \A t \in S : Cardinality(S) = 1 => S = {t}
<1>1. IsFiniteSet(S) /\ Cardinality(S) \in Nat
  BY FS_Subset, FS_CardinalityType
<1>2. Cardinality(S) = 0 <=> S = {}
  BY <1>1, FS_EmptySet
<1>3. ASSUME NEW t \in S, Cardinality(S) = 1 PROVE S = {t}
  <2>1. \E x : S = {x}
    BY <1>1, <1>3, FS_Singleton
  <2>2. QED
    BY <2>1
<1>4. QED
  BY <1>1, <1>2, <1>3

-----------------------------------------------------------------------------
\* What the invariant says of the sets of threads, in the form the proofs use.
LEMMA Facts ==
    ASSUME MREWInv
    PROVE  /\ Cardinality(Reading) \in Nat /\ Cardinality(Blocked) \in Nat
           /\ Cardinality(Released) \in Nat /\ Cardinality(Held) \in Nat
           /\ Cardinality(Queued) \in Nat
           /\ readerBusy \in Nat /\ readerWaiting \in Nat /\ writerWaiting \in Nat
           /\ Blocked = Released \cup Held
           /\ \A t \in Reading : ~writerBusy /\ readerBusy >= 1
           /\ \A t \in Reading : readerBusy = 1 => Reading = {t} /\ Released = {}
           /\ ~writerBusy /\ readerBusy = 0 => Reading = {} /\ Released = {} /\ Held = {} /\ writerWaiting = 0
           /\ ~writerBusy /\ writerWaiting = 0 => Held = {} /\ readerWaiting = 0
           /\ writerBusy => Released = {} /\ Reading = {} /\ Held = Blocked
           /\ writerBusy /\ readerBusy = 0 => Blocked = {}
           /\ writerBusy /\ readerBusy > 0 => Blocked # {}
           /\ \A t \in Writing : writerBusy /\ Writing = {t} /\ ~InHand
           /\ \A t \in Released : readerBusy >= 1
<1>1. /\ Reading \subseteq Thread /\ Blocked \subseteq Thread /\ Released \subseteq Thread
      /\ Held \subseteq Thread /\ Queued \subseteq Thread
      /\ Blocked = Released \cup Held
  BY DEF Reading, Blocked, Released, Held, Queued
<1>2. /\ Cardinality(Reading) \in Nat /\ Cardinality(Blocked) \in Nat
      /\ Cardinality(Released) \in Nat /\ Cardinality(Held) \in Nat
      /\ Cardinality(Queued) \in Nat
      /\ Cardinality(Reading) = 0 <=> Reading = {}
      /\ Cardinality(Blocked) = 0 <=> Blocked = {}
      /\ Cardinality(Released) = 0 <=> Released = {}
      /\ Cardinality(Held) = 0 <=> Held = {}
      /\ \A t \in Reading : Cardinality(Reading) = 1 => Reading = {t}
  BY <1>1, Sizes
<1>3. readerBusy \in Nat /\ readerWaiting \in Nat /\ writerWaiting \in Nat /\ writerBusy \in BOOLEAN
  BY DEF MREWInv, MREWTypeOK
<1>4. writerBusy => Released = {} /\ Reading = {} /\ Held = Blocked
  BY <1>1 DEF MREWInv, Apart
<1>5. ~writerBusy => readerBusy = Cardinality(Reading) + Cardinality(Released)
  BY DEF MREWInv, FieldsCount
<1>6. writerBusy => readerBusy = Cardinality(Blocked)
  BY <1>2, <1>4 DEF MREWInv, FieldsCount
<1>7. ~writerBusy => readerWaiting = Cardinality(Held)
  BY DEF MREWInv, FieldsCount
<1>8. ~writerBusy /\ readerWaiting > 0 => writerWaiting > 0
  BY DEF MREWInv, Apart
<1>9. ~writerBusy /\ writerWaiting > 0 => readerBusy > 0
  BY DEF MREWInv, Apart
<1>10. \A t \in Writing : writerBusy /\ Writing = {t} /\ ~InHand
  BY DEF MREWInv, OneOwner
<1>11. \A t \in Reading : ~writerBusy /\ readerBusy >= 1
  BY <1>2, <1>3, <1>4, <1>5
<1>12. \A t \in Reading : readerBusy = 1 => Reading = {t} /\ Released = {}
  BY <1>2, <1>3, <1>5, <1>11
<1>13. ~writerBusy /\ writerWaiting = 0 => Held = {} /\ readerWaiting = 0
  BY <1>2, <1>3, <1>7, <1>8
<1>14. ~writerBusy /\ readerBusy = 0 => Reading = {} /\ Released = {} /\ Held = {} /\ writerWaiting = 0
  BY <1>2, <1>3, <1>5, <1>9, <1>13
<1>15. /\ writerBusy /\ readerBusy = 0 => Blocked = {}
       /\ writerBusy /\ readerBusy > 0 => Blocked # {}
  BY <1>2, <1>3, <1>6
<1>16. \A t \in Released : readerBusy >= 1
  BY <1>2, <1>3, <1>4, <1>5
<1>17. QED
  BY <1>1, <1>2, <1>3, <1>4, <1>10, <1>11, <1>12, <1>13, <1>14, <1>15, <1>16

\* A step of one thread, with the read signals not exchanged.
LocalChange(t) ==
    /\ \A u \in Thread \ {t} : /\ pc'[u] = pc[u] /\ reads'[u] = reads[u] /\ signal'[u] = signal[u]
                               /\ writerID' = u <=> writerID = u
    /\ odd' = odd

LEMMA LocalSets ==
    ASSUME NEW t \in Thread, LocalChange(t)
    PROVE  /\ Reading' \ {t} = Reading \ {t} /\ Writing' \ {t} = Writing \ {t}
           /\ Blocked' \ {t} = Blocked \ {t} /\ Released' \ {t} = Released \ {t}
           /\ Held' \ {t} = Held \ {t} /\ Queued' \ {t} = Queued \ {t}
           /\ Handing' \ {t} = Handing \ {t}
<1>1. Reading' \ {t} = Reading \ {t} /\ Writing' \ {t} = Writing \ {t}
  BY DEF LocalChange, Reading, Writing
<1>2. Blocked' \ {t} = Blocked \ {t} /\ Queued' \ {t} = Queued \ {t} /\ Handing' \ {t} = Handing \ {t}
  BY DEF LocalChange, Blocked, Queued, Handing
<1>3. Released' \ {t} = Released \ {t} /\ Held' \ {t} = Held \ {t}
  <2>1. odd' = odd /\ \A u \in Thread \ {t} : signal'[u] = signal[u]
    BY DEF LocalChange
  <2>2. QED
    BY <1>2, <2>1 DEF Released, Held, Blocked
<1>4. QED
  BY <1>1, <1>2, <1>3

LEMMA LocalSizes ==
    ASSUME NEW t \in Thread, LocalChange(t)
    PROVE  /\ Cardinality(Reading') = Cardinality(Reading) + One(t \in Reading') - One(t \in Reading)
           /\ Cardinality(Blocked') = Cardinality(Blocked) + One(t \in Blocked') - One(t \in Blocked)
           /\ Cardinality(Released') = Cardinality(Released) + One(t \in Released') - One(t \in Released)
           /\ Cardinality(Held') = Cardinality(Held) + One(t \in Held') - One(t \in Held)
           /\ Cardinality(Queued') = Cardinality(Queued) + One(t \in Queued') - One(t \in Queued)
<1>1. /\ Reading \subseteq Thread /\ Blocked \subseteq Thread /\ Released \subseteq Thread
      /\ Held \subseteq Thread /\ Queued \subseteq Thread
  BY DEF Reading, Blocked, Released, Held, Queued
<1>2. /\ IsFiniteSet(Reading) /\ IsFiniteSet(Blocked) /\ IsFiniteSet(Released)
      /\ IsFiniteSet(Held) /\ IsFiniteSet(Queued)
  BY <1>1, Sizes
<1>3. /\ Reading' \ {t} = Reading \ {t} /\ Blocked' \ {t} = Blocked \ {t}
      /\ Released' \ {t} = Released \ {t} /\ Held' \ {t} = Held \ {t}
      /\ Queued' \ {t} = Queued \ {t}
  BY LocalSets
<1>4. Cardinality(Reading') = Cardinality(Reading) + One(t \in Reading') - One(t \in Reading)
  BY <1>2, <1>3, OneDiffers
<1>5. Cardinality(Blocked') = Cardinality(Blocked) + One(t \in Blocked') - One(t \in Blocked)
  BY <1>2, <1>3, OneDiffers
<1>6. Cardinality(Released') = Cardinality(Released) + One(t \in Released') - One(t \in Released)
  BY <1>2, <1>3, OneDiffers
<1>7. Cardinality(Held') = Cardinality(Held) + One(t \in Held') - One(t \in Held)
  BY <1>2, <1>3, OneDiffers
<1>8. Cardinality(Queued') = Cardinality(Queued) + One(t \in Queued') - One(t \in Queued)
  BY <1>2, <1>3, OneDiffers
<1>9. QED
  BY <1>4, <1>5, <1>6, <1>7, <1>8

\* Which sets a thread is in, before and after a step.
LEMMA Where ==
    ASSUME NEW t \in Thread
    PROVE  /\ t \in Reading <=> reads[t] > 0 /\ pc[t] \in {"run", "enter", "setRead"} /\ writerID # t
           /\ t \in Writing <=> writerID = t \/ pc[t] \in {"stamp", "reset", "leave"}
           /\ t \in Blocked <=> pc[t] = "waitRead"
           /\ t \in Released <=> pc[t] = "waitRead" /\ signal[t] # odd
           /\ t \in Held <=> pc[t] = "waitRead" /\ signal[t] = odd
           /\ t \in Queued <=> pc[t] \in {"waitWrite", "setWaitWrite"}
           /\ t \in Handing <=> pc[t] \in {"setWrite", "setWaitWrite"}
BY DEF Reading, Writing, Blocked, Released, Held, Queued, Handing

LEMMA WhereNext ==
    ASSUME NEW t \in Thread
    PROVE  /\ t \in Reading' <=> reads'[t] > 0 /\ pc'[t] \in {"run", "enter", "setRead"} /\ writerID' # t
           /\ t \in Writing' <=> writerID' = t \/ pc'[t] \in {"stamp", "reset", "leave"}
           /\ t \in Blocked' <=> pc'[t] = "waitRead"
           /\ t \in Released' <=> pc'[t] = "waitRead" /\ signal'[t] # odd'
           /\ t \in Held' <=> pc'[t] = "waitRead" /\ signal'[t] = odd'
           /\ t \in Queued' <=> pc'[t] \in {"waitWrite", "setWaitWrite"}
           /\ t \in Handing' <=> pc'[t] \in {"setWrite", "setWaitWrite"}
BY DEF Reading, Writing, Blocked, Released, Held, Queued, Handing

-----------------------------------------------------------------------------
LEMMA LocalMoves ==
    ASSUME NEW t \in Thread, LocalChange(t)
    PROVE  /\ Reading' = (IF t \in Reading' THEN Reading \cup {t} ELSE Reading \ {t})
           /\ Writing' = (IF t \in Writing' THEN Writing \cup {t} ELSE Writing \ {t})
           /\ Blocked' = (IF t \in Blocked' THEN Blocked \cup {t} ELSE Blocked \ {t})
           /\ Released' = (IF t \in Released' THEN Released \cup {t} ELSE Released \ {t})
           /\ Held' = (IF t \in Held' THEN Held \cup {t} ELSE Held \ {t})
           /\ Queued' = (IF t \in Queued' THEN Queued \cup {t} ELSE Queued \ {t})
           /\ Handing' = (IF t \in Handing' THEN Handing \cup {t} ELSE Handing \ {t})
<1>1. ASSUME NEW S, NEW T, T \ {t} = S \ {t}
      PROVE  T = IF t \in T THEN S \cup {t} ELSE S \ {t}
  BY <1>1
<1>2. QED
  BY <1>1, LocalSets

\* A step that leaves the events, the history and the revision alone keeps the
\* conditions on the single threads if its own thread fulfils them.
LEMMA LocalThreadsFit ==
    ASSUME MREWTypeOK, ThreadsFit, NEW t \in Thread, LocalChange(t),
           UNCHANGED <<overtaken, current>>,
           writerID' = None <=> recursion' = 0,
           writerID' = t => pc'[t] = "run",
           pc'[t] = "waitRead" => reads'[t] > 0,
           pc'[t] = "setWrite" => reads'[t] = 0,
           t \in overtaken => reads'[t] > 0 /\ pc'[t] \in {"waitWrite", "setWaitWrite", "stamp"}
    PROVE  ThreadsFit'
<1>1. overtaken \subseteq Thread
  BY DEF MREWTypeOK
<1>2. \A u \in Thread \ {t} :
          /\ pc'[u] = pc[u] /\ reads'[u] = reads[u]
          /\ writerID' = u <=> writerID = u
  BY DEF LocalChange
<1>3. \A u \in Thread :
          /\ writerID' = u => pc'[u] = "run"
          /\ pc'[u] = "waitRead" => reads'[u] > 0
          /\ pc'[u] = "setWrite" => reads'[u] = 0
  BY <1>2 DEF ThreadsFit
<1>4. \A u \in overtaken :
          u \notin current /\ reads'[u] > 0 /\ pc'[u] \in {"waitWrite", "setWaitWrite", "stamp"}
  BY <1>1, <1>2 DEF ThreadsFit
<1>5. QED
  BY <1>3, <1>4 DEF ThreadsFit

LEMMA LocalSignalsFit ==
    ASSUME SignalsFit, NEW t \in Thread, LocalChange(t),
           UNCHANGED readSignal,
           pc'[t] \notin {"leave", "setRead"},
           writerBusy' => writerBusy \/ \A u \in Thread : pc[u] # "setRead",
           Released \subseteq Released'
    PROVE  SignalsFit'
<1>1. /\ odd' = odd
      /\ \A u \in Thread \ {t} : pc'[u] = pc[u] /\ signal'[u] = signal[u]
  BY DEF LocalChange
<1>2. \A u \in Thread \ {t} : u \in Reading => u \in Reading'
  BY LocalSets
<1>3. ASSUME NEW u \in Thread, pc'[u] = "setRead"
      PROVE  /\ signal'[u] # odd' /\ ~readSignal'[1 - odd']
             /\ ~writerBusy'
             /\ u \in Reading' \/ Released' # {}
  <2>1. u # t /\ pc[u] = "setRead" /\ signal'[u] = signal[u]
    BY <1>1, <1>3
  <2>2. /\ signal[u] # odd /\ ~readSignal[1 - odd] /\ ~writerBusy
        /\ u \in Reading \/ Released # {}
    BY <2>1 DEF SignalsFit
  <2>3. QED
    BY <1>1, <1>2, <2>1, <2>2
<1>4. ~readSignal'[odd'] /\ \A u \in Thread : pc'[u] = "leave" => ~readSignal'[1 - odd']
  BY <1>1 DEF SignalsFit
<1>5. \A u, v \in Thread : pc'[u] = "setRead" /\ pc'[v] = "setRead" => u = v
  BY <1>1 DEF SignalsFit
<1>6. QED
  BY <1>3, <1>4, <1>5 DEF SignalsFit

\* While some thread reads alone, nobody is about to let others in.
LEMMA NobodyLetsIn ==
    ASSUME MREWInv, NEW t \in Reading, pc[t] # "setRead", readerBusy = 1
    PROVE  \A u \in Thread : pc[u] # "setRead"
BY Facts DEF MREWInv, SignalsFit

-----------------------------------------------------------------------------
LEMMA EndReadInv == ASSUME MREWInv, NEW t \in Thread, EndRead(t) PROVE MREWInv'
<1>1. /\ MREWTypeOK /\ OneOwner /\ FieldsCount /\ Apart /\ SignalsFit /\ ThreadsFit
      /\ pc[t] = "run" /\ reads[t] = 1 /\ writerID # t
      /\ reads' = [reads EXCEPT ![t] = 0]
      /\ UNCHANGED <<odd, readSignal, writeSignal, writerID, recursion, current, signal, overtaken>>
  BY DEF MREWInv, EndRead, events
<1>2. /\ pc \in [Thread -> Place] /\ reads \in [Thread -> 0..MaxDepth] /\ signal \in [Thread -> {0, 1}]
      /\ writerBusy \in BOOLEAN
  BY <1>1 DEF MREWTypeOK
<1>3. /\ t \in Reading /\ t \notin Writing /\ t \notin Blocked /\ t \notin Released /\ t \notin Held
      /\ t \notin Queued /\ t \notin Handing
  BY <1>1, Where
<1>4. ~writerBusy /\ readerBusy >= 1
  BY <1>3, Facts
<1>5. CASE LastReader
  <2>1. /\ readerBusy' = readerWaiting /\ readerWaiting' = 0 /\ writerWaiting' = writerWaiting - 1
        /\ writerBusy' = TRUE /\ pc' = [pc EXCEPT ![t] = "setWrite"]
        /\ readerBusy = 1 /\ writerWaiting > 0
    BY <1>1, <1>5, Facts DEF EndRead, LastReader, Sentinel, Goto
  <2>2. LocalChange(t) /\ pc'[t] = "setWrite" /\ reads'[t] = 0
    BY <1>1, <1>2, <2>1 DEF LocalChange
  <2>3. /\ t \notin Reading' /\ t \notin Writing' /\ t \notin Blocked' /\ t \notin Released' /\ t \notin Held'
        /\ t \notin Queued' /\ t \in Handing'
    BY <1>1, <2>2, WhereNext
  <2>4. /\ Writing' = Writing /\ Blocked' = Blocked /\ Released' = Released /\ Held' = Held
        /\ Queued' = Queued /\ Handing' = Handing \cup {t} /\ Reading' = Reading \ {t}
    <3>1. /\ Writing' = Writing \ {t} /\ Blocked' = Blocked \ {t} /\ Released' = Released \ {t}
          /\ Held' = Held \ {t} /\ Queued' = Queued \ {t} /\ Handing' = Handing \cup {t}
          /\ Reading' = Reading \ {t}
      BY <2>2, <2>3, LocalMoves
    <3>2. QED
      BY <1>3, <3>1
  <2>5. Reading = {t} /\ Released = {} /\ Held = Blocked /\ Writing = {} /\ ~InHand
    BY <1>1, <1>3, <1>4, <2>1, Facts DEF OneOwner
  <2>6. InHand' /\ Handing' = {t} /\ ~writeSignal'
    BY <1>1, <2>4, <2>5 DEF InHand
  <2>7. OneOwner'
    BY <2>1, <2>4, <2>5, <2>6 DEF OneOwner
  <2>8. FieldsCount'
    <3>1. Cardinality(Reading') = 0
      BY <2>4, <2>5, FS_EmptySet
    <3>2. readerBusy' = Cardinality(Blocked') /\ Cardinality(Blocked') \in Nat
      BY <1>1, <1>4, <2>1, <2>4, <2>5, Facts DEF FieldsCount
    <3>3. Cardinality(Queued') = writerWaiting' + 1
      BY <1>1, <2>1, <2>4, <2>5, Facts DEF FieldsCount
    <3>4. QED
      BY <2>1, <2>6, <3>1, <3>2, <3>3 DEF FieldsCount
  <2>9. Apart'
    BY <2>1, <2>4, <2>5 DEF Apart
  <2>10. SignalsFit'
    BY <1>1, <1>3, <2>1, <2>2, <2>4, NobodyLetsIn, LocalSignalsFit
  <2>11. ThreadsFit'
    BY <1>1, <2>2, LocalThreadsFit DEF ThreadsFit
  <2>12. MREWTypeOK'
    BY <1>1, <2>1, Facts DEF MREWTypeOK, Place
  <2>13. QED
    BY <2>7, <2>8, <2>9, <2>10, <2>11, <2>12 DEF MREWInv
<1>6. CASE ~LastReader
  <2>1. /\ readerBusy' = readerBusy - 1 /\ UNCHANGED <<readerWaiting, writerWaiting, writerBusy, pc>>
        /\ readerBusy > 1 \/ writerWaiting = 0
    BY <1>1, <1>4, <1>6, Facts DEF EndRead, LastReader, Sentinel
  <2>2. LocalChange(t) /\ pc'[t] = "run" /\ reads'[t] = 0
    BY <1>1, <1>2, <2>1 DEF LocalChange
  <2>3. /\ t \notin Reading' /\ t \notin Writing' /\ t \notin Blocked' /\ t \notin Released' /\ t \notin Held'
        /\ t \notin Queued' /\ t \notin Handing'
    BY <1>1, <2>2, WhereNext
  <2>4. /\ Writing' = Writing /\ Blocked' = Blocked /\ Released' = Released /\ Held' = Held
        /\ Queued' = Queued /\ Handing' = Handing /\ Reading' = Reading \ {t}
    <3>1. /\ Writing' = Writing \ {t} /\ Blocked' = Blocked \ {t} /\ Released' = Released \ {t}
          /\ Held' = Held \ {t} /\ Queued' = Queued \ {t} /\ Handing' = Handing \ {t}
          /\ Reading' = Reading \ {t}
      BY <2>2, <2>3, LocalMoves
    <3>2. QED
      BY <1>3, <3>1
  <2>5. InHand' <=> InHand
    BY <1>1, <2>4 DEF InHand
  <2>6. OneOwner'
    BY <1>1, <2>1, <2>4, <2>5 DEF OneOwner
  <2>7. FieldsCount'
    <3>1. Cardinality(Reading') = Cardinality(Reading) - 1
      BY <1>3, <2>2, <2>3, LocalSizes, Facts DEF One
    <3>2. QED
      BY <1>1, <1>4, <2>1, <2>4, <2>5, <3>1, Facts DEF FieldsCount
  <2>8. Apart'
    BY <1>1, <1>4, <2>1, Facts DEF Apart
  <2>9. SignalsFit'
    BY <1>1, <2>1, <2>2, <2>4, LocalSignalsFit
  <2>10. ThreadsFit'
    BY <1>1, <2>2, LocalThreadsFit DEF ThreadsFit
  <2>11. MREWTypeOK'
    BY <1>1, <1>4, <2>1, Facts DEF MREWTypeOK
  <2>12. QED
    BY <2>6, <2>7, <2>8, <2>9, <2>10, <2>11 DEF MREWInv
<1>7. QED
  BY <1>5, <1>6

-----------------------------------------------------------------------------
\* A set its thread neither enters nor leaves stays as it is.
LEMMA LocalSame ==
    ASSUME NEW t \in Thread, LocalChange(t)
    PROVE  /\ (t \in Reading' <=> t \in Reading) => Reading' = Reading
           /\ (t \in Writing' <=> t \in Writing) => Writing' = Writing
           /\ (t \in Blocked' <=> t \in Blocked) => Blocked' = Blocked
           /\ (t \in Released' <=> t \in Released) => Released' = Released
           /\ (t \in Held' <=> t \in Held) => Held' = Held
           /\ (t \in Queued' <=> t \in Queued) => Queued' = Queued
           /\ (t \in Handing' <=> t \in Handing) => Handing' = Handing
<1>1. ASSUME NEW S, NEW T, T \ {t} = S \ {t}, t \in T <=> t \in S
      PROVE  T = S
  <2>1. \A x : x # t => (x \in T <=> x \in T \ {t}) /\ (x \in S <=> x \in S \ {t})
    OBVIOUS
  <2>2. \A x : x \in T <=> x \in S
    BY <1>1, <2>1
  <2>3. QED
    BY <2>2
<1>2. QED
  BY <1>1, LocalSets

\* A step that moves its thread into no other set and leaves m_Sentinel alone.
LEMMA QuietInv ==
    ASSUME MREWInv, NEW t \in Thread, LocalChange(t),
           UNCHANGED <<readerBusy, readerWaiting, writerWaiting, writerBusy, writeSignal>>,
           t \in Reading' <=> t \in Reading, t \in Writing' <=> t \in Writing,
           t \in Blocked' <=> t \in Blocked, t \in Released' <=> t \in Released,
           t \in Held' <=> t \in Held, t \in Queued' <=> t \in Queued,
           t \in Handing' <=> t \in Handing,
           MREWTypeOK', SignalsFit', ThreadsFit'
    PROVE  MREWInv'
<1>2. /\ Reading' = Reading /\ Writing' = Writing /\ Blocked' = Blocked /\ Released' = Released
      /\ Held' = Held /\ Queued' = Queued /\ Handing' = Handing
  BY LocalSame
<1>3. InHand' <=> InHand
  BY <1>2 DEF InHand
<1>4. OneOwner'
  BY <1>2, <1>3 DEF MREWInv, OneOwner
<1>5. FieldsCount'
  BY <1>2, <1>3 DEF MREWInv, FieldsCount
<1>6. Apart'
  BY <1>2 DEF MREWInv, Apart
<1>7. QED
  BY <1>4, <1>5, <1>6 DEF MREWInv

\* Nested locks, and the begin of BeginWrite.
LEMMA AgainInv ==
    ASSUME MREWInv, NEW t \in Thread,
           BeginReadAgain(t) \/ EndReadAgain(t) \/ BeginWriteAgain(t) \/ EndWriteAgain(t)
    PROVE  MREWInv'
<1>1. /\ MREWTypeOK /\ SignalsFit /\ ThreadsFit
      /\ pc[t] = "run" /\ pc' = pc
      /\ UNCHANGED <<sentinel, events, writerID, current, signal, overtaken>>
  BY DEF MREWInv, BeginReadAgain, EndReadAgain, BeginWriteAgain, EndWriteAgain
<1>2. /\ readerBusy \in Nat /\ readerWaiting \in Nat /\ writerWaiting \in Nat
      /\ reads \in [Thread -> 0..MaxDepth] /\ recursion \in 0..MaxDepth
  BY <1>1 DEF MREWTypeOK
<1>3. /\ reads' \in [Thread -> 0..MaxDepth]
      /\ \A u \in Thread \ {t} : reads'[u] = reads[u]
      /\ writerID = t \/ (reads[t] > 0 /\ reads'[t] > 0)
  BY <1>2 DEF BeginReadAgain, EndReadAgain, BeginWriteAgain, EndWriteAgain
<1>4. recursion' \in 0..MaxDepth /\ (recursion' = 0 <=> recursion = 0)
  BY <1>2, <1>1 DEF BeginReadAgain, EndReadAgain, BeginWriteAgain, EndWriteAgain, ThreadsFit
<1>5. LocalChange(t)
  BY <1>1, <1>3 DEF LocalChange, sentinel
<1>6. /\ t \in Reading' <=> t \in Reading
      /\ t \in Writing' <=> t \in Writing
      /\ t \in Blocked' <=> t \in Blocked
      /\ t \in Released' <=> t \in Released
      /\ t \in Held' <=> t \in Held
      /\ t \in Queued' <=> t \in Queued
      /\ t \in Handing' <=> t \in Handing
  BY <1>1, <1>3, Where, WhereNext
<1>7. Released' = Released
  BY <1>1 DEF Released, Blocked, sentinel
<1>8. SignalsFit'
  BY <1>1, <1>5, <1>7, LocalSignalsFit DEF sentinel, events
<1>9. ThreadsFit'
  BY <1>1, <1>3, <1>4, <1>5, LocalThreadsFit DEF ThreadsFit
<1>10. MREWTypeOK'
  BY <1>1, <1>3, <1>4 DEF MREWTypeOK, sentinel, events
<1>11. QED
  BY <1>1, <1>5, <1>6, <1>8, <1>9, <1>10, QuietInv DEF sentinel, events

LEMMA BeginWriteInv == ASSUME MREWInv, NEW t \in Thread, BeginWrite(t) PROVE MREWInv'
<1>1. /\ MREWTypeOK /\ SignalsFit /\ ThreadsFit
      /\ pc[t] = "run" /\ writerID # t
      /\ pc' = [pc EXCEPT ![t] = "enter"] /\ current' = current \cup {t}
      /\ UNCHANGED <<sentinel, events, writerID, recursion, reads, signal, overtaken>>
  BY DEF MREWInv, BeginWrite, Goto
<1>2. pc' \in [Thread -> Place] /\ pc'[t] = "enter" /\ \A u \in Thread \ {t} : pc'[u] = pc[u]
  BY <1>1 DEF MREWTypeOK, Place
<1>3. LocalChange(t)
  BY <1>1, <1>2 DEF LocalChange, sentinel
<1>4. /\ t \in Reading' <=> t \in Reading
      /\ t \in Writing' <=> t \in Writing
      /\ t \in Blocked' <=> t \in Blocked
      /\ t \in Released' <=> t \in Released
      /\ t \in Held' <=> t \in Held
      /\ t \in Queued' <=> t \in Queued
      /\ t \in Handing' <=> t \in Handing
  BY <1>1, <1>2, Where, WhereNext
<1>5. Released' = Released
  BY <1>3, <1>4, LocalSame
<1>6. SignalsFit'
  BY <1>1, <1>2, <1>3, <1>5, LocalSignalsFit DEF sentinel, events
<1>7. ThreadsFit'
  <2>1. \A u \in overtaken : u \in Thread /\ u # t /\ pc'[u] = pc[u]
    BY <1>1, <1>2 DEF MREWTypeOK, ThreadsFit
  <2>2. QED
    BY <1>1, <1>2, <2>1 DEF ThreadsFit
<1>8. MREWTypeOK'
  BY <1>1, <1>2 DEF MREWTypeOK, sentinel, events
<1>9. QED
  BY <1>1, <1>3, <1>4, <1>6, <1>7, <1>8, QuietInv DEF sentinel, events

\* The owner of the write lock notes that it is the owner, and forgets it.
LEMMA StampInv == ASSUME MREWInv, NEW t \in Thread, Stamp(t) PROVE MREWInv'
<1>1. /\ MREWTypeOK /\ SignalsFit /\ ThreadsFit
      /\ pc[t] = "stamp" /\ pc' = [pc EXCEPT ![t] = "run"]
      /\ writerID' = t /\ recursion' = recursion + 1 /\ current' = {}
      /\ overtaken' = (overtaken \cup Upgrading) \ {t}
      /\ UNCHANGED <<sentinel, events, reads, signal>>
  BY DEF MREWInv, Stamp, Goto, NewRevision
<1>2. pc' \in [Thread -> Place] /\ pc'[t] = "run" /\ \A u \in Thread \ {t} : pc'[u] = pc[u]
  BY <1>1 DEF MREWTypeOK, Place
<1>3. t \in Writing
  BY <1>1, Where
<1>4. writerID = None
  <2>1. ASSUME NEW u \in Thread, writerID = u PROVE FALSE
    <3>1. u \in Writing
      BY <2>1, Where
    <3>2. u = t
      BY <1>3, <3>1 DEF MREWInv, OneOwner
    <3>3. QED
      BY <1>1, <2>1, <3>2 DEF ThreadsFit
  <2>2. QED
    BY <1>1, <2>1 DEF MREWTypeOK
<1>5. recursion = 0 /\ recursion' = 1
  BY <1>1, <1>4 DEF ThreadsFit
<1>6. LocalChange(t)
  BY <1>1, <1>2, <1>4 DEF LocalChange, sentinel
<1>7. /\ t \notin Reading /\ t \notin Reading'
      /\ t \in Writing' <=> t \in Writing
      /\ t \in Blocked' <=> t \in Blocked
      /\ t \in Released' <=> t \in Released
      /\ t \in Held' <=> t \in Held
      /\ t \in Queued' <=> t \in Queued
      /\ t \in Handing' <=> t \in Handing
  BY <1>1, <1>2, Where, WhereNext
<1>8. Released' = Released
  BY <1>6, <1>7, LocalSame
<1>9. SignalsFit'
  BY <1>1, <1>2, <1>6, <1>8, LocalSignalsFit DEF sentinel, events
<1>10. ThreadsFit'
  <2>1. \A u \in Thread \ {t} : writerID' # u
    BY <1>1
  <2>2. \A u \in Thread :
          /\ writerID' = u => pc'[u] = "run"
          /\ pc'[u] = "waitRead" => reads'[u] > 0
          /\ pc'[u] = "setWrite" => reads'[u] = 0
    BY <1>1, <1>2, <2>1 DEF ThreadsFit
  <2>3. \A u \in overtaken' :
          u \notin current' /\ reads'[u] > 0 /\ pc'[u] \in {"waitWrite", "setWaitWrite", "stamp"}
    <3>1. \A u \in overtaken' : u \in Thread \ {t} /\ (u \in overtaken \/ u \in Upgrading)
      BY <1>1 DEF MREWTypeOK, Upgrading
    <3>2. QED
      BY <1>1, <1>2, <3>1 DEF ThreadsFit, Upgrading
  <2>4. QED
    BY <1>1, <1>5, <2>2, <2>3 DEF ThreadsFit
<1>11. MREWTypeOK'
  BY <1>1, <1>2, <1>5 DEF MREWTypeOK, sentinel, events, Upgrading
<1>12. QED
  BY <1>1, <1>6, <1>7, <1>9, <1>10, <1>11, QuietInv DEF sentinel, events

LEMMA EndWriteInv == ASSUME MREWInv, NEW t \in Thread, EndWrite(t) PROVE MREWInv'
<1>1. /\ MREWTypeOK /\ SignalsFit /\ ThreadsFit
      /\ pc[t] = "run" /\ pc' = [pc EXCEPT ![t] = "reset"]
      /\ writerID = t /\ writerID' = None /\ recursion' = 0
      /\ UNCHANGED <<sentinel, events, current, reads, signal, overtaken>>
  BY DEF MREWInv, EndWrite, Goto
<1>2. pc' \in [Thread -> Place] /\ pc'[t] = "reset" /\ \A u \in Thread \ {t} : pc'[u] = pc[u]
  BY <1>1 DEF MREWTypeOK, Place
<1>3. LocalChange(t)
  BY <1>1, <1>2 DEF LocalChange, sentinel
<1>4. /\ t \in Reading' <=> t \in Reading
      /\ t \in Writing' <=> t \in Writing
      /\ t \in Blocked' <=> t \in Blocked
      /\ t \in Released' <=> t \in Released
      /\ t \in Held' <=> t \in Held
      /\ t \in Queued' <=> t \in Queued
      /\ t \in Handing' <=> t \in Handing
  BY <1>1, <1>2, Where, WhereNext
<1>5. Released' = Released
  BY <1>3, <1>4, LocalSame
<1>6. SignalsFit'
  BY <1>1, <1>2, <1>3, <1>5, LocalSignalsFit DEF sentinel, events
<1>7. ThreadsFit'
  BY <1>1, <1>2, <1>3, LocalThreadsFit DEF ThreadsFit
<1>8. MREWTypeOK'
  BY <1>1, <1>2 DEF MREWTypeOK, sentinel, events
<1>9. QED
  BY <1>1, <1>3, <1>4, <1>6, <1>7, <1>8, QuietInv DEF sentinel, events

-----------------------------------------------------------------------------
(* The events. *)

LEMMA ResetSignalInv == ASSUME MREWInv, NEW t \in Thread, ResetSignal(t) PROVE MREWInv'
<1>1. /\ MREWTypeOK /\ SignalsFit /\ ThreadsFit
      /\ pc[t] = "reset" /\ pc' = [pc EXCEPT ![t] = "leave"]
      /\ readSignal' = [readSignal EXCEPT ![1 - odd] = FALSE]
      /\ UNCHANGED <<sentinel, writeSignal, writerID, recursion, current, reads, signal, overtaken>>
  BY DEF MREWInv, ResetSignal, Goto, Upcoming
<1>2. /\ pc' \in [Thread -> Place] /\ pc'[t] = "leave" /\ \A u \in Thread \ {t} : pc'[u] = pc[u]
      /\ odd \in {0, 1} /\ readSignal \in [{0, 1} -> BOOLEAN]
  BY <1>1 DEF MREWTypeOK, Place
<1>3. LocalChange(t)
  BY <1>1, <1>2 DEF LocalChange, sentinel
<1>4. /\ t \in Reading' <=> t \in Reading
      /\ t \in Writing' <=> t \in Writing
      /\ t \in Blocked' <=> t \in Blocked
      /\ t \in Released' <=> t \in Released
      /\ t \in Held' <=> t \in Held
      /\ t \in Queued' <=> t \in Queued
      /\ t \in Handing' <=> t \in Handing
  BY <1>1, <1>2, Where, WhereNext
<1>5. writerBusy
  BY <1>1, Where, Facts
<1>6. SignalsFit'
  <2>1. \A u \in Thread : pc'[u] # "setRead"
    BY <1>1, <1>2, <1>5 DEF SignalsFit
  <2>2. readSignal' \in [{0, 1} -> BOOLEAN] /\ ~readSignal'[1 - odd] /\ ~readSignal'[odd] /\ odd' = odd
    BY <1>1, <1>2 DEF SignalsFit, sentinel
  <2>3. QED
    BY <2>1, <2>2 DEF SignalsFit
<1>7. ThreadsFit'
  BY <1>1, <1>2, <1>3, LocalThreadsFit DEF ThreadsFit
<1>8. MREWTypeOK'
  BY <1>1, <1>2 DEF MREWTypeOK, sentinel
<1>9. QED
  BY <1>1, <1>3, <1>4, <1>6, <1>7, <1>8, QuietInv DEF sentinel

LEMMA SignalReadersInv == ASSUME MREWInv, NEW t \in Thread, SignalReaders(t) PROVE MREWInv'
<1>1. /\ MREWTypeOK /\ SignalsFit /\ ThreadsFit
      /\ pc[t] = "setRead" /\ pc' = [pc EXCEPT ![t] = "run"]
      /\ readSignal' = [readSignal EXCEPT ![signal[t]] = TRUE]
      /\ UNCHANGED <<sentinel, writeSignal, writerID, recursion, current, reads, signal, overtaken>>
  BY DEF MREWInv, SignalReaders, Goto
<1>2. /\ pc' \in [Thread -> Place] /\ pc'[t] = "run" /\ \A u \in Thread \ {t} : pc'[u] = pc[u]
      /\ odd \in {0, 1} /\ readSignal \in [{0, 1} -> BOOLEAN] /\ signal[t] \in {0, 1}
  BY <1>1 DEF MREWTypeOK, Place
<1>3. LocalChange(t)
  BY <1>1, <1>2 DEF LocalChange, sentinel
<1>4. /\ t \in Reading' <=> t \in Reading
      /\ t \in Writing' <=> t \in Writing
      /\ t \in Blocked' <=> t \in Blocked
      /\ t \in Released' <=> t \in Released
      /\ t \in Held' <=> t \in Held
      /\ t \in Queued' <=> t \in Queued
      /\ t \in Handing' <=> t \in Handing
  BY <1>1, <1>2, Where, WhereNext
<1>5. ~writerBusy /\ signal[t] # odd /\ \A u \in Thread \ {t} : pc[u] # "setRead"
  BY <1>1 DEF SignalsFit
<1>6. SignalsFit'
  <2>1. \A u \in Thread : pc[u] # "leave"
    BY <1>5, Where, Facts
  <2>2. \A u \in Thread : pc'[u] \notin {"setRead", "leave"}
    BY <1>2, <1>5, <2>1
  <2>3. ~readSignal'[odd] /\ odd' = odd
    BY <1>1, <1>2, <1>5 DEF SignalsFit, sentinel
  <2>4. QED
    BY <2>2, <2>3 DEF SignalsFit
<1>7. ThreadsFit'
  BY <1>1, <1>2, <1>3, LocalThreadsFit DEF ThreadsFit
<1>8. MREWTypeOK'
  BY <1>1, <1>2 DEF MREWTypeOK, sentinel
<1>9. QED
  BY <1>1, <1>3, <1>4, <1>6, <1>7, <1>8, QuietInv DEF sentinel

LEMMA SignalWriterInv == ASSUME MREWInv, NEW t \in Thread, SignalWriter(t) PROVE MREWInv'
<1>1. /\ MREWTypeOK /\ OneOwner /\ FieldsCount /\ Apart /\ SignalsFit /\ ThreadsFit
      /\ \/ pc[t] = "setWrite" /\ pc' = [pc EXCEPT ![t] = "run"]
         \/ pc[t] = "setWaitWrite" /\ pc' = [pc EXCEPT ![t] = "waitWrite"]
      /\ writeSignal' = TRUE
      /\ UNCHANGED <<sentinel, readSignal, writerID, recursion, current, reads, signal, overtaken>>
  BY DEF MREWInv, SignalWriter, Goto
<1>2. /\ pc' \in [Thread -> Place] /\ \A u \in Thread \ {t} : pc'[u] = pc[u]
      /\ \/ pc[t] = "setWrite" /\ pc'[t] = "run" /\ reads[t] = 0
         \/ pc[t] = "setWaitWrite" /\ pc'[t] = "waitWrite"
      /\ writerID # t
  BY <1>1 DEF MREWTypeOK, Place, ThreadsFit
<1>3. LocalChange(t)
  BY <1>1, <1>2 DEF LocalChange, sentinel
<1>4. /\ t \in Reading' <=> t \in Reading
      /\ t \in Writing' <=> t \in Writing
      /\ t \in Blocked' <=> t \in Blocked
      /\ t \in Released' <=> t \in Released
      /\ t \in Held' <=> t \in Held
      /\ t \in Queued' <=> t \in Queued
      /\ t \in Handing /\ t \notin Handing'
  BY <1>1, <1>2, Where, WhereNext
<1>5. /\ Reading' = Reading /\ Writing' = Writing /\ Blocked' = Blocked /\ Released' = Released
      /\ Held' = Held /\ Queued' = Queued /\ Handing' = Handing \ {t}
  BY <1>3, <1>4, LocalSame, LocalMoves
<1>6. Handing = {t}
  BY <1>1, <1>4 DEF OneOwner
<1>7. InHand /\ InHand' /\ Handing' = {}
  BY <1>1, <1>5, <1>6 DEF InHand
<1>8. OneOwner'
  BY <1>1, <1>5, <1>7 DEF OneOwner, sentinel
<1>9. FieldsCount'
  BY <1>1, <1>5, <1>7 DEF FieldsCount, sentinel
<1>10. Apart'
  BY <1>1, <1>5 DEF Apart, sentinel
<1>11. SignalsFit'
  BY <1>1, <1>2, <1>3, <1>5, LocalSignalsFit DEF sentinel
<1>12. ThreadsFit'
  BY <1>1, <1>2, <1>3, LocalThreadsFit DEF ThreadsFit
<1>13. MREWTypeOK'
  BY <1>1, <1>2 DEF MREWTypeOK, sentinel
<1>14. QED
  BY <1>8, <1>9, <1>10, <1>11, <1>12, <1>13 DEF MREWInv

LEMMA WakeReaderInv == ASSUME MREWInv, NEW t \in Thread, WakeReader(t) PROVE MREWInv'
<1>1. /\ MREWTypeOK /\ OneOwner /\ FieldsCount /\ Apart /\ SignalsFit /\ ThreadsFit
      /\ pc[t] = "waitRead" /\ pc' = [pc EXCEPT ![t] = "run"] /\ readSignal[signal[t]]
      /\ UNCHANGED <<sentinel, events, writerID, recursion, current, reads, signal, overtaken>>
  BY DEF MREWInv, WakeReader, Goto
<1>2. /\ pc' \in [Thread -> Place] /\ pc'[t] = "run" /\ \A u \in Thread \ {t} : pc'[u] = pc[u]
      /\ writerID # t /\ reads[t] > 0 /\ signal[t] \in {0, 1} /\ odd \in {0, 1}
  BY <1>1 DEF MREWTypeOK, Place, ThreadsFit
<1>3. signal[t] # odd /\ signal[t] = 1 - odd
  BY <1>1, <1>2 DEF SignalsFit
<1>4. LocalChange(t)
  BY <1>1, <1>2 DEF LocalChange, sentinel
<1>5. /\ t \notin Reading /\ t \in Reading'
      /\ t \notin Writing /\ t \notin Writing'
      /\ t \in Blocked /\ t \notin Blocked'
      /\ t \in Released /\ t \notin Released'
      /\ t \notin Held /\ t \notin Held'
      /\ t \notin Queued /\ t \notin Queued'
      /\ t \notin Handing /\ t \notin Handing'
  BY <1>1, <1>2, <1>3, Where, WhereNext
<1>6. Writing' = Writing /\ Held' = Held /\ Queued' = Queued /\ Handing' = Handing
  BY <1>4, <1>5, LocalSame
<1>7. /\ Cardinality(Reading') = Cardinality(Reading) + 1
      /\ Cardinality(Released') = Cardinality(Released) - 1
  BY <1>4, <1>5, LocalSizes, Facts DEF One
<1>8. ~writerBusy
  BY <1>5, Facts
<1>9. InHand' <=> InHand
  BY <1>1, <1>6 DEF InHand, events
<1>10. OneOwner'
  BY <1>1, <1>6, <1>9 DEF OneOwner, sentinel, events
<1>11. FieldsCount'
  BY <1>1, <1>6, <1>7, <1>8, <1>9, Facts DEF FieldsCount, sentinel
<1>12. Apart'
  BY <1>1, <1>8 DEF Apart, sentinel
<1>13. SignalsFit'
  <2>1. \A u \in Thread : pc[u] # "setRead"
    BY <1>1, <1>3 DEF SignalsFit
  <2>2. \A u \in Thread : pc'[u] # "setRead" /\ (pc'[u] = "leave" => pc[u] = "leave")
    BY <1>2, <2>1
  <2>3. QED
    BY <1>1, <2>2 DEF SignalsFit, sentinel, events
<1>14. ThreadsFit'
  BY <1>1, <1>2, <1>4, LocalThreadsFit DEF ThreadsFit
<1>15. MREWTypeOK'
  BY <1>1, <1>2 DEF MREWTypeOK, sentinel, events
<1>16. QED
  BY <1>10, <1>11, <1>12, <1>13, <1>14, <1>15 DEF MREWInv

LEMMA WakeWriterInv == ASSUME MREWInv, NEW t \in Thread, WakeWriter(t) PROVE MREWInv'
<1>1. /\ MREWTypeOK /\ OneOwner /\ FieldsCount /\ Apart /\ SignalsFit /\ ThreadsFit
      /\ pc[t] = "waitWrite" /\ pc' = [pc EXCEPT ![t] = "stamp"] /\ writeSignal /\ writeSignal' = FALSE
      /\ UNCHANGED <<sentinel, readSignal, writerID, recursion, current, reads, signal, overtaken>>
  BY DEF MREWInv, WakeWriter, Goto
<1>2. /\ pc' \in [Thread -> Place] /\ pc'[t] = "stamp" /\ \A u \in Thread \ {t} : pc'[u] = pc[u]
      /\ writerID # t
  BY <1>1 DEF MREWTypeOK, Place, ThreadsFit
<1>3. LocalChange(t)
  BY <1>1, <1>2 DEF LocalChange, sentinel
<1>4. /\ t \notin Reading /\ t \notin Reading'
      /\ t \notin Writing /\ t \in Writing'
      /\ t \notin Blocked /\ t \notin Blocked'
      /\ t \notin Released /\ t \notin Released'
      /\ t \notin Held /\ t \notin Held'
      /\ t \in Queued /\ t \notin Queued'
      /\ t \notin Handing /\ t \notin Handing'
  BY <1>1, <1>2, Where, WhereNext
<1>5. /\ Reading' = Reading /\ Blocked' = Blocked /\ Released' = Released
      /\ Held' = Held /\ Handing' = Handing
  BY <1>3, <1>4, LocalSame
<1>6. Writing' = Writing \cup {t} /\ Cardinality(Queued') = Cardinality(Queued) - 1
  BY <1>3, <1>4, LocalMoves, LocalSizes, Facts DEF One
<1>7. InHand /\ Handing = {} /\ Writing = {} /\ writerBusy
  BY <1>1 DEF OneOwner, InHand
<1>8. ~InHand' /\ Writing' = {t}
  BY <1>1, <1>5, <1>6, <1>7 DEF InHand
<1>9. OneOwner'
  BY <1>1, <1>5, <1>7, <1>8 DEF OneOwner, sentinel
<1>10. FieldsCount'
  BY <1>1, <1>5, <1>6, <1>7, <1>8, Facts DEF FieldsCount, sentinel
<1>11. Apart'
  BY <1>1, <1>5 DEF Apart, sentinel
<1>12. SignalsFit'
  BY <1>1, <1>2, <1>3, <1>5, LocalSignalsFit DEF sentinel
<1>13. ThreadsFit'
  BY <1>1, <1>2, <1>3, LocalThreadsFit DEF ThreadsFit
<1>14. MREWTypeOK'
  BY <1>1, <1>2 DEF MREWTypeOK, sentinel
<1>15. QED
  BY <1>9, <1>10, <1>11, <1>12, <1>13, <1>14 DEF MREWInv

-----------------------------------------------------------------------------
(* The compare-and-exchange of BeginRead, BeginWrite and EndWrite. *)

LEMMA BeginReadInv == ASSUME MREWInv, NEW t \in Thread, BeginRead(t) PROVE MREWInv'
<1>1. /\ MREWTypeOK /\ OneOwner /\ FieldsCount /\ Apart /\ SignalsFit /\ ThreadsFit
      /\ pc[t] = "run" /\ reads[t] = 0 /\ writerID # t
      /\ reads' = [reads EXCEPT ![t] = 1]
      /\ UNCHANGED <<odd, events, writerID, recursion, current, overtaken, writerWaiting, writerBusy>>
  BY DEF MREWInv, BeginRead, Sentinel
<1>2. /\ reads' \in [Thread -> 0..MaxDepth] /\ reads'[t] = 1
      /\ \A u \in Thread \ {t} : reads'[u] = reads[u]
      /\ writerBusy \in BOOLEAN
  BY <1>1 DEF MREWTypeOK
<1>3. /\ t \notin Reading /\ t \notin Writing /\ t \notin Blocked /\ t \notin Released /\ t \notin Held
      /\ t \notin Queued /\ t \notin Handing
  BY <1>1, Where
<1>4. CASE FreeToRead
  <2>1. /\ readerBusy' = readerBusy + 1 /\ UNCHANGED <<readerWaiting, pc, signal>>
        /\ ~writerBusy /\ writerWaiting = 0
    BY <1>4 DEF BeginRead, FreeToRead, Sentinel
  <2>2. LocalChange(t)
    BY <1>1, <1>2, <2>1 DEF LocalChange
  <2>3. /\ t \in Reading' /\ t \notin Writing' /\ t \notin Blocked' /\ t \notin Released' /\ t \notin Held'
        /\ t \notin Queued' /\ t \notin Handing'
    BY <1>1, <1>2, <2>1, WhereNext
  <2>4. /\ Writing' = Writing /\ Blocked' = Blocked /\ Released' = Released /\ Held' = Held
        /\ Queued' = Queued /\ Handing' = Handing
    BY <1>3, <2>2, <2>3, LocalSame
  <2>5. Cardinality(Reading') = Cardinality(Reading) + 1
    BY <1>3, <2>2, <2>3, LocalSizes, Facts DEF One
  <2>6. InHand' <=> InHand
    BY <1>1, <2>4 DEF InHand, events
  <2>7. OneOwner'
    BY <1>1, <2>4, <2>6 DEF OneOwner, events
  <2>8. FieldsCount'
    BY <1>1, <2>1, <2>4, <2>5, <2>6, Facts DEF FieldsCount
  <2>9. Apart'
    BY <1>1, <2>1, <2>4, Facts DEF Apart
  <2>10. SignalsFit'
    BY <1>1, <2>1, <2>2, <2>4, LocalSignalsFit DEF events
  <2>11. ThreadsFit'
    BY <1>1, <1>2, <2>1, <2>2, LocalThreadsFit DEF ThreadsFit
  <2>12. MREWTypeOK'
    BY <1>1, <1>2, <2>1 DEF MREWTypeOK, events
  <2>13. QED
    BY <2>7, <2>8, <2>9, <2>10, <2>11, <2>12 DEF MREWInv
<1>5. CASE ~FreeToRead
  <2>1. /\ pc' = [pc EXCEPT ![t] = "waitRead"] /\ signal' = [signal EXCEPT ![t] = odd]
        /\ \/ writerBusy /\ readerBusy' = readerBusy + 1 /\ readerWaiting' = readerWaiting
           \/ ~writerBusy /\ readerBusy' = readerBusy /\ readerWaiting' = readerWaiting + 1 /\ writerWaiting > 0
    BY <1>1, <1>2, <1>5, Facts DEF BeginRead, FreeToRead, Sentinel, Goto
  <2>2. /\ pc' \in [Thread -> Place] /\ pc'[t] = "waitRead" /\ \A u \in Thread \ {t} : pc'[u] = pc[u]
        /\ signal' \in [Thread -> {0, 1}] /\ signal'[t] = odd /\ \A u \in Thread \ {t} : signal'[u] = signal[u]
    BY <1>1, <2>1 DEF MREWTypeOK, Place
  <2>3. LocalChange(t)
    BY <1>1, <1>2, <2>2 DEF LocalChange
  <2>4. /\ t \notin Reading' /\ t \notin Writing' /\ t \in Blocked' /\ t \notin Released' /\ t \in Held'
        /\ t \notin Queued' /\ t \notin Handing'
    BY <1>1, <1>2, <2>2, WhereNext
  <2>5. /\ Reading' = Reading /\ Writing' = Writing /\ Released' = Released
        /\ Queued' = Queued /\ Handing' = Handing
    BY <1>3, <2>3, <2>4, LocalSame
  <2>6. /\ Cardinality(Blocked') = Cardinality(Blocked) + 1
        /\ Cardinality(Held') = Cardinality(Held) + 1
    BY <1>3, <2>3, <2>4, LocalSizes, Facts DEF One
  <2>7. InHand' <=> InHand
    BY <1>1, <2>5 DEF InHand, events
  <2>8. OneOwner'
    BY <1>1, <2>5, <2>7 DEF OneOwner, events
  <2>9. FieldsCount'
    BY <1>1, <2>1, <2>5, <2>6, <2>7, Facts DEF FieldsCount
  <2>10. Apart'
    BY <1>1, <2>1, <2>5 DEF Apart
  <2>11. SignalsFit'
    BY <1>1, <2>2, <2>3, <2>5, LocalSignalsFit DEF events
  <2>12. ThreadsFit'
    BY <1>1, <1>2, <2>2, <2>3, LocalThreadsFit DEF ThreadsFit
  <2>13. MREWTypeOK'
    BY <1>1, <1>2, <2>1, <2>2, Facts DEF MREWTypeOK, events
  <2>14. QED
    BY <2>8, <2>9, <2>10, <2>11, <2>12, <2>13 DEF MREWInv
<1>6. QED
  BY <1>4, <1>5

\* A thread takes the write lock at once: the only reader, or nobody, is there.
LEMMA TakeInv ==
    ASSUME MREWInv, NEW t \in Thread, pc[t] \in {"run", "enter"}, writerID # t,
           ~writerBusy, writerWaiting = 0,
           (reads[t] > 0 /\ readerBusy = 1) \/ (reads[t] = 0 /\ readerBusy = 0),
           readerBusy' = 0, UNCHANGED <<readerWaiting, writerWaiting>>, writerBusy' = TRUE,
           Goto(t, "stamp"),
           UNCHANGED <<odd, events, writerID, recursion, current, reads, signal, overtaken>>
    PROVE  MREWInv'
<1>1. /\ MREWTypeOK /\ OneOwner /\ FieldsCount /\ Apart /\ SignalsFit /\ ThreadsFit
  BY DEF MREWInv
<1>2. /\ pc' \in [Thread -> Place] /\ pc'[t] = "stamp" /\ \A u \in Thread \ {t} : pc'[u] = pc[u]
  BY <1>1 DEF MREWTypeOK, Place, Goto
<1>3. LocalChange(t)
  BY <1>2 DEF LocalChange
<1>4. /\ t \in Reading <=> reads[t] > 0
      /\ t \notin Writing /\ t \notin Blocked /\ t \notin Released /\ t \notin Held
      /\ t \notin Queued /\ t \notin Handing
  BY Where
<1>5. /\ t \notin Reading' /\ t \in Writing' /\ t \notin Blocked' /\ t \notin Released' /\ t \notin Held'
      /\ t \notin Queued' /\ t \notin Handing'
  BY <1>2, WhereNext
<1>6. /\ Blocked' = Blocked /\ Released' = Released /\ Held' = Held
      /\ Queued' = Queued /\ Handing' = Handing
  BY <1>3, <1>4, <1>5, LocalSame
<1>7. Writing' = Writing \cup {t} /\ Reading' = Reading \ {t}
  BY <1>3, <1>5, LocalMoves
<1>8. Reading \subseteq {t} /\ Released = {} /\ Held = {} /\ Blocked = {} /\ readerWaiting = 0
  BY <1>4, Facts
<1>9. Writing = {} /\ ~InHand
  BY <1>1 DEF OneOwner
<1>10. Writing' = {t} /\ Reading' = {} /\ ~InHand'
  BY <1>6, <1>7, <1>8, <1>9 DEF InHand, events
<1>11. OneOwner'
  BY <1>1, <1>6, <1>9, <1>10 DEF OneOwner, events
<1>12. FieldsCount'
  <2>1. Cardinality({}) = 0
    BY FS_EmptySet
  <2>2. QED
    BY <1>1, <1>6, <1>8, <1>9, <1>10, <2>1 DEF FieldsCount
<1>13. Apart'
  BY <1>6, <1>8, <1>10 DEF Apart
<1>14. SignalsFit'
  <2>1. \A u \in Thread : pc[u] # "setRead"
    BY <1>4, <1>8, Where DEF MREWInv, SignalsFit
  <2>2. QED
    BY <1>1, <1>2, <1>3, <1>6, <2>1, LocalSignalsFit DEF events
<1>15. ThreadsFit'
  BY <1>1, <1>2, <1>3, LocalThreadsFit DEF ThreadsFit
<1>16. MREWTypeOK'
  BY <1>1, <1>2 DEF MREWTypeOK, events
<1>17. QED
  BY <1>11, <1>12, <1>13, <1>14, <1>15, <1>16 DEF MREWInv

LEMMA TryBeginWriteInv == ASSUME MREWInv, NEW t \in Thread, TryBeginWrite(t) PROVE MREWInv'
<1>1. reads[t] \in Nat /\ readerBusy \in Nat
  BY DEF MREWInv, MREWTypeOK
<1>2. CASE reads[t] > 0
  <2>1. t \in Reading
    BY <1>2, Where DEF TryBeginWrite
  <2>2. ~writerBusy
    BY <2>1, Facts
  <2>3. /\ pc[t] = "run" /\ writerID # t /\ readerBusy = 1 /\ writerWaiting = 0
        /\ readerBusy' = 0 /\ UNCHANGED <<readerWaiting, writerWaiting>> /\ writerBusy' = TRUE
        /\ Goto(t, "stamp")
        /\ UNCHANGED <<odd, events, writerID, recursion, current, reads, signal, overtaken>>
    BY <1>1, <1>2 DEF TryBeginWrite, Sentinel
  <2>4. QED
    BY <1>2, <2>2, <2>3, TakeInv
<1>3. CASE reads[t] = 0
  BY <1>1, <1>3, TakeInv DEF TryBeginWrite, Sentinel, NobodyElse
<1>4. QED
  BY <1>1, <1>2, <1>3

\* A thread joins the queue of writers, giving up its read lock if it has one.
LEMMA QueueInv ==
    ASSUME MREWInv, NEW t \in Thread, pc[t] = "enter",
           writerBusy \/ readerBusy - One(t \in Reading) > 0 \/ writerWaiting > 0,
           t \in Reading => readerBusy > 1,
           readerBusy' = readerBusy - One(t \in Reading), UNCHANGED <<readerWaiting, writerBusy>>,
           writerWaiting' = writerWaiting + 1,
           Goto(t, "waitWrite"),
           UNCHANGED <<odd, events, writerID, recursion, current, reads, signal, overtaken>>
    PROVE  MREWInv'
<1>1. /\ MREWTypeOK /\ OneOwner /\ FieldsCount /\ Apart /\ SignalsFit /\ ThreadsFit
  BY DEF MREWInv
<1>2. /\ pc' \in [Thread -> Place] /\ pc'[t] = "waitWrite" /\ \A u \in Thread \ {t} : pc'[u] = pc[u]
      /\ writerID # t
  BY <1>1 DEF MREWTypeOK, Place, Goto, ThreadsFit
<1>3. LocalChange(t)
  BY <1>2 DEF LocalChange
<1>4. /\ t \notin Writing /\ t \notin Blocked /\ t \notin Released /\ t \notin Held
      /\ t \notin Queued /\ t \notin Handing
  BY <1>2, Where
<1>5. /\ t \notin Reading' /\ t \notin Writing' /\ t \notin Blocked' /\ t \notin Released' /\ t \notin Held'
      /\ t \in Queued' /\ t \notin Handing'
  BY <1>2, WhereNext
<1>6. /\ Writing' = Writing /\ Blocked' = Blocked /\ Released' = Released /\ Held' = Held
      /\ Handing' = Handing
  BY <1>3, <1>4, <1>5, LocalSame
<1>7. Reading' = Reading \ {t}
  BY <1>3, <1>5, LocalMoves
<1>8. /\ Cardinality(Reading') = Cardinality(Reading) - One(t \in Reading)
      /\ Cardinality(Queued') = Cardinality(Queued) + 1
  BY <1>3, <1>4, <1>5, LocalSizes, Facts DEF One
<1>9. InHand' <=> InHand
  BY <1>6 DEF InHand, events
<1>10. OneOwner'
  BY <1>1, <1>6, <1>9 DEF OneOwner, events
<1>11. t \in Reading => ~writerBusy
  BY Facts
<1>12. FieldsCount'
  BY <1>1, <1>6, <1>8, <1>9, Facts DEF FieldsCount, One
<1>13. Apart'
  BY <1>1, <1>6, <1>7, Facts DEF Apart, One
<1>14. SignalsFit'
  BY <1>1, <1>2, <1>3, <1>6, LocalSignalsFit DEF events
<1>15. ThreadsFit'
  BY <1>1, <1>2, <1>3, LocalThreadsFit DEF ThreadsFit
<1>16. MREWTypeOK'
  BY <1>1, <1>2, <1>11, Facts DEF MREWTypeOK, events, One
<1>17. QED
  BY <1>10, <1>12, <1>13, <1>14, <1>15, <1>16 DEF MREWInv

LEMMA GainLockInv == ASSUME MREWInv, NEW t \in Thread, GainLock(t) PROVE MREWInv'
<1>1. /\ pc[t] = "enter" /\ writerID # t /\ reads[t] = 0
      /\ readerBusy \in Nat /\ writerWaiting \in Nat
  BY DEF GainLock, MREWInv, ThreadsFit, MREWTypeOK
<1>2. t \notin Reading
  BY <1>1, Where
<1>3. CASE NobodyElse
  BY <1>1, <1>3, TakeInv DEF GainLock, NobodyElse, Sentinel
<1>4. CASE ~NobodyElse
  BY <1>1, <1>2, <1>4, QueueInv DEF GainLock, NobodyElse, Sentinel, One
<1>5. QED
  BY <1>3, <1>4

\* The last reader joins the queue behind a writer, and hands the lock over.
LEMMA PassOnInv ==
    ASSUME MREWInv, NEW t \in Reading, pc[t] = "enter", readerBusy = 1, writerWaiting > 0,
           readerBusy' = readerWaiting, readerWaiting' = 0, UNCHANGED writerWaiting, writerBusy' = TRUE,
           Goto(t, "setWaitWrite"),
           UNCHANGED <<odd, events, writerID, recursion, current, reads, signal, overtaken>>
    PROVE  MREWInv'
<1>1. /\ MREWTypeOK /\ OneOwner /\ FieldsCount /\ Apart /\ SignalsFit /\ ThreadsFit
      /\ t \in Thread
  BY DEF MREWInv, Reading
<1>2. /\ pc' \in [Thread -> Place] /\ pc'[t] = "setWaitWrite" /\ \A u \in Thread \ {t} : pc'[u] = pc[u]
      /\ writerID # t
  BY <1>1 DEF MREWTypeOK, Place, Goto, ThreadsFit
<1>3. LocalChange(t)
  BY <1>2 DEF LocalChange
<1>4. /\ t \notin Writing /\ t \notin Blocked /\ t \notin Released /\ t \notin Held
      /\ t \notin Queued /\ t \notin Handing
  BY <1>1, <1>2, Where
<1>5. /\ t \notin Reading' /\ t \notin Writing' /\ t \notin Blocked' /\ t \notin Released' /\ t \notin Held'
      /\ t \in Queued' /\ t \in Handing'
  BY <1>1, <1>2, WhereNext
<1>6. Writing' = Writing /\ Blocked' = Blocked /\ Released' = Released /\ Held' = Held
  BY <1>1, <1>3, <1>4, <1>5, LocalSame
<1>7. Reading' = Reading \ {t} /\ Handing' = Handing \cup {t}
  BY <1>1, <1>3, <1>5, LocalMoves
<1>8. Cardinality(Queued') = Cardinality(Queued) + 1
  BY <1>1, <1>3, <1>4, <1>5, LocalSizes, Facts DEF One
<1>9. ~writerBusy /\ Reading = {t} /\ Released = {} /\ Held = Blocked
  BY Facts
<1>10. Writing = {} /\ ~InHand
  BY <1>1, <1>9 DEF OneOwner
<1>11. Handing' = {t} /\ ~writeSignal' /\ InHand' /\ Reading' = {}
  BY <1>7, <1>9, <1>10 DEF InHand, events
<1>12. OneOwner'
  BY <1>6, <1>10, <1>11 DEF OneOwner
<1>13. FieldsCount'
  <2>1. Cardinality({}) = 0
    BY FS_EmptySet
  <2>2. readerWaiting = Cardinality(Blocked) /\ Cardinality(Queued) = writerWaiting
    BY <1>1, <1>9, <1>10, Facts DEF FieldsCount
  <2>3. QED
    BY <1>6, <1>8, <1>11, <2>1, <2>2, Facts DEF FieldsCount
<1>14. Apart'
  BY <1>6, <1>9, <1>11 DEF Apart
<1>15. SignalsFit'
  BY <1>1, <1>2, <1>3, <1>6, NobodyLetsIn, LocalSignalsFit DEF events
<1>16. ThreadsFit'
  <2>1. t \in overtaken => reads'[t] > 0 /\ pc'[t] \in {"waitWrite", "setWaitWrite", "stamp"}
    BY <1>1 DEF ThreadsFit
  <2>2. QED
    BY <1>1, <1>2, <1>3, <2>1, LocalThreadsFit DEF ThreadsFit
<1>17. MREWTypeOK'
  BY <1>1, <1>2 DEF MREWTypeOK, events
<1>18. QED
  BY <1>12, <1>13, <1>14, <1>15, <1>16, <1>17 DEF MREWInv

LEMMA UpgradeLockInv == ASSUME MREWInv, NEW t \in Thread, UpgradeLock(t) PROVE MREWInv'
<1>1. /\ pc[t] = "enter" /\ reads[t] > 0 /\ writerID # t
      /\ readerBusy \in Nat /\ readerWaiting \in Nat /\ writerWaiting \in Nat
      /\ UNCHANGED <<odd, events, writerID, recursion, current, reads, signal, overtaken>>
  BY DEF UpgradeLock, MREWInv, ThreadsFit, MREWTypeOK
<1>2. t \in Reading
  BY <1>1, Where
<1>3. ~writerBusy /\ readerBusy >= 1
  BY <1>2, Facts
<1>4. CASE readerBusy > 1
  <2>1. /\ readerBusy' = readerBusy - 1 /\ UNCHANGED <<readerWaiting, writerBusy>>
        /\ writerWaiting' = writerWaiting + 1 /\ Goto(t, "waitWrite")
    BY <1>4 DEF UpgradeLock, Sentinel
  <2>2. QED
    BY <1>1, <1>2, <1>4, <2>1, QueueInv DEF One
<1>5. CASE ~(readerBusy > 1) /\ writerWaiting > 0
  <2>1. /\ readerBusy' = readerWaiting /\ readerWaiting' = 0 /\ UNCHANGED writerWaiting
        /\ writerBusy' = TRUE /\ Goto(t, "setWaitWrite") /\ readerBusy = 1
    BY <1>1, <1>3, <1>5 DEF UpgradeLock, Sentinel
  <2>2. QED
    BY <1>1, <1>2, <1>5, <2>1, PassOnInv
<1>6. CASE ~(readerBusy > 1) /\ writerWaiting = 0
  <2>1. /\ readerBusy' = 0 /\ UNCHANGED <<readerWaiting, writerWaiting>>
        /\ writerBusy' = TRUE /\ Goto(t, "stamp") /\ readerBusy = 1
    BY <1>1, <1>3, <1>6 DEF UpgradeLock, Sentinel
  <2>2. QED
    BY <1>1, <1>3, <1>6, <2>1, TakeInv
<1>7. QED
  BY <1>1, <1>4, <1>5, <1>6

\* The end of the write lock exchanges the read signals: whoever was held back
\* is released.
LEMMA LeaveWriteInv == ASSUME MREWInv, NEW t \in Thread, LeaveWrite(t) PROVE MREWInv'
<1>1. /\ MREWTypeOK /\ OneOwner /\ FieldsCount /\ Apart /\ SignalsFit /\ ThreadsFit
      /\ pc[t] = "leave" /\ odd' = 1 - odd /\ signal' = [signal EXCEPT ![t] = odd]
      /\ UNCHANGED <<events, writerID, recursion, current, reads, overtaken>>
  BY DEF MREWInv, LeaveWrite
<1>2. /\ odd \in {0, 1} /\ odd' \in {0, 1} /\ odd # odd'
      /\ signal' \in [Thread -> {0, 1}] /\ signal'[t] = odd
      /\ \A u \in Thread \ {t} : signal'[u] = signal[u]
      /\ reads[t] \in Nat /\ readerBusy \in Nat /\ readerWaiting \in Nat /\ writerWaiting \in Nat
      /\ writerID # t
  BY <1>1 DEF MREWTypeOK, ThreadsFit
<1>3. /\ t \in Writing /\ writerBusy /\ Writing = {t} /\ ~InHand
      /\ Reading = {} /\ Released = {} /\ Held = Blocked
      /\ Handing = {} /\ ~writeSignal
  BY <1>1, Where, Facts DEF InHand
<1>4. /\ \A u \in Thread : pc[u] # "setRead"
      /\ \A u \in Thread \ {t} : pc[u] # "leave"
  BY <1>1, <1>3, Where DEF SignalsFit
<1>5. ~readSignal[odd] /\ ~readSignal[odd']
  BY <1>1 DEF SignalsFit
<1>6. /\ readerBusy = Cardinality(Blocked) /\ readerWaiting = 0
      /\ Cardinality(Queued) = writerWaiting /\ Cardinality(Blocked) \in Nat
  BY <1>1, <1>3, Facts, FS_EmptySet DEF FieldsCount
<1>7. PICK p \in {"setRead", "setWrite", "run"} : Goto(t, p)
  BY DEF LeaveWrite
<1>8. pc' \in [Thread -> Place] /\ pc'[t] = p /\ \A u \in Thread \ {t} : pc'[u] = pc[u]
  BY <1>1, <1>7 DEF MREWTypeOK, Place, Goto
<1>9. Blocked' = Blocked /\ Queued' = Queued
  BY <1>1, <1>8 DEF Blocked, Queued
<1>10. Released' = Blocked /\ Held' = {}
  <2>1. \A u \in Blocked : u # t /\ signal[u] = odd
    BY <1>1, <1>3 DEF Held, Blocked
  <2>2. \A u \in Blocked : signal'[u] # odd' /\ u \in Thread
    BY <1>2, <2>1 DEF Blocked
  <2>3. QED
    BY <1>9, <2>2 DEF Released, Held
<1>11. Writing' = {}
  <2>1. \A u \in Thread \ {t} : u \notin Writing
    BY <1>3
  <2>2. QED
    BY <1>1, <1>2, <1>8, <2>1 DEF Writing
<1>12. Reading' = IF reads[t] > 0 /\ p \in {"run", "setRead"} THEN {t} ELSE {}
  <2>1. \A u \in Thread \ {t} : u \notin Reading
    BY <1>3
  <2>2. QED
    BY <1>1, <1>2, <1>8, <2>1 DEF Reading
<1>13. Handing' = IF p = "setWrite" THEN {t} ELSE {}
  <2>1. \A u \in Thread \ {t} : u \notin Handing
    BY <1>3
  <2>2. QED
    BY <1>8, <2>1 DEF Handing
<1>14. InHand' <=> p = "setWrite"
  BY <1>1, <1>3, <1>13 DEF InHand, events
<1>15. Cardinality({}) = 0 /\ Cardinality({t}) = 1
  BY FS_EmptySet, FS_Singleton
<1>16. ThreadsFit'
  <2>1. \A u \in Thread : /\ writerID' = u => pc'[u] = "run"
                          /\ pc'[u] = "waitRead" => reads'[u] > 0
    BY <1>1, <1>2, <1>8 DEF ThreadsFit
  <2>2. p = "setWrite" => reads[t] = 0
    BY <1>7, <1>1, <1>2, <1>8 DEF LeaveWrite, Goto
  <2>3. \A u \in Thread : pc'[u] = "setWrite" => reads'[u] = 0
    BY <1>1, <1>8, <2>2 DEF ThreadsFit
  <2>4. \A u \in overtaken : u \in Thread /\ u # t
    BY <1>1 DEF MREWTypeOK, ThreadsFit
  <2>5. QED
    BY <1>1, <1>8, <2>1, <2>3, <2>4 DEF ThreadsFit
<1>17. CASE reads[t] > 0
  <2>1. readerBusy' = readerBusy + 1 /\ UNCHANGED <<readerWaiting, writerWaiting>> /\ writerBusy' = FALSE
    BY <1>17 DEF LeaveWrite, Sentinel
  <2>2. p = "setRead"
    <3>1. Goto(t, "setRead")
      BY <1>17 DEF LeaveWrite, Sentinel
    <3>2. pc'[t] = "setRead"
      BY <1>1, <3>1 DEF Goto, MREWTypeOK
    <3>3. QED
      BY <1>8, <3>2
  <2>3. Reading' = {t} /\ ~InHand' /\ Handing' = {}
    BY <1>12, <1>13, <1>14, <1>17, <2>2
  <2>4. OneOwner'
    BY <1>1, <1>3, <1>11, <2>1, <2>3 DEF OneOwner, events
  <2>5. FieldsCount'
    <3>1. Cardinality(Reading') = 1 /\ Cardinality(Released') = readerBusy /\ Cardinality(Held') = 0
      BY <1>6, <1>10, <1>15, <2>3
    <3>2. Cardinality(Queued') = writerWaiting
      BY <1>6, <1>9
    <3>3. QED
      BY <1>2, <1>6, <2>1, <2>3, <3>1, <3>2 DEF FieldsCount
  <2>6. Apart'
    BY <1>2, <1>6, <2>1 DEF Apart
  <2>7. SignalsFit'
    BY <1>1, <1>2, <1>4, <1>5, <1>8, <2>1, <2>2, <2>3 DEF SignalsFit, events
  <2>8. MREWTypeOK'
    <3>1. readerBusy' \in Nat /\ readerWaiting' \in Nat /\ writerWaiting' \in Nat /\ writerBusy' = FALSE
      BY <1>2, <2>1
    <3>2. QED
      BY <1>1, <1>2, <1>8, <3>1 DEF MREWTypeOK, events
  <2>9. QED
    BY <1>16, <2>4, <2>5, <2>6, <2>7, <2>8 DEF MREWInv
<1>18. CASE reads[t] = 0 /\ readerBusy > 0
  <2>1. UNCHANGED <<readerBusy, readerWaiting, writerWaiting>> /\ writerBusy' = FALSE
    BY <1>18 DEF LeaveWrite, Sentinel
  <2>2. p = "setRead"
    <3>1. Goto(t, "setRead")
      BY <1>18 DEF LeaveWrite, Sentinel
    <3>2. pc'[t] = "setRead"
      BY <1>1, <3>1 DEF Goto, MREWTypeOK
    <3>3. QED
      BY <1>8, <3>2
  <2>3. Reading' = {} /\ ~InHand' /\ Handing' = {}
    BY <1>12, <1>13, <1>14, <1>18, <2>2
  <2>4. OneOwner'
    BY <1>1, <1>3, <1>11, <2>1, <2>3 DEF OneOwner, events
  <2>5. FieldsCount'
    <3>1. Cardinality(Reading') = 0 /\ Cardinality(Released') = readerBusy /\ Cardinality(Held') = 0
      BY <1>6, <1>10, <1>15, <2>3
    <3>2. Cardinality(Queued') = writerWaiting
      BY <1>6, <1>9
    <3>3. QED
      BY <1>2, <1>6, <2>1, <2>3, <3>1, <3>2 DEF FieldsCount
  <2>6. Apart'
    BY <1>6, <1>18, <2>1 DEF Apart
  <2>7. Released' # {}
    BY <1>6, <1>10, <1>15, <1>18
  <2>8. SignalsFit'
    BY <1>1, <1>2, <1>4, <1>5, <1>8, <2>1, <2>2, <2>7 DEF SignalsFit, events
  <2>9. MREWTypeOK'
    BY <1>1, <1>2, <1>8, <2>1 DEF MREWTypeOK, events
  <2>10. QED
    BY <1>16, <2>4, <2>5, <2>6, <2>8, <2>9 DEF MREWInv
<1>19. CASE reads[t] = 0 /\ readerBusy = 0 /\ writerWaiting > 0
  <2>1. UNCHANGED <<readerBusy, readerWaiting, writerBusy>> /\ writerWaiting' = writerWaiting - 1
    BY <1>19 DEF LeaveWrite, Sentinel
  <2>2. p = "setWrite"
    <3>1. Goto(t, "setWrite")
      BY <1>19 DEF LeaveWrite, Sentinel
    <3>2. pc'[t] = "setWrite"
      BY <1>1, <3>1 DEF Goto, MREWTypeOK
    <3>3. QED
      BY <1>8, <3>2
  <2>3. Reading' = {} /\ InHand' /\ Handing' = {t}
    BY <1>12, <1>13, <1>14, <2>2
  <2>4. Blocked = {}
    BY <1>3, <1>19, Facts
  <2>5. OneOwner'
    BY <1>1, <1>3, <1>11, <2>1, <2>3 DEF OneOwner, events
  <2>6. FieldsCount'
    <3>1. Cardinality(Reading') = 0 /\ Cardinality(Blocked') = 0
      BY <1>9, <1>15, <2>3, <2>4
    <3>2. Cardinality(Queued') = writerWaiting
      BY <1>6, <1>9
    <3>3. writerBusy' /\ readerWaiting' = 0 /\ readerBusy' = 0 /\ writerWaiting' = writerWaiting - 1
      BY <1>3, <1>6, <1>19, <2>1
    <3>4. QED
      BY <1>2, <2>3, <3>1, <3>2, <3>3 DEF FieldsCount
  <2>7. Apart'
    BY <1>3, <1>10, <2>1, <2>3, <2>4 DEF Apart
  <2>8. SignalsFit'
    BY <1>1, <1>2, <1>4, <1>5, <1>8, <2>1, <2>2 DEF SignalsFit, events
  <2>9. MREWTypeOK'
    BY <1>1, <1>2, <1>8, <1>19, <2>1 DEF MREWTypeOK, events
  <2>10. QED
    BY <1>16, <2>5, <2>6, <2>7, <2>8, <2>9 DEF MREWInv
<1>20. CASE reads[t] = 0 /\ readerBusy = 0 /\ writerWaiting = 0
  <2>1. UNCHANGED <<readerBusy, readerWaiting, writerWaiting>> /\ writerBusy' = FALSE
    BY <1>20 DEF LeaveWrite, Sentinel
  <2>2. p = "run"
    <3>1. Goto(t, "run")
      BY <1>20 DEF LeaveWrite, Sentinel
    <3>2. pc'[t] = "run"
      BY <1>1, <3>1 DEF Goto, MREWTypeOK
    <3>3. QED
      BY <1>8, <3>2
  <2>3. Reading' = {} /\ ~InHand' /\ Handing' = {}
    BY <1>12, <1>13, <1>14, <1>20, <2>2
  <2>4. OneOwner'
    BY <1>1, <1>3, <1>11, <2>1, <2>3 DEF OneOwner, events
  <2>5. FieldsCount'
    <3>1. Cardinality(Reading') = 0 /\ Cardinality(Released') = readerBusy /\ Cardinality(Held') = 0
      BY <1>6, <1>10, <1>15, <2>3
    <3>2. Cardinality(Queued') = writerWaiting
      BY <1>6, <1>9
    <3>3. QED
      BY <1>2, <1>6, <2>1, <2>3, <3>1, <3>2 DEF FieldsCount
  <2>6. Apart'
    BY <1>6, <1>20, <2>1 DEF Apart
  <2>7. SignalsFit'
    BY <1>1, <1>2, <1>4, <1>5, <1>8, <2>1, <2>2 DEF SignalsFit, events
  <2>8. MREWTypeOK'
    BY <1>1, <1>2, <1>8, <2>1 DEF MREWTypeOK, events
  <2>9. QED
    BY <1>16, <2>4, <2>5, <2>6, <2>7, <2>8 DEF MREWInv
<1>21. QED
  BY <1>2, <1>17, <1>18, <1>19, <1>20

-----------------------------------------------------------------------------
(* The specification *)

\* The steps of one thread.
Step(t) == Begin(t) \/ End(t) \/ Progress(t) \/ WakeReader(t) \/ WakeWriter(t)

LEMMA InitHasInv == MREWInit => MREWInv
<1>1. SUFFICES ASSUME MREWInit PROVE MREWInv
  OBVIOUS
<1>2. \A t \in Thread : pc[t] = "run" /\ reads[t] = 0 /\ signal[t] = 0 /\ writerID # t
  BY <1>1 DEF MREWInit
<1>3. /\ Reading = {} /\ Writing = {} /\ Blocked = {} /\ Released = {}
      /\ Held = {} /\ Queued = {} /\ Handing = {}
  BY <1>2 DEF Reading, Writing, Blocked, Released, Held, Queued, Handing
<1>4. /\ readerBusy = 0 /\ readerWaiting = 0 /\ writerWaiting = 0 /\ writerBusy = FALSE /\ odd = 0
      /\ writerID = None /\ recursion = 0 /\ current = {} /\ overtaken = {}
      /\ writeSignal = FALSE /\ readSignal[0] = FALSE /\ readSignal[1] = FALSE
  BY <1>1 DEF MREWInit
<1>5. ~InHand
  BY <1>3, <1>4 DEF InHand
<1>6. OneOwner
  BY <1>3, <1>4, <1>5 DEF OneOwner
<1>7. FieldsCount
  <2>1. Cardinality(Reading) = 0 /\ Cardinality(Released) = 0 /\ Cardinality(Held) = 0 /\ Cardinality(Queued) = 0
    BY <1>3, FS_EmptySet
  <2>2. QED
    BY <1>4, <1>5, <2>1 DEF FieldsCount
<1>8. Apart /\ SignalsFit /\ ThreadsFit
  BY <1>2, <1>3, <1>4 DEF Apart, SignalsFit, ThreadsFit
<1>9. MREWTypeOK
  <2>1. /\ readSignal \in [{0, 1} -> BOOLEAN] /\ writeSignal \in BOOLEAN /\ writerBusy \in BOOLEAN
    BY <1>1, Zenon DEF MREWInit
  <2>2. /\ reads \in [Thread -> 0..MaxDepth] /\ pc \in [Thread -> Place] /\ signal \in [Thread -> {0, 1}]
    BY <1>1 DEF MREWInit, Place
  <2>3. QED
    BY <1>4, <2>1, <2>2 DEF MREWTypeOK
<1>10. QED
  BY <1>6, <1>7, <1>8, <1>9 DEF MREWInv

LEMMA StepKeepsInv == ASSUME MREWInv, NEW t \in Thread, Step(t) PROVE MREWInv'
<1>1. CASE Begin(t)
  BY <1>1, AgainInv, BeginReadInv, BeginWriteInv, TryBeginWriteInv DEF Begin
<1>2. CASE End(t)
  BY <1>2, AgainInv, EndReadInv, EndWriteInv DEF End
<1>3. CASE Progress(t)
  BY <1>3, UpgradeLockInv, GainLockInv, StampInv, ResetSignalInv, LeaveWriteInv,
     SignalWriterInv, SignalReadersInv DEF Progress
<1>4. CASE WakeReader(t) \/ WakeWriter(t)
  BY <1>4, WakeReaderInv, WakeWriterInv
<1>5. QED
  BY <1>1, <1>2, <1>3, <1>4 DEF Step

LEMMA NextKeepsInv == MREWInv /\ [MREWNext]_mrewVars => MREWInv'
<1>1. ASSUME MREWInv, MREWNext PROVE MREWInv'
  BY <1>1, StepKeepsInv DEF MREWNext, Step
<1>2. ASSUME MREWInv, UNCHANGED mrewVars PROVE MREWInv'
  <2>1. /\ Reading' = Reading /\ Writing' = Writing /\ Blocked' = Blocked /\ Released' = Released
        /\ Held' = Held /\ Queued' = Queued /\ Handing' = Handing /\ (InHand' <=> InHand)
    BY <1>2 DEF mrewVars, sentinel, events, Reading, Writing, Blocked, Released, Held, Queued, Handing, InHand
  <2>2. MREWTypeOK'
    BY <1>2 DEF mrewVars, sentinel, events, MREWInv, MREWTypeOK
  <2>3. OneOwner' /\ FieldsCount' /\ Apart'
    BY <1>2, <2>1 DEF mrewVars, sentinel, events, MREWInv, OneOwner, FieldsCount, Apart
  <2>4. SignalsFit' /\ ThreadsFit'
    BY <1>2, <2>1 DEF mrewVars, sentinel, events, MREWInv, SignalsFit, ThreadsFit
  <2>5. QED
    BY <2>2, <2>3, <2>4 DEF MREWInv
<1>3. QED
  BY <1>1, <1>2

\* The fields of m_Sentinel count what they are there to count, and the events
\* are set only when somebody may pass (MREWSync.cpp, the comments on TSentinel).
THEOREM SentinelCounts == MREWSpec => []MREWInv
<1>1. QED
  BY InitHasInv, NextKeepsInv, PTL DEF MREWSpec

\* The fields of m_Sentinel and the counters of the threads keep their ranges:
\* no count falls below zero (MREWSync.cpp 32-53).
THEOREM MREWTypeCorrect == MREWSpec => []MREWTypeOK
<1>1. MREWInv => MREWTypeOK
  BY DEF MREWInv
<1>2. QED
  BY SentinelCounts, <1>1, PTL

LEMMA InvExcludes == MREWInv => Exclusive
BY Facts DEF Exclusive

\* While a thread holds the write lock no other thread holds a lock of either
\* kind (CMultiReadExclusiveWriteSynchronizer).
THEOREM WritersAlone == MREWSpec => []Exclusive
<1>1. QED
  BY SentinelCounts, InvExcludes, PTL

\* BeginWrite returns true to a thread that gives up its read lock only if
\* nobody wrote between the two (BeginWrite, its result).
THEOREM UpgradesHonest == MREWSpec => []UpgradeHonest
<1>1. MREWInv => UpgradeHonest
  BY DEF MREWInv, ThreadsFit, UpgradeHonest
<1>2. QED
  BY SentinelCounts, <1>1, PTL

-----------------------------------------------------------------------------
(* The refinement *)

\* A step of one thread says nothing of what the others hold.
LEMMA OneMoves ==
    ASSUME MREWInv, NEW t \in Thread, Step(t)
    PROVE  Reading' \ {t} = Reading \ {t} /\ Writing' \ {t} = Writing \ {t}
<1>1. \A u \in Thread \ {t} : pc'[u] = pc[u]
  <2>1. pc \in [Thread -> Place]
    BY DEF MREWInv, MREWTypeOK
  <2>2. CASE Begin(t)
    BY <2>1, <2>2 DEF Begin, BeginReadAgain, BeginRead, BeginWriteAgain, BeginWrite, TryBeginWrite, Goto
  <2>3. CASE End(t)
    BY <2>1, <2>3 DEF End, EndReadAgain, EndRead, EndWriteAgain, EndWrite, Goto
  <2>4. CASE Progress(t)
    BY <2>1, <2>4 DEF Progress, UpgradeLock, GainLock, Stamp, ResetSignal, LeaveWrite, SignalWriter, SignalReaders, Goto
  <2>5. CASE WakeReader(t) \/ WakeWriter(t)
    BY <2>1, <2>5 DEF WakeReader, WakeWriter, Goto
  <2>6. QED
    BY <2>2, <2>3, <2>4, <2>5 DEF Step
<1>2. \A u \in Thread \ {t} : reads'[u] = reads[u]
  <2>1. reads \in [Thread -> 0..MaxDepth]
    BY DEF MREWInv, MREWTypeOK
  <2>2. CASE Begin(t)
    BY <2>1, <2>2 DEF Begin, BeginReadAgain, BeginRead, BeginWriteAgain, BeginWrite, TryBeginWrite
  <2>3. CASE End(t)
    BY <2>1, <2>3 DEF End, EndReadAgain, EndRead, EndWriteAgain, EndWrite
  <2>4. CASE Progress(t)
    BY <2>1, <2>4 DEF Progress, UpgradeLock, GainLock, Stamp, ResetSignal, LeaveWrite, SignalWriter, SignalReaders
  <2>5. CASE WakeReader(t) \/ WakeWriter(t)
    BY <2>1, <2>5 DEF WakeReader, WakeWriter
  <2>6. QED
    BY <2>2, <2>3, <2>4, <2>5 DEF Step
<1>3. \A u \in Thread \ {t} : writerID' = u <=> writerID = u
  <2>1. CASE Stamp(t)
    <3>1. t \in Writing
      BY <2>1 DEF Stamp, Writing
    <3>2. \A u \in Thread \ {t} : writerID # u
      BY <3>1, Facts DEF Writing
    <3>3. QED
      BY <2>1, <3>2 DEF Stamp
  <2>2. CASE EndWrite(t)
    BY <2>2 DEF EndWrite
  <2>3. CASE ~Stamp(t) /\ ~EndWrite(t)
    <3>1. CASE Begin(t)
      BY <3>1 DEF Begin, BeginReadAgain, BeginRead, BeginWriteAgain, BeginWrite, TryBeginWrite
    <3>2. CASE End(t)
      BY <2>3, <3>2 DEF End, EndReadAgain, EndRead, EndWriteAgain
    <3>3. CASE Progress(t)
      BY <2>3, <3>3 DEF Progress, UpgradeLock, GainLock, ResetSignal, LeaveWrite, SignalWriter, SignalReaders
    <3>4. CASE WakeReader(t) \/ WakeWriter(t)
      BY <3>4 DEF WakeReader, WakeWriter
    <3>5. QED
      BY <3>1, <3>2, <3>3, <3>4 DEF Step
  <2>4. QED
    BY <2>1, <2>2, <2>3
<1>4. QED
  BY <1>1, <1>2, <1>3 DEF Reading, Writing

\* What changes for one thread only, while writers are alone before and after,
\* is a step of the abstract lock or none.
LEMMA OneMoveAllowed ==
    ASSUME NEW t \in Thread,
           Reading' \ {t} = Reading \ {t}, Writing' \ {t} = Writing \ {t},
           Exclusive, Exclusive'
    PROVE  [Lock!Next]_<<Reading, Writing>>
<1>1. /\ Reading = (IF t \in Reading THEN (Reading \ {t}) \cup {t} ELSE Reading \ {t})
      /\ Reading' = (IF t \in Reading' THEN (Reading' \ {t}) \cup {t} ELSE Reading' \ {t})
      /\ Writing = (IF t \in Writing THEN (Writing \ {t}) \cup {t} ELSE Writing \ {t})
      /\ Writing' = (IF t \in Writing' THEN (Writing' \ {t}) \cup {t} ELSE Writing' \ {t})
  OBVIOUS
<1>2. /\ t \in Writing => Writing = {t} /\ Reading = {}
      /\ t \in Writing' => Writing' = {t} /\ Reading' = {}
      /\ Writing # {} => Reading = {}
      /\ Writing' # {} => Reading' = {}
  BY DEF Exclusive
<1>3. CASE t \notin Reading /\ t \in Reading'
  <2>1. CASE t \in Writing
    <3>1. Lock!Downgrade(t)
      BY <1>1, <1>2, <1>3, <2>1 DEF Lock!Downgrade
    <3>2. QED
      BY <3>1 DEF Lock!Next
  <2>2. CASE t \notin Writing
    <3>1. Lock!Read(t)
      BY <1>1, <1>2, <1>3, <2>2 DEF Lock!Read
    <3>2. QED
      BY <3>1 DEF Lock!Next
  <2>3. QED
    BY <2>1, <2>2
<1>4. CASE t \in Reading /\ t \notin Reading'
  <2>1. CASE t \in Writing'
    <3>1. Lock!Upgrade(t)
      BY <1>1, <1>2, <1>4, <2>1 DEF Lock!Upgrade
    <3>2. QED
      BY <3>1 DEF Lock!Next
  <2>2. CASE t \notin Writing'
    <3>1. Lock!EndRead(t)
      BY <1>1, <1>2, <1>4, <2>2 DEF Lock!EndRead
    <3>2. QED
      BY <3>1 DEF Lock!Next
  <2>3. QED
    BY <2>1, <2>2
<1>5. CASE t \in Reading <=> t \in Reading'
  <2>1. Reading' = Reading
    BY <1>1, <1>5
  <2>2. CASE t \in Writing /\ t \notin Writing'
    <3>1. Lock!EndWrite(t)
      BY <1>1, <1>2, <2>1, <2>2 DEF Lock!EndWrite
    <3>2. QED
      BY <3>1 DEF Lock!Next
  <2>3. CASE t \notin Writing /\ t \in Writing'
    <3>1. Lock!Write(t)
      BY <1>1, <1>2, <2>1, <2>3 DEF Lock!Write
    <3>2. QED
      BY <3>1 DEF Lock!Next
  <2>4. CASE t \in Writing <=> t \in Writing'
    <3>1. Writing' = Writing
      BY <1>1, <2>4
    <3>2. QED
      BY <2>1, <3>1
  <2>5. QED
    BY <2>2, <2>3, <2>4
<1>6. QED
  BY <1>3, <1>4, <1>5

\* The lock of the database driver implements the abstract lock: it has nothing
\* but readers or one writer, and a thread turns from one into the other only
\* while it is alone.
THEOREM LockImplemented == MREWSpec => Refines
<1>1. MREWInit => Lock!Init
  <2>1. MREWInit => Reading = {} /\ Writing = {}
    BY DEF MREWInit, Reading, Writing
  <2>2. QED
    BY <2>1 DEF Lock!Init
<1>2. MREWInv /\ Exclusive /\ Exclusive' /\ [MREWNext]_mrewVars => [Lock!Next]_<<Reading, Writing>>
  <2>1. ASSUME MREWInv, Exclusive, Exclusive', NEW t \in Thread, Step(t)
        PROVE  [Lock!Next]_<<Reading, Writing>>
    BY <2>1, OneMoves, OneMoveAllowed
  <2>2. ASSUME UNCHANGED mrewVars PROVE UNCHANGED <<Reading, Writing>>
    BY <2>2 DEF mrewVars, Reading, Writing
  <2>3. QED
    BY <2>1, <2>2 DEF MREWNext, Step
<1>3. QED
  BY <1>1, <1>2, SentinelCounts, WritersAlone, PTL DEF MREWSpec, Refines, Lock!LockSpec, Lock!lockVars

=============================================================================
