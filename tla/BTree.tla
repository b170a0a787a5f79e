-------------------------------- MODULE BTree --------------------------------
(***************************************************************************)
(* The balanced tree all data of dbx_tree is kept in (dbx_tree/BTree.h):   *)
(* insertion that splits full nodes on its way down, deletion that merges  *)
(* or fills poor nodes on its way down, and the managed iterators, which   *)
(* the enumerations of settings and events keep while the tree changes.    *)
(*                                                                         *)
(* One step is one pass of the loop in Insert or Delete; calls exclude one *)
(* another by the lock of the database file.  Indices start at 1.          *)
(* What is modelled is a tree in the database file (FileBTree.h), where     *)
(* reading the node 0 is an access violation and ends the program.         *)
(***************************************************************************)
EXTENDS Naturals, FiniteSets, SequencesExt

CONSTANTS MaxKey,      \* the greatest key there can be
          Keys,        \* the keys, ordered as numbers
          Nodes,       \* handles of nodes; 0 is none
          Iterators,   \* the managed iterators
          SizeParam,   \* half the number of children a node has room for
          Watched,     \* bound: while an iterator is in use, all keys are of these
          Frozen       \* bound: other keys come in when these are, which then stay

ASSUME BTreeAssumption ==
    /\ MaxKey \in Nat /\ Keys \subseteq 1..MaxKey
    /\ Nodes \subseteq Nat \ {0}
    /\ SizeParam \in Nat /\ SizeParam >= 2
    /\ Frozen \subseteq Watched /\ Watched \subseteq Keys

VARIABLES root,    \* m_Root
          node,    \* the nodes
          op,      \* the call in progress and where its loop is
          it       \* the managed iterators

treeVars == <<root, node, op, it>>

Nil     == 0                        \* no node, or no key
Nowhere == <<Nil, 0>>               \* the position behind the last key
Full    == 2 * SizeParam - 1        \* cFullNode
Empty   == SizeParam - 1            \* cEmptyNode
Freed   == [leaf |-> FALSE, parent |-> Nil, keys |-> <<>>, child |-> <<>>]
Idle    == [do |-> "idle"]
Broken  == [do |-> "broken"]        \* the program is gone

\* A managed iterator: the position of its key, whether that was deleted, the
\* key it saved or read, and, for the properties, the key it should be at and
\* whether it lost its place.  An iterator that did is not followed further,
\* nor is the index of one whose key was deleted, which starts from its key.
Fresh(p, k) == [pos |-> p, deleted |-> FALSE, loaded |-> FALSE, key |-> Nil,
                at |-> k, lost |-> FALSE]

Used      == {n \in Nodes : node[n] # Freed}
Content   == UNION {ToSet(node[n].keys) : n \in Used}
Count(n)  == Len(node[n].keys)
Leaf(n)   == node[n].leaf
Least(S)  == CHOOSE x \in S : \A y \in S : x <= y
Greatest(S) == CHOOSE x \in S : \A y \in S : x >= y

\* CreateNewNode: which free handle it is does not matter.
NewNode == CHOOSE n \in Nodes : n \notin Used
HandleLeft == Nodes \ Used # {}     \* bound: there is always another handle

\* InNodeFind: whether the key is there, and the first index not below it.
Has(n, k) == k \in ToSet(node[n].keys)
GreaterEqual(n, k) == Least({i \in 1..(Count(n) + 1) : i <= Count(n) => node[n].keys[i] >= k})

Part(s, a, b) == IF s = <<>> THEN <<>> ELSE SubSeq(s, a, b)

NotAdopted(f, kids, p) == f

\* The nodes of f with those in kids hung below p.
Adopt(f, kids, p) ==
    [n \in Nodes |-> IF n \in kids THEN [f[n] EXCEPT !.parent = p] ELSE f[n]]

-----------------------------------------------------------------------------
(* Managed iterators: where the position of a key goes when the tree changes *)

Carry(M(_)) ==
    it' = [j \in Iterators |-> IF it[j].pos = Nowhere THEN it[j] ELSE [it[j] EXCEPT !.pos = M(@)]]

AfterInsert(n, i, p) == IF p[1] = n /\ p[2] >= i THEN <<n, p[2] + 1>> ELSE p
AfterDelete(n, i, p) == IF p[1] = n /\ p[2] > i THEN <<n, p[2] - 1>> ELSE p
AfterMove(from, to, p) == IF p = from THEN to ELSE p
AfterSplit(c, r, n, i, p) ==
    CASE p = <<c, SizeParam>>           -> <<n, i>>
      [] p[1] = c /\ p[2] > SizeParam   -> <<r, p[2] - SizeParam>>
      [] OTHER                          -> p
MergedShort(l, r, n, i, p) == IF p[1] = r THEN <<l, p[2] + Count(l)>> ELSE p
AfterMerge(l, r, n, i, p) ==
    CASE p[1] = r     -> <<l, p[2] + Count(l) + 1>>
      [] p = <<n, i>> -> <<l, Count(l) + 1>>
      [] OTHER        -> p

\* Backup, called by KeyDelete(n, i) when it has counted the key off: it saves
\* the key, unless the iterator read it before.  The last key of its node is not
\* saved, since the iterator takes itself for one at the end.
Lost(deleted) == [Fresh(Nowhere, Nil) EXCEPT !.deleted = deleted, !.lost = TRUE]
Backup(j, n, i) ==
    IF i = Count(n) /\ ~it[j].loaded THEN Lost(TRUE)
    ELSE [it[j] EXCEPT !.deleted = TRUE, !.pos = Nowhere, !.loaded = TRUE,
                       !.key = IF it[j].loaded THEN @ ELSE node[n].keys[i]]

CarryDelete(n, i) ==
    it' = [j \in Iterators |->
             IF it[j].pos = <<n, i>> THEN Backup(j, n, i)
             ELSE [it[j] EXCEPT !.pos = AfterDelete(n, i, @)]]

-----------------------------------------------------------------------------
(* Insert *)

Return == op' = Idle
Descend(c) == op' = [op EXCEPT !.at = c]

InsertFirst(k) ==
    LET n == NewNode IN
    /\ op = Idle /\ root = Nil /\ HandleLeft
    /\ node' = [node EXCEPT ![n] = [Freed EXCEPT !.leaf = TRUE]]
    /\ root' = n
    /\ op' = [do |-> "insert", key |-> k, at |-> n]
    /\ UNCHANGED it

\* A full root gets a new root above it, which the loop then splits it into.
InsertGrow(k) ==
    LET n == NewNode IN
    /\ op = Idle /\ root # Nil /\ Count(root) = Full /\ HandleLeft
    /\ node' = Adopt([node EXCEPT ![n] = [Freed EXCEPT !.child = <<root>>]], {root}, n)
    /\ root' = n
    /\ op' = [do |-> "insert", key |-> k, at |-> n]
    /\ UNCHANGED it

InsertStart(k) ==
    /\ op = Idle /\ root # Nil /\ Count(root) < Full
    /\ op' = [do |-> "insert", key |-> k, at |-> root]
    /\ UNCHANGED <<root, node, it>>

Inserting == op.do = "insert"
Ge == GreaterEqual(op.at, op.key)

InsertExists ==
    /\ Inserting /\ Has(op.at, op.key)
    /\ Return
    /\ UNCHANGED <<root, node, it>>

InsertLeaf ==
    /\ Inserting /\ ~Has(op.at, op.key) /\ Leaf(op.at)
    /\ node' = [node EXCEPT ![op.at].keys = InsertAt(@, Ge, op.key)]
    /\ Carry(LAMBDA p : AfterInsert(op.at, Ge, p))
    /\ Return
    /\ UNCHANGED root

InsertDescend ==
    /\ Inserting /\ ~Has(op.at, op.key) /\ ~Leaf(op.at)
    /\ LET c == node[op.at].child[Ge] IN Count(c) < Full /\ Descend(c)
    /\ UNCHANGED <<root, node, it>>

\* SplitNode: the upper half of child c moves to the new node r and its middle
\* key goes up to index i of node n.
Split(c, r, n, i) ==
    LET up   == node[c].keys[SizeParam]
        kids == Part(node[c].child, SizeParam + 1, Full + 1)
    IN Adopt([node EXCEPT
          ![n].keys  = InsertAt(@, i, up),
          ![n].child = InsertAt(@, i + 1, r),
          ![c].keys  = SubSeq(@, 1, SizeParam - 1),
          ![c].child = Part(@, 1, SizeParam),
          ![r] = [node[c] EXCEPT !.keys = SubSeq(@, SizeParam + 1, Full), !.child = kids]],
          ToSet(kids), r)

InsertSplit ==
    /\ Inserting /\ ~Has(op.at, op.key) /\ ~Leaf(op.at) /\ HandleLeft
    /\ LET n  == op.at
           c  == node[n].child[Ge]
           r  == NewNode
           up == node[c].keys[SizeParam]
       IN /\ Count(c) = Full
          /\ node' = Split(c, r, n, Ge)
          /\ Carry(LAMBDA p : AfterSplit(c, r, n, Ge, AfterInsert(n, Ge, p)))
          /\ IF up = op.key THEN Return ELSE Descend(IF up < op.key THEN r ELSE c)
    /\ UNCHANGED root

-----------------------------------------------------------------------------
(* Delete.  "inner" is where the key was found above the leaves, once it was; *)
(* "leftmost" whether the key that replaces it is the next one.               *)

DeleteStart(k) ==
    /\ op = Idle
    /\ op' = [do |-> "delete", key |-> k, at |-> root, inner |-> Nowhere, leftmost |-> FALSE]
    /\ UNCHANGED <<root, node, it>>

Deleting  == op.do = "delete" /\ op.at # Nil
Searching == op.inner = Nowhere
Found     == Searching /\ Has(op.at, op.key)

\* The index the loop goes on with.
Way ==
    CASE Searching   -> Ge
      [] ~Searching /\ op.leftmost  -> 1
      [] ~Searching /\ ~op.leftmost -> Count(op.at) + 1

\* KeyDelete: takes key i and the child behind it out of node n of f.
KeyDelete(f, n, i) ==
    [f EXCEPT ![n].keys = RemoveAt(@, i),
              ![n].child = IF @ = <<>> THEN @ ELSE RemoveAt(@, i)]

DeleteNothing ==
    /\ op.do = "delete"
    /\ op.at # Nil => Leaf(op.at) /\ Searching /\ ~Found
    /\ Return
    /\ UNCHANGED <<root, node, it>>

DeleteLeaf ==
    /\ Deleting /\ Leaf(op.at) /\ Found
    /\ node' = KeyDelete(node, op.at, Ge)
    /\ CarryDelete(op.at, Ge)
    /\ Return
    /\ UNCHANGED root

JoinedBare(left, key, right) == left \o right
Joined(left, key, right) == Append(left, key) \o right

\* MergeNodes and KeyDelete: child i + 1 of node n is emptied into child i, with
\* the key between them in the middle; a root without keys is given up.  (The
\* new root keeps a parent, which is never read; Nil stands for it.)
Merge(n, i) ==
    LET l    == node[n].child[i]
        r    == node[n].child[i + 1]
        join == [node EXCEPT ![l].keys  = Joined(@, node[n].keys[i], node[r].keys),
                             ![l].child = @ \o node[r].child]
        tree == KeyDelete(Adopt(join, ToSet(node[r].child), l), n, i)
        gone == {r} \cup (IF n = root /\ Count(n) = 1 THEN {n} ELSE {})
    IN /\ node' = [m \in Nodes |->
                     CASE m \in gone                -> Freed
                       [] m = n /\ n \notin gone     -> [tree[n] EXCEPT !.child[i] = l]
                       [] m = l /\ n \in gone        -> [tree[l] EXCEPT !.parent = Nil]
                       [] OTHER                      -> tree[m]]
       /\ root' = IF n \in gone THEN l ELSE root
       /\ Carry(LAMBDA p : AfterDelete(n, i, AfterMerge(l, r, n, i, p)))
       /\ Descend(l)

Poor(n) == Count(n) = Empty

DeleteMerge ==
    /\ Deleting /\ ~Leaf(op.at) /\ Found
    /\ Poor(node[op.at].child[Ge]) /\ Poor(node[op.at].child[Ge + 1])
    /\ Merge(op.at, Ge)

\* The key is found in an inner node: the loop goes on to the leaf that holds
\* the one before or behind it.
DeleteInner ==
    /\ Deleting /\ ~Leaf(op.at) /\ Found
    /\ LET l == node[op.at].child[Ge]
           r == node[op.at].child[Ge + 1]
       IN /\ ~(Poor(l) /\ Poor(r))
          /\ op' = [op EXCEPT !.inner = <<op.at, Ge>>, !.leftmost = Poor(l),
                              !.at = IF Poor(l) THEN r ELSE l]
    /\ UNCHANGED <<root, node, it>>

\* KeyMove of the replacement over the deleted key.  An iterator that stood there
\* is not told.
DeleteReplace ==
    /\ Deleting /\ Leaf(op.at) /\ ~Searching
    /\ LET i    == IF op.leftmost THEN 1 ELSE Count(op.at)
           here == <<op.at, i>>
       IN /\ node' = KeyDelete([node EXCEPT ![op.inner[1]].keys[op.inner[2]] = node[op.at].keys[i]],
                               op.at, i)
          /\ it' = [j \in Iterators |->
                      IF it[j].pos = op.inner THEN Lost(FALSE)
                      ELSE [it[j] EXCEPT !.pos = AfterDelete(op.at, i, AfterMove(here, op.inner, @))]]
    /\ Return
    /\ UNCHANGED root

\* The three ways on from an inner node the key is not in.
Passing == Deleting /\ ~Leaf(op.at) /\ ~Found
OnWay   == node[op.at].child[Way]
LeftOf  == IF Way > 1 THEN node[op.at].child[Way - 1] ELSE Nil
RightOf == IF Way <= Count(op.at) THEN node[op.at].child[Way + 1] ELSE Nil
Rich(n) == n # Nil /\ Count(n) > Empty

DeleteDescend ==
    /\ Passing /\ ~Poor(OnWay)
    /\ Descend(OnWay)
    /\ UNCHANGED <<root, node, it>>

\* A poor child gets the key between it and its right neighbour, which gives up
\* its first key and child in turn.
MoveFromRight ==
    /\ Passing /\ Poor(OnWay) /\ Rich(RightOf)
    /\ LET n == op.at
           c == OnWay
           r == RightOf
           moved == Part(node[r].child, 1, 1)
       IN /\ node' = Adopt([node EXCEPT
                ![c].keys  = Append(@, node[n].keys[Way]),
                ![c].child = @ \o moved,
                ![n].keys[Way] = node[r].keys[1],
                ![r].keys  = Tail(@),
                ![r].child = Part(@, 2, Len(@))], ToSet(moved), c)
          /\ Carry(LAMBDA p : AfterDelete(r, 1, AfterMove(<<r, 1>>, <<n, Way>>,
                              AfterMove(<<n, Way>>, <<c, Count(c) + 1>>, p))))
          /\ Descend(c)
    /\ UNCHANGED root

\* The same from the left neighbour's last key and child.
MoveFromLeft ==
    /\ Passing /\ Poor(OnWay) /\ ~Rich(RightOf) /\ Rich(LeftOf)
    /\ LET n == op.at
           c == OnWay
           l == LeftOf
           moved == Part(node[l].child, Count(l) + 1, Count(l) + 1)
       IN /\ node' = Adopt([node EXCEPT
                ![c].keys  = <<node[n].keys[Way - 1]>> \o @,
                ![c].child = moved \o @,
                ![n].keys[Way - 1] = Last(node[l].keys),
                ![l].keys  = Front(@),
                ![l].child = Part(@, 1, Count(l))], ToSet(moved), c)
          /\ Carry(LAMBDA p : AfterMove(<<l, Count(l)>>, <<n, Way - 1>>,
                              AfterMove(<<n, Way - 1>>, <<c, 1>>, AfterInsert(c, 1, p))))
          /\ Descend(c)
    /\ UNCHANGED root

MergeNeighbours ==
    /\ Passing /\ Poor(OnWay) /\ ~Rich(RightOf) /\ ~Rich(LeftOf)
    /\ Merge(op.at, IF LeftOf # Nil THEN Way - 1 ELSE Way)

-----------------------------------------------------------------------------
(* Searching and the iterators.  "at" is where an iterator should be: the key *)
(* it stands on, or stood on when that key was deleted.                       *)

\* Where the way down for k ends: on the key, or in a leaf at the index for it.
Land(k) ==
    LET down[n \in Used] ==
          IF Has(n, k) \/ Leaf(n) THEN <<n, GreaterEqual(n, k)>>
                                  ELSE down[node[n].child[GreaterEqual(n, k)]]
    IN down[root]

ChildIndex(n) == CHOOSE i \in DOMAIN node[node[n].parent].child : node[node[n].parent].child[i] = n

Inc(p) ==
    LET first[n \in Used] == IF Leaf(n) THEN <<n, 1>> ELSE first[node[n].child[1]]
        up[n \in Used] ==
          IF n = root THEN Nowhere
          ELSE LET q == node[n].parent IN
               IF ChildIndex(n) <= Count(q) THEN <<q, ChildIndex(n)>> ELSE up[q]
    IN CASE ~Leaf(p[1])                        -> first[node[p[1]].child[p[2] + 1]]
         [] Leaf(p[1]) /\ p[2] < Count(p[1])   -> <<p[1], p[2] + 1>>
         [] Leaf(p[1]) /\ p[2] >= Count(p[1])  -> up[p[1]]

Dec(p) ==
    LET last[n \in Used] ==
          IF Leaf(n) THEN <<n, Count(n)>> ELSE last[node[n].child[Count(n) + 1]]
        up[n \in Used] ==
          IF n = root THEN Nowhere
          ELSE LET q == node[n].parent IN
               IF ChildIndex(n) > 1 THEN <<q, ChildIndex(n) - 1>> ELSE up[q]
    IN CASE ~Leaf(p[1])               -> last[node[p[1]].child[p[2]]]
         [] Leaf(p[1]) /\ p[2] > 1    -> <<p[1], p[2] - 1>>
         [] Leaf(p[1]) /\ p[2] = 1    -> up[p[1]]

LowerBound(k) ==
    IF root = Nil THEN Nowhere
    ELSE LET p == Land(k) IN IF p[2] <= Count(p[1]) THEN p ELSE Inc(<<p[1], p[2] - 1>>)

UpperBound(k) ==
    IF root = Nil THEN Nowhere
    ELSE LET p == Land(k) IN
         IF Has(p[1], k) THEN p ELSE IF p[2] = 1 THEN Dec(p) ELSE <<p[1], p[2] - 1>>

KeyAt(p) == IF p = Nowhere THEN Nil ELSE node[p[1]].keys[p[2]]
FirstOf(S) == IF S = {} THEN Nil ELSE Least(S)
LastOf(S)  == IF S = {} THEN Nil ELSE Greatest(S)

\* An enumeration takes the iterator LowerBound or UpperBound returns.
Watchable == Content \subseteq Watched
PlaceLower(j, k) ==
    /\ op = Idle /\ Watchable
    /\ it' = [it EXCEPT ![j] = Fresh(LowerBound(k), FirstOf({x \in Content : x >= k}))]
    /\ UNCHANGED <<root, node, op>>

PlaceUpper(j, k) ==
    /\ op = Idle /\ Watchable
    /\ it' = [it EXCEPT ![j] = Fresh(UpperBound(k), LastOf({x \in Content : x <= k}))]
    /\ UNCHANGED <<root, node, op>>

\* operator *
Load(j) ==
    /\ op = Idle /\ it[j].pos # Nowhere /\ ~it[j].loaded
    /\ it' = [it EXCEPT ![j].loaded = TRUE, ![j].key = KeyAt(it[j].pos)]
    /\ UNCHANGED <<root, node, op>>

\* operator ++ and operator --, the latter mirrored.
NextKey(j) ==
    /\ op = Idle /\ it[j].pos # Nowhere
    /\ it' = [it EXCEPT ![j] = Fresh(Inc(it[j].pos), FirstOf({x \in Content : x > it[j].at}))]
    /\ UNCHANGED <<root, node, op>>

PreviousKey(j) ==
    /\ op = Idle /\ it[j].pos # Nowhere
    /\ it' = [it EXCEPT ![j] = Fresh(Dec(it[j].pos), LastOf({x \in Content : x < it[j].at}))]
    /\ UNCHANGED <<root, node, op>>

\* An iterator whose key was deleted searches the key it saved, and passes it
\* when it is back.
Onward(j)   == LET p == LowerBound(it[j].key) IN IF KeyAt(p) = it[j].key THEN Inc(p) ELSE p
Backward(j) == LET p == UpperBound(it[j].key) IN IF KeyAt(p) = it[j].key THEN Dec(p) ELSE p

Loaded(p, k) == [Fresh(p, k) EXCEPT !.loaded = TRUE, !.key = KeyAt(p)]

NextAgain(j) ==
    /\ op = Idle /\ it[j].deleted /\ ~it[j].lost /\ Onward(j) # Nowhere
    /\ it' = [it EXCEPT ![j] = Loaded(Onward(j), FirstOf({x \in Content : x > it[j].at}))]
    /\ UNCHANGED <<root, node, op>>

PreviousAgain(j) ==
    /\ op = Idle /\ it[j].deleted /\ ~it[j].lost /\ Backward(j) # Nowhere
    /\ it' = [it EXCEPT ![j] = Loaded(Backward(j), LastOf({x \in Content : x < it[j].at}))]
    /\ UNCHANGED <<root, node, op>>

\* The key at the position is compared before it is asked whether there is one.
NextFaults(j) ==
    /\ op = Idle /\ it[j].deleted /\ ~it[j].lost /\ Onward(j) = Nowhere
    /\ op' = Broken
    /\ UNCHANGED <<root, node, it>>

PreviousFaults(j) ==
    /\ op = Idle /\ it[j].deleted /\ ~it[j].lost /\ Backward(j) = Nowhere
    /\ op' = Broken
    /\ UNCHANGED <<root, node, it>>

\* Nothing happens any more; every other state has a step.
Gone == op = Broken /\ UNCHANGED treeVars

-----------------------------------------------------------------------------
Init ==
    /\ root = Nil
    /\ node = [n \in Nodes |-> Freed]
    /\ op = Idle
    /\ it = [j \in Iterators |-> Fresh(Nowhere, Nil)]

Unused == \A j \in Iterators : it[j] = Fresh(Nowhere, Nil)

Insert(k) ==
    /\ k \in Watched \/ (Unused /\ Frozen \subseteq Content)
    /\ InsertFirst(k) \/ InsertGrow(k) \/ InsertStart(k)

Delete(k) ==
    /\ k \in Frozen => Watchable
    /\ DeleteStart(k)

InsertLoop == InsertExists \/ InsertLeaf \/ InsertDescend \/ InsertSplit

DeleteLoop ==
    \/ DeleteNothing \/ DeleteLeaf \/ DeleteMerge \/ DeleteInner \/ DeleteReplace
    \/ DeleteDescend \/ MoveFromRight \/ MoveFromLeft \/ MergeNeighbours

Iterate(j) ==
    \/ \E k \in Keys : PlaceLower(j, k) \/ PlaceUpper(j, k)
    \/ Load(j) \/ NextKey(j) \/ PreviousKey(j) \/ NextAgain(j) \/ PreviousAgain(j)

Faults(j) == NextFaults(j) \/ PreviousFaults(j)

TreeNext ==
    \/ \E k \in Keys : Insert(k) \/ Delete(k)
    \/ InsertLoop \/ DeleteLoop
    \/ \E j \in Iterators : Iterate(j) \/ Faults(j)
    \/ Gone

TreeSpec == Init /\ [][TreeNext]_treeVars

-----------------------------------------------------------------------------
(* Properties *)

\* Height of the tree below a node, and the keys in the node and below.
Height == LET h[n \in Used] == IF Leaf(n) THEN 1 ELSE 1 + h[node[n].child[1]] IN h
Below ==
    LET b[n \in Used] == ToSet(node[n].keys) \cup UNION {b[c] : c \in ToSet(node[n].child)} IN b

\* The keys of a node rise, and each parts what is below the children beside it.
Sorted(n) ==
    LET below == Below IN
    \A i \in 1..Count(n) :
      /\ i < Count(n) => node[n].keys[i] < node[n].keys[i + 1]
      /\ ~Leaf(n) => /\ \A k \in below[node[n].child[i]] : k < node[n].keys[i]
                     /\ \A k \in below[node[n].child[i + 1]] : node[n].keys[i] < k

\* The nodes that are used are the root and the children of used nodes, which
\* know their parents; below the root none is over-full or poorer than allowed;
\* only a root that is about to be split has no key above its child; and the
\* loop of Delete only ever enters a node it can take a key from.
Shaped ==
    /\ root \in Nodes \cup {Nil}
    /\ Used = IF root = Nil THEN {} ELSE {root} \cup UNION {ToSet(node[n].child) : n \in Used}
    /\ \A n \in Used :
         /\ Count(n) <= Full
         /\ n # root => Count(n) >= Empty
         /\ ~Leaf(n) => /\ Len(node[n].child) = Count(n) + 1
                        /\ Count(n) = 0 => n = root /\ op.do = "insert" /\ op.at = n
                        /\ \A i \in DOMAIN node[n].child : node[node[n].child[i]].parent = n
                        /\ IsInjective(node[n].child)
    /\ op.do = "delete" /\ op.at \notin {root, Nil} => Rich(op.at)

\* The tree stays a balanced tree in the middle of every call: it has that shape,
\* all leaves are at the same depth, the keys are in order across the nodes, and
\* all there are can be reached from the root.
Balanced ==
    /\ Shaped
    /\ \A n \in Used : /\ Sorted(n)
                       /\ \A c \in ToSet(node[n].child) : Height[c] = Height[node[n].child[1]]
    /\ root # Nil => Below[root] = Content

\* A managed iterator is where it should be however the tree was rebuilt under
\* it, and ++ and -- lead to the next key there is, also from a deleted key, if
\* there is one; except one that lost its place, see Backup and DeleteReplace.
StandsOn(p, k) == IF k = Nil THEN p = Nowhere
                  ELSE p # Nowhere /\ Has(p[1], k) /\ p[2] = GreaterEqual(p[1], k)
KeepsPlace ==
    \A j \in Iterators : ~it[j].lost =>
        IF it[j].deleted THEN it[j].loaded /\ it[j].key = it[j].at
        ELSE /\ StandsOn(it[j].pos, it[j].at)
             /\ it[j].loaded => it[j].key = it[j].at

\* The tree implements the ordered set: whatever a call does on its way down,
\* the content changes by its key only, when it returns.
Set == INSTANCE OrderedSet WITH
          content <- Content,
          request <- IF op \in {Idle, Broken} THEN Idle ELSE [do |-> op.do, key |-> op.key]
IsOrderedSet == Set!OrderedSetSpec

\* "Keeps track of changes in the tree and refresh the iterator" (BTree.h:73):
\* an iterator whose key is no longer there knows.
DeletionTold == \A j \in Iterators : it[j].lost => it[j].deleted

\* And it can be led on however many keys were deleted.
NoFault == op # Broken
=============================================================================
