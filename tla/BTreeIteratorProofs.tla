------------------------ MODULE BTreeIteratorProofs -------------------------
(***************************************************************************)
(* Proofs about the order of the B-tree and its iterators (BTree), for any *)
(* set of keys, any number of nodes and iterators and any SizeParam. What  *)
(* Balanced, Inc, Dec, LowerBound and UpperBound say by recursion over the *)
(* nodes is a way from node to node; the labels of BTreeProofs give each   *)
(* way a rank that falls, so that there is one function that follows it,   *)
(* and what it leads to is read off the bounds.                            *)
(*                                                                         *)
(* An iterator keeps its place if PlaceInv holds: it is at the position of *)
(* its key, or knows the key because it was deleted under it. Every edit   *)
(* of the nodes moves the positions of keys; the proof says for each edit  *)
(* where they go (Follows) and that its AfterInsert, AfterDelete,          *)
(* AfterMove and AfterSplit take the iterators there (Carried).            *)
(***************************************************************************)
EXTENDS BTreeProofs

-----------------------------------------------------------------------------
(* Ways through the tree: functions that pass from a node to the next until  *)
(* they stop.                                                                *)

\* f gives val where the way stops, and what it gives at the next node elsewhere.
WayFrom(f, S, Stop, val, next) == f = [n \in S |-> IF n \in Stop THEN val[n] ELSE f[next[n]]]
\* Each node that is passed is nearer to the end than the one before, in rank.
Nearer(S, Stop, next, rank) == \A n \in S : n \notin Stop => next[n] \in S /\ rank[next[n]] < rank[n]

\* There is such a function, if the way comes nearer to its end with every step.
LEMMA WayExists ==
    ASSUME NEW S, NEW Stop, NEW val, NEW next, NEW rank, NEW bound \in Nat,
           \A n \in S : rank[n] \in Nat /\ rank[n] < bound, Nearer(S, Stop, next, rank)
    PROVE  \E f : WayFrom(f, S, Stop, val, next)
<1> DEFINE Near(d) == {n \in S : rank[n] < d}
           Bad == {d \in Nat : ~ \E f : WayFrom(f, Near(d), Stop, val, next)}
<1>1. bound \notin Bad => \E f : WayFrom(f, S, Stop, val, next)
  <2>1. Near(bound) = S
    OBVIOUS
  <2> HIDE DEF Near
  <2> QED  BY <2>1
<1> SUFFICES ASSUME Bad # {} PROVE FALSE
  BY <1>1
<1>2. PICK d \in Bad : \A e \in Bad : d <= e
  <2>1. Bad \subseteq Nat
    OBVIOUS
  <2> HIDE DEF Bad
  <2> QED  BY <2>1, LeastOf, Zenon
<1>3. d \in Nat /\ ~ \E f : WayFrom(f, Near(d), Stop, val, next)
  BY <1>2
<1>4. d # 0
  <2> SUFFICES ASSUME d = 0 PROVE FALSE
    OBVIOUS
  <2>1. Near(d) = {}
    OBVIOUS
  <2> DEFINE f == [n \in Near(d) |-> 0]
  <2>2. f = [n \in Near(d) |-> IF n \in Stop THEN val[n] ELSE f[next[n]]]
    <3> HIDE DEF Near
    <3> QED  BY <2>1
  <2> HIDE DEF f, Near
  <2> QED  BY <2>2, <1>3 DEF WayFrom
<1> DEFINE e == d - 1
<1>5. e \in Nat /\ e < d /\ d = e + 1
  BY <1>3, <1>4
<1>6. e \notin Bad
  <2> HIDE DEF Bad
  <2> QED  BY <1>2, <1>3, <1>5
<1>7. PICK g : WayFrom(g, Near(e), Stop, val, next)
  BY <1>5, <1>6
<1>8. \A m \in Near(e) : g[m] = IF m \in Stop THEN val[m] ELSE g[next[m]]
  BY <1>7 DEF WayFrom
<1> DEFINE f == [n \in Near(d) |-> IF n \in Stop THEN val[n] ELSE g[next[n]]]
<1>9. ASSUME NEW n \in Near(d), n \notin Stop PROVE f[next[n]] = g[next[n]]
  <2>1. next[n] \in S /\ rank[next[n]] < rank[n] /\ rank[n] < d /\ rank[n] \in Nat /\ rank[next[n]] \in Nat
    BY <1>9 DEF Nearer
  <2>2. next[n] \in Near(e) /\ next[n] \in Near(d)
    BY <2>1, <1>5
  <2> HIDE DEF Near
  <2> QED  BY <2>2, <1>8
<1>10. f = [n \in Near(d) |-> IF n \in Stop THEN val[n] ELSE f[next[n]]]
  <2>1. \A n \in Near(d) : (IF n \in Stop THEN val[n] ELSE g[next[n]]) = IF n \in Stop THEN val[n] ELSE f[next[n]]
    BY <1>9
  <2> HIDE DEF Near
  <2> QED  BY <2>1
<1>11. WayFrom(f, Near(d), Stop, val, next)
  BY <1>10 DEF WayFrom
<1> HIDE DEF f, Near
<1> QED  BY <1>3, <1>11

\* A way that begins in T and does not leave T before it stops ends in T.
LEMMA WayEnds ==
    ASSUME NEW S, NEW Stop, NEW val, NEW next, NEW rank, \A n \in S : rank[n] \in Nat,
           Nearer(S, Stop, next, rank), NEW f, WayFrom(f, S, Stop, val, next),
           NEW T, T \subseteq S, \A n \in T : n \notin Stop => next[n] \in T,
           NEW n \in T
    PROVE  \E m \in T : m \in Stop /\ f[n] = val[m]
<1> DEFINE Ends(x) == \E m \in T : m \in Stop /\ f[x] = val[m]
           Bad == {d \in Nat : \E x \in T : rank[x] = d /\ ~Ends(x)}
<1> SUFFICES ASSUME Bad # {} PROVE FALSE
  <2>1. rank[n] \in Nat
    OBVIOUS
  <2> QED  BY <2>1
<1>1. PICK d \in Bad : \A e \in Bad : d <= e
  <2>1. Bad \subseteq Nat
    OBVIOUS
  <2> HIDE DEF Bad
  <2> QED  BY <2>1, LeastOf, Zenon
<1>2. PICK x \in T : rank[x] = d /\ ~Ends(x)
  BY <1>1
<1>3. f[x] = IF x \in Stop THEN val[x] ELSE f[next[x]]
  BY <1>2 DEF WayFrom
<1>4. x \notin Stop
  BY <1>2, <1>3
<1>5. next[x] \in T /\ rank[next[x]] < rank[x] /\ f[x] = f[next[x]]
  BY <1>2, <1>3, <1>4 DEF Nearer
<1>6. ~Ends(next[x])
  BY <1>2, <1>5
<1>7. rank[next[x]] \in Nat /\ d \in Nat
  BY <1>5, <1>1
<1>8. rank[next[x]] \in Bad
  BY <1>5, <1>6, <1>7
<1>9. d <= rank[next[x]]
  <2> HIDE DEF Bad, Ends
  <2> QED  BY <1>1, <1>8
<1> QED  BY <1>2, <1>5, <1>7, <1>9

-----------------------------------------------------------------------------
(* What lies below a node: the keys within its span.                         *)

InSpan(f, s, n) == {k \in KeysOf(f) : Between(f, s, n, k)}

\* A key in a span is a key of the node or in the gap of one of its children.
LEMMA GapOf ==
    ASSUME NEW f, NEW h, NEW s, NEW top, Typed(f, h, s), TreeFits(f, top, h, s), NEW n \in Here(f),
           NEW k \in Nat, Between(f, s, n, k)
    PROVE  \E i \in 1..(Num(f, n) + 1) : s[n][i - 1] < k /\ ((i <= Num(f, n) /\ f[n].keys[i] = k) \/ k < s[n][i])
<1>1. Num(f, n) \in Nat /\ NodeFits(f, h, s, n) /\ \A y \in Nat : s[n][y] \in Nat
  BY HandlesIn, RowOf
<1> DEFINE num == Num(f, n)
           S == {i \in 1..(num + 1) : k <= s[n][i]}
<1>2. num + 1 \in S /\ S \subseteq Nat
  BY <1>1 DEF Between
<1>3. PICK i \in S : \A y \in S : i <= y
  <2> HIDE DEF S
  <2> QED  BY <1>2, LeastOf, Zenon
<1>4. i \in 1..(num + 1) /\ k <= s[n][i] /\ i \in Nat
  BY <1>2, <1>3
<1>5. s[n][i - 1] < k
  <2>1. CASE i = 1
    BY <2>1 DEF Between
  <2>2. CASE i # 1
    <3>1. i - 1 \in 1..(num + 1) /\ i - 1 \in Nat /\ ~(i <= i - 1)
      BY <2>2, <1>4, <1>1
    <3>2. i - 1 \notin S
      <4> HIDE DEF S
      <4> QED  BY <3>1, <1>3
    <3>3. ~(k <= s[n][i - 1])
      BY <3>1, <3>2
    <3> QED  BY <3>1, <3>3, <1>1
  <2> QED  BY <2>1, <2>2
<1>6. k < s[n][i] \/ k = s[n][i]
  BY <1>4, <1>1
<1>7. k = s[n][i] => i \in 1..num
  BY <1>4, <1>1 DEF Between
<1>8. i \in 1..num => i <= num /\ s[n][i] = f[n].keys[i]
  BY <1>1 DEF NodeFits
<1> QED  BY <1>4, <1>5, <1>6, <1>7, <1>8

\* A key within the span of a leaf is in the leaf.
LEMMA LeafHas ==
    ASSUME NEW f, NEW h, NEW s, NEW top, Typed(f, h, s), TreeFits(f, top, h, s),
           NEW n \in Here(f), f[n].leaf, NEW k \in KeysOf(f), Between(f, s, n, k)
    PROVE  \E i \in 1..Num(f, n) : f[n].keys[i] = k
<1>1. PICK m \in Here(f) : \E i \in 1..Num(f, m) : f[m].keys[i] = k
  BY DEF KeysOf
<1>2. PICK i \in 1..Num(f, m) : f[m].keys[i] = k
  BY <1>1
<1>3. h[n] = 0 /\ h[m] \in Nat
  BY HandlesIn DEF NodeFits
<1>4. m = n
  <2> SUFFICES ASSUME m # n PROVE FALSE
    OBVIOUS
  <2>1. h[m] >= h[n]
    BY <1>3
  <2> QED  BY <2>1, <1>2, NotWithin
<1> QED  BY <1>2, <1>4

\* The span of a child is within that of its parent.
LEMMA ChildWithin ==
    ASSUME NEW f, NEW h, NEW s, NEW top, NEW n, NEW i, NEW c, IsChild(f, h, s, top, n, i, c),
           NEW k \in Nat, Between(f, s, c, k)
    PROVE  Between(f, s, n, k) /\ s[n][i - 1] < k /\ k < s[n][i]
<1>1. /\ Num(f, n) \in Nat /\ i \in 1..(Num(f, n) + 1) /\ s[c][0] = s[n][i - 1]
      /\ s[c][Num(f, c) + 1] = s[n][i] /\ Rises(s[n], Num(f, n))
  BY DEF IsChild
<1>2. s[n][i - 1] < k /\ k < s[n][i]
  BY <1>1 DEF Between
<1>3. /\ \A y \in Nat : s[n][y] \in Nat
      /\ \A x, y \in 0..(Num(f, n) + 1) : x < y => s[n][x] < s[n][y]
  BY <1>1 DEF Rises
<1>4. i \in Nat /\ i - 1 \in Nat /\ i - 1 \in 0..(Num(f, n) + 1) /\ i \in 0..(Num(f, n) + 1)
      /\ 0 \in 0..(Num(f, n) + 1) /\ Num(f, n) + 1 \in 0..(Num(f, n) + 1)
      /\ (i - 1 = 0 \/ 0 < i - 1) /\ (i = Num(f, n) + 1 \/ i < Num(f, n) + 1)
  BY <1>1
<1>5. s[n][0] <= s[n][i - 1] /\ s[n][i] <= s[n][Num(f, n) + 1]
  BY <1>3, <1>4
<1>6. s[n][0] \in Nat /\ s[n][i - 1] \in Nat /\ s[n][i] \in Nat /\ s[n][Num(f, n) + 1] \in Nat
  BY <1>1, <1>3, <1>4
<1> QED  BY <1>2, <1>5, <1>6 DEF Between

\* The keys within the span of a node are its own and those within its children's.
LEMMA SpanIs ==
    ASSUME NEW f, NEW h, NEW s, NEW top, Typed(f, h, s), TreeFits(f, top, h, s), NEW n \in Here(f)
    PROVE  InSpan(f, s, n) = ToSet(f[n].keys) \cup UNION {InSpan(f, s, c) : c \in ToSet(f[n].child)}
<1>1. /\ Num(f, n) \in Nat /\ NodeFits(f, h, s, n) /\ n \in Nodes /\ f[n] \in NodeType
      /\ DOMAIN f[n].keys = 1..Num(f, n) /\ DOMAIN f[n].child = 1..Len(f[n].child)
  BY HandlesIn, NumIsNat DEF Typed
<1>2. \A k \in KeysOf(f) : k \in Nat
  BY KeysAreNat DEF KeysOf
<1>3. /\ ToSet(f[n].keys) = {f[n].keys[i] : i \in 1..Num(f, n)}
      /\ ToSet(f[n].child) = {f[n].child[i] : i \in 1..Len(f[n].child)}
  BY <1>1 DEF ToSet
<1>4. Len(f[n].child) = IF f[n].leaf THEN 0 ELSE Num(f, n) + 1
  BY <1>1 DEF NodeFits
<1>5. ASSUME NEW k \in ToSet(f[n].keys) PROVE k \in InSpan(f, s, n)
  <2>1. PICK i \in 1..Num(f, n) : k = f[n].keys[i]
    BY <1>3, <1>5
  <2>2. k \in Keys
    BY <2>1, <1>1 DEF NodeType, Num
  <2>3. k \in KeysOf(f)
    BY <2>1, <2>2 DEF KeysOf
  <2> QED  BY <2>1, <2>3, OwnKeyWithin DEF InSpan
<1>6. ASSUME NEW c \in ToSet(f[n].child), NEW k \in InSpan(f, s, c) PROVE k \in InSpan(f, s, n)
  <2>1. PICK i \in 1..Len(f[n].child) : c = f[n].child[i]
    BY <1>3, <1>6
  <2>2. ~f[n].leaf /\ i \in 1..(Num(f, n) + 1)
    BY <2>1, <1>1, <1>4
  <2>3. IsChild(f, h, s, top, n, i, c)
    BY <2>1, <2>2, TheChild
  <2> QED  BY <2>3, <1>2, ChildWithin DEF InSpan
<1>7. ASSUME NEW k \in InSpan(f, s, n), k \notin ToSet(f[n].keys)
      PROVE  \E c \in ToSet(f[n].child) : k \in InSpan(f, s, c)
  <2>1. k \in KeysOf(f) /\ k \in Nat /\ Between(f, s, n, k)
    BY <1>2, <1>7 DEF InSpan
  <2>2. \A i \in 1..Num(f, n) : f[n].keys[i] # k
    BY <1>3, <1>7
  <2>3. ~f[n].leaf
    BY <2>1, <2>2, LeafHas
  <2>4. PICK i \in 1..(Num(f, n) + 1) : s[n][i - 1] < k /\ ((i <= Num(f, n) /\ f[n].keys[i] = k) \/ k < s[n][i])
    BY <2>1, GapOf
  <2>5. k < s[n][i]
    BY <2>2, <2>4, <1>1
  <2>6. IsChild(f, h, s, top, n, i, f[n].child[i])
    BY <2>3, TheChild
  <2>7. Between(f, s, f[n].child[i], k)
    BY <2>4, <2>5, <2>6 DEF IsChild, Between
  <2>8. f[n].child[i] \in ToSet(f[n].child)
    BY <2>3, <1>3, <1>4
  <2> QED  BY <2>1, <2>7, <2>8 DEF InSpan
<1> QED  BY <1>5, <1>6, <1>7

-----------------------------------------------------------------------------
(* Balanced.                                                                 *)

HeightIs(v) == v = [n \in Used |-> IF Leaf(n) THEN 1 ELSE 1 + v[node[n].child[1]]]
BelowIs(v) == v = [n \in Used |-> ToSet(node[n].keys) \cup UNION {v[c] : c \in ToSet(node[n].child)}]

\* The children of a used node, in a state that TreeInv allows.
LEMMA ChildrenUsed ==
    ASSUME NEW h, NEW s, Good(node, root, op, h, s), NEW n \in Used
    PROVE  /\ n \in Here(node) /\ h[n] \in Nat /\ (Leaf(n) <=> h[n] = 0) /\ (Leaf(n) <=> node[n].leaf)
           /\ \A c \in ToSet(node[n].child) : c \in Used /\ h[c] \in Nat /\ h[n] = h[c] + 1
           /\ ~Leaf(n) => node[n].child[1] \in ToSet(node[n].child)
           /\ Leaf(n) => ToSet(node[n].child) = {}
<1>1. Used = Here(node)
  BY DEF Used, Here
<1>2. /\ h[n] \in Nat /\ NodeFits(node, h, s, n) /\ Num(node, n) \in Nat /\ n \in Nodes
      /\ Typed(node, h, s) /\ TreeFits(node, root, h, s)
  BY <1>1, Handles DEF Good
<1>3. DOMAIN node[n].child = 1..Len(node[n].child)
  BY <1>2, NumIsNat DEF Typed
<1>4. ToSet(node[n].child) = {node[n].child[i] : i \in 1..Len(node[n].child)}
  BY <1>3 DEF ToSet
<1>5. /\ Len(node[n].child) = IF node[n].leaf THEN 0 ELSE Num(node, n) + 1
      /\ (node[n].leaf <=> h[n] = 0)
      /\ \A i \in 1..Len(node[n].child) : Hangs(node, h, s, n, i)
  BY <1>2 DEF NodeFits
<1>6. ASSUME NEW c \in ToSet(node[n].child) PROVE c \in Used /\ h[c] \in Nat /\ h[n] = h[c] + 1
  <2>1. PICK i \in 1..Len(node[n].child) : c = node[n].child[i]
    BY <1>4, <1>6
  <2>2. c \in Here(node) /\ h[n] = h[c] + 1
    BY <2>1, <1>5 DEF Hangs
  <2> QED  BY <2>2, <1>1, Handles
<1>7. ~Leaf(n) => node[n].child[1] \in ToSet(node[n].child)
  BY <1>2, <1>4, <1>5 DEF Leaf
<1>8. Leaf(n) => ToSet(node[n].child) = {}
  BY <1>4, <1>5 DEF Leaf
<1> QED  BY <1>1, <1>2, <1>5, <1>6, <1>7, <1>8 DEF Leaf

\* Height is the label h, counted from 1.
LEMMA HeightLabelled ==
    ASSUME NEW h, NEW s, Good(node, root, op, h, s)
    PROVE  \A n \in Used : Height[n] = h[n] + 1
<1> DEFINE w == [n \in Used |-> h[n] + 1]
<1>1. HeightIs(w)
  <2>1. ASSUME NEW n \in Used PROVE h[n] + 1 = IF Leaf(n) THEN 1 ELSE 1 + w[node[n].child[1]]
    <3>1. CASE Leaf(n)
      BY <3>1, ChildrenUsed
    <3>2. CASE ~Leaf(n)
      <4> DEFINE c == node[n].child[1]
      <4>1. c \in Used /\ h[c] \in Nat /\ h[n] = h[c] + 1
        BY <3>2, ChildrenUsed
      <4> HIDE DEF c
      <4>2. w[c] = h[c] + 1
        BY <4>1
      <4>3. h[n] + 1 = 1 + w[c]
        <5> HIDE DEF w
        <5> QED  BY <4>1, <4>2
      <4> QED  BY <3>2, <4>3 DEF c
    <3> QED  BY <3>1, <3>2
  <2> QED  BY <2>1 DEF HeightIs
<1>2. HeightIs(Height)
  <2> HIDE DEF w
  <2> QED  BY <1>1 DEF Height, HeightIs
<1> DEFINE Bad == {d \in Nat : \E n \in Used : d = h[n] /\ Height[n] # h[n] + 1}
<1> SUFFICES ASSUME Bad # {} PROVE FALSE
  <2>1. \A n \in Used : h[n] \in Nat
    BY ChildrenUsed
  <2> QED  BY <2>1
<1>3. PICK d \in Bad : \A e \in Bad : d <= e
  <2>1. Bad \subseteq Nat
    OBVIOUS
  <2> HIDE DEF Bad
  <2> QED  BY <2>1, LeastOf, Zenon
<1>4. PICK n \in Used : d = h[n] /\ Height[n] # h[n] + 1
  BY <1>3
<1>5. Height[n] = IF Leaf(n) THEN 1 ELSE 1 + Height[node[n].child[1]]
  BY <1>2 DEF HeightIs
<1>6. ~Leaf(n)
  BY <1>4, <1>5, ChildrenUsed
<1> DEFINE c == node[n].child[1]
<1>7. c \in Used /\ h[c] \in Nat /\ h[n] = h[c] + 1
  BY <1>6, ChildrenUsed
<1>8. Height[c] # h[c] + 1
  BY <1>4, <1>5, <1>6, <1>7
<1>9. h[c] \in Bad
  BY <1>7, <1>8
<1>10. d <= h[c]
  <2> HIDE DEF Bad, c
  <2> QED  BY <1>3, <1>9
<1> QED  BY <1>4, <1>7, <1>10

\* Below is what the labels say is in the span of a node.
LEMMA BelowLabelled ==
    ASSUME NEW h, NEW s, Good(node, root, op, h, s)
    PROVE  \A n \in Used : Below[n] = InSpan(node, s, n)
<1>0. Typed(node, h, s) /\ TreeFits(node, root, h, s)
  BY DEF Good
<1>a. \A n \in Used : InSpan(node, s, n) = ToSet(node[n].keys) \cup UNION {InSpan(node, s, c) : c \in ToSet(node[n].child)}
  BY <1>0, SpanIs DEF Used, Here
<1>b. \A n \in Used : \A c \in ToSet(node[n].child) : c \in Used /\ h[c] \in Nat /\ h[n] = h[c] + 1
  BY ChildrenUsed, Zenon
<1> DEFINE w == [n \in Used |-> InSpan(node, s, n)]
<1>1. BelowIs(w)
  <2>1. ASSUME NEW n \in Used
        PROVE  InSpan(node, s, n) = ToSet(node[n].keys) \cup UNION {w[c] : c \in ToSet(node[n].child)}
    <3>1. \A c \in ToSet(node[n].child) : w[c] = InSpan(node, s, c)
      BY <1>b
    <3>2. {w[c] : c \in ToSet(node[n].child)} = {InSpan(node, s, c) : c \in ToSet(node[n].child)}
      <4> HIDE DEF w
      <4> QED  BY <3>1
    <3> QED  BY <3>2, <1>a
  <2> QED  BY <2>1 DEF BelowIs
<1>2. BelowIs(Below)
  <2> HIDE DEF w
  <2> QED  BY <1>1 DEF Below, BelowIs
<1> DEFINE Bad == {d \in Nat : \E n \in Used : d = h[n] /\ Below[n] # InSpan(node, s, n)}
<1> SUFFICES ASSUME Bad # {} PROVE FALSE
  <2>1. \A n \in Used : h[n] \in Nat
    BY ChildrenUsed
  <2> QED  BY <2>1
<1>3. PICK d \in Bad : \A e \in Bad : d <= e
  <2>1. Bad \subseteq Nat
    OBVIOUS
  <2> HIDE DEF Bad
  <2> QED  BY <2>1, LeastOf, Zenon
<1>4. PICK n \in Used : d = h[n] /\ Below[n] # InSpan(node, s, n)
  BY <1>3
<1>5. Below[n] = ToSet(node[n].keys) \cup UNION {Below[c] : c \in ToSet(node[n].child)}
  BY <1>2 DEF BelowIs
<1>6. \E c \in ToSet(node[n].child) : Below[c] # InSpan(node, s, c)
  <2> SUFFICES ASSUME \A c \in ToSet(node[n].child) : Below[c] = InSpan(node, s, c) PROVE FALSE
    OBVIOUS
  <2>1. {Below[c] : c \in ToSet(node[n].child)} = {InSpan(node, s, c) : c \in ToSet(node[n].child)}
    OBVIOUS
  <2> QED  BY <2>1, <1>4, <1>5, <1>a
<1>7. PICK c \in ToSet(node[n].child) : Below[c] # InSpan(node, s, c)
  BY <1>6
<1>8. c \in Used /\ h[c] \in Nat /\ h[n] = h[c] + 1
  BY <1>b, <1>7
<1>9. h[c] \in Bad
  BY <1>7, <1>8
<1>10. d <= h[c]
  <2> HIDE DEF Bad
  <2> QED  BY <1>3, <1>9
<1> QED  BY <1>4, <1>8, <1>10

\* A tree with labels is balanced.
LEMMA TreeIsBalanced == TreeInv => Balanced
<1> SUFFICES ASSUME TreeInv PROVE Balanced
  OBVIOUS
<1>1. PICK h, s : Good(node, root, op, h, s)
  BY DEF TreeInv
<1>2. Typed(node, h, s) /\ TreeFits(node, root, h, s) /\ Used = Here(node)
  BY <1>1 DEF Good, Used, Here
<1>3. ASSUME NEW n \in Used PROVE Sorted(n)
  <2>1. /\ n \in Here(node) /\ NodeFits(node, h, s, n) /\ Num(node, n) \in Nat /\ Count(n) = Num(node, n)
    BY <1>1, <1>2, Handles DEF Count, Num
  <2>2. ASSUME NEW i \in 1..Count(n), i < Count(n) PROVE node[n].keys[i] < node[n].keys[i + 1]
    <3>1. /\ i \in 0..(Num(node, n) + 1) /\ i + 1 \in 0..(Num(node, n) + 1) /\ i < i + 1
          /\ i \in 1..Num(node, n) /\ i + 1 \in 1..Num(node, n)
      BY <2>1, <2>2
    <3> QED  BY <2>1, <3>1 DEF NodeFits
  <2>3. ASSUME NEW i \in 1..Count(n), ~Leaf(n)
        PROVE  /\ \A k \in Below[node[n].child[i]] : k < node[n].keys[i]
               /\ \A k \in Below[node[n].child[i + 1]] : node[n].keys[i] < k
    <3> DEFINE l == node[n].child[i]
               r == node[n].child[i + 1]
    <3>1. i \in 1..(Num(node, n) + 1) /\ i + 1 \in 1..(Num(node, n) + 1) /\ i = (i + 1) - 1 /\ ~node[n].leaf
      BY <2>1, <2>3 DEF Leaf
    <3>2. IsChild(node, h, s, root, n, i, l) /\ IsChild(node, h, s, root, n, i + 1, r)
      BY <3>1, <2>1, <1>2, TheChild
    <3>3. s[n][i] = node[n].keys[i]
      BY <2>1, <2>3 DEF NodeFits
    <3>4. Below[l] = InSpan(node, s, l) /\ Below[r] = InSpan(node, s, r)
      BY <3>2, <1>1, <1>2, BelowLabelled DEF IsChild
    <3>5. \A k \in KeysOf(node) : k \in Nat
      BY KeysAreNat DEF KeysOf
    <3> HIDE DEF l, r
    <3>6. ASSUME NEW k \in Below[l] PROVE k < s[n][i]
      BY <3>2, <3>4, <3>5, <3>6, ChildWithin DEF InSpan
    <3>7. ASSUME NEW k \in Below[r] PROVE s[n][i] < k
      <4>1. s[n][(i + 1) - 1] < k
        BY <3>2, <3>4, <3>5, <3>7, ChildWithin DEF InSpan
      <4> QED  BY <4>1, <3>1
    <3> QED  BY <3>3, <3>6, <3>7 DEF l, r
  <2> QED  BY <2>2, <2>3 DEF Sorted
<1>4. ASSUME NEW n \in Used, NEW c \in ToSet(node[n].child) PROVE Height[c] = Height[node[n].child[1]]
  <2>1. c \in Used /\ h[c] \in Nat /\ h[n] = h[c] + 1
    BY <1>1, <1>4, ChildrenUsed
  <2>2. ~Leaf(n)
    BY <1>1, <1>4, ChildrenUsed
  <2> DEFINE d == node[n].child[1]
  <2>3. d \in Used /\ h[d] \in Nat /\ h[n] = h[d] + 1
    BY <1>1, <2>2, ChildrenUsed
  <2> HIDE DEF d
  <2>4. Height[c] = h[c] + 1 /\ Height[d] = h[d] + 1
    BY <1>1, <2>1, <2>3, HeightLabelled
  <2>5. h[c] = h[d]
    BY <2>1, <2>3
  <2> QED  BY <2>4, <2>5 DEF d
<1>5. ASSUME root # Nil PROVE Below[root] = Content
  <2>1. root \in Used /\ s[root][0] = 0 /\ s[root][Num(node, root) + 1] = Top
    BY <1>2, <1>5 DEF TreeFits
  <2>2. Content = KeysOf(node)
    BY <1>2, ContentIs DEF Typed, Content, ContentOf
  <2>3. InSpan(node, s, root) = KeysOf(node)
    BY <2>1, KeysAreNat DEF InSpan, Between, KeysOf
  <2> QED  BY <1>1, <2>1, <2>2, <2>3, BelowLabelled
<1>6. Shaped
  BY TreeIsShaped
<1> QED  BY <1>3, <1>4, <1>5, <1>6 DEF Balanced

\* In the middle of every call the tree is balanced: all leaves are at one depth, the
\* keys are in order across the nodes, and all of them can be reached from the root.
THEOREM AlwaysBalanced == TreeSpec => []Balanced
BY TreeStaysBalanced, TreeIsBalanced, PTL

-----------------------------------------------------------------------------
(* Positions.                                                                *)

\* p is the position of key k in the nodes f.
OnKey(f, p, k) == \E n \in Here(f) : \E i \in 1..Num(f, n) : p = <<n, i>> /\ f[n].keys[i] = k
\* p is the position of what the labels call x: a key, or a bound of the whole tree.
At(p, x) == (x \in {0, Top} => p = Nowhere) /\ (x \notin {0, Top} => OnKey(node, p, x))
\* No call is in progress.
Quiet(h, s) == Good(node, root, op, h, s) /\ op = Idle

\* The used nodes while no call is in progress.
LEMMA QuietNodes ==
    ASSUME NEW h, NEW s, Quiet(h, s), NEW n \in Used
    PROVE  /\ Typed(node, h, s) /\ TreeFits(node, root, h, s)
           /\ n \in Here(node) /\ n \in Nodes /\ n # Nil /\ NodeFits(node, h, s, n)
           /\ Count(n) \in Nat /\ Count(n) = Num(node, n) /\ (Leaf(n) <=> node[n].leaf)
           /\ h[n] \in Nat /\ h[n] <= h[root] /\ h[root] \in Nat
           /\ \A y \in Nat : s[n][y] \in Nat
           /\ \A x, y \in 0..(Count(n) + 1) : x < y => s[n][x] < s[n][y]
           /\ n # root \/ ~Leaf(n) => Count(n) >= 1
<1>1. Typed(node, h, s) /\ TreeFits(node, root, h, s) /\ Good(node, root, op, h, s) /\ op.do # "insert"
  BY DEF Quiet, Good, Idle
<1>2. n \in Here(node)
  BY DEF Used, Here
<1>3. n \in Nodes /\ n # Nil /\ NodeFits(node, h, s, n) /\ Num(node, n) \in Nat /\ h[n] \in Nat
  BY <1>1, <1>2, Handles
<1>4. root \in Here(node) /\ h[root] \in Nat
  BY <1>1, <1>2, Handles DEF TreeFits
<1>5. h[n] <= h[root]
  BY <1>1, <1>2, <1>3, <1>4 DEF TreeFits, Grounded
<1>6. Rises(s[n], Num(node, n)) /\ \A y \in Nat : s[n][y] \in Nat
  BY <1>1, <1>2, RowOf
<1>7. n # root => Num(node, n) >= 1
  BY <1>1, <1>2, <1>3, NodeSizes DEF Good, Filled
<1>8. ~node[n].leaf => Num(node, n) # 0
  BY <1>1, <1>2, NotGrowing
<1> QED  BY <1>1, <1>2, <1>3, <1>4, <1>5, <1>6, <1>7, <1>8 DEF Count, Num, Leaf, Rises

\* No key lies between two that are next to each other in a leaf.
LEMMA LeafGap ==
    ASSUME NEW h, NEW s, Quiet(h, s), NEW n \in Used, Leaf(n), NEW g \in 1..(Count(n) + 1),
           NEW z \in Content
    PROVE  z \in Nat /\ (z <= s[n][g - 1] \/ z >= s[n][g])
<1>1. /\ Typed(node, h, s) /\ TreeFits(node, root, h, s)
      /\ n \in Here(node) /\ NodeFits(node, h, s, n) /\ node[n].leaf
      /\ Count(n) \in Nat /\ Count(n) = Num(node, n)
      /\ \A y \in Nat : s[n][y] \in Nat
      /\ \A x, y \in 0..(Count(n) + 1) : x < y => s[n][x] < s[n][y]
  BY QuietNodes
<1>2. z \in KeysOf(node) /\ z \in Nat
  <2>1. z \in KeysOf(node)
    BY <1>1, ContentIs DEF Typed, Content, ContentOf, Used, Here
  <2> QED  BY <2>1, KeysAreNat DEF KeysOf
<1>3. /\ g \in Nat /\ g - 1 \in Nat /\ g \in 0..(Count(n) + 1) /\ g - 1 \in 0..(Count(n) + 1)
      /\ 0 \in 0..(Count(n) + 1) /\ Count(n) + 1 \in 0..(Count(n) + 1)
      /\ (g - 1 = 0 \/ 0 < g - 1) /\ (g = Count(n) + 1 \/ g < Count(n) + 1)
  BY <1>1
<1> SUFFICES ASSUME s[n][g - 1] < z, z < s[n][g] PROVE FALSE
  BY <1>1, <1>2, <1>3
<1>4. s[n][0] <= s[n][g - 1] /\ s[n][g] <= s[n][Count(n) + 1]
  BY <1>1, <1>3
<1>5. /\ s[n][0] \in Nat /\ s[n][g - 1] \in Nat /\ s[n][g] \in Nat /\ s[n][Count(n) + 1] \in Nat
  BY <1>1, <1>3
<1>6. Between(node, s, n, z)
  BY <1>1, <1>2, <1>4, <1>5 DEF Between
<1>7. PICK i \in 1..Num(node, n) : node[n].keys[i] = z
  BY <1>1, <1>2, <1>6, LeafHas
<1>8. s[n][i] = z /\ i \in 0..(Count(n) + 1) /\ i \in Nat
  BY <1>1, <1>7 DEF NodeFits
<1>9. i <= g - 1 \/ g <= i
  BY <1>3, <1>8
<1>10. CASE i <= g - 1
  <2>1. s[n][i] <= s[n][g - 1]
    BY <1>10, <1>1, <1>3, <1>5, <1>8
  <2> QED  BY <2>1, <1>2, <1>5, <1>8
<1>11. CASE g <= i
  <2>1. s[n][g] <= s[n][i]
    BY <1>11, <1>1, <1>3, <1>5, <1>8
  <2> QED  BY <2>1, <1>2, <1>5, <1>8
<1> QED  BY <1>9, <1>10, <1>11

\* The separators of a node are keys, and their positions are theirs.
LEMMA SeparatorAt ==
    ASSUME NEW h, NEW s, Quiet(h, s), NEW n \in Used, NEW i \in 1..Count(n)
    PROVE  OnKey(node, <<n, i>>, s[n][i]) /\ At(<<n, i>>, s[n][i]) /\ s[n][i] = node[n].keys[i]
<1>1. /\ n \in Here(node) /\ Count(n) = Num(node, n) /\ NodeFits(node, h, s, n) /\ n \in Nodes /\ Typed(node, h, s)
  BY QuietNodes
<1>2. s[n][i] = node[n].keys[i]
  BY <1>1 DEF NodeFits
<1>3. node[n].keys[i] \in Keys
  BY <1>1 DEF Typed, Forest, NodeType, Num
<1>4. s[n][i] \notin {0, Top}
  BY <1>2, <1>3, KeysAreNat DEF Top
<1> QED  BY <1>1, <1>2, <1>4 DEF OnKey, At

-----------------------------------------------------------------------------
(* The ways of Inc and Dec.                                                  *)

FirstIs(v) == v = [n \in Used |-> IF Leaf(n) THEN <<n, 1>> ELSE v[node[n].child[1]]]
LastIs(v) == v = [n \in Used |-> IF Leaf(n) THEN <<n, Count(n)>> ELSE v[node[n].child[Count(n) + 1]]]
UpNextIs(v) == v = [n \in Used |->
    IF n = root THEN Nowhere
    ELSE LET q == node[n].parent IN IF ChildIndex(n) <= Count(q) THEN <<q, ChildIndex(n)>> ELSE v[q]]
UpPrevIs(v) == v = [n \in Used |->
    IF n = root THEN Nowhere
    ELSE LET q == node[n].parent IN IF ChildIndex(n) > 1 THEN <<q, ChildIndex(n) - 1>> ELSE v[q]]

\* The child at an index of an inner node.
LEMMA ChildAt ==
    ASSUME NEW h, NEW s, Quiet(h, s), NEW n \in Used, ~Leaf(n), NEW i \in 1..(Count(n) + 1),
           NEW c, c = node[n].child[i]
    PROVE  /\ c \in Used /\ c # root /\ h[c] \in Nat /\ h[n] = h[c] + 1 /\ Count(c) >= 1
           /\ s[c][0] = s[n][i - 1] /\ s[c][Count(c) + 1] = s[n][i]
<1>1. /\ n \in Here(node) /\ ~node[n].leaf /\ i \in 1..(Num(node, n) + 1) /\ Good(node, root, op, h, s)
  BY QuietNodes DEF Quiet
<1>2. /\ c \in Here(node) /\ h[n] = h[c] + 1 /\ c # root
      /\ s[c][0] = s[n][i - 1] /\ s[c][Num(node, c) + 1] = s[n][i]
  BY <1>1, ChildIs
<1>3. c \in Used
  BY <1>2 DEF Here, Used
<1>4. h[c] \in Nat /\ Count(c) = Num(node, c) /\ Count(c) >= 1
  BY <1>2, <1>3, QuietNodes
<1> QED  BY <1>2, <1>3, <1>4

\* The parent of a node, and the index of the node there.
LEMMA ParentAt ==
    ASSUME NEW h, NEW s, Quiet(h, s), NEW n \in Used, n # root, NEW q, q = node[n].parent, NEW i, i = ChildIndex(n)
    PROVE  /\ q \in Used /\ h[q] \in Nat /\ h[q] = h[n] + 1 /\ i \in 1..(Count(q) + 1)
           /\ s[n][0] = s[q][i - 1] /\ s[n][Count(n) + 1] = s[q][i]
<1>1. n \in Here(node) /\ Typed(node, h, s) /\ TreeFits(node, root, h, s) /\ Count(n) = Num(node, n)
  BY QuietNodes
<1>2. q \in Here(node) /\ \E x \in Nat : IsChild(node, h, s, root, q, x, n)
  BY <1>1, ChildSomewhere
<1>3. PICK x \in Nat : IsChild(node, h, s, root, q, x, n)
  BY <1>2
<1>4. q \in Used
  BY <1>2 DEF Here, Used
<1>5. Count(q) = Num(node, q) /\ q \in Nodes
  BY <1>4, QuietNodes
<1>6. DOMAIN node[q].child = 1..(Num(node, q) + 1)
  <2>1. Len(node[q].child) = Num(node, q) + 1
    BY <1>3 DEF IsChild
  <2> QED  BY <2>1, <1>1, <1>5, NumIsNat DEF Typed
<1>7. x \in DOMAIN node[q].child /\ node[q].child[x] = n
  BY <1>3, <1>6 DEF IsChild
<1>8. i \in DOMAIN node[q].child /\ node[q].child[i] = n
  BY <1>7 DEF ChildIndex
<1>9. IsChild(node, h, s, root, q, i, n)
  <2>1. ~node[q].leaf
    BY <1>3 DEF IsChild
  <2> QED  BY <2>1, <1>1, <1>2, <1>6, <1>8, TheChild
<1> QED  BY <1>1, <1>4, <1>5, <1>9 DEF IsChild

\* The ways down and up come nearer to their ends.
LEMMA RankUp ==
    ASSUME NEW h, NEW s, Quiet(h, s)
    PROVE  \E rank, bound : /\ bound \in Nat /\ \A n \in Used : rank[n] \in Nat /\ rank[n] < bound
                            /\ \A n \in Used : n # root => node[n].parent \in Used /\ rank[node[n].parent] < rank[n]
<1> DEFINE rank == [n \in Used |-> h[root] - h[n]]
           bound == h[root] + 1
<1>1. CASE Used = {}
  <2>1. 0 \in Nat /\ (\A n \in Used : rank[n] \in Nat /\ rank[n] < 0)
        /\ (\A n \in Used : n # root => node[n].parent \in Used /\ rank[node[n].parent] < rank[n])
    BY <1>1
  <2> HIDE DEF rank
  <2> QED  BY <2>1
<1>2. CASE Used # {}
  <2>1. h[root] \in Nat
    BY <1>2, QuietNodes
  <2>2. ASSUME NEW n \in Used PROVE rank[n] \in Nat /\ rank[n] < bound /\ rank[n] = h[root] - h[n] /\ h[n] \in Nat
    BY <2>1, <2>2, QuietNodes
  <2>3. ASSUME NEW n \in Used, n # root
        PROVE  node[n].parent \in Used /\ rank[node[n].parent] < rank[n]
    <3>1. node[n].parent \in Used /\ h[node[n].parent] = h[n] + 1
      BY <2>3, ParentAt
    <3>2. rank[node[n].parent] = h[root] - h[node[n].parent] /\ rank[n] = h[root] - h[n] /\ h[n] \in Nat
      BY <3>1, <2>2
    <3> QED  BY <3>1, <3>2, <2>1
  <2>4. bound \in Nat
    BY <2>1
  <2> HIDE DEF rank, bound
  <2> QED  BY <2>2, <2>3, <2>4
<1> QED  BY <1>1, <1>2

\* Downwards: the height of a node is a rank.
LEMMA RankDown ==
    ASSUME NEW h, NEW s, Quiet(h, s)
    PROVE  \E bound \in Nat : \A n \in Used : h[n] \in Nat /\ h[n] < bound
<1>1. CASE Used = {}
  BY <1>1
<1>2. CASE Used # {}
  <2>1. h[root] + 1 \in Nat
    BY <1>2, QuietNodes
  <2>2. \A n \in Used : h[n] \in Nat /\ h[n] < h[root] + 1
    BY QuietNodes
  <2> QED  BY <2>1, <2>2
<1> QED  BY <1>1, <1>2

\* The leftmost and the rightmost key below a node, and what is above it on
\* either side: there are such ways, and they lead there.
LEMMA FirstWay ==
    ASSUME NEW h, NEW s, Quiet(h, s)
    PROVE  /\ \E v : FirstIs(v)
           /\ \A v : FirstIs(v) => \A n \in Used : n # root =>
                \E m \in Used : Leaf(m) /\ m # root /\ s[m][0] = s[n][0] /\ v[n] = <<m, 1>>
<1> DEFINE Stop == {n \in Used : Leaf(n)}
           val == [n \in Used |-> <<n, 1>>]
           next == [n \in Used |-> node[n].child[1]]
<1>1. ASSUME NEW v PROVE FirstIs(v) <=> WayFrom(v, Used, Stop, val, next)
  <2>1. \A n \in Used : (IF Leaf(n) THEN <<n, 1>> ELSE v[node[n].child[1]]) = IF n \in Stop THEN val[n] ELSE v[next[n]]
    OBVIOUS
  <2> HIDE DEF Stop, val, next
  <2> QED  BY <2>1 DEF FirstIs, WayFrom
<1>2. PICK bound \in Nat : \A n \in Used : h[n] \in Nat /\ h[n] < bound
  BY RankDown
<1>3. ASSUME NEW n \in Used, n \notin Stop
      PROVE  next[n] \in Used /\ next[n] # root /\ h[next[n]] < h[n] /\ s[next[n]][0] = s[n][0]
  <2> DEFINE c == node[n].child[1]
  <2>1. ~Leaf(n) /\ 1 \in 1..(Count(n) + 1)
    BY <1>3, QuietNodes
  <2>2. c \in Used /\ c # root /\ h[c] \in Nat /\ h[n] = h[c] + 1 /\ s[c][0] = s[n][1 - 1]
    BY <2>1, ChildAt
  <2>3. next[n] = c
    OBVIOUS
  <2> HIDE DEF c, next
  <2> QED  BY <2>2, <2>3
<1>4. Nearer(Used, Stop, next, h)
  BY <1>3 DEF Nearer
<1>5. \E v : FirstIs(v)
  <2> HIDE DEF Stop, val, next
  <2> QED  BY <1>1, <1>2, <1>4, WayExists
<1>6. ASSUME NEW v, FirstIs(v), NEW n \in Used, n # root
      PROVE  \E m \in Used : Leaf(m) /\ m # root /\ s[m][0] = s[n][0] /\ v[n] = <<m, 1>>
  <2> DEFINE T == {m \in Used : m # root /\ s[m][0] = s[n][0]}
  <2>1. T \subseteq Used /\ n \in T
    BY <1>6
  <2>2. \A m \in T : m \notin Stop => next[m] \in T
    BY <1>3
  <2>3. WayFrom(v, Used, Stop, val, next)
    BY <1>1, <1>6
  <2>4. \E m \in T : m \in Stop /\ v[n] = val[m]
    <3> HIDE DEF T, Stop, val, next
    <3> QED  BY <2>1, <2>2, <2>3, <1>2, <1>4, WayEnds
  <2> QED  BY <2>4
<1> QED  BY <1>5, <1>6

\* There is a way to the last key below a node, and that key is the last before the
\* upper bound of the node; below the root that bound is also the bound of a leaf.
LEMMA LastWay ==
    ASSUME NEW h, NEW s, Quiet(h, s)
    PROVE  /\ \E v : LastIs(v)
           /\ \A v : LastIs(v) => \A n \in Used : n # root =>
                \E m \in Used : /\ Leaf(m) /\ m # root /\ s[m][Count(m) + 1] = s[n][Count(n) + 1]
                                /\ v[n] = <<m, Count(m)>>
<1> DEFINE Stop == {n \in Used : Leaf(n)}
           val == [n \in Used |-> <<n, Count(n)>>]
           next == [n \in Used |-> node[n].child[Count(n) + 1]]
           end(n) == s[n][Count(n) + 1]
<1>1. ASSUME NEW v PROVE LastIs(v) <=> WayFrom(v, Used, Stop, val, next)
  <2>1. \A n \in Used : (IF Leaf(n) THEN <<n, Count(n)>> ELSE v[node[n].child[Count(n) + 1]])
                         = IF n \in Stop THEN val[n] ELSE v[next[n]]
    OBVIOUS
  <2> HIDE DEF Stop, val, next
  <2> QED  BY <2>1 DEF LastIs, WayFrom
<1>2. PICK bound \in Nat : \A n \in Used : h[n] \in Nat /\ h[n] < bound
  BY RankDown
<1>3. ASSUME NEW n \in Used, n \notin Stop
      PROVE  next[n] \in Used /\ next[n] # root /\ h[next[n]] < h[n] /\ end(next[n]) = end(n)
  <2> DEFINE c == node[n].child[Count(n) + 1]
  <2>1. ~Leaf(n) /\ Count(n) + 1 \in 1..(Count(n) + 1)
    BY <1>3, QuietNodes
  <2>2. c \in Used /\ c # root /\ h[c] \in Nat /\ h[n] = h[c] + 1 /\ s[c][Count(c) + 1] = s[n][Count(n) + 1]
    BY <2>1, ChildAt
  <2>3. next[n] = c
    OBVIOUS
  <2> HIDE DEF c, next
  <2> QED  BY <2>2, <2>3
<1>4. Nearer(Used, Stop, next, h)
  BY <1>3 DEF Nearer
<1>5. \E v : LastIs(v)
  <2> HIDE DEF Stop, val, next
  <2> QED  BY <1>1, <1>2, <1>4, WayExists
<1>6. ASSUME NEW v, LastIs(v), NEW n \in Used, n # root
      PROVE  \E m \in Used : Leaf(m) /\ m # root /\ end(m) = end(n) /\ v[n] = <<m, Count(m)>>
  <2> DEFINE T == {m \in Used : m # root /\ end(m) = end(n)}
  <2>1. T \subseteq Used /\ n \in T
    BY <1>6
  <2>2. \A m \in T : m \notin Stop => next[m] \in T
    <3> HIDE DEF Stop, next, end
    <3> QED  BY <1>3
  <2>3. WayFrom(v, Used, Stop, val, next)
    BY <1>1, <1>6
  <2>4. \E m \in T : m \in Stop /\ v[n] = val[m]
    <3> HIDE DEF T, Stop, val, next
    <3> QED  BY <2>1, <2>2, <2>3, <1>2, <1>4, WayEnds
  <2> QED  BY <2>4
<1> QED  BY <1>5, <1>6

\* There is a way up to what follows all that lies below a node: its upper bound.
LEMMA UpNextWay ==
    ASSUME NEW h, NEW s, Quiet(h, s)
    PROVE  /\ \E v : UpNextIs(v)
           /\ \A v : UpNextIs(v) => \A n \in Used : At(v[n], s[n][Count(n) + 1])
<1> DEFINE Stop == {n \in Used : n = root \/ ChildIndex(n) <= Count(node[n].parent)}
           val == [n \in Used |-> IF n = root THEN Nowhere ELSE <<node[n].parent, ChildIndex(n)>>]
           next == [n \in Used |-> node[n].parent]
           end(n) == s[n][Count(n) + 1]
<1>1. ASSUME NEW v PROVE UpNextIs(v) <=> WayFrom(v, Used, Stop, val, next)
  <2>1. \A n \in Used :
            (IF n = root THEN Nowhere
             ELSE LET q == node[n].parent IN IF ChildIndex(n) <= Count(q) THEN <<q, ChildIndex(n)>> ELSE v[q])
            = IF n \in Stop THEN val[n] ELSE v[next[n]]
    OBVIOUS
  <2> HIDE DEF Stop, val, next
  <2> QED  BY <2>1 DEF UpNextIs, WayFrom
<1>2. PICK rank, bound : /\ bound \in Nat /\ \A n \in Used : rank[n] \in Nat /\ rank[n] < bound
                         /\ \A n \in Used : n # root => node[n].parent \in Used /\ rank[node[n].parent] < rank[n]
  BY RankUp
<1>3. ASSUME NEW n \in Used, n \notin Stop
      PROVE  next[n] \in Used /\ rank[next[n]] < rank[n] /\ end(next[n]) = end(n)
  <2> DEFINE q == node[n].parent
             i == ChildIndex(n)
  <2>1. n # root /\ ~(i <= Count(q))
    BY <1>3
  <2>2. q \in Used /\ i \in 1..(Count(q) + 1) /\ end(n) = s[q][i] /\ rank[q] < rank[n]
    BY <2>1, <1>2, ParentAt
  <2>3. Count(q) \in Nat
    BY <2>2, QuietNodes
  <2>4. i = Count(q) + 1
    <3> HIDE DEF i, q
    <3> QED  BY <2>1, <2>2, <2>3
  <2>5. next[n] = q
    OBVIOUS
  <2> HIDE DEF q, next, i
  <2> QED  BY <2>2, <2>4, <2>5
<1>4. Nearer(Used, Stop, next, rank)
  BY <1>3 DEF Nearer
<1>5. \E v : UpNextIs(v)
  <2> HIDE DEF Stop, val, next
  <2> QED  BY <1>1, <1>2, <1>4, WayExists
<1>6. ASSUME NEW v, UpNextIs(v), NEW n \in Used PROVE At(v[n], end(n))
  <2> DEFINE T == {m \in Used : end(m) = end(n)}
  <2>1. T \subseteq Used /\ n \in T
    OBVIOUS
  <2>2. \A m \in T : m \notin Stop => next[m] \in T
    <3> HIDE DEF Stop, next, end
    <3> QED  BY <1>3
  <2>3. WayFrom(v, Used, Stop, val, next)
    BY <1>1, <1>6
  <2>4. \E m \in T : m \in Stop /\ v[n] = val[m]
    <3> HIDE DEF T, Stop, val, next
    <3> QED  BY <2>1, <2>2, <2>3, <1>2, <1>4, WayEnds
  <2>5. PICK m \in Used : end(m) = end(n) /\ m \in Stop /\ v[n] = val[m]
    BY <2>4
  <2>6. CASE m = root
    <3>1. end(m) = Top
      BY <2>6, QuietNodes DEF TreeFits
    <3>2. v[n] = Nowhere
      BY <2>5, <2>6
    <3> QED  BY <2>5, <3>1, <3>2 DEF At
  <2>7. CASE m # root
    <3> DEFINE q == node[m].parent
               i == ChildIndex(m)
    <3>1. i <= Count(q) /\ v[n] = <<q, i>>
      BY <2>5, <2>7
    <3>2. q \in Used /\ i \in 1..(Count(q) + 1) /\ end(m) = s[q][i]
      BY <2>7, ParentAt
    <3>3. Count(q) \in Nat
      BY <3>2, QuietNodes
    <3> HIDE DEF q, i, end
    <3>4. i \in 1..Count(q)
      BY <3>1, <3>2, <3>3
    <3>5. At(<<q, i>>, s[q][i])
      BY <3>2, <3>4, SeparatorAt
    <3> QED  BY <2>5, <3>1, <3>2, <3>5
  <2> QED  BY <2>6, <2>7
<1> QED  BY <1>5, <1>6

\* There is a way up to what precedes all that lies below a node: its lower bound.
LEMMA UpPrevWay ==
    ASSUME NEW h, NEW s, Quiet(h, s)
    PROVE  /\ \E v : UpPrevIs(v)
           /\ \A v : UpPrevIs(v) => \A n \in Used : At(v[n], s[n][0])
<1> DEFINE Stop == {n \in Used : n = root \/ ChildIndex(n) > 1}
           val == [n \in Used |-> IF n = root THEN Nowhere ELSE <<node[n].parent, ChildIndex(n) - 1>>]
           next == [n \in Used |-> node[n].parent]
<1>1. ASSUME NEW v PROVE UpPrevIs(v) <=> WayFrom(v, Used, Stop, val, next)
  <2>1. \A n \in Used :
            (IF n = root THEN Nowhere
             ELSE LET q == node[n].parent IN IF ChildIndex(n) > 1 THEN <<q, ChildIndex(n) - 1>> ELSE v[q])
            = IF n \in Stop THEN val[n] ELSE v[next[n]]
    OBVIOUS
  <2> HIDE DEF Stop, val, next
  <2> QED  BY <2>1 DEF UpPrevIs, WayFrom
<1>2. PICK rank, bound : /\ bound \in Nat /\ \A n \in Used : rank[n] \in Nat /\ rank[n] < bound
                         /\ \A n \in Used : n # root => node[n].parent \in Used /\ rank[node[n].parent] < rank[n]
  BY RankUp
<1>3. ASSUME NEW n \in Used, n \notin Stop
      PROVE  next[n] \in Used /\ rank[next[n]] < rank[n] /\ s[next[n]][0] = s[n][0]
  <2> DEFINE q == node[n].parent
             i == ChildIndex(n)
  <2>1. n # root /\ ~(i > 1)
    BY <1>3
  <2>2. q \in Used /\ i \in 1..(Count(q) + 1) /\ s[n][0] = s[q][i - 1] /\ rank[q] < rank[n]
    BY <2>1, <1>2, ParentAt
  <2>3. Count(q) \in Nat
    BY <2>2, QuietNodes
  <2>4. i - 1 = 0
    <3> HIDE DEF i, q
    <3> QED  BY <2>1, <2>2, <2>3
  <2>5. next[n] = q
    OBVIOUS
  <2> HIDE DEF q, next, i
  <2> QED  BY <2>2, <2>4, <2>5
<1>4. Nearer(Used, Stop, next, rank)
  BY <1>3 DEF Nearer
<1>5. \E v : UpPrevIs(v)
  <2> HIDE DEF Stop, val, next
  <2> QED  BY <1>1, <1>2, <1>4, WayExists
<1>6. ASSUME NEW v, UpPrevIs(v), NEW n \in Used PROVE At(v[n], s[n][0])
  <2> DEFINE T == {m \in Used : s[m][0] = s[n][0]}
  <2>1. T \subseteq Used /\ n \in T
    OBVIOUS
  <2>2. \A m \in T : m \notin Stop => next[m] \in T
    <3> HIDE DEF Stop, next
    <3> QED  BY <1>3
  <2>3. WayFrom(v, Used, Stop, val, next)
    BY <1>1, <1>6
  <2>4. \E m \in T : m \in Stop /\ v[n] = val[m]
    <3> HIDE DEF T, Stop, val, next
    <3> QED  BY <2>1, <2>2, <2>3, <1>2, <1>4, WayEnds
  <2>5. PICK m \in Used : s[m][0] = s[n][0] /\ m \in Stop /\ v[n] = val[m]
    BY <2>4
  <2>6. CASE m = root
    <3>1. s[m][0] = 0
      BY <2>6, QuietNodes DEF TreeFits
    <3>2. v[n] = Nowhere
      BY <2>5, <2>6
    <3> QED  BY <2>5, <3>1, <3>2 DEF At
  <2>7. CASE m # root
    <3> DEFINE q == node[m].parent
               i == ChildIndex(m)
    <3>1. i > 1 /\ v[n] = <<q, i - 1>>
      BY <2>5, <2>7
    <3>2. q \in Used /\ i \in 1..(Count(q) + 1) /\ s[m][0] = s[q][i - 1]
      BY <2>7, ParentAt
    <3>3. Count(q) \in Nat
      BY <3>2, QuietNodes
    <3> HIDE DEF q, i
    <3>4. i - 1 \in 1..Count(q)
      BY <3>1, <3>2, <3>3
    <3>5. At(<<q, i - 1>>, s[q][i - 1])
      BY <3>2, <3>4, SeparatorAt
    <3> QED  BY <2>5, <3>1, <3>2, <3>5
  <2> QED  BY <2>6, <2>7
<1> QED  BY <1>5, <1>6

-----------------------------------------------------------------------------
(* Land.                                                                     *)

DownIs(v, k) == v = [n \in Used |-> IF Has(n, k) \/ Leaf(n) THEN <<n, GreaterEqual(n, k)>>
                                    ELSE v[node[n].child[GreaterEqual(n, k)]]]

\* The index GreaterEqual gives in any node.
LEMMA GapIn ==
    ASSUME NEW h, NEW s, Quiet(h, s), NEW n \in Used, NEW k \in Keys
    PROVE  GreaterEqual(n, k) \in 1..(Count(n) + 1)
<1>1. Count(n) \in Nat /\ n \in Nodes /\ Typed(node, h, s)
  BY QuietNodes
<1>2. \A i \in 1..Count(n) : node[n].keys[i] \in Nat
  BY <1>1, KeysAreNat DEF Typed, Forest, NodeType, Count
<1> QED  BY <1>1, <1>2, KeysAreNat, FirstNotBelow

\* The way down for k ends in a node that has it or in the leaf it would be in.
LEMMA LandIs ==
    ASSUME NEW h, NEW s, Quiet(h, s), NEW k \in Keys, root # Nil
    PROVE  \E m \in Used : /\ Land(k) = <<m, GreaterEqual(m, k)>> /\ Between(node, s, m, k)
                           /\ Has(m, k) \/ Leaf(m)
<1> DEFINE Stop == {n \in Used : Has(n, k) \/ Leaf(n)}
           val == [n \in Used |-> <<n, GreaterEqual(n, k)>>]
           next == [n \in Used |-> node[n].child[GreaterEqual(n, k)]]
           T == {n \in Used : Between(node, s, n, k)}
<1>1. ASSUME NEW v PROVE DownIs(v, k) <=> WayFrom(v, Used, Stop, val, next)
  <2>1. \A n \in Used : (IF Has(n, k) \/ Leaf(n) THEN <<n, GreaterEqual(n, k)>>
                                    ELSE v[node[n].child[GreaterEqual(n, k)]])
                         = IF n \in Stop THEN val[n] ELSE v[next[n]]
    OBVIOUS
  <2> HIDE DEF Stop, val, next
  <2> QED  BY <2>1 DEF DownIs, WayFrom
<1>2. PICK bound \in Nat : \A n \in Used : h[n] \in Nat /\ h[n] < bound
  BY RankDown
<1>3. ASSUME NEW n \in Used, n \notin Stop
      PROVE  next[n] \in Used /\ h[next[n]] < h[n] /\ (n \in T => next[n] \in T)
  <2> DEFINE g == GreaterEqual(n, k)
             c == node[n].child[g]
  <2>1. ~Leaf(n) /\ ~Has(n, k) /\ g \in 1..(Count(n) + 1)
    BY <1>3, GapIn
  <2>2. /\ c \in Used /\ c # root /\ h[c] \in Nat /\ h[n] = h[c] + 1 /\ s[c][0] = s[n][g - 1]
        /\ s[c][Count(c) + 1] = s[n][g]
    BY <2>1, ChildAt
  <2>3. n \in T => s[n][g - 1] < k /\ k < s[n][g]
    <3>1. n \in Here(node) /\ Good(node, root, op, h, s)
      BY QuietNodes DEF Quiet
    <3> HIDE DEF g
    <3> QED  BY <2>1, <3>1, GapFound DEF g
  <2>4. next[n] = c /\ Count(c) = Num(node, c)
    BY <2>2, QuietNodes
  <2> HIDE DEF c, next, g
  <2>5. n \in T => c \in T
    BY <2>2, <2>3, <2>4 DEF Between
  <2> HIDE DEF T
  <2> QED  BY <2>2, <2>4, <2>5
<1>4. Nearer(Used, Stop, next, h)
  BY <1>3 DEF Nearer
<1>5. \E v : DownIs(v, k)
  <2> HIDE DEF Stop, val, next
  <2> QED  BY <1>1, <1>2, <1>4, WayExists
<1>6. PICK v : DownIs(v, k) /\ Land(k) = v[root]
  BY <1>5 DEF Land, DownIs
<1>7. root \in T
  <2>1. root \in Here(node) /\ s[root][0] = 0 /\ s[root][Num(node, root) + 1] = Top
    BY DEF Quiet, Good, TreeFits
  <2> QED  BY <2>1, KeysAreNat DEF Between, Here, Used
<1>8. \E m \in T : m \in Stop /\ v[root] = val[m]
  <2>1. T \subseteq Used /\ \A m \in T : m \notin Stop => next[m] \in T
    BY <1>3
  <2>2. WayFrom(v, Used, Stop, val, next)
    BY <1>1, <1>6
  <2> HIDE DEF T, Stop, val, next
  <2> QED  BY <2>1, <2>2, <1>2, <1>4, <1>7, WayEnds
<1> QED  BY <1>6, <1>8

-----------------------------------------------------------------------------
(* Where ++, --, LowerBound and UpperBound lead.                             *)

\* p is where an iterator belongs that should be at key a, or at the end.
PlaceOf(p, a) == IF a = Nil THEN p = Nowhere ELSE a \in Keys /\ OnKey(node, p, a)
From(x) == {z \in Content : z >= x}
UpTo(x) == {z \in Content : z <= x}

\* Least and Greatest are the least and the greatest.
LEMMA ExtremeIs ==
    ASSUME NEW S, S \subseteq Nat, NEW x \in S
    PROVE  /\ (\A z \in S : x <= z) => Least(S) = x
           /\ (\A z \in S : z <= x) => Greatest(S) = x
<1>1. ASSUME \A z \in S : x <= z PROVE Least(S) = x
  <2>1. Least(S) \in S /\ \A y \in S : Least(S) <= y
    BY <1>1 DEF Least
  <2>2. Least(S) <= x /\ x <= Least(S) /\ x \in Nat /\ Least(S) \in Nat
    BY <1>1, <2>1
  <2> QED  BY <2>2
<1>2. ASSUME \A z \in S : z <= x PROVE Greatest(S) = x
  <2>1. Greatest(S) \in S /\ \A y \in S : Greatest(S) >= y
    BY <1>2 DEF Greatest
  <2>2. Greatest(S) >= x /\ x >= Greatest(S) /\ x \in Nat /\ Greatest(S) \in Nat
    BY <1>2, <2>1
  <2> QED  BY <2>2
<1> QED  BY <1>1, <1>2

\* The keys in the tree.
LEMMA ContentKeys ==
    ASSUME NEW h, NEW s, Quiet(h, s)
    PROVE  /\ \A z \in Content : z \in Keys /\ z \in Nat /\ 0 < z /\ z < Top
           /\ \A p, k : OnKey(node, p, k) => k \in Content
           /\ Top \in Nat
<1>1. Content = KeysOf(node) /\ node \in Forest
  BY ContentIs DEF Quiet, Good, Typed, Content, ContentOf, Used, Here
<1>2. \A z \in Content : z \in Keys
  BY <1>1 DEF KeysOf
<1>3. ASSUME NEW p, NEW k, OnKey(node, p, k) PROVE k \in KeysOf(node)
  <2>1. PICK n \in Here(node) : \E i \in 1..Num(node, n) : p = <<n, i>> /\ node[n].keys[i] = k
    BY <1>3 DEF OnKey
  <2>2. k \in Keys
    BY <1>1, <2>1 DEF Here, Forest, NodeType, Num
  <2> QED  BY <2>1, <2>2 DEF KeysOf
<1>4. Top \in Nat
  BY BTreeAssumption DEF Top
<1> QED  BY <1>1, <1>2, <1>3, <1>4, KeysAreNat

\* The position of a bound is that of the first key from there, and of the last one.
LEMMA AtEnds ==
    ASSUME NEW h, NEW s, Quiet(h, s), NEW p, NEW x \in Nat, At(p, x)
    PROVE  /\ 0 < x => PlaceOf(p, FirstOf(From(x)))
           /\ x < Top => PlaceOf(p, LastOf(UpTo(x)))
<1>1. /\ \A z \in Content : z \in Keys /\ z \in Nat /\ 0 < z /\ z < Top
      /\ \A k : OnKey(node, p, k) => k \in Content
      /\ Top \in Nat
  BY ContentKeys
<1>2. CASE x \notin {0, Top}
  <2>1. OnKey(node, p, x) /\ x \in Content
    BY <1>1, <1>2 DEF At
  <2>2. x \in From(x) /\ x \in UpTo(x) /\ From(x) \subseteq Nat /\ UpTo(x) \subseteq Nat
    <3>1. x >= x /\ x <= x /\ \A z \in Content : z \in Nat
      BY <1>1
    <3> QED  BY <2>1, <3>1 DEF From, UpTo
  <2>3. Least(From(x)) = x /\ Greatest(UpTo(x)) = x
    <3>1. (\A z \in From(x) : x <= z) /\ (\A z \in UpTo(x) : z <= x)
      BY <1>1 DEF From, UpTo
    <3> QED  BY <2>2, <3>1, ExtremeIs
  <2>4. FirstOf(From(x)) = x /\ LastOf(UpTo(x)) = x
    BY <2>2, <2>3 DEF FirstOf, LastOf
  <2>5. x # Nil /\ x \in Keys
    BY <1>1, <1>2, <2>1 DEF Nil
  <2> QED  BY <2>1, <2>4, <2>5 DEF PlaceOf
<1>3. CASE x = Top
  <2>1. From(x) = {}
    BY <1>1, <1>3 DEF From
  <2> QED  BY <2>1, <1>3, <1>1 DEF At, FirstOf, PlaceOf
<1>4. CASE x = 0
  <2>1. UpTo(x) = {}
    BY <1>1, <1>4 DEF UpTo
  <2> QED  BY <2>1, <1>4, <1>1 DEF At, LastOf, PlaceOf
<1> QED  BY <1>2, <1>3, <1>4

\* Inc and Dec, with their ways.
LEMMA IncIs ==
    ASSUME NEW h, NEW s, Quiet(h, s), NEW n \in Used, NEW i \in Nat
    PROVE  \E v, w : /\ FirstIs(v) /\ UpNextIs(w)
                     /\ Inc(<<n, i>>) = IF ~Leaf(n) THEN v[node[n].child[i + 1]]
                                        ELSE IF i < Count(n) THEN <<n, i + 1>> ELSE w[n]
<1>1. (\E v : FirstIs(v)) /\ (\E w : UpNextIs(w))
  BY FirstWay, UpNextWay
<1>2. Count(n) \in Nat
  BY QuietNodes
<1> DEFINE v == CHOOSE v : FirstIs(v)
           w == CHOOSE w : UpNextIs(w)
<1>3. FirstIs(v) /\ UpNextIs(w)
  BY <1>1
<1>4. Inc(<<n, i>>) = CASE ~Leaf(n)                  -> v[node[n].child[i + 1]]
                        [] Leaf(n) /\ i < Count(n)   -> <<n, i + 1>>
                        [] Leaf(n) /\ i >= Count(n)  -> w[n]
  BY DEF Inc, FirstIs, UpNextIs
<1> HIDE DEF v, w
<1>5. Inc(<<n, i>>) = IF ~Leaf(n) THEN v[node[n].child[i + 1]]
                                        ELSE IF i < Count(n) THEN <<n, i + 1>> ELSE w[n]
  BY <1>2, <1>4
<1> QED  BY <1>3, <1>5

\* Dec goes down to the last key below the child before, or up to what precedes the node.
LEMMA DecIs ==
    ASSUME NEW h, NEW s, Quiet(h, s), NEW n \in Used, NEW i \in Nat, i >= 1
    PROVE  \E v, w : /\ LastIs(v) /\ UpPrevIs(w)
                     /\ Dec(<<n, i>>) = IF ~Leaf(n) THEN v[node[n].child[i]]
                                        ELSE IF i > 1 THEN <<n, i - 1>> ELSE w[n]
<1>1. (\E v : LastIs(v)) /\ (\E w : UpPrevIs(w))
  BY LastWay, UpPrevWay
<1> DEFINE v == CHOOSE v : LastIs(v)
           w == CHOOSE w : UpPrevIs(w)
<1>3. LastIs(v) /\ UpPrevIs(w)
  BY <1>1
<1>4. Dec(<<n, i>>) = CASE ~Leaf(n)           -> v[node[n].child[i]]
                        [] Leaf(n) /\ i > 1   -> <<n, i - 1>>
                        [] Leaf(n) /\ i = 1   -> w[n]
  BY DEF Dec, LastIs, UpPrevIs
<1> HIDE DEF v, w
<1>5. Dec(<<n, i>>) = IF ~Leaf(n) THEN v[node[n].child[i]]
                                        ELSE IF i > 1 THEN <<n, i - 1>> ELSE w[n]
  BY <1>4
<1> QED  BY <1>3, <1>5

\* From any gap of a leaf: the next key of the leaf or, behind its last, the next above.
LEMMA LeafNext ==
    ASSUME NEW h, NEW s, Quiet(h, s), NEW n \in Used, Leaf(n), NEW g \in 1..(Count(n) + 1)
    PROVE  /\ At(IF g <= Count(n) THEN <<n, g>> ELSE Inc(<<n, g - 1>>), s[n][g])
           /\ s[n][g] \in Nat /\ 0 < s[n][g]
<1>1. /\ Count(n) \in Nat /\ \A y \in Nat : s[n][y] \in Nat
      /\ \A x, y \in 0..(Count(n) + 1) : x < y => s[n][x] < s[n][y]
  BY QuietNodes
<1>2. s[n][g] \in Nat /\ 0 < s[n][g]
  <2>1. 0 \in 0..(Count(n) + 1) /\ g \in 0..(Count(n) + 1) /\ 0 < g
    BY <1>1
  <2>2. s[n][0] < s[n][g] /\ s[n][0] \in Nat /\ s[n][g] \in Nat
    BY <1>1, <2>1
  <2> QED  BY <2>2
<1>3. CASE g <= Count(n)
  <2>1. g \in 1..Count(n)
    BY <1>1, <1>3
  <2> QED  BY <1>2, <1>3, <2>1, SeparatorAt
<1>4. CASE ~(g <= Count(n))
  <2>1. g = Count(n) + 1 /\ g - 1 = Count(n) /\ g - 1 \in Nat
    BY <1>1, <1>4
  <2>2. PICK v, w : /\ UpNextIs(w)
                    /\ Inc(<<n, g - 1>>) = IF ~Leaf(n) THEN v[node[n].child[(g - 1) + 1]]
                                        ELSE IF g - 1 < Count(n) THEN <<n, (g - 1) + 1>> ELSE w[n]
    BY <2>1, IncIs
  <2>3. Inc(<<n, g - 1>>) = w[n]
    BY <1>1, <2>1, <2>2
  <2> QED  BY <1>2, <1>4, <2>1, <2>2, <2>3, UpNextWay
<1> QED  BY <1>3, <1>4

\* From any gap of a leaf: the key of the leaf before it or, at its first, the one above.
LEMMA LeafPrev ==
    ASSUME NEW h, NEW s, Quiet(h, s), NEW n \in Used, Leaf(n), NEW g \in 1..(Count(n) + 1)
    PROVE  /\ At(IF g > 1 THEN <<n, g - 1>> ELSE Dec(<<n, 1>>), s[n][g - 1])
           /\ s[n][g - 1] \in Nat /\ s[n][g - 1] < Top
<1>1. /\ Count(n) \in Nat /\ \A y \in Nat : s[n][y] \in Nat
      /\ \A x, y \in 0..(Count(n) + 1) : x < y => s[n][x] < s[n][y]
      /\ Typed(node, h, s) /\ TreeFits(node, root, h, s) /\ n \in Here(node)
  BY QuietNodes
<1>2. CASE g > 1
  <2>1. g - 1 \in 1..Count(n)
    BY <1>1, <1>2
  <2>2. At(<<n, g - 1>>, s[n][g - 1]) /\ OnKey(node, <<n, g - 1>>, s[n][g - 1])
    BY <2>1, SeparatorAt
  <2>3. s[n][g - 1] \in Nat /\ s[n][g - 1] < Top
    BY <2>2, ContentKeys
  <2> QED  BY <1>2, <2>2, <2>3
<1>3. CASE ~(g > 1)
  <2>1. g - 1 = 0 /\ 1 \in Nat /\ 1 >= 1 /\ ~(1 > 1)
    BY <1>3
  <2>2. PICK v, w : /\ UpPrevIs(w)
                    /\ Dec(<<n, 1>>) = IF ~Leaf(n) THEN v[node[n].child[1]]
                                        ELSE IF 1 > 1 THEN <<n, 1 - 1>> ELSE w[n]
    BY <2>1, DecIs
  <2>3. Dec(<<n, 1>>) = w[n]
    BY <2>1, <2>2
  <2>4. At(Dec(<<n, 1>>), s[n][0])
    BY <2>2, <2>3, UpPrevWay
  <2>5. s[n][0] \in Nat /\ s[n][0] < Top
    <3>1. CASE s[n][0] = 0
      BY <3>1, BTreeAssumption DEF Top
    <3>2. CASE s[n][0] # 0
      <4>1. s[n][0] # Top
        <5>1. s[n][0] < s[n][Count(n) + 1] /\ s[n][0] \in Nat /\ s[n][Count(n) + 1] \in Nat
          <6>1. 0 \in 0..(Count(n) + 1) /\ Count(n) + 1 \in 0..(Count(n) + 1) /\ 0 < Count(n) + 1
            BY <1>1
          <6> QED  BY <1>1, <6>1
        <5>2. PICK w2 : UpNextIs(w2)
          BY UpNextWay
        <5>3. At(w2[n], s[n][Count(n) + 1])
          BY <5>2, UpNextWay
        <5>4. s[n][Count(n) + 1] <= Top
          BY <5>3, <5>1, ContentKeys DEF At
        <5> QED  BY <5>1, <5>4, ContentKeys
      <4>2. OnKey(node, Dec(<<n, 1>>), s[n][0])
        BY <2>4, <3>2, <4>1 DEF At
      <4> QED  BY <4>2, ContentKeys
    <3> QED  BY <3>1, <3>2
  <2> QED  BY <1>3, <2>1, <2>4, <2>5
<1> QED  BY <1>2, <1>3

\* ++ leads to the next key, -- to the one before.
LEMMA IncLeads ==
    ASSUME NEW h, NEW s, Quiet(h, s), NEW p, NEW a, OnKey(node, p, a)
    PROVE  PlaceOf(Inc(p), FirstOf({x \in Content : x > a}))
<1>1. PICK n \in Here(node) : \E i \in 1..Num(node, n) : p = <<n, i>> /\ node[n].keys[i] = a
  BY DEF OnKey
<1>2. PICK i \in 1..Num(node, n) : p = <<n, i>> /\ node[n].keys[i] = a
  BY <1>1
<1>3. n \in Used
  BY DEF Here, Used
<1>4. Count(n) = Num(node, n) /\ Count(n) \in Nat /\ i \in 1..Count(n) /\ i \in Nat
  BY <1>2, <1>3, QuietNodes
<1>5. s[n][i] = a
  BY <1>2, <1>3, <1>4, SeparatorAt
<1>6. a \in Nat /\ \A z \in Content : z \in Nat
  BY ContentKeys
<1>7. PICK v, w : /\ FirstIs(v)
                  /\ Inc(p) = IF ~Leaf(n) THEN v[node[n].child[i + 1]]
                              ELSE IF i < Count(n) THEN <<n, i + 1>> ELSE w[n]
  BY <1>2, <1>3, <1>4, IncIs
\* A leaf m, a gap g of it behind a, and Inc(p) at the end of the gap.
<1>8. \E m \in Used : \E g \in 1..(Count(m) + 1) :
         Leaf(m) /\ s[m][g - 1] = a /\ At(Inc(p), s[m][g]) /\ s[m][g] \in Nat /\ 0 < s[m][g]
  <2>1. CASE Leaf(n)
    <3>1. i + 1 \in 1..(Count(n) + 1) /\ (i + 1) - 1 = i /\ (i + 1 <= Count(n) <=> i < Count(n))
      BY <1>4
    <3>2. /\ At(IF i + 1 <= Count(n) THEN <<n, i + 1>> ELSE Inc(<<n, (i + 1) - 1>>), s[n][i + 1])
          /\ s[n][i + 1] \in Nat /\ 0 < s[n][i + 1]
      BY <1>3, <2>1, <3>1, LeafNext
    <3>3. Inc(p) = IF i + 1 <= Count(n) THEN <<n, i + 1>> ELSE Inc(<<n, (i + 1) - 1>>)
      BY <1>2, <1>7, <2>1, <3>1
    <3>4. s[n][(i + 1) - 1] = a
      BY <1>5, <3>1
    <3> QED  BY <1>3, <2>1, <3>1, <3>2, <3>3, <3>4
  <2>2. CASE ~Leaf(n)
    <3> DEFINE c == node[n].child[i + 1]
    <3>1. i + 1 \in 1..(Count(n) + 1) /\ (i + 1) - 1 = i
      BY <1>4
    <3>2. c \in Used /\ c # root /\ s[c][0] = s[n][(i + 1) - 1]
      BY <1>3, <2>2, <3>1, ChildAt
    <3>3. PICK m \in Used : Leaf(m) /\ m # root /\ s[m][0] = s[c][0] /\ v[c] = <<m, 1>>
      BY <3>2, <1>7, FirstWay
    <3>4. Inc(p) = <<m, 1>> /\ s[m][1 - 1] = a
      BY <3>1, <3>2, <3>3, <1>5, <1>7, <2>2
    <3>5. Count(m) \in Nat /\ Count(m) >= 1
      BY <3>3, QuietNodes
    <3>6. 1 \in 1..(Count(m) + 1) /\ 1 <= Count(m)
      BY <3>5
    <3>7. At(<<m, 1>>, s[m][1]) /\ s[m][1] \in Nat /\ 0 < s[m][1]
      BY <3>3, <3>6, LeafNext
    <3> QED  BY <3>3, <3>4, <3>6, <3>7
  <2> QED  BY <2>1, <2>2
<1>9. PICK m \in Used : \E g \in 1..(Count(m) + 1) :
         Leaf(m) /\ s[m][g - 1] = a /\ At(Inc(p), s[m][g]) /\ s[m][g] \in Nat /\ 0 < s[m][g]
  BY <1>8
<1>10. PICK g \in 1..(Count(m) + 1) :
         Leaf(m) /\ s[m][g - 1] = a /\ At(Inc(p), s[m][g]) /\ s[m][g] \in Nat /\ 0 < s[m][g]
  BY <1>9
<1>11. a < s[m][g]
  <2>1. Count(m) \in Nat /\ \A x, y \in 0..(Count(m) + 1) : x < y => s[m][x] < s[m][y]
    BY QuietNodes
  <2>2. g - 1 \in 0..(Count(m) + 1) /\ g \in 0..(Count(m) + 1) /\ g - 1 < g
    BY <2>1
  <2> QED  BY <2>1, <2>2, <1>10
<1>12. \A z \in Content : z \in Nat /\ (z <= a \/ z >= s[m][g])
  BY <1>10, LeafGap
<1>13. {x \in Content : x > a} = From(s[m][g])
  BY <1>6, <1>10, <1>11, <1>12 DEF From
<1> QED  BY <1>10, <1>13, AtEnds

\* -- leads to the greatest key that is smaller.
LEMMA DecLeads ==
    ASSUME NEW h, NEW s, Quiet(h, s), NEW p, NEW a, OnKey(node, p, a)
    PROVE  PlaceOf(Dec(p), LastOf({x \in Content : x < a}))
<1>1. PICK n \in Here(node) : \E i \in 1..Num(node, n) : p = <<n, i>> /\ node[n].keys[i] = a
  BY DEF OnKey
<1>2. PICK i \in 1..Num(node, n) : p = <<n, i>> /\ node[n].keys[i] = a
  BY <1>1
<1>3. n \in Used
  BY DEF Here, Used
<1>4. Count(n) = Num(node, n) /\ Count(n) \in Nat /\ i \in 1..Count(n) /\ i \in Nat /\ i >= 1
  BY <1>2, <1>3, QuietNodes
<1>5. s[n][i] = a
  BY <1>2, <1>3, <1>4, SeparatorAt
<1>6. a \in Nat /\ \A z \in Content : z \in Nat
  BY ContentKeys
<1>7. PICK v, w : /\ LastIs(v)
                  /\ Dec(p) = IF ~Leaf(n) THEN v[node[n].child[i]]
                              ELSE IF i > 1 THEN <<n, i - 1>> ELSE w[n]
  BY <1>2, <1>3, <1>4, DecIs
\* A leaf m, a gap g of it before a, and Dec(p) at the beginning of the gap.
<1>8. \E m \in Used : \E g \in 1..(Count(m) + 1) :
         Leaf(m) /\ s[m][g] = a /\ At(Dec(p), s[m][g - 1]) /\ s[m][g - 1] \in Nat /\ s[m][g - 1] < Top
  <2>1. CASE Leaf(n)
    <3>1. i \in 1..(Count(n) + 1) /\ (~(i > 1) => i = 1)
      BY <1>4
    <3>2. /\ At(IF i > 1 THEN <<n, i - 1>> ELSE Dec(<<n, 1>>), s[n][i - 1])
          /\ s[n][i - 1] \in Nat /\ s[n][i - 1] < Top
      BY <1>3, <2>1, <3>1, LeafPrev
    <3>3. Dec(p) = IF i > 1 THEN <<n, i - 1>> ELSE Dec(<<n, 1>>)
      BY <1>2, <1>7, <2>1, <3>1
    <3> QED  BY <1>3, <1>5, <2>1, <3>1, <3>2, <3>3
  <2>2. CASE ~Leaf(n)
    <3> DEFINE c == node[n].child[i]
    <3>1. i \in 1..(Count(n) + 1)
      BY <1>4
    <3>2. c \in Used /\ c # root /\ s[c][Count(c) + 1] = s[n][i]
      BY <1>3, <2>2, <3>1, ChildAt
    <3>3. PICK m \in Used : /\ Leaf(m) /\ m # root /\ s[m][Count(m) + 1] = s[c][Count(c) + 1]
                            /\ v[c] = <<m, Count(m)>>
      BY <3>2, <1>7, LastWay
    <3>4. Dec(p) = <<m, Count(m)>> /\ s[m][Count(m) + 1] = a
      BY <3>2, <3>3, <1>5, <1>7, <2>2
    <3>5. Count(m) \in Nat /\ Count(m) >= 1
      BY <3>3, QuietNodes
    <3>6. Count(m) + 1 \in 1..(Count(m) + 1) /\ Count(m) + 1 > 1 /\ (Count(m) + 1) - 1 = Count(m)
      BY <3>5
    <3> DEFINE g == Count(m) + 1
    <3>7. At(<<m, g - 1>>, s[m][g - 1]) /\ s[m][g - 1] \in Nat /\ s[m][g - 1] < Top
      BY <3>3, <3>6, LeafPrev
    <3>8. g \in 1..(Count(m) + 1) /\ s[m][g] = a /\ Dec(p) = <<m, g - 1>>
      BY <3>4, <3>6
    <3> HIDE DEF g
    <3> QED  BY <3>3, <3>7, <3>8
  <2> QED  BY <2>1, <2>2
<1>9. PICK m \in Used : \E g \in 1..(Count(m) + 1) :
         Leaf(m) /\ s[m][g] = a /\ At(Dec(p), s[m][g - 1]) /\ s[m][g - 1] \in Nat /\ s[m][g - 1] < Top
  BY <1>8
<1>10. PICK g \in 1..(Count(m) + 1) :
         Leaf(m) /\ s[m][g] = a /\ At(Dec(p), s[m][g - 1]) /\ s[m][g - 1] \in Nat /\ s[m][g - 1] < Top
  BY <1>9
<1>11. s[m][g - 1] < a
  <2>1. Count(m) \in Nat /\ \A x, y \in 0..(Count(m) + 1) : x < y => s[m][x] < s[m][y]
    BY QuietNodes
  <2>2. g - 1 \in 0..(Count(m) + 1) /\ g \in 0..(Count(m) + 1) /\ g - 1 < g
    BY <2>1
  <2> QED  BY <2>1, <2>2, <1>10
<1>12. \A z \in Content : z \in Nat /\ (z <= s[m][g - 1] \/ z >= a)
  BY <1>10, LeafGap
<1>13. {x \in Content : x < a} = UpTo(s[m][g - 1])
  BY <1>6, <1>10, <1>11, <1>12 DEF UpTo
<1> QED  BY <1>10, <1>13, AtEnds

\* LowerBound leads to the first key not below k, UpperBound to the last not above.
LEMMA BoundsLead ==
    ASSUME NEW h, NEW s, Quiet(h, s), NEW k \in Keys
    PROVE  PlaceOf(LowerBound(k), FirstOf(From(k))) /\ PlaceOf(UpperBound(k), LastOf(UpTo(k)))
<1>1. CASE root = Nil
  <2>1. Content = {}
    BY <1>1 DEF Quiet, Good, TreeFits, Here, Used, Content
  <2>2. From(k) = {} /\ UpTo(k) = {}
    BY <2>1 DEF From, UpTo
  <2> QED  BY <1>1, <2>2 DEF LowerBound, UpperBound, FirstOf, LastOf, PlaceOf
<1>2. CASE root # Nil
  <2>1. PICK m \in Used : /\ Land(k) = <<m, GreaterEqual(m, k)>> /\ Between(node, s, m, k)
                          /\ Has(m, k) \/ Leaf(m)
    BY <1>2, LandIs
  <2> DEFINE g == GreaterEqual(m, k)
             n == Count(m)
  <2>2. /\ n \in Nat /\ n = Num(node, m) /\ m \in Here(node) /\ Good(node, root, op, h, s)
        /\ \A y \in Nat : s[m][y] \in Nat
    BY QuietNodes DEF Quiet
  <2>3. /\ g \in 1..(n + 1) /\ g \in Nat /\ s[m][g - 1] < k
        /\ Has(m, k) => g <= n /\ s[m][g] = k
        /\ ~Has(m, k) => k < s[m][g]
    <3>1. /\ g \in 1..(Num(node, m) + 1) /\ g \in Nat /\ s[m][g - 1] < k
          /\ Has(m, k) => g <= Num(node, m) /\ s[m][g] = k /\ node[m].keys[g] = k
          /\ ~Has(m, k) => k < s[m][g]
      <4> HIDE DEF g
      <4> QED  BY <2>1, <2>2, GapFound DEF g
    <3> HIDE DEF g, n
    <3> QED  BY <3>1, <2>2
  <2>4. k \in Nat /\ 0 < k /\ k < Top /\ \A z \in Content : z \in Nat
    BY KeysAreNat, ContentKeys
  <2>5. /\ LowerBound(k) = IF g <= n THEN <<m, g>> ELSE Inc(<<m, g - 1>>)
        /\ UpperBound(k) = IF Has(m, k) THEN <<m, g>> ELSE IF g = 1 THEN Dec(<<m, g>>) ELSE <<m, g - 1>>
    <3> HIDE DEF g
    <3>1. Land(k) = <<m, g>>
      BY <2>1 DEF g
    <3> QED  BY <1>2, <3>1 DEF LowerBound, UpperBound
  <2> HIDE DEF g, n
  <2>6. CASE Has(m, k)
    <3>1. g \in 1..Count(m) /\ s[m][g] = k
      BY <2>2, <2>3, <2>6 DEF n
    <3>2. At(<<m, g>>, k)
      BY <3>1, SeparatorAt
    <3> QED  BY <2>3, <2>4, <2>5, <2>6, <3>2, AtEnds
  <2>7. CASE ~Has(m, k)
    <3>1. Leaf(m) /\ k < s[m][g] /\ s[m][g - 1] < k /\ g \in 1..(Count(m) + 1)
      BY <2>1, <2>3, <2>7 DEF n
    <3>2. \A z \in Content : z \in Nat /\ (z <= s[m][g - 1] \/ z >= s[m][g])
      BY <3>1, LeafGap
    <3>3. /\ At(IF g <= n THEN <<m, g>> ELSE Inc(<<m, g - 1>>), s[m][g]) /\ s[m][g] \in Nat /\ 0 < s[m][g]
      BY <3>1, LeafNext DEF n
    <3>4. /\ At(IF g > 1 THEN <<m, g - 1>> ELSE Dec(<<m, 1>>), s[m][g - 1])
          /\ s[m][g - 1] \in Nat /\ s[m][g - 1] < Top
      BY <3>1, LeafPrev
    <3>5. From(k) = From(s[m][g])
      <4>1. \A z \in Content : z >= k <=> z >= s[m][g]
        BY <2>4, <3>1, <3>2, <3>3, <3>4
      <4> QED  BY <4>1 DEF From
    <3>6. UpTo(k) = UpTo(s[m][g - 1])
      <4>1. \A z \in Content : z <= k <=> z <= s[m][g - 1]
        BY <2>4, <3>1, <3>2, <3>3, <3>4
      <4> QED  BY <4>1 DEF UpTo
    <3>7. UpperBound(k) = IF g > 1 THEN <<m, g - 1>> ELSE Dec(<<m, 1>>)
      BY <2>3, <2>5, <2>7
    <3>8. PlaceOf(LowerBound(k), FirstOf(From(s[m][g])))
      BY <2>5, <3>3, AtEnds
    <3>9. PlaceOf(UpperBound(k), LastOf(UpTo(s[m][g - 1])))
      BY <3>4, <3>7, AtEnds
    <3> QED  BY <3>5, <3>6, <3>8, <3>9
  <2> QED  BY <2>6, <2>7
<1> QED  BY <1>1, <1>2

-----------------------------------------------------------------------------
(* The iterators.                                                            *)

Places == [pos : (Nodes \cup {Nil}) \X Nat, deleted : BOOLEAN, loaded : BOOLEAN,
           key : Nat, at : Nat, lost : BOOLEAN]

\* An iterator that did not lose its place is on its key, or knows it if that was deleted.
Placed(f, x) ==
    /\ x.lost => x.pos = Nowhere
    /\ ~x.lost /\ x.deleted => x.pos = Nowhere /\ x.loaded /\ x.key = x.at /\ x.at \in Keys
    /\ ~x.lost /\ ~x.deleted =>
         /\ x.at = Nil => x.pos = Nowhere
         /\ x.at # Nil => x.at \in Keys /\ OnKey(f, x.pos, x.at)
         /\ x.loaded => x.key = x.at

PlaceInv == it \in [Iterators -> Places] /\ \A j \in Iterators : Placed(node, it[j])

\* A key is where GreaterEqual finds it.
LEMMA KeyStands ==
    ASSUME TreeInv, NEW p, NEW k \in Keys, OnKey(node, p, k)
    PROVE  StandsOn(p, k)
<1>1. PICK h, s : Good(node, root, op, h, s)
  BY DEF TreeInv
<1>2. Typed(node, h, s) /\ TreeFits(node, root, h, s)
  BY <1>1 DEF Good
<1>3. PICK n \in Here(node) : \E i \in 1..Num(node, n) : p = <<n, i>> /\ node[n].keys[i] = k
  BY DEF OnKey
<1>4. PICK i \in 1..Num(node, n) : p = <<n, i>> /\ node[n].keys[i] = k
  BY <1>3
<1>5. n \in Nodes /\ n # Nil /\ Num(node, n) \in Nat /\ DOMAIN node[n].keys = 1..Num(node, n)
  BY <1>1, <1>2, Handles, NumIsNat DEF Typed
<1>6. Has(n, k)
  BY <1>4, <1>5 DEF Has, ToSet
<1>7. Between(node, s, n, k)
  BY <1>2, <1>4, OwnKeyWithin
<1> DEFINE g == GreaterEqual(n, k)
<1>8. g \in 1..(Num(node, n) + 1) /\ g <= Num(node, n) /\ node[n].keys[g] = k
  <2> HIDE DEF g
  <2> QED  BY <1>1, <1>6, <1>7, GapFound DEF g
<1> HIDE DEF g
<1>9. g \in 1..Num(node, n)
  BY <1>5, <1>8
<1>10. i = g
  BY <1>2, <1>4, <1>8, <1>9, KeyOnce
<1>11. p # Nowhere /\ p[1] = n /\ p[2] = g /\ k # Nil
  BY <1>4, <1>5, <1>10, KeysAreNat DEF Nowhere, Nil
<1> QED  BY <1>6, <1>11 DEF StandsOn, g

\* So the iterators keep their places.
LEMMA PlacesKept == TreeInv /\ PlaceInv => KeepsPlace
<1> SUFFICES ASSUME TreeInv, PlaceInv, NEW j \in Iterators, ~it[j].lost
             PROVE  IF it[j].deleted THEN it[j].loaded /\ it[j].key = it[j].at
                    ELSE /\ StandsOn(it[j].pos, it[j].at)
                         /\ it[j].loaded => it[j].key = it[j].at
  BY DEF KeepsPlace
<1>1. Placed(node, it[j])
  BY DEF PlaceInv
<1>2. CASE it[j].deleted
  BY <1>1, <1>2 DEF Placed
<1>3. CASE ~it[j].deleted /\ it[j].at = Nil
  BY <1>1, <1>3 DEF Placed, StandsOn
<1>4. CASE ~it[j].deleted /\ it[j].at # Nil
  BY <1>1, <1>4, KeyStands DEF Placed
<1> QED  BY <1>2, <1>3, <1>4

\* An iterator that read its key, field by field.
ReadAs(x, b, k) == [x EXCEPT !.loaded = b, !.key = k]

\* Reading a key changes nothing but the copy of it.
LEMMA LoadIs ==
    ASSUME NEW x \in Places, NEW b \in BOOLEAN, NEW k \in Nat, NEW y, y = ReadAs(x, b, k)
    PROVE  /\ y \in Places /\ y.pos = x.pos /\ y.deleted = x.deleted /\ (y.loaded <=> b) /\ y.key = k
           /\ y.at = x.at /\ y.lost = x.lost
<1> DEFINE z == [x EXCEPT !.loaded = b]
           w == [z EXCEPT !.key = k]
<1>1. z \in Places /\ z.pos = x.pos /\ z.deleted = x.deleted /\ z.loaded = b /\ z.at = x.at /\ z.lost = x.lost
  BY DEF Places
<1>2. w \in Places /\ w.pos = z.pos /\ w.deleted = z.deleted /\ w.loaded = z.loaded /\ w.key = k /\ w.at = z.at /\ w.lost = z.lost
  <2> HIDE DEF z
  <2> QED  BY <1>1 DEF Places
<1> HIDE DEF z, w
<1>3. y = w
  BY DEF w, z, ReadAs
<1> QED  BY <1>1, <1>2, <1>3

\* Iterators that are put at a key, or behind the last.
LEMMA PutPlaced ==
    ASSUME node \in Forest, NEW p, NEW a, PlaceOf(p, a)
    PROVE  /\ Fresh(p, a) \in Places /\ Placed(node, Fresh(p, a))
           /\ p # Nowhere => Loaded(p, a) \in Places /\ Placed(node, Loaded(p, a))
<1>1. 0 \in Nat /\ Nil = 0 /\ \A k \in Keys : k \in Nat
  BY KeysAreNat DEF Nil
<1>2. a \in Nat /\ p \in (Nodes \cup {Nil}) \X Nat /\ (a # Nil => p # Nowhere /\ KeyAt(p) = a)
  <2>1. CASE a = Nil
    BY <2>1, <1>1 DEF PlaceOf, Nowhere
  <2>2. CASE a # Nil
    <3>1. PICK n \in Here(node) : \E i \in 1..Num(node, n) : p = <<n, i>> /\ node[n].keys[i] = a
      BY <2>2 DEF PlaceOf, OnKey
    <3>2. PICK i \in 1..Num(node, n) : p = <<n, i>> /\ node[n].keys[i] = a
      BY <3>1
    <3>3. n \in Nodes /\ n # Nil
      BY BTreeAssumption DEF Here, Nil
    <3>4. i \in Nat
      BY <3>2, <3>3, NumIsNat
    <3>5. p # Nowhere
      BY <3>2, <3>3 DEF Nowhere
    <3> QED  BY <2>2, <3>2, <3>3, <3>4, <3>5, <1>1 DEF PlaceOf, KeyAt
  <2> QED  BY <2>1, <2>2
<1>3. Fresh(p, a) \in Places
  BY <1>1, <1>2 DEF Fresh, Places
<1>4. Placed(node, Fresh(p, a))
  BY DEF Placed, PlaceOf, Fresh
<1>5. KeyAt(p) \in Nat
  <2>1. a = Nil => KeyAt(p) = Nil
    BY DEF PlaceOf, KeyAt
  <2> QED  BY <1>1, <1>2, <2>1
<1>6. ASSUME p # Nowhere PROVE Loaded(p, a) \in Places /\ Placed(node, Loaded(p, a))
  <2> DEFINE y == Loaded(p, a)
  <2>1. PICK b \in BOOLEAN : b = TRUE
    OBVIOUS
  <2>2. y = ReadAs(Fresh(p, a), b, KeyAt(p))
    BY <2>1, Zenon DEF ReadAs, Loaded
  <2> HIDE DEF y
  <2>3. /\ y \in Places /\ y.pos = Fresh(p, a).pos /\ y.deleted = Fresh(p, a).deleted /\ (y.loaded <=> b)
        /\ y.key = KeyAt(p) /\ y.at = Fresh(p, a).at /\ y.lost = Fresh(p, a).lost
    BY <2>2, <1>3, <1>5, LoadIs
  <2>4. y.pos = p /\ ~y.deleted /\ y.at = a /\ ~y.lost
    BY <2>3 DEF Fresh
  <2>5. Placed(node, y)
    BY <1>2, <1>6, <2>1, <2>3, <2>4 DEF Placed, PlaceOf
  <2> QED  BY <2>3, <2>5 DEF y
<1> QED  BY <1>3, <1>4, <1>6

\* One iterator moves; the tree stays.
LEMMA OneMoved ==
    ASSUME PlaceInv, NEW j \in Iterators, NEW x \in Places, Placed(node, x),
           it' = [it EXCEPT ![j] = x], node' = node
    PROVE  PlaceInv'
<1>1. it' \in [Iterators -> Places] /\ \A i \in Iterators : it'[i] = IF i = j THEN x ELSE it[i]
  BY DEF PlaceInv
<1>2. \A i \in Iterators : Placed(node, it'[i])
  BY <1>1 DEF PlaceInv
<1>3. \A i \in Iterators : Placed(node', it'[i])
  BY <1>2
<1> QED  BY <1>1, <1>3 DEF PlaceInv

\* Each step of an iterator leads it where it should be.
LEMMA IterateKeepsPlaces ==
    ASSUME TreeInv, PlaceInv, NEW j \in Iterators, Iterate(j)
    PROVE  PlaceInv'
<1>1. op = Idle /\ node' = node
  BY DEF Iterate, PlaceLower, PlaceUpper, Load, NextKey, PreviousKey, NextAgain, PreviousAgain
<1>2. PICK h, s : Good(node, root, op, h, s)
  BY DEF TreeInv
<1>3. Quiet(h, s) /\ node \in Forest
  BY <1>1, <1>2 DEF Quiet, Good, Typed
<1>4. it[j] \in Places /\ Placed(node, it[j])
  BY DEF PlaceInv
<1>5. ASSUME NEW k \in Keys, PlaceLower(j, k) PROVE PlaceInv'
  <2>1. PlaceOf(LowerBound(k), FirstOf({x \in Content : x >= k}))
    BY <1>3, BoundsLead DEF From
  <2>2. it' = [it EXCEPT ![j] = Fresh(LowerBound(k), FirstOf({x \in Content : x >= k}))]
    BY <1>5 DEF PlaceLower
  <2> QED  BY <1>1, <1>3, <2>1, <2>2, PutPlaced, OneMoved
<1>6. ASSUME NEW k \in Keys, PlaceUpper(j, k) PROVE PlaceInv'
  <2>1. PlaceOf(UpperBound(k), LastOf({x \in Content : x <= k}))
    BY <1>3, BoundsLead DEF UpTo
  <2>2. it' = [it EXCEPT ![j] = Fresh(UpperBound(k), LastOf({x \in Content : x <= k}))]
    BY <1>6 DEF PlaceUpper
  <2> QED  BY <1>1, <1>3, <2>1, <2>2, PutPlaced, OneMoved
\* An iterator that has a position is on its key.
<1>7. ASSUME it[j].pos # Nowhere
      PROVE  ~it[j].lost /\ ~it[j].deleted /\ it[j].at \in Keys /\ OnKey(node, it[j].pos, it[j].at)
  BY <1>4, <1>7 DEF Placed, Places
<1>8. ASSUME Load(j) PROVE PlaceInv'
  <2> DEFINE x == [it[j] EXCEPT !.loaded = TRUE, !.key = KeyAt(it[j].pos)]
  <2>1. it[j].pos # Nowhere /\ it' = [it EXCEPT ![j].loaded = TRUE, ![j].key = KeyAt(it[j].pos)]
    BY <1>8 DEF Load
  <2>2. it' = [it EXCEPT ![j] = x]
    BY <2>1 DEF PlaceInv
  <2>3. PlaceOf(it[j].pos, it[j].at) /\ it[j].at # Nil
    BY <2>1, <1>7, KeysAreNat DEF PlaceOf, Nil
  <2>4. KeyAt(it[j].pos) = it[j].at
    <3>1. PICK n \in Here(node) : \E i \in 1..Num(node, n) : it[j].pos = <<n, i>> /\ node[n].keys[i] = it[j].at
      BY <2>1, <1>7 DEF OnKey
    <3> QED  BY <2>1, <3>1 DEF KeyAt
  <2>5. x \in Places /\ Placed(node, x)
    <3>1. it[j].at \in Nat
      BY <1>4 DEF Places
    <3>2. /\ x \in Places /\ x.pos = it[j].pos /\ x.deleted = it[j].deleted /\ x.loaded
          /\ x.key = it[j].at /\ x.at = it[j].at /\ x.lost = it[j].lost
      <4>1. x = ReadAs(it[j], TRUE, it[j].at)
        BY <2>4 DEF ReadAs
      <4>2. PICK b \in BOOLEAN : b = TRUE
        OBVIOUS
      <4>3. x = ReadAs(it[j], b, it[j].at)
        BY <4>1, <4>2
      <4> HIDE DEF x
      <4>4. /\ x \in Places /\ x.pos = it[j].pos /\ x.deleted = it[j].deleted /\ (x.loaded <=> b)
            /\ x.key = it[j].at /\ x.at = it[j].at /\ x.lost = it[j].lost
        BY <1>4, <3>1, <4>3, LoadIs
      <4> QED  BY <4>2, <4>4
    <3>3. Placed(node, x)
      <4> HIDE DEF x
      <4> QED  BY <1>7, <2>1, <2>3, <3>2 DEF Placed
    <3> QED  BY <3>2, <3>3
  <2> HIDE DEF x
  <2> QED  BY <1>1, <2>2, <2>5, OneMoved
<1>9. ASSUME NextKey(j) PROVE PlaceInv'
  <2>1. /\ it[j].pos # Nowhere
        /\ it' = [it EXCEPT ![j] = Fresh(Inc(it[j].pos), FirstOf({x \in Content : x > it[j].at}))]
    BY <1>9 DEF NextKey
  <2>2. PlaceOf(Inc(it[j].pos), FirstOf({x \in Content : x > it[j].at}))
    BY <2>1, <1>3, <1>7, IncLeads
  <2> QED  BY <1>1, <1>3, <2>1, <2>2, PutPlaced, OneMoved
<1>10. ASSUME PreviousKey(j) PROVE PlaceInv'
  <2>1. /\ it[j].pos # Nowhere
        /\ it' = [it EXCEPT ![j] = Fresh(Dec(it[j].pos), LastOf({x \in Content : x < it[j].at}))]
    BY <1>10 DEF PreviousKey
  <2>2. PlaceOf(Dec(it[j].pos), LastOf({x \in Content : x < it[j].at}))
    BY <2>1, <1>3, <1>7, DecLeads
  <2> QED  BY <1>1, <1>3, <2>1, <2>2, PutPlaced, OneMoved
\* From a deleted key: to what the search finds, past the key if it is back.
<1>11. \A k \in Content : k \in Nat
  BY <1>3, ContentKeys
<1>12. ASSUME it[j].deleted, ~it[j].lost, NEW p, p = LowerBound(it[j].key)
       PROVE  PlaceOf(IF KeyAt(p) = it[j].key THEN Inc(p) ELSE p, FirstOf({x \in Content : x > it[j].at}))
  <2> DEFINE a == it[j].at
  <2>1. a \in Keys /\ it[j].key = a /\ a \in Nat /\ a # Nil
    BY <1>4, <1>12, KeysAreNat DEF Placed, Nil
  <2> HIDE DEF a
  <2>2. PlaceOf(p, FirstOf(From(a)))
    BY <2>1, <1>3, <1>12, BoundsLead
  <2>3. CASE a \in Content
    <3>1. a \in From(a) /\ From(a) \subseteq Nat /\ \A z \in From(a) : a <= z
      <4>1. a >= a /\ a <= a
        BY <2>1
      <4> QED  BY <1>11, <2>1, <2>3, <4>1 DEF From
    <3>2. FirstOf(From(a)) = a
      BY <3>1, ExtremeIs DEF FirstOf
    <3>3. OnKey(node, p, a)
      BY <2>1, <2>2, <3>2 DEF PlaceOf
    <3>4. KeyAt(p) = a
      <4>1. PICK n \in Here(node) : \E i \in 1..Num(node, n) : p = <<n, i>> /\ node[n].keys[i] = a
        BY <3>3 DEF OnKey
      <4>2. n # Nil
        BY BTreeAssumption DEF Here, Nil
      <4> QED  BY <4>1, <4>2 DEF KeyAt, Nowhere
    <3>5. PlaceOf(Inc(p), FirstOf({x \in Content : x > a}))
      BY <1>3, <3>3, IncLeads
    <3> QED  BY <2>1, <3>4, <3>5 DEF a
  <2>4. CASE a \notin Content
    <3>1. \A x \in Content : x >= a <=> x > a
      BY <1>11, <2>1, <2>4
    <3>2. From(a) = {x \in Content : x > a}
      BY <3>1 DEF From
    <3>3. KeyAt(p) # a
      <4> SUFFICES ASSUME KeyAt(p) = a PROVE FALSE
        OBVIOUS
      <4>1. p # Nowhere
        BY <2>1 DEF KeyAt
      <4>2. FirstOf(From(a)) # Nil
        BY <2>2, <4>1 DEF PlaceOf
      <4>3. OnKey(node, p, FirstOf(From(a)))
        BY <2>2, <4>2 DEF PlaceOf
      <4>4. PICK n \in Here(node) : \E i \in 1..Num(node, n) : p = <<n, i>> /\ node[n].keys[i] = FirstOf(From(a))
        BY <4>3 DEF OnKey
      <4>5. KeyAt(p) = FirstOf(From(a))
        BY <4>1, <4>4 DEF KeyAt
      <4> QED  BY <1>3, <2>4, <4>3, <4>5, ContentKeys
    <3> QED  BY <2>1, <2>2, <3>2, <3>3 DEF a
  <2> QED  BY <2>3, <2>4
<1>13. ASSUME it[j].deleted, ~it[j].lost, NEW p, p = UpperBound(it[j].key)
       PROVE  PlaceOf(IF KeyAt(p) = it[j].key THEN Dec(p) ELSE p, LastOf({x \in Content : x < it[j].at}))
  <2> DEFINE a == it[j].at
  <2>1. a \in Keys /\ it[j].key = a /\ a \in Nat /\ a # Nil
    BY <1>4, <1>13, KeysAreNat DEF Placed, Nil
  <2> HIDE DEF a
  <2>2. PlaceOf(p, LastOf(UpTo(a)))
    BY <2>1, <1>3, <1>13, BoundsLead
  <2>3. CASE a \in Content
    <3>1. a \in UpTo(a) /\ UpTo(a) \subseteq Nat /\ \A z \in UpTo(a) : z <= a
      <4>1. a >= a /\ a <= a
        BY <2>1
      <4> QED  BY <1>11, <2>1, <2>3, <4>1 DEF UpTo
    <3>2. LastOf(UpTo(a)) = a
      BY <3>1, ExtremeIs DEF LastOf
    <3>3. OnKey(node, p, a)
      BY <2>1, <2>2, <3>2 DEF PlaceOf
    <3>4. KeyAt(p) = a
      <4>1. PICK n \in Here(node) : \E i \in 1..Num(node, n) : p = <<n, i>> /\ node[n].keys[i] = a
        BY <3>3 DEF OnKey
      <4>2. n # Nil
        BY BTreeAssumption DEF Here, Nil
      <4> QED  BY <4>1, <4>2 DEF KeyAt, Nowhere
    <3>5. PlaceOf(Dec(p), LastOf({x \in Content : x < a}))
      BY <1>3, <3>3, DecLeads
    <3> QED  BY <2>1, <3>4, <3>5 DEF a
  <2>4. CASE a \notin Content
    <3>1. \A x \in Content : x <= a <=> x < a
      BY <1>11, <2>1, <2>4
    <3>2. UpTo(a) = {x \in Content : x < a}
      BY <3>1 DEF UpTo
    <3>3. KeyAt(p) # a
      <4> SUFFICES ASSUME KeyAt(p) = a PROVE FALSE
        OBVIOUS
      <4>1. p # Nowhere
        BY <2>1 DEF KeyAt
      <4>2. LastOf(UpTo(a)) # Nil
        BY <2>2, <4>1 DEF PlaceOf
      <4>3. OnKey(node, p, LastOf(UpTo(a)))
        BY <2>2, <4>2 DEF PlaceOf
      <4>4. PICK n \in Here(node) : \E i \in 1..Num(node, n) : p = <<n, i>> /\ node[n].keys[i] = LastOf(UpTo(a))
        BY <4>3 DEF OnKey
      <4>5. KeyAt(p) = LastOf(UpTo(a))
        BY <4>1, <4>4 DEF KeyAt
      <4> QED  BY <1>3, <2>4, <4>3, <4>5, ContentKeys
    <3> QED  BY <2>1, <2>2, <3>2, <3>3 DEF a
  <2> QED  BY <2>3, <2>4
<1>14. ASSUME NextAgain(j) PROVE PlaceInv'
  <2> DEFINE q == Onward(j)
             a == FirstOf({x \in Content : x > it[j].at})
  <2>1. it[j].deleted /\ ~it[j].lost /\ it' = [it EXCEPT ![j] = Loaded(q, a)]
    BY <1>14 DEF NextAgain
  <2>2. PlaceOf(q, a) /\ q # Nowhere
    BY <2>1, <1>12, <1>14 DEF NextAgain, Onward
  <2> HIDE DEF q, a
  <2> QED  BY <1>1, <1>3, <2>1, <2>2, PutPlaced, OneMoved
<1>15. ASSUME PreviousAgain(j) PROVE PlaceInv'
  <2> DEFINE q == Backward(j)
             a == LastOf({x \in Content : x < it[j].at})
  <2>1. it[j].deleted /\ ~it[j].lost /\ it' = [it EXCEPT ![j] = Loaded(q, a)]
    BY <1>15 DEF PreviousAgain
  <2>2. PlaceOf(q, a) /\ q # Nowhere
    BY <2>1, <1>13, <1>15 DEF PreviousAgain, Backward
  <2> HIDE DEF q, a
  <2> QED  BY <1>1, <1>3, <2>1, <2>2, PutPlaced, OneMoved
<1> QED  BY <1>5, <1>6, <1>8, <1>9, <1>10, <1>14, <1>15 DEF Iterate

\* The key at p in f is at q in g.
Follows(f, g, p, q) == \A k : OnKey(f, p, k) => OnKey(g, q, k)

\* An iterator without a position does not care for the tree.
LEMMA NoPosition ==
    ASSUME NEW x, NEW f, NEW g, Placed(f, x), x.pos = Nowhere
    PROVE  Placed(g, x)
<1>1. \A k : ~OnKey(f, Nowhere, k)
  BY BTreeAssumption DEF OnKey, Here, Nowhere, Nil
<1> QED  BY <1>1 DEF Placed

\* A position of a key, taken apart.
LEMMA PositionIs ==
    ASSUME NEW f \in Forest, NEW p, NEW k, OnKey(f, p, k)
    PROVE  \E m \in Here(f) : \E y \in Nat : /\ m \in Nodes /\ m # Nil /\ y \in 1..Num(f, m)
                                             /\ p = <<m, y>> /\ f[m].keys[y] = k
<1>1. PICK m \in Here(f) : \E y \in 1..Num(f, m) : p = <<m, y>> /\ f[m].keys[y] = k
  BY DEF OnKey
<1>2. PICK y \in 1..Num(f, m) : p = <<m, y>> /\ f[m].keys[y] = k
  BY <1>1
<1>3. m \in Nodes /\ m # Nil
  BY BTreeAssumption DEF Here, Nil
<1>4. y \in Nat
  BY <1>2, <1>3, NumIsNat
<1> QED  BY <1>2, <1>3, <1>4

\* One whose key went on, and its position with it.
LEMMA PositionMoved ==
    ASSUME NEW x \in Places, NEW f, NEW g \in Forest, Placed(f, x), x.pos # Nowhere,
           NEW q, Follows(f, g, x.pos, q)
    PROVE  [x EXCEPT !.pos = q] \in Places /\ Placed(g, [x EXCEPT !.pos = q])
<1>1. ~x.lost /\ ~x.deleted /\ x.at # Nil /\ x.at \in Keys /\ OnKey(f, x.pos, x.at) /\ (x.loaded => x.key = x.at)
  BY DEF Placed, Places
<1>2. OnKey(g, q, x.at)
  BY <1>1 DEF Follows
<1>3. PICK m \in Here(g) : \E y \in Nat : m \in Nodes /\ q = <<m, y>>
  BY <1>2, PositionIs
<1>4. q \in (Nodes \cup {Nil}) \X Nat
  BY <1>3
<1> DEFINE z == [x EXCEPT !.pos = q]
<1>5. /\ z \in Places /\ z.pos = q /\ z.deleted = x.deleted /\ z.loaded = x.loaded /\ z.key = x.key
      /\ z.at = x.at /\ z.lost = x.lost
  BY <1>4 DEF Places
<1> HIDE DEF z
<1>6. Placed(g, z)
  BY <1>1, <1>2, <1>5 DEF Placed
<1> QED  BY <1>5, <1>6 DEF z


\* Where nothing moves.
LEMMA TreeOnlyRead ==
    ASSUME PlaceInv, node' = node, it' = it
    PROVE  PlaceInv'
<1> QED  BY DEF PlaceInv

\* What a step may do to an iterator: leave it without a position, take its
\* position to where its key went, or put it where it should be.
Carried(g, x, y) ==
    \/ x.pos = Nowhere /\ y = x
    \/ x.pos # Nowhere /\ \E q : y = [x EXCEPT !.pos = q] /\ Follows(node, g, x.pos, q)
    \/ y \in Places /\ Placed(g, y)

\* If each is carried along, all keep their places.
LEMMA CarriedPlaces ==
    ASSUME PlaceInv, node' \in Forest, it' = [j \in Iterators |-> it'[j]],
           \A j \in Iterators : Carried(node', it[j], it'[j])
    PROVE  PlaceInv'
<1>1. ASSUME NEW j \in Iterators PROVE it'[j] \in Places /\ Placed(node', it'[j])
  <2>1. it[j] \in Places /\ Placed(node, it[j])
    BY DEF PlaceInv
  <2>2. CASE it[j].pos = Nowhere /\ it'[j] = it[j]
    BY <2>1, <2>2, NoPosition
  <2>3. CASE it[j].pos # Nowhere /\ \E q : it'[j] = [it[j] EXCEPT !.pos = q] /\ Follows(node, node', it[j].pos, q)
    <3>1. PICK q : it'[j] = [it[j] EXCEPT !.pos = q] /\ Follows(node, node', it[j].pos, q)
      BY <2>3
    <3>2. [it[j] EXCEPT !.pos = q] \in Places /\ Placed(node', [it[j] EXCEPT !.pos = q])
      BY <2>1, <2>3, <3>1, PositionMoved
    <3> QED  BY <3>1, <3>2
  <2> QED  BY <1>1, <2>2, <2>3 DEF Carried
<1>2. it' \in [Iterators -> Places]
  <2> DEFINE F == it'
  <2>1. F = [j \in Iterators |-> F[j]] /\ \A j \in Iterators : F[j] \in Places
    BY <1>1
  <2> HIDE DEF F
  <2>2. F \in [Iterators -> Places]
    BY <2>1
  <2> QED  BY <2>2 DEF F
<1> QED  BY <1>1, <1>2 DEF PlaceInv

-----------------------------------------------------------------------------
(* Insertion.                                                                *)

\* Nodes that keep their keys keep the positions.
LEMMA KeysStay ==
    ASSUME PlaceInv, node' \in Forest, it' = it,
           \A n \in Here(node) : n \in Here(node') /\ node'[n].keys = node[n].keys
    PROVE  PlaceInv'
<1>1. ASSUME NEW j \in Iterators PROVE it'[j] \in Places /\ Placed(node', it'[j])
  <2>1. it[j] \in Places /\ Placed(node, it[j])
    BY DEF PlaceInv
  <2>2. \A k : OnKey(node, it[j].pos, k) => OnKey(node', it[j].pos, k)
    BY DEF OnKey, Num
  <2>3. CASE it[j].pos = Nowhere
    BY <2>1, <2>3, NoPosition
  <2>4. CASE it[j].pos # Nowhere
    BY <2>1, <2>2, <2>4 DEF Placed
  <2> QED  BY <2>1, <2>3, <2>4
<1> QED  BY <1>1 DEF PlaceInv

\* A key is put into a node at i: the positions of the others move as InsertOne moves iterators.
LEMMA LeafFollows ==
    ASSUME NEW f \in Forest, NEW g \in Forest, NEW n \in Nodes, NEW i \in 1..(Num(f, n) + 1), NEW e,
           Here(f) \subseteq Here(g), \A m \in Nodes : m # n => g[m].keys = f[m].keys,
           Longer(g[n].keys, f[n].keys, i, e), NEW p
    PROVE  Follows(f, g, p, AfterInsert(n, i, p))
<1> SUFFICES ASSUME NEW k, OnKey(f, p, k) PROVE OnKey(g, AfterInsert(n, i, p), k)
  BY DEF Follows
<1>1. PICK m \in Here(f) : \E y \in Nat : m \in Nodes /\ y \in 1..Num(f, m) /\ p = <<m, y>> /\ f[m].keys[y] = k
  BY PositionIs
<1>2. PICK y \in Nat : m \in Nodes /\ y \in 1..Num(f, m) /\ p = <<m, y>> /\ f[m].keys[y] = k
  BY <1>1
<1>3. m \in Here(g) /\ Num(f, m) \in Nat /\ Num(f, n) \in Nat /\ i \in Nat
  BY <1>1, <1>2, NumIsNat
<1>4. CASE m = n /\ y >= i
  <2>1. AfterInsert(n, i, p) = <<n, y + 1>>
    BY <1>2, <1>4 DEF AfterInsert
  <2>2. y + 1 \in 1..Num(g, n) /\ g[n].keys[y + 1] = k
    <3>1. Len(f[n].keys) = Num(f, n) /\ Len(g[n].keys) = Num(g, n)
      BY DEF Num
    <3>2. Num(g, n) = Num(f, n) + 1 /\ y + 1 \in 1..(Num(f, n) + 1) /\ (y + 1) - 1 = y
      BY <1>2, <1>3, <1>4, <3>1 DEF Longer
    <3>3. g[n].keys[y + 1] = IF y + 1 < i THEN f[n].keys[y + 1] ELSE IF y + 1 = i THEN e ELSE f[n].keys[(y + 1) - 1]
      BY <3>1, <3>2 DEF Longer
    <3> QED  BY <1>2, <1>3, <1>4, <3>2, <3>3
  <2> QED  BY <1>3, <1>4, <2>1, <2>2 DEF OnKey
<1>5. CASE m = n /\ y < i
  <2>1. AfterInsert(n, i, p) = <<n, y>>
    BY <1>2, <1>3, <1>5 DEF AfterInsert
  <2>2. y \in 1..Num(g, n) /\ g[n].keys[y] = k
    <3>1. Len(f[n].keys) = Num(f, n) /\ Len(g[n].keys) = Num(g, n)
      BY DEF Num
    <3>2. Num(g, n) = Num(f, n) + 1 /\ y \in 1..(Num(f, n) + 1)
      BY <1>2, <1>3, <1>5, <3>1 DEF Longer
    <3> QED  BY <1>2, <1>3, <1>5, <3>1, <3>2 DEF Longer
  <2> QED  BY <1>3, <1>5, <2>1, <2>2 DEF OnKey
<1>6. CASE m # n
  <2>1. AfterInsert(n, i, p) = p
    BY <1>2, <1>6 DEF AfterInsert
  <2>2. Num(g, m) = Num(f, m) /\ g[m].keys[y] = k
    BY <1>2, <1>6 DEF Num
  <2> QED  BY <1>2, <1>3, <2>1, <2>2 DEF OnKey
<1> QED  BY <1>2, <1>3, <1>4, <1>5, <1>6

\* Insert puts its key into a leaf.
LEMMA InsertLeafPlaces ==
    ASSUME TreeInv, PlaceInv, InsertLeaf, TreeInv'
    PROVE  PlaceInv'
<1>1. PICK h, s : Good(node, root, op, h, s)
  BY DEF TreeInv
<1> DEFINE n == op.at
           k == op.key
           g == Ge
           num == Num(node, n)
<1>2. /\ op.do = "insert" /\ ~Has(n, k) /\ node[n].leaf
      /\ node' = [node EXCEPT ![n].keys = InsertAt(@, g, k)]
      /\ it' = [j \in Iterators |-> IF it[j].pos = Nowhere THEN it[j]
                                    ELSE [it[j] EXCEPT !.pos = AfterInsert(n, g, it[j].pos)]]
  BY DEF InsertLeaf, Inserting, Carry, Leaf
<1>3. n \in Here(node) /\ Between(node, s, n, k) /\ k \in Keys /\ n \in Nodes
  BY <1>1, <1>2 DEF Good, OpFits, OpTyped, Idle, Here
<1>4. node \in Forest /\ num \in Nat /\ node[n] \in NodeType /\ node' \in Forest
  BY <1>1, <1>3, Handles DEF Good, Typed, TreeInv
<1>5. g \in 1..(num + 1)
  BY <1>1, <1>2, <1>3, GeGap
<1> HIDE DEF g, k
<1>6. Longer(InsertAt(node[n].keys, g, k), node[n].keys, g, k)
  <2> DEFINE q == node[n].keys
  <2>1. q \in Seq(Keys) /\ g \in 1..(Len(q) + 1)
    BY <1>4, <1>5 DEF NodeType, Num
  <2> HIDE DEF q
  <2>2. Longer(InsertAt(q, g, k), q, g, k)
    BY <2>1, <1>3, InsertedIs
  <2> QED  BY <2>2 DEF q
<1>7. /\ node'[n].keys = InsertAt(node[n].keys, g, k) /\ node'[n].leaf
      /\ \A m \in Nodes : m # n => node'[m] = node[m]
  BY <1>2, <1>3, <1>4, Zenon DEF Forest, NodeType
<1>8. Here(node) \subseteq Here(node')
  BY <1>7, FreedIs DEF Here
<1>9. Longer(node'[n].keys, node[n].keys, g, k) /\ \A m \in Nodes : m # n => node'[m].keys = node[m].keys
  BY <1>6, <1>7
<1>10. ASSUME NEW p PROVE Follows(node, node', p, AfterInsert(n, g, p))
  <2> HIDE DEF n
  <2> QED  BY <1>3, <1>4, <1>5, <1>8, <1>9, LeafFollows DEF num
<1>11. ASSUME NEW j \in Iterators PROVE Carried(node', it[j], it'[j])
  <2>1. it'[j] = IF it[j].pos = Nowhere THEN it[j] ELSE [it[j] EXCEPT !.pos = AfterInsert(n, g, it[j].pos)]
    BY <1>2
  <2> QED  BY <2>1, <1>10 DEF Carried
<1>12. it' = [j \in Iterators |-> it'[j]]
  BY <1>2
<1> QED  BY <1>4, <1>11, <1>12, CarriedPlaces

\* Insert makes the first node.
LEMMA InsertFirstPlaces ==
    ASSUME TreeInv, PlaceInv, NEW k \in Keys, InsertFirst(k), TreeInv'
    PROVE  PlaceInv'
<1>1. Here(node) = {} /\ node' \in Forest /\ it' = it
  BY DEF InsertFirst, TreeInv, Good, TreeFits, Typed
<1> QED  BY <1>1, KeysStay

\* Insert puts a new root above a full one.
LEMMA InsertGrowPlaces ==
    ASSUME TreeInv, PlaceInv, NEW k \in Keys, InsertGrow(k), TreeInv'
    PROVE  PlaceInv'
<1>1. PICK h, s : Good(node, root, op, h, s)
  BY DEF TreeInv
<1> DEFINE n == NewNode
           r == root
           e == [node EXCEPT ![n] = [Freed EXCEPT !.child = <<r>>]]
<1>2. n \in Nodes /\ n \notin Here(node) /\ n # Nil
  BY NewIsFree, BTreeAssumption DEF InsertGrow, Nil
<1>3. node \in Forest /\ r \in Here(node) /\ r \in Nodes /\ r # n /\ node' \in Forest
  BY <1>1, <1>2, Handles DEF InsertGrow, Good, Typed, TreeInv
<1>4. node' = Adopt(e, {r}, n) /\ it' = it
  BY DEF InsertGrow
<1> HIDE DEF n, r
<1>5. e \in Forest /\ \A m \in Nodes : m # n => e[m] = node[m]
  <2>1. <<r>> \in Seq(Nodes)
    BY <1>3
  <2>2. [Freed EXCEPT !.child = <<r>>] \in NodeType
    BY <2>1, FreedIs DEF NodeType
  <2> QED  BY <2>2, <1>2, <1>3 DEF Forest
<1> HIDE DEF e
<1>6. /\ \A m \in Nodes : node'[m].keys = e[m].keys
      /\ \A m \in Nodes : m # r => node'[m] = e[m]
      /\ node'[r].parent = n
  BY <1>2, <1>3, <1>4, <1>5, AdoptIs
<1>7. ASSUME NEW m \in Here(node) PROVE m \in Here(node') /\ node'[m].keys = node[m].keys
  <2>1. m \in Nodes /\ m # n
    BY <1>2 DEF Here
  <2>2. CASE m = r
    BY <2>1, <2>2, <1>2, <1>5, <1>6, FreedIs DEF Here
  <2>3. CASE m # r
    BY <2>1, <2>3, <1>5, <1>6 DEF Here
  <2> QED  BY <2>2, <2>3
<1> QED  BY <1>3, <1>4, <1>7, KeysStay

-----------------------------------------------------------------------------
(* Deletion in a leaf.                                                       *)

\* Nothing changes if the position does not.
LEMMA SamePosition ==
    ASSUME NEW x \in Places
    PROVE  [x EXCEPT !.pos = x.pos] = x
<1> QED  BY DEF Places

\* An iterator at the end that took itself for deleted is in no place it could leave.
LEMMA LostPlaced ==
    ASSUME NEW b \in BOOLEAN, NEW f
    PROVE  Lost(b) \in Places /\ Placed(f, Lost(b))
<1>1. 0 \in Nat /\ Nil = 0
  BY DEF Nil
<1> DEFINE z == Fresh(Nowhere, Nil)
           w == [z EXCEPT !.deleted = b, !.lost = TRUE]
<1>2. z \in Places /\ z.pos = Nowhere
  BY <1>1 DEF Fresh, Places, Nowhere
<1> HIDE DEF z
<1>3. w \in Places /\ w.pos = Nowhere /\ w.lost
  BY <1>2 DEF Places
<1>4. Lost(b) = w
  BY DEF Lost, z
<1> HIDE DEF w
<1> QED  BY <1>3, <1>4 DEF Placed

\* An iterator whose key is deleted knows it, unless it takes itself for one at the end.
LEMMA BackupPlaced ==
    ASSUME PlaceInv, node \in Forest, NEW j \in Iterators, NEW n, NEW i, it[j].pos = <<n, i>>, n # Nil, NEW g
    PROVE  Backup(j, n, i) \in Places /\ Placed(g, Backup(j, n, i))
<1>1. it[j] \in Places /\ Placed(node, it[j]) /\ it[j].pos # Nowhere
  BY DEF PlaceInv, Nowhere
<1>2. /\ ~it[j].lost /\ ~it[j].deleted /\ it[j].at \in Keys /\ OnKey(node, it[j].pos, it[j].at)
      /\ it[j].loaded => it[j].key = it[j].at
  BY <1>1 DEF Placed, Places
<1>3. node[n].keys[i] = it[j].at
  BY <1>2, PositionIs
<1>4. CASE i = Count(n) /\ ~it[j].loaded
  <2>1. TRUE \in BOOLEAN
    OBVIOUS
  <2>2. Lost(TRUE) \in Places /\ Placed(g, Lost(TRUE))
    BY <2>1, LostPlaced
  <2> QED  BY <1>4, <2>2 DEF Backup
<1>5. CASE ~(i = Count(n) /\ ~it[j].loaded)
  <2> DEFINE x == it[j]
             a == it[j].at
             z == [x EXCEPT !.deleted = TRUE, !.pos = Nowhere, !.loaded = TRUE, !.key = a]
  <2>1. (IF x.loaded THEN x.key ELSE node[n].keys[i]) = a
    BY <1>2, <1>3
  <2>2. Backup(j, n, i) = z
    BY <1>5, <2>1 DEF Backup
  <2>3. a \in Nat /\ 0 \in Nat /\ Nil = 0 /\ x \in Places
    BY <1>1, <1>2, KeysAreNat DEF Nil
  <2>4. z \in Places /\ z.pos = Nowhere /\ z.deleted /\ z.loaded /\ z.key = a /\ z.at = x.at /\ z.lost = x.lost
    <3> HIDE DEF x, a
    <3> QED  BY <2>3 DEF Places, Nowhere
  <2> HIDE DEF z
  <2>5. Placed(g, z)
    BY <2>4, <1>2 DEF Placed
  <2> QED  BY <2>2, <2>4, <2>5
<1> QED  BY <1>4, <1>5

\* A key is taken out of a node at i: the positions of the others move.
LEMMA LeafTakenFollows ==
    ASSUME NEW f \in Forest, NEW g \in Forest, NEW n \in Nodes, NEW i \in 1..Num(f, n),
           Here(f) \subseteq Here(g), \A m \in Nodes : m # n => g[m].keys = f[m].keys,
           Shorter(g[n].keys, f[n].keys, i), NEW p, p # <<n, i>>
    PROVE  Follows(f, g, p, AfterDelete(n, i, p))
<1> SUFFICES ASSUME NEW k, OnKey(f, p, k) PROVE OnKey(g, AfterDelete(n, i, p), k)
  BY DEF Follows
<1>1. PICK m \in Here(f) : \E y \in Nat : m \in Nodes /\ y \in 1..Num(f, m) /\ p = <<m, y>> /\ f[m].keys[y] = k
  BY PositionIs
<1>2. PICK y \in Nat : m \in Nodes /\ y \in 1..Num(f, m) /\ p = <<m, y>> /\ f[m].keys[y] = k
  BY <1>1
<1>3. m \in Here(g) /\ Num(f, m) \in Nat /\ Num(f, n) \in Nat /\ i \in Nat
  BY <1>1, <1>2, NumIsNat
<1>4. /\ Num(g, n) = Num(f, n) - 1
      /\ \A x \in 1..(Num(f, n) - 1) : g[n].keys[x] = IF x < i THEN f[n].keys[x] ELSE f[n].keys[x + 1]
  BY DEF Shorter, Num
<1>5. CASE m = n /\ y > i
  <2>1. AfterDelete(n, i, p) = <<n, y - 1>>
    BY <1>2, <1>5 DEF AfterDelete
  <2>2. y - 1 \in 1..(Num(f, n) - 1) /\ ~(y - 1 < i) /\ (y - 1) + 1 = y
    BY <1>2, <1>3, <1>5
  <2>3. g[n].keys[y - 1] = f[n].keys[(y - 1) + 1]
    BY <1>4, <2>2
  <2> QED  BY <1>2, <1>3, <1>4, <1>5, <2>1, <2>2, <2>3 DEF OnKey
<1>6. CASE m = n /\ y < i
  <2>1. AfterDelete(n, i, p) = <<n, y>>
    BY <1>2, <1>3, <1>6 DEF AfterDelete
  <2>2. y \in 1..(Num(f, n) - 1)
    BY <1>2, <1>3, <1>6
  <2> QED  BY <1>2, <1>3, <1>4, <1>6, <2>1, <2>2 DEF OnKey
<1>7. CASE m # n
  <2>1. AfterDelete(n, i, p) = p
    BY <1>2, <1>7 DEF AfterDelete
  <2>2. Num(g, m) = Num(f, m) /\ g[m].keys[y] = k
    BY <1>2, <1>7 DEF Num
  <2> QED  BY <1>2, <1>3, <2>1, <2>2 DEF OnKey
<1>8. ~(m = n /\ y = i)
  BY <1>2
<1> QED  BY <1>2, <1>3, <1>5, <1>6, <1>7, <1>8

\* KeyDelete in a leaf.
LEMMA LeafTaken ==
    ASSUME NEW f \in Forest, NEW n \in Here(f), f[n].leaf, NEW i \in 1..Num(f, n), NEW g, g = KeyDelete(f, n, i), g \in Forest
    PROVE  /\ Here(f) \subseteq Here(g) /\ n \in Nodes /\ Shorter(g[n].keys, f[n].keys, i)
           /\ \A m \in Nodes : m # n => g[m] = f[m]
<1>1. n \in Nodes /\ f[n] \in NodeType
  BY NumIsNat DEF Here
<1>2. g[n].keys = RemoveAt(f[n].keys, i) /\ g[n].leaf /\ \A m \in Nodes : m # n => g[m] = f[m]
  BY <1>1, Zenon DEF KeyDelete, Forest, NodeType
<1>3. Shorter(RemoveAt(f[n].keys, i), f[n].keys, i)
  <2> DEFINE q == f[n].keys
  <2>1. q \in Seq(Keys) /\ i \in 1..Len(q)
    BY <1>1 DEF NodeType, Num
  <2> HIDE DEF q
  <2>2. Shorter(RemoveAt(q, i), q, i)
    BY <2>1, RemovedIs
  <2> QED  BY <2>2 DEF q
<1>4. Here(f) \subseteq Here(g)
  BY <1>2, FreedIs DEF Here
<1> QED  BY <1>1, <1>2, <1>3, <1>4

\* Delete takes its key out of a leaf.
LEMMA DeleteLeafPlaces ==
    ASSUME TreeInv, PlaceInv, DeleteLeaf, TreeInv'
    PROVE  PlaceInv'
<1>1. PICK h, s : Good(node, root, op, h, s)
  BY DEF TreeInv
<1> DEFINE n == op.at
           i == Ge
<1>2. /\ op.do = "delete" /\ n # Nil /\ node[n].leaf /\ op.inner = Nowhere /\ Has(n, op.key)
      /\ node' = KeyDelete(node, n, i)
      /\ it' = [j \in Iterators |-> IF it[j].pos = <<n, i>> THEN Backup(j, n, i)
                                    ELSE [it[j] EXCEPT !.pos = AfterDelete(n, i, it[j].pos)]]
  BY DEF DeleteLeaf, Deleting, Leaf, Found, Searching, CarryDelete
<1>3. n \in Here(node) /\ Between(node, s, n, op.key) /\ op.key \in Keys
  BY <1>1, <1>2, DeleteAt DEF DeleteOp
<1>4. Num(node, n) \in Nat /\ n \in Nodes /\ node \in Forest /\ node' \in Forest
  BY <1>1, <1>3, Handles DEF Good, Typed, TreeInv
<1>5. i \in 1..Num(node, n)
  BY <1>1, <1>2, <1>3, <1>4, GeGap
<1> HIDE DEF i, n
<1>6. /\ Here(node) \subseteq Here(node') /\ Shorter(node'[n].keys, node[n].keys, i)
      /\ \A m \in Nodes : m # n => node'[m] = node[m]
  BY <1>2, <1>3, <1>4, <1>5, LeafTaken
<1>7. ASSUME NEW p, p # <<n, i>> PROVE Follows(node, node', p, AfterDelete(n, i, p))
  BY <1>4, <1>5, <1>6, <1>7, LeafTakenFollows
<1>8. AfterDelete(n, i, Nowhere) = Nowhere
  BY <1>2 DEF AfterDelete, Nowhere
<1>9. ASSUME NEW j \in Iterators PROVE Carried(node', it[j], it'[j])
  <2>1. it'[j] = IF it[j].pos = <<n, i>> THEN Backup(j, n, i)
                 ELSE [it[j] EXCEPT !.pos = AfterDelete(n, i, it[j].pos)]
    BY <1>2
  <2>2. it[j] \in Places
    BY DEF PlaceInv
  <2>3. CASE it[j].pos = <<n, i>>
    BY <2>1, <2>3, <1>2, <1>4, BackupPlaced DEF Carried
  <2>4. CASE it[j].pos = Nowhere
    <3>1. <<n, i>> # Nowhere
      BY <1>2 DEF Nowhere
    <3>2. it'[j] = [it[j] EXCEPT !.pos = it[j].pos]
      BY <2>1, <2>4, <3>1, <1>8
    <3> QED  BY <2>2, <2>4, <3>2, SamePosition DEF Carried
  <2>5. CASE it[j].pos # <<n, i>> /\ it[j].pos # Nowhere
    BY <2>1, <2>5, <1>7 DEF Carried
  <2> QED  BY <2>3, <2>4, <2>5
<1>10. it' = [j \in Iterators |-> it'[j]]
  BY <1>2
<1> QED  BY <1>4, <1>9, <1>10, CarriedPlaces

-----------------------------------------------------------------------------
(* The replacement of a key above the leaves.                                *)

\* The key at x in node p becomes j.
LEMMA ReplacedIs ==
    ASSUME NEW f \in Forest, NEW p \in Here(f), NEW x \in 1..Num(f, p), NEW j \in Keys, NEW g, g = Replaced(f, p, x, j)
    PROVE  /\ g \in Forest /\ Here(g) = Here(f)
           /\ \A m \in Here(f) : Num(g, m) = Num(f, m)
           /\ \A m \in Here(f) : \A y \in 1..Num(f, m) :
                 g[m].keys[y] = IF m = p /\ y = x THEN j ELSE f[m].keys[y]
<1>1. p \in Nodes /\ f[p] \in NodeType /\ Num(f, p) \in Nat
  BY NumIsNat DEF Here
<1> DEFINE q == f[p].keys
           w == [q EXCEPT ![x] = j]
<1>2. q \in Seq(Keys) /\ Len(q) = Num(f, p)
  BY <1>1 DEF NodeType, Num
<1>3. w \in Seq(Keys) /\ Len(w) = Len(q) /\ \A y \in 1..Len(q) : w[y] = IF y = x THEN j ELSE q[y]
  <2> HIDE DEF q
  <2> QED  BY <1>2
<1>4. g = [f EXCEPT ![p] = [f[p] EXCEPT !.keys = w]]
  BY <1>1 DEF Replaced, Forest
<1> HIDE DEF w
<1>5. /\ [f[p] EXCEPT !.keys = w] \in NodeType /\ [f[p] EXCEPT !.keys = w].keys = w
      /\ [f[p] EXCEPT !.keys = w].child = f[p].child
  BY <1>1, <1>3 DEF NodeType
<1>6. g \in Forest /\ g[p].keys = w /\ \A m \in Nodes : m # p => g[m] = f[m]
  BY <1>1, <1>4, <1>5 DEF Forest
<1>7. Num(g, p) = Num(f, p)
  BY <1>2, <1>3, <1>6 DEF Num
<1>8. g[p] # Freed
  <2>1. x \in Nat /\ 1 <= x /\ x <= Num(f, p)
    BY <1>1
  <2> QED  BY <2>1, <1>1, <1>7, FreedIs DEF Num
<1>9. Here(g) = Here(f)
  BY <1>6, <1>8, <1>1 DEF Here
<1>10. \A m \in Here(f) : Num(g, m) = Num(f, m)
  BY <1>6, <1>7 DEF Num, Here
<1>11. ASSUME NEW m \in Here(f), NEW y \in 1..Num(f, m)
       PROVE  g[m].keys[y] = IF m = p /\ y = x THEN j ELSE f[m].keys[y]
  BY <1>2, <1>3, <1>6 DEF Here
<1> QED  BY <1>6, <1>9, <1>10, <1>11

\* The new key is found where the old one was; no other position changes.
LEMMA ReplacedFollows ==
    ASSUME NEW f \in Forest, NEW p \in Here(f), NEW x \in 1..Num(f, p), NEW j \in Keys, NEW g, g = Replaced(f, p, x, j)
    PROVE  /\ OnKey(g, <<p, x>>, j)
           /\ \A q : q # <<p, x>> => Follows(f, g, q, q)
<1>1. /\ Here(g) = Here(f) /\ \A m \in Here(f) : Num(g, m) = Num(f, m)
      /\ \A m \in Here(f) : \A y \in 1..Num(f, m) : g[m].keys[y] = IF m = p /\ y = x THEN j ELSE f[m].keys[y]
  BY ReplacedIs
<1>2. OnKey(g, <<p, x>>, j)
  BY <1>1 DEF OnKey
<1>3. ASSUME NEW q, q # <<p, x>>, NEW k, OnKey(f, q, k) PROVE OnKey(g, q, k)
  <2>1. PICK m \in Here(f) : \E y \in 1..Num(f, m) : q = <<m, y>> /\ f[m].keys[y] = k
    BY <1>3 DEF OnKey
  <2>2. PICK y \in 1..Num(f, m) : q = <<m, y>> /\ f[m].keys[y] = k
    BY <2>1
  <2>3. ~(m = p /\ y = x)
    BY <2>2, <1>3
  <2> QED  BY <2>1, <2>2, <2>3, <1>1 DEF OnKey
<1> QED  BY <1>2, <1>3 DEF Follows

\* Delete puts the neighbour from a leaf in place of the key in an inner node.
LEMMA DeleteReplacePlaces ==
    ASSUME TreeInv, PlaceInv, DeleteReplace, TreeInv'
    PROVE  PlaceInv'
<1>1. PICK h, s : Good(node, root, op, h, s)
  BY DEF TreeInv
<1> DEFINE n == op.at
           num == Num(node, n)
           i == IF op.leftmost THEN 1 ELSE num
           e == node[n].keys[i]
           p == op.inner[1]
           x == op.inner[2]
           f == KeyDelete(node, n, i)
           Turn(q) == AfterDelete(n, i, AfterMove(<<n, i>>, op.inner, q))
<1>2. /\ op.do = "delete" /\ n # Nil /\ node[n].leaf /\ op.inner # Nowhere
      /\ node' = KeyDelete([node EXCEPT ![p].keys[x] = e], n, i)
      /\ it' = [j \in Iterators |-> IF it[j].pos = op.inner THEN Lost(FALSE)
                                    ELSE [it[j] EXCEPT !.pos = Turn(it[j].pos)]]
  BY SMTT(30) DEF DeleteReplace, Deleting, Leaf, Searching, Count, Num
<1>3. /\ op \in DeleteOp /\ n \in Here(node) /\ p \in Here(node) /\ h[n] < h[p]
      /\ x \in 1..Num(node, p)
      /\ n # root => num > Empty
  BY <1>1, <1>2, DeleteAt
<1>4. /\ n \in Nodes /\ p \in Nodes /\ num \in Nat /\ h[n] \in Nat /\ h[p] \in Nat
      /\ node[n] \in NodeType /\ node \in Forest /\ op.leftmost \in BOOLEAN
      /\ Typed(node, h, s) /\ TreeFits(node, root, h, s) /\ root # Nil /\ node' \in Forest
  BY <1>1, <1>3, Handles DEF Good, DeleteOp, Typed, TreeFits, TreeInv
<1>5. n # root /\ n # p /\ p # Nil
  <2>1. p # root => h[p] < h[root]
    BY <1>3, <1>4 DEF TreeFits, Grounded
  <2>2. root \in Here(node) /\ h[root] \in Nat /\ p # Nil
    BY <1>1, <1>3, <1>4, Handles
  <2> QED  BY <2>1, <2>2, <1>3, <1>4
<1>6. i \in 1..num
  <2>1. num > Empty /\ num \in Nat
    BY <1>3, <1>4, <1>5, Zenon
  <2> HIDE DEF num
  <2>2. num >= 1
    BY <2>1, NodeSizes
  <2> QED  BY <2>1, <2>2 DEF i
<1>7. e \in Keys
  BY <1>4, <1>6, SMTT(30) DEF NodeType, Num
<1>8. op.inner = <<p, x>>
  BY <1>3 DEF DeleteOp
<1> HIDE DEF e, p, x, n
<1> HIDE DEF i
<1>9. f \in Forest
  <2>1. PICK s2 : Typed(f, h, s2)
    <3> QED  BY <1>2, <1>3, <1>4, <1>6, LeafWithout DEF num
  <2> QED  BY <2>1 DEF Typed
<1>10. /\ Here(node) \subseteq Here(f) /\ Shorter(f[n].keys, node[n].keys, i)
       /\ \A m \in Nodes : m # n => f[m] = node[m]
  BY <1>2, <1>3, <1>4, <1>6, <1>9, LeafTaken DEF num
<1>11. node' = Replaced(f, p, x, e)
  BY <1>2, <1>4, <1>5, Zenon DEF Replaced, KeyDelete, Forest
<1>12. p \in Here(f) /\ x \in 1..Num(f, p)
  <2> HIDE DEF f
  <2>1. f[p] = node[p] /\ p \in Here(f)
    BY <1>3, <1>4, <1>5, <1>10
  <2>2. Num(f, p) = Num(node, p)
    BY <2>1 DEF Num
  <2> QED  BY <2>1, <2>2, <1>3, Zenon
<1>13. ASSUME NEW q, q # <<n, i>> PROVE Follows(node, f, q, AfterDelete(n, i, q))
  BY <1>4, <1>6, <1>9, <1>10, <1>13, LeafTakenFollows DEF num
<1> HIDE DEF f
<1>14. OnKey(node', op.inner, e) /\ \A q : q # op.inner => Follows(f, node', q, q)
  BY <1>7, <1>8, <1>9, <1>11, <1>12, ReplacedFollows
<1>15. ASSUME NEW q, q # op.inner PROVE Follows(node, node', q, Turn(q))
  <2>1. CASE q = <<n, i>>
    <3>1. Turn(q) = op.inner
      BY <2>1, <1>5, <1>8 DEF AfterMove, AfterDelete
    <3>2. \A k : OnKey(node, q, k) => k = e
      BY <2>1, <1>4, PositionIs DEF e
    <3> QED  BY <3>1, <3>2, <1>14 DEF Follows
  <2>2. CASE q # <<n, i>>
    <3>1. Turn(q) = AfterDelete(n, i, q)
      BY <2>2 DEF AfterMove
    <3>2. AfterDelete(n, i, q) # op.inner
      BY <1>5, <1>8, <1>15 DEF AfterDelete
    <3> QED  BY <2>2, <3>1, <3>2, <1>13, <1>14 DEF Follows
  <2> QED  BY <2>1, <2>2
<1>16. Turn(Nowhere) = Nowhere
  <2>1. Nowhere # <<n, i>> /\ Nowhere[1] # n
    BY <1>2 DEF Nowhere
  <2> QED  BY <2>1 DEF AfterMove, AfterDelete
<1>17. it' = [j \in Iterators |-> it'[j]]
  BY <1>2
<1>18. \A j \in Iterators : it'[j] = IF it[j].pos = op.inner THEN Lost(FALSE) ELSE [it[j] EXCEPT !.pos = Turn(it[j].pos)]
  BY <1>2
<1> HIDE DEF Turn
<1>19. ASSUME NEW j \in Iterators PROVE Carried(node', it[j], it'[j])
  <2>1. it[j] \in Places
    BY DEF PlaceInv
  <2>2. CASE it[j].pos = op.inner
    <3>1. FALSE \in BOOLEAN
      OBVIOUS
    <3> QED  BY <3>1, <2>2, <1>18, LostPlaced DEF Carried
  <2>3. CASE it[j].pos = Nowhere
    <3>1. it'[j] = [it[j] EXCEPT !.pos = it[j].pos]
      BY <2>3, <1>2, <1>16, <1>18
    <3> QED  BY <2>1, <2>3, <3>1, SamePosition DEF Carried
  <2>4. CASE it[j].pos # op.inner /\ it[j].pos # Nowhere
    BY <2>4, <1>15, <1>18 DEF Carried
  <2> QED  BY <2>2, <2>3, <2>4
<1> QED  BY <1>4, <1>17, <1>19, CarriedPlaces

-----------------------------------------------------------------------------
(* The split of a full child.                                                *)

\* A full node c is split: its middle key goes up to its parent n, the keys behind
\* that go to the new node r, and what stands behind the gap in n moves on.
LEMMA SplitFollows ==
    ASSUME NEW f \in Forest, NEW h, NEW s, NEW top, NEW n, NEW i, NEW c, IsChild(f, h, s, top, n, i, c),
           Num(f, c) = Full, NEW r, r \notin Here(f), NEW g, SplitEdit(f, g, n, i, c, r),
           Here(g) = Here(f) \cup {r}, NEW p
    PROVE  Follows(f, g, p, AfterSplit(c, r, n, i, AfterInsert(n, i, p)))
<1> DEFINE Turn(q) == AfterSplit(c, r, n, i, AfterInsert(n, i, q))
<1> SUFFICES ASSUME NEW k, OnKey(f, p, k) PROVE OnKey(g, Turn(p), k)
  BY DEF Follows
<1>1. PICK m \in Here(f) : \E y \in Nat : m \in Nodes /\ y \in 1..Num(f, m) /\ p = <<m, y>> /\ f[m].keys[y] = k
  BY PositionIs
<1>2. PICK y \in Nat : m \in Nodes /\ y \in 1..Num(f, m) /\ p = <<m, y>> /\ f[m].keys[y] = k
  BY <1>1
<1>3. m \in Here(g) /\ m # r /\ Num(f, m) \in Nat
  BY <1>1, <1>2, NumIsNat
<1>4. /\ n \in Nodes /\ c \in Nodes /\ n # c /\ n \in Here(g) /\ c \in Here(g) /\ r \in Here(g)
      /\ Num(f, n) \in Nat /\ i \in Nat /\ i \in 1..(Num(f, n) + 1)
  BY DEF IsChild
<1>5. /\ SizeParam \in Nat /\ SizeParam >= 2 /\ Full \in Nat /\ Full = 2 * SizeParam - 1
  BY NodeSizes
<1>6. /\ Num(g, n) = Num(f, n) + 1
      /\ \A j \in 1..(Num(f, n) + 1) : g[n].keys[j] =
            IF j < i THEN f[n].keys[j] ELSE IF j = i THEN f[c].keys[SizeParam] ELSE f[n].keys[j - 1]
  BY DEF SplitEdit, Longer, Num
<1>7. /\ Num(g, c) = SizeParam - 1 /\ Num(g, r) = SizeParam - 1
      /\ \A j \in 1..(SizeParam - 1) : g[c].keys[j] = f[c].keys[j] /\ g[r].keys[j] = f[c].keys[SizeParam + j]
  <2>1. Slice(g[c].keys, f[c].keys, 1, SizeParam - 1) /\ Slice(g[r].keys, f[c].keys, SizeParam + 1, Full)
    BY DEF SplitEdit
  <2>2. ((SizeParam - 1) - 1) + 1 = SizeParam - 1 /\ (Full - (SizeParam + 1)) + 1 = SizeParam - 1
    BY <1>5
  <2>3. Num(g, c) = SizeParam - 1 /\ \A j \in 1..(SizeParam - 1) : g[c].keys[j] = f[c].keys[(1 + j) - 1]
    BY <2>1, <2>2, <1>5 DEF Slice, Num
  <2>4. Num(g, r) = SizeParam - 1 /\ \A j \in 1..(SizeParam - 1) : g[r].keys[j] = f[c].keys[((SizeParam + 1) + j) - 1]
    BY <2>1, <2>2, <1>5 DEF Slice, Num
  <2>5. \A j \in 1..(SizeParam - 1) : (1 + j) - 1 = j /\ ((SizeParam + 1) + j) - 1 = SizeParam + j
    BY <1>5
  <2> QED  BY <2>3, <2>4, <2>5
<1>8. CASE m = n /\ y >= i
  <2>1. Turn(p) = <<n, y + 1>>
    BY <1>2, <1>4, <1>8 DEF AfterInsert, AfterSplit
  <2>2. y + 1 \in 1..(Num(f, n) + 1) /\ ~(y + 1 < i) /\ y + 1 # i /\ (y + 1) - 1 = y
    BY <1>2, <1>4, <1>8
  <2>3. g[n].keys[y + 1] = f[n].keys[(y + 1) - 1]
    BY <2>2, <1>6
  <2> HIDE DEF Turn
  <2> QED  BY <1>2, <1>4, <1>6, <1>8, <2>1, <2>2, <2>3 DEF OnKey
<1>9. CASE m = n /\ y < i
  <2>1. Turn(p) = <<n, y>>
    BY <1>2, <1>4, <1>9 DEF AfterInsert, AfterSplit
  <2>2. y \in 1..(Num(f, n) + 1)
    BY <1>2, <1>4, <1>9
  <2> HIDE DEF Turn
  <2> QED  BY <1>2, <1>4, <1>6, <1>9, <2>1, <2>2 DEF OnKey
<1>10. m = c => y <= Full /\ Turn(p) = AfterSplit(c, r, n, i, <<c, y>>)
  BY <1>2, <1>4 DEF AfterInsert
<1>11. CASE m = c /\ y = SizeParam
  <2>1. Turn(p) = <<n, i>>
    BY <1>10, <1>11 DEF AfterSplit
  <2>2. g[n].keys[i] = f[c].keys[SizeParam] /\ i \in 1..Num(g, n)
    BY <1>4, <1>6
  <2> HIDE DEF Turn
  <2> QED  BY <1>2, <1>4, <1>11, <2>1, <2>2 DEF OnKey
<1>12. CASE m = c /\ y > SizeParam
  <2>1. Turn(p) = <<r, y - SizeParam>>
    BY <1>10, <1>5, <1>12 DEF AfterSplit
  <2>2. y - SizeParam \in 1..(SizeParam - 1) /\ SizeParam + (y - SizeParam) = y
    BY <1>5, <1>10, <1>12
  <2>3. g[r].keys[y - SizeParam] = f[c].keys[SizeParam + (y - SizeParam)]
    BY <1>7, <2>2
  <2> HIDE DEF Turn
  <2> QED  BY <1>2, <1>4, <1>7, <1>12, <2>1, <2>2, <2>3 DEF OnKey
<1>13. CASE m = c /\ y < SizeParam
  <2>1. Turn(p) = <<c, y>>
    BY <1>10, <1>5, <1>13 DEF AfterSplit
  <2>2. y \in 1..(SizeParam - 1)
    BY <1>2, <1>5, <1>13
  <2> HIDE DEF Turn
  <2> QED  BY <1>2, <1>4, <1>7, <1>13, <2>1, <2>2 DEF OnKey
<1>14. CASE m \notin {n, c}
  <2>1. Turn(p) = <<m, y>>
    BY <1>2, <1>14 DEF AfterInsert, AfterSplit
  <2>2. g[m].keys = f[m].keys
    BY <1>2, <1>3, <1>14 DEF SplitEdit
  <2>3. Num(g, m) = Num(f, m) /\ g[m].keys[y] = k
    BY <1>2, <2>2 DEF Num
  <2> HIDE DEF Turn
  <2> QED  BY <1>2, <1>3, <2>1, <2>3 DEF OnKey
<1> QED  BY <1>2, <1>4, <1>5, <1>8, <1>9, <1>11, <1>12, <1>13, <1>14

\* Insert splits the child it would go down to.
LEMMA InsertSplitPlaces ==
    ASSUME TreeInv, PlaceInv, InsertSplit, TreeInv'
    PROVE  PlaceInv'
<1>1. PICK h, s : Good(node, root, op, h, s)
  BY DEF TreeInv
<1> DEFINE n == op.at
           i == Ge
           c == node[n].child[i]
           r == NewNode
           k == op.key
           Turn(q) == AfterSplit(c, r, n, i, AfterInsert(n, i, q))
<1>2. /\ op.do = "insert" /\ ~Has(n, k) /\ ~node[n].leaf /\ HandleLeft /\ Num(node, c) = Full
      /\ node' = Split(c, r, n, i)
      /\ it' = [j \in Iterators |-> IF it[j].pos = Nowhere THEN it[j] ELSE [it[j] EXCEPT !.pos = Turn(it[j].pos)]]
  BY SMTT(30) DEF InsertSplit, Inserting, Leaf, Count, Num, Carry
<1>3. /\ n \in Here(node) /\ Between(node, s, n, k) /\ k \in Keys
  BY <1>1, <1>2 DEF Good, OpFits, OpTyped, Idle
<1>4. /\ Typed(node, h, s) /\ TreeFits(node, root, h, s) /\ node \in Forest /\ node' \in Forest
  BY <1>1 DEF Good, Typed, TreeInv
<1>5. i \in 1..(Num(node, n) + 1)
  BY <1>1, <1>2, <1>3, GeGap
<1> HIDE DEF n, c, r, k, i
<1>6. IsChild(node, h, s, root, n, i, c)
  BY <1>2, <1>3, <1>4, <1>5, TheChild DEF c
<1>7. r \in Nodes /\ r \notin Here(node)
  BY <1>2, NewIsFree DEF r
<1>8. SplitEdit(node, node', n, i, c, r)
  BY <1>2, <1>4, <1>6, <1>7, SplitIs
<1>9. Here(node') = Here(node) \cup {r}
  BY <1>2, <1>4, <1>6, <1>7, <1>8, SplitFits DEF SplitDone
<1>10. ASSUME NEW q PROVE Follows(node, node', q, Turn(q))
  BY <1>2, <1>4, <1>6, <1>7, <1>8, <1>9, SplitFollows
<1>11. it' = [j \in Iterators |-> it'[j]] /\ \A j \in Iterators :
          it'[j] = IF it[j].pos = Nowhere THEN it[j] ELSE [it[j] EXCEPT !.pos = Turn(it[j].pos)]
  BY <1>2
<1> HIDE DEF Turn
<1>12. ASSUME NEW j \in Iterators PROVE Carried(node', it[j], it'[j])
  BY <1>10, <1>11 DEF Carried
<1> QED  BY <1>4, <1>11, <1>12, CarriedPlaces

-----------------------------------------------------------------------------
(* A key moved from one child to its neighbour, through the node above.      *)

\* The nodes of the pair, and the keys where they were cut again.
Trio(f, g, n, i, l, r) ==
    /\ n \in Here(g) /\ l \in Here(g) /\ r \in Here(g) /\ n # l /\ n # r /\ l # r /\ Here(g) = Here(f)
    /\ Num(f, n) \in Nat /\ Num(f, l) \in Nat /\ Num(f, r) \in Nat /\ i \in Nat /\ i \in 1..Num(f, n)
    /\ Num(g, n) = Num(f, n)
    /\ \A m \in Nodes \ {n, l, r} : g[m].keys = f[m].keys

\* Only n and the two children on either side of its key i take part in a recut.
LEMMA TrioOf ==
    ASSUME NEW f, NEW h, NEW s, NEW top, Typed(f, h, s), TreeFits(f, top, h, s),
           NEW n, NEW i, NEW l, NEW r, Pair(f, h, s, top, n, i, l, r),
           NEW g, NEW a \in Nat, NEW z, NEW to, CutEdit(f, g, n, i, l, r, a, z, to)
    PROVE  Trio(f, g, n, i, l, r)
<1>1. Recut(f, g, n, i, l, r, a)
  BY CutIs
<1>2. Here(g) = Here(f)
  BY <1>1, RecutFits DEF RecutDone
<1>3. n \in Here(f) /\ l \in Here(f) /\ r \in Here(f)
  BY DEF Pair, IsChild
<1>4. PairTyped(f, h, s, top, n, i, l, r)
  BY PairIsTyped
<1> QED  BY <1>2, <1>3, <1>4 DEF PairTyped, CutEdit, Trio

\* A position in the pair, or elsewhere.
LEMMA FollowsByCase ==
    ASSUME NEW f \in Forest, NEW g, NEW n, NEW i, NEW l, NEW r, Trio(f, g, n, i, l, r), NEW p, NEW q,
           \A y \in 1..Num(f, n) : p = <<n, y>> => OnKey(g, q, f[n].keys[y]),
           \A y \in 1..Num(f, l) : p = <<l, y>> => OnKey(g, q, f[l].keys[y]),
           \A y \in 1..Num(f, r) : p = <<r, y>> => OnKey(g, q, f[r].keys[y]),
           p[1] \notin {n, l, r} => q = p
    PROVE  Follows(f, g, p, q)
<1> SUFFICES ASSUME NEW k, OnKey(f, p, k) PROVE OnKey(g, q, k)
  BY DEF Follows
<1>1. PICK m \in Here(f) : \E y \in Nat : m \in Nodes /\ y \in 1..Num(f, m) /\ p = <<m, y>> /\ f[m].keys[y] = k
  BY PositionIs
<1>2. PICK y \in Nat : m \in Nodes /\ y \in 1..Num(f, m) /\ p = <<m, y>> /\ f[m].keys[y] = k
  BY <1>1
<1>3. CASE m \in {n, l, r}
  BY <1>2, <1>3
<1>4. CASE m \notin {n, l, r}
  <2>1. q = <<m, y>> /\ g[m].keys = f[m].keys /\ m \in Here(g)
    BY <1>1, <1>2, <1>4 DEF Trio
  <2> QED  BY <2>1, <1>2 DEF OnKey, Num
<1> QED  BY <1>3, <1>4

\* The separator goes to the end of the left child, the first key of the right one
\* becomes the separator, and the rest of the right one moves up.
LEMMA FromRightFollows ==
    ASSUME NEW f \in Forest, NEW g, NEW n, NEW i, NEW l, NEW r, Trio(f, g, n, i, l, r),
           NEW z, CutEdit(f, g, n, i, l, r, Num(f, l) + 1, z, l), NEW p
    PROVE  Follows(f, g, p, AfterDelete(r, 1, AfterMove(<<r, 1>>, <<n, i>>, AfterMove(<<n, i>>, <<l, Num(f, l) + 1>>, p))))
<1> DEFINE L == Num(f, l)
           q == AfterDelete(r, 1, AfterMove(<<r, 1>>, <<n, i>>, AfterMove(<<n, i>>, <<l, L + 1>>, p)))
<1>1. /\ n \in Here(g) /\ l \in Here(g) /\ r \in Here(g) /\ n # l /\ n # r /\ l # r
      /\ Num(f, n) \in Nat /\ L \in Nat /\ Num(f, r) \in Nat /\ i \in Nat /\ i \in 1..Num(f, n)
      /\ Num(g, n) = Num(f, n)
  BY DEF Trio
<1>2. Num(g, l) = L + 1 /\ Num(g, r) = Num(f, r) - 1 /\ Num(f, r) >= 1
  <2>1. Num(g, l) = L + 1 /\ ((L + 1) + 1) + Num(g, r) = (L + 1) + Num(f, r) /\ (L + 1) + 1 <= (L + 1) + Num(f, r)
    BY <1>1 DEF CutEdit, Long
  <2>2. Num(g, r) \in Nat
    BY <1>1, NumIsNat DEF CutEdit, Here
  <2> HIDE DEF L
  <2> QED  BY <2>1, <2>2, <1>1
<1>3. \A j \in 1..Num(f, n) : g[n].keys[j] = IF j = i THEN f[r].keys[1] ELSE f[n].keys[j]
  <2>1. RowKey(f, n, i, l, r, (L + 1) + 1) = f[r].keys[1]
    <3>1. ~((L + 1) + 1 <= L) /\ (L + 1) + 1 # L + 1 /\ (((L + 1) + 1) - L) - 1 = 1
      BY <1>1
    <3> QED  BY <3>1 DEF RowKey
  <2> QED  BY <2>1 DEF CutEdit
<1>4. \A j \in 1..(L + 1) : g[l].keys[j] = IF j <= L THEN f[l].keys[j] ELSE f[n].keys[i]
  <2>1. \A j \in 1..(L + 1) : g[l].keys[j] = RowKey(f, n, i, l, r, j)
    BY <1>2 DEF CutEdit
  <2>2. \A j \in 1..(L + 1) : j <= L \/ j = L + 1
    BY <1>1
  <2> QED  BY <2>1, <2>2 DEF RowKey
<1>5. \A j \in 1..(Num(f, r) - 1) : g[r].keys[j] = f[r].keys[j + 1]
  <2>1. \A j \in 1..(Num(f, r) - 1) : g[r].keys[j] = RowKey(f, n, i, l, r, ((L + 1) + 1) + j)
    BY <1>2 DEF CutEdit
  <2>2. \A j \in 1..(Num(f, r) - 1) : /\ ~(((L + 1) + 1) + j <= L) /\ ((L + 1) + 1) + j # L + 1
                                      /\ ((((L + 1) + 1) + j) - L) - 1 = j + 1
    BY <1>1
  <2> QED  BY <2>1, <2>2 DEF RowKey
<1>6. ASSUME NEW y \in 1..Num(f, n), p = <<n, y>> PROVE OnKey(g, q, f[n].keys[y])
  <2>1. CASE y = i
    <3>1. q = <<l, L + 1>>
      BY <2>1, <1>1, <1>6 DEF AfterMove, AfterDelete
    <3>2. L + 1 \in 1..Num(g, l) /\ g[l].keys[L + 1] = f[n].keys[i]
      BY <1>1, <1>2, <1>4
    <3> HIDE DEF q
    <3> QED  BY <2>1, <3>1, <3>2, <1>1 DEF OnKey
  <2>2. CASE y # i
    <3>1. q = <<n, y>>
      BY <2>2, <1>1, <1>6 DEF AfterMove, AfterDelete
    <3>2. g[n].keys[y] = f[n].keys[y]
      BY <2>2, <1>3
    <3> HIDE DEF q
    <3> QED  BY <3>1, <3>2, <1>1 DEF OnKey
  <2> QED  BY <2>1, <2>2
<1>7. ASSUME NEW y \in 1..Num(f, l), p = <<l, y>> PROVE OnKey(g, q, f[l].keys[y])
  <2>1. q = <<l, y>>
    BY <1>1, <1>7 DEF AfterMove, AfterDelete
  <2>2. y \in 1..Num(g, l) /\ g[l].keys[y] = f[l].keys[y]
    BY <1>1, <1>2, <1>4
  <2> HIDE DEF q
  <2> QED  BY <2>1, <2>2, <1>1 DEF OnKey
<1>8. ASSUME NEW y \in 1..Num(f, r), p = <<r, y>> PROVE OnKey(g, q, f[r].keys[y])
  <2>0. y \in Nat
    BY <1>1
  <2>1. CASE y = 1
    <3>1. q = <<n, i>>
      BY <2>1, <1>1, <1>8 DEF AfterMove, AfterDelete
    <3>2. g[n].keys[i] = f[r].keys[1]
      BY <1>1, <1>3
    <3> HIDE DEF q
    <3> QED  BY <2>1, <3>1, <3>2, <1>1 DEF OnKey
  <2>2. CASE y > 1
    <3>1. q = <<r, y - 1>>
      BY <2>2, <1>1, <1>8 DEF AfterMove, AfterDelete
    <3>2. y - 1 \in 1..(Num(f, r) - 1) /\ (y - 1) + 1 = y
      BY <2>0, <2>2, <1>1
    <3>3. g[r].keys[y - 1] = f[r].keys[(y - 1) + 1]
      BY <3>2, <1>5
    <3> HIDE DEF q
    <3> QED  BY <3>1, <3>2, <3>3, <1>1, <1>2 DEF OnKey
  <2> QED  BY <2>0, <2>1, <2>2, <1>1
<1>9. p[1] \notin {n, l, r} => q = p
  BY DEF AfterMove, AfterDelete
<1> HIDE DEF q
<1>10. Follows(f, g, p, q)
  BY <1>6, <1>7, <1>8, <1>9, FollowsByCase
<1> QED  BY <1>10 DEF q

\* The separator goes to the front of the right child, and the last key of the left
\* one becomes the separator.
LEMMA FromLeftFollows ==
    ASSUME NEW f \in Forest, NEW g, NEW n, NEW i, NEW l, NEW r, Trio(f, g, n, i, l, r),
           NEW a \in Nat, Num(f, l) = a + 1, NEW z, CutEdit(f, g, n, i, l, r, a, z, r), NEW p
    PROVE  Follows(f, g, p, AfterMove(<<l, Num(f, l)>>, <<n, i>>, AfterMove(<<n, i>>, <<r, 1>>, AfterInsert(r, 1, p))))
<1> DEFINE L == Num(f, l)
           q == AfterMove(<<l, L>>, <<n, i>>, AfterMove(<<n, i>>, <<r, 1>>, AfterInsert(r, 1, p)))
<1>1. /\ n \in Here(g) /\ l \in Here(g) /\ r \in Here(g) /\ n # l /\ n # r /\ l # r
      /\ Num(f, n) \in Nat /\ L \in Nat /\ Num(f, r) \in Nat /\ i \in Nat /\ i \in 1..Num(f, n)
      /\ Num(g, n) = Num(f, n) /\ L = a + 1
  BY DEF Trio
<1>2. Num(g, l) = a /\ Num(g, r) = Num(f, r) + 1
  <2>1. Num(g, l) = a /\ (a + 1) + Num(g, r) = (L + 1) + Num(f, r)
    BY <1>1 DEF CutEdit, Long
  <2>2. Num(g, r) \in Nat
    BY <1>1, NumIsNat DEF CutEdit, Here
  <2> HIDE DEF L
  <2> QED  BY <2>1, <2>2, <1>1
<1>3. \A j \in 1..Num(f, n) : g[n].keys[j] = IF j = i THEN f[l].keys[L] ELSE f[n].keys[j]
  <2>1. RowKey(f, n, i, l, r, a + 1) = f[l].keys[L]
    <3>1. a + 1 <= L
      BY <1>1
    <3> QED  BY <3>1, <1>1 DEF RowKey
  <2> QED  BY <2>1 DEF CutEdit
<1>4. \A j \in 1..a : g[l].keys[j] = f[l].keys[j]
  <2>1. \A j \in 1..a : g[l].keys[j] = RowKey(f, n, i, l, r, j)
    BY <1>2 DEF CutEdit
  <2>2. \A j \in 1..a : j <= L
    BY <1>1
  <2> QED  BY <2>1, <2>2 DEF RowKey
<1>5. \A j \in 1..(Num(f, r) + 1) : g[r].keys[j] = IF j = 1 THEN f[n].keys[i] ELSE f[r].keys[j - 1]
  <2>1. \A j \in 1..(Num(f, r) + 1) : g[r].keys[j] = RowKey(f, n, i, l, r, (a + 1) + j)
    BY <1>2 DEF CutEdit
  <2>2. \A j \in 1..(Num(f, r) + 1) : /\ ~((a + 1) + j <= L) /\ ((a + 1) + j = L + 1 <=> j = 1)
                                      /\ (((a + 1) + j) - L) - 1 = j - 1
    BY <1>1
  <2> QED  BY <2>1, <2>2 DEF RowKey
<1>6. ASSUME NEW y \in 1..Num(f, n), p = <<n, y>> PROVE OnKey(g, q, f[n].keys[y])
  <2>1. CASE y = i
    <3>1. q = <<r, 1>>
      BY <2>1, <1>1, <1>6 DEF AfterMove, AfterInsert
    <3>2. 1 \in 1..Num(g, r) /\ g[r].keys[1] = f[n].keys[i]
      BY <1>1, <1>2, <1>5
    <3> HIDE DEF q
    <3> QED  BY <2>1, <3>1, <3>2, <1>1 DEF OnKey
  <2>2. CASE y # i
    <3>1. q = <<n, y>>
      BY <2>2, <1>1, <1>6 DEF AfterMove, AfterInsert
    <3>2. g[n].keys[y] = f[n].keys[y]
      BY <2>2, <1>3
    <3> HIDE DEF q
    <3> QED  BY <3>1, <3>2, <1>1 DEF OnKey
  <2> QED  BY <2>1, <2>2
<1>7. ASSUME NEW y \in 1..Num(f, l), p = <<l, y>> PROVE OnKey(g, q, f[l].keys[y])
  <2>1. CASE y = L
    <3>1. q = <<n, i>>
      BY <2>1, <1>1, <1>7 DEF AfterMove, AfterInsert
    <3>2. g[n].keys[i] = f[l].keys[L]
      BY <1>1, <1>3
    <3> HIDE DEF q
    <3> QED  BY <2>1, <3>1, <3>2, <1>1 DEF OnKey
  <2>2. CASE y # L
    <3>1. q = <<l, y>>
      BY <2>2, <1>1, <1>7 DEF AfterMove, AfterInsert
    <3>2. y \in 1..a
      BY <2>2, <1>1
    <3> HIDE DEF q
    <3> QED  BY <3>1, <3>2, <1>1, <1>2, <1>4 DEF OnKey
  <2> QED  BY <2>1, <2>2
<1>8. ASSUME NEW y \in 1..Num(f, r), p = <<r, y>> PROVE OnKey(g, q, f[r].keys[y])
  <2>1. y \in Nat /\ y >= 1
    BY <1>1
  <2>2. q = <<r, y + 1>>
    BY <2>1, <1>1, <1>8 DEF AfterMove, AfterInsert
  <2>3. y + 1 \in 1..(Num(f, r) + 1) /\ y + 1 # 1 /\ (y + 1) - 1 = y
    BY <2>1, <1>1
  <2>4. g[r].keys[y + 1] = f[r].keys[(y + 1) - 1]
    BY <2>3, <1>5
  <2> HIDE DEF q
  <2> QED  BY <2>2, <2>3, <2>4, <1>1, <1>2 DEF OnKey
<1>9. p[1] \notin {n, l, r} => q = p
  BY DEF AfterMove, AfterInsert
<1> HIDE DEF q
<1>10. Follows(f, g, p, q)
  BY <1>6, <1>7, <1>8, <1>9, FollowsByCase
<1> QED  BY <1>10 DEF q

\* Delete takes a key from the right neighbour of the child it goes down to.
LEMMA MoveFromRightPlaces ==
    ASSUME TreeInv, PlaceInv, MoveFromRight, TreeInv'
    PROVE  PlaceInv'
<1>1. PICK h, s : Good(node, root, op, h, s)
  BY DEF TreeInv
<1> DEFINE n == op.at
           l == OnWay
           r == RightOf
           i == Way
           Turn(q) == AfterDelete(r, 1, AfterMove(<<r, 1>>, <<n, i>>, AfterMove(<<n, i>>, <<l, Num(node, l) + 1>>, q)))
<1>2. /\ Passing /\ Poor(l) /\ Rich(r)
      /\ node' = FromRight(node, n, i, l, r)
      /\ it' = [j \in Iterators |-> IF it[j].pos = Nowhere THEN it[j] ELSE [it[j] EXCEPT !.pos = Turn(it[j].pos)]]
  BY Zenon DEF MoveFromRight, FromRight, Carry, Count, Num
<1>3. /\ n \in Here(node) /\ ~node[n].leaf /\ Num(node, n) \in Nat /\ i \in Nat /\ i \in 1..(Num(node, n) + 1)
      /\ Typed(node, h, s) /\ TreeFits(node, root, h, s) /\ node \in Forest /\ node' \in Forest
  BY <1>1, <1>2, WayGap DEF Good, Typed, TreeInv
<1>4. /\ i <= Num(node, n) /\ r = node[n].child[i + 1] /\ l = node[n].child[i] /\ Num(node, r) > Empty
  BY <1>2 DEF RightOf, Rich, OnWay, Count, Num
<1> HIDE DEF n, l, r, i
<1>5. Pair(node, h, s, root, n, i, l, r)
  <2>1. i + 1 \in 1..(Num(node, n) + 1)
    BY <1>3, <1>4
  <2>2. IsChild(node, h, s, root, n, i, l)
    BY <1>3, <1>4, TheChild
  <2>3. IsChild(node, h, s, root, n, i + 1, r)
    BY <2>1, <1>3, <1>4, TheChild
  <2> QED  BY <2>2, <2>3 DEF Pair
<1>6. Num(node, r) >= 1 /\ Num(node, l) + 1 \in Nat
  <2>1. Num(node, l) \in Nat /\ Num(node, r) \in Nat
    BY <1>5 DEF Pair, IsChild
  <2> QED  BY <2>1, <1>4, NodeSizes
<1>7. CutEdit(node, node', n, i, l, r, Num(node, l) + 1, Num(node, l) + 2, l)
  BY <1>2, <1>3, <1>5, <1>6, FromRightIs
<1>8. Trio(node, node', n, i, l, r)
  BY <1>3, <1>5, <1>6, <1>7, TrioOf
<1>9. ASSUME NEW q PROVE Follows(node, node', q, Turn(q))
  BY <1>3, <1>7, <1>8, FromRightFollows
<1>10. it' = [j \in Iterators |-> it'[j]] /\ \A j \in Iterators :
          it'[j] = IF it[j].pos = Nowhere THEN it[j] ELSE [it[j] EXCEPT !.pos = Turn(it[j].pos)]
  BY <1>2
<1> HIDE DEF Turn
<1>11. ASSUME NEW j \in Iterators PROVE Carried(node', it[j], it'[j])
  BY <1>9, <1>10 DEF Carried
<1> QED  BY <1>3, <1>10, <1>11, CarriedPlaces

\* Delete takes a key from the left neighbour of the child it goes down to.
LEMMA MoveFromLeftPlaces ==
    ASSUME TreeInv, PlaceInv, MoveFromLeft, TreeInv'
    PROVE  PlaceInv'
<1>1. PICK h, s : Good(node, root, op, h, s)
  BY DEF TreeInv
<1> DEFINE n == op.at
           l == LeftOf
           r == OnWay
           i == Way - 1
           a == Num(node, l) - 1
           Turn(q) == AfterMove(<<l, Num(node, l)>>, <<n, i>>, AfterMove(<<n, i>>, <<r, 1>>, AfterInsert(r, 1, q)))
<1>2. /\ Passing /\ Poor(r) /\ Rich(l)
      /\ node' = FromLeft(node, n, i, l, r)
      /\ it' = [j \in Iterators |-> IF it[j].pos = Nowhere THEN it[j] ELSE [it[j] EXCEPT !.pos = Turn(it[j].pos)]]
  BY Zenon DEF MoveFromLeft, FromLeft, Carry, Count, Num
<1>3. /\ n \in Here(node) /\ ~node[n].leaf /\ Num(node, n) \in Nat /\ Way \in Nat /\ Way \in 1..(Num(node, n) + 1)
      /\ Typed(node, h, s) /\ TreeFits(node, root, h, s) /\ node \in Forest /\ node' \in Forest
  BY <1>1, <1>2, WayGap DEF Good, Typed, TreeInv
<1>4. /\ Way > 1 /\ l = node[n].child[i] /\ r = node[n].child[Way] /\ Num(node, l) > Empty
  BY <1>2 DEF LeftOf, Rich, OnWay, Count, Num
<1>5. i \in 1..(Num(node, n) + 1) /\ i + 1 \in 1..(Num(node, n) + 1) /\ i + 1 = Way
  BY <1>3, <1>4
<1> HIDE DEF n, l, r, i
<1>6. Pair(node, h, s, root, n, i, l, r)
  <2>1. IsChild(node, h, s, root, n, i, l)
    BY <1>3, <1>4, <1>5, TheChild
  <2>2. r = node[n].child[i + 1]
    BY <1>4, <1>5
  <2>3. IsChild(node, h, s, root, n, i + 1, r)
    BY <2>2, <1>3, <1>5, TheChild
  <2> QED  BY <2>1, <2>3 DEF Pair
<1>7. a \in Nat /\ Num(node, l) = a + 1
  <2>1. Num(node, l) \in Nat
    BY <1>6 DEF Pair, IsChild
  <2> QED  BY <2>1, <1>4, NodeSizes
<1> HIDE DEF a
<1>8. CutEdit(node, node', n, i, l, r, a, a + 2, r)
  BY <1>2, <1>3, <1>6, <1>7, FromLeftIs
<1>9. Trio(node, node', n, i, l, r)
  BY <1>3, <1>6, <1>7, <1>8, TrioOf
<1>10. ASSUME NEW q PROVE Follows(node, node', q, Turn(q))
  BY <1>3, <1>7, <1>8, <1>9, FromLeftFollows
<1>11. it' = [j \in Iterators |-> it'[j]] /\ \A j \in Iterators :
          it'[j] = IF it[j].pos = Nowhere THEN it[j] ELSE [it[j] EXCEPT !.pos = Turn(it[j].pos)]
  BY <1>2
<1> HIDE DEF Turn
<1>12. ASSUME NEW j \in Iterators PROVE Carried(node', it[j], it'[j])
  BY <1>10, <1>11 DEF Carried
<1> QED  BY <1>3, <1>11, <1>12, CarriedPlaces

-----------------------------------------------------------------------------
(* Two children merged.                                                      *)

\* The separator and the keys of the right child go to the end of the left one.
LEMMA MergedFollows ==
    ASSUME NEW f, NEW h, NEW s, NEW top, Typed(f, h, s), TreeFits(f, top, h, s),
           NEW n, NEW i, NEW l, NEW r, Pair(f, h, s, top, n, i, l, r),
           NEW g, Merged(f, g, n, i, l, r, top),
           Here(g) = Here(f) \ (IF Spent(f, n, top) THEN {n, r} ELSE {r}), NEW p
    PROVE  Follows(f, g, p, AfterDelete(n, i, IF p[1] = r THEN <<l, p[2] + Num(f, l) + 1>>
                                              ELSE IF p = <<n, i>> THEN <<l, Num(f, l) + 1>> ELSE p))
<1> DEFINE L == Num(f, l)
           q == AfterDelete(n, i, IF p[1] = r THEN <<l, p[2] + L + 1>> ELSE IF p = <<n, i>> THEN <<l, L + 1>> ELSE p)
<1>0. f \in Forest
  BY DEF Typed
<1>1. /\ n \in Here(f) /\ l \in Here(f) /\ r \in Here(f) /\ n # l /\ n # r /\ l # r
      /\ Num(f, n) \in Nat /\ L \in Nat /\ Num(f, r) \in Nat /\ i \in Nat /\ i \in 1..Num(f, n)
  <2>1. PairTyped(f, h, s, top, n, i, l, r)
    BY PairIsTyped
  <2> QED  BY <2>1 DEF PairTyped, Pair, IsChild
<1>2. l \in Here(g) /\ Num(g, l) = (L + 1) + Num(f, r)
  BY <1>1 DEF Merged, Long
<1>3. \A j \in 1..((L + 1) + Num(f, r)) : g[l].keys[j] = RowKey(f, n, i, l, r, j)
  <2>1. \A j \in 1..Num(g, l) : g[l].keys[j] = RowKey(f, n, i, l, r, 0 + j)
    BY DEF Merged, Piece
  <2>2. \A j \in 1..Num(g, l) : 0 + j = j
    BY <1>1, <1>2
  <2> HIDE DEF L
  <2> QED  BY <2>1, <2>2, <1>2
<1>4. ~Spent(f, n, top) => /\ n \in Here(g) /\ Num(g, n) = Num(f, n) - 1
                           /\ \A j \in 1..(Num(f, n) - 1) : g[n].keys[j] = IF j < i THEN f[n].keys[j] ELSE f[n].keys[j + 1]
  BY <1>1 DEF Merged, Shorter, Num
<1>5. Spent(f, n, top) => Num(f, n) = 1
  BY DEF Spent
<1> SUFFICES ASSUME NEW k, OnKey(f, p, k) PROVE OnKey(g, q, k)
  BY DEF Follows
<1>6. PICK m \in Here(f) : \E y \in Nat : m \in Nodes /\ y \in 1..Num(f, m) /\ p = <<m, y>> /\ f[m].keys[y] = k
  BY <1>0, PositionIs
<1>7. PICK y \in Nat : m \in Nodes /\ y \in 1..Num(f, m) /\ p = <<m, y>> /\ f[m].keys[y] = k
  BY <1>6
<1>8. CASE m = l
  <2>1. q = <<l, y>>
    BY <1>1, <1>7, <1>8 DEF AfterDelete
  <2>2. y <= L /\ y \in 1..((L + 1) + Num(f, r))
    BY <1>1, <1>7, <1>8
  <2>3. g[l].keys[y] = f[l].keys[y]
    BY <2>2, <1>3 DEF RowKey
  <2> HIDE DEF q
  <2> QED  BY <2>1, <2>2, <2>3, <1>2, <1>7, <1>8 DEF OnKey
<1>9. CASE m = r
  <2>1. q = <<l, y + L + 1>>
    BY <1>1, <1>7, <1>9 DEF AfterDelete
  <2>2. /\ y + L + 1 \in 1..((L + 1) + Num(f, r)) /\ ~(y + L + 1 <= L) /\ y + L + 1 # L + 1
        /\ ((y + L + 1) - L) - 1 = y
    BY <1>1, <1>7, <1>9
  <2>3. g[l].keys[y + L + 1] = f[r].keys[y]
    BY <2>2, <1>3 DEF RowKey
  <2> HIDE DEF q
  <2> QED  BY <2>1, <2>2, <2>3, <1>2, <1>7, <1>9 DEF OnKey
<1>10. CASE m = n /\ y = i
  <2>1. q = <<l, L + 1>>
    BY <1>1, <1>7, <1>10 DEF AfterDelete
  <2>2. L + 1 \in 1..((L + 1) + Num(f, r)) /\ ~(L + 1 <= L)
    BY <1>1
  <2>3. g[l].keys[L + 1] = f[n].keys[i]
    BY <2>2, <1>3 DEF RowKey
  <2> HIDE DEF q
  <2> QED  BY <2>1, <2>2, <2>3, <1>2, <1>7, <1>10 DEF OnKey
<1>11. ASSUME m = n, y # i PROVE ~Spent(f, n, top)
  BY <1>1, <1>5, <1>7, <1>11
<1>12. CASE m = n /\ y > i
  <2>1. q = <<n, y - 1>>
    BY <1>1, <1>7, <1>12 DEF AfterDelete
  <2>2. y - 1 \in 1..(Num(f, n) - 1) /\ ~(y - 1 < i) /\ (y - 1) + 1 = y
    BY <1>1, <1>7, <1>12
  <2>3. n \in Here(g) /\ Num(g, n) = Num(f, n) - 1 /\ g[n].keys[y - 1] = f[n].keys[(y - 1) + 1]
    BY <2>2, <1>1, <1>4, <1>11, <1>12
  <2> HIDE DEF q
  <2> QED  BY <2>1, <2>2, <2>3, <1>7, <1>12 DEF OnKey
<1>13. CASE m = n /\ y < i
  <2>1. q = <<n, y>>
    BY <1>1, <1>7, <1>13 DEF AfterDelete
  <2>2. y \in 1..(Num(f, n) - 1)
    BY <1>1, <1>7, <1>13
  <2>3. n \in Here(g) /\ Num(g, n) = Num(f, n) - 1 /\ g[n].keys[y] = f[n].keys[y]
    BY <2>2, <1>1, <1>4, <1>11, <1>13
  <2> HIDE DEF q
  <2> QED  BY <2>1, <2>2, <2>3, <1>7, <1>13 DEF OnKey
<1>14. CASE m \notin {n, l, r}
  <2>1. q = <<m, y>>
    BY <1>7, <1>14 DEF AfterDelete
  <2>2. g[m].keys = f[m].keys /\ m \in Here(g)
    BY <1>6, <1>7, <1>14 DEF Merged, OthersKept
  <2> HIDE DEF q
  <2> QED  BY <2>1, <2>2, <1>7 DEF OnKey, Num
<1>15. y = i \/ y > i \/ y < i
  BY <1>1, <1>7
<1> QED  BY <1>8, <1>9, <1>10, <1>12, <1>13, <1>14, <1>15

\* Merge moves the iterators with the keys.
LEMMA MergePlaces ==
    ASSUME TreeInv, PlaceInv, NEW h, NEW s, Good(node, root, op, h, s), op.do = "delete", op.at # Nil,
           NEW n, n = op.at, NEW i, NEW l, NEW r, Pair(node, h, s, root, n, i, l, r),
           Merge(n, i), TreeInv'
    PROVE  PlaceInv'
<1> DEFINE Turn(q) == AfterDelete(n, i, IF q[1] = r THEN <<l, q[2] + Num(node, l) + 1>>
                                        ELSE IF q = <<n, i>> THEN <<l, Num(node, l) + 1>> ELSE q)
<1>1. l = node[n].child[i] /\ r = node[n].child[i + 1]
  BY DEF Pair, IsChild
<1>2. it' = [j \in Iterators |-> IF it[j].pos = Nowhere THEN it[j] ELSE [it[j] EXCEPT !.pos = Turn(it[j].pos)]]
  <2>1. it' = [j \in Iterators |-> IF it[j].pos = Nowhere THEN it[j]
                                  ELSE [it[j] EXCEPT !.pos = AfterDelete(n, i, AfterMerge(l, r, n, i, it[j].pos))]]
    BY <1>1, Zenon DEF Merge, Carry
  <2>2. n # r /\ n # Nil
    BY DEF Pair, IsChild
  <2>3. ASSUME NEW q PROVE AfterDelete(n, i, AfterMerge(l, r, n, i, q)) = Turn(q)
    BY <2>2 DEF AfterMerge, Count, Num
  <2> HIDE DEF Turn
  <2> QED  BY <2>1, <2>3, Zenon
<1>3. /\ Typed(node, h, s) /\ TreeFits(node, root, h, s) /\ root \in Nodes \cup {Nil} /\ node' \in Forest
  BY DEF Good, TreeInv, Typed
<1>4. Merged(node, node', n, i, l, r, root)
  BY <1>3, MergeIs
<1>5. n # root => Num(node, n) >= 2
  <2>1. (n # root => Num(node, n) > Empty) /\ Num(node, n) \in Nat
    BY DeleteAt DEF Pair, IsChild
  <2> QED  BY <2>1, NodeSizes
<1>6. Here(node') = Here(node) \ (IF Spent(node, n, root) THEN {n, r} ELSE {r})
  BY <1>3, <1>4, <1>5, MergeFits DEF MergeDone
<1>7. ASSUME NEW q PROVE Follows(node, node', q, Turn(q))
  BY <1>3, <1>4, <1>6, MergedFollows
<1>8. it' = [j \in Iterators |-> it'[j]] /\ \A j \in Iterators :
          it'[j] = IF it[j].pos = Nowhere THEN it[j] ELSE [it[j] EXCEPT !.pos = Turn(it[j].pos)]
  BY <1>2
<1> HIDE DEF Turn
<1>9. ASSUME NEW j \in Iterators PROVE Carried(node', it[j], it'[j])
  BY <1>7, <1>8 DEF Carried
<1> QED  BY <1>3, <1>8, <1>9, CarriedPlaces

\* Delete merges the two children around the key it deletes.
LEMMA DeleteMergePlaces ==
    ASSUME TreeInv, PlaceInv, DeleteMerge, TreeInv'
    PROVE  PlaceInv'
<1>1. PICK h, s : Good(node, root, op, h, s)
  BY DEF TreeInv
<1> DEFINE n == op.at
           i == Ge
           l == node[n].child[i]
           r == node[n].child[i + 1]
<1>2. /\ op.do = "delete" /\ n # Nil /\ ~node[n].leaf /\ op.inner = Nowhere /\ Has(n, op.key) /\ Merge(n, i)
  BY DEF DeleteMerge, Deleting, Leaf, Found, Searching
<1>3. n \in Here(node) /\ Between(node, s, n, op.key) /\ op.key \in Keys
  BY <1>1, <1>2, DeleteAt DEF DeleteOp
<1>4. i \in Nat /\ i \in 1..Num(node, n)
  <2>1. Ge \in Nat /\ Ge \in 1..(Num(node, n) + 1) /\ Ge <= Num(node, n)
    BY <1>1, <1>2, <1>3, GeGap
  <2>2. Num(node, n) \in Nat
    BY <1>1, <1>3, Handles
  <2> QED  BY <2>1, <2>2
<1> HIDE DEF i
<1>5. Pair(node, h, s, root, n, i, l, r)
  BY <1>1, <1>2, <1>3, <1>4, ThePair
<1> HIDE DEF l, r
<1> QED  BY <1>1, <1>2, <1>5, MergePlaces

\* Delete merges the child it goes down to with a neighbour.
LEMMA MergeNeighboursPlaces ==
    ASSUME TreeInv, PlaceInv, MergeNeighbours, TreeInv'
    PROVE  PlaceInv'
<1>1. PICK h, s : Good(node, root, op, h, s)
  BY DEF TreeInv
<1> DEFINE n == op.at
           i == IF LeftOf # Nil THEN Way - 1 ELSE Way
           l == node[n].child[i]
           r == node[n].child[i + 1]
<1>2. Passing /\ Merge(n, i)
  BY DEF MergeNeighbours
<1>3. /\ op.do = "delete" /\ n \in Here(node) /\ ~node[n].leaf /\ Num(node, n) \in Nat /\ Num(node, n) # 0
      /\ Way \in Nat /\ Way \in 1..(Num(node, n) + 1) /\ n # Nil
  BY <1>1, <1>2, WayGap, Handles
<1>4. Way > 1 => LeftOf # Nil
  <2> SUFFICES ASSUME Way > 1 PROVE LeftOf # Nil
    OBVIOUS
  <2>1. LeftOf = node[n].child[Way - 1]
    BY DEF LeftOf
  <2>2. Way - 1 \in 1..(Num(node, n) + 1)
    BY <1>3
  <2>3. LeftOf \in Here(node)
    BY <2>1, <2>2, <1>1, <1>3, ChildIs
  <2> QED  BY <2>3, <1>1, Handles
<1>5. ~(Way > 1) => LeftOf = Nil
  BY DEF LeftOf
<1>6. i \in Nat /\ i \in 1..Num(node, n)
  <2>1. CASE Way > 1
    <3>1. i = Way - 1
      BY <2>1, <1>4
    <3> HIDE DEF i
    <3> QED  BY <2>1, <3>1, <1>3
  <2>2. CASE ~(Way > 1)
    <3>1. i = Way
      BY <2>2, <1>5
    <3> HIDE DEF i
    <3> QED  BY <2>2, <3>1, <1>3
  <2> QED  BY <2>1, <2>2
<1> HIDE DEF i
<1>7. Pair(node, h, s, root, n, i, l, r)
  BY <1>1, <1>3, <1>6, ThePair
<1> HIDE DEF l, r
<1> QED  BY <1>1, <1>2, <1>3, <1>7, MergePlaces

-----------------------------------------------------------------------------
(* All steps.                                                                *)

\* Every pass of the loop of Insert.
LEMMA InsertLoopPlaces ==
    ASSUME TreeInv, PlaceInv, InsertLoop, TreeInv'
    PROVE  PlaceInv'
<1>1. ASSUME InsertExists \/ InsertDescend PROVE PlaceInv'
  <2>1. node' = node /\ it' = it
    BY <1>1 DEF InsertExists, InsertDescend
  <2> QED  BY <2>1, TreeOnlyRead
<1> QED  BY <1>1, InsertLeafPlaces, InsertSplitPlaces DEF InsertLoop

\* Every pass of the loop of Delete.
LEMMA DeleteLoopPlaces ==
    ASSUME TreeInv, PlaceInv, DeleteLoop, TreeInv'
    PROVE  PlaceInv'
<1>1. ASSUME DeleteNothing \/ DeleteInner \/ DeleteDescend PROVE PlaceInv'
  <2>1. node' = node /\ it' = it
    BY <1>1 DEF DeleteNothing, DeleteInner, DeleteDescend
  <2> QED  BY <2>1, TreeOnlyRead
<1> QED  BY <1>1, DeleteLeafPlaces, DeleteMergePlaces, DeleteReplacePlaces, MoveFromRightPlaces,
            MoveFromLeftPlaces, MergeNeighboursPlaces DEF DeleteLoop

\* Every step, calls on iterators among them.
LEMMA StepKeepsPlaces ==
    ASSUME TreeInv, PlaceInv, [TreeNext]_treeVars, TreeInv'
    PROVE  PlaceInv'
<1>1. ASSUME NEW k \in Keys, Insert(k) PROVE PlaceInv'
  <2>1. ASSUME InsertStart(k) PROVE PlaceInv'
    <3>1. node' = node /\ it' = it
      BY <2>1 DEF InsertStart
    <3> QED  BY <3>1, TreeOnlyRead
  <2> QED  BY <1>1, <2>1, InsertFirstPlaces, InsertGrowPlaces DEF Insert
<1>2. ASSUME NEW k \in Keys, Delete(k) PROVE PlaceInv'
  <2>1. node' = node /\ it' = it
    BY <1>2 DEF Delete, DeleteStart
  <2> QED  BY <2>1, TreeOnlyRead
<1>3. ASSUME NEW j \in Iterators, Iterate(j) PROVE PlaceInv'
  BY <1>3, IterateKeepsPlaces
<1>4. ASSUME UNCHANGED treeVars PROVE PlaceInv'
  <2>1. node' = node /\ it' = it
    BY <1>4 DEF treeVars
  <2> QED  BY <2>1, TreeOnlyRead
<1>5. ASSUME NEW j \in Iterators, Faults(j) PROVE PlaceInv'
  <2>1. node' = node /\ it' = it
    BY <1>5 DEF Faults, NextFaults, PreviousFaults
  <2> QED  BY <2>1, TreeOnlyRead
<1>6. ASSUME Gone PROVE PlaceInv'
  BY <1>4, <1>6 DEF Gone
<1> QED  BY <1>1, <1>2, <1>3, <1>4, <1>5, <1>6, InsertLoopPlaces, DeleteLoopPlaces DEF TreeNext

\* At the start no iterator has a place.
LEMMA InitIsPlaced == Init => PlaceInv
<1> SUFFICES ASSUME Init PROVE PlaceInv
  OBVIOUS
<1>1. it = [j \in Iterators |-> Fresh(Nowhere, Nil)]
  BY DEF Init
<1>2. 0 \in Nat /\ Nil = 0
  BY DEF Nil
<1>3. Fresh(Nowhere, Nil) \in Places
  BY <1>2 DEF Fresh, Places, Nowhere
<1>4. Placed(node, Fresh(Nowhere, Nil))
  BY DEF Fresh, Placed
<1> QED  BY <1>1, <1>3, <1>4 DEF PlaceInv

\* A managed iterator keeps its place while the tree is rebuilt under it.
THEOREM IteratorsKeepPlace == TreeSpec => []KeepsPlace
<1>1. TreeSpec => []TreeInv
  BY TreeStaysBalanced
<1>2. TreeInv /\ TreeInv' /\ PlaceInv /\ [TreeNext]_treeVars => PlaceInv'
  BY StepKeepsPlaces
<1> QED  BY <1>1, <1>2, InitIsPlaced, PlacesKept, PTL DEF TreeSpec

=============================================================================
