---------------------------- MODULE BTreeProofs -----------------------------
(***************************************************************************)
(* Proofs about the B-tree of the database driver (BTree): for any set of  *)
(* keys, any number of nodes and iterators and any SizeParam, however a    *)
(* call of Insert or Delete rebuilds the tree on its way down, it stays a  *)
(* B-tree at every step, and it is the set that OrderedSet describes.      *)
(*                                                                         *)
(* That the tree has an order and no cycles would be said by recursion     *)
(* from its root. The proof says it with labels instead, one for each      *)
(* node: its height above the leaves, h, and its bounds, s. Row s[n] is    *)
(* the keys of n from index 1 on, between the lower bound of what lies     *)
(* below n, at 0, and the upper bound, behind the last key. A node and its *)
(* children agree on the labels; TreeInv says that there are labels that   *)
(* fit. Each action is shown to leave some: the same ones for a step that  *)
(* moves down or reads, and ones with a few entries changed where nodes    *)
(* are split, recut or merged. The lemma Rebuilt says which nodes are to   *)
(* be looked at: those that changed, their children and parents.           *)
(*                                                                         *)
(* What the iterators do is proved in BTreeIteratorProofs.                 *)
(***************************************************************************)
EXTENDS BTree, Integers, FiniteSetTheorems, SequenceTheorems, WellFoundedInduction, TLAPS

\* The bound above all keys, the keys in a node, the nodes that are used.
Top == MaxKey + 1
Num(f, n) == Len(f[n].keys)
Here(f) == {n \in Nodes : f[n] # Freed}
\* Child i of n knows its parent and agrees with it on the labels.
Hangs(f, h, s, n, i) == LET c == f[n].child[i] IN
   /\ c \in Here(f) /\ f[c].parent = n /\ h[n] = h[c] + 1
   /\ s[c][0] = s[n][i - 1] /\ s[c][Num(f, c) + 1] = s[n][i]
\* The labels of n fit its keys and its children: the row of its bounds rises.
NodeFits(f, h, s, n) ==
   /\ f[n].leaf <=> h[n] = 0
   /\ Len(f[n].child) = IF f[n].leaf THEN 0 ELSE Num(f, n) + 1
   /\ \A i \in 1..Num(f, n) : s[n][i] = f[n].keys[i]
   /\ \A i, j \in 0..(Num(f, n) + 1) : i < j => s[n][i] < s[n][j]
   /\ \A i \in 1..Len(f[n].child) : Hangs(f, h, s, n, i)
\* A node that is not the root is one of the children of its parent, below the root.
Grounded(f, h, top, n) == n # top =>
   /\ f[n].parent \in Here(f)
   /\ \E i \in 1..Len(f[f[n].parent].child) : f[f[n].parent].child[i] = n
   /\ h[n] < h[top]
\* The nodes that are used make one tree, with the root at the top of it.
TreeFits(f, top, h, s) ==
   /\ \A n \in Here(f) : NodeFits(f, h, s, n) /\ Grounded(f, h, top, n)
   /\ IF top = Nil THEN Here(f) = {}
      ELSE /\ top \in Here(f) /\ f[top].parent = Nil
           /\ s[top][0] = 0 /\ s[top][Num(f, top) + 1] = Top
\* The root that InsertGrow made, which InsertSplit is about to give a key.
Growing(f, n, o) == o.do = "insert" /\ o.at = n /\ Num(f, f[n].child[1]) = Full
\* No node is over-full, none below the root is poorer than BTree.h allows.
Filled(f, top, o) ==
   \A n \in Here(f) :
      /\ Num(f, n) <= Full
      /\ n # top => Num(f, n) >= Empty
      /\ ~f[n].leaf /\ Num(f, n) = 0 => n = top /\ Growing(f, n, o)
\* Key k is within the span of n.
Between(f, s, n, k) == s[n][0] < k /\ k < s[n][Num(f, n) + 1]
\* The loop is in a node on the way to its key: Insert in one that is not full, Delete
\* in one that can spare a key.  Once Delete found its key in an inner node, it is on
\* the way to the key next to it, which is the last of what is left of it or the first
\* of what is right of it.
OpFits(f, top, h, s, o) ==
   /\ o.do = "insert" =>
        /\ o.at \in Here(f) /\ Between(f, s, o.at, o.key) /\ Num(f, o.at) < Full
   /\ o.do = "delete" =>
        IF o.at = Nil THEN top = Nil /\ o.inner = Nowhere
        ELSE /\ o.at \in Here(f)
             /\ o.at # top => Num(f, o.at) > Empty
             /\ IF o.inner = Nowhere THEN Between(f, s, o.at, o.key)
                ELSE /\ o.inner[1] \in Here(f) /\ h[o.at] < h[o.inner[1]]
                     /\ o.inner[2] \in 1..Num(f, o.inner[1])
                     /\ f[o.inner[1]].keys[o.inner[2]] = o.key
                     /\ IF o.leftmost THEN s[o.at][0] = o.key
                        ELSE s[o.at][Num(f, o.at) + 1] = o.key

\* The types.
NodeType == [leaf : BOOLEAN, parent : Nodes \cup {Nil}, keys : Seq(Keys), child : Seq(Nodes)]
Forest == [Nodes -> NodeType]
Heights == [Nodes -> Nat]
Marks == [Nodes -> [Nat -> Nat]]
Typed(f, h, s) == f \in Forest /\ h \in Heights /\ s \in Marks
OpTyped(o) ==
    \/ o = Idle
    \/ o \in [do : {"broken"}]
    \/ o \in [do : {"insert"}, key : Keys, at : Nodes]
    \/ o \in [do : {"delete"}, key : Keys, at : Nodes \cup {Nil},
              inner : (Nodes \cup {Nil}) \X Nat, leftmost : BOOLEAN]

\* Everything that is so in every state, of labels h and s.
Good(f, top, o, h, s) ==
    /\ Typed(f, h, s) /\ top \in Nodes \cup {Nil} /\ OpTyped(o)
    /\ TreeFits(f, top, h, s) /\ Filled(f, top, o) /\ OpFits(f, top, h, s, o)

TreeInv == \E h, s : Good(node, root, op, h, s)

-----------------------------------------------------------------------------
Smaller == {p \in Nat \X Nat : p[1] < p[2]}

\* A set of numbers that is not empty has a least one.
LEMMA LeastOf ==
    ASSUME NEW S, S \subseteq Nat, S # {}
    PROVE  \E x \in S : \A y \in S : x <= y
<1>1. IsWellFoundedOn(Smaller, Nat)
  BY NatLessThanWellFounded, Zenon DEF OpToRel, Smaller
<1>2. PICK x \in S : \A y \in S : ~ (<<y, x>> \in Smaller)
  BY <1>1, WFMin, Zenon
<1>3. \A y \in S : ~(y < x)
  BY <1>2, Zenon DEF Smaller
<1> QED  BY <1>3

\* GreaterEqual finds the first key not below k, in any node.
LEMMA FirstNotBelow ==
    ASSUME NEW n, Count(n) \in Nat, NEW k \in Nat, \A i \in 1..Count(n) : node[n].keys[i] \in Nat
    PROVE  /\ GreaterEqual(n, k) \in 1..(Count(n) + 1)
           /\ GreaterEqual(n, k) <= Count(n) => node[n].keys[GreaterEqual(n, k)] >= k
           /\ \A i \in 1..Count(n) : i < GreaterEqual(n, k) => node[n].keys[i] < k
<1> DEFINE S == {i \in 1..(Count(n) + 1) : i <= Count(n) => node[n].keys[i] >= k}
<1>1. Count(n) + 1 \in S /\ S \subseteq Nat
  OBVIOUS
<1>2. \E x \in S : \A y \in S : x <= y
  <2> HIDE DEF S
  <2> QED  BY <1>1, LeastOf, Zenon
<1>3. /\ Least(S) \in S
      /\ \A y \in S : Least(S) <= y
  <2> HIDE DEF S
  <2> QED  BY <1>2 DEF Least
<1>4. GreaterEqual(n, k) = Least(S)
  BY DEF GreaterEqual
<1> DEFINE g == GreaterEqual(n, k)
<1>5. g \in S /\ \A y \in S : g <= y
  BY <1>3, <1>4
<1> HIDE DEF g
<1>6. g \in 1..(Count(n) + 1) /\ (g <= Count(n) => node[n].keys[g] >= k)
  BY <1>5
<1>7. ASSUME NEW i \in 1..Count(n), i < g PROVE node[n].keys[i] < k
  BY <1>5, <1>6, <1>7
<1> QED  BY <1>6, <1>7 DEF g

-----------------------------------------------------------------------------
(* What the labels say of nodes that are far from each other.              *)

\* No separator of n lies within the span of m; the spans of both are apart.
Uncut(f, s, n, m) == \A i \in 0..(Num(f, n) + 1) :
    s[n][i] <= s[m][0] \/ s[m][Num(f, m) + 1] <= s[n][i]
SpansApart(f, s, n, m) ==
    s[n][Num(f, n) + 1] <= s[m][0] \/ s[m][Num(f, m) + 1] <= s[n][0]
Separate(f, h, s, n, m) ==
    h[n] >= h[m] /\ n # m => Uncut(f, s, n, m) /\ (h[n] = h[m] => SpansApart(f, s, n, m))

\* A node has so many keys, and its sequences are sequences.
LEMMA NumIsNat ==
    ASSUME NEW f \in Forest, NEW n \in Nodes
    PROVE  /\ Num(f, n) \in Nat /\ f[n] \in NodeType
           /\ Len(f[n].child) \in Nat /\ DOMAIN f[n].keys = 1..Num(f, n)
           /\ DOMAIN f[n].child = 1..Len(f[n].child)
BY DEF Num, Forest, NodeType

\* The separators of a node increase.
LEMMA Rising ==
    ASSUME NEW f, NEW h, NEW s, NEW n \in Here(f), Typed(f, h, s), NodeFits(f, h, s, n)
    PROVE  /\ Num(f, n) \in Nat
           /\ \A j \in Nat : s[n][j] \in Nat
           /\ \A j, k \in 0..(Num(f, n) + 1) : j <= k => s[n][j] <= s[n][k]
           /\ \A j, k \in 0..(Num(f, n) + 1) : j < k => s[n][j] < s[n][k]
<1>1. n \in Nodes /\ Num(f, n) \in Nat
  BY NumIsNat DEF Here, Typed
<1>2. \A j \in Nat : s[n][j] \in Nat
  BY <1>1 DEF Typed, Marks
<1>3. \A j, k \in 0..(Num(f, n) + 1) : j < k => s[n][j] < s[n][k]
  BY DEF NodeFits
<1>4. \A j, k \in 0..(Num(f, n) + 1) : j <= k => s[n][j] <= s[n][k]
  <2> SUFFICES ASSUME NEW j \in 0..(Num(f, n) + 1), NEW k \in 0..(Num(f, n) + 1), j <= k
               PROVE  s[n][j] <= s[n][k]
    OBVIOUS
  <2>1. j \in Nat /\ k \in Nat
    BY <1>1
  <2>2. s[n][j] \in Nat /\ s[n][k] \in Nat /\ (j < k => s[n][j] < s[n][k])
    BY <1>2, <1>3, <2>1
  <2> QED  BY <2>1, <2>2
<1> QED  BY <1>1, <1>2, <1>3, <1>4

\* A node below the root hangs in a gap of its parent.
InGap(f, h, s, p, i, m) ==
    /\ p \in Here(f) /\ i \in 1..(Num(f, p) + 1) /\ i \in 1..Len(f[p].child) /\ f[p].child[i] = m
    /\ h[p] = h[m] + 1 /\ s[m][0] = s[p][i - 1] /\ s[m][Num(f, m) + 1] = s[p][i]

\* A node that is not the root hangs in some gap of its parent.
LEMMA UnderParent ==
    ASSUME NEW f, NEW h, NEW s, NEW top, Typed(f, h, s), TreeFits(f, top, h, s),
           NEW m \in Here(f), m # top
    PROVE  \E i \in Nat : InGap(f, h, s, f[m].parent, i, m)
<1> DEFINE p == f[m].parent
<1>6. PICK i \in 1..Len(f[p].child) : p \in Here(f) /\ f[p].child[i] = m
  BY DEF TreeFits, Grounded
<1>1. NodeFits(f, h, s, p) /\ Num(f, p) \in Nat
  BY <1>6, NumIsNat DEF TreeFits, Typed, Here
<1>2. Len(f[p].child) = Num(f, p) + 1
  BY <1>1, <1>6 DEF NodeFits
<1>3. Hangs(f, h, s, p, i)
  BY <1>1, <1>6 DEF NodeFits
<1>4. h[p] = h[m] + 1 /\ s[m][0] = s[p][i - 1] /\ s[m][Num(f, m) + 1] = s[p][i]
  BY <1>3, <1>6 DEF Hangs
<1>5. i \in Nat /\ i \in 1..(Num(f, p) + 1)
  BY <1>1, <1>2, <1>6
<1> QED  BY <1>4, <1>5, <1>6 DEF InGap

\* The span of a child is within the span of its parent.
LEMMA GapWithin ==
    ASSUME NEW f, NEW h, NEW s, NEW p, NEW i, NEW m \in Here(f), Typed(f, h, s),
           InGap(f, h, s, p, i, m), NodeFits(f, h, s, p)
    PROVE  s[p][0] <= s[m][0] /\ s[m][Num(f, m) + 1] <= s[p][Num(f, p) + 1]
<1>1. p \in Here(f) /\ i \in 1..(Num(f, p) + 1) /\ s[m][0] = s[p][i - 1] /\ s[m][Num(f, m) + 1] = s[p][i]
  BY DEF InGap
<1>2. /\ Num(f, p) \in Nat
      /\ \A j, k \in 0..(Num(f, p) + 1) : j <= k => s[p][j] <= s[p][k]
  BY <1>1, Rising
<1>3. /\ i - 1 \in 0..(Num(f, p) + 1) /\ i \in 0..(Num(f, p) + 1) /\ i <= Num(f, p) + 1 /\ 0 <= i - 1
      /\ 0 \in 0..(Num(f, p) + 1) /\ Num(f, p) + 1 \in 0..(Num(f, p) + 1)
  BY <1>1, <1>2
<1> QED  BY <1>1, <1>2, <1>3

\* Nodes keep out of the spans of nodes at their height or below, however far they
\* are apart in the tree: the uppermost pair that did not would have such parents.
LEMMA NodesSeparate ==
    ASSUME NEW f, NEW h, NEW s, NEW top, Typed(f, h, s), TreeFits(f, top, h, s), top # Nil
    PROVE  \A n, m \in Here(f) : Separate(f, h, s, n, m)
<1> DEFINE Bad == {d \in Nat : \E n, m \in Here(f) : d = h[top] - h[m] /\ ~Separate(f, h, s, n, m)}
<1>h. \A m \in Here(f) : m \in Nodes /\ h[m] \in Nat /\ h[m] <= h[top] /\ (m # top => h[m] < h[top])
  <2>1. \A m \in Here(f) : m \in Nodes /\ h[m] \in Nat
    BY DEF Here, Typed, Heights
  <2>2. \A m \in Here(f) : m # top => h[m] < h[top]
    BY DEF TreeFits, Grounded
  <2>3. top \in Here(f)
    BY DEF TreeFits
  <2> QED  BY <2>1, <2>2, <2>3
<1>f. \A m \in Here(f) : NodeFits(f, h, s, m)
  BY DEF TreeFits
<1>t. top \in Here(f) /\ h[top] \in Nat
  BY <1>h DEF TreeFits
<1>b. ASSUME NEW n \in Here(f), NEW m \in Here(f), ~Separate(f, h, s, n, m)
      PROVE  h[top] - h[m] \in Bad
  <2>1. h[top] - h[m] \in Nat
    BY <1>h, <1>t
  <2> QED  BY <2>1, <1>b
<1> SUFFICES ASSUME Bad # {} PROVE FALSE
  BY <1>b
<1>1. PICK d \in Bad : \A e \in Bad : d <= e
  <2>1. Bad \subseteq Nat
    OBVIOUS
  <2> HIDE DEF Bad
  <2> QED  BY <2>1, LeastOf, Zenon
<1>2. PICK n \in Here(f), m \in Here(f) : d = h[top] - h[m] /\ ~Separate(f, h, s, n, m)
  BY <1>1
<1>3. \A p, q \in Here(f) : h[q] > h[m] => Separate(f, h, s, p, q)
  <2> SUFFICES ASSUME NEW p \in Here(f), NEW q \in Here(f), h[q] > h[m], ~Separate(f, h, s, p, q)
               PROVE  FALSE
    OBVIOUS
  <2>1. h[top] - h[q] \in Bad
    BY <1>b
  <2>2. d <= h[top] - h[q]
    BY <2>1, <1>1
  <2> QED  BY <2>2, <1>2, <1>h, <1>t
<1>4. n # m /\ h[n] >= h[m]
  BY <1>2 DEF Separate
<1>5. m # top
  BY <1>4, <1>h
<1> DEFINE p == f[m].parent
           nl == Num(f, n) + 1
           ml == Num(f, m) + 1
           pl == Num(f, p) + 1
<1>6. PICK i \in Nat : InGap(f, h, s, p, i, m)
  BY <1>5, UnderParent
<1>7. p \in Here(f) /\ h[p] = h[m] + 1 /\ i \in 1..pl /\ s[m][0] = s[p][i - 1] /\ s[m][ml] = s[p][i]
  BY <1>6 DEF InGap
<1>8. s[p][0] <= s[m][0] /\ s[m][ml] <= s[p][pl]
  BY <1>6, <1>7, <1>f, GapWithin
<1>r. \A q \in Here(f) :
           /\ Num(f, q) \in Nat
           /\ \A j \in Nat : s[q][j] \in Nat
           /\ \A j, k \in 0..(Num(f, q) + 1) : j <= k => s[q][j] <= s[q][k]
           /\ \A j, k \in 0..(Num(f, q) + 1) : j < k => s[q][j] < s[q][k]
  BY <1>f, Rising
<1>e. s[n][0] \in Nat /\ s[n][nl] \in Nat /\ s[m][0] \in Nat /\ s[m][ml] \in Nat
  BY <1>r
<1>9. CASE n = p
  <2>1. ASSUME NEW j \in 0..pl PROVE s[p][j] <= s[m][0] \/ s[m][ml] <= s[p][j]
    <3>1. Num(f, p) \in Nat /\ j \in Nat /\ i - 1 \in Nat /\ i - 1 \in 0..pl /\ i \in 0..pl
      BY <1>7, <1>r, <2>1
    <3>2. (j <= i - 1 => s[p][j] <= s[p][i - 1]) /\ (i <= j => s[p][i] <= s[p][j])
      BY <3>1, <1>7, <1>r, <2>1
    <3>3. j <= i - 1 \/ i <= j
      BY <3>1
    <3> QED  BY <3>2, <3>3, <1>7
  <2>2. Uncut(f, s, n, m)
    BY <2>1, <1>9 DEF Uncut
  <2> QED  BY <2>2, <1>9, <1>7, <1>2, <1>h DEF Separate
<1>10. CASE n # p /\ h[n] > h[m]
  <2>1. Separate(f, h, s, n, p) /\ h[n] >= h[p]
    BY <1>10, <1>7, <1>3, <1>h
  <2>2. Uncut(f, s, n, p)
    BY <2>1, <1>10 DEF Separate
  <2>3. ASSUME NEW j \in 0..nl PROVE s[n][j] <= s[m][0] \/ s[m][ml] <= s[n][j]
    <3>1. s[n][j] <= s[p][0] \/ s[p][pl] <= s[n][j]
      BY <2>2, <2>3 DEF Uncut
    <3>2. s[n][j] \in Nat /\ s[p][0] \in Nat /\ s[p][pl] \in Nat
      BY <1>r, <1>7, <2>3
    <3> QED  BY <3>1, <3>2, <1>8, <1>e
  <2>4. Uncut(f, s, n, m)
    BY <2>3 DEF Uncut
  <2> QED  BY <2>4, <1>10, <1>2, <1>h DEF Separate
<1>11. CASE h[n] = h[m]
  <2>1. n # top
    BY <1>11, <1>5, <1>h, <1>t
  <2> DEFINE q == f[n].parent
             ql == Num(f, q) + 1
  <2>2. PICK j \in Nat : InGap(f, h, s, q, j, n)
    BY <2>1, UnderParent
  <2>3. q \in Here(f) /\ h[q] = h[n] + 1 /\ j \in 1..ql /\ s[n][0] = s[q][j - 1] /\ s[n][nl] = s[q][j]
    BY <2>2 DEF InGap
  <2>4. s[q][0] <= s[n][0] /\ s[n][nl] <= s[q][ql]
    BY <2>2, <2>3, <1>f, GapWithin
  <2>5. ASSUME q = p PROVE SpansApart(f, s, n, m)
    <3>1. i # j
      BY <2>5, <1>4, <1>6, <2>2 DEF InGap
    <3>2. /\ i - 1 \in 0..pl /\ j - 1 \in 0..pl /\ i \in 0..pl /\ j \in 0..pl
          /\ j < i => j <= i - 1
          /\ i < j => i <= j - 1
          /\ i < j \/ j < i
      BY <3>1, <2>5, <1>7, <2>3, <1>r
    <3>3. (j < i => s[p][j] <= s[p][i - 1]) /\ (i < j => s[p][i] <= s[p][j - 1])
      BY <3>2, <1>r, <1>7
    <3> QED  BY <3>2, <3>3, <2>5, <1>7, <2>3 DEF SpansApart
  <2>6. ASSUME q # p PROVE SpansApart(f, s, n, m)
    <3>1. Separate(f, h, s, q, p) /\ h[q] = h[p]
      BY <2>6, <1>7, <2>3, <1>3, <1>11, <1>h
    <3>2. SpansApart(f, s, q, p)
      BY <3>1, <2>6, <1>7, <1>h DEF Separate
    <3>3. s[p][0] \in Nat /\ s[p][pl] \in Nat /\ s[q][0] \in Nat /\ s[q][ql] \in Nat
      BY <1>r, <1>7, <2>3
    <3> QED  BY <3>2, <3>3, <2>4, <1>8, <1>e DEF SpansApart
  <2>7. SpansApart(f, s, n, m)
    BY <2>5, <2>6
  <2>8. ASSUME NEW k \in 0..nl PROVE s[n][k] <= s[m][0] \/ s[m][ml] <= s[n][k]
    <3>1. s[n][0] <= s[n][k] /\ s[n][k] <= s[n][nl] /\ s[n][k] \in Nat
      BY <1>r, <2>8, SMTT(30)
    <3> QED  BY <3>1, <2>7, <1>e DEF SpansApart
  <2>9. Uncut(f, s, n, m)
    BY <2>8 DEF Uncut
  <2> QED  BY <2>9, <2>7, <1>2 DEF Separate
<1> QED  BY <1>9, <1>10, <1>11, <1>4, <1>h

-----------------------------------------------------------------------------
(* The gap of a key in a node. *)

\* A key lies between the bounds of the root.
LEMMA KeysAreNat == \A k \in Keys : k \in Nat /\ 0 < k /\ k < Top
<1> SUFFICES ASSUME NEW k \in Keys PROVE k \in Nat /\ 0 < k /\ k < Top
  OBVIOUS
<1>1. MaxKey \in Nat /\ k \in 1..MaxKey
  BY BTreeAssumption
<1> QED  BY <1>1 DEF Top

\* What is known of every node of a tree.
LEMMA HandlesIn ==
    ASSUME NEW f, NEW h, NEW s, NEW top, Typed(f, h, s), TreeFits(f, top, h, s)
    PROVE  /\ \A n \in Here(f) : /\ n \in Nodes /\ n # Nil /\ f[n] \in NodeType
                                  /\ h[n] \in Nat /\ Num(f, n) \in Nat /\ Len(f[n].child) \in Nat
                                  /\ NodeFits(f, h, s, n)
           /\ top # Nil <=> top \in Here(f)
<1>1. ASSUME NEW n \in Here(f)
      PROVE  /\ n \in Nodes /\ n # Nil /\ f[n] \in NodeType
             /\ h[n] \in Nat /\ Num(f, n) \in Nat /\ Len(f[n].child) \in Nat
             /\ NodeFits(f, h, s, n)
  <2>1. n \in Nodes /\ n # Nil
    BY BTreeAssumption DEF Here, Nil
  <2> QED  BY <2>1, NumIsNat DEF Typed, Heights, TreeFits
<1>2. top # Nil <=> top \in Here(f)
  BY <1>1 DEF TreeFits
<1> QED  BY <1>1, <1>2

\* The same, in a state that TreeInv allows.
LEMMA Handles ==
    ASSUME NEW f, NEW h, NEW s, NEW top, NEW o, Good(f, top, o, h, s)
    PROVE  /\ \A n \in Here(f) : /\ n \in Nodes /\ n # Nil /\ f[n] \in NodeType
                                  /\ h[n] \in Nat /\ Num(f, n) \in Nat /\ Len(f[n].child) \in Nat
                                  /\ NodeFits(f, h, s, n)
           /\ top # Nil <=> top \in Here(f)
<1>1. Typed(f, h, s) /\ TreeFits(f, top, h, s)
  BY DEF Good
<1> QED  BY <1>1, HandlesIn

\* GreaterEqual finds the key, or the gap it belongs in.
LEMMA GapFound ==
    ASSUME NEW h, NEW s, Good(node, root, op, h, s), NEW n \in Here(node), NEW k \in Keys,
           Between(node, s, n, k), NEW g, g = GreaterEqual(n, k)
    PROVE  /\ g \in 1..(Num(node, n) + 1) /\ g \in Nat
           /\ s[n][g - 1] < k
           /\ Has(n, k) => g <= Num(node, n) /\ s[n][g] = k /\ node[n].keys[g] = k
           /\ ~Has(n, k) => k < s[n][g]
<1>1. /\ n \in Nodes /\ node[n] \in NodeType /\ Num(node, n) \in Nat /\ NodeFits(node, h, s, n)
      /\ Count(n) = Num(node, n)
  BY Handles DEF Count, Num
<1>2. k \in Nat /\ \A x \in Keys : x \in Nat
  BY KeysAreNat
<1>3. \A i \in 1..Num(node, n) : node[n].keys[i] \in Keys
  BY <1>1 DEF NodeType, Num
<1>4. DOMAIN node[n].keys = 1..Num(node, n)
  BY <1>1 DEF NodeType, Num
<1>5. /\ g \in 1..(Num(node, n) + 1)
      /\ g <= Num(node, n) => node[n].keys[g] >= k
      /\ \A i \in 1..Num(node, n) : i < g => node[n].keys[i] < k
  <2>1. /\ GreaterEqual(n, k) \in 1..(Count(n) + 1)
        /\ GreaterEqual(n, k) <= Count(n) => node[n].keys[GreaterEqual(n, k)] >= k
        /\ \A i \in 1..Count(n) : i < GreaterEqual(n, k) => node[n].keys[i] < k
    BY <1>1, <1>2, <1>3, FirstNotBelow
  <2> QED  BY <2>1, <1>1
<1>6. g \in Nat /\ g - 1 \in 0..Num(node, n)
  BY <1>5, <1>1
<1>7. \A i \in 1..Num(node, n) : s[n][i] = node[n].keys[i]
  BY <1>1 DEF NodeFits
<1>8. s[n][0] < k /\ k < s[n][Num(node, n) + 1]
  BY DEF Between
<1>9. s[n][g - 1] < k
  <2>1. CASE g = 1
    BY <2>1, <1>8
  <2>2. CASE g # 1
    <3>1. g - 1 \in 1..Num(node, n) /\ g - 1 < g
      BY <2>2, <1>5, <1>1
    <3> QED  BY <3>1, <1>5, <1>7
  <2> QED  BY <2>1, <2>2
<1>10. ASSUME Has(n, k) PROVE g <= Num(node, n) /\ node[n].keys[g] = k
  <2>1. PICK i \in 1..Num(node, n) : node[n].keys[i] = k
    BY <1>10, <1>4 DEF Has, ToSet
  <2>2. ~(i < g)
    BY <2>1, <1>5, <1>2
  <2>3. g <= Num(node, n) /\ g <= i /\ i \in Nat
    BY <2>2, <2>1, <1>5, <1>1
  <2>4. g \in 1..Num(node, n)
    BY <2>3, <1>5, <1>1
  <2>5. g < i => s[n][g] < s[n][i]
    BY <2>4, <2>1, Rising, <1>1 DEF Good
  <2>6. s[n][i] = k /\ s[n][g] = node[n].keys[g] /\ node[n].keys[g] >= k /\ node[n].keys[g] \in Nat
    BY <2>1, <2>3, <2>4, <1>5, <1>7, <1>3, <1>2
  <2>7. ~(g < i)
    BY <2>5, <2>6, <1>2
  <2>8. g = i
    BY <2>7, <2>3, <1>6
  <2> QED  BY <2>8, <2>1, <2>3
<1>11. ASSUME ~Has(n, k) PROVE k < s[n][g]
  <2>1. CASE g = Num(node, n) + 1
    BY <2>1, <1>8
  <2>2. CASE g <= Num(node, n)
    <3>1. g \in 1..Num(node, n)
      BY <2>2, <1>5, <1>1
    <3>2. node[n].keys[g] # k
      BY <3>1, <1>11, <1>4 DEF Has, ToSet
    <3>3. s[n][g] = node[n].keys[g] /\ node[n].keys[g] >= k /\ node[n].keys[g] \in Nat
      BY <3>1, <2>2, <1>5, <1>7, <1>3, <1>2
    <3> QED  BY <3>2, <3>3, <1>2
  <2> QED  BY <2>1, <2>2, <1>5, <1>1
<1>12. ASSUME Has(n, k) PROVE s[n][g] = k
  <2>1. g \in 1..Num(node, n)
    BY <1>12, <1>10, <1>5, <1>1
  <2> QED  BY <2>1, <1>7, <1>12, <1>10
<1> QED  BY <1>5, <1>6, <1>9, <1>10, <1>11, <1>12

\* The same, of the node the loop is in.
LEMMA GeGap ==
    ASSUME NEW h, NEW s, Good(node, root, op, h, s), op.at \in Here(node), op.key \in Keys,
           Between(node, s, op.at, op.key)
    PROVE  /\ Ge \in 1..(Num(node, op.at) + 1) /\ Ge \in Nat
           /\ s[op.at][Ge - 1] < op.key
           /\ Has(op.at, op.key) => /\ Ge <= Num(node, op.at) /\ s[op.at][Ge] = op.key
                                    /\ node[op.at].keys[Ge] = op.key
           /\ ~Has(op.at, op.key) => op.key < s[op.at][Ge]
BY GapFound, Zenon DEF Ge

\* What is known of the child of an inner node, in a state that TreeInv allows.
LEMMA ChildIs ==
    ASSUME NEW f, NEW h, NEW s, NEW top, NEW o, Good(f, top, o, h, s),
           NEW n \in Here(f), ~f[n].leaf, NEW i \in 1..(Num(f, n) + 1), NEW c, c = f[n].child[i]
    PROVE  /\ c \in Here(f) /\ f[c].parent = n /\ h[n] = h[c] + 1 /\ c # n /\ c # top
           /\ s[c][0] = s[n][i - 1] /\ s[c][Num(f, c) + 1] = s[n][i]
           /\ Len(f[n].child) = Num(f, n) + 1
           /\ Empty <= Num(f, c) /\ Num(f, c) <= Full
<1>1. NodeFits(f, h, s, n) /\ n # Nil /\ Num(f, n) \in Nat
  BY Handles
<1>2. Len(f[n].child) = Num(f, n) + 1
  BY <1>1 DEF NodeFits
<1>3. Hangs(f, h, s, n, i)
  BY <1>1, <1>2 DEF NodeFits
<1>4. /\ c \in Here(f) /\ f[c].parent = n /\ h[n] = h[c] + 1
      /\ s[c][0] = s[n][i - 1] /\ s[c][Num(f, c) + 1] = s[n][i]
  BY <1>3 DEF Hangs
<1>5. h[c] \in Nat /\ h[n] \in Nat
  BY <1>4, Handles, Zenon
<1>6. c # n
  BY <1>4, <1>5
<1>7. c # top
  BY <1>4, <1>1 DEF Good, TreeFits
<1>8. Empty <= Num(f, c) /\ Num(f, c) <= Full
  BY <1>4, <1>7, Handles DEF Good, Filled
<1> QED  BY <1>2, <1>4, <1>6, <1>7, <1>8

\* A step that only moves the loop on.
LEMMA OnlyTheLoop ==
    ASSUME NEW h, NEW s, Good(node, root, op, h, s), node' = node, root' = root,
           OpTyped(op'), OpFits(node, root, h, s, op'),
           \A n \in Here(node) : ~node[n].leaf /\ Num(node, n) = 0 => n = root /\ Growing(node, n, op')
    PROVE  TreeInv'
<1>1. Filled(node, root, op')
  BY DEF Good, Filled
<1>2. Good(node, root, op', h, s)
  BY <1>1 DEF Good
<1>3. Good(node', root', op', h, s)
  BY <1>2
<1> QED  BY <1>3 DEF TreeInv

\* An inner node without keys is the root that InsertGrow made.
LEMMA NotGrowing ==
    ASSUME NEW h, NEW s, Good(node, root, op, h, s), op.do # "insert" \/ Num(node, op.at) # 0
    PROVE  \A n \in Here(node) : ~(~node[n].leaf /\ Num(node, n) = 0)
BY DEF Good, Filled, Growing

\* Insert, called: the loop begins at the root.
LEMMA InsertStartStep ==
    ASSUME NEW h, NEW s, Good(node, root, op, h, s), NEW k \in Keys, InsertStart(k)
    PROVE  TreeInv'
<1>1. root \in Here(node) /\ root \in Nodes /\ op.do # "insert"
  BY Handles DEF InsertStart, Idle
<1>2. op' = [do |-> "insert", key |-> k, at |-> root] /\ node' = node /\ root' = root
  BY DEF InsertStart
<1>3. OpTyped(op')
  BY <1>1, <1>2 DEF OpTyped
<1>4. Between(node, s, root, k)
  BY <1>1, KeysAreNat, Handles DEF Good, TreeFits, Between
<1>5. Num(node, root) < Full
  BY DEF InsertStart, Count, Num
<1>6. OpFits(node, root, h, s, op')
  BY <1>1, <1>2, <1>4, <1>5 DEF OpFits
<1> QED  BY <1>1, <1>2, <1>3, <1>6, OnlyTheLoop, NotGrowing

\* Insert finds its key in a node.
LEMMA InsertExistsStep ==
    ASSUME NEW h, NEW s, Good(node, root, op, h, s), InsertExists
    PROVE  TreeInv'
<1>1. op' = Idle /\ node' = node /\ root' = root /\ op.do = "insert" /\ Has(op.at, op.key)
  BY DEF InsertExists, Inserting, Return
<1>2. op.at \in Here(node)
  BY <1>1 DEF Good, OpFits
<1>3. Num(node, op.at) # 0
  BY <1>1, <1>2, Handles DEF Has, ToSet, NodeType, Num
<1>4. OpTyped(op') /\ OpFits(node, root, h, s, op')
  BY <1>1 DEF OpTyped, OpFits, Idle
<1> QED  BY <1>1, <1>3, <1>4, OnlyTheLoop, NotGrowing

\* Insert goes down to a child that is not full.
LEMMA InsertDescendStep ==
    ASSUME NEW h, NEW s, Good(node, root, op, h, s), InsertDescend
    PROVE  TreeInv'
<1> DEFINE c == node[op.at].child[Ge]
<1>1. /\ op' = [op EXCEPT !.at = c] /\ node' = node /\ root' = root /\ op.do = "insert"
      /\ ~Has(op.at, op.key) /\ ~node[op.at].leaf /\ Num(node, c) < Full
  BY DEF InsertDescend, Inserting, Descend, Leaf, Count, Num
<1>2. op \in [do : {"insert"}, key : Keys, at : Nodes]
  BY <1>1 DEF Good, OpTyped, Idle
<1>3. op.at \in Here(node) /\ Between(node, s, op.at, op.key)
  BY <1>1 DEF Good, OpFits
<1>4. Ge \in 1..(Num(node, op.at) + 1) /\ s[op.at][Ge - 1] < op.key /\ op.key < s[op.at][Ge]
  BY <1>1, <1>2, <1>3, GeGap
<1>5. /\ c \in Here(node) /\ s[c][0] = s[op.at][Ge - 1] /\ s[c][Num(node, c) + 1] = s[op.at][Ge]
  BY <1>1, <1>3, <1>4, ChildIs
<1>6. /\ op'.do = "insert" /\ op'.key = op.key /\ op'.at = c
      /\ op' \in [do : {"insert"}, key : Keys, at : Nodes]
  BY <1>1, <1>2, <1>5, Handles
<1>7. OpTyped(op') /\ OpFits(node, root, h, s, op')
  BY <1>1, <1>4, <1>5, <1>6 DEF OpTyped, OpFits, Between
<1>8. Num(node, op.at) # 0
  <2> SUFFICES ASSUME Num(node, op.at) = 0 PROVE FALSE
    OBVIOUS
  <2>1. Num(node, node[op.at].child[1]) = Full
    BY <1>1, <1>3 DEF Good, Filled, Growing
  <2>2. Ge = 1
    BY <1>4
  <2>3. Full \in Nat
    BY BTreeAssumption DEF Full
  <2> QED  BY <2>1, <2>2, <2>3, <1>1
<1> QED  BY <1>1, <1>7, <1>8, OnlyTheLoop, NotGrowing

\* Delete, called: the loop begins at the root.
LEMMA DeleteStartStep ==
    ASSUME NEW h, NEW s, Good(node, root, op, h, s), NEW k \in Keys, DeleteStart(k)
    PROVE  TreeInv'
<1>1. /\ op' = [do |-> "delete", key |-> k, at |-> root, inner |-> Nowhere, leftmost |-> FALSE]
      /\ node' = node /\ root' = root /\ op.do # "insert"
  BY DEF DeleteStart, Idle
<1>2. root \in Nodes \cup {Nil}
  BY DEF Good
<1>3. OpTyped(op')
  BY <1>1, <1>2 DEF OpTyped, Nowhere
<1>4. ASSUME root # Nil PROVE root \in Here(node) /\ Between(node, s, root, k)
  BY <1>4, KeysAreNat, Handles DEF Good, TreeFits, Between
<1>5. OpFits(node, root, h, s, op')
  BY <1>1, <1>4 DEF OpFits
<1> QED  BY <1>1, <1>3, <1>5, OnlyTheLoop, NotGrowing, Zenon

\* Delete ends in a leaf that has not got its key.
LEMMA DeleteNothingStep ==
    ASSUME NEW h, NEW s, Good(node, root, op, h, s), DeleteNothing
    PROVE  TreeInv'
<1>1. op' = Idle /\ node' = node /\ root' = root /\ op.do # "insert"
  BY DEF DeleteNothing, Return
<1>2. OpTyped(op') /\ OpFits(node, root, h, s, op')
  BY <1>1 DEF OpTyped, OpFits, Idle
<1> QED  BY <1>1, <1>2, OnlyTheLoop, NotGrowing

DeleteOp == [do : {"delete"}, key : Keys, at : Nodes \cup {Nil},
             inner : (Nodes \cup {Nil}) \X Nat, leftmost : BOOLEAN]

\* Where Delete's loop is.
LEMMA DeleteAt ==
    ASSUME NEW h, NEW s, Good(node, root, op, h, s), op.do = "delete"
    PROVE  /\ op \in DeleteOp
           /\ op.at # Nil =>
                /\ op.at \in Here(node) /\ (op.at # root => Num(node, op.at) > Empty)
                /\ op.inner = Nowhere => Between(node, s, op.at, op.key)
                /\ op.inner # Nowhere =>
                      /\ op.inner[1] \in Here(node) /\ h[op.at] < h[op.inner[1]]
                      /\ op.inner[2] \in 1..Num(node, op.inner[1])
                      /\ node[op.inner[1]].keys[op.inner[2]] = op.key
                      /\ IF op.leftmost THEN s[op.at][0] = op.key
                         ELSE s[op.at][Num(node, op.at) + 1] = op.key
<1>1. op \in DeleteOp
  BY DEF Good, OpTyped, Idle, DeleteOp
<1>2. OpFits(node, root, h, s, op)
  BY DEF Good
<1> QED  BY <1>1, <1>2 DEF OpFits

\* The key, or the gap next to the key, that Delete's loop goes on to.
Ahead(lower, upper) ==
    IF op.inner = Nowhere THEN lower < op.key /\ op.key < upper
    ELSE IF op.leftmost THEN lower = op.key ELSE upper = op.key

\* Delete goes on through the gap that holds its key, or next to the key it found.
LEMMA WayGap ==
    ASSUME NEW h, NEW s, Good(node, root, op, h, s), Passing
    PROVE  /\ op \in DeleteOp /\ op.do = "delete" /\ op.at \in Here(node) /\ ~node[op.at].leaf
           /\ Num(node, op.at) \in Nat /\ Num(node, op.at) # 0
           /\ Way \in Nat /\ Way \in 1..(Num(node, op.at) + 1)
           /\ Ahead(s[op.at][Way - 1], s[op.at][Way])
           /\ op.inner # Nowhere => IF op.leftmost THEN Way = 1 ELSE Way = Num(node, op.at) + 1
<1>1. /\ op.do = "delete" /\ op.at # Nil /\ ~node[op.at].leaf
      /\ op.inner = Nowhere => ~Has(op.at, op.key)
  BY DEF Passing, Deleting, Leaf, Found, Searching
<1>2. op \in DeleteOp /\ op.at \in Here(node)
  BY <1>1, DeleteAt
<1>3. Num(node, op.at) \in Nat
  BY <1>2, Handles
<1>4. Num(node, op.at) # 0
  BY <1>1, <1>2 DEF Good, Filled, Growing
<1>5. CASE op.inner = Nowhere
  <2>1. op.key \in Keys /\ Between(node, s, op.at, op.key)
    BY <1>1, <1>2, <1>5, DeleteAt DEF DeleteOp
  <2>2. Way = Ge
    BY <1>5 DEF Way, Searching
  <2>3. /\ Ge \in Nat /\ Ge \in 1..(Num(node, op.at) + 1)
        /\ s[op.at][Ge - 1] < op.key /\ op.key < s[op.at][Ge]
    BY <2>1, <1>1, <1>2, <1>5, GeGap
  <2>4. Ahead(s[op.at][Ge - 1], s[op.at][Ge])
    BY <2>3, <1>5 DEF Ahead
  <2> QED  BY <1>1, <1>2, <1>3, <1>4, <1>5, <2>2, <2>3, <2>4
<1>6. CASE op.inner # Nowhere /\ op.leftmost
  <2>1. Way = 1
    BY <1>6 DEF Way, Searching
  <2>2. s[op.at][0] = op.key
    BY <1>1, <1>6, DeleteAt
  <2>3. Ahead(s[op.at][1 - 1], s[op.at][1])
    BY <2>2, <1>6 DEF Ahead
  <2> QED  BY <1>1, <1>2, <1>3, <1>4, <1>6, <2>1, <2>3
<1>7. CASE op.inner # Nowhere /\ ~op.leftmost
  <2>1. Way = Num(node, op.at) + 1
    BY <1>7 DEF Way, Searching, Count, Num
  <2>2. s[op.at][Num(node, op.at) + 1] = op.key
    BY <1>1, <1>7, DeleteAt
  <2>3. Ahead(s[op.at][Way - 1], s[op.at][Way])
    BY <2>1, <2>2, <1>7 DEF Ahead
  <2> QED  BY <1>1, <1>2, <1>3, <1>4, <1>7, <2>1, <2>3
<1> QED  BY <1>5, <1>6, <1>7

\* Delete finds its key in an inner node and goes on to a neighbour of it.
LEMMA DeleteInnerStep ==
    ASSUME NEW h, NEW s, Good(node, root, op, h, s), DeleteInner
    PROVE  TreeInv'
<1> DEFINE n == op.at
           l == node[n].child[Ge]
           r == node[n].child[Ge + 1]
           c == IF Poor(l) THEN r ELSE l
<1>1. /\ op.do = "delete" /\ n # Nil /\ ~node[n].leaf /\ op.inner = Nowhere /\ Has(n, op.key)
      /\ ~(Poor(l) /\ Poor(r))
      /\ op' = [op EXCEPT !.inner = <<n, Ge>>, !.leftmost = Poor(l), !.at = c]
      /\ node' = node /\ root' = root
  BY DEF DeleteInner, Deleting, Leaf, Found, Searching
<1>2. op \in DeleteOp /\ n \in Here(node) /\ Between(node, s, n, op.key) /\ op.key \in Keys
  BY <1>1, DeleteAt DEF DeleteOp
<1>3. Num(node, n) \in Nat /\ n \in Nodes /\ n # Nil
  BY <1>2, Handles
<1>4. /\ Ge \in Nat /\ Ge \in 1..Num(node, n) /\ s[n][Ge] = op.key /\ node[n].keys[Ge] = op.key
  BY <1>1, <1>2, <1>3, GeGap
<1>5. Ge \in 1..(Num(node, n) + 1) /\ Ge + 1 \in 1..(Num(node, n) + 1) /\ Ge + 1 - 1 = Ge
  BY <1>3, <1>4
<1>6. /\ l \in Here(node) /\ h[n] = h[l] + 1 /\ s[l][Num(node, l) + 1] = s[n][Ge] /\ Empty <= Num(node, l)
  BY <1>1, <1>2, <1>5, ChildIs, SMTT(30)
<1>7. /\ r \in Here(node) /\ h[n] = h[r] + 1 /\ s[r][0] = s[n][Ge] /\ Empty <= Num(node, r)
  BY <1>1, <1>2, <1>5, ChildIs
<1>8. Empty \in Nat /\ Num(node, l) \in Nat /\ Num(node, r) \in Nat /\ h[l] \in Nat /\ h[r] \in Nat /\ c \in Nodes
  BY <1>6, <1>7, Handles, BTreeAssumption DEF Empty
<1>9. c \in Here(node) /\ h[c] < h[n] /\ Num(node, c) > Empty
  <2>1. (Poor(l) <=> Num(node, l) = Empty) /\ (Poor(r) <=> Num(node, r) = Empty)
    BY DEF Poor, Count, Num
  <2> HIDE DEF l, r
  <2> QED  BY <2>1, <1>1, <1>6, <1>7, <1>8
<1>10. IF Poor(l) THEN s[c][0] = op.key ELSE s[c][Num(node, c) + 1] = op.key
  BY <1>4, <1>6, <1>7
<1>11. Poor(l) \in BOOLEAN
  BY DEF Poor
<1> HIDE DEF c
<1>12. /\ op' \in DeleteOp /\ op'.do = "delete" /\ op'.key = op.key /\ op'.at = c /\ op'.inner = <<n, Ge>>
       /\ op'.leftmost = Poor(l)
  <2> HIDE DEF l, n
  <2> QED  BY <1>1, <1>2, <1>3, <1>4, <1>8, <1>11, Zenon DEF DeleteOp
<1>13. OpTyped(op')
  BY <1>12 DEF OpTyped, DeleteOp
<1>14. op'.inner # Nowhere /\ op'.at # Nil /\ op'.inner[1] = n /\ op'.inner[2] = Ge
  BY <1>12, <1>3, <1>9, Handles DEF Nowhere, Nil
<1>15. OpFits(node, root, h, s, op')
  BY <1>2, <1>4, <1>9, <1>10, <1>12, <1>14 DEF OpFits
<1> QED  BY <1>1, <1>13, <1>15, OnlyTheLoop, NotGrowing

\* Delete's loop goes on to node c.
LEMMA DescendFits ==
    ASSUME NEW f, NEW h, NEW s, NEW top, NEW c, op \in DeleteOp,
           op' = [op EXCEPT !.at = c], c \in Here(f), c \in Nodes, c # Nil, c # top => Num(f, c) > Empty,
           Ahead(s[c][0], s[c][Num(f, c) + 1]),
           op.inner # Nowhere =>
               /\ op.inner[1] \in Here(f) /\ h[c] < h[op.inner[1]]
               /\ op.inner[2] \in 1..Num(f, op.inner[1])
               /\ f[op.inner[1]].keys[op.inner[2]] = op.key
    PROVE  OpTyped(op') /\ OpFits(f, top, h, s, op') /\ op'.do = "delete"
<1>1. /\ op' \in DeleteOp /\ op'.do = "delete" /\ op'.key = op.key /\ op'.at = c
      /\ op'.inner = op.inner /\ op'.leftmost = op.leftmost
  BY DEF DeleteOp
<1>2. OpTyped(op')
  BY <1>1 DEF OpTyped, DeleteOp
<1>3. CASE op.inner = Nowhere
  BY <1>1, <1>2, <1>3 DEF OpFits, Ahead, Between
<1>4. CASE op.inner # Nowhere
  BY <1>1, <1>2, <1>4 DEF OpFits, Ahead
<1> QED  BY <1>3, <1>4

\* Delete goes down to a child that can spare a key.
LEMMA DeleteDescendStep ==
    ASSUME NEW h, NEW s, Good(node, root, op, h, s), DeleteDescend
    PROVE  TreeInv'
<1> DEFINE n == op.at
           c == node[n].child[Way]
<1>1. /\ Passing /\ ~Poor(c) /\ op' = [op EXCEPT !.at = c] /\ node' = node /\ root' = root
  BY DEF DeleteDescend, Descend, OnWay
<1>2. /\ op \in DeleteOp /\ op.do = "delete" /\ n \in Here(node) /\ ~node[n].leaf
      /\ Way \in 1..(Num(node, n) + 1) /\ Ahead(s[n][Way - 1], s[n][Way])
  BY <1>1, WayGap
<1>3. /\ c \in Here(node) /\ h[n] = h[c] + 1 /\ Empty <= Num(node, c)
      /\ s[c][0] = s[n][Way - 1] /\ s[c][Num(node, c) + 1] = s[n][Way]
  BY <1>2, ChildIs
<1>4. Empty \in Nat /\ Num(node, c) \in Nat /\ c \in Nodes /\ c # Nil /\ h[c] \in Nat
  BY <1>3, Handles, BTreeAssumption DEF Empty
<1>5. Num(node, c) > Empty
  BY <1>1, <1>3, <1>4 DEF Poor, Count, Num
<1>6. Ahead(s[c][0], s[c][Num(node, c) + 1])
  BY <1>2, <1>3
<1>7. op.inner # Nowhere =>
               /\ op.inner[1] \in Here(node) /\ h[c] < h[op.inner[1]]
               /\ op.inner[2] \in 1..Num(node, op.inner[1])
               /\ node[op.inner[1]].keys[op.inner[2]] = op.key
  <2> SUFFICES ASSUME op.inner # Nowhere
               PROVE  /\ op.inner[1] \in Here(node) /\ h[c] < h[op.inner[1]]
                      /\ op.inner[2] \in 1..Num(node, op.inner[1])
                      /\ node[op.inner[1]].keys[op.inner[2]] = op.key
    OBVIOUS
  <2>1. /\ op.inner[1] \in Here(node) /\ h[n] < h[op.inner[1]]
        /\ op.inner[2] \in 1..Num(node, op.inner[1])
        /\ node[op.inner[1]].keys[op.inner[2]] = op.key
    BY <1>2, DeleteAt, Handles
  <2>2. h[n] \in Nat /\ h[op.inner[1]] \in Nat
    BY <2>1, <1>2, Handles
  <2> QED  BY <2>1, <2>2, <1>3, <1>4
<1>8. OpTyped(op') /\ OpFits(node, root, h, s, op')
  <2> HIDE DEF c
  <2> QED  BY <1>1, <1>2, <1>3, <1>4, <1>5, <1>6, <1>7, DescendFits, Zenon
<1> QED  BY <1>1, <1>2, <1>8, OnlyTheLoop, NotGrowing

-----------------------------------------------------------------------------
(* Sequences with an element more or less. *)

\* p is q with e more at index i, q with one element less there, or q from i to j.
Longer(p, q, i, e) ==
    /\ Len(p) = Len(q) + 1
    /\ \A j \in 1..(Len(q) + 1) : p[j] = IF j < i THEN q[j] ELSE IF j = i THEN e ELSE q[j - 1]
Shorter(p, q, i) ==
    /\ Len(p) = Len(q) - 1
    /\ \A j \in 1..(Len(q) - 1) : p[j] = IF j < i THEN q[j] ELSE q[j + 1]
Slice(p, q, i, j) ==
    /\ Len(p) = j - i + 1
    /\ \A k \in 1..(j - i + 1) : p[k] = q[i + k - 1]
Chain(p, q, r) ==
    /\ Len(p) = Len(q) + Len(r)
    /\ \A j \in 1..(Len(q) + Len(r)) : p[j] = IF j <= Len(q) THEN q[j] ELSE r[j - Len(q)]

\* InsertAt, RemoveAt, Part, SubSeq and \o, by what is at each index.
LEMMA InsertedIs ==
    ASSUME NEW S, NEW q \in Seq(S), NEW i \in 1..(Len(q) + 1), NEW e \in S
    PROVE  InsertAt(q, i, e) \in Seq(S) /\ Longer(InsertAt(q, i, e), q, i, e)
<1> DEFINE a == SubSeq(q, 1, i - 1)
           b == SubSeq(q, i, Len(q))
<1>1. Len(q) \in Nat /\ \A j \in 1..Len(q) : q[j] \in S
  OBVIOUS
<1>2. a \in Seq(S) /\ Len(a) = i - 1 /\ \A j \in 1..(i - 1) : a[j] = q[j]
  BY <1>1
<1>3. b \in Seq(S) /\ Len(b) = Len(q) + 1 - i /\ \A j \in 1..(Len(q) + 1 - i) : b[j] = q[i + j - 1]
  BY <1>1
<1>4. InsertAt(q, i, e) = (a \o <<e>>) \o b
  BY DEF InsertAt
<1> HIDE DEF a, b
<1>5. /\ a \o <<e>> \in Seq(S) /\ Len(a \o <<e>>) = i
      /\ \A j \in 1..i : (a \o <<e>>)[j] = IF j < i THEN q[j] ELSE e
  BY <1>1, <1>2
<1> DEFINE d == a \o <<e>>
<1> HIDE DEF d
<1>6. /\ d \o b \in Seq(S) /\ Len(d \o b) = Len(q) + 1
      /\ \A j \in 1..(Len(q) + 1) : (d \o b)[j] = IF j <= i THEN d[j] ELSE b[j - i]
  <2>1. d \in Seq(S) /\ b \in Seq(S) /\ Len(d) = i /\ Len(b) = Len(q) + 1 - i /\ i \in Nat
    BY <1>1, <1>3, <1>5 DEF d
  <2>2. /\ d \o b \in Seq(S) /\ Len(d \o b) = Len(d) + Len(b)
        /\ \A j \in 1..(Len(d) + Len(b)) : (d \o b)[j] = IF j <= Len(d) THEN d[j] ELSE b[j - Len(d)]
    BY ONLY <2>1, ConcatProperties, Zenon
  <2>3. Len(d) + Len(b) = Len(q) + 1
    BY <2>1, <1>1
  <2> QED  BY <2>1, <2>2, <2>3
<1>7. ASSUME NEW j \in 1..(Len(q) + 1)
      PROVE  (d \o b)[j] = IF j < i THEN q[j] ELSE IF j = i THEN e ELSE q[j - 1]
  <2>1. CASE j <= i
    BY <2>1, <1>1, <1>5, <1>6, <1>7 DEF d
  <2>2. CASE j > i
    <3>1. j - i \in 1..(Len(q) + 1 - i) /\ i + (j - i) - 1 = j - 1
      BY <2>2, <1>1, <1>7
    <3>2. b[j - i] = q[j - 1]
      BY <3>1, <1>3
    <3> QED  BY <2>2, <3>2, <1>1, <1>6, <1>7
  <2>3. j <= i \/ j > i
    BY <1>1, <1>7
  <2> QED  BY ONLY <2>1, <2>2, <2>3, Zenon
<1> QED  BY <1>4, <1>6, <1>7, Zenon DEF d, Longer

\* A sequence without its entry i.
LEMMA RemovedIs ==
    ASSUME NEW S, NEW q \in Seq(S), NEW i \in 1..Len(q)
    PROVE  RemoveAt(q, i) \in Seq(S) /\ Shorter(RemoveAt(q, i), q, i)
<1> DEFINE a == SubSeq(q, 1, i - 1)
           b == SubSeq(q, i + 1, Len(q))
<1>1. Len(q) \in Nat /\ \A j \in 1..Len(q) : q[j] \in S
  OBVIOUS
<1>2. a \in Seq(S) /\ Len(a) = i - 1 /\ \A j \in 1..(i - 1) : a[j] = q[j]
  BY <1>1
<1>3. b \in Seq(S) /\ Len(b) = Len(q) - i /\ \A j \in 1..(Len(q) - i) : b[j] = q[i + j]
  BY <1>1
<1>4. RemoveAt(q, i) = a \o b
  BY DEF RemoveAt
<1> HIDE DEF a, b
<1>6. /\ a \o b \in Seq(S) /\ Len(a \o b) = Len(q) - 1
      /\ \A j \in 1..(Len(q) - 1) : (a \o b)[j] = IF j < i THEN a[j] ELSE b[j - i + 1]
  <2>1. a \in Seq(S) /\ b \in Seq(S) /\ Len(a) = i - 1 /\ Len(b) = Len(q) - i
    BY <1>2, <1>3
  <2>2. /\ a \o b \in Seq(S) /\ Len(a \o b) = Len(a) + Len(b)
        /\ \A j \in 1..(Len(a) + Len(b)) : (a \o b)[j] = IF j <= Len(a) THEN a[j] ELSE b[j - Len(a)]
    BY ONLY <2>1, ConcatProperties, Zenon
  <2>3. Len(a) + Len(b) = Len(q) - 1
    BY <2>1, <1>1
  <2>4. ASSUME NEW j \in 1..(Len(q) - 1)
        PROVE  (a \o b)[j] = IF j < i THEN a[j] ELSE b[j - i + 1]
    <3>1. (j <= i - 1 <=> j < i) /\ j - (i - 1) = j - i + 1
      BY <2>4, <1>1
    <3> QED  BY <3>1, <2>1, <2>2, <2>3, <2>4, Zenon
  <2> QED  BY <2>2, <2>3, <2>4
<1>7. ASSUME NEW j \in 1..(Len(q) - 1)
      PROVE  (a \o b)[j] = IF j < i THEN q[j] ELSE q[j + 1]
  <2>1. CASE j < i
    BY <2>1, <1>1, <1>2, <1>6, <1>7
  <2>2. CASE j >= i
    <3>1. j - i + 1 \in 1..(Len(q) - i) /\ i + (j - i + 1) = j + 1
      BY <2>2, <1>1, <1>7
    <3>2. b[j - i + 1] = q[j + 1]
      BY <3>1, <1>3
    <3> QED  BY <2>2, <3>2, <1>1, <1>6, <1>7
  <2>3. j < i \/ j >= i
    BY <1>1, <1>7
  <2> QED  BY ONLY <2>1, <2>2, <2>3, Zenon
<1> QED  BY <1>4, <1>6, <1>7 DEF Shorter

\* What part() leaves of a row of keys or children.
LEMMA PartIs ==
    ASSUME NEW S, NEW q \in Seq(S), NEW i \in 1..(Len(q) + 1), NEW j \in (i - 1)..Len(q), q # <<>>
    PROVE  Part(q, i, j) \in Seq(S) /\ Slice(Part(q, i, j), q, i, j)
<1>1. Len(q) \in Nat /\ \A k \in 1..Len(q) : q[k] \in S
  OBVIOUS
<1>2. Part(q, i, j) = SubSeq(q, i, j)
  BY DEF Part
<1>3. i \in Int /\ j \in Int /\ \A k \in i..j : q[k] \in S
  BY <1>1
<1>4. /\ SubSeq(q, i, j) \in Seq(S)
      /\ Len(SubSeq(q, i, j)) = IF i <= j THEN j - i + 1 ELSE 0
      /\ \A k \in 1..(j - i + 1) : SubSeq(q, i, j)[k] = q[i + k - 1]
  BY <1>3, SubSeqProperties
<1> QED  BY <1>2, <1>4, <1>3 DEF Slice

\* The entries from i to j of a sequence.
LEMMA SubSeqIs ==
    ASSUME NEW S, NEW q \in Seq(S), NEW i \in 1..(Len(q) + 1), NEW j \in (i - 1)..Len(q)
    PROVE  SubSeq(q, i, j) \in Seq(S) /\ Slice(SubSeq(q, i, j), q, i, j)
<1>1. Len(q) \in Nat /\ \A k \in 1..Len(q) : q[k] \in S
  OBVIOUS
<1>3. i \in Int /\ j \in Int /\ \A k \in i..j : q[k] \in S
  BY <1>1
<1>4. /\ SubSeq(q, i, j) \in Seq(S)
      /\ Len(SubSeq(q, i, j)) = IF i <= j THEN j - i + 1 ELSE 0
      /\ \A k \in 1..(j - i + 1) : SubSeq(q, i, j)[k] = q[i + k - 1]
  BY <1>3, SubSeqProperties
<1> QED  BY <1>4, <1>3 DEF Slice

\* Two sequences, one behind the other.
LEMMA ConcatIs ==
    ASSUME NEW S, NEW q \in Seq(S), NEW r \in Seq(S)
    PROVE  q \o r \in Seq(S) /\ Chain(q \o r, q, r)
BY ConcatProperties DEF Chain

-----------------------------------------------------------------------------
(* The content of the tree. *)

KeysOf(f) == {k \in Keys : \E n \in Here(f) : \E i \in 1..Num(f, n) : f[n].keys[i] = k}

ContentOf(f) == UNION {ToSet(f[n].keys) : n \in Here(f)}

\* The content of the model is the set of keys of the used nodes.
LEMMA ContentIs ==
    ASSUME NEW f \in Forest
    PROVE  ContentOf(f) = KeysOf(f)
<1>1. ASSUME NEW n \in Here(f)
      PROVE  /\ ToSet(f[n].keys) = {f[n].keys[i] : i \in 1..Num(f, n)}
             /\ \A i \in 1..Num(f, n) : f[n].keys[i] \in Keys
  <2>1. f[n] \in NodeType
    BY <1>1 DEF Here, Forest
  <2> QED  BY <2>1 DEF NodeType, Num, ToSet
<1>2. ContentOf(f) \subseteq KeysOf(f)
  <2> SUFFICES ASSUME NEW n \in Here(f), NEW k \in ToSet(f[n].keys) PROVE k \in KeysOf(f)
    BY DEF ContentOf
  <2> QED  BY <1>1 DEF KeysOf
<1>3. KeysOf(f) \subseteq ContentOf(f)
  <2> SUFFICES ASSUME NEW k \in KeysOf(f) PROVE k \in ContentOf(f)
    OBVIOUS
  <2>1. PICK n \in Here(f) : \E i \in 1..Num(f, n) : f[n].keys[i] = k
    BY DEF KeysOf
  <2>2. k \in ToSet(f[n].keys)
    BY <2>1, <1>1
  <2> QED  BY <2>1, <2>2 DEF ContentOf
<1> QED  BY <1>2, <1>3

-----------------------------------------------------------------------------
(* Steps in a leaf. *)

\* A node that neither changed nor has children that changed.
LEMMA Unmoved ==
    ASSUME NEW f \in Forest, NEW g \in Forest, NEW h, NEW s, NEW h2, NEW s2, NEW n \in Nodes, NodeFits(f, h, s, n),
           g[n].leaf = f[n].leaf, g[n].keys = f[n].keys, g[n].child = f[n].child,
           h2[n] = h[n], s2[n] = s[n],
           \A c \in Nodes : c \in Here(f) /\ f[c].parent = n =>
               /\ c \in Here(g) /\ g[c].parent = n /\ h2[c] = h[c]
               /\ s2[c][0] = s[c][0] /\ s2[c][Num(g, c) + 1] = s[c][Num(f, c) + 1]
    PROVE  NodeFits(g, h2, s2, n)
<1>1. Num(g, n) = Num(f, n) /\ f[n].child \in Seq(Nodes)
  BY DEF Num, Forest, NodeType
<1>2. ASSUME NEW i \in 1..Len(g[n].child) PROVE Hangs(g, h2, s2, n, i)
  <2>1. Hangs(f, h, s, n, i) /\ f[n].child[i] \in Nodes
    BY <1>1, <1>2 DEF NodeFits
  <2> QED  BY <2>1 DEF Hangs
<1> QED  BY <1>1, <1>2 DEF NodeFits

\* In g the keys of leaf n are others than in f, between the same bounds.
LeafEdit(f, g, s, s2, n) ==
    /\ g \in Forest /\ s2 \in Marks /\ n \in Here(f) /\ f[n].leaf
    /\ \A m \in Nodes : /\ g[m].leaf = f[m].leaf /\ g[m].parent = f[m].parent /\ g[m].child = f[m].child
                        /\ (m # n => g[m] = f[m] /\ s2[m] = s[m])
    /\ s2[n][0] = s[n][0] /\ s2[n][Num(g, n) + 1] = s[n][Num(f, n) + 1]
    /\ \A i \in 1..Num(g, n) : s2[n][i] = g[n].keys[i]
    /\ \A i, j \in 0..(Num(g, n) + 1) : i < j => s2[n][i] < s2[n][j]

\* Other keys in a leaf, between the same bounds, leave a tree a tree.
LEMMA LeafChanged ==
    ASSUME NEW f, NEW h, NEW s, NEW top, Typed(f, h, s), TreeFits(f, top, h, s),
           NEW g, NEW s2, NEW n, LeafEdit(f, g, s, s2, n)
    PROVE  Typed(g, h, s2) /\ TreeFits(g, top, h, s2) /\ Here(g) = Here(f)
<1>a. /\ g \in Forest /\ s2 \in Marks /\ n \in Here(f) /\ f[n].leaf
      /\ s2[n][0] = s[n][0] /\ s2[n][Num(g, n) + 1] = s[n][Num(f, n) + 1]
      /\ \A i \in 1..Num(g, n) : s2[n][i] = g[n].keys[i]
      /\ \A i, j \in 0..(Num(g, n) + 1) : i < j => s2[n][i] < s2[n][j]
  BY DEF LeafEdit
<1>b. \A m \in Nodes : /\ g[m].leaf = f[m].leaf /\ g[m].parent = f[m].parent /\ g[m].child = f[m].child
                       /\ (m # n => g[m] = f[m] /\ s2[m] = s[m])
  BY DEF LeafEdit
<1>1. Typed(g, h, s2)
  BY <1>a, <1>b DEF Typed
<1>2. Here(g) = Here(f)
  <2>1. \A m \in Nodes : m # n => (m \in Here(g) <=> m \in Here(f))
    BY <1>a, <1>b DEF Here
  <2>2. n \in Nodes /\ n \in Here(g)
    BY <1>a, <1>b DEF Here, Freed
  <2> QED  BY <1>a, <1>b, <2>1, <2>2 DEF Here
<1>3. \A m \in Here(f) : m \in Nodes /\ NodeFits(f, h, s, m) /\ Grounded(f, h, top, m)
  BY <1>a, <1>b DEF TreeFits, Here
<1>4. \A m \in Nodes : m # n => Num(g, m) = Num(f, m)
  BY <1>a, <1>b DEF Num
<1>5. \A m \in Nodes : s2[m][0] = s[m][0] /\ s2[m][Num(g, m) + 1] = s[m][Num(f, m) + 1]
  BY <1>a, <1>b, <1>4
<1>6. ASSUME NEW m \in Here(f), m # n PROVE NodeFits(g, h, s2, m)
  <2>1. /\ m \in Nodes /\ NodeFits(f, h, s, m) /\ f \in Forest
        /\ g[m].leaf = f[m].leaf /\ g[m].keys = f[m].keys /\ g[m].child = f[m].child /\ s2[m] = s[m]
    BY <1>a, <1>b, <1>3, <1>6 DEF Typed
  <2>2. \A c \in Nodes : c \in Here(f) /\ f[c].parent = m =>
               /\ c \in Here(g) /\ g[c].parent = m
               /\ s2[c][0] = s[c][0] /\ s2[c][Num(g, c) + 1] = s[c][Num(f, c) + 1]
    BY <1>a, <1>b, <1>2, <1>5
  <2> QED  BY <1>a, <1>b, <2>1, <2>2, Unmoved
<1>7. NodeFits(g, h, s2, n)
  <2>1. /\ g[n].leaf /\ n \in Nodes /\ (f[n].leaf <=> h[n] = 0)
        /\ Len(g[n].child) = 0
    BY <1>a, <1>b, <1>3 DEF NodeFits
  <2> QED  BY <1>a, <1>b, <2>1 DEF NodeFits
<1>8. \A m \in Here(f) : Grounded(g, h, top, m)
  <2> SUFFICES ASSUME NEW m \in Here(f), m # top
               PROVE  /\ g[m].parent \in Here(g)
                      /\ \E i \in 1..Len(g[g[m].parent].child) : g[g[m].parent].child[i] = m
                      /\ h[m] < h[top]
    BY <1>a, <1>b DEF Grounded
  <2>1. /\ f[m].parent \in Here(f)
        /\ \E i \in 1..Len(f[f[m].parent].child) : f[f[m].parent].child[i] = m
        /\ h[m] < h[top]
    BY <1>a, <1>b, <1>3 DEF Grounded
  <2>2. m \in Nodes /\ f[m].parent \in Nodes /\ g[m].parent = f[m].parent
    BY <1>a, <1>b, <2>1, <1>3
  <2> QED  BY <1>a, <1>b, <2>1, <2>2, <1>2
<1>9. top \in Here(f) => top \in Nodes /\ g[top].parent = f[top].parent
  BY <1>a, <1>b, <1>3
<1> QED  BY <1>1, <1>2, <1>5, <1>6, <1>7, <1>8, <1>9 DEF TreeFits

\* A key is not within the span of another node that is not higher than its own.
LEMMA NotWithin ==
    ASSUME NEW f, NEW h, NEW s, NEW top, Typed(f, h, s), TreeFits(f, top, h, s),
           NEW n \in Here(f), NEW m \in Here(f), n # m, h[n] >= h[m], NEW i \in 1..Num(f, n)
    PROVE  ~Between(f, s, m, f[n].keys[i])
<1>1. top # Nil /\ Typed(f, h, s) /\ TreeFits(f, top, h, s)
  BY DEF TreeFits
<1>2. NodeFits(f, h, s, n) /\ Num(f, n) \in Nat /\ NodeFits(f, h, s, m) /\ Num(f, m) \in Nat
  BY HandlesIn
<1>3. Uncut(f, s, n, m)
  BY <1>1, NodesSeparate DEF Separate
<1>4. i \in 0..(Num(f, n) + 1) /\ i \in Nat
  BY <1>2
<1>5. s[n][i] <= s[m][0] \/ s[m][Num(f, m) + 1] <= s[n][i]
  BY <1>3, <1>4 DEF Uncut
<1>6. s[n][i] = f[n].keys[i]
  BY <1>2 DEF NodeFits
<1>7. s[n][i] \in Nat /\ s[m][0] \in Nat /\ s[m][Num(f, m) + 1] \in Nat
  BY <1>1, <1>2, <1>4, Rising
<1> QED  BY <1>5, <1>6, <1>7 DEF Between

\* A key of a node is within its span.
LEMMA OwnKeyWithin ==
    ASSUME NEW f, NEW h, NEW s, NEW top, Typed(f, h, s), TreeFits(f, top, h, s), NEW n \in Here(f), NEW i \in 1..Num(f, n)
    PROVE  Between(f, s, n, f[n].keys[i])
<1>1. NodeFits(f, h, s, n) /\ Num(f, n) \in Nat
  BY HandlesIn
<1>2. s[n][0] < s[n][i] /\ s[n][i] < s[n][Num(f, n) + 1] /\ s[n][i] = f[n].keys[i]
  BY <1>1 DEF NodeFits
<1> QED  BY <1>2 DEF Between

\* No key is in two places.
LEMMA KeyOnce ==
    ASSUME NEW f, NEW h, NEW s, NEW top, Typed(f, h, s), TreeFits(f, top, h, s),
           NEW n \in Here(f), NEW m \in Here(f), NEW i \in 1..Num(f, n), NEW j \in 1..Num(f, m),
           f[n].keys[i] = f[m].keys[j]
    PROVE  n = m /\ i = j
<1>1. h[n] \in Nat /\ h[m] \in Nat
  BY HandlesIn
<1>2. Between(f, s, n, f[m].keys[j]) /\ Between(f, s, m, f[n].keys[i])
  BY OwnKeyWithin
<1>3. n = m
  <2>1. n # m /\ h[n] >= h[m] => FALSE
    BY <1>2, NotWithin
  <2>2. n # m /\ h[m] >= h[n] => FALSE
    BY <1>2, NotWithin
  <2> QED  BY <2>1, <2>2, <1>1
<1>4. NodeFits(f, h, s, n) /\ Num(f, n) \in Nat /\ Typed(f, h, s)
  BY HandlesIn
<1>5. i \in Nat /\ j \in Nat /\ s[n][i] \in Nat /\ s[n][j] \in Nat /\ s[n][i] = s[n][j]
  <2>1. j \in 1..Num(f, n) /\ f[n].keys[i] = f[n].keys[j]
    BY <1>3
  <2>2. s[n][i] = f[n].keys[i] /\ s[n][j] = f[n].keys[j]
    BY <2>1, <1>4 DEF NodeFits
  <2>3. i \in Nat /\ j \in Nat
    BY <2>1, <1>4
  <2> QED  BY <2>1, <2>2, <2>3, <1>4, Rising
<1>6. (i < j => s[n][i] < s[n][j]) /\ (j < i => s[n][j] < s[n][i])
  <2>1. i \in 0..(Num(f, n) + 1) /\ j \in 0..(Num(f, n) + 1)
    BY <1>3, <1>4
  <2> QED  BY <2>1, <1>4 DEF NodeFits
<1> QED  BY <1>3, <1>5, <1>6

\* Insert puts its key into a leaf.
LEMMA InsertLeafStep ==
    ASSUME NEW h, NEW s, Good(node, root, op, h, s), InsertLeaf
    PROVE  TreeInv' /\ KeysOf(node') = KeysOf(node) \cup {op.key}
<1> DEFINE n == op.at
           k == op.key
           g == Ge
           num == Num(node, n)
           s2 == [s EXCEPT ![n] = [j \in Nat |-> IF j < g THEN s[n][j] ELSE IF j = g THEN k ELSE s[n][j - 1]]]
<1>1. /\ op.do = "insert" /\ ~Has(n, k) /\ node[n].leaf
      /\ node' = [node EXCEPT ![n].keys = InsertAt(@, g, k)] /\ root' = root /\ op' = Idle
  BY DEF InsertLeaf, Inserting, Leaf, Return
<1>2. n \in Here(node) /\ Between(node, s, n, k) /\ num < Full /\ k \in Keys /\ n \in Nodes
  BY <1>1 DEF Good, OpFits, OpTyped, Idle, Here
<1>3. /\ node \in Forest /\ num \in Nat /\ node[n] \in NodeType /\ s \in Marks /\ k \in Nat /\ NodeFits(node, h, s, n)
  BY <1>2, Handles, KeysAreNat DEF Good, Typed
<1>4. g \in 1..(num + 1) /\ g \in Nat /\ s[n][g - 1] < k /\ k < s[n][g]
  BY <1>1, <1>2, GeGap
<1> HIDE DEF g
<1>5. /\ InsertAt(node[n].keys, g, k) \in Seq(Keys) /\ Len(InsertAt(node[n].keys, g, k)) = num + 1
      /\ \A j \in 1..(num + 1) : InsertAt(node[n].keys, g, k)[j] =
             IF j < g THEN node[n].keys[j] ELSE IF j = g THEN k ELSE node[n].keys[j - 1]
  <2> DEFINE q == node[n].keys
  <2>1. q \in Seq(Keys) /\ Len(q) = num
    BY <1>3 DEF NodeType, Num
  <2>2. g \in 1..(Len(q) + 1) /\ k \in Keys
    BY <2>1, <1>2, <1>4
  <2> HIDE DEF q, k, num
  <2>3. InsertAt(q, g, k) \in Seq(Keys) /\ Longer(InsertAt(q, g, k), q, g, k)
    BY <2>1, <2>2, InsertedIs
  <2> QED  BY <2>1, <2>3 DEF q, Longer
<1>6. /\ node' \in Forest
      /\ \A m \in Nodes : /\ node'[m].leaf = node[m].leaf /\ node'[m].parent = node[m].parent
                          /\ node'[m].child = node[m].child /\ (m # n => node'[m] = node[m])
      /\ node'[n].keys = InsertAt(node[n].keys, g, k)
  BY <1>1, <1>2, <1>3, <1>5, Zenon DEF Forest, NodeType
<1>7. /\ s2 \in Marks /\ \A m \in Nodes : m # n => s2[m] = s[m]
      /\ \A j \in Nat : s2[n][j] = IF j < g THEN s[n][j] ELSE IF j = g THEN k ELSE s[n][j - 1]
  <2>1. \A j \in Nat : (IF j < g THEN s[n][j] ELSE IF j = g THEN k ELSE s[n][j - 1]) \in Nat
    BY <1>2, <1>3, <1>4 DEF Marks
  <2> QED  BY <2>1, <1>2, <1>3 DEF Marks
<1> HIDE DEF s2
<1>8. Num(node', n) = num + 1 /\ \A m \in Nodes : m # n => Num(node', m) = Num(node, m)
  BY <1>5, <1>6 DEF Num
<1>9. \A i \in 1..num : s[n][i] = node[n].keys[i]
  BY <1>3 DEF NodeFits
<1>10. ASSUME NEW i \in 1..(num + 1) PROVE s2[n][i] = node'[n].keys[i]
  <2>1. i \in Nat /\ (i < g => i \in 1..num) /\ (i > g => i - 1 \in 1..num)
    BY <1>10, <1>3, <1>4
  <2> QED  BY <2>1, <1>10, <1>4, <1>5, <1>6, <1>7, <1>9
<1>11. s2[n][0] = s[n][0] /\ s2[n][num + 1 + 1] = s[n][num + 1]
  BY <1>3, <1>4, <1>7
<1>12. ASSUME NEW i \in 0..(num + 2), NEW j \in 0..(num + 2), i < j PROVE s2[n][i] < s2[n][j]
  <2>1. /\ \A a, b \in 0..(num + 1) : a <= b => s[n][a] <= s[n][b]
        /\ \A a, b \in 0..(num + 1) : a < b => s[n][a] < s[n][b]
        /\ \A a \in Nat : s[n][a] \in Nat
    BY <1>2, <1>3, Rising DEF Good
  <2>2. i \in Nat /\ j \in Nat
    BY <1>12, <1>3
  <2>3. CASE j < g
    <3>1. i \in 0..(num + 1) /\ j \in 0..(num + 1)
      BY <2>2, <2>3, <1>3, <1>4, <1>12
    <3> QED  BY <3>1, <2>1, <2>2, <2>3, <1>4, <1>7, <1>12
  <2>4. CASE j = g
    <3>1. i \in 0..(num + 1) /\ g - 1 \in 0..(num + 1) /\ i <= g - 1 /\ i < g
      BY <2>2, <2>4, <1>3, <1>4, <1>12
    <3>2. s[n][i] <= s[n][g - 1] /\ s[n][i] \in Nat /\ s[n][g - 1] \in Nat
      BY <3>1, <2>1, <2>2
    <3> QED  BY <3>1, <3>2, <2>2, <2>4, <1>3, <1>4, <1>7
  <2>5. CASE j > g /\ i < g
    <3>1. i \in 0..(num + 1) /\ j - 1 \in 0..(num + 1) /\ i < j - 1
      BY <2>2, <2>5, <1>3, <1>4, <1>12
    <3> QED  BY <3>1, <2>1, <2>2, <2>5, <1>4, <1>7
  <2>6. CASE j > g /\ i = g
    <3>1. g \in 0..(num + 1) /\ j - 1 \in 0..(num + 1) /\ g <= j - 1 /\ j - 1 \in Nat
      BY <2>2, <2>6, <1>3, <1>4, <1>12
    <3>2. s[n][g] <= s[n][j - 1] /\ s[n][g] \in Nat /\ s[n][j - 1] \in Nat
      BY <3>1, <2>1, <2>2
    <3> QED  BY <3>1, <3>2, <2>2, <2>6, <1>3, <1>4, <1>7
  <2>7. CASE j > g /\ i > g
    <3>1. i - 1 \in 0..(num + 1) /\ j - 1 \in 0..(num + 1) /\ i - 1 < j - 1
      BY <2>2, <2>7, <1>3, <1>4, <1>12
    <3> QED  BY <3>1, <2>1, <2>2, <2>7, <1>4, <1>7
  <2> QED  BY <2>2, <2>3, <2>4, <2>5, <2>6, <2>7, <1>4
<1>13. Typed(node', h, s2) /\ TreeFits(node', root, h, s2) /\ Here(node') = Here(node)
  <2>1. Typed(node, h, s) /\ TreeFits(node, root, h, s)
    BY DEF Good
  <2>2. num + 1 + 1 = num + 2
    BY <1>3
  <2>3. /\ s2[n][0] = s[n][0] /\ s2[n][Num(node', n) + 1] = s[n][Num(node, n) + 1]
        /\ \A i \in 1..Num(node', n) : s2[n][i] = node'[n].keys[i]
        /\ \A i, j \in 0..(Num(node', n) + 1) : i < j => s2[n][i] < s2[n][j]
    BY <2>2, <1>8, <1>10, <1>11, <1>12
  <2>4. /\ node' \in Forest /\ s2 \in Marks /\ n \in Here(node) /\ node[n].leaf
        /\ \A m \in Nodes : /\ node'[m].leaf = node[m].leaf /\ node'[m].parent = node[m].parent
                            /\ node'[m].child = node[m].child
                            /\ (m # n => node'[m] = node[m] /\ s2[m] = s[m])
    BY <1>1, <1>2, <1>6, <1>7
  <2>5. LeafEdit(node, node', s, s2, n)
    BY <2>3, <2>4 DEF LeafEdit
  <2> QED  BY ONLY <2>1, <2>5, LeafChanged
<1>14. Filled(node', root, Idle)
  <2>1. Filled(node, root, op) /\ ~(\E m \in Here(node) : ~node[m].leaf /\ Num(node, m) = 0 /\ m # n)
    BY <1>1 DEF Good, Filled, Growing
  <2>2. Full \in Nat /\ Empty \in Nat
    BY BTreeAssumption DEF Full, Empty
  <2>3. \A m \in Here(node) : m \in Nodes /\ Num(node, m) \in Nat
    BY Handles
  <2>4. ASSUME NEW m \in Here(node)
        PROVE  /\ Num(node', m) <= Full /\ (m # root => Num(node', m) >= Empty)
               /\ ~(~node'[m].leaf /\ Num(node', m) = 0)
    <3>1. CASE m = n
      BY <3>1, <2>1, <2>2, <2>3, <1>1, <1>2, <1>3, <1>6, <1>8 DEF Filled
    <3>2. CASE m # n
      BY <3>2, <2>1, <2>3, <1>6, <1>8 DEF Filled
    <3> QED  BY <3>1, <3>2
  <2> QED  BY <2>4, <1>13 DEF Filled
<1>15. Good(node', root', op', h, s2)
  <2>1. OpTyped(Idle) /\ OpFits(node', root, h, s2, Idle)
    BY DEF OpTyped, OpFits, Idle
  <2> QED  BY <2>1, <1>1, <1>13, <1>14 DEF Good
<1>16. KeysOf(node') = KeysOf(node) \cup {k}
  <2>1. ASSUME NEW x \in KeysOf(node) PROVE x \in KeysOf(node')
    <3>1. PICK m \in Here(node), i \in Int : i \in 1..Num(node, m) /\ node[m].keys[i] = x /\ x \in Keys
      BY DEF KeysOf
    <3>2. CASE m # n
      BY <3>1, <3>2, <1>6, <1>8, <1>13 DEF KeysOf, Here
    <3>3. CASE m = n
      <4>1. /\ i \in Nat /\ i \in 1..(num + 1) /\ i + 1 \in 1..(num + 1)
        BY <3>1, <3>3, <1>3
      <4>2. node'[n].keys[i] = x \/ node'[n].keys[i + 1] = x
        BY <4>1, <3>1, <3>3, <1>4, <1>5, <1>6
      <4> QED  BY <4>1, <4>2, <3>1, <1>2, <1>8, <1>13 DEF KeysOf
    <3> QED  BY <3>2, <3>3
  <2>2. k \in KeysOf(node')
    BY <1>2, <1>4, <1>5, <1>6, <1>8, <1>13 DEF KeysOf
  <2>3. ASSUME NEW x \in KeysOf(node'), x # k PROVE x \in KeysOf(node)
    <3>1. PICK m \in Here(node'), i \in Int : i \in 1..Num(node', m) /\ node'[m].keys[i] = x /\ x \in Keys
      BY DEF KeysOf
    <3>2. CASE m # n
      BY <3>1, <3>2, <1>6, <1>8, <1>13 DEF KeysOf, Here
    <3>3. CASE m = n
      <4>1. i \in 1..(num + 1) /\ i \in Nat
        BY <3>1, <3>3, <1>8, <1>3
      <4>2. i # g
        BY <4>1, <3>1, <3>3, <2>3, <1>5, <1>6, <1>4
      <4>3. (i < g => i \in 1..num) /\ (i > g => i - 1 \in 1..num)
        BY <4>1, <1>3, <1>4
      <4>4. (i < g /\ node[n].keys[i] = x) \/ (i > g /\ node[n].keys[i - 1] = x)
        BY <4>1, <4>2, <3>1, <3>3, <1>5, <1>6, <1>4
      <4> QED  BY <4>3, <4>4, <3>1, <1>2 DEF KeysOf
    <3> QED  BY <3>2, <3>3
  <2> QED  BY <2>1, <2>2, <2>3
<1> QED  BY <1>15, <1>16 DEF TreeInv

\* g is f without key i of leaf n.
LeafLess(f, g, s, s2, n, i) ==
    /\ Here(g) = Here(f) /\ g[n].leaf = f[n].leaf /\ Num(g, n) = Num(f, n) - 1
    /\ \A m \in Nodes : m # n => g[m] = f[m] /\ s2[m] = s[m]
    /\ \A j \in Nat : s2[n][j] = IF j < i THEN s[n][j] ELSE s[n][j + 1]
    /\ KeysOf(g) = KeysOf(f) \ {f[n].keys[i]}

\* A leaf can lose a key.
LEMMA LeafWithout ==
    ASSUME NEW f, NEW h, NEW s, NEW top, Typed(f, h, s), TreeFits(f, top, h, s),
           NEW n \in Here(f), f[n].leaf, NEW i \in 1..Num(f, n)
    PROVE  \E s2 : /\ Typed(KeyDelete(f, n, i), h, s2) /\ TreeFits(KeyDelete(f, n, i), top, h, s2)
                   /\ LeafLess(f, KeyDelete(f, n, i), s, s2, n, i)
<1> DEFINE g == KeyDelete(f, n, i)
           num == Num(f, n)
           s2 == [s EXCEPT ![n] = [j \in Nat |-> IF j < i THEN s[n][j] ELSE s[n][j + 1]]]
<1>1. /\ n \in Nodes /\ f[n] \in NodeType /\ num \in Nat /\ NodeFits(f, h, s, n)
      /\ f \in Forest /\ s \in Marks
  BY HandlesIn DEF Typed
<1>2. f[n].child = <<>>
  BY <1>1 DEF NodeFits, NodeType
<1>3. RemoveAt(f[n].keys, i) \in Seq(Keys) /\ Shorter(RemoveAt(f[n].keys, i), f[n].keys, i)
  <2>1. f[n].keys \in Seq(Keys) /\ i \in 1..Len(f[n].keys)
    BY <1>1 DEF NodeType, Num
  <2> QED  BY <2>1, RemovedIs
<1>4. /\ g \in Forest
      /\ \A m \in Nodes : g[m].leaf = f[m].leaf /\ g[m].parent = f[m].parent
                          /\ g[m].child = f[m].child /\ (m # n => g[m] = f[m])
      /\ g[n].keys = RemoveAt(f[n].keys, i)
  BY <1>1, <1>2, <1>3, Zenon DEF Forest, NodeType, KeyDelete
<1>5. i \in Nat /\ num >= 1 /\ num - 1 \in Nat
  BY <1>1
<1>6. /\ s2 \in Marks /\ \A m \in Nodes : m # n => s2[m] = s[m]
      /\ \A j \in Nat : s2[n][j] = IF j < i THEN s[n][j] ELSE s[n][j + 1]
  <2>1. \A j \in Nat : (IF j < i THEN s[n][j] ELSE s[n][j + 1]) \in Nat
    BY <1>1 DEF Marks
  <2> QED  BY <2>1, <1>1 DEF Marks
<1> HIDE DEF g, s2
<1>7. Num(g, n) = num - 1 /\ \A m \in Nodes : m # n => Num(g, m) = Num(f, m)
  BY <1>3, <1>4 DEF Num, Shorter
<1>8. \A j \in 1..(num - 1) : g[n].keys[j] = IF j < i THEN f[n].keys[j] ELSE f[n].keys[j + 1]
  BY <1>3, <1>4 DEF Shorter, Num
<1>9. \A j \in 1..num : s[n][j] = f[n].keys[j]
  BY <1>1 DEF NodeFits
<1>10. ASSUME NEW j \in 1..(num - 1) PROVE s2[n][j] = g[n].keys[j]
  <2>1. j \in Nat /\ j \in 1..num /\ j + 1 \in 1..num
    BY <1>1, <1>10
  <2> QED  BY <2>1, <1>6, <1>8, <1>9, <1>10
<1>11. s2[n][0] = s[n][0] /\ s2[n][num - 1 + 1] = s[n][num + 1]
  BY <1>1, <1>5, <1>6
<1>12. ASSUME NEW a \in 0..num, NEW b \in 0..num, a < b PROVE s2[n][a] < s2[n][b]
  <2>1. /\ \A x, y \in 0..(num + 1) : x < y => s[n][x] < s[n][y]
        /\ a \in Nat /\ b \in Nat
        /\ a \in 0..(num + 1) /\ b \in 0..(num + 1) /\ a + 1 \in 0..(num + 1) /\ b + 1 \in 0..(num + 1)
    BY <1>1, Rising, <1>12
  <2>2. s[n][a] < s[n][b] /\ s[n][a] < s[n][b + 1] /\ s[n][a + 1] < s[n][b + 1]
    <3>1. a < b /\ a < b + 1 /\ a + 1 < b + 1
      BY <2>1, <1>12
    <3> QED  BY <3>1, <2>1
  <2>3. b < i => a < i
    BY <2>1, <1>5, <1>12
  <2>4. /\ s2[n][a] = IF a < i THEN s[n][a] ELSE s[n][a + 1]
        /\ s2[n][b] = IF b < i THEN s[n][b] ELSE s[n][b + 1]
    BY <2>1, <1>6
  <2>5. CASE b < i
    BY <2>2, <2>3, <2>4, <2>5
  <2>6. CASE ~(b < i) /\ a < i
    BY <2>2, <2>4, <2>6
  <2>7. CASE ~(b < i) /\ ~(a < i)
    BY <2>2, <2>4, <2>7
  <2> QED  BY <2>5, <2>6, <2>7, <2>3
<1>13. Typed(g, h, s2) /\ TreeFits(g, top, h, s2) /\ Here(g) = Here(f)
  <2>1. /\ s2[n][0] = s[n][0] /\ s2[n][Num(g, n) + 1] = s[n][Num(f, n) + 1]
        /\ \A j \in 1..Num(g, n) : s2[n][j] = g[n].keys[j]
        /\ \A a, b \in 0..(Num(g, n) + 1) : a < b => s2[n][a] < s2[n][b]
    <3>1. num - 1 + 1 = num
      BY <1>1
    <3> QED  BY <3>1, <1>7, <1>10, <1>11, <1>12
  <2>2. LeafEdit(f, g, s, s2, n)
    BY <2>1, <1>4, <1>6 DEF LeafEdit
  <2> QED  BY <2>2, LeafChanged
<1>14. KeysOf(g) = KeysOf(f) \ {f[n].keys[i]}
  <2>1. ASSUME NEW x \in KeysOf(g) PROVE x \in KeysOf(f) /\ x # f[n].keys[i]
    <3>1. PICK m \in Here(g), j \in Int : j \in 1..Num(g, m) /\ g[m].keys[j] = x /\ x \in Keys
      BY DEF KeysOf
    <3>2. \E y \in Int : y \in 1..Num(f, m) /\ f[m].keys[y] = x /\ (m = n => y # i)
      <4>1. CASE m # n
        BY <3>1, <4>1, <1>4, <1>7, <1>13 DEF Here
      <4>2. CASE m = n
        <5>1. j \in 1..(num - 1) /\ j \in 1..num /\ j + 1 \in 1..num
          BY <3>1, <4>2, <1>7, <1>1
        <5>2. CASE j < i
          <6>1. f[m].keys[j] = x
            BY <3>1, <4>2, <5>1, <5>2, <1>8
          <6> QED  BY <6>1, <5>1, <5>2, <4>2, <3>1
        <5>3. CASE ~(j < i)
          <6>1. f[m].keys[j + 1] = x
            BY <3>1, <4>2, <5>1, <5>3, <1>8
          <6>2. j + 1 # i /\ j + 1 \in Int
            BY <5>3, <5>1, <1>5
          <6> QED  BY <6>1, <6>2, <5>1, <4>2, <3>1
        <5> QED  BY <5>2, <5>3
      <4> QED  BY <4>1, <4>2
    <3>3. PICK y \in Int : y \in 1..Num(f, m) /\ f[m].keys[y] = x /\ (m = n => y # i)
      BY <3>2
    <3>4. m \in Here(f)
      BY <3>1, <1>13
    <3>5. x # f[n].keys[i]
      BY <3>3, <3>4, KeyOnce
    <3> QED  BY <3>1, <3>3, <3>4, <3>5 DEF KeysOf
  <2>2. ASSUME NEW x \in KeysOf(f), x # f[n].keys[i] PROVE x \in KeysOf(g)
    <3>1. PICK m \in Here(f), j \in Int : j \in 1..Num(f, m) /\ f[m].keys[j] = x /\ x \in Keys
      BY DEF KeysOf
    <3>2. CASE m # n
      BY <3>1, <3>2, <1>4, <1>7, <1>13 DEF KeysOf, Here
    <3>3. CASE m = n
      <4>1. j # i
        BY <3>1, <3>3, <2>2
      <4>2. CASE j < i
        <5>1. j \in 1..(num - 1)
          BY <3>1, <3>3, <4>2, <1>1
        <5> QED  BY <5>1, <4>2, <3>1, <3>3, <1>7, <1>8, <1>13 DEF KeysOf
      <4>3. CASE j > i
        <5>1. j - 1 \in 1..(num - 1) /\ j - 1 \in Int /\ ~(j - 1 < i) /\ j - 1 + 1 = j
          BY <3>1, <3>3, <4>3, <1>1
        <5>2. g[n].keys[j - 1] = x
          BY <5>1, <3>1, <3>3, <1>8
        <5> QED  BY <5>1, <5>2, <3>1, <3>3, <1>7, <1>13 DEF KeysOf
      <4>4. j \in Int /\ i \in Int
        BY <3>1, <1>5
      <4> QED  BY <4>1, <4>2, <4>3, <4>4
    <3> QED  BY <3>2, <3>3
  <2>3. KeysOf(g) \subseteq KeysOf(f) \ {f[n].keys[i]}
    BY <2>1
  <2>4. KeysOf(f) \ {f[n].keys[i]} \subseteq KeysOf(g)
    BY <2>2
  <2> QED  BY <2>3, <2>4
<1>15. LeafLess(f, g, s, s2, n, i)
  BY <1>1, <1>4, <1>6, <1>7, <1>13, <1>14, Zenon DEF LeafLess
<1> QED  BY <1>13, <1>15 DEF g

\* Filled after a leaf that could spare a key lost one.
LEMMA StillFilled ==
    ASSUME NEW h, NEW s, Good(node, root, op, h, s), NEW g, NEW n \in Here(node), op.do # "insert",
           n # root => Num(node, n) > Empty, Num(node, n) >= 1, node[n].leaf,
           Here(g) = Here(node), \A m \in Here(node) : g[m].leaf = node[m].leaf,
           \A m \in Here(node) : Num(g, m) = IF m = n THEN Num(node, n) - 1 ELSE Num(node, m)
    PROVE  Filled(g, root, Idle)
<1>1. Filled(node, root, op) /\ \A m \in Here(node) : m \in Nodes /\ Num(node, m) \in Nat
  BY Handles DEF Good
<1>2. Full \in Nat /\ Empty \in Nat
  BY BTreeAssumption DEF Full, Empty
<1>3. ASSUME NEW m \in Here(node)
      PROVE  /\ Num(g, m) <= Full /\ (m # root => Num(g, m) >= Empty)
             /\ ~(~g[m].leaf /\ Num(g, m) = 0)
  <2>1. CASE m = n
    <3>1. Num(g, n) = Num(node, n) - 1 /\ Num(node, n) <= Full /\ g[n].leaf
      BY <1>1 DEF Filled
    <3> QED  BY <3>1, <2>1, <1>1, <1>2
  <2>2. CASE m # n
    BY <2>2, <1>1, NotGrowing DEF Filled
  <2> QED  BY <2>1, <2>2
<1> QED  BY <1>3 DEF Filled

\* Delete takes its key out of a leaf.
LEMMA DeleteLeafStep ==
    ASSUME NEW h, NEW s, Good(node, root, op, h, s), DeleteLeaf
    PROVE  TreeInv' /\ KeysOf(node') = KeysOf(node) \ {op.key}
<1> DEFINE n == op.at
<1>1. /\ op.do = "delete" /\ n # Nil /\ node[n].leaf /\ op.inner = Nowhere /\ Has(n, op.key)
      /\ node' = KeyDelete(node, n, Ge) /\ root' = root /\ op' = Idle
  BY DEF DeleteLeaf, Deleting, Leaf, Found, Searching, Return
<1>2. /\ op \in DeleteOp /\ n \in Here(node) /\ Between(node, s, n, op.key) /\ op.key \in Keys
      /\ n # root => Num(node, n) > Empty
  BY <1>1, DeleteAt DEF DeleteOp
<1>3. Num(node, n) \in Nat /\ n \in Nodes
  BY <1>2, Handles
<1>4. /\ Ge \in 1..Num(node, n) /\ node[n].keys[Ge] = op.key
  BY <1>1, <1>2, <1>3, GeGap
<1>5. Typed(node, h, s) /\ TreeFits(node, root, h, s)
  BY DEF Good
<1>6. PICK s2 : /\ Typed(node', h, s2) /\ TreeFits(node', root, h, s2)
                /\ LeafLess(node, node', s, s2, n, Ge)
  <2> HIDE DEF n
  <2> QED  BY <1>1, <1>2, <1>4, <1>5, LeafWithout
<1>7. Filled(node', root, Idle)
  <2>1. /\ Here(node') = Here(node)
        /\ \A m \in Here(node) : node'[m].leaf = node[m].leaf
        /\ \A m \in Here(node) : Num(node', m) = IF m = n THEN Num(node, n) - 1 ELSE Num(node, m)
    BY <1>1, <1>6, <1>5, Zenon DEF LeafLess, Num, Here, Typed, Forest, NodeType
  <2>2. Num(node, n) >= 1 /\ op.do # "insert"
    BY <1>1, <1>3, <1>4
  <2> HIDE DEF n
  <2> QED  BY <2>1, <2>2, <1>1, <1>2, StillFilled
<1>8. Good(node', root', op', h, s2)
  <2>1. OpTyped(Idle) /\ OpFits(node', root, h, s2, Idle)
    BY DEF OpTyped, OpFits, Idle
  <2> QED  BY <2>1, <1>1, <1>6, <1>7 DEF Good
<1> QED  BY <1>8, <1>6, <1>4 DEF TreeInv, LeafLess

-----------------------------------------------------------------------------
(* Replacing a key by one of its neighbours. *)

\* No separator of f lies between k and j, which is none itself.
Adjacent(f, s, k, j) == \A m \in Here(f) : \A y \in 0..(Num(f, m) + 1) :
    (s[m][y] < k => s[m][y] < j) /\ (k < s[m][y] => j < s[m][y])

Replaced(f, p, x, j) == [f EXCEPT ![p].keys[x] = j]
Put(s, k, j) == [m \in Nodes |-> [y \in Nat |-> IF s[m][y] = k THEN j ELSE s[m][y]]]

\* A key can be replaced by one that nothing lies between.
LEMMA KeyReplaced ==
    ASSUME NEW f, NEW h, NEW s, NEW top, Typed(f, h, s), TreeFits(f, top, h, s),
           NEW p \in Here(f), NEW x \in 1..Num(f, p), NEW k, k = f[p].keys[x],
           NEW j \in Keys, Adjacent(f, s, k, j)
    PROVE  LET g == Replaced(f, p, x, j) IN
           /\ Typed(g, h, Put(s, k, j)) /\ TreeFits(g, top, h, Put(s, k, j)) /\ Here(g) = Here(f)
           /\ \A m \in Nodes : Num(g, m) = Num(f, m) /\ g[m].leaf = f[m].leaf
           /\ KeysOf(g) = (KeysOf(f) \ {k}) \cup {j}
<1> DEFINE g == Replaced(f, p, x, j)
           s2 == Put(s, k, j)
<1>1. /\ f \in Forest /\ s \in Marks /\ p \in Nodes /\ f[p] \in NodeType /\ Num(f, p) \in Nat
      /\ \A m \in Here(f) : m \in Nodes /\ Num(f, m) \in Nat /\ NodeFits(f, h, s, m)
  BY HandlesIn DEF Typed
<1>2. /\ f[p].keys \in Seq(Keys) /\ x \in 1..Len(f[p].keys) /\ k \in Keys /\ k \in Nat /\ j \in Nat
      /\ k < Top /\ 0 < k
  BY <1>1, KeysAreNat DEF NodeType, Num
<1>3. /\ [f[p].keys EXCEPT ![x] = j] \in Seq(Keys) /\ Len([f[p].keys EXCEPT ![x] = j]) = Len(f[p].keys)
      /\ \A y \in 1..Len(f[p].keys) : [f[p].keys EXCEPT ![x] = j][y] = IF y = x THEN j ELSE f[p].keys[y]
  BY <1>2
<1>4. /\ g \in Forest /\ g[p].keys = [f[p].keys EXCEPT ![x] = j]
      /\ \A m \in Nodes : /\ g[m].leaf = f[m].leaf /\ g[m].parent = f[m].parent /\ g[m].child = f[m].child
                           /\ (m # p => g[m] = f[m])
  BY <1>1, <1>3, Zenon DEF Forest, NodeType, Replaced
<1>5. s2 \in Marks /\ \A m \in Nodes, y \in Nat : s2[m][y] = IF s[m][y] = k THEN j ELSE s[m][y]
  BY <1>1, <1>2 DEF Marks, Put
<1> HIDE DEF g, s2
<1>6. \A m \in Nodes : Num(g, m) = Num(f, m)
  BY <1>3, <1>4 DEF Num
<1>7. Here(g) = Here(f)
  <2>1. g[p] # Freed
    <3>1. Num(f, p) # 0
      BY <1>1
    <3> QED  BY <3>1, <1>1, <1>6 DEF Num, Freed
  <2>2. \A m \in Nodes : m # p => (m \in Here(g) <=> m \in Here(f))
    BY <1>4 DEF Here
  <2> QED  BY <2>1, <2>2, <1>1 DEF Here
<1>8. ASSUME NEW m \in Here(f)
      PROVE  /\ \A y \in Nat : s[m][y] \in Nat
             /\ \A y \in 1..Num(f, m) : s2[m][y] = g[m].keys[y]
             /\ \A y, z \in 0..(Num(f, m) + 1) : y < z => s2[m][y] < s2[m][z]
  <2>1. /\ \A y \in Nat : s[m][y] \in Nat
        /\ \A y, z \in 0..(Num(f, m) + 1) : y < z => s[m][y] < s[m][z]
    BY <1>1, Rising
  <2>2. ASSUME NEW y \in 1..Num(f, m) PROVE s2[m][y] = g[m].keys[y]
    <3>1. s[m][y] = f[m].keys[y] /\ y \in Nat /\ m \in Nodes
      BY <1>1, <2>2 DEF NodeFits
    <3>2. s2[m][y] = IF f[m].keys[y] = k THEN j ELSE f[m].keys[y]
      BY <3>1, <1>5
    <3>3. f[m].keys[y] = k => m = p /\ y = x
      BY <2>2, KeyOnce
    <3>4. CASE m = p
      <4>1. g[m].keys[y] = IF y = x THEN j ELSE f[m].keys[y]
        BY <2>2, <3>4, <1>3, <1>4 DEF Num
      <4> QED  BY <4>1, <3>2, <3>3, <3>4
    <3>5. CASE m # p
      BY <3>1, <3>2, <3>3, <3>5, <1>4
    <3> QED  BY <3>4, <3>5
  <2>3. ASSUME NEW y \in 0..(Num(f, m) + 1), NEW z \in 0..(Num(f, m) + 1), y < z
        PROVE  s2[m][y] < s2[m][z]
    <3>1. y \in Nat /\ z \in Nat /\ m \in Nodes
      BY <1>1, <2>3
    <3>2. s[m][y] < s[m][z] /\ s[m][y] \in Nat /\ s[m][z] \in Nat
      BY <3>1, <2>1, <2>3
    <3>3. /\ (s[m][y] < k => s[m][y] < j) /\ (k < s[m][z] => j < s[m][z])
      BY <2>3 DEF Adjacent
    <3>4. /\ s2[m][y] = IF s[m][y] = k THEN j ELSE s[m][y]
          /\ s2[m][z] = IF s[m][z] = k THEN j ELSE s[m][z]
      BY <3>1, <1>5
    <3> QED  BY <3>2, <3>3, <3>4, <1>2
  <2> QED  BY <2>1, <2>2, <2>3
<1>9. ASSUME NEW m \in Here(f) PROVE NodeFits(g, h, s2, m)
  <2>1. NodeFits(f, h, s, m) /\ m \in Nodes /\ Num(f, m) \in Nat /\ Len(f[m].child) \in Nat
    BY <1>1, HandlesIn
  <2>2. ASSUME NEW i \in 1..Len(g[m].child) PROVE Hangs(g, h, s2, m, i)
    <3>1. i \in 1..Len(f[m].child) /\ g[m].child[i] = f[m].child[i]
      BY <2>1, <2>2, <1>4
    <3> DEFINE c == f[m].child[i]
    <3>2. /\ c \in Here(f) /\ f[c].parent = m /\ h[m] = h[c] + 1
          /\ s[c][0] = s[m][i - 1] /\ s[c][Num(f, c) + 1] = s[m][i]
      BY <3>1, <2>1 DEF NodeFits, Hangs
    <3>3. c \in Nodes /\ Num(f, c) + 1 \in Nat /\ i \in Nat /\ i - 1 \in Nat
      BY <3>1, <3>2, <1>1, <2>1, SMTT(60)
    <3>4. s2[c][0] = s2[m][i - 1] /\ s2[c][Num(f, c) + 1] = s2[m][i]
      BY <3>2, <3>3, <2>1, <1>5, SMTT(30)
    <3> QED  BY <3>1, <3>2, <3>3, <3>4, <1>4, <1>6, <1>7 DEF Hangs
  <2> QED  BY <2>1, <2>2, <1>4, <1>6, <1>8 DEF NodeFits
<1>10. ASSUME NEW m \in Here(f) PROVE Grounded(g, h, top, m)
  <2> SUFFICES ASSUME m # top
               PROVE  /\ g[m].parent \in Here(g)
                      /\ \E i \in 1..Len(g[g[m].parent].child) : g[g[m].parent].child[i] = m
                      /\ h[m] < h[top]
    BY DEF Grounded
  <2>1. /\ f[m].parent \in Here(f)
        /\ \E i \in 1..Len(f[f[m].parent].child) : f[f[m].parent].child[i] = m
        /\ h[m] < h[top]
    BY DEF Grounded, TreeFits
  <2> QED  BY <2>1, <1>1, <1>4, <1>7, SMTT(60)
<1>11. TreeFits(g, top, h, s2)
  <2>1. ASSUME top # Nil
        PROVE  top \in Here(g) /\ g[top].parent = Nil /\ s2[top][0] = 0 /\ s2[top][Num(g, top) + 1] = Top
    <3>1. top \in Here(f) /\ f[top].parent = Nil /\ s[top][0] = 0 /\ s[top][Num(f, top) + 1] = Top
      BY <2>1 DEF TreeFits
    <3>2. top \in Nodes /\ Num(f, top) + 1 \in Nat
      BY <3>1, <1>1
    <3>3. s2[top][0] = 0 /\ s2[top][Num(f, top) + 1] = Top
      BY <3>1, <3>2, <1>2, <1>5
    <3> QED  BY <3>1, <3>2, <3>3, <1>4, <1>6, <1>7
  <2>2. top = Nil => Here(f) = {}
    BY DEF TreeFits
  <2> QED  BY <2>1, <2>2, <1>7, <1>9, <1>10 DEF TreeFits
<1>12. KeysOf(g) = (KeysOf(f) \ {k}) \cup {j}
  <2>1. ASSUME NEW y \in KeysOf(g) PROVE y \in (KeysOf(f) \ {k}) \cup {j}
    <3>1. PICK m \in Here(g), i \in Int : i \in 1..Num(g, m) /\ g[m].keys[i] = y /\ y \in Keys
      BY DEF KeysOf
    <3>2. m \in Here(f) /\ i \in 1..Num(f, m)
      BY <3>1, <1>1, <1>6, <1>7
    <3>3. CASE m = p /\ i = x
      BY <3>1, <3>3, <1>2, <1>3, <1>4
    <3>4. CASE ~(m = p /\ i = x)
      <4>1. f[m].keys[i] # k
        BY <3>2, <3>4, KeyOnce
      <4>2. g[m].keys[i] = f[m].keys[i]
        BY <3>2, <3>4, <1>1, <1>3, <1>4 DEF Num
      <4> QED  BY <4>1, <4>2, <3>1, <3>2, Zenon DEF KeysOf
    <3> QED  BY <3>3, <3>4
  <2>2. ASSUME NEW y \in KeysOf(f), y # k PROVE y \in KeysOf(g)
    <3>1. PICK m \in Here(f), i \in Int : i \in 1..Num(f, m) /\ f[m].keys[i] = y /\ y \in Keys
      BY DEF KeysOf
    <3>2. ~(m = p /\ i = x)
      BY <3>1, <2>2
    <3>3. g[m].keys[i] = f[m].keys[i]
      BY <3>1, <3>2, <1>1, <1>3, <1>4 DEF Num
    <3> QED  BY <3>1, <3>3, <1>1, <1>6, <1>7 DEF KeysOf
  <2>3. j \in KeysOf(g)
    <3>1. g[p].keys[x] = j /\ p \in Here(g) /\ x \in 1..Num(g, p)
      BY <1>1, <1>2, <1>3, <1>4, <1>6, <1>7
    <3> QED  BY <3>1 DEF KeysOf
  <2> QED  BY <2>1, <2>2, <2>3
<1>13. Typed(g, h, s2)
  BY <1>4, <1>5 DEF Typed
<1> QED  BY <1>4, <1>6, <1>7, <1>11, <1>12, <1>13 DEF g, s2

\* Delete, at the end of its way, puts the neighbour in place of its key.
LEMMA DeleteReplaceStep ==
    ASSUME NEW h, NEW s, Good(node, root, op, h, s), DeleteReplace
    PROVE  TreeInv' /\ KeysOf(node') = KeysOf(node) \ {op.key}
<1> DEFINE n == op.at
           num == Num(node, n)
           i == IF op.leftmost THEN 1 ELSE num
           j == node[n].keys[i]
           p == op.inner[1]
           x == op.inner[2]
           k == op.key
           f == KeyDelete(node, n, i)
<1>1. /\ op.do = "delete" /\ n # Nil /\ node[n].leaf /\ op.inner # Nowhere
      /\ node' = KeyDelete([node EXCEPT ![p].keys[x] = j], n, i)
      /\ root' = root /\ op' = Idle
  BY SMTT(30) DEF DeleteReplace, Deleting, Leaf, Searching, Return, Count, Num
<1>2. /\ op \in DeleteOp /\ n \in Here(node) /\ p \in Here(node) /\ h[n] < h[p]
      /\ x \in 1..Num(node, p) /\ node[p].keys[x] = k
      /\ IF op.leftmost THEN s[n][0] = k ELSE s[n][num + 1] = k
      /\ n # root => num > Empty
  BY <1>1, DeleteAt
<1>3. /\ n \in Nodes /\ p \in Nodes /\ num \in Nat /\ h[n] \in Nat /\ h[p] \in Nat
      /\ node[n] \in NodeType /\ node[p] \in NodeType
      /\ node \in Forest /\ s \in Marks /\ op.leftmost \in BOOLEAN
      /\ Typed(node, h, s) /\ TreeFits(node, root, h, s) /\ root # Nil
      /\ NodeFits(node, h, s, n)
  BY <1>2, Handles DEF Good, DeleteOp, Typed, TreeFits
<1>4. n # root /\ n # p
  <2>1. p # root => h[p] < h[root]
    BY <1>2 DEF Good, TreeFits, Grounded
  <2>2. root \in Here(node) /\ h[root] \in Nat
    BY <1>3, Handles
  <2> QED  BY <2>1, <2>2, <1>2, <1>3
<1>5. num >= 1 /\ i \in 1..num /\ Empty \in Nat /\ num > Empty
  BY <1>2, <1>3, <1>4, BTreeAssumption DEF Empty
<1>6. j \in Keys /\ j \in Nat /\ s[n][i] = j
  BY <1>3, <1>5, KeysAreNat, SMTT(30) DEF NodeType, Num, NodeFits
<1> HIDE DEF f, i, j
<1>7. PICK s2 : Typed(f, h, s2) /\ TreeFits(f, root, h, s2) /\ LeafLess(node, f, s, s2, n, i)
  <2> HIDE DEF n, num
  <2> QED  BY <1>1, <1>2, <1>3, <1>5, LeafWithout DEF f, num
<1>8. /\ Here(f) = Here(node) /\ f[n].leaf = node[n].leaf /\ Num(f, n) = num - 1
      /\ \A m \in Nodes : m # n => f[m] = node[m] /\ s2[m] = s[m]
      /\ \A y \in Nat : s2[n][y] = IF y < i THEN s[n][y] ELSE s[n][y + 1]
      /\ KeysOf(f) = KeysOf(node) \ {j}
  BY <1>7, SMTT(60) DEF LeafLess, j
<1>9. node' = Replaced(f, p, x, j)
  BY <1>1, <1>3, <1>4, Zenon DEF f, Replaced, KeyDelete, Forest
<1>10. Adjacent(f, s2, k, j) /\ k # j
  <2>r. /\ \A y \in Nat : s[n][y] \in Nat
        /\ \A y, z \in 0..(num + 1) : y < z => s[n][y] < s[n][z]
        /\ \A y, z \in 0..(num + 1) : y <= z => s[n][y] <= s[n][z]
    BY <1>2, <1>3, Rising
  <2>b. 0 \in 0..(num + 1) /\ i \in 0..(num + 1) /\ num + 1 \in 0..(num + 1) /\ i \in Nat /\ num + 1 \in Nat
    BY <1>3, <1>5
  <2>k. s[n][0] < j /\ j < s[n][num + 1]
    <3>1. 0 < i /\ i < num + 1
      BY <1>3, <1>5
    <3> QED  BY <3>1, <2>b, <2>r, <1>6
  <2>1. k # j /\ s[n][0] \in Nat /\ s[n][num + 1] \in Nat
    BY <2>k, <2>r, <2>b, <1>2
  <2>2. ASSUME NEW m \in Here(f), NEW y \in 0..(Num(f, m) + 1), m # n
        PROVE  (s2[m][y] < k => s2[m][y] < j) /\ (k < s2[m][y] => j < s2[m][y])
    <3>1. m \in Here(node) /\ m \in Nodes /\ Num(f, m) = Num(node, m) /\ s2[m] = s[m]
      BY <1>8, <2>2 DEF Here, Num
    <3>2. h[m] \in Nat /\ h[n] = 0
      BY <3>1, Handles, <1>1, <1>3 DEF NodeFits
    <3>3. Separate(node, h, s, m, n)
      BY <1>2, <1>3, <3>1, NodesSeparate
    <3>4. Uncut(node, s, m, n)
      BY <2>2, <3>2, <3>3 DEF Separate
    <3>5. s[m][y] <= s[n][0] \/ s[n][num + 1] <= s[m][y]
      BY <3>4, <3>1, <2>2 DEF Uncut
    <3>6. s[m][y] \in Nat
      <4>1. y \in Nat /\ NodeFits(node, h, s, m)
        BY <3>1, <2>2, Handles
      <4> QED  BY <4>1, <3>1, <1>3, Rising
    <3> QED  BY <3>1, <3>5, <3>6, <2>k, <2>1, <1>2, <1>6
  <2>3. ASSUME NEW y \in 0..num
        PROVE  (s2[n][y] < k => s2[n][y] < j) /\ (k < s2[n][y] => j < s2[n][y])
    <3>1. y \in Nat /\ y \in 0..(num + 1) /\ y + 1 \in 0..(num + 1) /\ y + 1 \in Nat
      BY <2>3, <1>3
    <3>2. s2[n][y] = IF y < i THEN s[n][y] ELSE s[n][y + 1]
      BY <3>1, <1>8
    <3>3. s[n][y] \in Nat /\ s[n][y + 1] \in Nat
      BY <3>1, <2>r
    <3>4. CASE op.leftmost
      <4>1. i = 1 /\ s[n][0] = k
        BY <3>4, <1>2 DEF i
      <4>2. CASE y = 0
        BY <4>1, <4>2, <3>2, <1>2, <2>1
      <4>3. CASE y # 0
        <5>1. ~(y < i) /\ i < y + 1
          BY <4>1, <4>3, <3>1
        <5>2. s[n][i] < s[n][y + 1]
          BY <5>1, <3>1, <2>b, <2>r
        <5> QED  BY <5>1, <5>2, <4>1, <3>2, <3>3, <1>6, <2>1, <2>k
      <4> QED  BY <4>2, <4>3
    <3>5. CASE ~op.leftmost
      <4>1. i = num /\ s[n][num + 1] = k
        BY <3>5, <1>2 DEF i
      <4>2. CASE y < num
        <5>1. s[n][y] < s[n][i]
          BY <4>1, <4>2, <3>1, <2>b, <2>r
        <5> QED  BY <5>1, <4>1, <4>2, <3>2, <3>3, <1>6, <2>1, <2>k
      <4>3. CASE y = num
        BY <4>1, <4>3, <3>2, <1>2, <2>1, <1>3
      <4> QED  BY <4>2, <4>3, <2>3, <1>3
    <3> QED  BY <3>4, <3>5, <1>3
  <2>4. num - 1 + 1 = num
    BY <1>3
  <2> QED  BY <2>1, <2>2, <2>3, <2>4, <1>8 DEF Adjacent
<1> DEFINE s3 == Put(s2, k, j)
<1>11. /\ Typed(node', h, s3) /\ TreeFits(node', root, h, s3) /\ Here(node') = Here(f)
       /\ \A m \in Nodes : Num(node', m) = Num(f, m) /\ node'[m].leaf = f[m].leaf
       /\ KeysOf(node') = (KeysOf(f) \ {k}) \cup {j}
  <2>1. p \in Here(f) /\ x \in 1..Num(f, p) /\ k = f[p].keys[x]
    BY <1>2, <1>3, <1>4, <1>8, SMTT(30) DEF Num
  <2> HIDE DEF p, x, k
  <2> QED  BY <2>1, <1>6, <1>7, <1>9, <1>10, KeyReplaced
<1>12. Filled(node', root, Idle)
  <2>1. /\ Here(node') = Here(node)
        /\ \A m \in Here(node) : node'[m].leaf = node[m].leaf
        /\ \A m \in Here(node) : Num(node', m) = IF m = n THEN Num(node, n) - 1 ELSE Num(node, m)
    <3>1. \A m \in Here(node) : m \in Nodes
      BY DEF Here
    <3>2. Here(node') = Here(node)
      BY <1>8, <1>11
    <3>3. ASSUME NEW m \in Here(node)
          PROVE  /\ node'[m].leaf = node[m].leaf
                 /\ Num(node', m) = IF m = n THEN Num(node, n) - 1 ELSE Num(node, m)
      <4>1. m \in Nodes /\ Num(node', m) = Num(f, m) /\ node'[m].leaf = f[m].leaf
        BY <3>1, <1>11
      <4>2. m # n => f[m] = node[m]
        BY <4>1, <1>8
      <4>3. m # n => Num(f, m) = Num(node, m)
        BY <4>2 DEF Num
      <4> QED  BY <4>1, <4>2, <4>3, <1>8
    <3> QED  BY <3>2, <3>3
  <2>2. Num(node, n) >= 1 /\ op.do # "insert"
    BY <1>1, <1>5, SMTT(30)
  <2> HIDE DEF n, num
  <2> QED  BY <2>1, <2>2, <1>1, <1>2, StillFilled, Zenon DEF num
<1>13. Good(node', root', op', h, s3)
  <2>1. OpTyped(Idle) /\ OpFits(node', root, h, s3, Idle)
    BY DEF OpTyped, OpFits, Idle
  <2> HIDE DEF s3
  <2> QED  BY <2>1, <1>1, <1>11, <1>12 DEF Good
<1>14. j \in KeysOf(node)
  BY <1>2, <1>5, <1>6 DEF KeysOf, j
<1>15. KeysOf(node') = KeysOf(node) \ {k}
  BY <1>8, <1>10, <1>11, <1>14
<1> QED  BY <1>13, <1>15 DEF TreeInv

-----------------------------------------------------------------------------
(* Rebuilding a few nodes T of the tree. *)

\* The nodes outside T are as they were, up to which of T they hang from.
Elsewhere(f, g, h, h2, s, s2, T) == \A m \in Nodes \ T :
    /\ g[m].leaf = f[m].leaf /\ g[m].keys = f[m].keys /\ g[m].child = f[m].child
    /\ h2[m] = h[m] /\ s2[m] = s[m]
    /\ m \in Here(g) <=> m \in Here(f)
    /\ m \in Here(f) => IF f[m].parent \in T THEN g[m].parent \in T ELSE g[m].parent = f[m].parent

\* What hung from a node outside T still hangs there.
StillHangs(f, g, h, h2, s, s2, T) == \A m \in T : m \in Here(f) /\ f[m].parent \in Nodes \ T =>
    /\ m \in Here(g) /\ g[m].parent = f[m].parent /\ h2[m] = h[m]
    /\ s2[m][0] = s[m][0] /\ s2[m][Num(g, m) + 1] = s[m][Num(f, m) + 1]

\* The nodes of T, and what hangs from them.
Rebuild(f, g, top, t2, h2, s2, T) ==
    /\ \A m \in T : m \in Here(g) => NodeFits(g, h2, s2, m)
    /\ \A m \in Here(g) : m # t2 => h2[m] < h2[t2]
    /\ \A m \in Here(g) : m # t2 /\ g[m].parent \in T =>
           /\ g[m].parent \in Here(g)
           /\ \E i \in 1..Len(g[g[m].parent].child) : g[g[m].parent].child[i] = m
    /\ \A m \in T : m \in Here(g) /\ m # t2 =>
           g[m].parent \in T \/ (m \in Here(f) /\ m # top /\ g[m].parent = f[m].parent)
    /\ t2 \in Here(g) /\ g[t2].parent = Nil /\ s2[t2][0] = 0 /\ s2[t2][Num(g, t2) + 1] = Top
    /\ top \notin T => t2 = top

\* If the nodes of T are as they should be, and what hangs from T or holds T knows
\* of it, the whole is a tree.
LEMMA Rebuilt ==
    ASSUME NEW f, NEW g, NEW top, NEW t2, NEW h, NEW h2, NEW s, NEW s2, NEW T,
           Typed(f, h, s), Typed(g, h2, s2), TreeFits(f, top, h, s), T \subseteq Nodes,
           Elsewhere(f, g, h, h2, s, s2, T), StillHangs(f, g, h, h2, s, s2, T),
           Rebuild(f, g, top, t2, h2, s2, T)
    PROVE  TreeFits(g, t2, h2, s2)
<1>1. /\ f \in Forest /\ g \in Forest /\ t2 \in Here(g) /\ t2 # Nil
      /\ \A m \in Here(f) : m \in Nodes /\ NodeFits(f, h, s, m) /\ Grounded(f, h, top, m)
      /\ \A m \in Here(g) : m \in Nodes
  BY BTreeAssumption DEF Typed, TreeFits, Here, Rebuild, Nil
<1>2. ASSUME NEW m \in Here(g), m \notin T PROVE NodeFits(g, h2, s2, m)
  <2>1. /\ m \in Nodes /\ m \in Here(f) /\ NodeFits(f, h, s, m)
        /\ g[m].leaf = f[m].leaf /\ g[m].keys = f[m].keys /\ g[m].child = f[m].child
        /\ h2[m] = h[m] /\ s2[m] = s[m]
    BY <1>1, <1>2 DEF Elsewhere
  <2>2. ASSUME NEW c \in Nodes, c \in Here(f), f[c].parent = m
        PROVE  /\ c \in Here(g) /\ g[c].parent = m /\ h2[c] = h[c]
               /\ s2[c][0] = s[c][0] /\ s2[c][Num(g, c) + 1] = s[c][Num(f, c) + 1]
    <3>1. CASE c \in T
      BY <3>1, <2>1, <2>2, <1>2 DEF StillHangs
    <3>2. CASE c \notin T
      BY <3>2, <2>1, <2>2, <1>2, Zenon DEF Elsewhere, Num
    <3> QED  BY <3>1, <3>2
  <2>3. f \in Forest /\ g \in Forest
    BY <1>1
  <2> QED  BY <2>1, <2>2, <2>3, Unmoved
<1>3. ASSUME NEW m \in Here(g), m # t2
      PROVE  /\ g[m].parent \in Here(g)
             /\ \E i \in 1..Len(g[g[m].parent].child) : g[g[m].parent].child[i] = m
  <2>1. CASE g[m].parent \in T
    BY <2>1, <1>3 DEF Rebuild
  <2>2. CASE g[m].parent \notin T
    <3>1. m \in Here(f) /\ m # top /\ g[m].parent = f[m].parent
      <4>1. CASE m \in T
        BY <4>1, <2>2, <1>3 DEF Rebuild
      <4>2. CASE m \notin T
        BY <4>2, <2>2, <1>1, <1>3 DEF Rebuild, Elsewhere
      <4> QED  BY <4>1, <4>2
    <3>2. /\ f[m].parent \in Here(f) /\ f[m].parent \in Nodes \ T
          /\ \E i \in 1..Len(f[f[m].parent].child) : f[f[m].parent].child[i] = m
      BY <3>1, <2>2, <1>1 DEF Grounded
    <3> QED  BY <3>1, <3>2 DEF Elsewhere
  <2> QED  BY <2>1, <2>2
<1>4. \A m \in Here(g) : NodeFits(g, h2, s2, m) /\ Grounded(g, h2, t2, m)
  BY <1>2, <1>3 DEF Grounded, Rebuild
<1> QED  BY <1>1, <1>4 DEF TreeFits, Rebuild

\* The keys of the nodes of T.
Marked(f, s, T, k) == \E m \in T, y \in Nat : m \in Here(f) /\ y \in 1..Num(f, m) /\ s[m][y] = k

\* If no key got lost between the nodes of T, none did.
LEMMA KeysKept ==
    ASSUME NEW f, NEW g, NEW top, NEW t2, NEW h, NEW h2, NEW s, NEW s2, NEW T,
           Typed(f, h, s), Typed(g, h2, s2), TreeFits(f, top, h, s), TreeFits(g, t2, h2, s2),
           Elsewhere(f, g, h, h2, s, s2, T),
           \A k \in Keys : Marked(f, s, T, k) <=> Marked(g, s2, T, k)
    PROVE  KeysOf(g) = KeysOf(f)
<1>1. /\ \A m \in Here(f) : m \in Nodes /\ Num(f, m) \in Nat /\ NodeFits(f, h, s, m)
      /\ \A m \in Here(g) : m \in Nodes /\ Num(g, m) \in Nat /\ NodeFits(g, h2, s2, m)
  BY HandlesIn
<1>2. /\ \A m \in Here(f) : \A y \in 1..Num(f, m) : s[m][y] = f[m].keys[y]
      /\ \A m \in Here(g) : \A y \in 1..Num(g, m) : s2[m][y] = g[m].keys[y]
  BY <1>1 DEF NodeFits
<1>3. \A m \in Nodes \ T : /\ m \in Here(g) <=> m \in Here(f)
                           /\ g[m].keys = f[m].keys /\ Num(g, m) = Num(f, m)
  BY DEF Elsewhere, Num
<1>4. ASSUME NEW k \in KeysOf(f) PROVE k \in KeysOf(g)
  <2>1. PICK m \in Here(f), y \in Int : y \in 1..Num(f, m) /\ f[m].keys[y] = k /\ k \in Keys
    BY DEF KeysOf
  <2>2. CASE m \in T
    <3>1. Marked(f, s, T, k)
      BY <2>1, <2>2, <1>1, <1>2 DEF Marked
    <3>2. Marked(g, s2, T, k)
      BY <3>1, <2>1
    <3> QED  BY <3>2, <2>1, <1>2 DEF Marked, KeysOf
  <2>3. CASE m \notin T
    BY <2>1, <2>3, <1>1, <1>3 DEF KeysOf
  <2> QED  BY <2>2, <2>3
<1>5. ASSUME NEW k \in KeysOf(g) PROVE k \in KeysOf(f)
  <2>1. PICK m \in Here(g), y \in Int : y \in 1..Num(g, m) /\ g[m].keys[y] = k /\ k \in Keys
    BY DEF KeysOf
  <2>2. CASE m \in T
    <3>1. Marked(g, s2, T, k)
      BY <2>1, <2>2, <1>1, <1>2 DEF Marked
    <3>2. Marked(f, s, T, k)
      BY <3>1, <2>1
    <3> QED  BY <3>2, <2>1, <1>2 DEF Marked, KeysOf
  <2>3. CASE m \notin T
    BY <2>1, <2>3, <1>1, <1>3 DEF KeysOf
  <2> QED  BY <2>2, <2>3
<1> QED  BY <1>4, <1>5

\* Keys and children in a row: the bounds of child j are S[j - 1] and S[j].
Rises(S, len) == S \in [Nat -> Nat] /\ \A x, y \in 0..(len + 1) : x < y => S[x] < S[y]
Hooked(g, h, s, d, m, lower, upper) ==
    /\ d \in Here(g) /\ g[d].parent = m /\ h[m] = h[d] + 1
    /\ s[d][0] = lower /\ s[d][Num(g, d) + 1] = upper

\* Node m is the part of the row behind its first a keys.
IsPart(g, h, s, m, S, a, len) ==
    /\ a + Num(g, m) <= len
    /\ \A j \in 0..(Num(g, m) + 1) : s[m][j] = S[a + j]
    /\ \A j \in 1..Num(g, m) : g[m].keys[j] = S[a + j]
    /\ g[m].leaf <=> h[m] = 0
    /\ Len(g[m].child) = IF g[m].leaf THEN 0 ELSE Num(g, m) + 1
    /\ \A j \in 1..Len(g[m].child) : Hooked(g, h, s, g[m].child[j], m, S[a + j - 1], S[a + j])

\* A node that holds a part of a rising row is as it should be.
LEMMA PartFits ==
    ASSUME NEW g, NEW h, NEW s, NEW m \in Nodes, NEW S, NEW a \in Nat, NEW len \in Nat,
           g \in Forest, Rises(S, len), IsPart(g, h, s, m, S, a, len)
    PROVE  NodeFits(g, h, s, m)
<1>1. Num(g, m) \in Nat /\ Len(g[m].child) \in Nat
  BY NumIsNat
<1>2. \A j \in 1..Num(g, m) : s[m][j] = g[m].keys[j]
  BY <1>1 DEF IsPart
<1>3. ASSUME NEW i \in 0..(Num(g, m) + 1), NEW j \in 0..(Num(g, m) + 1), i < j PROVE s[m][i] < s[m][j]
  <2>1. a + i \in 0..(len + 1) /\ a + j \in 0..(len + 1) /\ a + i < a + j
    BY <1>1, <1>3 DEF IsPart
  <2>2. s[m][i] = S[a + i] /\ s[m][j] = S[a + j]
    BY <1>3 DEF IsPart
  <2> QED  BY <2>1, <2>2 DEF Rises
<1>4. ASSUME NEW i \in 1..Len(g[m].child) PROVE Hangs(g, h, s, m, i)
  <2>1. Hooked(g, h, s, g[m].child[i], m, S[a + i - 1], S[a + i])
    BY <1>4 DEF IsPart
  <2>2. ~g[m].leaf /\ Len(g[m].child) = Num(g, m) + 1
    BY <1>4 DEF IsPart
  <2>3. i \in Nat /\ i - 1 \in 0..(Num(g, m) + 1) /\ i \in 0..(Num(g, m) + 1) /\ a + (i - 1) = a + i - 1
    BY <2>2, <1>1, <1>4
  <2>4. s[m][i - 1] = S[a + i - 1] /\ s[m][i] = S[a + i]
    <3>1. s[m][i - 1] = S[a + (i - 1)] /\ s[m][i] = S[a + i]
      BY <2>3 DEF IsPart
    <3> QED  BY <3>1, <2>3
  <2> QED  BY <2>1, <2>4 DEF Hooked, Hangs
<1> QED  BY <1>2, <1>3, <1>4 DEF NodeFits, IsPart

\* The handle that the block manager gives is not in use.
LEMMA NewIsFree == ASSUME HandleLeft PROVE NewNode \in Nodes /\ NewNode \notin Here(node)
<1>1. \E n \in Nodes : n \notin Used
  BY DEF HandleLeft
<1>2. NewNode \in Nodes /\ NewNode \notin Used
  BY <1>1 DEF NewNode
<1> QED  BY <1>2 DEF Used, Here

InsertOp == [do : {"insert"}, key : Keys, at : Nodes]

\* What a node that is not used looks like.
LEMMA FreedIs ==
    /\ \A S : <<>> \in Seq(S)
    /\ Len(<<>>) = 0
    /\ Freed \in NodeType /\ ~Freed.leaf /\ Freed.parent = Nil /\ Freed.keys = <<>> /\ Freed.child = <<>>
<1>1. (\A S : <<>> \in Seq(S)) /\ Len(<<>>) = 0
  BY EmptySeq
<1>2. Freed = [leaf |-> FALSE, parent |-> Nil, keys |-> <<>>, child |-> <<>>]
  BY DEF Freed
<1>3. Freed \in NodeType
  BY <1>1, <1>2 DEF NodeType
<1> QED  BY <1>1, <1>2, <1>3

\* Insert makes the root of an empty tree.
LEMMA InsertFirstStep ==
    ASSUME NEW h, NEW s, Good(node, root, op, h, s), NEW k \in Keys, InsertFirst(k)
    PROVE  TreeInv' /\ KeysOf(node') = KeysOf(node)
<1> DEFINE n == NewNode
           h2 == [h EXCEPT ![n] = 0]
           s2 == [s EXCEPT ![n] = [j \in Nat |-> IF j = 0 THEN 0 ELSE Top]]
<1>1. /\ n \in Nodes /\ n \notin Here(node) /\ Here(node) = {} /\ node \in Forest /\ h \in Heights /\ s \in Marks
      /\ n # Nil
  BY NewIsFree, BTreeAssumption DEF InsertFirst, Good, Typed, TreeFits, Nil
<1> HIDE DEF n
<1>2. /\ node' = [node EXCEPT ![n] = [Freed EXCEPT !.leaf = TRUE]] /\ root' = n
      /\ op' = [do |-> "insert", key |-> k, at |-> n]
  BY DEF InsertFirst, n
<1>3. /\ node' \in Forest /\ node'[n].leaf /\ node'[n].parent = Nil /\ node'[n].keys = <<>> /\ node'[n].child = <<>>
      /\ \A m \in Nodes : m # n => node'[m] = Freed
  <2>1. [Freed EXCEPT !.leaf = TRUE] \in NodeType
    BY FreedIs, Zenon DEF NodeType
  <2> QED  BY <2>1, <1>1, <1>2, FreedIs DEF Forest, Here, NodeType
<1>4. Here(node') = {n} /\ Num(node', n) = 0
  BY <1>1, <1>3, FreedIs DEF Here, Num
<1>5. /\ h2 \in Heights /\ h2[n] = 0 /\ s2 \in Marks
      /\ \A j \in Nat : s2[n][j] = IF j = 0 THEN 0 ELSE Top
  BY <1>1, BTreeAssumption DEF Heights, Marks, Top
<1> HIDE DEF h2, s2
<1>6. Top \in Nat /\ 0 < Top /\ s2[n][0] = 0 /\ s2[n][1] = Top
  BY <1>5, BTreeAssumption DEF Top
<1>7. NodeFits(node', h2, s2, n)
  <2>1. \A i, j \in 0..1 : i < j => s2[n][i] < s2[n][j]
    BY <1>6
  <2> QED  BY <2>1, <1>3, <1>4, <1>5 DEF NodeFits
<1>8. Typed(node', h2, s2) /\ TreeFits(node', root', h2, s2)
  <2>1. Typed(node', h2, s2)
    BY <1>3, <1>5 DEF Typed
  <2>2. n \in Here(node') /\ node'[n].parent = Nil /\ s2[n][0] = 0 /\ s2[n][Num(node', n) + 1] = Top
    BY <1>1, <1>3, <1>4, <1>6
  <2>3. \A m \in Here(node') : NodeFits(node', h2, s2, m) /\ Grounded(node', h2, n, m)
    BY <2>2, <1>4, <1>7 DEF Grounded
  <2>4. TreeFits(node', n, h2, s2)
    BY <2>2, <2>3, <1>1 DEF TreeFits
  <2> QED  BY <2>1, <2>4, <1>2
<1>9. 0 < Full /\ 0 <= Full
  BY BTreeAssumption DEF Full
<1>o. op'.do = "insert" /\ op'.key = k /\ op'.at = n /\ k \in Nat /\ 0 < k /\ k < Top
  BY <1>2, KeysAreNat
<1>10. Filled(node', root', op')
  BY <1>2, <1>3, <1>4, <1>9, Zenon DEF Filled
<1>11. OpFits(node', root', h2, s2, op')
  BY <1>o, <1>4, <1>6, <1>9 DEF OpFits, Between
<1>12. OpTyped(op')
  BY <1>1, <1>2 DEF OpTyped
<1>13. Good(node', root', op', h2, s2)
  BY <1>1, <1>2, <1>8, <1>10, <1>11, <1>12 DEF Good
<1>14. KeysOf(node') = {} /\ KeysOf(node) = {}
  BY <1>1, <1>4 DEF KeysOf
<1> QED  BY <1>13, <1>14 DEF TreeInv

\* Insert puts a new root above a full one.
LEMMA InsertGrowStep ==
    ASSUME NEW h, NEW s, Good(node, root, op, h, s), NEW k \in Keys, InsertGrow(k)
    PROVE  TreeInv' /\ KeysOf(node') = KeysOf(node)
<1> DEFINE n == NewNode
           r == root
           h2 == [h EXCEPT ![n] = h[r] + 1]
           s2 == [s EXCEPT ![n] = [j \in Nat |-> IF j = 0 THEN 0 ELSE Top]]
<1>1. n \in Nodes /\ n \notin Here(node) /\ n # Nil
  BY NewIsFree, BTreeAssumption DEF InsertGrow, Nil
<1>2. /\ node \in Forest /\ h \in Heights /\ s \in Marks
      /\ r \in Here(node) /\ r \in Nodes /\ r # n /\ r # Nil /\ h[r] \in Nat /\ Num(node, r) = Full
      /\ node[r].parent = Nil /\ s[r][0] = 0 /\ s[r][Num(node, r) + 1] = Top
      /\ Typed(node, h, s) /\ TreeFits(node, r, h, s) /\ NodeFits(node, h, s, r)
  BY <1>1, Handles DEF InsertGrow, Good, Typed, TreeFits, Count, Num
<1>3. /\ node' = Adopt([node EXCEPT ![n] = [Freed EXCEPT !.child = <<r>>]], {r}, n) /\ root' = n
      /\ op' = [do |-> "insert", key |-> k, at |-> n]
  BY DEF InsertGrow
<1> HIDE DEF n, r
<1>4. /\ node' \in Forest /\ ~node'[n].leaf /\ node'[n].parent = Nil /\ node'[n].keys = <<>> /\ node'[n].child = <<r>>
      /\ node'[r] = [node[r] EXCEPT !.parent = n]
      /\ \A m \in Nodes : m \notin {n, r} => node'[m] = node[m]
  <2>1. [Freed EXCEPT !.child = <<r>>] \in NodeType
    <3>1. <<r>> \in Seq(Nodes)
      BY <1>2
    <3> QED  BY <3>1, FreedIs DEF NodeType
  <2>2. /\ node' \in [Nodes -> NodeType]
        /\ node'[n] = [Freed EXCEPT !.child = <<r>>]
        /\ node'[r] = [node[r] EXCEPT !.parent = n]
        /\ \A m \in Nodes : m \notin {n, r} => node'[m] = node[m]
    BY <2>1, <1>1, <1>2, <1>3, Zenon DEF Adopt, Forest, NodeType
  <2> QED  BY <2>1, <2>2, FreedIs DEF Forest, NodeType
<1>5. /\ node'[r].leaf = node[r].leaf /\ node'[r].keys = node[r].keys /\ node'[r].child = node[r].child
      /\ node'[r].parent = n
  BY <1>2, <1>4 DEF Forest, NodeType
<1>6. /\ h2 \in Heights /\ h2[n] = h[r] + 1 /\ s2 \in Marks
      /\ \A j \in Nat : s2[n][j] = IF j = 0 THEN 0 ELSE Top
      /\ \A m \in Nodes : m # n => h2[m] = h[m] /\ s2[m] = s[m]
  BY <1>1, <1>2, BTreeAssumption DEF Heights, Marks, Top
<1> HIDE DEF h2, s2
<1>7. Top \in Nat /\ 0 < Top /\ s2[n][0] = 0 /\ s2[n][1] = Top
  BY <1>6, BTreeAssumption DEF Top
<1>8. Num(node', n) = 0 /\ \A m \in Nodes : m # n => Num(node', m) = Num(node, m)
  BY <1>4, <1>5, Zenon DEF Num
<1>9. Here(node') = Here(node) \cup {n}
  <2>1. node'[n] # Freed /\ node'[r] # Freed
    <3>1. <<r>> # <<>>
      OBVIOUS
    <3>2. node'[n].child # Freed.child
      BY <3>1, <1>4, FreedIs
    <3>3. node'[r].parent # Freed.parent
      BY <1>1, <1>5, FreedIs
    <3> QED  BY <3>2, <3>3
  <2> QED  BY <2>1, <1>1, <1>2, <1>4 DEF Here
<1>10. NodeFits(node', h2, s2, r)
  <2>1. \A c \in Nodes : c \in Here(node) /\ node[c].parent = r => c \notin {n, r}
    BY <1>1, <1>2
  <2>2. \A c \in Nodes : c \in Here(node) /\ node[c].parent = r =>
               /\ c \in Here(node') /\ node'[c].parent = r /\ h2[c] = h[c]
               /\ s2[c][0] = s[c][0] /\ s2[c][Num(node', c) + 1] = s[c][Num(node, c) + 1]
    BY <2>1, <1>4, <1>6, <1>8, <1>9
  <2>3. h2[r] = h[r] /\ s2[r] = s[r] /\ node' \in Forest
    BY <1>2, <1>4, <1>6
  <2> QED  BY <2>2, <2>3, <1>2, <1>5, Unmoved
<1>11. NodeFits(node', h2, s2, n)
  <2>1. \A i, j \in 0..1 : i < j => s2[n][i] < s2[n][j]
    BY <1>7
  <2>2. Hangs(node', h2, s2, n, 1)
    <3>1. node'[n].child[1] = r /\ r \in Here(node') /\ h2[r] = h[r] /\ s2[r] = s[r] /\ Num(node', r) = Num(node, r)
      BY <1>2, <1>4, <1>6, <1>8, <1>9
    <3> QED  BY <3>1, <1>2, <1>5, <1>6, <1>7 DEF Hangs
  <2>3. Len(node'[n].child) = 1
    BY <1>4
  <2>4. h2[n] # 0
    BY <1>2, <1>6
  <2> QED  BY <2>1, <2>2, <2>3, <2>4, <1>4, <1>8 DEF NodeFits
<1> DEFINE T == {n, r}
<1>12. Typed(node', h2, s2)
  BY <1>4, <1>6 DEF Typed
<1>13. Elsewhere(node, node', h, h2, s, s2, T)
  BY <1>1, <1>2, <1>4, <1>6, <1>9 DEF Elsewhere, TreeFits, Grounded
<1>14. StillHangs(node, node', h, h2, s, s2, T)
  BY <1>1, <1>2, BTreeAssumption DEF StillHangs, Nil
<1>15. Rebuild(node, node', r, n, h2, s2, T)
  <2>1. ASSUME NEW m \in Here(node'), m # n PROVE h2[m] < h2[n]
    <3>1. m \in Here(node) /\ m \in Nodes /\ h[m] \in Nat /\ h[m] <= h[r]
      BY <2>1, <1>9, <1>2, Handles DEF TreeFits, Grounded
    <3> QED  BY <3>1, <2>1, <1>2, <1>6
  <2>2. ASSUME NEW m \in Here(node'), m # n, node'[m].parent \in T
        PROVE  /\ node'[m].parent \in Here(node')
               /\ \E i \in 1..Len(node'[node'[m].parent].child) : node'[node'[m].parent].child[i] = m
    <3>1. CASE m = r
      <4>1. Len(node'[n].child) = 1 /\ node'[n].child[1] = r
        BY <1>4
      <4> QED  BY <4>1, <3>1, <1>5, <1>9
    <3>2. CASE m # r
      <4>1. m \in Here(node) /\ m \in Nodes /\ node'[m] = node[m]
        BY <3>2, <2>2, <1>4, <1>9 DEF Here
      <4>2. /\ node[m].parent \in Here(node)
            /\ \E i \in 1..Len(node[node[m].parent].child) : node[node[m].parent].child[i] = m
        BY <4>1, <3>2, <1>2 DEF TreeFits, Grounded
      <4>3. node[m].parent = r
        BY <4>1, <4>2, <2>2, <1>1
      <4> QED  BY <4>1, <4>2, <4>3, <1>2, <1>5, <1>9
    <3> QED  BY <3>1, <3>2
  <2>3. \A m \in T : m = n \/ (m # n /\ node'[m].parent = n)
    BY <1>5
  <2>4. n \in Here(node') /\ node'[n].parent = Nil /\ s2[n][0] = 0 /\ s2[n][Num(node', n) + 1] = Top
    BY <1>4, <1>7, <1>8, <1>9
  <2> QED  BY <2>1, <2>2, <2>3, <2>4, <1>10, <1>11 DEF Rebuild
<1>16. TreeFits(node', n, h2, s2)
  <2> T \subseteq Nodes
    BY <1>1, <1>2
  <2> HIDE DEF T
  <2> QED  BY <1>2, <1>12, <1>13, <1>14, <1>15, Rebuilt
<1>17. KeysOf(node') = KeysOf(node)
  <2>1. \A m \in Here(node') : m # n => m \in Here(node) /\ node'[m].keys = node[m].keys /\ Num(node', m) = Num(node, m)
    BY <1>4, <1>5, <1>8, <1>9, Zenon DEF Here
  <2>2. \A m \in Here(node) : m \in Here(node') /\ node'[m].keys = node[m].keys /\ Num(node', m) = Num(node, m)
    BY <2>1, <1>1, <1>9
  <2> QED  BY <2>1, <2>2, <1>8 DEF KeysOf
<1>18. Full \in Nat /\ 0 < Full /\ 0 <= Full /\ Empty <= Full
  BY BTreeAssumption DEF Full, Empty
<1>19. Filled(node', n, op')
  <2>1. Filled(node, r, op) /\ op.do # "insert"
    BY DEF Good, InsertGrow, Idle, r
  <2>2. ASSUME NEW m \in Here(node')
        PROVE  /\ Num(node', m) <= Full
               /\ m # n => Num(node', m) >= Empty
               /\ ~node'[m].leaf /\ Num(node', m) = 0 => m = n /\ Growing(node', m, op')
    <3>1. CASE m = n
      <4>1. Growing(node', n, op')
        <5>1. node'[n].child[1] = r
          BY <1>4
        <5> QED  BY <5>1, <1>2, <1>3, <1>8, Zenon DEF Growing
      <4> QED  BY <4>1, <3>1, <1>8, <1>18
    <3>2. CASE m = r
      <4>1. ~(~node[r].leaf /\ Num(node, r) = 0)
        BY <1>2, <1>18
      <4> QED  BY <4>1, <3>2, <1>1, <1>2, <1>8, <1>18
    <3>3. CASE m # n /\ m # r
      <4>1. m \in Here(node) /\ Num(node', m) = Num(node, m) /\ node'[m].leaf = node[m].leaf
        BY <3>3, <2>2, <1>4, <1>8, <1>9 DEF Here
      <4> QED  BY <4>1, <3>3, <2>1 DEF Filled, Growing
    <3> QED  BY <3>1, <3>2, <3>3
  <2> QED  BY <2>2 DEF Filled
<1>o. op'.do = "insert" /\ op'.key = k /\ op'.at = n /\ k \in Nat /\ 0 < k /\ k < Top
  BY <1>3, KeysAreNat
<1>20. OpFits(node', n, h2, s2, op')
  BY <1>o, <1>7, <1>8, <1>9, <1>18 DEF OpFits, Between
<1>21. OpTyped(op')
  BY <1>1, <1>3 DEF OpTyped
<1>22. Good(node', root', op', h2, s2)
  BY <1>1, <1>3, <1>12, <1>16, <1>19, <1>20, <1>21 DEF Good
<1> QED  BY <1>22, <1>17 DEF TreeInv

\* A row with a key more, and one with a key less.
LEMMA RisesLonger ==
    ASSUME NEW num \in Nat, NEW t, Rises(t, num), NEW i \in 1..(num + 1), NEW k \in Nat,
           t[i - 1] < k, k < t[i], NEW t2 \in [Nat -> Nat],
           \A j \in Nat : t2[j] = IF j < i THEN t[j] ELSE IF j = i THEN k ELSE t[j - 1]
    PROVE  Rises(t2, num + 1)
<1>1. /\ \A a, b \in 0..(num + 1) : a < b => t[a] < t[b]
      /\ \A a \in Nat : t[a] \in Nat
      /\ i \in Nat /\ i - 1 \in Nat
  BY DEF Rises
<1>2. \A a, b \in 0..(num + 1) : a <= b => t[a] <= t[b]
  <2> SUFFICES ASSUME NEW a \in 0..(num + 1), NEW b \in 0..(num + 1), a <= b PROVE t[a] <= t[b]
    OBVIOUS
  <2>1. t[a] \in Nat /\ t[b] \in Nat /\ (a = b \/ a < b)
    BY <1>1
  <2> QED  BY <2>1, <1>1
<1>3. ASSUME NEW a \in 0..(num + 1 + 1), NEW b \in 0..(num + 1 + 1), a < b PROVE t2[a] < t2[b]
  <2>1. a \in Nat /\ b \in Nat
    BY <1>3
  <2>2. CASE b < i
    <3>1. a \in 0..(num + 1) /\ b \in 0..(num + 1) /\ a < i
      BY <2>1, <2>2, <1>1, <1>3
    <3> QED  BY <3>1, <2>1, <2>2, <1>1, <1>3
  <2>3. CASE b = i
    <3>1. a \in 0..(num + 1) /\ i - 1 \in 0..(num + 1) /\ a <= i - 1 /\ a < i
      BY <2>1, <2>3, <1>1, <1>3
    <3>2. t[a] <= t[i - 1] /\ t[a] \in Nat /\ t[i - 1] \in Nat
      BY <3>1, <2>1, <1>1, <1>2
    <3> QED  BY <3>1, <3>2, <2>1, <2>3
  <2>4. CASE b > i /\ a < i
    <3>1. a \in 0..(num + 1) /\ b - 1 \in 0..(num + 1) /\ a < b - 1
      BY <2>1, <2>4, <1>1, <1>3
    <3> QED  BY <3>1, <2>1, <2>4, <1>1
  <2>5. CASE b > i /\ a = i
    <3>1. i \in 0..(num + 1) /\ b - 1 \in 0..(num + 1) /\ i <= b - 1 /\ b - 1 \in Nat
      BY <2>1, <2>5, <1>1, <1>3
    <3>2. t[i] <= t[b - 1] /\ t[i] \in Nat /\ t[b - 1] \in Nat
      BY <3>1, <1>1, <1>2
    <3> QED  BY <3>1, <3>2, <2>1, <2>5, <1>1
  <2>6. CASE b > i /\ a > i
    <3>1. a - 1 \in 0..(num + 1) /\ b - 1 \in 0..(num + 1) /\ a - 1 < b - 1
      BY <2>1, <2>6, <1>1, <1>3
    <3> QED  BY <3>1, <2>1, <2>6, <1>1
  <2> QED  BY <2>1, <2>2, <2>3, <2>4, <2>5, <2>6, <1>1
<1> QED  BY <1>3 DEF Rises

\* A rising row without one of its bounds rises.
LEMMA RisesShorter ==
    ASSUME NEW num \in Nat, NEW t, Rises(t, num + 1), NEW i \in 1..(num + 1), NEW t2 \in [Nat -> Nat],
           \A j \in Nat : t2[j] = IF j < i THEN t[j] ELSE t[j + 1]
    PROVE  Rises(t2, num)
<1>1. /\ \A a, b \in 0..(num + 1 + 1) : a < b => t[a] < t[b]
      /\ \A a \in Nat : t[a] \in Nat
      /\ i \in Nat
  BY DEF Rises
<1>2. ASSUME NEW a \in 0..(num + 1), NEW b \in 0..(num + 1), a < b PROVE t2[a] < t2[b]
  <2>1. /\ a \in Nat /\ b \in Nat /\ a < b + 1 /\ a + 1 < b + 1 /\ (b < i => a < i)
        /\ a \in 0..(num + 1 + 1) /\ b \in 0..(num + 1 + 1)
        /\ a + 1 \in 0..(num + 1 + 1) /\ b + 1 \in 0..(num + 1 + 1)
    BY <1>1, <1>2
  <2>2. t[a] < t[b] /\ t[a] < t[b + 1] /\ t[a + 1] < t[b + 1]
    BY <2>1, <1>1, <1>2
  <2>3. CASE b < i
    BY <2>1, <2>2, <2>3
  <2>4. CASE ~(b < i) /\ a < i
    BY <2>1, <2>2, <2>4
  <2>5. CASE ~(b < i) /\ ~(a < i)
    BY <2>1, <2>2, <2>5
  <2> QED  BY <2>1, <2>3, <2>4, <2>5
<1> QED  BY <1>2 DEF Rises

\* What is known of child c of n, at index i.
IsChild(f, h, s, top, n, i, c) ==
    /\ n \in Here(f) /\ n \in Nodes /\ n # Nil /\ ~f[n].leaf /\ Num(f, n) \in Nat /\ Len(f[n].child) = Num(f, n) + 1
    /\ i \in Nat /\ i \in 1..(Num(f, n) + 1) /\ f[n].child[i] = c
    /\ c \in Here(f) /\ c \in Nodes /\ c # Nil /\ f[c].parent = n /\ Num(f, c) \in Nat
    /\ h[n] \in Nat /\ h[c] \in Nat /\ h[n] = h[c] + 1 /\ c # n /\ c # top
    /\ s[c][0] = s[n][i - 1] /\ s[c][Num(f, c) + 1] = s[n][i]
    /\ NodeFits(f, h, s, n) /\ NodeFits(f, h, s, c)
    /\ Rises(s[n], Num(f, n)) /\ Rises(s[c], Num(f, c))

\* The bounds of a node rise.
LEMMA RowOf ==
    ASSUME NEW f, NEW h, NEW s, NEW top, Typed(f, h, s), TreeFits(f, top, h, s), NEW n \in Here(f)
    PROVE  Rises(s[n], Num(f, n)) /\ \A y \in Nat : s[n][y] \in Nat
<1>1. NodeFits(f, h, s, n) /\ n \in Nodes
  BY HandlesIn
<1>2. s[n] \in [Nat -> Nat] /\ \A y \in Nat : s[n][y] \in Nat
  BY <1>1 DEF Typed, Marks
<1> QED  BY <1>1, <1>2, Rising DEF Rises

\* IsChild, of the child at an index.
LEMMA TheChild ==
    ASSUME NEW f, NEW h, NEW s, NEW top, Typed(f, h, s), TreeFits(f, top, h, s),
           NEW n \in Here(f), ~f[n].leaf, NEW i \in 1..(Num(f, n) + 1), NEW c, c = f[n].child[i]
    PROVE  IsChild(f, h, s, top, n, i, c)
<1>1. NodeFits(f, h, s, n) /\ n # Nil /\ n \in Nodes /\ Num(f, n) \in Nat /\ h[n] \in Nat
  BY HandlesIn
<1>2. Len(f[n].child) = Num(f, n) + 1
  BY <1>1 DEF NodeFits
<1>3. Hangs(f, h, s, n, i)
  BY <1>1, <1>2 DEF NodeFits
<1>4. /\ c \in Here(f) /\ f[c].parent = n /\ h[n] = h[c] + 1
      /\ s[c][0] = s[n][i - 1] /\ s[c][Num(f, c) + 1] = s[n][i]
  BY <1>3 DEF Hangs
<1>5. h[c] \in Nat /\ c \in Nodes /\ c # Nil /\ Num(f, c) \in Nat /\ NodeFits(f, h, s, c)
  BY <1>4, HandlesIn
<1>6. c # n /\ c # top
  BY <1>1, <1>4, <1>5 DEF TreeFits
<1>7. Rises(s[n], Num(f, n)) /\ Rises(s[c], Num(f, c))
  BY <1>4, RowOf
<1> QED  BY <1>1, <1>2, <1>4, <1>5, <1>6, <1>7 DEF IsChild

\* A node is the child of one node only, and at one index.
LEMMA ChildOnce ==
    ASSUME NEW f, NEW h, NEW s, NEW top, NEW n, NEW i, NEW m, NEW j, NEW c,
           IsChild(f, h, s, top, n, i, c), IsChild(f, h, s, top, m, j, c)
    PROVE  n = m /\ i = j
<1>1. n = m
  BY DEF IsChild
<1>2. /\ i \in Nat /\ j \in Nat /\ s[n][i] = s[n][j] /\ s[n][i] \in Nat /\ s[n][j] \in Nat
      /\ i \in 0..(Num(f, n) + 1) /\ j \in 0..(Num(f, n) + 1)
  <2>1. /\ i \in Nat /\ i \in 1..(Num(f, n) + 1) /\ Num(f, n) \in Nat /\ s[c][Num(f, c) + 1] = s[n][i]
        /\ Rises(s[n], Num(f, n))
    BY DEF IsChild
  <2>2. j \in Nat /\ j \in 1..(Num(f, n) + 1) /\ s[c][Num(f, c) + 1] = s[n][j]
    BY <1>1 DEF IsChild
  <2>3. s[n][i] \in Nat /\ s[n][j] \in Nat
    BY <2>1, <2>2 DEF Rises
  <2> QED  BY <2>1, <2>2, <2>3
<1>3. (i < j => s[n][i] < s[n][j]) /\ (j < i => s[n][j] < s[n][i])
  BY <1>2, Zenon DEF IsChild, Rises
<1> QED  BY <1>1, <1>2, <1>3

\* Every node but the root is a child.
LEMMA ChildSomewhere ==
    ASSUME NEW f, NEW h, NEW s, NEW top, Typed(f, h, s), TreeFits(f, top, h, s), NEW m \in Here(f), m # top
    PROVE  f[m].parent \in Here(f) /\ \E i \in Nat : IsChild(f, h, s, top, f[m].parent, i, m)
<1> DEFINE p == f[m].parent
<1>1. PICK i \in 1..Len(f[p].child) : p \in Here(f) /\ f[p].child[i] = m
  BY DEF TreeFits, Grounded
<1>2. NodeFits(f, h, s, p) /\ Num(f, p) \in Nat
  BY <1>1, HandlesIn
<1>3. ~f[p].leaf /\ i \in 1..(Num(f, p) + 1) /\ i \in Nat
  BY <1>1, <1>2 DEF NodeFits
<1>4. IsChild(f, h, s, top, p, i, m)
  <2> HIDE DEF p
  <2> QED  BY <1>1, <1>3, TheChild
<1> QED  BY <1>1, <1>3, <1>4

-----------------------------------------------------------------------------
(* SplitNode. *)

Upper(f, c, m) == \E y \in Nat : /\ y \in (SizeParam + 1)..(Full + 1) /\ y <= Len(f[c].child)
                                 /\ f[c].child[y] = m

\* g is f with child c, at index i of n, split into c and r.
SplitEdit(f, g, n, i, c, r) ==
    /\ g \in Forest
    /\ g[n].leaf = f[n].leaf /\ g[n].parent = f[n].parent
    /\ g[c].leaf = f[c].leaf /\ g[c].parent = n /\ g[r].leaf = f[c].leaf /\ g[r].parent = n
    /\ Longer(g[n].keys, f[n].keys, i, f[c].keys[SizeParam])
    /\ Longer(g[n].child, f[n].child, i + 1, r)
    /\ Slice(g[c].keys, f[c].keys, 1, SizeParam - 1)
    /\ Slice(g[r].keys, f[c].keys, SizeParam + 1, Full)
    /\ IF f[c].leaf THEN Len(g[c].child) = 0 /\ Len(g[r].child) = 0
       ELSE /\ Slice(g[c].child, f[c].child, 1, SizeParam)
            /\ Slice(g[r].child, f[c].child, SizeParam + 1, Full + 1)
    /\ \A m \in Nodes \ {n, c, r} :
         /\ g[m].leaf = f[m].leaf /\ g[m].keys = f[m].keys /\ g[m].child = f[m].child
         /\ IF Upper(f, c, m) THEN g[m].parent = r ELSE g[m] = f[m]

\* How many keys a node has at most and at least.
LEMMA NodeSizes ==
    /\ SizeParam \in Nat /\ SizeParam >= 2 /\ Full \in Nat /\ Empty \in Nat
    /\ Full = 2 * SizeParam - 1 /\ Empty = SizeParam - 1
BY BTreeAssumption DEF Full, Empty

\* What SplitNode does to the three nodes it changes.
LEMMA SplitIs ==
    ASSUME NEW h, NEW s, Typed(node, h, s), TreeFits(node, root, h, s),
           NEW n, NEW i, NEW c, IsChild(node, h, s, root, n, i, c), Num(node, c) = Full,
           NEW r \in Nodes, r \notin Here(node)
    PROVE  SplitEdit(node, Split(c, r, n, i), n, i, c, r)
<1> DEFINE up == node[c].keys[SizeParam]
           kids == Part(node[c].child, SizeParam + 1, Full + 1)
           g == Split(c, r, n, i)
           nk == InsertAt(node[n].keys, i, up)
           nc == InsertAt(node[n].child, i + 1, r)
           ck == SubSeq(node[c].keys, 1, SizeParam - 1)
           cc == Part(node[c].child, 1, SizeParam)
           rk == SubSeq(node[c].keys, SizeParam + 1, Full)
<1>1. /\ node \in Forest /\ n \in Nodes /\ c \in Nodes /\ n # c /\ n # r /\ c # r
      /\ node[n] \in NodeType /\ node[c] \in NodeType
      /\ i \in Nat /\ i \in 1..(Num(node, n) + 1) /\ Len(node[n].child) = Num(node, n) + 1 /\ Num(node, n) \in Nat
      /\ NodeFits(node, h, s, c) /\ node[c].parent = n
  BY Zenon DEF IsChild, Typed, Forest
<1>2. /\ node[n].keys \in Seq(Keys) /\ node[n].child \in Seq(Nodes) /\ node[c].keys \in Seq(Keys)
      /\ node[c].child \in Seq(Nodes) /\ Len(node[n].keys) = Num(node, n) /\ Len(node[c].keys) = Full
      /\ node[c].leaf \in BOOLEAN
  BY <1>1 DEF NodeType, Num
<1>3. IF node[c].leaf THEN node[c].child = <<>> ELSE Len(node[c].child) = Full + 1 /\ node[c].child # <<>>
  <2>1. Len(node[c].child) = IF node[c].leaf THEN 0 ELSE Full + 1
    BY <1>1 DEF NodeFits
  <2> QED  BY <2>1, <1>2, NodeSizes
<1>4. up \in Keys
  BY <1>2, NodeSizes
<1>5. nk \in Seq(Keys) /\ Longer(nk, node[n].keys, i, up)
  <2>1. i \in 1..(Len(node[n].keys) + 1)
    BY <1>1, <1>2
  <2> HIDE DEF up
  <2> QED  BY <2>1, <1>2, <1>4, InsertedIs, Zenon
<1>6. nc \in Seq(Nodes) /\ Longer(nc, node[n].child, i + 1, r)
  <2>1. i + 1 \in 1..(Len(node[n].child) + 1)
    BY <1>1
  <2> QED  BY <2>1, <1>2, InsertedIs, Zenon
<1>7. ck \in Seq(Keys) /\ Slice(ck, node[c].keys, 1, SizeParam - 1)
  <2>1. 1 \in 1..(Len(node[c].keys) + 1) /\ SizeParam - 1 \in (1 - 1)..Len(node[c].keys)
    BY <1>2, NodeSizes
  <2> QED  BY <2>1, <1>2, SubSeqIs, Zenon
<1>8. rk \in Seq(Keys) /\ Slice(rk, node[c].keys, SizeParam + 1, Full)
  <2>1. SizeParam + 1 \in 1..(Len(node[c].keys) + 1) /\ Full \in (SizeParam + 1 - 1)..Len(node[c].keys)
    BY <1>2, NodeSizes, SMTT(30)
  <2> QED  BY <2>1, <1>2, SubSeqIs, SMTT(30)
<1>9. /\ cc \in Seq(Nodes) /\ kids \in Seq(Nodes)
      /\ IF node[c].leaf THEN cc = <<>> /\ kids = <<>>
         ELSE Slice(cc, node[c].child, 1, SizeParam) /\ Slice(kids, node[c].child, SizeParam + 1, Full + 1)
  <2>1. CASE node[c].leaf
    <3>1. cc = <<>> /\ kids = <<>>
      BY <2>1, <1>3 DEF Part
    <3> QED  BY <3>1, <2>1, FreedIs, Zenon
  <2>2. CASE ~node[c].leaf
    <3>1. /\ 1 \in 1..(Len(node[c].child) + 1) /\ SizeParam \in (1 - 1)..Len(node[c].child)
          /\ SizeParam + 1 \in 1..(Len(node[c].child) + 1) /\ Full + 1 \in (SizeParam + 1 - 1)..Len(node[c].child)
          /\ node[c].child # <<>>
      BY <2>2, <1>3, NodeSizes, SMTT(60)
    <3>2. cc \in Seq(Nodes) /\ Slice(cc, node[c].child, 1, SizeParam)
      BY <3>1, <1>2, PartIs, Zenon
    <3>3. kids \in Seq(Nodes) /\ Slice(kids, node[c].child, SizeParam + 1, Full + 1)
      BY <3>1, <1>2, PartIs, SMTT(30)
    <3> QED  BY <2>2, <3>2, <3>3
  <2> QED  BY <2>1, <2>2, <1>2
<1>10. \A m \in Nodes : m \in ToSet(kids) <=> Upper(node, c, m)
  <2>1. CASE node[c].leaf
    BY <2>1, <1>3, <1>9, NodeSizes DEF ToSet, Upper
  <2>2. CASE ~node[c].leaf
    <3>1. /\ Len(kids) = Full + 1 - (SizeParam + 1) + 1
          /\ \A k \in 1..(Full + 1 - (SizeParam + 1) + 1) : kids[k] = node[c].child[SizeParam + 1 + k - 1]
      <4>1. Slice(kids, node[c].child, SizeParam + 1, Full + 1)
        BY <2>2, <1>9
      <4> HIDE DEF kids
      <4> QED  BY <4>1, NodeSizes DEF Slice
    <3>2. Full + 1 - (SizeParam + 1) + 1 = SizeParam /\ Len(kids) = SizeParam
      BY <3>1, NodeSizes
    <3>3. \A k \in 1..SizeParam : kids[k] = node[c].child[SizeParam + k] /\ SizeParam + 1 + k - 1 = SizeParam + k
      BY <3>1, <3>2, NodeSizes
    <3>4. DOMAIN kids = 1..SizeParam
      BY <3>2, <1>9
    <3>5. ASSUME NEW m \in Nodes, m \in ToSet(kids) PROVE Upper(node, c, m)
      <4>1. PICK k \in 1..SizeParam : kids[k] = m
        BY <3>4, <3>5, Zenon DEF ToSet
      <4>2. node[c].child[SizeParam + k] = m
        BY <4>1, <3>3
      <4>3. SizeParam + k \in Nat /\ SizeParam + k \in (SizeParam + 1)..(Full + 1) /\ SizeParam + k <= Len(node[c].child)
        BY <2>2, <1>3, NodeSizes
      <4> QED  BY <4>2, <4>3 DEF Upper
    <3>6. ASSUME NEW m \in Nodes, Upper(node, c, m) PROVE m \in ToSet(kids)
      <4>1. PICK y \in Nat : y \in (SizeParam + 1)..(Full + 1) /\ node[c].child[y] = m
        BY <3>6 DEF Upper
      <4>2. y - SizeParam \in 1..SizeParam /\ SizeParam + (y - SizeParam) = y
        BY <4>1, NodeSizes
      <4>3. kids[y - SizeParam] = m
        BY <4>1, <4>2, <3>3
      <4> QED  BY <4>2, <4>3, <3>4, Zenon DEF ToSet
    <3> QED  BY <3>5, <3>6
  <2> QED  BY <2>1, <2>2, <1>2
<1>11. \A m \in Nodes : Upper(node, c, m) => m \notin {n, c, r}
  <2> SUFFICES ASSUME NEW m \in Nodes, Upper(node, c, m) PROVE m \notin {n, c, r}
    OBVIOUS
  <2>1. PICK y \in Nat : /\ y \in (SizeParam + 1)..(Full + 1) /\ y <= Len(node[c].child)
                         /\ node[c].child[y] = m
    BY DEF Upper
  <2>2. ~node[c].leaf /\ y \in 1..(Num(node, c) + 1) /\ c \in Here(node)
    BY <2>1, <1>3, NodeSizes, SMTT(30) DEF IsChild
  <2>3. IsChild(node, h, s, root, c, y, m)
    BY <2>1, <2>2, TheChild
  <2>4. h[m] # h[c] /\ h[m] # h[n] /\ m \in Here(node)
    BY <2>3, SMTT(60) DEF IsChild
  <2> QED  BY <2>4
<1> DEFINE e == [node EXCEPT ![n].keys  = nk, ![n].child = nc, ![c].keys  = ck, ![c].child = cc,
                             ![r] = [node[c] EXCEPT !.keys = rk, !.child = kids]]
<1>12. g = Adopt(e, ToSet(kids), r)
  <2>1. e = [node EXCEPT
          ![n].keys  = InsertAt(@, i, up),
          ![n].child = InsertAt(@, i + 1, r),
          ![c].keys  = SubSeq(@, 1, SizeParam - 1),
          ![c].child = Part(@, 1, SizeParam),
          ![r] = [node[c] EXCEPT !.keys = SubSeq(@, SizeParam + 1, Full), !.child = kids]]
    <3> HIDE DEF kids, up
    <3> QED  BY <1>1 DEF Forest, NodeType
  <2> QED  BY <2>1 DEF Split
<1> HIDE DEF nk, nc, ck, cc, rk, kids, up
<1>13. /\ e \in Forest
       /\ e[n].leaf = node[n].leaf /\ e[n].parent = node[n].parent /\ e[n].keys = nk /\ e[n].child = nc
       /\ e[c].leaf = node[c].leaf /\ e[c].parent = n /\ e[c].keys = ck /\ e[c].child = cc
       /\ e[r].leaf = node[c].leaf /\ e[r].parent = n /\ e[r].keys = rk /\ e[r].child = kids
       /\ \A m \in Nodes \ {n, c, r} : e[m] = node[m]
  BY <1>1, <1>5, <1>6, <1>7, <1>8, <1>9, ZenonT(60) DEF Forest, NodeType
<1> HIDE DEF e, g
<1>14. /\ g \in Forest
       /\ \A m \in Nodes : ~Upper(node, c, m) => g[m] = e[m]
       /\ \A m \in Nodes : /\ g[m].leaf = e[m].leaf /\ g[m].keys = e[m].keys /\ g[m].child = e[m].child
                           /\ (Upper(node, c, m) => g[m].parent = r)
  BY <1>10, <1>12, <1>13, ZenonT(60) DEF Forest, NodeType, Adopt
<1>15. g[n] = e[n] /\ g[c] = e[c] /\ g[r] = e[r]
  BY <1>1, <1>11, <1>14
<1>16. IF node[c].leaf THEN Len(g[c].child) = 0 /\ Len(g[r].child) = 0
       ELSE /\ Slice(g[c].child, node[c].child, 1, SizeParam)
            /\ Slice(g[r].child, node[c].child, SizeParam + 1, Full + 1)
  BY <1>9, <1>13, <1>15, FreedIs
<1>17. \A m \in Nodes \ {n, c, r} :
         /\ g[m].leaf = node[m].leaf /\ g[m].keys = node[m].keys /\ g[m].child = node[m].child
         /\ IF Upper(node, c, m) THEN g[m].parent = r ELSE g[m] = node[m]
  BY <1>13, <1>14
<1>18. SplitEdit(node, g, n, i, c, r)
  BY <1>5, <1>6, <1>7, <1>8, <1>13, <1>14, <1>15, <1>16, <1>17 DEF SplitEdit, up
<1> QED  BY <1>18 DEF g

SplitHeights(h, c, r) == [h EXCEPT ![r] = h[c]]
SplitMarks(s, n, i, c, r) ==
    [s EXCEPT ![n] = [j \in Nat |-> IF j < i THEN s[n][j] ELSE IF j = i THEN s[c][SizeParam] ELSE s[n][j - 1]],
              ![r] = [j \in Nat |-> s[c][SizeParam + j]]]

SplitDone(f, g, h2, s, s2, top, n, i, c, r) ==
    /\ Typed(g, h2, s2) /\ TreeFits(g, top, h2, s2)
    /\ Here(g) = Here(f) \cup {r} /\ KeysOf(g) = KeysOf(f)
    /\ Num(g, n) = Num(f, n) + 1 /\ Num(g, c) = SizeParam - 1 /\ Num(g, r) = SizeParam - 1
    /\ \A m \in Nodes \ {n, c, r} : Num(g, m) = Num(f, m) /\ g[m].leaf = f[m].leaf
    /\ s2[c][0] = s[n][i - 1] /\ s2[c][Num(g, c) + 1] = f[c].keys[SizeParam]
    /\ s2[r][0] = f[c].keys[SizeParam] /\ s2[r][Num(g, r) + 1] = s[n][i]

\* SplitNode leaves a tree with the same keys.
LEMMA SplitFits ==
    ASSUME NEW f, NEW g, NEW h, NEW s, NEW top, Typed(f, h, s), TreeFits(f, top, h, s),
           NEW n, NEW i, NEW c, IsChild(f, h, s, top, n, i, c), Num(f, c) = Full,
           NEW r \in Nodes, r \notin Here(f), SplitEdit(f, g, n, i, c, r)
    PROVE  SplitDone(f, g, SplitHeights(h, c, r), s, SplitMarks(s, n, i, c, r), top, n, i, c, r)
<1> DEFINE h2 == SplitHeights(h, c, r)
           s2 == SplitMarks(s, n, i, c, r)
           up == s[c][SizeParam]
           num == Num(f, n)
           T == {n, c, r}
<1>1. /\ f \in Forest /\ h \in Heights /\ s \in Marks
      /\ n \in Here(f) /\ n \in Nodes /\ n # Nil /\ ~f[n].leaf /\ num \in Nat /\ Len(f[n].child) = num + 1
      /\ i \in Nat /\ i \in 1..(num + 1) /\ f[n].child[i] = c
      /\ c \in Here(f) /\ c \in Nodes /\ c # Nil /\ f[c].parent = n
      /\ h[n] \in Nat /\ h[c] \in Nat /\ h[n] = h[c] + 1 /\ c # n /\ c # top /\ r # n /\ r # c
      /\ s[c][0] = s[n][i - 1] /\ s[c][Full + 1] = s[n][i]
      /\ NodeFits(f, h, s, n) /\ NodeFits(f, h, s, c)
      /\ Rises(s[n], num) /\ Rises(s[c], Full)
  BY DEF IsChild, Typed
<1>k. /\ \A y \in 1..num : s[n][y] = f[n].keys[y]
      /\ \A y \in 1..Full : s[c][y] = f[c].keys[y]
      /\ f[c].leaf <=> h[c] = 0
      /\ Len(f[c].child) = IF f[c].leaf THEN 0 ELSE Full + 1
  BY <1>1 DEF NodeFits
<1>s. /\ \A y \in Nat : s[n][y] \in Nat /\ s[c][y] \in Nat
      /\ \A x, y \in 0..(Full + 1) : x < y => s[c][x] < s[c][y]
      /\ up \in Nat /\ up = f[c].keys[SizeParam]
  <2>1. /\ \A y \in Nat : s[n][y] \in Nat /\ s[c][y] \in Nat
        /\ \A x, y \in 0..(Full + 1) : x < y => s[c][x] < s[c][y]
    BY <1>1, Zenon DEF Rises
  <2>2. SizeParam \in 1..Full /\ SizeParam \in Nat
    BY NodeSizes
  <2> QED  BY <2>1, <2>2, <1>k
<1>u. s[n][i - 1] < up /\ up < s[n][i]
  <2>1. 0 < SizeParam /\ SizeParam < Full + 1 /\ 0 \in 0..(Full + 1) /\ SizeParam \in 0..(Full + 1) /\ Full + 1 \in 0..(Full + 1)
    BY NodeSizes
  <2> QED  BY <2>1, <1>1, <1>s, Zenon
<1>2. /\ h2 \in Heights /\ h2[r] = h[c] /\ \A m \in Nodes : m # r => h2[m] = h[m]
  BY <1>1 DEF Heights, SplitHeights
<1>3. /\ s2 \in Marks /\ \A m \in Nodes \ {n, r} : s2[m] = s[m]
      /\ \A j \in Nat : s2[n][j] = IF j < i THEN s[n][j] ELSE IF j = i THEN up ELSE s[n][j - 1]
      /\ \A j \in Nat : s2[r][j] = s[c][SizeParam + j]
  <2>1. \A j \in Nat : (IF j < i THEN s[n][j] ELSE IF j = i THEN up ELSE s[n][j - 1]) \in Nat
    BY <1>1, <1>s
  <2>2. \A j \in Nat : SizeParam + j \in Nat /\ s[c][SizeParam + j] \in Nat
    BY <1>s, NodeSizes
  <2> QED  BY <2>1, <2>2, <1>1, Zenon DEF Marks, SplitMarks
<1> HIDE DEF h2, s2, up
<1>4. /\ g \in Forest
      /\ g[n].leaf = f[n].leaf /\ g[n].parent = f[n].parent
      /\ g[c].leaf = f[c].leaf /\ g[c].parent = n /\ g[r].leaf = f[c].leaf /\ g[r].parent = n
      /\ Longer(g[n].keys, f[n].keys, i, up) /\ Longer(g[n].child, f[n].child, i + 1, r)
      /\ Slice(g[c].keys, f[c].keys, 1, SizeParam - 1)
      /\ Slice(g[r].keys, f[c].keys, SizeParam + 1, Full)
      /\ f[c].leaf => Len(g[c].child) = 0 /\ Len(g[r].child) = 0
      /\ ~f[c].leaf => /\ Slice(g[c].child, f[c].child, 1, SizeParam)
                       /\ Slice(g[r].child, f[c].child, SizeParam + 1, Full + 1)
  BY <1>s DEF SplitEdit
<1>5. \A m \in Nodes \ T :
         /\ g[m].leaf = f[m].leaf /\ g[m].keys = f[m].keys /\ g[m].child = f[m].child
         /\ (Upper(f, c, m) => g[m].parent = r) /\ (~Upper(f, c, m) => g[m] = f[m])
  BY DEF SplitEdit
<1>6. /\ Num(g, n) = num + 1 /\ \A j \in 1..(num + 1) : g[n].keys[j] =
             IF j < i THEN f[n].keys[j] ELSE IF j = i THEN up ELSE f[n].keys[j - 1]
      /\ Len(g[n].child) = num + 2 /\ \A j \in 1..(num + 2) : g[n].child[j] =
             IF j < i + 1 THEN f[n].child[j] ELSE IF j = i + 1 THEN r ELSE f[n].child[j - 1]
  BY <1>1, <1>4 DEF Longer, Num
<1>7. Num(g, c) = SizeParam - 1 /\ \A j \in 1..(SizeParam - 1) : g[c].keys[j] = f[c].keys[j]
  <2>1. /\ Num(g, c) = SizeParam - 1 - 1 + 1
        /\ \A j \in 1..(SizeParam - 1 - 1 + 1) : g[c].keys[j] = f[c].keys[1 + j - 1]
    BY <1>4, NodeSizes DEF Slice, Num
  <2>2. SizeParam - 1 - 1 + 1 = SizeParam - 1 /\ \A j \in 1..(SizeParam - 1) : 1 + j - 1 = j
    BY NodeSizes
  <2> QED  BY <2>1, <2>2
<1>8. Num(g, r) = SizeParam - 1 /\ \A j \in 1..(SizeParam - 1) : g[r].keys[j] = f[c].keys[SizeParam + j]
  <2>1. /\ Num(g, r) = Full - (SizeParam + 1) + 1
        /\ \A j \in 1..(Full - (SizeParam + 1) + 1) : g[r].keys[j] = f[c].keys[SizeParam + 1 + j - 1]
    BY <1>4, NodeSizes DEF Slice, Num
  <2>2. Full - (SizeParam + 1) + 1 = SizeParam - 1 /\ \A j \in 1..(SizeParam - 1) : SizeParam + 1 + j - 1 = SizeParam + j
    BY NodeSizes
  <2> QED  BY <2>1, <2>2
<1>9. ~f[c].leaf => /\ Len(g[c].child) = SizeParam /\ \A j \in 1..SizeParam : g[c].child[j] = f[c].child[j]
                    /\ Len(g[r].child) = SizeParam /\ \A j \in 1..SizeParam : g[r].child[j] = f[c].child[SizeParam + j]
  <2> SUFFICES ASSUME ~f[c].leaf
               PROVE  /\ Len(g[c].child) = SizeParam /\ \A j \in 1..SizeParam : g[c].child[j] = f[c].child[j]
                      /\ Len(g[r].child) = SizeParam /\ \A j \in 1..SizeParam : g[r].child[j] = f[c].child[SizeParam + j]
    OBVIOUS
  <2>1. /\ Len(g[c].child) = SizeParam - 1 + 1 /\ \A j \in 1..(SizeParam - 1 + 1) : g[c].child[j] = f[c].child[1 + j - 1]
        /\ Len(g[r].child) = Full + 1 - (SizeParam + 1) + 1
        /\ \A j \in 1..(Full + 1 - (SizeParam + 1) + 1) : g[r].child[j] = f[c].child[SizeParam + 1 + j - 1]
    BY <1>4, NodeSizes DEF Slice
  <2>2. /\ Full + 1 - (SizeParam + 1) + 1 = SizeParam /\ SizeParam - 1 + 1 = SizeParam
        /\ \A j \in 1..SizeParam : SizeParam + 1 + j - 1 = SizeParam + j /\ 1 + j - 1 = j
    BY NodeSizes
  <2> QED  BY <2>1, <2>2, Zenon
<1>10. \A m \in Nodes \ T : Num(g, m) = Num(f, m)
  BY <1>5 DEF Num
\* The children of c, and those of n.
<1>11. ASSUME NEW y \in 1..(Full + 1), ~f[c].leaf
       PROVE  IsChild(f, h, s, top, c, y, f[c].child[y]) /\ f[c].child[y] \in Nodes \ T
  <2>1. IsChild(f, h, s, top, c, y, f[c].child[y])
    BY <1>1, <1>11, TheChild
  <2>2. f[c].child[y] \in Here(f) /\ h[c] = h[f[c].child[y]] + 1 /\ f[c].child[y] # c /\ f[c].child[y] \in Nodes
        /\ h[f[c].child[y]] \in Nat
    BY <2>1 DEF IsChild
  <2> DEFINE d == f[c].child[y]
  <2> HIDE DEF d
  <2>3. d # n /\ d # r
    <3>1. d \in Here(f) /\ h[c] = h[d] + 1 /\ h[d] \in Nat
      BY <2>2 DEF d
    <3>2. d # n
      BY <3>1, <1>1
    <3> QED  BY <3>1, <3>2
  <2>4. f[c].child[y] # n /\ f[c].child[y] # r
    BY <2>3 DEF d
  <2> QED  BY <2>1, <2>2, <2>4
<1>12. ASSUME NEW x \in 1..(num + 1), x # i
       PROVE  IsChild(f, h, s, top, n, x, f[n].child[x]) /\ f[n].child[x] \in Nodes \ T
  <2>1. IsChild(f, h, s, top, n, x, f[n].child[x])
    BY <1>1, TheChild, Zenon
  <2>2. f[n].child[x] # c
    BY <2>1, <1>12, ChildOnce
  <2>3. f[n].child[x] \in Here(f) /\ f[n].child[x] # n /\ f[n].child[x] \in Nodes
    BY <2>1, Zenon DEF IsChild
  <2> QED  BY <2>1, <2>2, <2>3, <1>1, Zenon
<1>13. Here(g) = Here(f) \cup {r}
  <2>1. \A m \in Nodes : m # Nil
    BY BTreeAssumption DEF Nil
  <2>2. g[c].parent # Freed.parent /\ g[r].parent # Freed.parent
    BY <1>1, <1>4, FreedIs
  <2>3. n \in Here(g)
    <3>1. Len(g[n].child) # Len(<<>>)
      BY <1>1, <1>6
    <3> QED  BY <3>1, <1>1, FreedIs DEF Here
  <2>4. ASSUME NEW m \in Nodes \ T PROVE m \in Here(g) <=> m \in Here(f)
    <3>1. CASE Upper(f, c, m)
      <4>1. g[m].parent # Freed.parent
        BY <3>1, <2>1, <2>4, <1>5, FreedIs
      <4>2. PICK y \in Nat : /\ y \in (SizeParam + 1)..(Full + 1) /\ y <= Len(f[c].child)
                             /\ f[c].child[y] = m
        BY <3>1 DEF Upper
      <4>3. ~f[c].leaf /\ y \in 1..(Full + 1)
        BY <4>2, <1>k, NodeSizes
      <4>4. m \in Here(f)
        BY <4>2, <4>3, <1>11, Zenon DEF IsChild
      <4> QED  BY <4>1, <4>4, <2>4 DEF Here
    <3>2. CASE ~Upper(f, c, m)
      BY <3>2, <2>4, <1>5 DEF Here
    <3> QED  BY <3>1, <3>2
  <2>5. c \in Here(g) /\ r \in Here(g)
    BY <2>2, <1>1 DEF Here
  <2>6. \A m \in Here(g) : m \in Nodes
    BY DEF Here
  <2>7. \A m \in Here(f) : m \in Nodes
    BY DEF Here
  <2> QED  BY <2>3, <2>4, <2>5, <2>6, <2>7, <1>1
<1>14. \A m \in Nodes \ T : Upper(f, c, m) => m \in Here(f) /\ f[m].parent = c
  <2> SUFFICES ASSUME NEW m \in Nodes \ T, Upper(f, c, m) PROVE m \in Here(f) /\ f[m].parent = c
    OBVIOUS
  <2>1. PICK y \in Nat : /\ y \in (SizeParam + 1)..(Full + 1) /\ y <= Len(f[c].child)
                         /\ f[c].child[y] = m
    BY DEF Upper
  <2>2. ~f[c].leaf /\ y \in 1..(Full + 1)
    BY <2>1, <1>k, NodeSizes
  <2> QED  BY <2>1, <2>2, <1>11, Zenon DEF IsChild
\* Every part is as it should be.
<1>15. NodeFits(g, h2, s2, c)
  <2>1. \A j \in 0..SizeParam : s2[c][j] = s[c][0 + j]
    <3>1. s2[c] = s[c]
      BY <1>1, <1>3
    <3> QED  BY <3>1, NodeSizes
  <2>2. \A j \in 1..(SizeParam - 1) : g[c].keys[j] = s[c][0 + j]
    <3>1. \A j \in 1..(SizeParam - 1) : j \in 1..Full /\ 0 + j = j
      BY NodeSizes
    <3> QED  BY <3>1, <1>k, <1>7
  <2>3. g[c].leaf <=> h2[c] = 0
    BY <1>1, <1>2, <1>4, <1>k
  <2>4. Len(g[c].child) = IF g[c].leaf THEN 0 ELSE SizeParam - 1 + 1
    BY <1>4, <1>9, NodeSizes
  <2>5. ASSUME NEW j \in 1..Len(g[c].child) PROVE Hooked(g, h2, s2, g[c].child[j], c, s[c][0 + j - 1], s[c][0 + j])
    <3>1. ~f[c].leaf /\ j \in 1..SizeParam /\ j \in 1..(Full + 1) /\ g[c].child[j] = f[c].child[j]
      BY <2>5, <1>4, <1>9, NodeSizes
    <3> DEFINE d == f[c].child[j]
    <3>2. IsChild(f, h, s, top, c, j, d) /\ d \in Nodes \ T
      BY <3>1, <1>11
    <3> HIDE DEF d, T
    <3>3. ~Upper(f, c, d)
      <4> SUFFICES ASSUME Upper(f, c, d) PROVE FALSE
        OBVIOUS
      <4>1. PICK y \in Nat : /\ y \in (SizeParam + 1)..(Full + 1) /\ y <= Len(f[c].child)
                             /\ f[c].child[y] = d
        BY DEF Upper
      <4>2. y \in 1..(Full + 1)
        BY <4>1, NodeSizes
      <4>3. IsChild(f, h, s, top, c, y, d)
        BY <4>1, <4>2, <3>1, <1>11
      <4>4. y = j
        BY <4>3, <3>2, ChildOnce
      <4> QED  BY <4>1, <4>4, <3>1, NodeSizes
    <3>4. g[d] = f[d] /\ Num(g, d) = Num(f, d) /\ h2[d] = h[d] /\ s2[d] = s[d] /\ d \in Here(g) /\ h2[c] = h[c]
      BY <3>2, <3>3, <1>1, <1>2, <1>3, <1>5, <1>10, <1>13 DEF IsChild, T
    <3>5. g[d].parent = c /\ h2[c] = h2[d] + 1 /\ s2[d][0] = s[c][j - 1] /\ s2[d][Num(g, d) + 1] = s[c][j]
      BY <3>2, <3>4 DEF IsChild
    <3>6. 0 + j = j /\ 0 + j - 1 = j - 1
      BY <3>1, NodeSizes
    <3> QED  BY <3>1, <3>4, <3>5, <3>6 DEF Hooked, d
  <2>6. 0 + (SizeParam - 1) <= Full /\ SizeParam - 1 + 1 = SizeParam
    BY NodeSizes
  <2>7. IsPart(g, h2, s2, c, s[c], 0, Full)
    BY <2>1, <2>2, <2>3, <2>4, <2>5, <2>6, <1>7 DEF IsPart
  <2> QED  BY <2>7, <1>1, <1>4, NodeSizes, PartFits
<1>16. NodeFits(g, h2, s2, r)
  <2>1. \A j \in 0..SizeParam : s2[r][j] = s[c][SizeParam + j]
    BY <1>3, NodeSizes
  <2>2. \A j \in 1..(SizeParam - 1) : g[r].keys[j] = s[c][SizeParam + j]
    <3>1. \A j \in 1..(SizeParam - 1) : SizeParam + j \in 1..Full
      BY NodeSizes
    <3> QED  BY <3>1, <1>k, <1>8
  <2>3. g[r].leaf <=> h2[r] = 0
    BY <1>1, <1>2, <1>4, <1>k
  <2>4. Len(g[r].child) = IF g[r].leaf THEN 0 ELSE SizeParam - 1 + 1
    BY <1>4, <1>9, NodeSizes, SMTT(30)
  <2>5. ASSUME NEW j \in 1..Len(g[r].child)
        PROVE  Hooked(g, h2, s2, g[r].child[j], r, s[c][SizeParam + j - 1], s[c][SizeParam + j])
    <3>1. ~f[c].leaf /\ j \in 1..SizeParam /\ SizeParam + j \in 1..(Full + 1) /\ g[r].child[j] = f[c].child[SizeParam + j]
      BY <2>5, <1>4, <1>9, NodeSizes, SMTT(30)
    <3> DEFINE d == f[c].child[SizeParam + j]
    <3>2. IsChild(f, h, s, top, c, SizeParam + j, d) /\ d \in Nodes \ T
      BY <3>1, <1>11
    <3>3. Upper(f, c, d)
      <4>1. /\ SizeParam + j \in (SizeParam + 1)..(Full + 1) /\ SizeParam + j <= Len(f[c].child)
            /\ SizeParam + j \in Nat
        BY <3>1, <1>k, NodeSizes
      <4> QED  BY <4>1 DEF Upper
    <3> HIDE DEF d, T
    <3>4. g[d].parent = r /\ Num(g, d) = Num(f, d) /\ h2[d] = h[d] /\ s2[d] = s[d] /\ d \in Here(g) /\ h2[r] = h[c]
      BY <3>2, <3>3, <1>1, <1>2, <1>3, <1>5, <1>10, <1>13 DEF IsChild, T
    <3>5. /\ h2[r] = h2[d] + 1 /\ s2[d][0] = s[c][SizeParam + j - 1]
          /\ s2[d][Num(g, d) + 1] = s[c][SizeParam + j]
      <4>1. SizeParam + j - 1 = (SizeParam + j) - 1
        BY <3>1, NodeSizes
      <4>2. h[c] = h[d] + 1 /\ s[d][0] = s[c][(SizeParam + j) - 1] /\ s[d][Num(f, d) + 1] = s[c][SizeParam + j]
        BY <3>2, Zenon DEF IsChild
      <4> QED  BY <4>1, <4>2, <3>4, Zenon
    <3> QED  BY <3>1, <3>4, <3>5 DEF Hooked, d
  <2>6. SizeParam + (SizeParam - 1) <= Full /\ SizeParam - 1 + 1 = SizeParam
    BY NodeSizes
  <2>7. IsPart(g, h2, s2, r, s[c], SizeParam, Full)
    BY <2>1, <2>2, <2>3, <2>4, <2>5, <2>6, <1>8 DEF IsPart
  <2> QED  BY <2>7, <1>1, <1>4, NodeSizes, PartFits
<1>17. ASSUME NEW x \in 1..(num + 1), x # i
       PROVE  Hooked(g, h2, s2, f[n].child[x], n, s[n][x - 1], s[n][x])
  <2> DEFINE d == f[n].child[x]
  <2>1. IsChild(f, h, s, top, n, x, d) /\ d \in Nodes \ T
    BY <1>12, <1>17
  <2> HIDE DEF d, T
  <2>2. ~Upper(f, c, d)
    BY <2>1, <1>1, <1>14, Zenon DEF IsChild
  <2>3. g[d] = f[d] /\ Num(g, d) = Num(f, d) /\ h2[d] = h[d] /\ s2[d] = s[d] /\ d \in Here(g) /\ h2[n] = h[n]
    BY <2>1, <2>2, <1>1, <1>2, <1>3, <1>5, <1>10, <1>13 DEF IsChild, T
  <2>4. g[d].parent = n /\ h2[n] = h2[d] + 1 /\ s2[d][0] = s[n][x - 1] /\ s2[d][Num(g, d) + 1] = s[n][x]
    BY <2>1, <2>3 DEF IsChild
  <2> QED  BY <2>3, <2>4 DEF Hooked, d
<1>18. Rises(s2[n], num + 1)
  <2>1. s2[n] \in [Nat -> Nat]
    BY <1>1, <1>3, Zenon DEF Marks
  <2>2. /\ num \in Nat /\ Rises(s[n], num) /\ i \in 1..(num + 1) /\ up \in Nat
        /\ s[n][i - 1] < up /\ up < s[n][i]
        /\ \A j \in Nat : s2[n][j] = IF j < i THEN s[n][j] ELSE IF j = i THEN up ELSE s[n][j - 1]
    BY <1>1, <1>3, <1>s, <1>u
  <2> DEFINE t == s[n]
             t2 == s2[n]
  <2> HIDE DEF num, t, t2
  <2>3. Rises(t2, num + 1)
    BY <2>1, <2>2, RisesLonger, Zenon DEF t, t2
  <2> QED  BY <2>3 DEF t2
<1>19. NodeFits(g, h2, s2, n)
  <2>1. \A j \in 0..(num + 2) : s2[n][j] = s2[n][0 + j]
    BY <1>1, SMTT(30)
  <2>2. ASSUME NEW j \in 1..(num + 1) PROVE g[n].keys[j] = s2[n][0 + j]
    <3>1. /\ j \in Nat /\ 0 + j = j /\ (j < i => j \in 1..num)
          /\ (j > i => j - 1 \in 1..num) /\ (j < i \/ j = i \/ j > i)
      BY <2>2, <1>1
    <3>2. CASE j < i
      BY <3>1, <3>2, <1>6, <1>3, <1>k
    <3>3. CASE j = i
      BY <3>1, <3>3, <1>1, <1>6, <1>3
    <3>4. CASE j > i
      <4>1. ~(j < i) /\ j # i
        BY <3>1, <3>4, <1>1, SMTT(30)
      <4> QED  BY <4>1, <3>1, <3>4, <1>6, <1>3, <1>k
    <3> QED  BY <3>1, <3>2, <3>3, <3>4
  <2>3. g[n].leaf <=> h2[n] = 0
    BY <1>1, <1>2, <1>4
  <2>4. Len(g[n].child) = IF g[n].leaf THEN 0 ELSE num + 1 + 1
    BY <1>1, <1>4, <1>6
  <2>5. ASSUME NEW j \in 1..Len(g[n].child) PROVE Hooked(g, h2, s2, g[n].child[j], n, s2[n][0 + j - 1], s2[n][0 + j])
    <3>1. j \in Nat /\ j \in 1..(num + 2) /\ 0 + j = j /\ 0 + j - 1 = j - 1 /\ j - 1 \in Nat
      BY <2>5, <1>1, <1>6, SMTT(60)
    <3>2. CASE j < i
      <4>1. j \in 1..(num + 1) /\ j # i /\ j < i + 1 /\ j - 1 < i
        BY <3>1, <3>2, <1>1, SMTT(30)
      <4>2. Hooked(g, h2, s2, f[n].child[j], n, s[n][j - 1], s[n][j])
        BY <4>1, <1>17
      <4>3. g[n].child[j] = f[n].child[j] /\ s2[n][j - 1] = s[n][j - 1] /\ s2[n][j] = s[n][j]
        BY <4>1, <3>1, <3>2, <1>3, <1>6
      <4> QED  BY <4>2, <4>3, <3>1
    <3>3. CASE j = i
      <4>1. g[n].child[j] = c
        BY <3>1, <3>3, <1>1, <1>6, SMTT(30)
      <4>2. s2[n][j - 1] = s[n][i - 1] /\ s2[n][j] = up
        BY <3>1, <3>3, <1>1, <1>3
      <4>3. s2[c][0] = s[n][i - 1] /\ s2[c][Num(g, c) + 1] = up
        <5>1. s2[c] = s[c] /\ Num(g, c) + 1 = SizeParam
          BY <1>1, <1>3, <1>7, NodeSizes
        <5> QED  BY <5>1, <1>1 DEF up
      <4>4. c \in Here(g) /\ g[c].parent = n /\ h2[n] = h2[c] + 1
        BY <1>1, <1>2, <1>4, <1>13
      <4> QED  BY <4>1, <4>2, <4>3, <4>4, <3>1 DEF Hooked
    <3>4. CASE j = i + 1
      <4>1. g[n].child[j] = r
        BY <3>1, <3>4, <1>1, <1>6, SMTT(30)
      <4>2. s2[n][j - 1] = up /\ s2[n][j] = s[n][i]
        <5>1. j - 1 = i /\ ~(j < i) /\ j # i
          BY <3>1, <3>4, <1>1
        <5> QED  BY <5>1, <3>1, <1>1, <1>3, SMTT(30)
      <4>3. s2[r][0] = up /\ s2[r][Num(g, r) + 1] = s[n][i]
        <5>1. Num(g, r) + 1 = SizeParam /\ SizeParam + SizeParam = Full + 1 /\ SizeParam + 0 = SizeParam
          BY <1>8, NodeSizes
        <5>2. s2[r][0] = s[c][SizeParam + 0] /\ s2[r][SizeParam] = s[c][SizeParam + SizeParam]
          BY <1>3, NodeSizes, Zenon
        <5> QED  BY <5>1, <5>2, <1>1 DEF up
      <4>4. r \in Here(g) /\ g[r].parent = n /\ h2[n] = h2[r] + 1
        BY <1>1, <1>2, <1>4, <1>13
      <4> QED  BY <4>1, <4>2, <4>3, <4>4, <3>1 DEF Hooked
    <3>5. CASE j > i + 1
      <4>a. j - 1 \in 1..(num + 1) /\ j - 1 # i
        BY <3>1, <3>5, <1>1, SMTT(30)
      <4>b. ~(j < i + 1) /\ j # i + 1 /\ ~(j < i) /\ j # i /\ ~(j - 1 < i)
        BY <3>1, <3>5, <1>1
      <4>1. /\ j - 1 \in 1..(num + 1) /\ j - 1 # i /\ ~(j < i + 1) /\ j # i + 1 /\ ~(j < i) /\ j # i /\ ~(j - 1 < i)
            /\ j - 1 - 1 \in Nat
        BY <3>1, <4>a, <4>b, <1>1, SMTT(30)
      <4>2. Hooked(g, h2, s2, f[n].child[j - 1], n, s[n][j - 1 - 1], s[n][j - 1])
        BY <4>1, <1>17
      <4>3. g[n].child[j] = f[n].child[j - 1] /\ s2[n][j - 1] = s[n][j - 1 - 1] /\ s2[n][j] = s[n][j - 1]
        BY <4>1, <3>1, <1>3, <1>6
      <4> QED  BY <4>2, <4>3, <3>1
    <3> QED  BY <3>1, <3>2, <3>3, <3>4, <3>5, <1>1, SMTT(60)
  <2>6. 0 + Num(g, n) <= num + 1 /\ Num(g, n) + 1 = num + 2
    BY <1>1, <1>6
  <2>7. IsPart(g, h2, s2, n, s2[n], 0, num + 1)
    BY <2>1, <2>2, <2>3, <2>4, <2>5, <2>6, <1>6 DEF IsPart
  <2> QED  BY <2>7, <1>1, <1>4, <1>18, PartFits
<1>c. s2[c] = s[c] /\ s2[n][i] = up /\ i \in 1..(num + 1) /\ g[n].child[i] = c
  <2>1. s2[c] = s[c] /\ s2[n][i] = up
    BY <1>1, <1>3
  <2>2. i \in 1..(num + 2) /\ i < i + 1
    BY <1>1
  <2>3. g[n].child[i] = f[n].child[i]
    BY <2>2, <1>6
  <2> QED  BY <2>1, <2>3, <1>1
<1>20. T \subseteq Nodes /\ top \in Here(f) /\ top \in Nodes /\ top # Nil /\ top # r /\ f[top].parent = Nil
  BY <1>1, HandlesIn, Zenon DEF TreeFits
<1>21. Elsewhere(f, g, h, h2, s, s2, T)
  <2> SUFFICES ASSUME NEW m \in Nodes \ T
               PROVE  /\ g[m].leaf = f[m].leaf /\ g[m].keys = f[m].keys /\ g[m].child = f[m].child
                      /\ h2[m] = h[m] /\ s2[m] = s[m]
                      /\ m \in Here(g) <=> m \in Here(f)
                      /\ m \in Here(f) => IF f[m].parent \in T THEN g[m].parent \in T ELSE g[m].parent = f[m].parent
    BY DEF Elsewhere
  <2>1. CASE Upper(f, c, m)
    BY <2>1, <1>2, <1>3, <1>5, <1>13, <1>14
  <2>2. CASE ~Upper(f, c, m)
    BY <2>2, <1>2, <1>3, <1>5, <1>13
  <2> QED  BY <2>1, <2>2
<1>22. s2[n][0] = s[n][0] /\ s2[n][Num(g, n) + 1] = s[n][num + 1]
  <2>1. 0 < i /\ num + 2 > i /\ num + 2 - 1 = num + 1 /\ num + 2 \in Nat /\ num + 1 + 1 = num + 2
    BY <1>1
  <2> QED  BY <2>1, <1>1, <1>3, <1>6
<1>23. StillHangs(f, g, h, h2, s, s2, T)
  <2> SUFFICES ASSUME NEW m \in T, m \in Here(f), f[m].parent \in Nodes \ T
               PROVE  /\ m \in Here(g) /\ g[m].parent = f[m].parent /\ h2[m] = h[m]
                      /\ s2[m][0] = s[m][0] /\ s2[m][Num(g, m) + 1] = s[m][Num(f, m) + 1]
    BY DEF StillHangs
  <2>1. m = n
    BY <1>1
  <2> QED  BY <2>1, <1>1, <1>2, <1>4, <1>13, <1>22
<1>24. ASSUME NEW m \in Here(g), m # top, g[m].parent \in T
       PROVE  \E x \in 1..Len(g[g[m].parent].child) : g[g[m].parent].child[x] = m
  <2>1. CASE m = c
    <3>1. i \in 1..Len(g[n].child) /\ g[n].child[i] = c
      BY <1>1, <1>6, <1>c
    <3> QED  BY <3>1, <2>1, <1>4
  <2>2. CASE m = r
    <3>1. i + 1 \in 1..(num + 2) /\ ~(i + 1 < i + 1)
      BY <1>1
    <3>2. g[n].child[i + 1] = r
      BY <3>1, <1>6
    <3>3. i + 1 \in 1..Len(g[n].child)
      BY <3>1, <1>6
    <3> QED  BY <3>2, <3>3, <2>2, <1>4
  <2>3. CASE m # c /\ m # r
    <3>1. m \in Here(f) /\ m \in Nodes
      BY <2>3, <1>13, <1>24 DEF Here
    <3>2. PICK x \in Nat : IsChild(f, h, s, top, f[m].parent, x, m)
      BY <3>1, <1>24, ChildSomewhere
    <3> DEFINE p == f[m].parent
    <3>3. /\ p \in Here(f) /\ ~f[p].leaf /\ x \in 1..(Num(f, p) + 1) /\ Len(f[p].child) = Num(f, p) + 1
          /\ f[p].child[x] = m /\ h[p] = h[m] + 1 /\ h[m] \in Nat
      BY <3>2 DEF IsChild
    <3> HIDE DEF p
    <3>4. m # n
      <4> SUFFICES ASSUME m = n PROVE FALSE
        OBVIOUS
      <4>1. p \in T
        BY <1>4, <1>24 DEF p
      <4> QED  BY <4>1, <3>3, <1>1, SMTT(30)
    <3>5. (Upper(f, c, m) => g[m].parent = r /\ p = c) /\ (~Upper(f, c, m) => g[m].parent = p)
      BY <2>3, <3>1, <3>4, <1>5, <1>14 DEF p
    <3>6. CASE Upper(f, c, m)
      <4>1. PICK y \in Nat : y \in (SizeParam + 1)..(Full + 1) /\ y <= Len(f[c].child) /\ f[c].child[y] = m
        BY <3>6 DEF Upper
      <4>2. y - SizeParam \in 1..SizeParam /\ SizeParam + (y - SizeParam) = y /\ ~f[c].leaf
        BY <4>1, <1>k, NodeSizes
      <4>3. y - SizeParam \in 1..Len(g[r].child) /\ g[r].child[y - SizeParam] = m
        BY <4>1, <4>2, <1>9, Zenon
      <4> QED  BY <4>3, <3>5, <3>6
    <3>7. CASE ~Upper(f, c, m)
      <4>1. g[m].parent = p /\ p # r
        BY <3>3, <3>5, <3>7
      <4>2. CASE p = c
        <5>1. x \in 1..(Full + 1) /\ ~f[c].leaf
          BY <3>3, <4>2
        <5>2. ~(x \in (SizeParam + 1)..(Full + 1))
          <6> SUFFICES ASSUME x \in (SizeParam + 1)..(Full + 1) PROVE FALSE
            OBVIOUS
          <6>1. x <= Len(f[c].child) /\ f[c].child[x] = m
            BY <5>1, <3>3, <4>2, NodeSizes
          <6>2. Upper(f, c, m)
            BY <6>1 DEF Upper
          <6> QED  BY <6>2, <3>7
        <5>3. x \in 1..SizeParam
          BY <5>1, <5>2, NodeSizes
        <5>4. x \in 1..Len(g[c].child) /\ g[c].child[x] = m
          BY <5>1, <5>3, <1>9, <3>3, <4>2, Zenon
        <5> QED  BY <5>4, <4>1, <4>2
      <4>3. CASE p = n
        <5>1. x \in 1..(num + 1) /\ f[n].child[x] = m
          BY <3>3, <4>3
        <5>2. x # i
          BY <5>1, <2>3, <1>1
        <5>3. CASE x < i
          <6>1. x \in 1..(num + 2) /\ x < i + 1
            BY <5>1, <5>3, <1>1
          <6>2. x \in 1..Len(g[n].child) /\ g[n].child[x] = m
            BY <6>1, <5>1, <1>6
          <6> QED  BY <6>2, <4>1, <4>3
        <5>4. CASE x > i
          <6>1. x + 1 \in 1..(num + 2) /\ ~(x + 1 < i + 1) /\ x + 1 # i + 1 /\ x + 1 - 1 = x
            BY <5>1, <5>4, <1>1, SMTT(30)
          <6>2. x + 1 \in 1..Len(g[n].child) /\ g[n].child[x + 1] = m
            BY <6>1, <5>1, <1>6
          <6> QED  BY <6>2, <4>1, <4>3
        <5> QED  BY <5>1, <5>2, <5>3, <5>4, <1>1
      <4>4. p \in T
        BY <4>1, <1>24
      <4> QED  BY <4>1, <4>2, <4>3, <4>4
    <3> QED  BY <3>6, <3>7
  <2> QED  BY <2>1, <2>2, <2>3
<1>25. Rebuild(f, g, top, top, h2, s2, T)
  <2>1. \A m \in T : m \in Here(g) => NodeFits(g, h2, s2, m)
    BY <1>15, <1>16, <1>19
  <2>2. \A m \in Here(g) : m # top => h2[m] < h2[top]
    <3>1. \A m \in Here(f) : m # top => h[m] < h[top]
      BY DEF TreeFits, Grounded
    <3>2. h2[top] = h[top] /\ h2[r] = h[c] /\ \A m \in Here(f) : m \in Nodes /\ h2[m] = h[m]
      BY <1>1, <1>2, <1>20 DEF Here
    <3> QED  BY <3>1, <3>2, <1>1, <1>13
  <2>3. \A m \in Here(g) : m # top /\ g[m].parent \in T =>
           /\ g[m].parent \in Here(g)
           /\ \E x \in 1..Len(g[g[m].parent].child) : g[g[m].parent].child[x] = m
    BY <1>1, <1>13, <1>24
  <2>4. \A m \in T : m \in Here(g) /\ m # top =>
           g[m].parent \in T \/ (m \in Here(f) /\ m # top /\ g[m].parent = f[m].parent)
    BY <1>1, <1>4
  <2>5. top \in Here(g) /\ g[top].parent = Nil /\ s2[top][0] = 0 /\ s2[top][Num(g, top) + 1] = Top
    <3>1. s[top][0] = 0 /\ s[top][Num(f, top) + 1] = Top /\ top \in Here(g)
      BY <1>13, <1>20 DEF TreeFits
    <3>2. CASE top = n
      BY <3>1, <3>2, <1>4, <1>20, <1>22
    <3>3. CASE top # n
      <4>1. top \in Nodes \ T
        BY <3>3, <1>1, <1>20
      <4>2. ~Upper(f, c, top)
        BY <4>1, <1>1, <1>14, <1>20
      <4> QED  BY <3>1, <4>1, <4>2, <1>3, <1>5, <1>10, <1>20
    <3> QED  BY <3>2, <3>3
  <2> HIDE DEF T
  <2> QED  BY <2>1, <2>2, <2>3, <2>4, <2>5 DEF Rebuild
<1>26. Typed(g, h2, s2)
  BY <1>2, <1>3, <1>4 DEF Typed
<1>27. TreeFits(g, top, h2, s2)
  <2> HIDE DEF T
  <2> QED  BY <1>20, <1>21, <1>23, <1>25, <1>26, Rebuilt
<1>28. ASSUME NEW k \in Keys, Marked(f, s, T, k) PROVE Marked(g, s2, T, k)
  <2>1. PICK m \in T, y \in Nat : m \in Here(f) /\ y \in 1..Num(f, m) /\ s[m][y] = k
    BY <1>28 DEF Marked
  <2>2. CASE m = n
    <3>1. CASE y < i
      <4>1. y \in 1..Num(g, n) /\ s2[n][y] = k
        BY <2>1, <2>2, <3>1, <1>1, <1>3, <1>6, SMTT(30)
      <4> QED  BY <4>1, <1>13, <1>1 DEF Marked
    <3>2. CASE ~(y < i)
      <4>1. y + 1 \in 1..(num + 1) /\ ~(y + 1 < i) /\ y + 1 # i /\ y + 1 - 1 = y /\ y + 1 \in Nat
        BY <2>1, <2>2, <3>2, <1>1
      <4>2. y + 1 \in 1..Num(g, n) /\ s2[n][y + 1] = k
        BY <4>1, <2>1, <2>2, <1>3, <1>6
      <4> QED  BY <4>1, <4>2, <1>13, <1>1 DEF Marked
    <3> QED  BY <3>1, <3>2
  <2>3. CASE m = c
    <3>1. y \in 1..Full
      BY <2>1, <2>3
    <3>2. CASE y < SizeParam
      <4>1. y \in 1..Num(g, c) /\ s2[c][y] = k
        BY <3>1, <3>2, <2>1, <2>3, <1>c, <1>7, NodeSizes
      <4> QED  BY <4>1, <1>13, <1>1 DEF Marked
    <3>3. CASE y = SizeParam
      <4>1. i \in 1..Num(g, n) /\ s2[n][i] = k
        BY <3>3, <2>1, <2>3, <1>c, <1>6 DEF up
      <4> QED  BY <4>1, <1>13, <1>1 DEF Marked
    <3>4. CASE y > SizeParam
      <4>1. y - SizeParam \in 1..(SizeParam - 1) /\ y - SizeParam \in Nat /\ SizeParam + (y - SizeParam) = y
        BY <3>1, <3>4, NodeSizes
      <4>2. y - SizeParam \in 1..Num(g, r) /\ s2[r][y - SizeParam] = k
        BY <4>1, <2>1, <2>3, <1>3, <1>8
      <4> QED  BY <4>1, <4>2, <1>13, <1>1, Zenon DEF Marked
    <3> QED  BY <3>1, <3>2, <3>3, <3>4, NodeSizes
  <2> QED  BY <2>1, <2>2, <2>3
<1>29. ASSUME NEW k \in Keys, Marked(g, s2, T, k) PROVE Marked(f, s, T, k)
  <2>1. PICK m \in T, y \in Nat : m \in Here(g) /\ y \in 1..Num(g, m) /\ s2[m][y] = k
    BY <1>29 DEF Marked
  <2>2. CASE m = n
    <3>1. CASE y < i
      <4>1. y \in 1..Num(f, n) /\ s[n][y] = k
        BY <2>1, <2>2, <3>1, <1>1, <1>3, <1>6, SMTT(30)
      <4> QED  BY <4>1, <1>1 DEF Marked
    <3>2. CASE y = i
      <4>1. SizeParam \in 1..Num(f, c) /\ s[c][SizeParam] = k /\ SizeParam \in Nat
        <5>1. SizeParam \in 1..Full /\ SizeParam \in Nat
          BY NodeSizes
        <5> QED  BY <5>1, <2>1, <2>2, <3>2, <1>c DEF up
      <4> QED  BY <4>1, <1>1 DEF Marked
    <3>3. CASE y > i
      <4>1. y - 1 \in 1..num /\ y - 1 \in Nat /\ ~(y < i) /\ y # i
        BY <2>1, <2>2, <3>3, <1>1, <1>6
      <4>2. s[n][y - 1] = k
        BY <4>1, <2>1, <2>2, <1>3
      <4> QED  BY <4>1, <4>2, <1>1, Zenon DEF Marked
    <3> QED  BY <3>1, <3>2, <3>3, <1>1
  <2>3. CASE m = c
    <3>1. y \in 1..Num(f, c) /\ s[c][y] = k
      <4>1. y \in 1..(SizeParam - 1) /\ s[c][y] = k
        BY <2>1, <2>3, <1>c, <1>7
      <4>2. y \in 1..Full
        BY <4>1, NodeSizes
      <4> QED  BY <4>1, <4>2
    <3> QED  BY <3>1, <1>1 DEF Marked
  <2>4. CASE m = r
    <3>1. SizeParam + y \in 1..Num(f, c) /\ s[c][SizeParam + y] = k /\ SizeParam + y \in Nat
      BY <2>1, <2>4, <1>3, <1>8, NodeSizes
    <3> QED  BY <3>1, <1>1, Zenon DEF Marked
  <2> QED  BY <2>1, <2>2, <2>3, <2>4
<1>30. KeysOf(g) = KeysOf(f)
  <2>1. \A k \in Keys : Marked(f, s, T, k) <=> Marked(g, s2, T, k)
    BY <1>28, <1>29
  <2> HIDE DEF T
  <2> QED  BY <2>1, <1>21, <1>26, <1>27, KeysKept
<1>31. /\ s2[c][0] = s[n][i - 1] /\ s2[c][Num(g, c) + 1] = up
       /\ s2[r][0] = up /\ s2[r][Num(g, r) + 1] = s[n][i]
  <2>1. /\ Num(g, r) + 1 = SizeParam /\ SizeParam + SizeParam = Full + 1 /\ SizeParam + 0 = SizeParam
        /\ s2[c] = s[c] /\ Num(g, c) + 1 = SizeParam
    BY <1>1, <1>3, <1>7, <1>8, NodeSizes
  <2>2. s2[r][0] = s[c][SizeParam + 0] /\ s2[r][SizeParam] = s[c][SizeParam + SizeParam]
    BY <1>3, NodeSizes
  <2> QED  BY <2>1, <2>2, <1>1 DEF up
<1>32. SplitDone(f, g, h2, s, s2, top, n, i, c, r)
  BY <1>5, <1>6, <1>7, <1>8, <1>10, <1>13, <1>26, <1>27, <1>30, <1>31, <1>s DEF SplitDone
<1> QED  BY <1>32 DEF h2, s2

\* Insert splits a full child and goes down to one of the halves, or finds its key
\* to be the one that moved up.
LEMMA InsertSplitStep ==
    ASSUME NEW h, NEW s, Good(node, root, op, h, s), InsertSplit
    PROVE  /\ TreeInv' /\ KeysOf(node') = KeysOf(node)
           /\ op' = Idle \/ (op'.do = op.do /\ op'.key = op.key)
           /\ op' = Idle => op.key \in KeysOf(node)
<1> DEFINE n == op.at
           c == node[n].child[Ge]
           r == NewNode
           up == node[c].keys[SizeParam]
           k == op.key
           d == IF up < k THEN r ELSE c
           h2 == SplitHeights(h, c, r)
           s2 == SplitMarks(s, n, Ge, c, r)
<1>1. /\ op.do = "insert" /\ ~Has(n, k) /\ ~node[n].leaf /\ HandleLeft /\ Num(node, c) = Full
      /\ node' = Split(c, r, n, Ge) /\ root' = root
      /\ IF up = k THEN op' = Idle ELSE op' = [op EXCEPT !.at = d]
  BY SMTT(30) DEF InsertSplit, Inserting, Leaf, Count, Num, Return, Descend
<1>2. /\ op \in InsertOp /\ n \in Here(node) /\ Between(node, s, n, k) /\ k \in Keys /\ Num(node, n) < Full
      /\ Num(node, n) \in Nat /\ k \in Nat
  <2>1. op \in InsertOp
    BY <1>1 DEF Good, OpTyped, Idle, InsertOp
  <2> QED  BY <2>1, <1>1, Handles, KeysAreNat DEF Good, OpFits, InsertOp
<1>3. /\ Ge \in Nat /\ Ge \in 1..(Num(node, n) + 1) /\ s[n][Ge - 1] < k /\ k < s[n][Ge]
  BY <1>1, <1>2, GeGap
<1>4. /\ Typed(node, h, s) /\ TreeFits(node, root, h, s) /\ root \in Nodes \cup {Nil} /\ Filled(node, root, op)
  BY DEF Good
<1> HIDE DEF n, c, r, up, k
<1>5. IsChild(node, h, s, root, n, Ge, c)
  BY <1>1, <1>2, <1>3, <1>4, TheChild DEF c
<1>6. r \in Nodes /\ r \notin Here(node)
  BY <1>1, NewIsFree DEF r
<1>7. SplitEdit(node, node', n, Ge, c, r)
  BY <1>1, <1>4, <1>5, <1>6, SplitIs
<1>8. SplitDone(node, node', h2, s, s2, root, n, Ge, c, r)
  BY <1>1, <1>4, <1>5, <1>6, <1>7, SplitFits
<1> HIDE DEF h2, s2
<1>9. /\ Typed(node', h2, s2) /\ TreeFits(node', root, h2, s2)
      /\ Here(node') = Here(node) \cup {r} /\ KeysOf(node') = KeysOf(node)
      /\ Num(node', n) = Num(node, n) + 1 /\ Num(node', c) = SizeParam - 1 /\ Num(node', r) = SizeParam - 1
      /\ \A m \in Nodes \ {n, c, r} : Num(node', m) = Num(node, m) /\ node'[m].leaf = node[m].leaf
      /\ s2[c][0] = s[n][Ge - 1] /\ s2[c][Num(node', c) + 1] = up
      /\ s2[r][0] = up /\ s2[r][Num(node', r) + 1] = s[n][Ge]
  BY <1>8 DEF SplitDone, up
<1>10. c \in Here(node) /\ c \in Nodes /\ n \in Nodes /\ c # n /\ n # r /\ c # r
  BY <1>2, <1>5, <1>6, Zenon DEF IsChild
<1>11. up \in Keys /\ up \in Nat /\ up \in KeysOf(node)
  <2>1. node[c].keys \in Seq(Keys) /\ Len(node[c].keys) = Full
    BY <1>1, <1>4, <1>10 DEF Typed, Forest, NodeType, Num
  <2>2. SizeParam \in 1..Len(node[c].keys) /\ SizeParam \in 1..Num(node, c)
    BY <2>1, <1>1, NodeSizes
  <2>3. up \in Keys
    BY <2>1, <2>2 DEF up
  <2> QED  BY <2>2, <2>3, <1>10, KeysAreNat DEF up, KeysOf
<1>12. ASSUME NEW m \in Here(node')
       PROVE  Num(node', m) <= Full /\ (m # root => Num(node', m) >= Empty) /\ ~(~node'[m].leaf /\ Num(node', m) = 0)
  <2>1. CASE m = n
    BY <2>1, <1>2, <1>4, <1>9, NodeSizes DEF Filled
  <2>2. CASE m = c \/ m = r
    <3>1. Num(node', m) = SizeParam - 1
      BY <2>2, <1>9
    <3> QED  BY <3>1, NodeSizes
  <2>3. CASE m \notin {n, c, r}
    <3>1. m \in Here(node) /\ m \in Nodes /\ Num(node', m) = Num(node, m) /\ node'[m].leaf = node[m].leaf
      BY <2>3, <1>9, <1>12 DEF Here
    <3>2. ~(~node[m].leaf /\ Num(node, m) = 0)
      BY <2>3, <3>1, <1>4 DEF Filled, Growing, n
    <3> QED  BY <3>1, <3>2, <1>4 DEF Filled
  <2> QED  BY <2>1, <2>2, <2>3
<1>13. Filled(node', root, op')
  BY <1>12 DEF Filled
<1>14. OpTyped(op') /\ OpFits(node', root, h2, s2, op')
  <2>1. CASE up = k
    <3>1. op' = Idle
      BY <2>1, <1>1
    <3> QED  BY <3>1 DEF OpTyped, OpFits, Idle
  <2>2. CASE up # k
    <3>1. op' = [op EXCEPT !.at = d] /\ d \in Nodes /\ d \in Here(node')
      BY <2>2, <1>1, <1>6, <1>9, <1>10
    <3>2. Between(node', s2, d, k) /\ Num(node', d) < Full
      <4>1. Num(node', d) = SizeParam - 1
        BY <1>9
      <4>2. SizeParam - 1 < Full
        BY NodeSizes
      <4>3. CASE up < k
        <5>1. d = r
          BY <4>3
        <5> QED  BY <5>1, <4>1, <4>2, <4>3, <1>3, <1>9 DEF Between
      <4>4. CASE ~(up < k)
        <5>1. d = c /\ k < up
          BY <4>4, <2>2, <1>2, <1>11 DEF k
        <5> QED  BY <5>1, <4>1, <4>2, <1>3, <1>9 DEF Between
      <4> QED  BY <4>3, <4>4
    <3> HIDE DEF d
    <3>3. op' \in InsertOp /\ op'.do = "insert" /\ op'.at = d /\ op'.key = k
      BY <3>1, <1>2 DEF InsertOp, k
    <3> QED  BY <3>1, <3>2, <3>3 DEF OpTyped, OpFits, InsertOp
  <2> QED  BY <2>1, <2>2
<1>15. Good(node', root', op', h2, s2)
  BY <1>1, <1>4, <1>9, <1>13, <1>14 DEF Good
<1>16. op' = Idle \/ (op'.do = op.do /\ op'.key = op.key)
  BY <1>1, <1>2 DEF InsertOp
<1>17. op' = Idle => op.key \in KeysOf(node)
  <2>1. CASE up = k
    BY <2>1, <1>11 DEF k
  <2>2. CASE up # k
    <3>1. op' \in InsertOp
      <4>1. d \in Nodes
        BY <1>6, <1>10
      <4> HIDE DEF d
      <4> QED  BY <4>1, <2>2, <1>1, <1>2 DEF InsertOp
    <3> QED  BY <3>1 DEF InsertOp, Idle
  <2> QED  BY <2>1, <2>2
<1> QED  BY <1>9, <1>15, <1>16, <1>17, SMTT(30) DEF TreeInv

-----------------------------------------------------------------------------
(* Two children l and r of n that are neighbours: their keys with the one    *)
(* between them, their children and their bounds, each in one row.           *)

Pair(f, h, s, top, n, i, l, r) == IsChild(f, h, s, top, n, i, l) /\ IsChild(f, h, s, top, n, i + 1, r)

Long(f, l, r) == Num(f, l) + 1 + Num(f, r)
Row(f, s, l, r) == [j \in Nat |-> IF j <= Num(f, l) THEN s[l][j] ELSE s[r][j - Num(f, l) - 1]]
RowKey(f, n, i, l, r, j) ==
    IF j <= Num(f, l) THEN f[l].keys[j]
    ELSE IF j = Num(f, l) + 1 THEN f[n].keys[i] ELSE f[r].keys[j - Num(f, l) - 1]
RowChild(f, l, r, j) ==
    IF j <= Num(f, l) + 1 THEN f[l].child[j] ELSE f[r].child[j - Num(f, l) - 1]

\* d is the child between two bounds of the row.
InRow(f, h, s, top, n, l, r, d, lower, upper) ==
    /\ d \in Here(f) /\ d \in Nodes \ {n, l, r} /\ d # top /\ (f[d].parent = l \/ f[d].parent = r)
    /\ h[l] = h[d] + 1 /\ s[d][0] = lower /\ s[d][Num(f, d) + 1] = upper

RowFits(f, h, s, top, n, i, l, r) ==
    /\ l # r /\ h[l] = h[r] /\ (f[l].leaf <=> f[r].leaf) /\ i \in 1..Num(f, n)
    /\ Rises(Row(f, s, l, r), Long(f, l, r))
    /\ Row(f, s, l, r)[0] = s[n][i - 1] /\ Row(f, s, l, r)[Num(f, l) + 1] = s[n][i]
    /\ Row(f, s, l, r)[Long(f, l, r) + 1] = s[n][i + 1]
    /\ \A j \in 1..Long(f, l, r) : RowKey(f, n, i, l, r, j) = Row(f, s, l, r)[j]
    /\ ~f[l].leaf => \A j \in 1..(Long(f, l, r) + 1) :
           InRow(f, h, s, top, n, l, r, RowChild(f, l, r, j), Row(f, s, l, r)[j - 1], Row(f, s, l, r)[j])

\* Two rising rows that meet make one.
LEMMA RisesJoined ==
    ASSUME NEW A \in Nat, NEW B \in Nat, NEW t, NEW t2, Rises(t, A), Rises(t2, B), t[A + 1] = t2[0],
           NEW S \in [Nat -> Nat], \A j \in Nat : S[j] = IF j <= A THEN t[j] ELSE t2[j - A - 1]
    PROVE  Rises(S, A + 1 + B)
<1>1. /\ \A x, y \in 0..(A + 1) : x < y => t[x] < t[y]
      /\ \A x, y \in 0..(B + 1) : x < y => t2[x] < t2[y]
      /\ \A x \in Nat : t[x] \in Nat /\ t2[x] \in Nat
  BY DEF Rises
<1>2. ASSUME NEW x \in 0..(A + 1 + B + 1), NEW y \in 0..(A + 1 + B + 1), x < y PROVE S[x] < S[y]
  <2>1. x \in Nat /\ y \in Nat
    BY <1>2
  <2>2. CASE y <= A
    <3>1. x \in 0..(A + 1) /\ y \in 0..(A + 1) /\ x <= A
      BY <2>1, <2>2, <1>2
    <3> QED  BY <3>1, <2>1, <2>2, <1>1, <1>2
  <2>3. CASE x <= A /\ y > A
    <3>1. x \in 0..(A + 1) /\ A + 1 \in 0..(A + 1) /\ x < A + 1 /\ A + 1 \in Nat
      BY <2>1, <2>3, <1>2
    <3>2. t[x] < t2[0]
      BY <3>1, <1>1
    <3>3. y - A - 1 \in Nat /\ y - A - 1 \in 0..(B + 1) /\ 0 \in 0..(B + 1)
      BY <2>1, <2>3, <1>2
    <3>4. (0 < y - A - 1 => t2[0] < t2[y - A - 1]) /\ (y - A - 1 = 0 \/ 0 < y - A - 1)
      BY <3>3, <1>1
    <3>5. S[x] = t[x] /\ S[y] = t2[y - A - 1]
      BY <2>1, <2>3
    <3>6. t2[0] \in Nat /\ t2[y - A - 1] \in Nat /\ t[x] \in Nat
      BY <3>3, <2>1, <1>1
    <3> QED  BY <3>2, <3>4, <3>5, <3>6
  <2>4. CASE x > A
    <3>1. /\ y - A - 1 \in 0..(B + 1) /\ x - A - 1 \in 0..(B + 1) /\ x - A - 1 < y - A - 1
          /\ ~(x <= A) /\ ~(y <= A)
      BY <2>1, <2>4, <1>2
    <3> QED  BY <3>1, <2>1, <1>1, Zenon
  <2> QED  BY <2>1, <2>2, <2>3, <2>4
<1> QED  BY <1>2 DEF Rises

\* Two neighbours, with the key between them, make one rising row.
LEMMA PairIs ==
    ASSUME NEW f, NEW h, NEW s, NEW top, Typed(f, h, s), TreeFits(f, top, h, s),
           NEW n, NEW i, NEW l, NEW r, Pair(f, h, s, top, n, i, l, r)
    PROVE  RowFits(f, h, s, top, n, i, l, r)
<1> DEFINE A == Num(f, l)
           B == Num(f, r)
           S == Row(f, s, l, r)
           len == Long(f, l, r)
<1>1. /\ n \in Here(f) /\ n \in Nodes /\ Num(f, n) \in Nat /\ i \in Nat /\ i \in 1..Num(f, n)
      /\ l \in Here(f) /\ l \in Nodes /\ A \in Nat /\ r \in Here(f) /\ r \in Nodes /\ B \in Nat
      /\ h[n] \in Nat /\ h[l] \in Nat /\ h[r] \in Nat /\ h[n] = h[l] + 1 /\ h[n] = h[r] + 1
      /\ s[l][0] = s[n][i - 1] /\ s[l][A + 1] = s[n][i] /\ s[r][0] = s[n][i] /\ s[r][B + 1] = s[n][i + 1]
      /\ NodeFits(f, h, s, n) /\ NodeFits(f, h, s, l) /\ NodeFits(f, h, s, r)
      /\ Rises(s[n], Num(f, n)) /\ Rises(s[l], A) /\ Rises(s[r], B)
  <2>1. i + 1 - 1 = i /\ (i + 1 \in 1..(Num(f, n) + 1) => i \in 1..Num(f, n))
    BY DEF Pair, IsChild
  <2> QED  BY <2>1 DEF Pair, IsChild
<1>2. l # r
  <2>1. i # i + 1
    BY <1>1
  <2> QED  BY <2>1, ChildOnce DEF Pair
<1>3. h[l] = h[r] /\ (f[l].leaf <=> f[r].leaf)
  BY <1>1, SMTT(60) DEF NodeFits
<1>4. /\ len = A + 1 + B /\ len \in Nat /\ S \in [Nat -> Nat]
      /\ \A j \in Nat : S[j] = IF j <= A THEN s[l][j] ELSE s[r][j - A - 1]
  <2>1. \A j \in Nat : s[l][j] \in Nat /\ s[r][j] \in Nat
    BY <1>1, Zenon DEF Rises
  <2>2. \A j \in Nat : ~(j <= A) => j - A - 1 \in Nat
    BY <1>1
  <2> QED  BY <2>1, <2>2, <1>1 DEF Row, Long
<1> HIDE DEF A, B, S, len
<1>5. Rises(S, len)
  <2> DEFINE t == s[l]
             t2 == s[r]
  <2>1. /\ A \in Nat /\ B \in Nat /\ Rises(t, A) /\ Rises(t2, B) /\ t[A + 1] = t2[0] /\ S \in [Nat -> Nat]
        /\ \A j \in Nat : S[j] = IF j <= A THEN t[j] ELSE t2[j - A - 1]
    BY <1>1, <1>4
  <2> HIDE DEF t, t2
  <2>2. Rises(S, A + 1 + B)
    BY <2>1, RisesJoined, ZenonT(60)
  <2> QED  BY <2>2, <1>4
<1>6. S[0] = s[n][i - 1] /\ S[A + 1] = s[n][i] /\ S[len + 1] = s[n][i + 1]
  <2>1. 0 <= A /\ ~(A + 1 <= A) /\ A + 1 - A - 1 = 0 /\ ~(len + 1 <= A) /\ len + 1 - A - 1 = B + 1
        /\ A + 1 \in Nat /\ len + 1 \in Nat
    BY <1>1, <1>4
  <2> QED  BY <2>1, <1>1, <1>4
<1>7. ASSUME NEW j \in 1..len PROVE RowKey(f, n, i, l, r, j) = S[j]
  <2>1. j \in Nat /\ (j <= A => j \in 1..A) /\ (j > A + 1 => j - A - 1 \in 1..B)
        /\ (j <= A \/ j = A + 1 \/ j > A + 1)
    BY <1>1, <1>4, <1>7
  <2>2. CASE j <= A
    BY <2>1, <2>2, <1>1, <1>4, Zenon DEF RowKey, NodeFits, A
  <2>3. CASE j = A + 1
    <3>1. RowKey(f, n, i, l, r, j) = f[n].keys[i]
      BY <2>1, <2>3, <1>1 DEF RowKey, A
    <3> QED  BY <3>1, <2>3, <1>1, <1>6 DEF NodeFits
  <2>4. CASE j > A + 1
    <3>1. ~(j <= A) /\ j # A + 1
      BY <2>1, <2>4, <1>1
    <3>2. RowKey(f, n, i, l, r, j) = f[r].keys[j - A - 1]
      BY <3>1 DEF RowKey, A
    <3>3. s[r][j - A - 1] = f[r].keys[j - A - 1]
      BY <2>1, <2>4, <1>1, Zenon DEF NodeFits, B
    <3> QED  BY <3>1, <3>2, <3>3, <2>1, <1>4
  <2> QED  BY <2>1, <2>2, <2>3, <2>4
<1>8. ASSUME ~f[l].leaf, NEW j \in 1..(len + 1)
      PROVE  InRow(f, h, s, top, n, l, r, RowChild(f, l, r, j), S[j - 1], S[j])
  <2> DEFINE d == RowChild(f, l, r, j)
  <2>1. j \in Nat /\ j - 1 \in Nat
    BY <1>8, <1>4
  <2>2. ASSUME d \in Here(f), d \in Nodes, d # top, f[d].parent = l \/ f[d].parent = r, h[l] = h[d] + 1, h[d] \in Nat
        PROVE  d \notin {n, l, r}
    <3> HIDE DEF d
    <3> QED  BY <2>2, <1>1, <1>3
  <2>3. CASE j <= A + 1
    <3>1. j \in 1..(A + 1) /\ d = f[l].child[j]
      BY <2>3, <1>1, <1>8 DEF RowChild, A
    <3>2. IsChild(f, h, s, top, l, j, d)
      <4> HIDE DEF d
      <4> QED  BY <3>1, <1>1, <1>8, TheChild DEF A
    <3>3. /\ d \in Here(f) /\ d \in Nodes /\ f[d].parent = l /\ h[l] = h[d] + 1 /\ d # top /\ h[d] \in Nat
          /\ s[d][0] = s[l][j - 1] /\ s[d][Num(f, d) + 1] = s[l][j]
      BY <3>2 DEF IsChild
    <3>4. S[j - 1] = s[l][j - 1] /\ S[j] = s[l][j]
      <4>1. j - 1 <= A
        BY <3>1, <1>1
      <4>2. S[j - 1] = s[l][j - 1]
        BY <4>1, <2>1, <1>4
      <4>3. CASE j <= A
        BY <4>2, <4>3, <2>1, <1>4
      <4>4. CASE j = A + 1
        BY <4>2, <4>4, <1>1, <1>6
      <4> QED  BY <4>3, <4>4, <3>1, <1>1
    <3> QED  BY <2>2, <3>3, <3>4 DEF InRow
  <2>4. CASE j > A + 1
    <3>1. j - A - 1 \in 1..(B + 1) /\ ~(j <= A + 1) /\ d = f[r].child[j - A - 1]
      BY <2>1, <2>4, <1>1, <1>4, <1>8 DEF RowChild, A
    <3>2. IsChild(f, h, s, top, r, j - A - 1, d)
      <4>1. ~f[r].leaf
        BY <1>3, <1>8
      <4> DEFINE y == j - A - 1
      <4>2. y \in 1..(Num(f, r) + 1) /\ d = f[r].child[y]
        BY <3>1 DEF B
      <4> HIDE DEF d, y
      <4>3. IsChild(f, h, s, top, r, y, d)
        BY <4>1, <4>2, <1>1, TheChild
      <4> QED  BY <4>3 DEF y
    <3>3. /\ d \in Here(f) /\ d \in Nodes /\ f[d].parent = r /\ h[r] = h[d] + 1 /\ d # top /\ h[d] \in Nat
          /\ s[d][0] = s[r][j - A - 1 - 1] /\ s[d][Num(f, d) + 1] = s[r][j - A - 1]
      BY <3>2 DEF IsChild
    <3>4. S[j - 1] = s[r][j - A - 1 - 1] /\ S[j] = s[r][j - A - 1]
      <4>1. ~(j <= A) /\ ~(j - 1 <= A) /\ j - 1 - A - 1 = j - A - 1 - 1
        BY <2>1, <2>4, <1>1
      <4> QED  BY <4>1, <2>1, <1>4
    <3> QED  BY <2>2, <3>3, <3>4, <1>3 DEF InRow
  <2> QED  BY <2>1, <2>3, <2>4, <1>1
<1> QED  BY <1>1, <1>2, <1>3, <1>5, <1>6, <1>7, <1>8 DEF RowFits, A, S, len

\* Node m of g holds the part of the row behind its first a keys.
Piece(f, g, n, i, l, r, m, a) ==
    /\ a + Num(g, m) <= Long(f, l, r)
    /\ g[m].leaf = f[l].leaf
    /\ \A j \in 1..Num(g, m) : g[m].keys[j] = RowKey(f, n, i, l, r, a + j)
    /\ Len(g[m].child) = IF f[l].leaf THEN 0 ELSE Num(g, m) + 1
    /\ ~f[l].leaf => \A j \in 1..(Num(g, m) + 1) :
           g[m].child[j] = RowChild(f, l, r, a + j) /\ g[RowChild(f, l, r, a + j)].parent = m

Labelled(g, s2, S, m, a) == \A j \in 0..(Num(g, m) + 1) : s2[m][j] = S[a + j]

\* A node that holds a piece of the row is as it should be.
LEMMA PieceFits ==
    ASSUME NEW f, NEW h, NEW s, NEW top, Typed(f, h, s), TreeFits(f, top, h, s),
           NEW n, NEW i, NEW l, NEW r, Pair(f, h, s, top, n, i, l, r),
           NEW g, NEW s2, g \in Forest, Elsewhere(f, g, h, h, s, s2, {n, l, r}),
           NEW m \in Nodes, NEW a \in Nat, Piece(f, g, n, i, l, r, m, a),
           Labelled(g, s2, Row(f, s, l, r), m, a), h[m] = h[l]
    PROVE  NodeFits(g, h, s2, m)
<1> DEFINE S == Row(f, s, l, r)
           len == Long(f, l, r)
           num == Num(g, m)
<1>1. /\ RowFits(f, h, s, top, n, i, l, r) /\ Num(f, l) \in Nat /\ Num(f, r) \in Nat /\ len \in Nat
      /\ num \in Nat /\ a + num <= len /\ NodeFits(f, h, s, l)
  <2>1. RowFits(f, h, s, top, n, i, l, r)
    BY PairIs
  <2>2. Num(f, l) \in Nat /\ Num(f, r) \in Nat /\ NodeFits(f, h, s, l)
    BY DEF Pair, IsChild
  <2> QED  BY <2>1, <2>2, NumIsNat DEF Piece, Long
<1>2. /\ Rises(S, len) /\ \A j \in 1..len : RowKey(f, n, i, l, r, j) = S[j]
      /\ ~f[l].leaf => \A j \in 1..(len + 1) : InRow(f, h, s, top, n, l, r, RowChild(f, l, r, j), S[j - 1], S[j])
  BY <1>1 DEF RowFits
<1>3. \A j \in 0..(num + 1) : s2[m][j] = S[a + j]
  BY DEF Labelled
<1> HIDE DEF S, len
<1>4. \A j \in 1..num : g[m].keys[j] = S[a + j]
  <2>1. \A j \in 1..num : g[m].keys[j] = RowKey(f, n, i, l, r, a + j)
    BY DEF Piece
  <2>2. \A j \in 1..num : a + j \in 1..len
    BY <1>1
  <2> QED  BY <2>1, <2>2, <1>2
<1>5. g[m].leaf <=> h[m] = 0
  BY <1>1 DEF Piece, NodeFits
<1>6. Len(g[m].child) = IF g[m].leaf THEN 0 ELSE num + 1
  BY DEF Piece
<1>7. ASSUME NEW j \in 1..Len(g[m].child) PROVE Hooked(g, h, s2, g[m].child[j], m, S[a + j - 1], S[a + j])
  <2>1. ~f[l].leaf /\ j \in 1..(num + 1) /\ a + j \in 1..(len + 1)
    BY <1>1, <1>6, <1>7 DEF Piece
  <2> DEFINE d == RowChild(f, l, r, a + j)
  <2>2. g[m].child[j] = d /\ g[d].parent = m
    BY <2>1 DEF Piece
  <2>3. InRow(f, h, s, top, n, l, r, d, S[a + j - 1], S[a + j])
    BY <2>1, <1>2
  <2> HIDE DEF d
  <2>4. /\ d \in Here(f) /\ d \in Nodes \ {n, l, r} /\ h[l] = h[d] + 1
        /\ s[d][0] = S[a + j - 1] /\ s[d][Num(f, d) + 1] = S[a + j]
    BY <2>3 DEF InRow
  <2>5. d \in Here(g) /\ s2[d] = s[d] /\ Num(g, d) = Num(f, d)
    BY <2>4 DEF Elsewhere, Num
  <2> QED  BY <2>2, <2>4, <2>5 DEF Hooked
<1>8. IsPart(g, h, s2, m, S, a, len)
  BY <1>1, <1>3, <1>4, <1>5, <1>6, <1>7 DEF IsPart
<1> QED  BY <1>1, <1>2, <1>8, PartFits

\* What hangs from l or r is in the row.
LEMMA RowIndex ==
    ASSUME NEW f, NEW h, NEW s, NEW top, Typed(f, h, s), TreeFits(f, top, h, s),
           NEW n, NEW i, NEW l, NEW r, Pair(f, h, s, top, n, i, l, r),
           NEW m \in Here(f), m # top, f[m].parent = l \/ f[m].parent = r
    PROVE  ~f[l].leaf /\ \E j \in Nat : j \in 1..(Long(f, l, r) + 1) /\ RowChild(f, l, r, j) = m
<1> DEFINE A == Num(f, l)
<1>1. /\ A \in Nat /\ Num(f, r) \in Nat /\ (f[l].leaf <=> f[r].leaf)
  <2>1. RowFits(f, h, s, top, n, i, l, r)
    BY PairIs
  <2> QED  BY <2>1 DEF RowFits, Pair, IsChild
<1>2. PICK x \in Nat : IsChild(f, h, s, top, f[m].parent, x, m)
  BY ChildSomewhere
<1>3. CASE f[m].parent = l
  <2>1. ~f[l].leaf /\ x \in 1..(A + 1) /\ f[l].child[x] = m
    BY <1>2, <1>3 DEF IsChild
  <2>2. x \in 1..(Long(f, l, r) + 1) /\ x <= A + 1
    BY <2>1, <1>1 DEF Long
  <2>3. RowChild(f, l, r, x) = m
    BY <2>1, <2>2 DEF RowChild
  <2> QED  BY <2>1, <2>2, <2>3
<1>4. CASE f[m].parent = r
  <2>1. ~f[r].leaf /\ x \in 1..(Num(f, r) + 1) /\ f[r].child[x] = m
    BY <1>2, <1>4 DEF IsChild
  <2> DEFINE y == x + A + 1
  <2>2. y \in Nat /\ y \in 1..(Long(f, l, r) + 1) /\ ~(y <= A + 1) /\ y - A - 1 = x
    BY <2>1, <1>1 DEF Long
  <2> HIDE DEF y
  <2>3. RowChild(f, l, r, y) = m
    BY <2>1, <2>2 DEF RowChild
  <2> QED  BY <2>1, <2>2, <2>3, <1>1
<1> QED  BY <1>3, <1>4

\* The keys of n, l and r.
Besides(f, s, n, i, k) == \E y \in Nat : y \in 1..Num(f, n) /\ y # i /\ s[n][y] = k
OnRow(S, len, k) == \E j \in Nat : j \in 1..len /\ S[j] = k

\* The keys of n, l and r are those of n but one, and those of the row.
LEMMA RowMarked ==
    ASSUME NEW f, NEW h, NEW s, NEW top, Typed(f, h, s), TreeFits(f, top, h, s),
           NEW n, NEW i, NEW l, NEW r, Pair(f, h, s, top, n, i, l, r), NEW k
    PROVE  Marked(f, s, {n, l, r}, k) <=> Besides(f, s, n, i, k) \/ OnRow(Row(f, s, l, r), Long(f, l, r), k)
<1> DEFINE A == Num(f, l)
           S == Row(f, s, l, r)
           len == Long(f, l, r)
<1>1. /\ A \in Nat /\ Num(f, r) \in Nat /\ len = A + 1 + Num(f, r) /\ len \in Nat
      /\ n \in Here(f) /\ l \in Here(f) /\ r \in Here(f) /\ Num(f, n) \in Nat /\ i \in Nat
      /\ i \in 1..Num(f, n) /\ s[n][i] = S[A + 1]
      /\ \A j \in Nat : S[j] = IF j <= A THEN s[l][j] ELSE s[r][j - A - 1]
  <2>1. RowFits(f, h, s, top, n, i, l, r)
    BY PairIs
  <2> QED  BY <2>1, SMTT(30) DEF RowFits, Pair, IsChild, Long, Row
<1> HIDE DEF A, S, len
<1>2. ASSUME Marked(f, s, {n, l, r}, k) PROVE Besides(f, s, n, i, k) \/ OnRow(S, len, k)
  <2>1. PICK m \in {n, l, r}, y \in Nat : m \in Here(f) /\ y \in 1..Num(f, m) /\ s[m][y] = k
    BY <1>2 DEF Marked
  <2>2. CASE m = n /\ y # i
    BY <2>1, <2>2 DEF Besides
  <2>3. CASE m = n /\ y = i
    <3>1. A + 1 \in Nat /\ A + 1 \in 1..len /\ S[A + 1] = k
      BY <2>1, <2>3, <1>1
    <3> QED  BY <3>1 DEF OnRow
  <2>4. CASE m = l
    <3>1. y \in 1..len /\ y <= A
      BY <2>1, <2>4, <1>1 DEF A
    <3>2. S[y] = k
      BY <3>1, <2>1, <2>4, <1>1
    <3> QED  BY <3>1, <3>2 DEF OnRow
  <2>5. CASE m = r
    <3> DEFINE j == y + A + 1
    <3>1. j \in Nat /\ j \in 1..len /\ ~(j <= A) /\ j - A - 1 = y
      BY <2>1, <2>5, <1>1
    <3> HIDE DEF j
    <3>2. S[j] = k
      BY <3>1, <2>1, <2>5, <1>1
    <3> QED  BY <3>1, <3>2 DEF OnRow
  <2> QED  BY <2>1, <2>2, <2>3, <2>4, <2>5
<1>3. ASSUME Besides(f, s, n, i, k) PROVE Marked(f, s, {n, l, r}, k)
  BY <1>1, <1>3 DEF Besides, Marked
<1>4. ASSUME OnRow(S, len, k) PROVE Marked(f, s, {n, l, r}, k)
  <2>1. PICK j \in Nat : j \in 1..len /\ S[j] = k
    BY <1>4 DEF OnRow
  <2>2. CASE j <= A
    <3>1. j \in 1..Num(f, l) /\ s[l][j] = k
      BY <2>1, <2>2, <1>1 DEF A
    <3> QED  BY <3>1, <1>1 DEF Marked
  <2>3. CASE j = A + 1
    BY <2>1, <2>3, <1>1 DEF Marked
  <2>4. CASE j > A + 1
    <3>1. j - A - 1 \in Nat /\ j - A - 1 \in 1..Num(f, r) /\ ~(j <= A)
      BY <2>1, <2>4, <1>1
    <3>2. s[r][j - A - 1] = k
      BY <3>1, <2>1, <1>1
    <3> QED  BY <3>1, <3>2, <1>1 DEF Marked
  <2> QED  BY <2>1, <2>2, <2>3, <2>4, <1>1
<1> QED  BY <1>2, <1>3, <1>4 DEF S, len

\* The other nodes but those that changed between l and r.
OthersKept(f, g, n, l, r) == \A m \in Nodes \ {n, l, r} :
    /\ g[m].leaf = f[m].leaf /\ g[m].keys = f[m].keys /\ g[m].child = f[m].child
    /\ \/ g[m] = f[m]
       \/ /\ m \in Here(f) /\ (f[m].parent = l \/ f[m].parent = r) /\ m \in Here(g)
          /\ (g[m].parent = l \/ g[m].parent = r)

\* g is f with the row of l and r cut behind its first a keys instead.
Recut(f, g, n, i, l, r, a) ==
    /\ g \in Forest
    /\ g[n].leaf = f[n].leaf /\ g[n].parent = f[n].parent /\ g[n].child = f[n].child
    /\ Num(g, n) = Num(f, n)
    /\ \A j \in 1..Num(f, n) : g[n].keys[j] = IF j = i THEN RowKey(f, n, i, l, r, a + 1) ELSE f[n].keys[j]
    /\ g[l].parent = f[l].parent /\ g[r].parent = f[r].parent
    /\ Num(g, l) = a /\ a + 1 + Num(g, r) = Long(f, l, r)
    /\ Piece(f, g, n, i, l, r, l, 0) /\ Piece(f, g, n, i, l, r, r, a + 1)
    /\ OthersKept(f, g, n, l, r)

RecutMarks(s, n, i, l, r, S, a) ==
    [s EXCEPT ![n] = [j \in Nat |-> IF j = i THEN S[a + 1] ELSE s[n][j]],
              ![l] = S,
              ![r] = [j \in Nat |-> S[a + 1 + j]]]

RecutDone(f, g, h, s, s2, top, n, i, l, r, S, a) ==
    /\ Typed(g, h, s2) /\ TreeFits(g, top, h, s2) /\ Here(g) = Here(f) /\ KeysOf(g) = KeysOf(f)
    /\ s2[l][0] = s[n][i - 1] /\ s2[l][Num(g, l) + 1] = S[a + 1]
    /\ s2[r][0] = S[a + 1] /\ s2[r][Num(g, r) + 1] = s[n][i + 1]

\* A rising row with one bound moved between its neighbours rises.
LEMMA RisesChanged ==
    ASSUME NEW num \in Nat, NEW t, Rises(t, num), NEW i \in 1..num, NEW e \in Nat,
           t[i - 1] < e, e < t[i + 1],
           NEW t2 \in [Nat -> Nat], \A j \in Nat : t2[j] = IF j = i THEN e ELSE t[j]
    PROVE  Rises(t2, num)
<1>1. /\ \A x, y \in 0..(num + 1) : x < y => t[x] < t[y]
      /\ \A x \in Nat : t[x] \in Nat
      /\ i \in Nat
  BY DEF Rises
<1>2. \A x, y \in 0..(num + 1) : x <= y => t[x] <= t[y]
  <2> SUFFICES ASSUME NEW x \in 0..(num + 1), NEW y \in 0..(num + 1), x <= y PROVE t[x] <= t[y]
    OBVIOUS
  <2>1. t[x] \in Nat /\ t[y] \in Nat /\ (x = y \/ x < y)
    BY <1>1
  <2> QED  BY <2>1, <1>1
<1>3. ASSUME NEW x \in 0..(num + 1), NEW y \in 0..(num + 1), x < y PROVE t2[x] < t2[y]
  <2>1. x \in Nat /\ y \in Nat
    BY <1>3
  <2>2. CASE x = i
    <3>1. i + 1 \in 0..(num + 1) /\ i + 1 <= y /\ y # i /\ i + 1 \in Nat
      BY <2>1, <2>2, <1>1, <1>3
    <3>2. t[i + 1] <= t[y] /\ t[i + 1] \in Nat /\ t[y] \in Nat
      BY <3>1, <2>1, <1>1, <1>2
    <3> QED  BY <3>1, <3>2, <2>1, <2>2
  <2>3. CASE y = i
    <3>1. i - 1 \in 0..(num + 1) /\ x <= i - 1 /\ x # i /\ i - 1 \in Nat
      BY <2>1, <2>3, <1>1, <1>3
    <3>2. t[x] <= t[i - 1] /\ t[i - 1] \in Nat /\ t[x] \in Nat
      BY <3>1, <2>1, <1>1, <1>2
    <3> QED  BY <3>1, <3>2, <2>1, <2>3
  <2>4. CASE x # i /\ y # i
    BY <2>1, <2>4, <1>1, <1>3
  <2> QED  BY <2>2, <2>3, <2>4
<1> QED  BY <1>3 DEF Rises

\* The children of n but l and r.
LEMMA OtherChild ==
    ASSUME NEW f, NEW h, NEW s, NEW top, Typed(f, h, s), TreeFits(f, top, h, s),
           NEW n, NEW i, NEW l, NEW r, Pair(f, h, s, top, n, i, l, r),
           NEW g, NEW s2, Elsewhere(f, g, h, h, s, s2, {n, l, r}), OthersKept(f, g, n, l, r),
           NEW x \in 1..(Num(f, n) + 1), x # i, x # i + 1
    PROVE  /\ Hooked(g, h, s2, f[n].child[x], n, s[n][x - 1], s[n][x])
           /\ f[n].child[x] \notin {n, l, r} /\ x \in Nat
<1> DEFINE d == f[n].child[x]
<1>1. IsChild(f, h, s, top, n, x, d)
  <2>1. n \in Here(f) /\ ~f[n].leaf
    BY DEF Pair, IsChild
  <2> QED  BY <2>1, TheChild
<1>2. d # l /\ d # r
  BY <1>1, ChildOnce DEF Pair
<1>3. /\ d \in Here(f) /\ d \in Nodes /\ d # n /\ f[d].parent = n /\ h[n] = h[d] + 1 /\ x \in Nat
      /\ s[d][0] = s[n][x - 1] /\ s[d][Num(f, d) + 1] = s[n][x]
  BY <1>1 DEF IsChild
<1> HIDE DEF d
<1>4. n # l /\ n # r
  BY DEF Pair, IsChild
<1>5. d \in Nodes \ {n, l, r}
  BY <1>2, <1>3
<1>6. d \in Here(g) /\ s2[d] = s[d] /\ Num(g, d) = Num(f, d)
  BY <1>3, <1>5 DEF Elsewhere, Num
<1>7. g[d].parent = n
  BY <1>3, <1>4, <1>5 DEF OthersKept
<1>8. Hooked(g, h, s2, d, n, s[n][x - 1], s[n][x])
  BY <1>3, <1>6, <1>7 DEF Hooked
<1> QED  BY <1>3, <1>5, <1>8 DEF d

\* A row that is cut elsewhere leaves a tree with the same keys.
LEMMA RecutFits ==
    ASSUME NEW f, NEW h, NEW s, NEW top, Typed(f, h, s), TreeFits(f, top, h, s),
           NEW n, NEW i, NEW l, NEW r, Pair(f, h, s, top, n, i, l, r),
           NEW g, NEW a \in Nat, Recut(f, g, n, i, l, r, a)
    PROVE  RecutDone(f, g, h, s, RecutMarks(s, n, i, l, r, Row(f, s, l, r), a), top, n, i, l, r, Row(f, s, l, r), a)
<1> DEFINE S == Row(f, s, l, r)
           len == Long(f, l, r)
           s2 == RecutMarks(s, n, i, l, r, S, a)
           num == Num(f, n)
           T == {n, l, r}
<1>1. /\ n \in Here(f) /\ n \in Nodes /\ n # Nil /\ ~f[n].leaf /\ num \in Nat /\ Len(f[n].child) = num + 1
      /\ l \in Here(f) /\ l \in Nodes /\ l # Nil /\ f[l].parent = n /\ h[n] = h[l] + 1 /\ l # n /\ l # top
      /\ r \in Here(f) /\ r \in Nodes /\ r # Nil /\ f[r].parent = n /\ h[n] = h[r] + 1 /\ r # n /\ r # top
      /\ h[n] \in Nat /\ h[l] \in Nat /\ h[r] \in Nat
      /\ i \in Nat /\ i + 1 \in 1..(num + 1) /\ f[n].child[i] = l /\ f[n].child[i + 1] = r
      /\ NodeFits(f, h, s, n) /\ Rises(s[n], num)
  BY DEF Pair, IsChild
<1>2. /\ RowFits(f, h, s, top, n, i, l, r) /\ l # r /\ i \in 1..num /\ Rises(S, len) /\ S \in [Nat -> Nat]
      /\ S[0] = s[n][i - 1] /\ S[len + 1] = s[n][i + 1]
      /\ \A j \in 1..len : RowKey(f, n, i, l, r, j) = S[j]
      /\ len \in Nat
  <2>1. RowFits(f, h, s, top, n, i, l, r)
    BY PairIs
  <2>2. Num(f, l) \in Nat /\ Num(f, r) \in Nat
    BY DEF Pair, IsChild
  <2> QED  BY <2>1, <2>2 DEF RowFits, Rises, Long
<1>3. /\ g \in Forest
      /\ g[n].leaf = f[n].leaf /\ g[n].parent = f[n].parent /\ g[n].child = f[n].child /\ Num(g, n) = num
      /\ \A j \in 1..num : g[n].keys[j] = IF j = i THEN RowKey(f, n, i, l, r, a + 1) ELSE f[n].keys[j]
      /\ g[l].parent = n /\ g[r].parent = n /\ Num(g, l) = a /\ a + 1 + Num(g, r) = len
      /\ Piece(f, g, n, i, l, r, l, 0) /\ Piece(f, g, n, i, l, r, r, a + 1) /\ OthersKept(f, g, n, l, r)
  BY <1>1 DEF Recut
<1>4. /\ Num(g, l) \in Nat /\ Num(g, r) \in Nat /\ a + 1 \in 1..len /\ a + 1 \in Nat
      /\ RowKey(f, n, i, l, r, a + 1) = S[a + 1] /\ S[a + 1] \in Nat
  <2>1. Num(g, r) \in Nat /\ Num(g, l) \in Nat
    BY <1>1, <1>3, NumIsNat
  <2> QED  BY <2>1, <1>2, <1>3
<1>5. s[n][i - 1] < S[a + 1] /\ S[a + 1] < s[n][i + 1]
  <2>1. 0 \in 0..(len + 1) /\ a + 1 \in 0..(len + 1) /\ len + 1 \in 0..(len + 1) /\ 0 < a + 1 /\ a + 1 < len + 1
    BY <1>2, <1>4
  <2>2. S[0] < S[a + 1] /\ S[a + 1] < S[len + 1]
    BY <2>1, <1>2 DEF Rises
  <2> QED  BY <2>2, <1>2
<1>6. /\ s \in Marks /\ h \in Heights /\ f \in Forest /\ \A j \in Nat : s[n][j] \in Nat
  BY <1>1, Zenon DEF Typed, Marks
<1> HIDE DEF S, len
<1>7. /\ s2 \in Marks /\ \A m \in Nodes \ T : s2[m] = s[m]
      /\ \A j \in Nat : s2[n][j] = IF j = i THEN S[a + 1] ELSE s[n][j]
      /\ s2[l] = S
      /\ \A j \in Nat : s2[r][j] = S[a + 1 + j]
  <2>1. \A j \in Nat : (IF j = i THEN S[a + 1] ELSE s[n][j]) \in Nat
    BY <1>4, <1>6
  <2>2. \A j \in Nat : a + 1 + j \in Nat /\ S[a + 1 + j] \in Nat
    BY <1>2
  <2> QED  BY <2>1, <2>2, <1>1, <1>2, <1>6, Zenon DEF Marks, RecutMarks
<1> HIDE DEF s2, num
<1>8. Here(g) = Here(f)
  <2>1. n \in Here(g)
    <3>1. Len(g[n].child) # Len(<<>>)
      BY <1>1, <1>3
    <3> QED  BY <3>1, <1>1, FreedIs DEF Here
  <2>2. l \in Here(g) /\ r \in Here(g)
    BY <1>1, <1>3, FreedIs, Zenon DEF Here
  <2>3. \A m \in Nodes \ T : m \in Here(g) <=> m \in Here(f)
    BY <1>3 DEF OthersKept, Here
  <2>4. Here(g) \subseteq Nodes /\ Here(f) \subseteq Nodes
    BY DEF Here
  <2>5. \A m \in Nodes : m \in Here(g) <=> m \in Here(f)
    BY <2>1, <2>2, <2>3, <1>1, Zenon
  <2> QED  BY <2>4, <2>5
<1>9. Elsewhere(f, g, h, h, s, s2, T)
  <2> SUFFICES ASSUME NEW m \in Nodes \ T
               PROVE  /\ g[m].leaf = f[m].leaf /\ g[m].keys = f[m].keys /\ g[m].child = f[m].child
                      /\ h[m] = h[m] /\ s2[m] = s[m]
                      /\ m \in Here(g) <=> m \in Here(f)
                      /\ m \in Here(f) => IF f[m].parent \in T THEN g[m].parent \in T ELSE g[m].parent = f[m].parent
    BY DEF Elsewhere
  <2>1. g[m].leaf = f[m].leaf /\ g[m].keys = f[m].keys /\ g[m].child = f[m].child
    BY <1>3 DEF OthersKept
  <2>2. m \in Here(f) => IF f[m].parent \in T THEN g[m].parent \in T ELSE g[m].parent = f[m].parent
    BY <1>3 DEF OthersKept
  <2> QED  BY <2>1, <2>2, <1>7, <1>8
<1>10. NodeFits(g, h, s2, l)
  <2>1. Labelled(g, s2, S, l, 0)
    BY <1>3, <1>7 DEF Labelled
  <2> QED  BY <2>1, <1>1, <1>3, <1>9, PieceFits DEF S
<1>11. NodeFits(g, h, s2, r)
  <2>1. Labelled(g, s2, S, r, a + 1)
    BY <1>3, <1>4, <1>7 DEF Labelled
  <2>2. h[r] = h[l]
    BY <1>1
  <2> QED  BY <2>1, <2>2, <1>1, <1>3, <1>4, <1>9, PieceFits DEF S
<1>12. Rises(s2[n], num)
  <2> DEFINE t == s[n]
             t2 == s2[n]
             e == S[a + 1]
  <2>1. /\ num \in Nat /\ Rises(t, num) /\ i \in 1..num /\ e \in Nat /\ t[i - 1] < e /\ e < t[i + 1]
        /\ t2 \in [Nat -> Nat] /\ \A j \in Nat : t2[j] = IF j = i THEN e ELSE t[j]
    BY <1>1, <1>2, <1>4, <1>5, <1>7, Zenon DEF Marks
  <2> HIDE DEF t, t2, e
  <2>2. Rises(t2, num)
    BY <2>1, RisesChanged
  <2> QED  BY <2>2 DEF t2
<1>13. /\ s2[l][0] = s[n][i - 1] /\ s2[l][Num(g, l) + 1] = S[a + 1]
       /\ s2[r][0] = S[a + 1] /\ s2[r][Num(g, r) + 1] = s[n][i + 1]
  <2>1. a + 1 + 0 = a + 1 /\ a + 1 + (Num(g, r) + 1) = len + 1 /\ Num(g, r) + 1 \in Nat /\ 0 \in Nat
    BY <1>3, <1>4
  <2>2. s2[r][0] = S[a + 1 + 0] /\ s2[r][Num(g, r) + 1] = S[a + 1 + (Num(g, r) + 1)]
    BY <2>1, <1>7
  <2> QED  BY <2>1, <2>2, <1>2, <1>3, <1>7
<1>14. NodeFits(g, h, s2, n)
  <2>1. \A j \in 0..(num + 1) : s2[n][j] = s2[n][0 + j]
    BY <1>1
  <2>2. ASSUME NEW j \in 1..num PROVE g[n].keys[j] = s2[n][0 + j]
    <3>1. j \in Nat /\ 0 + j = j /\ f[n].keys[j] = s[n][j]
      BY <2>2, <1>1 DEF NodeFits, num
    <3> QED  BY <3>1, <2>2, <1>3, <1>4, <1>7
  <2>3. g[n].leaf <=> h[n] = 0
    BY <1>1, <1>3 DEF NodeFits
  <2>4. Len(g[n].child) = IF g[n].leaf THEN 0 ELSE num + 1
    BY <1>1, <1>3
  <2>5. ASSUME NEW j \in 1..Len(g[n].child) PROVE Hooked(g, h, s2, g[n].child[j], n, s2[n][0 + j - 1], s2[n][0 + j])
    <3>1. j \in Nat /\ j \in 1..(num + 1) /\ 0 + j = j /\ 0 + j - 1 = j - 1 /\ j - 1 \in Nat /\ g[n].child[j] = f[n].child[j]
      BY <2>5, <1>1, <1>3, SMTT(30)
    <3>2. CASE j = i
      <4>a. j - 1 # i /\ j - 1 = i - 1
        BY <3>1, <3>2
      <4>b. s2[n][j] = S[a + 1] /\ s2[n][j - 1] = s[n][j - 1]
        BY <4>a, <3>1, <3>2, <1>7, Zenon
      <4>1. g[n].child[j] = l /\ s2[n][j] = S[a + 1] /\ s2[n][j - 1] = s[n][i - 1]
        BY <4>a, <4>b, <3>1, <3>2, <1>1, SMTT(30)
      <4> QED  BY <4>1, <3>1, <1>1, <1>3, <1>8, <1>13, Zenon DEF Hooked
    <3>3. CASE j = i + 1
      <4>1. j - 1 = i /\ j # i
        BY <3>3, <1>1
      <4>2. g[n].child[j] = r /\ s2[n][j - 1] = S[a + 1] /\ s2[n][j] = s[n][i + 1]
        BY <4>1, <3>1, <3>3, <1>1, <1>7
      <4> QED  BY <4>2, <3>1, <1>1, <1>3, <1>8, <1>13 DEF Hooked
    <3>4. CASE j # i /\ j # i + 1
      <4>1. Hooked(g, h, s2, f[n].child[j], n, s[n][j - 1], s[n][j])
        <5>1. OthersKept(f, g, n, l, r) /\ j \in 1..(Num(f, n) + 1)
          BY <3>1, <1>3 DEF num
        <5> QED  BY <5>1, <3>4, <1>9, OtherChild, Zenon
      <4>2. j - 1 # i
        BY <3>1, <3>4, <1>1
      <4>3. s2[n][j - 1] = s[n][j - 1] /\ s2[n][j] = s[n][j]
        BY <4>2, <3>1, <3>4, <1>7
      <4> QED  BY <4>1, <4>3, <3>1
    <3> QED  BY <3>2, <3>3, <3>4
  <2>6. 0 + Num(g, n) <= num
    BY <1>1, <1>3
  <2>7. IsPart(g, h, s2, n, s2[n], 0, num)
    BY <2>1, <2>2, <2>3, <2>4, <2>5, <2>6, <1>3 DEF IsPart
  <2> QED  BY <2>7, <1>1, <1>3, <1>12, PartFits
<1>15. T \subseteq Nodes /\ top \in Here(f) /\ top \in Nodes /\ f[top].parent = Nil
  BY <1>1, HandlesIn, Zenon DEF TreeFits
<1>16. s2[n][0] = s[n][0] /\ s2[n][Num(g, n) + 1] = s[n][num + 1]
  <2>1. 0 # i /\ num + 1 # i /\ num + 1 \in Nat
    BY <1>1, <1>2
  <2> QED  BY <2>1, <1>3, <1>7
<1>17. StillHangs(f, g, h, h, s, s2, T)
  <2> SUFFICES ASSUME NEW m \in T, m \in Here(f), f[m].parent \in Nodes \ T
               PROVE  /\ m \in Here(g) /\ g[m].parent = f[m].parent /\ h[m] = h[m]
                      /\ s2[m][0] = s[m][0] /\ s2[m][Num(g, m) + 1] = s[m][Num(f, m) + 1]
    BY DEF StillHangs
  <2>1. m = n
    BY <1>1
  <2> QED  BY <2>1, <1>1, <1>3, <1>8, <1>16 DEF num
<1>18. ASSUME NEW m \in Here(g), m # top, g[m].parent \in T
       PROVE  \E x \in 1..Len(g[g[m].parent].child) : g[g[m].parent].child[x] = m
  <2>1. CASE m = l
    <3>a. i \in 1..(num + 1)
      BY <1>1, <1>2
    <3>1. i \in 1..Len(g[n].child) /\ g[n].child[i] = l
      BY <3>a, <1>1, <1>3
    <3> QED  BY <3>1, <2>1, <1>3
  <2>2. CASE m = r
    <3>1. i + 1 \in 1..Len(g[n].child) /\ g[n].child[i + 1] = r
      BY <1>1, <1>3
    <3> QED  BY <3>1, <2>2, <1>3
  <2>3. CASE m # l /\ m # r
    <3>1. m \in Here(f) /\ m \in Nodes
      BY <1>8, <1>18 DEF Here
    <3>2. m # n
      <4> SUFFICES ASSUME m = n PROVE FALSE
        OBVIOUS
      <4>1. f[n].parent = l \/ f[n].parent = r \/ f[n].parent = n
        BY <1>3, <1>18
      <4>2. PICK x \in Nat : IsChild(f, h, s, top, f[n].parent, x, n)
        BY <3>1, <1>18, ChildSomewhere
      <4>3. h[f[n].parent] = h[n] + 1
        BY <4>2 DEF IsChild
      <4> DEFINE p == f[n].parent
      <4>4. h[p] = h[n] + 1 /\ (p = l \/ p = r \/ p = n)
        BY <4>1, <4>3
      <4> HIDE DEF p
      <4> QED  BY <4>4, <1>1, SMTT(30)
    <3>3. CASE f[m].parent = l \/ f[m].parent = r
      <4>1. PICK j \in Nat : ~f[l].leaf /\ j \in 1..(len + 1) /\ RowChild(f, l, r, j) = m
        BY <3>1, <3>3, <1>18, RowIndex DEF len
      <4>2. CASE j <= a + 1
        <5>1. j \in 1..(Num(g, l) + 1) /\ 0 + j = j
          BY <4>1, <4>2, <1>3
        <5>2. g[l].child[j] = RowChild(f, l, r, 0 + j) /\ g[RowChild(f, l, r, 0 + j)].parent = l
              /\ Len(g[l].child) = Num(g, l) + 1
          BY <5>1, <4>1, <1>3 DEF Piece
        <5> QED  BY <5>1, <5>2, <4>1
      <4>3. CASE j > a + 1
        <5> DEFINE x == j - a - 1
        <5>1. x \in 1..(Num(g, r) + 1) /\ a + 1 + x = j
          BY <4>1, <4>3, <1>3, <1>4
        <5> HIDE DEF x
        <5>2. g[r].child[x] = RowChild(f, l, r, a + 1 + x) /\ g[RowChild(f, l, r, a + 1 + x)].parent = r
              /\ Len(g[r].child) = Num(g, r) + 1
          BY <5>1, <4>1, <1>3 DEF Piece
        <5> QED  BY <5>1, <5>2, <4>1
      <4> QED  BY <4>2, <4>3, <4>1
    <3>4. CASE ~(f[m].parent = l \/ f[m].parent = r)
      <4>1. g[m] = f[m]
        BY <3>1, <3>2, <3>4, <2>3, <1>3 DEF OthersKept
      <4>2. f[m].parent = n
        BY <4>1, <3>4, <1>18
      <4>3. PICK x \in Nat : IsChild(f, h, s, top, n, x, m)
        BY <3>1, <4>2, <1>18, ChildSomewhere
      <4>4. x \in 1..Len(g[n].child) /\ g[n].child[x] = m
        BY <4>3, <1>1, <1>3 DEF IsChild, num
      <4> QED  BY <4>1, <4>2, <4>4
    <3> QED  BY <3>3, <3>4
  <2> QED  BY <2>1, <2>2, <2>3
<1>19. Rebuild(f, g, top, top, h, s2, T)
  <2>1. \A m \in T : m \in Here(g) => NodeFits(g, h, s2, m)
    BY <1>10, <1>11, <1>14
  <2>2. \A m \in Here(g) : m # top => h[m] < h[top]
    BY <1>8 DEF TreeFits, Grounded
  <2>3. \A m \in Here(g) : m # top /\ g[m].parent \in T =>
           /\ g[m].parent \in Here(g)
           /\ \E x \in 1..Len(g[g[m].parent].child) : g[g[m].parent].child[x] = m
    BY <1>1, <1>8, <1>18, Zenon
  <2>4. \A m \in T : m \in Here(g) /\ m # top =>
           g[m].parent \in T \/ (m \in Here(f) /\ m # top /\ g[m].parent = f[m].parent)
    BY <1>1, <1>3, Zenon
  <2>5. top \in Here(g) /\ g[top].parent = Nil /\ s2[top][0] = 0 /\ s2[top][Num(g, top) + 1] = Top
    <3>1. s[top][0] = 0 /\ s[top][Num(f, top) + 1] = Top /\ top \in Here(g)
      BY <1>8, <1>15 DEF TreeFits
    <3>2. CASE top = n
      BY <3>1, <3>2, <1>3, <1>15, <1>16 DEF num
    <3>3. CASE top # n
      <4>1. top \in Nodes \ T
        BY <3>3, <1>1, <1>15
      <4>2. g[top] = f[top]
        BY <4>1, <1>1, <1>3, <1>15 DEF OthersKept
      <4> QED  BY <3>1, <4>1, <4>2, <1>7, <1>15, Zenon DEF Num
    <3> QED  BY <3>2, <3>3
  <2> HIDE DEF T
  <2> QED  BY <2>1, <2>2, <2>3, <2>4, <2>5 DEF Rebuild
<1>20. Typed(g, h, s2)
  BY <1>3, <1>6, <1>7 DEF Typed
<1>21. TreeFits(g, top, h, s2)
  <2> HIDE DEF T
  <2> QED  BY <1>15, <1>9, <1>17, <1>19, <1>20, Rebuilt
<1>22. ASSUME NEW k \in Keys, Marked(f, s, T, k) PROVE Marked(g, s2, T, k)
  <2>1. Besides(f, s, n, i, k) \/ OnRow(S, len, k)
    BY <1>22, RowMarked DEF S, len
  <2>2. CASE Besides(f, s, n, i, k)
    <3>1. PICK y \in Nat : y \in 1..num /\ y # i /\ s[n][y] = k
      BY <2>2 DEF Besides, num
    <3>2. y \in 1..Num(g, n) /\ s2[n][y] = k
      BY <3>1, <1>3, <1>7
    <3> QED  BY <3>2, <1>1, <1>8, Zenon DEF Marked
  <2>3. CASE OnRow(S, len, k)
    <3>1. PICK j \in Nat : j \in 1..len /\ S[j] = k
      BY <2>3 DEF OnRow
    <3>2. CASE j <= a
      <4>1. j \in 1..Num(g, l) /\ s2[l][j] = k
        BY <3>1, <3>2, <1>3, <1>7
      <4> QED  BY <4>1, <1>1, <1>8, Zenon DEF Marked
    <3>3. CASE j = a + 1
      <4>1. i \in 1..Num(g, n) /\ s2[n][i] = k
        BY <3>1, <3>3, <1>1, <1>2, <1>3, <1>7, Zenon
      <4> QED  BY <4>1, <1>1, <1>8, Zenon DEF Marked
    <3>4. CASE j > a + 1
      <4> DEFINE y == j - a - 1
      <4>1. y \in Nat /\ y \in 1..Num(g, r) /\ a + 1 + y = j
        BY <3>1, <3>4, <1>3, <1>4
      <4> HIDE DEF y
      <4>2. s2[r][y] = k
        BY <4>1, <3>1, <1>7
      <4> QED  BY <4>1, <4>2, <1>1, <1>8, Zenon DEF Marked
    <3> QED  BY <3>1, <3>2, <3>3, <3>4
  <2> QED  BY <2>1, <2>2, <2>3
<1>23. ASSUME NEW k \in Keys, Marked(g, s2, T, k) PROVE Marked(f, s, T, k)
  <2>1. PICK m \in T, y \in Nat : m \in Here(g) /\ y \in 1..Num(g, m) /\ s2[m][y] = k
    BY <1>23 DEF Marked
  <2>2. Besides(f, s, n, i, k) \/ OnRow(S, len, k)
    <3>1. CASE m = n /\ y # i
      <4>1. y \in 1..num /\ s[n][y] = k
        BY <3>1, <2>1, <1>3, <1>7
      <4> QED  BY <4>1, <3>1 DEF Besides, num
    <3>2. CASE m = n /\ y = i
      <4>1. S[a + 1] = k
        BY <3>2, <2>1, <1>7
      <4> QED  BY <4>1, <1>4 DEF OnRow
    <3>3. CASE m = l
      <4>1. y \in 1..a /\ s2[l][y] = k
        BY <3>3, <2>1, <1>3, Zenon
      <4>2. y \in 1..len
        BY <4>1, <1>2, <1>3, <1>4
      <4> QED  BY <4>1, <4>2, <1>7, Zenon DEF OnRow
    <3>4. CASE m = r
      <4>1. y \in 1..Num(g, r) /\ s2[r][y] = k
        BY <3>4, <2>1, Zenon
      <4>2. y \in Nat /\ a + 1 + y \in 1..len /\ a + 1 + y \in Nat
        BY <4>1, <1>2, <1>3, <1>4
      <4>3. S[a + 1 + y] = k
        BY <4>1, <4>2, <1>7, Zenon
      <4> QED  BY <4>2, <4>3, Zenon DEF OnRow
    <3> QED  BY <2>1, <3>1, <3>2, <3>3, <3>4
  <2> QED  BY <2>2, RowMarked DEF S, len
<1>24. KeysOf(g) = KeysOf(f)
  <2>1. \A k \in Keys : Marked(f, s, T, k) <=> Marked(g, s2, T, k)
    BY <1>22, <1>23
  <2> HIDE DEF T
  <2> QED  BY <2>1, <1>9, <1>20, <1>21, KeysKept
<1>25. RecutDone(f, g, h, s, s2, top, n, i, l, r, S, a)
  BY <1>8, <1>13, <1>20, <1>21, <1>24 DEF RecutDone
<1> QED  BY <1>25 DEF S, s2

\* The children of the row are different nodes, none of them n, l or r.
LEMMA RowOnce ==
    ASSUME NEW f, NEW h, NEW s, NEW top, Typed(f, h, s), TreeFits(f, top, h, s),
           NEW n, NEW i, NEW l, NEW r, Pair(f, h, s, top, n, i, l, r), ~f[l].leaf,
           NEW j \in 1..(Long(f, l, r) + 1)
    PROVE  /\ \A y \in 1..(Long(f, l, r) + 1) : RowChild(f, l, r, j) = RowChild(f, l, r, y) => j = y
           /\ f[RowChild(f, l, r, j)].parent = IF j <= Num(f, l) + 1 THEN l ELSE r
           /\ RowChild(f, l, r, j) \in Here(f) /\ RowChild(f, l, r, j) \in Nodes \ {n, l, r}
<1> DEFINE S == Row(f, s, l, r)
           len == Long(f, l, r)
           A == Num(f, l)
           d(y) == RowChild(f, l, r, y)
<1>1. /\ RowFits(f, h, s, top, n, i, l, r) /\ A \in Nat /\ Num(f, r) \in Nat /\ len = A + 1 + Num(f, r) /\ len \in Nat
      /\ (f[l].leaf <=> f[r].leaf) /\ l \in Here(f) /\ r \in Here(f)
  <2>1. RowFits(f, h, s, top, n, i, l, r)
    BY PairIs
  <2>2. /\ A \in Nat /\ Num(f, r) \in Nat /\ l \in Here(f) /\ r \in Here(f)
    BY DEF Pair, IsChild
  <2>3. len = A + 1 + Num(f, r) /\ (f[l].leaf <=> f[r].leaf)
    BY <2>1 DEF RowFits, Long
  <2> HIDE DEF A, len
  <2> QED  BY <2>1, <2>2, <2>3
<1>2. /\ Rises(S, len)
      /\ \A y \in 1..(len + 1) : InRow(f, h, s, top, n, l, r, d(y), S[y - 1], S[y])
  BY <1>1 DEF RowFits
<1>3. \A y \in 1..(len + 1) : /\ d(y) \in Here(f) /\ d(y) \in Nodes \ {n, l, r}
                              /\ s[d(y)][Num(f, d(y)) + 1] = S[y]
  BY <1>2 DEF InRow
<1> HIDE DEF S, len, d
<1>4. ASSUME NEW y \in 1..(len + 1), d(j) = d(y) PROVE j = y
  <2>1. j \in 1..(len + 1)
    BY DEF len
  <2>2. S[j] = S[y]
    BY <2>1, <1>3, <1>4
  <2>3. /\ j \in Nat /\ y \in Nat /\ j \in 0..(len + 1) /\ y \in 0..(len + 1)
        /\ S[j] \in Nat /\ S[y] \in Nat
    BY <2>1, <1>1, <1>2, <1>4 DEF Rises
  <2>4. (j < y => S[j] < S[y]) /\ (y < j => S[y] < S[j])
    BY <2>3, <1>2 DEF Rises
  <2> QED  BY <2>2, <2>3, <2>4
<1>5. f[d(j)].parent = IF j <= A + 1 THEN l ELSE r
  <2>1. CASE j <= A + 1
    <3>1. j \in 1..(A + 1) /\ d(j) = f[l].child[j]
      BY <2>1, <1>1 DEF RowChild, d
    <3>2. IsChild(f, h, s, top, l, j, d(j))
      BY <3>1, <1>1, TheChild
    <3> QED  BY <3>2, <2>1 DEF IsChild
  <2>2. CASE ~(j <= A + 1)
    <3> DEFINE y == j - A - 1
    <3>1. y \in 1..(Num(f, r) + 1) /\ d(j) = f[r].child[y]
      BY <2>2, <1>1 DEF RowChild, d, len
    <3> HIDE DEF y
    <3>2. IsChild(f, h, s, top, r, y, d(j))
      BY <3>1, <1>1, TheChild
    <3> QED  BY <3>2, <2>2 DEF IsChild
  <2> QED  BY <2>1, <2>2
<1>6. j \in 1..(len + 1)
  BY DEF len
<1> QED  BY <1>3, <1>4, <1>5, <1>6 DEF d, len

\* The row cut behind its first a keys, child z going to node to.
CutEdit(f, g, n, i, l, r, a, z, to) ==
    /\ g \in Forest
    /\ \/ a = Num(f, l) + 1 /\ z = a + 1 /\ to = l /\ a + 1 <= Long(f, l, r)
       \/ Num(f, l) = a + 1 /\ z = a + 2 /\ to = r
    /\ g[n].leaf = f[n].leaf /\ g[n].parent = f[n].parent /\ g[n].child = f[n].child
    /\ Num(g, n) = Num(f, n)
    /\ \A j \in 1..Num(f, n) : g[n].keys[j] = IF j = i THEN RowKey(f, n, i, l, r, a + 1) ELSE f[n].keys[j]
    /\ g[l].leaf = f[l].leaf /\ g[l].parent = f[l].parent /\ g[r].leaf = f[r].leaf /\ g[r].parent = f[r].parent
    /\ Num(g, l) = a /\ a + 1 + Num(g, r) = Long(f, l, r)
    /\ \A j \in 1..Num(g, l) : g[l].keys[j] = RowKey(f, n, i, l, r, j)
    /\ \A j \in 1..Num(g, r) : g[r].keys[j] = RowKey(f, n, i, l, r, a + 1 + j)
    /\ f[l].leaf => Len(g[l].child) = 0 /\ Len(g[r].child) = 0
    /\ ~f[l].leaf => /\ Len(g[l].child) = Num(g, l) + 1 /\ Len(g[r].child) = Num(g, r) + 1
                     /\ \A j \in 1..(Num(g, l) + 1) : g[l].child[j] = RowChild(f, l, r, j)
                     /\ \A j \in 1..(Num(g, r) + 1) : g[r].child[j] = RowChild(f, l, r, a + 1 + j)
    /\ \A m \in Nodes \ {n, l, r} :
         /\ g[m].leaf = f[m].leaf /\ g[m].keys = f[m].keys /\ g[m].child = f[m].child
         /\ (~f[l].leaf /\ m = RowChild(f, l, r, z) => g[m].parent = to)
         /\ (~(~f[l].leaf /\ m = RowChild(f, l, r, z)) => g[m] = f[m])

\* Moving one key and one child from a neighbour cuts the row elsewhere.
LEMMA CutIs ==
    ASSUME NEW f, NEW h, NEW s, NEW top, Typed(f, h, s), TreeFits(f, top, h, s),
           NEW n, NEW i, NEW l, NEW r, Pair(f, h, s, top, n, i, l, r),
           NEW g, NEW a \in Nat, NEW z, NEW to, CutEdit(f, g, n, i, l, r, a, z, to)
    PROVE  Recut(f, g, n, i, l, r, a)
<1> DEFINE len == Long(f, l, r)
           A == Num(f, l)
           d(y) == RowChild(f, l, r, y)
<1>1. /\ A \in Nat /\ Num(f, r) \in Nat /\ len = A + 1 + Num(f, r) /\ len \in Nat /\ (f[l].leaf <=> f[r].leaf)
      /\ l \in Nodes /\ r \in Nodes /\ l # Nil /\ r # Nil
      /\ f \in Forest
  <2>1. RowFits(f, h, s, top, n, i, l, r)
    BY PairIs
  <2> QED  BY <2>1, SMTT(30) DEF RowFits, Pair, IsChild, Long, Typed
<1>2. /\ g \in Forest /\ Num(g, l) = a /\ a + 1 + Num(g, r) = len /\ Num(g, r) \in Nat
      /\ \/ a = A + 1 /\ z = a + 1 /\ to = l
         \/ A = a + 1 /\ z = a + 2 /\ to = r
  <2>1. g \in Forest
    BY DEF CutEdit
  <2>2. Num(g, r) \in Nat
    BY <2>1, <1>1, NumIsNat
  <2> QED  BY <2>2 DEF CutEdit
<1>3. z \in 1..(len + 1) /\ z \in Nat
  BY <1>1, <1>2
<1>4. /\ \A m \in Nodes \ {n, l, r} :
           /\ g[m].leaf = f[m].leaf /\ g[m].keys = f[m].keys /\ g[m].child = f[m].child
           /\ (~f[l].leaf /\ m = d(z) => g[m].parent = to)
           /\ (~(~f[l].leaf /\ m = d(z)) => g[m] = f[m])
  BY DEF CutEdit
<1>5. ASSUME ~f[l].leaf, NEW j \in 1..(len + 1)
      PROVE  /\ \A y \in 1..(len + 1) : d(j) = d(y) => j = y
             /\ f[d(j)].parent = IF j <= A + 1 THEN l ELSE r
             /\ d(j) \in Here(f) /\ d(j) \in Nodes \ {n, l, r}
  BY <1>5, RowOnce
<1> HIDE DEF len, A, d
<1>6. ASSUME ~f[l].leaf, NEW j \in 1..(len + 1)
      PROVE  g[d(j)].parent = IF j <= a + 1 THEN l ELSE r
  <2>1. CASE j = z
    <3>1. g[d(j)].parent = to
      BY <2>1, <1>4, <1>5, <1>6
    <3> QED  BY <3>1, <2>1, <1>2
  <2>2. CASE j # z
    <3>1. d(j) # d(z)
      BY <2>2, <1>3, <1>5, <1>6
    <3>2. g[d(j)] = f[d(j)]
      BY <3>1, <1>4, <1>5, <1>6
    <3>3. f[d(j)].parent = IF j <= A + 1 THEN l ELSE r
      BY <1>5, <1>6
    <3>4. j <= A + 1 <=> j <= a + 1
      BY <2>2, <1>1, <1>2, <1>6
    <3> QED  BY <3>2, <3>3, <3>4
  <2> QED  BY <2>1, <2>2
<1>7. Piece(f, g, n, i, l, r, l, 0)
  <2>1. ~f[l].leaf => \A j \in 1..(Num(g, l) + 1) : g[l].child[j] = d(0 + j) /\ g[d(0 + j)].parent = l
    <3> SUFFICES ASSUME ~f[l].leaf, NEW j \in 1..(Num(g, l) + 1) PROVE g[l].child[j] = d(0 + j) /\ g[d(0 + j)].parent = l
      OBVIOUS
    <3>1. j \in 1..(len + 1) /\ j <= a + 1 /\ 0 + j = j
      BY <1>1, <1>2
    <3>2. g[l].child[j] = d(j)
      BY DEF CutEdit, d
    <3> QED  BY <3>1, <3>2, <1>6
  <2>2. 0 + Num(g, l) <= len
    BY <1>1, <1>2
  <2>3. \A j \in 1..Num(g, l) : g[l].keys[j] = RowKey(f, n, i, l, r, 0 + j)
    <3>1. \A j \in 1..Num(g, l) : 0 + j = j
      BY <1>2
    <3> QED  BY <3>1 DEF CutEdit
  <2> QED  BY <2>1, <2>2, <2>3 DEF Piece, CutEdit, d, len
<1>8. Piece(f, g, n, i, l, r, r, a + 1)
  <2>1. ~f[l].leaf => \A j \in 1..(Num(g, r) + 1) : g[r].child[j] = d(a + 1 + j) /\ g[d(a + 1 + j)].parent = r
    <3> SUFFICES ASSUME ~f[l].leaf, NEW j \in 1..(Num(g, r) + 1) PROVE g[r].child[j] = d(a + 1 + j) /\ g[d(a + 1 + j)].parent = r
      OBVIOUS
    <3>1. a + 1 + j \in 1..(len + 1) /\ ~(a + 1 + j <= a + 1)
      BY <1>1, <1>2
    <3>2. g[r].child[j] = d(a + 1 + j)
      BY DEF CutEdit, d
    <3> QED  BY <3>1, <3>2, <1>6
  <2>2. a + 1 + Num(g, r) <= len
    BY <1>1, <1>2
  <2>3. g[r].leaf = f[l].leaf
    <3>1. f[l].leaf \in BOOLEAN /\ f[r].leaf \in BOOLEAN
      BY <1>1 DEF Forest, NodeType
    <3> QED  BY <3>1, <1>1 DEF CutEdit
  <2> QED  BY <2>1, <2>2, <2>3 DEF Piece, CutEdit, d, len
<1>9. OthersKept(f, g, n, l, r)
  <2> SUFFICES ASSUME NEW m \in Nodes \ {n, l, r}
               PROVE  /\ g[m].leaf = f[m].leaf /\ g[m].keys = f[m].keys /\ g[m].child = f[m].child
                      /\ \/ g[m] = f[m]
                         \/ /\ m \in Here(f) /\ (f[m].parent = l \/ f[m].parent = r) /\ m \in Here(g)
                            /\ (g[m].parent = l \/ g[m].parent = r)
    BY DEF OthersKept
  <2>1. CASE ~f[l].leaf /\ m = d(z)
    <3>1. m \in Here(f) /\ (f[m].parent = l \/ f[m].parent = r) /\ (g[m].parent = l \/ g[m].parent = r)
      BY <2>1, <1>2, <1>3, <1>4, <1>5
    <3>2. m \in Here(g)
      BY <3>1, <1>1, FreedIs DEF Here
    <3> QED  BY <3>1, <3>2, <1>4
  <2>2. CASE ~(~f[l].leaf /\ m = d(z))
    BY <2>2, <1>4
  <2> QED  BY <2>1, <2>2
<1> QED  BY <1>7, <1>8, <1>9 DEF Recut, CutEdit

FromRight(f, n, i, c, r) ==
    LET moved == Part(f[r].child, 1, 1) IN
    Adopt([f EXCEPT
                ![c].keys  = Append(@, f[n].keys[i]),
                ![c].child = @ \o moved,
                ![n].keys[i] = f[r].keys[1],
                ![r].keys  = Tail(@),
                ![r].child = Part(@, 2, Len(@))], ToSet(moved), c)

FromLeft(f, n, i, l, c) ==
    LET moved == Part(f[l].child, Num(f, l) + 1, Num(f, l) + 1) IN
    Adopt([f EXCEPT
                ![c].keys  = <<f[n].keys[i]>> \o @,
                ![c].child = moved \o @,
                ![n].keys[i] = Last(f[l].keys),
                ![l].keys  = Front(@),
                ![l].child = Part(@, 1, Num(f, l))], ToSet(moved), c)

PairTyped(f, h, s, top, n, i, l, r) ==
    /\ f \in Forest /\ n \in Nodes /\ l \in Nodes /\ r \in Nodes /\ n # l /\ n # r /\ l # r
    /\ f[n] \in NodeType /\ f[l] \in NodeType /\ f[r] \in NodeType
    /\ f[n].keys \in Seq(Keys) /\ f[l].keys \in Seq(Keys) /\ f[r].keys \in Seq(Keys)
    /\ f[l].child \in Seq(Nodes) /\ f[r].child \in Seq(Nodes)
    /\ Len(f[n].keys) = Num(f, n) /\ Len(f[l].keys) = Num(f, l) /\ Len(f[r].keys) = Num(f, r)
    /\ Num(f, n) \in Nat /\ Num(f, l) \in Nat /\ Num(f, r) \in Nat /\ i \in 1..Num(f, n)
    /\ (f[l].leaf <=> f[r].leaf)
    /\ f[l].leaf => f[l].child = <<>> /\ f[r].child = <<>>
    /\ ~f[l].leaf => Len(f[l].child) = Num(f, l) + 1 /\ Len(f[r].child) = Num(f, r) + 1
    /\ ~f[l].leaf => \A j \in 1..(Long(f, l, r) + 1) : RowChild(f, l, r, j) \in Nodes \ {n, l, r}

\* PairTyped says what is known of the types of a pair.
LEMMA PairIsTyped ==
    ASSUME NEW f, NEW h, NEW s, NEW top, Typed(f, h, s), TreeFits(f, top, h, s),
           NEW n, NEW i, NEW l, NEW r, Pair(f, h, s, top, n, i, l, r)
    PROVE  PairTyped(f, h, s, top, n, i, l, r)
<1>1. RowFits(f, h, s, top, n, i, l, r)
  BY PairIs
<1>2. /\ f \in Forest /\ n \in Nodes /\ l \in Nodes /\ r \in Nodes /\ n # l /\ n # r /\ l # r
      /\ i \in 1..Num(f, n) /\ (f[l].leaf <=> f[r].leaf)
      /\ Num(f, n) \in Nat /\ Num(f, l) \in Nat /\ Num(f, r) \in Nat
      /\ NodeFits(f, h, s, l) /\ NodeFits(f, h, s, r)
  BY <1>1 DEF RowFits, Pair, IsChild, Typed
<1>3. f[n] \in NodeType /\ f[l] \in NodeType /\ f[r] \in NodeType
  BY <1>2 DEF Forest
<1>4. /\ f[n].keys \in Seq(Keys) /\ f[l].keys \in Seq(Keys) /\ f[r].keys \in Seq(Keys)
      /\ f[l].child \in Seq(Nodes) /\ f[r].child \in Seq(Nodes)
      /\ Len(f[n].keys) = Num(f, n) /\ Len(f[l].keys) = Num(f, l) /\ Len(f[r].keys) = Num(f, r)
  BY <1>3 DEF NodeType, Num
<1>5. /\ Len(f[l].child) = (IF f[l].leaf THEN 0 ELSE Num(f, l) + 1)
      /\ Len(f[r].child) = (IF f[r].leaf THEN 0 ELSE Num(f, r) + 1)
  BY <1>2 DEF NodeFits
<1>6. f[l].leaf => f[l].child = <<>> /\ f[r].child = <<>>
  BY <1>2, <1>4, <1>5
<1>7. ~f[l].leaf => Len(f[l].child) = Num(f, l) + 1 /\ Len(f[r].child) = Num(f, r) + 1
  BY <1>2, <1>5
<1>8. ~f[l].leaf => \A j \in 1..(Long(f, l, r) + 1) : RowChild(f, l, r, j) \in Nodes \ {n, l, r}
  BY RowOnce
<1> QED  BY <1>2, <1>3, <1>4, <1>6, <1>7, <1>8 DEF PairTyped

\* New keys and children for three nodes, and those in kids hung below one of them.
Edited(f, n, l, r, nk, lk, lc, rk, rc) ==
    [f EXCEPT ![n].keys = nk, ![l].keys = lk, ![l].child = lc, ![r].keys = rk, ![r].child = rc]

\* Edited, node by node.
LEMMA EditedIs ==
    ASSUME NEW f \in Forest, NEW n \in Nodes, NEW l \in Nodes, NEW r \in Nodes, n # l, n # r, l # r,
           NEW nk \in Seq(Keys), NEW lk \in Seq(Keys), NEW rk \in Seq(Keys),
           NEW lc \in Seq(Nodes), NEW rc \in Seq(Nodes)
    PROVE  LET e == Edited(f, n, l, r, nk, lk, lc, rk, rc) IN
           /\ e \in Forest
           /\ e[n].leaf = f[n].leaf /\ e[n].parent = f[n].parent /\ e[n].keys = nk /\ e[n].child = f[n].child
           /\ e[l].leaf = f[l].leaf /\ e[l].parent = f[l].parent /\ e[l].keys = lk /\ e[l].child = lc
           /\ e[r].leaf = f[r].leaf /\ e[r].parent = f[r].parent /\ e[r].keys = rk /\ e[r].child = rc
           /\ \A m \in Nodes \ {n, l, r} : e[m] = f[m]
<1> DEFINE a == [f EXCEPT ![n].keys = nk]
           b == [a EXCEPT ![l].keys = lk]
           c == [b EXCEPT ![l].child = lc]
           d == [c EXCEPT ![r].keys = rk]
           e == [d EXCEPT ![r].child = rc]
<1>1. f[n] \in NodeType
  BY DEF Forest
<1>2. /\ a \in Forest /\ \A m \in Nodes \ {n} : a[m] = f[m]
      /\ a[n] = [f[n] EXCEPT !.keys = nk]
  BY <1>1, Zenon DEF Forest, NodeType
<1> HIDE DEF a
<1>3. a[l] \in NodeType
  BY <1>2 DEF Forest
<1>4. /\ b \in Forest /\ \A m \in Nodes \ {l} : b[m] = a[m]
      /\ b[l] = [a[l] EXCEPT !.keys = lk]
  BY <1>2, <1>3, Zenon DEF Forest, NodeType
<1> HIDE DEF b
<1>5. b[l] \in NodeType
  BY <1>4, Zenon DEF Forest
<1>6. /\ c \in Forest /\ \A m \in Nodes \ {l} : c[m] = b[m]
      /\ c[l] = [b[l] EXCEPT !.child = lc]
  BY <1>4, <1>5, Zenon DEF Forest, NodeType
<1> HIDE DEF c
<1>7. c[r] \in NodeType
  BY <1>6 DEF Forest
<1>8. /\ d \in Forest /\ \A m \in Nodes \ {r} : d[m] = c[m]
      /\ d[r] = [c[r] EXCEPT !.keys = rk]
  BY <1>6, <1>7, Zenon DEF Forest, NodeType
<1> HIDE DEF d
<1>9. d[r] \in NodeType
  BY <1>8, Zenon DEF Forest
<1>10. /\ e \in Forest /\ \A m \in Nodes \ {r} : e[m] = d[m]
       /\ e[r] = [d[r] EXCEPT !.child = rc]
  BY <1>8, <1>9, Zenon DEF Forest, NodeType
<1>11. e = Edited(f, n, l, r, nk, lk, lc, rk, rc)
  BY DEF a, b, c, d, Edited
<1> HIDE DEF e
<1>12. e[n] = a[n] /\ e[l] = c[l] /\ \A m \in Nodes \ {n, l, r} : e[m] = f[m]
  BY <1>2, <1>4, <1>6, <1>8, <1>10
<1>13. /\ e[n].leaf = f[n].leaf /\ e[n].parent = f[n].parent /\ e[n].keys = nk /\ e[n].child = f[n].child
  BY <1>1, <1>2, <1>12 DEF NodeType
<1>14. a[l] = f[l] /\ c[r] = f[r]
  BY <1>2, <1>4, <1>6
<1>15. e[l].leaf = f[l].leaf /\ e[l].parent = f[l].parent /\ e[l].keys = lk /\ e[l].child = lc
  BY <1>3, <1>4, <1>5, <1>6, <1>12, <1>14 DEF NodeType
<1>16. e[r].leaf = f[r].leaf /\ e[r].parent = f[r].parent /\ e[r].keys = rk /\ e[r].child = rc
  BY <1>7, <1>8, <1>9, <1>10, <1>14 DEF NodeType
<1> QED  BY <1>10, <1>11, <1>12, <1>13, <1>15, <1>16

\* Adopt, node by node.
LEMMA AdoptIs ==
    ASSUME NEW e \in Forest, NEW kids, NEW p \in Nodes
    PROVE  /\ Adopt(e, kids, p) \in Forest
           /\ \A m \in Nodes : m \notin kids => Adopt(e, kids, p)[m] = e[m]
           /\ \A m \in Nodes : /\ Adopt(e, kids, p)[m].leaf = e[m].leaf
                               /\ Adopt(e, kids, p)[m].keys = e[m].keys
                               /\ Adopt(e, kids, p)[m].child = e[m].child
                               /\ (m \in kids => Adopt(e, kids, p)[m].parent = p)
<1> DEFINE g == Adopt(e, kids, p)
<1>1. \A m \in Nodes : g[m] = IF m \in kids THEN [e[m] EXCEPT !.parent = p] ELSE e[m]
  BY DEF Adopt
<1>2. g = [m \in Nodes |-> g[m]]
  BY DEF Adopt
<1> HIDE DEF g
<1>3. \A m \in Nodes : e[m] \in NodeType
  BY DEF Forest
<1>4. \A m \in Nodes : /\ g[m].leaf = e[m].leaf /\ g[m].keys = e[m].keys /\ g[m].child = e[m].child
                      /\ (m \in kids => g[m].parent = p)
                      /\ g[m] \in NodeType
  BY <1>1, <1>3, ZenonT(60) DEF NodeType
<1>5. g \in Forest
  BY <1>2, <1>4 DEF Forest
<1> QED  BY <1>1, <1>4, <1>5, Zenon DEF g

\* MoveFromRight cuts the row one place further to the right ...
LEMMA FromRightIs ==
    ASSUME NEW f, NEW h, NEW s, NEW top, Typed(f, h, s), TreeFits(f, top, h, s),
           NEW n, NEW i, NEW l, NEW r, Pair(f, h, s, top, n, i, l, r), Num(f, r) >= 1
    PROVE  CutEdit(f, FromRight(f, n, i, l, r), n, i, l, r, Num(f, l) + 1, Num(f, l) + 2, l)
<1> DEFINE A == Num(f, l)
           B == Num(f, r)
           g == FromRight(f, n, i, l, r)
           moved == Part(f[r].child, 1, 1)
           lk == Append(f[l].keys, f[n].keys[i])
           lc == f[l].child \o moved
           nk == [f[n].keys EXCEPT ![i] = f[r].keys[1]]
           rk == Tail(f[r].keys)
           rc == Part(f[r].child, 2, Len(f[r].child))
           d(j) == RowChild(f, l, r, j)
           K(j) == RowKey(f, n, i, l, r, j)
           len == Long(f, l, r)
<1>1. /\ PairTyped(f, h, s, top, n, i, l, r) /\ A \in Nat /\ B \in Nat /\ B >= 1 /\ len = A + 1 + B
      /\ f \in Forest /\ n \in Nodes /\ l \in Nodes /\ r \in Nodes /\ n # l /\ n # r /\ l # r
      /\ f[n].keys \in Seq(Keys) /\ f[l].keys \in Seq(Keys) /\ f[r].keys \in Seq(Keys)
      /\ f[l].child \in Seq(Nodes) /\ f[r].child \in Seq(Nodes)
      /\ Len(f[n].keys) = Num(f, n) /\ Len(f[l].keys) = A /\ Len(f[r].keys) = B /\ Num(f, n) \in Nat
      /\ i \in 1..Num(f, n) /\ (f[l].leaf <=> f[r].leaf)
  <2>1. PairTyped(f, h, s, top, n, i, l, r)
    BY PairIsTyped
  <2> QED  BY <2>1 DEF PairTyped, Long
<1>2. /\ f[l].leaf => f[l].child = <<>> /\ f[r].child = <<>>
      /\ ~f[l].leaf => Len(f[l].child) = A + 1 /\ Len(f[r].child) = B + 1 /\ f[r].child # <<>>
      /\ ~f[l].leaf => \A j \in 1..(len + 1) : d(j) \in Nodes \ {n, l, r}
  <2>1. ~f[l].leaf => Len(f[r].child) = B + 1 /\ f[r].child # <<>>
    BY <1>1, FreedIs DEF PairTyped
  <2> QED  BY <2>1, <1>1 DEF PairTyped
<1>3. /\ lk \in Seq(Keys) /\ Len(lk) = A + 1
      /\ \A j \in 1..(A + 1) : lk[j] = K(j)
  <2>1. f[n].keys[i] \in Keys
    BY <1>1
  <2> DEFINE e == f[n].keys[i]
  <2> HIDE DEF e
  <2>2. /\ Append(f[l].keys, e) \in Seq(Keys) /\ Len(Append(f[l].keys, e)) = A + 1
        /\ \A j \in 1..A : Append(f[l].keys, e)[j] = f[l].keys[j]
        /\ Append(f[l].keys, e)[A + 1] = e
    <3>1. e \in Keys /\ f[l].keys \in Seq(Keys) /\ Len(f[l].keys) = A
      BY <2>1, <1>1 DEF e
    <3> DEFINE q == f[l].keys
    <3> HIDE DEF q, A
    <3>2. /\ Append(q, e) \in Seq(Keys) /\ Len(Append(q, e)) = Len(q) + 1
          /\ \A j \in 1..Len(q) : Append(q, e)[j] = q[j]
          /\ Append(q, e)[Len(q) + 1] = e
      BY <3>1, AppendProperties DEF q
    <3> QED  BY <3>1, <3>2 DEF q
  <2>3. ASSUME NEW j \in 1..(A + 1) PROVE lk[j] = K(j)
    <3>1. CASE j <= A
      <4>1. j \in 1..A
        BY <3>1, <2>3, <1>1
      <4> QED  BY <4>1, <3>1, <2>2 DEF RowKey, e
    <3>2. CASE j = A + 1
      BY <3>2, <2>2, <1>1 DEF RowKey, e
    <3> QED  BY <3>1, <3>2, <1>1
  <2> QED  BY <2>2, <2>3 DEF e
<1>4. /\ nk \in Seq(Keys) /\ Len(nk) = Num(f, n)
      /\ \A j \in 1..Num(f, n) : nk[j] = IF j = i THEN K(A + 1 + 1) ELSE f[n].keys[j]
  <2>1. f[r].keys[1] \in Keys
    BY <1>1
  <2>2. K(A + 1 + 1) = f[r].keys[1]
    <3> DEFINE y == A + 1 + 1
    <3>1. ~(y <= A) /\ y # A + 1 /\ y - A - 1 = 1
      BY <1>1
    <3> HIDE DEF y
    <3>2. K(y) = f[r].keys[1]
      BY <3>1 DEF RowKey
    <3> QED  BY <3>2 DEF y
  <2> QED  BY <2>1, <2>2, <1>1, ExceptSeq, SMTT(30)
<1>5. /\ rk \in Seq(Keys) /\ Len(rk) = B - 1
      /\ \A j \in 1..(B - 1) : rk[j] = K(A + 1 + 1 + j)
  <2>1. f[r].keys # <<>>
    BY <1>1, FreedIs
  <2>2. rk \in Seq(Keys) /\ Len(rk) = B - 1 /\ \A j \in 1..(B - 1) : rk[j] = f[r].keys[j + 1]
    BY <2>1, <1>1, HeadTailProperties, Zenon
  <2>3. ASSUME NEW j \in 1..(B - 1) PROVE K(A + 1 + 1 + j) = f[r].keys[j + 1]
    <3> DEFINE y == A + 1 + 1 + j
    <3>1. ~(y <= A) /\ y # A + 1 /\ y - A - 1 = j + 1
      BY <1>1, <2>3, SMTT(30)
    <3> HIDE DEF y
    <3>2. K(y) = f[r].keys[j + 1]
      BY <3>1 DEF RowKey
    <3> QED  BY <3>2 DEF y
  <2> QED  BY <2>2, <2>3
<1>6. f[l].leaf => lc = <<>> /\ rc = <<>> /\ moved = <<>>
  <2> SUFFICES ASSUME f[l].leaf PROVE lc = <<>> /\ rc = <<>> /\ moved = <<>>
    OBVIOUS
  <2>1. moved = <<>> /\ rc = <<>> /\ f[l].child = <<>>
    BY <1>2 DEF Part
  <2> QED  BY <2>1
<1>7. ~f[l].leaf => /\ lc \in Seq(Nodes) /\ rc \in Seq(Nodes) /\ moved \in Seq(Nodes)
                    /\ Len(lc) = A + 1 + 1 /\ \A j \in 1..(A + 1 + 1) : lc[j] = d(j)
                    /\ Len(rc) = B /\ \A j \in 1..B : rc[j] = d(A + 1 + 1 + j)
                    /\ Len(moved) = 1 /\ moved[1] = d(A + 2)
  <2> SUFFICES ASSUME ~f[l].leaf
               PROVE  /\ lc \in Seq(Nodes) /\ rc \in Seq(Nodes) /\ moved \in Seq(Nodes)
                      /\ Len(lc) = A + 1 + 1 /\ \A j \in 1..(A + 1 + 1) : lc[j] = d(j)
                      /\ Len(rc) = B /\ \A j \in 1..B : rc[j] = d(A + 1 + 1 + j)
                      /\ Len(moved) = 1 /\ moved[1] = d(A + 2)
    BY Zenon
  <2>1. d(A + 2) = f[r].child[1] /\ A + 1 + 1 = A + 2
    <3>1. ~(A + 2 <= A + 1) /\ A + 2 - A - 1 = 1
      BY <1>1
    <3> QED  BY <3>1, <1>1, SMTT(30) DEF RowChild
  <2>2. moved \in Seq(Nodes) /\ Len(moved) = 1 /\ moved[1] = f[r].child[1]
    <3>1. 1 \in 1..(Len(f[r].child) + 1) /\ 1 \in (1 - 1)..Len(f[r].child)
      BY <1>1, <1>2, SMTT(30)
    <3>2. moved \in Seq(Nodes) /\ Slice(moved, f[r].child, 1, 1)
      BY <3>1, <1>1, <1>2, PartIs, Zenon
    <3> HIDE DEF moved
    <3> QED  BY <3>2 DEF Slice
  <2> HIDE DEF moved
  <2>3. lc \in Seq(Nodes) /\ Chain(lc, f[l].child, moved)
    BY <2>2, <1>1, ConcatIs, Zenon
  <2> HIDE DEF lc
  <2>4. Len(lc) = A + 1 + 1 /\ \A j \in 1..(A + 1 + 1) : lc[j] = IF j <= A + 1 THEN f[l].child[j] ELSE moved[j - (A + 1)]
    BY <2>2, <2>3, <1>2, Zenon DEF Chain
  <2>5. ASSUME NEW j \in 1..(A + 1 + 1) PROVE lc[j] = d(j)
    <3>1. CASE j <= A + 1
      BY <3>1, <2>4 DEF RowChild
    <3>2. CASE j = A + 1 + 1
      <4>1. ~(j <= A + 1) /\ j - (A + 1) = 1 /\ j = A + 2
        BY <3>2, <1>1
      <4> QED  BY <4>1, <2>1, <2>2, <2>4
    <3> QED  BY <3>1, <3>2, <1>1
  <2>6. rc \in Seq(Nodes) /\ Len(rc) = B /\ \A j \in 1..B : rc[j] = f[r].child[1 + j]
    <3>1. 2 \in 1..(Len(f[r].child) + 1) /\ Len(f[r].child) \in (2 - 1)..Len(f[r].child)
      BY <1>1, <1>2
    <3>2. rc \in Seq(Nodes) /\ Slice(rc, f[r].child, 2, Len(f[r].child))
      BY <3>1, <1>1, <1>2, PartIs, Zenon
    <3> HIDE DEF rc
    <3>3. Len(f[r].child) - 2 + 1 = B /\ \A j \in 1..B : 2 + j - 1 = 1 + j
      BY <1>1, <1>2
    <3> QED  BY <3>2, <3>3 DEF Slice
  <2>7. ASSUME NEW j \in 1..B PROVE d(A + 1 + 1 + j) = f[r].child[1 + j]
    <3> DEFINE y == A + 1 + 1 + j
    <3>1. ~(y <= A + 1) /\ y - A - 1 = 1 + j
      BY <1>1, <2>7
    <3> HIDE DEF y
    <3>2. d(y) = f[r].child[1 + j]
      BY <3>1 DEF RowChild
    <3> QED  BY <3>2 DEF y
  <2> QED  BY <2>1, <2>2, <2>3, <2>4, <2>5, <2>6, <2>7
<1>8. lc \in Seq(Nodes) /\ rc \in Seq(Nodes)
  BY <1>6, <1>7, FreedIs, Zenon
<1>9. \A m \in Nodes : m \in ToSet(moved) <=> ~f[l].leaf /\ m = d(A + 2)
  <2>1. CASE f[l].leaf
    <3>1. moved = <<>>
      BY <2>1, <1>6
    <3> QED  BY <3>1, <2>1 DEF ToSet
  <2>2. CASE ~f[l].leaf
    <3>1. Len(moved) = 1 /\ moved[1] = d(A + 2) /\ moved \in Seq(Nodes)
      BY <2>2, <1>7, ZenonT(60)
    <3> HIDE DEF moved, d
    <3>2. DOMAIN moved = 1..1
      BY <3>1
    <3> QED  BY <3>1, <3>2, <2>2 DEF ToSet
  <2> QED  BY <2>1, <2>2
<1> DEFINE e == Edited(f, n, l, r, nk, lk, lc, rk, rc)
<1>10. g = Adopt(e, ToSet(moved), l)
  <2>1. e = [f EXCEPT
                ![l].keys  = Append(@, f[n].keys[i]),
                ![l].child = @ \o moved,
                ![n].keys[i] = f[r].keys[1],
                ![r].keys  = Tail(@),
                ![r].child = Part(@, 2, Len(@))]
    <3> HIDE DEF moved
    <3> QED  BY <1>1, ZenonT(60) DEF Edited, Forest, NodeType
  <2> QED  BY <2>1, Zenon DEF FromRight
<1> HIDE DEF lk, lc, nk, rk, rc, moved
<1>11. /\ e \in Forest
       /\ e[n].leaf = f[n].leaf /\ e[n].parent = f[n].parent /\ e[n].keys = nk /\ e[n].child = f[n].child
       /\ e[l].leaf = f[l].leaf /\ e[l].parent = f[l].parent /\ e[l].keys = lk /\ e[l].child = lc
       /\ e[r].leaf = f[r].leaf /\ e[r].parent = f[r].parent /\ e[r].keys = rk /\ e[r].child = rc
       /\ \A m \in Nodes \ {n, l, r} : e[m] = f[m]
  BY <1>1, <1>3, <1>4, <1>5, <1>8, EditedIs, SMTT(60)
<1> HIDE DEF e, g
<1>12. A + 2 \in 1..(len + 1) /\ A + 1 \in Nat /\ A + 2 = A + 1 + 1 /\ A + 1 + 1 <= len
  BY <1>1, SMTT(30)
<1>13. ~f[l].leaf => d(A + 2) \in Nodes \ {n, l, r}
  BY <1>2, <1>12
<1> HIDE DEF d, K
<1>14. /\ g \in Forest
       /\ \A m \in Nodes : ~(~f[l].leaf /\ m = d(A + 2)) => g[m] = e[m]
       /\ \A m \in Nodes : /\ g[m].leaf = e[m].leaf /\ g[m].keys = e[m].keys /\ g[m].child = e[m].child
                           /\ (~f[l].leaf /\ m = d(A + 2) => g[m].parent = l)
  BY <1>1, <1>9, <1>10, <1>11, AdoptIs
<1>15. g[n] = e[n] /\ g[l] = e[l] /\ g[r] = e[r]
  BY <1>1, <1>13, <1>14
<1>16. Num(g, n) = Num(f, n) /\ Num(g, l) = A + 1 /\ Num(g, r) = B - 1 /\ A + 1 + 1 + Num(g, r) = len
       /\ Num(g, r) + 1 = B
  <2>1. Num(g, n) = Len(nk) /\ Num(g, l) = Len(lk) /\ Num(g, r) = Len(rk)
    BY <1>11, <1>15 DEF Num
  <2>2. Len(nk) = Num(f, n) /\ Len(lk) = A + 1 /\ Len(rk) = B - 1
    BY <1>3, <1>4, <1>5
  <2>3. A \in Nat /\ B \in Nat /\ len = A + 1 + B
    BY <1>1
  <2> HIDE DEF A, B, len
  <2> QED  BY <2>1, <2>2, <2>3
<1>17. /\ f[l].leaf => Len(g[l].child) = 0 /\ Len(g[r].child) = 0
       /\ ~f[l].leaf => /\ Len(g[l].child) = Num(g, l) + 1 /\ Len(g[r].child) = Num(g, r) + 1
                        /\ \A j \in 1..(Num(g, l) + 1) : g[l].child[j] = d(j)
                        /\ \A j \in 1..(Num(g, r) + 1) : g[r].child[j] = d(A + 1 + 1 + j)
  BY <1>6, <1>7, <1>11, <1>15, <1>16, FreedIs, ZenonT(60)
<1>18. \A m \in Nodes \ {n, l, r} :
         /\ g[m].leaf = f[m].leaf /\ g[m].keys = f[m].keys /\ g[m].child = f[m].child
         /\ (~f[l].leaf /\ m = d(A + 2) => g[m].parent = l)
         /\ (~(~f[l].leaf /\ m = d(A + 2)) => g[m] = f[m])
  BY <1>11, <1>14
<1>19. /\ \A j \in 1..Num(f, n) : g[n].keys[j] = IF j = i THEN K(A + 1 + 1) ELSE f[n].keys[j]
       /\ \A j \in 1..Num(g, l) : g[l].keys[j] = K(j)
       /\ \A j \in 1..Num(g, r) : g[r].keys[j] = K(A + 1 + 1 + j)
  BY <1>3, <1>4, <1>5, <1>11, <1>15, <1>16, SMTT(30)
<1>20. CutEdit(f, g, n, i, l, r, A + 1, A + 2, l)
  BY <1>11, <1>12, <1>14, <1>15, <1>16, <1>17, <1>18, <1>19 DEF CutEdit, d, K
<1> QED  BY <1>20 DEF g

\* Front and Last, by what is at each index.
LEMMA FrontIs ==
    ASSUME NEW S, NEW q \in Seq(S), Len(q) >= 1
    PROVE  /\ Front(q) \in Seq(S) /\ Len(Front(q)) = Len(q) - 1
           /\ \A j \in 1..(Len(q) - 1) : Front(q)[j] = q[j]
           /\ Last(q) = q[Len(q)] /\ Last(q) \in S
<1>1. 1 \in 1..(Len(q) + 1) /\ Len(q) - 1 \in (1 - 1)..Len(q) /\ Len(q) \in Nat
  OBVIOUS
<1>2. Front(q) = SubSeq(q, 1, Len(q) - 1) /\ Last(q) = q[Len(q)]
  BY DEF Front, Last
<1>3. Front(q) \in Seq(S) /\ Slice(Front(q), q, 1, Len(q) - 1)
  BY <1>1, <1>2, SubSeqIs
<1>4. Last(q) \in S
  BY <1>1, <1>2
<1> DEFINE c == Front(q)
<1> HIDE DEF c
<1>5. Len(c) = Len(q) - 1 - 1 + 1 /\ \A j \in 1..(Len(q) - 1 - 1 + 1) : c[j] = q[1 + j - 1]
  BY <1>1, <1>3 DEF Slice, c
<1>6. Len(q) - 1 - 1 + 1 = Len(q) - 1 /\ \A j \in 1..(Len(q) - 1) : 1 + j - 1 = j
  BY <1>1
<1>7. Len(c) = Len(q) - 1 /\ \A j \in 1..(Len(q) - 1) : c[j] = q[j]
  BY <1>5, <1>6
<1> QED  BY <1>2, <1>3, <1>4, <1>7 DEF c

\* ... and MoveFromLeft one place further to the left.
LEMMA FromLeftIs ==
    ASSUME NEW f, NEW h, NEW s, NEW top, Typed(f, h, s), TreeFits(f, top, h, s),
           NEW n, NEW i, NEW l, NEW r, Pair(f, h, s, top, n, i, l, r), NEW a \in Nat, Num(f, l) = a + 1
    PROVE  CutEdit(f, FromLeft(f, n, i, l, r), n, i, l, r, a, a + 2, r)
<1> DEFINE A == Num(f, l)
           B == Num(f, r)
           g == FromLeft(f, n, i, l, r)
           moved == Part(f[l].child, A + 1, A + 1)
           lk == Front(f[l].keys)
           lc == Part(f[l].child, 1, A)
           nk == [f[n].keys EXCEPT ![i] = Last(f[l].keys)]
           rk == <<f[n].keys[i]>> \o f[r].keys
           rc == moved \o f[r].child
           d(j) == RowChild(f, l, r, j)
           K(j) == RowKey(f, n, i, l, r, j)
           len == Long(f, l, r)
<1>1. /\ PairTyped(f, h, s, top, n, i, l, r) /\ A \in Nat /\ B \in Nat /\ len = A + 1 + B /\ A = a + 1
      /\ f \in Forest /\ n \in Nodes /\ l \in Nodes /\ r \in Nodes /\ n # l /\ n # r /\ l # r
      /\ f[n].keys \in Seq(Keys) /\ f[l].keys \in Seq(Keys) /\ f[r].keys \in Seq(Keys)
      /\ f[l].child \in Seq(Nodes) /\ f[r].child \in Seq(Nodes)
      /\ Len(f[n].keys) = Num(f, n) /\ Len(f[l].keys) = A /\ Len(f[r].keys) = B /\ Num(f, n) \in Nat
      /\ i \in 1..Num(f, n) /\ (f[l].leaf <=> f[r].leaf)
  <2>1. PairTyped(f, h, s, top, n, i, l, r)
    BY PairIsTyped
  <2> QED  BY <2>1 DEF PairTyped, Long
<1>2. /\ f[l].leaf => f[l].child = <<>> /\ f[r].child = <<>>
      /\ ~f[l].leaf => Len(f[l].child) = A + 1 /\ Len(f[r].child) = B + 1 /\ f[l].child # <<>>
      /\ ~f[l].leaf => \A j \in 1..(len + 1) : d(j) \in Nodes \ {n, l, r}
  <2>1. ~f[l].leaf => Len(f[l].child) = A + 1 /\ f[l].child # <<>>
    BY <1>1, FreedIs DEF PairTyped
  <2> QED  BY <2>1, <1>1 DEF PairTyped
<1>3. /\ lk \in Seq(Keys) /\ Len(lk) = a /\ \A j \in 1..a : lk[j] = K(j)
      /\ Last(f[l].keys) = K(a + 1) /\ Last(f[l].keys) \in Keys
  <2>1. Len(f[l].keys) >= 1 /\ f[l].keys \in Seq(Keys) /\ Len(f[l].keys) = A /\ A - 1 = a
    BY <1>1
  <2>2. /\ lk \in Seq(Keys) /\ Len(lk) = a /\ \A j \in 1..a : lk[j] = f[l].keys[j]
        /\ Last(f[l].keys) = f[l].keys[A] /\ Last(f[l].keys) \in Keys
    <3> DEFINE q == f[l].keys
    <3>1. q \in Seq(Keys) /\ Len(q) >= 1
      BY <2>1
    <3> HIDE DEF q
    <3>2. /\ Front(q) \in Seq(Keys) /\ Len(Front(q)) = Len(q) - 1
          /\ \A j \in 1..(Len(q) - 1) : Front(q)[j] = q[j]
          /\ Last(q) = q[Len(q)] /\ Last(q) \in Keys
      BY <3>1, FrontIs
    <3>3. Len(q) = A /\ Len(q) - 1 = a
      BY <2>1 DEF q
    <3> QED  BY <3>2, <3>3 DEF q
  <2>3. \A j \in 1..A : K(j) = f[l].keys[j]
    BY <1>1 DEF RowKey
  <2>4. A \in 1..A /\ \A j \in 1..a : j \in 1..A
    BY <1>1
  <2>5. K(A) = f[l].keys[A] /\ \A j \in 1..a : K(j) = f[l].keys[j]
    BY <2>3, <2>4
  <2> QED  BY <2>2, <2>5, <1>1, Zenon
<1>4. /\ nk \in Seq(Keys) /\ Len(nk) = Num(f, n)
      /\ \A j \in 1..Num(f, n) : nk[j] = IF j = i THEN K(a + 1) ELSE f[n].keys[j]
  <2> DEFINE x == Last(f[l].keys)
             q == f[n].keys
  <2>1. x \in Keys /\ x = K(a + 1) /\ q \in Seq(Keys) /\ Len(q) = Num(f, n) /\ i \in 1..Len(q)
    BY <1>1, <1>3
  <2>2. nk = [q EXCEPT ![i] = x]
    OBVIOUS
  <2> HIDE DEF x, q, nk, K
  <2> QED  BY <2>1, <2>2, ExceptSeq DEF q
<1>5. /\ rk \in Seq(Keys) /\ Len(rk) = B + 1
      /\ \A j \in 1..(B + 1) : rk[j] = K(a + 1 + j)
  <2> DEFINE q == <<f[n].keys[i]>>
  <2>1. f[n].keys[i] \in Keys
    BY <1>1
  <2>2. q \in Seq(Keys) /\ Len(q) = 1 /\ q[1] = f[n].keys[i]
    BY <2>1
  <2>3. rk = q \o f[r].keys
    OBVIOUS
  <2> HIDE DEF q, rk
  <2>4. rk \in Seq(Keys) /\ Chain(rk, q, f[r].keys)
    BY <2>2, <2>3, <1>1, ConcatIs
  <2>5. Len(rk) = B + 1 /\ \A j \in 1..(B + 1) : rk[j] = IF j <= 1 THEN q[j] ELSE f[r].keys[j - 1]
    BY <2>2, <2>4, <1>1, SMTT(30) DEF Chain
  <2>6. ASSUME NEW j \in 1..(B + 1) PROVE rk[j] = K(a + 1 + j)
    <3> DEFINE y == a + 1 + j
    <3>1. ~(y <= A) /\ y - A - 1 = j - 1 /\ (y = A + 1 <=> j = 1) /\ (j <= 1 <=> j = 1)
      BY <1>1, <2>6
    <3> HIDE DEF y
    <3>2. CASE j = 1
      <4>1. K(y) = f[n].keys[i]
        BY <3>1, <3>2 DEF RowKey
      <4> QED  BY <4>1, <3>1, <3>2, <2>2, <2>5 DEF y
    <3>3. CASE j # 1
      <4>1. K(y) = f[r].keys[j - 1]
        BY <3>1, <3>3 DEF RowKey
      <4> QED  BY <4>1, <3>1, <3>3, <2>5 DEF y
    <3> QED  BY <3>2, <3>3
  <2> QED  BY <2>4, <2>5, <2>6
<1>6. f[l].leaf => lc = <<>> /\ rc = <<>> /\ moved = <<>>
  <2> SUFFICES ASSUME f[l].leaf PROVE lc = <<>> /\ rc = <<>> /\ moved = <<>>
    OBVIOUS
  <2>1. moved = <<>> /\ lc = <<>> /\ f[r].child = <<>>
    BY <1>2 DEF Part
  <2> QED  BY <2>1
<1>7. ~f[l].leaf => /\ lc \in Seq(Nodes) /\ rc \in Seq(Nodes) /\ moved \in Seq(Nodes)
                    /\ Len(lc) = a + 1 /\ \A j \in 1..(a + 1) : lc[j] = d(j)
                    /\ Len(rc) = B + 1 + 1 /\ \A j \in 1..(B + 1 + 1) : rc[j] = d(a + 1 + j)
                    /\ Len(moved) = 1 /\ moved[1] = d(a + 2)
  <2> SUFFICES ASSUME ~f[l].leaf
               PROVE  /\ lc \in Seq(Nodes) /\ rc \in Seq(Nodes) /\ moved \in Seq(Nodes)
                      /\ Len(lc) = a + 1 /\ \A j \in 1..(a + 1) : lc[j] = d(j)
                      /\ Len(rc) = B + 1 + 1 /\ \A j \in 1..(B + 1 + 1) : rc[j] = d(a + 1 + j)
                      /\ Len(moved) = 1 /\ moved[1] = d(a + 2)
    BY Zenon
  <2>1. d(a + 2) = f[l].child[A + 1]
    <3> DEFINE y == a + 2
    <3>1. y <= A + 1 /\ y = A + 1
      BY <1>1
    <3> HIDE DEF y
    <3>2. d(y) = f[l].child[A + 1]
      BY <3>1 DEF RowChild
    <3> QED  BY <3>2 DEF y
  <2>2. moved \in Seq(Nodes) /\ Len(moved) = 1 /\ moved[1] = f[l].child[A + 1]
    <3>1. A + 1 \in 1..(Len(f[l].child) + 1) /\ A + 1 \in (A + 1 - 1)..Len(f[l].child)
      BY <1>1, <1>2
    <3>2. moved \in Seq(Nodes) /\ Slice(moved, f[l].child, A + 1, A + 1)
      BY <3>1, <1>1, <1>2, PartIs, SMTT(30)
    <3>3. A + 1 - (A + 1) + 1 = 1 /\ A + 1 + 1 - 1 = A + 1
      BY <1>1
    <3> HIDE DEF moved, A
    <3>4. Len(moved) = A + 1 - (A + 1) + 1 /\ \A k \in 1..(A + 1 - (A + 1) + 1) : moved[k] = f[l].child[A + 1 + k - 1]
      BY <3>2, <3>3, <1>1 DEF Slice
    <3> QED  BY <3>2, <3>3, <3>4
  <2> HIDE DEF moved
  <2>3. rc \in Seq(Nodes) /\ Chain(rc, moved, f[r].child)
    BY <2>2, <1>1, ConcatIs
  <2> HIDE DEF rc
  <2>4. Len(rc) = B + 1 + 1 /\ \A j \in 1..(B + 1 + 1) : rc[j] = IF j <= 1 THEN moved[j] ELSE f[r].child[j - 1]
    <3>1. Len(moved) + Len(f[r].child) = B + 1 + 1
      BY <2>2, <1>1, <1>2
    <3> QED  BY <2>2, <2>3, <3>1, Zenon DEF Chain
  <2>5. ASSUME NEW j \in 1..(B + 1 + 1) PROVE rc[j] = d(a + 1 + j)
    <3> DEFINE y == a + 1 + j
    <3>1. (y <= A + 1 <=> j <= 1) /\ y - A - 1 = j - 1 /\ (j <= 1 <=> j = 1) /\ a + 1 + 1 = a + 2
      BY <1>1, <2>5
    <3> HIDE DEF y
    <3>2. CASE j = 1
      <4>1. y = a + 2
        BY <3>1, <3>2 DEF y
      <4>2. rc[j] = moved[1]
        BY <3>1, <3>2, <2>4
      <4> QED  BY <4>1, <4>2, <2>1, <2>2 DEF y
    <3>3. CASE j # 1
      <4>1. d(y) = f[r].child[j - 1]
        BY <3>1, <3>3 DEF RowChild
      <4> QED  BY <4>1, <3>1, <3>3, <2>4 DEF y
    <3> QED  BY <3>2, <3>3
  <2>6. lc \in Seq(Nodes) /\ Len(lc) = a + 1 /\ \A j \in 1..(a + 1) : lc[j] = f[l].child[j]
    <3>1. 1 \in 1..(Len(f[l].child) + 1) /\ A \in (1 - 1)..Len(f[l].child)
      BY <1>1, <1>2, SMTT(30)
    <3>2. lc \in Seq(Nodes) /\ Slice(lc, f[l].child, 1, A)
      BY <3>1, <1>1, <1>2, PartIs, Zenon
    <3> HIDE DEF lc
    <3>3. A - 1 + 1 = a + 1 /\ \A j \in 1..(a + 1) : 1 + j - 1 = j
      BY <1>1
    <3>4. Len(lc) = A - 1 + 1 /\ \A k \in 1..(A - 1 + 1) : lc[k] = f[l].child[1 + k - 1]
      BY <3>2, <3>3, <1>1 DEF Slice
    <3> QED  BY <3>2, <3>3, <3>4
  <2>7. ASSUME NEW j \in 1..(a + 1) PROVE d(j) = f[l].child[j]
    <3>1. j <= A + 1
      BY <1>1, <2>7
    <3> QED  BY <3>1 DEF RowChild
  <2> QED  BY <2>1, <2>2, <2>3, <2>4, <2>5, <2>6, <2>7, Zenon
<1>8. lc \in Seq(Nodes) /\ rc \in Seq(Nodes)
  BY <1>6, <1>7, FreedIs, Zenon
<1>9. \A m \in Nodes : m \in ToSet(moved) <=> ~f[l].leaf /\ m = d(a + 2)
  <2>1. CASE f[l].leaf
    <3>1. moved = <<>>
      BY <2>1, <1>6
    <3> QED  BY <3>1, <2>1 DEF ToSet
  <2>2. CASE ~f[l].leaf
    <3>1. Len(moved) = 1 /\ moved[1] = d(a + 2) /\ moved \in Seq(Nodes)
      BY <2>2, <1>7, ZenonT(60)
    <3> HIDE DEF moved, d
    <3>2. DOMAIN moved = 1..1
      BY <3>1
    <3> QED  BY <3>1, <3>2, <2>2 DEF ToSet
  <2> QED  BY <2>1, <2>2
<1> DEFINE e == Edited(f, n, l, r, nk, lk, lc, rk, rc)
<1>10. g = Adopt(e, ToSet(moved), r)
  <2>1. e = [f EXCEPT
                ![r].keys  = <<f[n].keys[i]>> \o @,
                ![r].child = moved \o @,
                ![n].keys[i] = Last(f[l].keys),
                ![l].keys  = Front(@),
                ![l].child = Part(@, 1, Num(f, l))]
    <3> HIDE DEF moved
    <3> QED  BY <1>1, Zenon DEF Edited, Forest, NodeType
  <2> QED  BY <2>1, Zenon DEF FromLeft
<1> HIDE DEF lk, lc, nk, rk, rc, moved
<1>11. /\ e \in Forest
       /\ e[n].leaf = f[n].leaf /\ e[n].parent = f[n].parent /\ e[n].keys = nk /\ e[n].child = f[n].child
       /\ e[l].leaf = f[l].leaf /\ e[l].parent = f[l].parent /\ e[l].keys = lk /\ e[l].child = lc
       /\ e[r].leaf = f[r].leaf /\ e[r].parent = f[r].parent /\ e[r].keys = rk /\ e[r].child = rc
       /\ \A m \in Nodes \ {n, l, r} : e[m] = f[m]
  BY <1>1, <1>3, <1>4, <1>5, <1>8, EditedIs, SMTT(30)
<1> HIDE DEF e, g
<1>12. a + 2 \in 1..(len + 1)
  BY <1>1
<1>13. ~f[l].leaf => d(a + 2) \in Nodes \ {n, l, r}
  BY <1>2, <1>12
<1> HIDE DEF d, K
<1>14. /\ g \in Forest
       /\ \A m \in Nodes : ~(~f[l].leaf /\ m = d(a + 2)) => g[m] = e[m]
       /\ \A m \in Nodes : /\ g[m].leaf = e[m].leaf /\ g[m].keys = e[m].keys /\ g[m].child = e[m].child
                           /\ (~f[l].leaf /\ m = d(a + 2) => g[m].parent = r)
  BY <1>1, <1>9, <1>10, <1>11, AdoptIs
<1>15. g[n] = e[n] /\ g[l] = e[l] /\ g[r] = e[r]
  BY <1>1, <1>13, <1>14
<1>16. Num(g, n) = Num(f, n) /\ Num(g, l) = a /\ Num(g, r) = B + 1 /\ a + 1 + Num(g, r) = len
  <2>1. Num(g, n) = Len(nk) /\ Num(g, l) = Len(lk) /\ Num(g, r) = Len(rk)
    BY <1>11, <1>15 DEF Num
  <2>2. Len(nk) = Num(f, n) /\ Len(lk) = a /\ Len(rk) = B + 1
    BY <1>3, <1>4, <1>5
  <2>3. A = a + 1 /\ B \in Nat /\ len = A + 1 + B
    BY <1>1
  <2> HIDE DEF A, B, len
  <2> QED  BY <2>1, <2>2, <2>3
<1>17. /\ f[l].leaf => Len(g[l].child) = 0 /\ Len(g[r].child) = 0
       /\ ~f[l].leaf => /\ Len(g[l].child) = Num(g, l) + 1 /\ Len(g[r].child) = Num(g, r) + 1
                        /\ \A j \in 1..(Num(g, l) + 1) : g[l].child[j] = d(j)
                        /\ \A j \in 1..(Num(g, r) + 1) : g[r].child[j] = d(a + 1 + j)
  BY <1>6, <1>7, <1>11, <1>15, <1>16, FreedIs, SMTT(30)
<1>18. \A m \in Nodes \ {n, l, r} :
         /\ g[m].leaf = f[m].leaf /\ g[m].keys = f[m].keys /\ g[m].child = f[m].child
         /\ (~f[l].leaf /\ m = d(a + 2) => g[m].parent = r)
         /\ (~(~f[l].leaf /\ m = d(a + 2)) => g[m] = f[m])
  BY <1>11, <1>14
<1>19. /\ \A j \in 1..Num(f, n) : g[n].keys[j] = IF j = i THEN K(a + 1) ELSE f[n].keys[j]
       /\ \A j \in 1..Num(g, l) : g[l].keys[j] = K(j)
       /\ \A j \in 1..Num(g, r) : g[r].keys[j] = K(a + 1 + j)
  BY <1>3, <1>4, <1>5, <1>11, <1>15, <1>16
<1>20. CutEdit(f, g, n, i, l, r, a, a + 2, r)
  BY <1>1, <1>11, <1>14, <1>15, <1>16, <1>17, <1>18, <1>19 DEF CutEdit, d, K
<1> QED  BY <1>20 DEF g

SameKeys(f, g, T) == \A m \in Nodes \ T : g[m].keys = f[m].keys /\ (m \in Here(f) => m \in Here(g))

\* The loop of Delete, at node n, finds where it is to put the replacement.
Awaits(f, h, n) == op.inner # Nowhere =>
    /\ op.inner[1] \in Here(f) /\ h[n] < h[op.inner[1]]
    /\ op.inner[2] \in 1..Num(f, op.inner[1])
    /\ f[op.inner[1]].keys[op.inner[2]] = op.key

\* Moving keys around below it leaves the inner node that waits for a replacement.
LEMMA InnerKept ==
    ASSUME NEW h, NEW s, Good(node, root, op, h, s), op.do = "delete", op.at \in Here(node), op.at # Nil,
           NEW n, n = op.at, NEW l, NEW r, h[n] \in Nat, h[l] \in Nat, h[r] \in Nat, h[l] < h[n], h[r] < h[n],
           NEW g, SameKeys(node, g, {n, l, r})
    PROVE  Awaits(g, h, n)
<1> SUFFICES ASSUME op.inner # Nowhere
             PROVE  /\ op.inner[1] \in Here(g) /\ h[n] < h[op.inner[1]]
                    /\ op.inner[2] \in 1..Num(g, op.inner[1])
                    /\ g[op.inner[1]].keys[op.inner[2]] = op.key
  BY DEF Awaits
<1> DEFINE p == op.inner[1]
<1>1. /\ p \in Here(node) /\ h[n] < h[p] /\ op.inner[2] \in 1..Num(node, p)
      /\ node[p].keys[op.inner[2]] = op.key
  BY DeleteAt
<1>2. p \in Nodes /\ h[p] \in Nat
  BY <1>1, Handles
<1>3. p \in Nodes \ {n, l, r}
  BY <1>1, <1>2
<1> HIDE DEF p
<1>4. g[p].keys = node[p].keys /\ p \in Here(g) /\ Num(g, p) = Num(node, p)
  BY <1>1, <1>3 DEF Num, SameKeys
<1> QED  BY <1>1, <1>4 DEF p

\* A poor child of the node Delete's loop is at takes a key of its neighbour.
LEMMA MoveStep ==
    ASSUME NEW h, NEW s, Good(node, root, op, h, s), Passing,
           NEW n, n = op.at, NEW i, NEW l, NEW r, Pair(node, h, s, root, n, i, l, r),
           NEW a \in Nat, NEW z, NEW to, CutEdit(node, node', n, i, l, r, a, z, to),
           root' = root, op' = [op EXCEPT !.at = to],
           \/ to = l /\ Way = i /\ a = Num(node, l) + 1 /\ Num(node, l) = Empty /\ Num(node, r) > Empty
           \/ to = r /\ Way = i + 1 /\ Num(node, l) = a + 1 /\ Num(node, r) = Empty /\ Num(node, l) > Empty
    PROVE  /\ TreeInv' /\ KeysOf(node') = KeysOf(node)
           /\ op'.do = op.do /\ op'.key = op.key /\ op' # Idle
<1> DEFINE S == Row(node, s, l, r)
           len == Long(node, l, r)
           A == Num(node, l)
           B == Num(node, r)
           s2 == RecutMarks(s, n, i, l, r, S, a)
           g == node'
<1>1. /\ op \in DeleteOp /\ op.do = "delete" /\ op.at \in Here(node) /\ ~node[n].leaf
      /\ Num(node, n) \in Nat /\ Num(node, n) # 0 /\ Way \in Nat
      /\ Ahead(s[n][Way - 1], s[n][Way])
      /\ op.inner # Nowhere => IF op.leftmost THEN Way = 1 ELSE Way = Num(node, n) + 1
  BY WayGap
<1>2. Typed(node, h, s) /\ TreeFits(node, root, h, s) /\ Filled(node, root, op) /\ root \in Nodes \cup {Nil}
  BY DEF Good
<1>3. /\ RowFits(node, h, s, root, n, i, l, r) /\ A \in Nat /\ B \in Nat /\ len = A + 1 + B
      /\ n \in Nodes /\ l \in Nodes /\ r \in Nodes /\ n \in Here(node) /\ l \in Here(node) /\ r \in Here(node)
      /\ n # l /\ n # r /\ l # Nil /\ r # Nil /\ n # Nil /\ l # root /\ r # root
      /\ h[n] \in Nat /\ h[l] \in Nat /\ h[r] \in Nat /\ h[n] = h[l] + 1 /\ h[n] = h[r] + 1
      /\ i \in Nat /\ \A y \in Nat : s[n][y] \in Nat
  <2>1. RowFits(node, h, s, root, n, i, l, r)
    BY <1>2, PairIs
  <2> QED  BY <2>1, Zenon DEF Pair, IsChild, Long, Rises
<1>4. /\ l # r /\ i \in 1..Num(node, n) /\ Rises(S, len) /\ S[A + 1] = s[n][i]
  BY <1>3 DEF RowFits
<1>5. Recut(node, g, n, i, l, r, a)
  BY <1>2, CutIs
<1>6. RecutDone(node, g, h, s, s2, root, n, i, l, r, S, a)
  BY <1>2, <1>5, RecutFits
<1> HIDE DEF s2, S, len, g
<1>7. /\ Typed(g, h, s2) /\ TreeFits(g, root, h, s2) /\ Here(g) = Here(node) /\ KeysOf(g) = KeysOf(node)
      /\ s2[l][0] = s[n][i - 1] /\ s2[l][Num(g, l) + 1] = S[a + 1]
      /\ s2[r][0] = S[a + 1] /\ s2[r][Num(g, r) + 1] = s[n][i + 1]
  BY <1>6 DEF RecutDone
<1>8. /\ Num(g, n) = Num(node, n) /\ g[n].leaf = node[n].leaf /\ Num(g, l) = a /\ a + 1 + Num(g, r) = len
      /\ OthersKept(node, g, n, l, r)
  BY <1>5 DEF Recut, len
<1>9. Num(g, r) \in Nat
  BY <1>3, <1>7, HandlesIn
<1>10. /\ Num(g, l) >= Empty /\ Num(g, l) <= Full /\ Num(g, r) >= Empty /\ Num(g, r) <= Full
       /\ Num(g, to) > Empty /\ Num(g, l) # 0 /\ Num(g, r) # 0
  <2>1. A <= Full /\ B <= Full
    BY <1>2, <1>3 DEF Filled
  <2> HIDE DEF A, B
  <2>2. \/ to = l /\ a = A + 1 /\ A = Empty /\ B > Empty
        \/ to = r /\ A = a + 1 /\ B = Empty /\ A > Empty
    BY DEF A, B
  <2>3. \/ to = l /\ Num(g, l) = Empty + 1 /\ Num(g, r) = B - 1 /\ B > Empty
        \/ to = r /\ Num(g, l) = A - 1 /\ Num(g, r) = Empty + 1 /\ A > Empty
    BY <2>2, <1>3, <1>8, <1>9, NodeSizes
  <2>4. Empty >= 1 /\ Empty + 1 <= Full /\ Empty \in Nat /\ Full \in Nat
    BY NodeSizes
  <2> QED  BY <2>1, <2>3, <2>4, <1>3
<1>11. ASSUME NEW m \in Here(g)
       PROVE  Num(g, m) <= Full /\ (m # root => Num(g, m) >= Empty) /\ ~(~g[m].leaf /\ Num(g, m) = 0)
  <2>1. CASE m = n
    BY <2>1, <1>1, <1>2, <1>3, <1>8 DEF Filled
  <2>2. CASE m = l \/ m = r
    BY <2>2, <1>10
  <2>3. CASE m \notin {n, l, r}
    <3>1. m \in Here(node) /\ m \in Nodes /\ Num(g, m) = Num(node, m) /\ g[m].leaf = node[m].leaf
      BY <2>3, <1>7, <1>8, <1>11 DEF Here, OthersKept, Num
    <3>2. ~(~node[m].leaf /\ Num(node, m) = 0)
      BY <3>1, <1>1, NotGrowing
    <3> QED  BY <3>1, <3>2, <1>2 DEF Filled
  <2> QED  BY <2>1, <2>2, <2>3
<1>12. Filled(g, root, op')
  BY <1>11 DEF Filled
<1>13. /\ S[a + 1] \in Nat /\ s[n][i] \in Nat
       /\ to = l => s[n][i] < S[a + 1]
       /\ to = r => S[a + 1] < s[n][i]
  <2>1. /\ a + 1 \in 0..(len + 1) /\ A + 1 \in 0..(len + 1) /\ a + 1 \in Nat
        /\ (to = l => A + 1 < a + 1) /\ (to = r => a + 1 < A + 1)
    <3> HIDE DEF A, B
    <3>1. \/ to = l /\ a = A + 1
          \/ to = r /\ A = a + 1
      BY DEF A
    <3>2. a + 1 + Num(g, r) = len /\ Num(g, r) \in Nat /\ A \in Nat /\ B \in Nat /\ len = A + 1 + B
      BY <1>3, <1>8, <1>9
    <3> QED  BY <3>1, <3>2, <1>4
  <2> QED  BY <2>1, <1>3, <1>4 DEF Rises
<1>14. Ahead(s2[to][0], s2[to][Num(g, to) + 1])
  <2>1. op.key \in Nat
    BY <1>1, KeysAreNat DEF DeleteOp
  <2>2. CASE to = l /\ Way = i
    <3>1. s2[to][0] = s[n][Way - 1] /\ s2[to][Num(g, to) + 1] = S[a + 1] /\ s[n][Way] < S[a + 1]
      BY <2>2, <1>7, <1>13
    <3>2. op.inner # Nowhere => op.leftmost
      BY <2>2, <1>1, <1>4
    <3>3. s[n][Way] \in Nat /\ s[n][Way - 1] \in Nat
      BY <2>2, <1>3, <1>4
    <3> QED  BY <3>1, <3>2, <3>3, <2>1, <1>1, <1>13 DEF Ahead
  <2>3. CASE to = r /\ Way = i + 1
    <3>1. s2[to][0] = S[a + 1] /\ s2[to][Num(g, to) + 1] = s[n][Way] /\ S[a + 1] < s[n][Way - 1]
      BY <2>3, <1>3, <1>7, <1>13
    <3>2. op.inner # Nowhere => ~op.leftmost
      BY <2>3, <1>1, <1>3, <1>4
    <3>3. s[n][Way] \in Nat /\ s[n][Way - 1] \in Nat
      BY <2>3, <1>3, <1>4
    <3> QED  BY <3>1, <3>2, <3>3, <2>1, <1>1, <1>13 DEF Ahead
  <2> QED  BY <2>2, <2>3
<1>15. op.inner # Nowhere =>
               /\ op.inner[1] \in Here(g) /\ h[n] < h[op.inner[1]]
               /\ op.inner[2] \in 1..Num(g, op.inner[1])
               /\ g[op.inner[1]].keys[op.inner[2]] = op.key
  <2>1. SameKeys(node, g, {n, l, r})
    BY <1>7, <1>8 DEF OthersKept, SameKeys
  <2>2. /\ h[l] < h[n] /\ h[r] < h[n] /\ op.at # Nil /\ n = op.at
        /\ h[n] \in Nat /\ h[l] \in Nat /\ h[r] \in Nat
    BY <1>3
  <2>3. op.do = "delete" /\ op.at \in Here(node) /\ Good(node, root, op, h, s)
    BY <1>1
  <2>4. Awaits(g, h, n)
    BY <2>1, <2>2, <2>3, InnerKept
  <2> QED  BY <2>4 DEF Awaits
<1>16. op.inner # Nowhere => h[to] < h[op.inner[1]]
  <2> SUFFICES ASSUME op.inner # Nowhere PROVE h[to] < h[op.inner[1]]
    OBVIOUS
  <2>1. op.inner[1] \in Here(node) /\ h[n] < h[op.inner[1]]
    BY <1>7, <1>15
  <2>2. h[op.inner[1]] \in Nat
    BY <2>1, Handles
  <2>3. h[to] = h[l] \/ h[to] = h[r]
    OBVIOUS
  <2>4. h[to] < h[n] /\ h[to] \in Nat
    BY <2>3, <1>3
  <2> QED  BY <2>1, <2>2, <2>4, <1>3
<1>17. to \in Here(g) /\ to \in Nodes /\ to # Nil /\ Num(g, to) > Empty
  BY <1>3, <1>7, <1>10
<1>18. OpTyped(op') /\ OpFits(g, root, h, s2, op') /\ op'.do = "delete"
  BY <1>1, <1>14, <1>15, <1>16, <1>17, DescendFits, Zenon
<1>19. op'.do = op.do /\ op'.key = op.key /\ op' # Idle
  BY <1>1, <1>17, SMTT(30) DEF DeleteOp, Idle
<1>20. Good(node', root', op', h, s2)
  BY <1>2, <1>7, <1>12, <1>18 DEF Good, g
<1> QED  BY <1>7, <1>19, <1>20 DEF TreeInv, g

\* Delete lets a poor child take a key from the right.
LEMMA MoveFromRightStep ==
    ASSUME NEW h, NEW s, Good(node, root, op, h, s), MoveFromRight
    PROVE  /\ TreeInv' /\ KeysOf(node') = KeysOf(node)
           /\ op'.do = op.do /\ op'.key = op.key /\ op' # Idle
<1> DEFINE n == op.at
           l == OnWay
           r == RightOf
<1>1. /\ Passing /\ Poor(l) /\ Rich(r) /\ root' = root /\ op' = [op EXCEPT !.at = l]
      /\ node' = FromRight(node, n, Way, l, r)
  BY Zenon DEF MoveFromRight, Descend, FromRight
<1>2. /\ n \in Here(node) /\ ~node[n].leaf /\ Num(node, n) \in Nat /\ Way \in Nat /\ Way \in 1..(Num(node, n) + 1)
      /\ Typed(node, h, s) /\ TreeFits(node, root, h, s)
  BY <1>1, WayGap DEF Good
<1>3. /\ Way <= Num(node, n) /\ r = node[n].child[Way + 1] /\ l = node[n].child[Way]
      /\ Num(node, l) = Empty /\ Num(node, r) > Empty
  BY <1>1 DEF RightOf, Rich, Poor, OnWay, Count, Num
<1> HIDE DEF n, l, r
<1>4. Pair(node, h, s, root, n, Way, l, r)
  <2>1. Way + 1 \in 1..(Num(node, n) + 1)
    BY <1>2, <1>3
  <2> HIDE DEF Pair
  <2> QED  BY <2>1, <1>2, <1>3, TheChild DEF Pair
<1>5. Num(node, l) \in Nat /\ Num(node, r) \in Nat
  BY <1>4 DEF Pair, IsChild
<1>6. Num(node, r) >= 1 /\ Num(node, l) + 1 \in Nat
  BY <1>3, <1>5, NodeSizes
<1>7. CutEdit(node, node', n, Way, l, r, Num(node, l) + 1, Num(node, l) + 2, l)
  BY <1>1, <1>2, <1>4, <1>6, FromRightIs
<1> DEFINE a == Num(node, l) + 1
           z == Num(node, l) + 2
           i == Way
<1>8. /\ CutEdit(node, node', n, i, l, r, a, z, l) /\ a \in Nat /\ Pair(node, h, s, root, n, i, l, r)
      /\ Way = i /\ a = Num(node, l) + 1 /\ n = op.at
  BY <1>4, <1>6, <1>7, SMTT(30) DEF n
<1> HIDE DEF a, z, i
<1> QED  BY <1>1, <1>3, <1>8, MoveStep, SMTT(60)

\* Delete lets a poor child take a key from the left.
LEMMA MoveFromLeftStep ==
    ASSUME NEW h, NEW s, Good(node, root, op, h, s), MoveFromLeft
    PROVE  /\ TreeInv' /\ KeysOf(node') = KeysOf(node)
           /\ op'.do = op.do /\ op'.key = op.key /\ op' # Idle
<1> DEFINE n == op.at
           l == LeftOf
           r == OnWay
           i == Way - 1
           a == Num(node, l) - 1
<1>1. /\ Passing /\ Poor(r) /\ Rich(l) /\ root' = root /\ op' = [op EXCEPT !.at = r]
      /\ node' = FromLeft(node, n, i, l, r)
  BY Zenon DEF MoveFromLeft, Descend, FromLeft, Count, Num
<1>2. /\ n \in Here(node) /\ ~node[n].leaf /\ Num(node, n) \in Nat /\ Way \in Nat /\ Way \in 1..(Num(node, n) + 1)
      /\ Typed(node, h, s) /\ TreeFits(node, root, h, s)
  BY <1>1, WayGap DEF Good
<1>3. /\ Way > 1 /\ l = node[n].child[i] /\ r = node[n].child[Way]
      /\ Num(node, r) = Empty /\ Num(node, l) > Empty
  BY <1>1 DEF LeftOf, Rich, Poor, OnWay, Count, Num
<1>4. i \in 1..(Num(node, n) + 1) /\ i + 1 \in 1..(Num(node, n) + 1) /\ i + 1 = Way
  BY <1>2, <1>3
<1> HIDE DEF n, l, r, i
<1>5. Pair(node, h, s, root, n, i, l, r)
  <2>1. IsChild(node, h, s, root, n, i, l)
    BY <1>2, <1>3, <1>4, TheChild
  <2>2. r = node[n].child[i + 1]
    BY <1>3, <1>4
  <2>3. IsChild(node, h, s, root, n, i + 1, r)
    BY <2>2, <1>2, <1>4, TheChild
  <2> QED  BY <2>1, <2>3 DEF Pair
<1>6. Num(node, l) \in Nat /\ Num(node, r) \in Nat
  BY <1>5 DEF Pair, IsChild
<1>7. a \in Nat /\ Num(node, l) = a + 1
  BY <1>3, <1>6, NodeSizes
<1> HIDE DEF a
<1>8. CutEdit(node, node', n, i, l, r, a, a + 2, r)
  BY <1>1, <1>2, <1>5, <1>7, FromLeftIs
<1> DEFINE z == a + 2
<1>9. /\ CutEdit(node, node', n, i, l, r, a, z, r) /\ Way = i + 1 /\ n = op.at
  BY <1>4, <1>8 DEF n
<1> HIDE DEF z
<1> QED  BY <1>1, <1>3, <1>5, <1>7, <1>9, MoveStep, SMTT(60)

\* g is f with l holding all of the row; n lost a key, and is given up for the
\* root when it was its last.
Spent(f, n, top) == n = top /\ Num(f, n) = 1
Merged(f, g, n, i, l, r, top) ==
    /\ g \in Forest /\ g[r] = Freed
    /\ Num(g, l) = Long(f, l, r) /\ Piece(f, g, n, i, l, r, l, 0)
    /\ OthersKept(f, g, n, l, r)
    /\ Spent(f, n, top) => g[n] = Freed /\ g[l].parent = Nil
    /\ ~Spent(f, n, top) => /\ g[l].parent = n /\ g[n].leaf = f[n].leaf /\ g[n].parent = f[n].parent
                            /\ Shorter(g[n].keys, f[n].keys, i) /\ Shorter(g[n].child, f[n].child, i + 1)

MergeMarks(s, n, i, l, S) ==
    [s EXCEPT ![n] = [j \in Nat |-> IF j < i THEN s[n][j] ELSE s[n][j + 1]], ![l] = S]

MergedTop(f, n, l, top) == IF Spent(f, n, top) THEN l ELSE top

MergeDone(f, g, h, s, s2, top, n, i, l, r) ==
    /\ Typed(g, h, s2) /\ TreeFits(g, MergedTop(f, n, l, top), h, s2) /\ KeysOf(g) = KeysOf(f)
    /\ Here(g) = Here(f) \ (IF Spent(f, n, top) THEN {n, r} ELSE {r})
    /\ s2[l][0] = s[n][i - 1] /\ s2[l][Num(g, l) + 1] = s[n][i + 1]
    /\ ~Spent(f, n, top) => Num(g, n) + 1 = Num(f, n) /\ g[n].leaf = f[n].leaf

\* A merge leaves a tree with the same keys.
LEMMA MergeFits ==
    ASSUME NEW f, NEW h, NEW s, NEW top, Typed(f, h, s), TreeFits(f, top, h, s),
           NEW n, NEW i, NEW l, NEW r, Pair(f, h, s, top, n, i, l, r),
           n # top => Num(f, n) >= 2,
           NEW g, Merged(f, g, n, i, l, r, top)
    PROVE  MergeDone(f, g, h, s, MergeMarks(s, n, i, l, Row(f, s, l, r)), top, n, i, l, r)
<1> DEFINE S == Row(f, s, l, r)
           len == Long(f, l, r)
           s2 == MergeMarks(s, n, i, l, S)
           num == Num(f, n)
           T == {n, l, r}
           gone == Spent(f, n, top)
           t2 == MergedTop(f, n, l, top)
<1>1. /\ n \in Here(f) /\ n \in Nodes /\ n # Nil /\ ~f[n].leaf /\ num \in Nat /\ Len(f[n].child) = num + 1
      /\ l \in Here(f) /\ l \in Nodes /\ l # Nil /\ f[l].parent = n /\ h[n] = h[l] + 1 /\ l # n /\ l # top
      /\ r \in Here(f) /\ r \in Nodes /\ r # Nil /\ f[r].parent = n /\ h[n] = h[r] + 1 /\ r # n /\ r # top
      /\ h[n] \in Nat /\ h[l] \in Nat /\ h[r] \in Nat
      /\ i \in Nat /\ i + 1 \in 1..(num + 1) /\ f[n].child[i] = l /\ f[n].child[i + 1] = r
      /\ NodeFits(f, h, s, n) /\ Rises(s[n], num)
  BY DEF Pair, IsChild
<1>2. /\ RowFits(f, h, s, top, n, i, l, r) /\ l # r /\ i \in 1..num /\ Rises(S, len) /\ S \in [Nat -> Nat]
      /\ S[0] = s[n][i - 1] /\ S[len + 1] = s[n][i + 1] /\ S[Num(f, l) + 1] = s[n][i]
      /\ len \in Nat /\ len >= 1 /\ Num(f, l) + 1 \in 1..len
  <2>1. RowFits(f, h, s, top, n, i, l, r)
    BY PairIs
  <2>2. Num(f, l) \in Nat /\ Num(f, r) \in Nat
    BY DEF Pair, IsChild
  <2>3. len = Num(f, l) + 1 + Num(f, r)
    BY DEF Long
  <2>4. l # r /\ i \in 1..num /\ Rises(S, len) /\ S[0] = s[n][i - 1] /\ S[len + 1] = s[n][i + 1] /\ S[Num(f, l) + 1] = s[n][i]
    BY <2>1 DEF RowFits
  <2> HIDE DEF S, len
  <2> QED  BY <2>1, <2>2, <2>3, <2>4 DEF Rises
<1>3. /\ g \in Forest /\ g[r] = Freed /\ Num(g, l) = len
      /\ Piece(f, g, n, i, l, r, l, 0) /\ OthersKept(f, g, n, l, r)
      /\ gone => g[n] = Freed /\ g[l].parent = Nil
      /\ ~gone => /\ g[l].parent = n /\ g[n].leaf = f[n].leaf /\ g[n].parent = f[n].parent
                  /\ Shorter(g[n].keys, f[n].keys, i) /\ Shorter(g[n].child, f[n].child, i + 1)
  BY DEF Merged
<1>4. /\ gone => n = top /\ num = 1 /\ i = 1 /\ t2 = l
      /\ ~gone => num >= 2 /\ t2 = top
  <2>1. num \in Nat /\ i \in 1..num
    BY <1>1, <1>2
  <2>2. n # top => num >= 2
    OBVIOUS
  <2>3. gone <=> n = top /\ num = 1
    BY DEF Spent
  <2>4. t2 = IF gone THEN l ELSE top
    BY DEF MergedTop
  <2> HIDE DEF gone, t2, num
  <2> QED  BY <2>1, <2>2, <2>3, <2>4
<1>5. ~gone => /\ Num(g, n) \in Nat /\ Num(g, n) + 1 = num /\ Num(g, n) >= 1 /\ Len(g[n].child) = num /\ g[n].child # <<>>
               /\ \A j \in 1..Num(g, n) : g[n].keys[j] = IF j < i THEN f[n].keys[j] ELSE f[n].keys[j + 1]
               /\ \A j \in 1..num : g[n].child[j] = IF j < i + 1 THEN f[n].child[j] ELSE f[n].child[j + 1]
  <2> SUFFICES ASSUME ~gone
               PROVE  /\ Num(g, n) \in Nat /\ Num(g, n) + 1 = num /\ Num(g, n) >= 1 /\ Len(g[n].child) = num /\ g[n].child # <<>>
                      /\ \A j \in 1..Num(g, n) : g[n].keys[j] = IF j < i THEN f[n].keys[j] ELSE f[n].keys[j + 1]
                      /\ \A j \in 1..num : g[n].child[j] = IF j < i + 1 THEN f[n].child[j] ELSE f[n].child[j + 1]
    OBVIOUS
  <2>1. Shorter(g[n].keys, f[n].keys, i) /\ Shorter(g[n].child, f[n].child, i + 1) /\ num >= 2
    BY <1>3, <1>4
  <2>2. Len(g[n].keys) = Num(g, n) /\ Len(f[n].keys) = num
    BY DEF Num
  <2>3. Num(g, n) = num - 1 /\ \A j \in 1..(num - 1) : g[n].keys[j] = IF j < i THEN f[n].keys[j] ELSE f[n].keys[j + 1]
    BY <2>1, <2>2 DEF Shorter
  <2>4. Len(f[n].child) - 1 = num
    BY <1>1
  <2>5. Len(g[n].child) = num /\ \A j \in 1..num : g[n].child[j] = IF j < i + 1 THEN f[n].child[j] ELSE f[n].child[j + 1]
    BY <2>1, <2>4 DEF Shorter
  <2>6. g[n].child # <<>>
    BY <2>1, <2>5, <1>1, FreedIs
  <2>7. Num(g, n) \in Nat /\ Num(g, n) + 1 = num /\ Num(g, n) >= 1
    BY <2>1, <2>3, <1>1
  <2>8. \A j \in 1..Num(g, n) : g[n].keys[j] = IF j < i THEN f[n].keys[j] ELSE f[n].keys[j + 1]
    BY <2>3, Zenon
  <2> QED  BY <2>5, <2>6, <2>7, <2>8, Zenon
<1>6. /\ s \in Marks /\ h \in Heights /\ f \in Forest /\ \A j \in Nat : s[n][j] \in Nat
  BY <1>1, Zenon DEF Typed, Marks
<1> HIDE DEF S, len, gone, t2
<1>7. /\ s2 \in Marks /\ \A m \in Nodes \ T : s2[m] = s[m]
      /\ \A j \in Nat : s2[n][j] = IF j < i THEN s[n][j] ELSE s[n][j + 1]
      /\ s2[l] = S
  <2> DEFINE u == [j \in Nat |-> IF j < i THEN s[n][j] ELSE s[n][j + 1]]
  <2>1. u \in [Nat -> Nat] /\ \A j \in Nat : u[j] = IF j < i THEN s[n][j] ELSE s[n][j + 1]
    BY <1>6
  <2>2. s2 = [s EXCEPT ![n] = u, ![l] = S]
    BY DEF MergeMarks
  <2> HIDE DEF u, s2
  <2>3. /\ s2 \in Marks /\ (\A m \in Nodes \ T : s2[m] = s[m]) /\ s2[n] = u /\ s2[l] = S
    BY <2>1, <2>2, <1>1, <1>2, <1>6, Zenon DEF Marks
  <2> QED  BY <2>1, <2>3
<1> HIDE DEF s2, num
<1>8. /\ l \in Here(g) /\ r \notin Here(g) /\ (n \in Here(g) <=> ~gone)
      /\ \A m \in Nodes \ T : m \in Here(g) <=> m \in Here(f)
  <2>1. l \in Here(g)
    <3>1. Len(g[l].keys) >= 1
      BY <1>2, <1>3 DEF Num
    <3>2. g[l] # Freed
      BY <3>1, FreedIs
    <3> QED  BY <3>2, <1>1 DEF Here
  <2>2. r \notin Here(g)
    BY <1>3 DEF Here
  <2>3. n \in Here(g) <=> ~gone
    BY <1>1, <1>3, <1>5, FreedIs DEF Here
  <2>4. \A m \in Nodes \ T : m \in Here(g) <=> m \in Here(f)
    BY <1>3 DEF OthersKept, Here
  <2> QED  BY <2>1, <2>2, <2>3, <2>4
<1>9. Elsewhere(f, g, h, h, s, s2, T)
  <2> SUFFICES ASSUME NEW m \in Nodes \ T
               PROVE  /\ g[m].leaf = f[m].leaf /\ g[m].keys = f[m].keys /\ g[m].child = f[m].child
                      /\ h[m] = h[m] /\ s2[m] = s[m]
                      /\ m \in Here(g) <=> m \in Here(f)
                      /\ m \in Here(f) => IF f[m].parent \in T THEN g[m].parent \in T ELSE g[m].parent = f[m].parent
    BY DEF Elsewhere
  <2>1. g[m].leaf = f[m].leaf /\ g[m].keys = f[m].keys /\ g[m].child = f[m].child
    BY <1>3 DEF OthersKept
  <2>2. m \in Here(f) => IF f[m].parent \in T THEN g[m].parent \in T ELSE g[m].parent = f[m].parent
    BY <1>3 DEF OthersKept
  <2> QED  BY <2>1, <2>2, <1>7, <1>8
<1>10. NodeFits(g, h, s2, l)
  <2>1. Labelled(g, s2, S, l, 0)
    BY <1>2, <1>3, <1>7 DEF Labelled
  <2> QED  BY <2>1, <1>1, <1>3, <1>9, PieceFits DEF S
<1>11. s2[l][0] = s[n][i - 1] /\ s2[l][Num(g, l) + 1] = s[n][i + 1]
  BY <1>2, <1>3, <1>7
<1>12. ~gone => Rises(s2[n], Num(g, n))
  <2> SUFFICES ASSUME ~gone PROVE Rises(s2[n], Num(g, n))
    OBVIOUS
  <2> DEFINE t == s[n]
             t3 == s2[n]
             x == Num(g, n)
  <2>1. /\ x \in Nat /\ Rises(t, x + 1) /\ i \in 1..(x + 1)
        /\ t3 \in [Nat -> Nat] /\ \A j \in Nat : t3[j] = IF j < i THEN t[j] ELSE t[j + 1]
    BY <1>1, <1>2, <1>5, <1>7, Zenon DEF Marks
  <2> HIDE DEF t, t3, x
  <2>2. Rises(t3, x)
    BY <2>1, RisesShorter, Zenon
  <2> QED  BY <2>2 DEF t3, x
<1>13. ~gone => s2[n][0] = s[n][0] /\ s2[n][Num(g, n) + 1] = s[n][num + 1]
  BY <1>1, <1>2, <1>5, <1>7
<1>14. ~gone => NodeFits(g, h, s2, n)
  <2> SUFFICES ASSUME ~gone PROVE NodeFits(g, h, s2, n)
    OBVIOUS
  <2> DEFINE x == Num(g, n)
  <2>0. x \in Nat /\ x + 1 = num /\ x >= 1 /\ Len(g[n].child) = num
    BY <1>5
  <2>1. \A j \in 0..(x + 1) : s2[n][j] = s2[n][0 + j]
    BY <2>0
  <2>2. ASSUME NEW j \in 1..x PROVE g[n].keys[j] = s2[n][0 + j]
    <3>1. /\ j \in Nat /\ j + 1 \in Nat /\ 0 + j = j /\ j \in 1..Num(f, n) /\ j + 1 \in 1..Num(f, n)
      BY <2>0, <2>2 DEF num
    <3>2. f[n].keys[j] = s[n][j] /\ f[n].keys[j + 1] = s[n][j + 1]
      BY <3>1, <1>1 DEF NodeFits
    <3> QED  BY <3>1, <3>2, <2>2, <1>5, <1>7
  <2>3. g[n].leaf <=> h[n] = 0
    BY <1>1, <1>3 DEF NodeFits
  <2>4. Len(g[n].child) = IF g[n].leaf THEN 0 ELSE x + 1
    BY <2>0, <1>1, <1>3
  <2>5. ASSUME NEW j \in 1..Len(g[n].child) PROVE Hooked(g, h, s2, g[n].child[j], n, s2[n][0 + j - 1], s2[n][0 + j])
    <3>1. j \in Nat /\ j \in 1..num /\ 0 + j = j /\ 0 + j - 1 = j - 1 /\ j - 1 \in Nat /\ j + 1 \in Nat /\ j - 1 + 1 = j
      BY <2>0, <2>5
    <3>2. CASE j = i
      <4>1. j < i + 1 /\ j - 1 < i /\ ~(j < i)
        BY <3>1, <3>2
      <4>2. g[n].child[j] = l /\ s2[n][j - 1] = s[n][i - 1] /\ s2[n][j] = s[n][i + 1]
        BY <4>1, <3>1, <3>2, <1>1, <1>5, <1>7, Zenon
      <4> QED  BY <4>2, <3>1, <1>1, <1>3, <1>8, <1>11 DEF Hooked
    <3>3. CASE j < i
      <4>1. j < i + 1 /\ j - 1 < i /\ j # i /\ j # i + 1 /\ j \in 1..(Num(f, n) + 1)
        BY <3>1, <3>3, <1>1 DEF num
      <4>2. g[n].child[j] = f[n].child[j] /\ s2[n][j - 1] = s[n][j - 1] /\ s2[n][j] = s[n][j]
        BY <4>1, <3>1, <3>3, <1>5, <1>7
      <4>3. Hooked(g, h, s2, f[n].child[j], n, s[n][j - 1], s[n][j])
        BY <4>1, <1>3, <1>9, OtherChild
      <4> QED  BY <4>2, <4>3, <3>1
    <3>4. CASE j > i
      <4> DEFINE y == j + 1
      <4>1. /\ ~(j < i + 1) /\ ~(j - 1 < i) /\ ~(j < i) /\ y # i /\ y # i + 1 /\ y \in 1..(Num(f, n) + 1)
            /\ y - 1 = j
        BY <3>1, <3>4, <1>1 DEF num
      <4>2. g[n].child[j] = f[n].child[y] /\ s2[n][j - 1] = s[n][j] /\ s2[n][j] = s[n][y]
        BY <4>1, <3>1, <1>5, <1>7
      <4> HIDE DEF y
      <4>3. Hooked(g, h, s2, f[n].child[y], n, s[n][y - 1], s[n][y])
        BY <4>1, <1>3, <1>9, OtherChild, ZenonT(60)
      <4> QED  BY <4>1, <4>2, <4>3, <3>1
    <3> QED  BY <3>1, <3>2, <3>3, <3>4, <1>1
  <2>6. 0 + x <= x
    BY <2>0
  <2>7. IsPart(g, h, s2, n, s2[n], 0, x)
    BY <2>1, <2>2, <2>3, <2>4, <2>5, <2>6 DEF IsPart
  <2> QED  BY <2>0, <2>7, <1>1, <1>3, <1>12, PartFits
<1>15. T \subseteq Nodes /\ top \in Here(f) /\ top \in Nodes /\ f[top].parent = Nil
  BY <1>1, HandlesIn, Zenon DEF TreeFits
<1>16. StillHangs(f, g, h, h, s, s2, T)
  <2> SUFFICES ASSUME NEW m \in T, m \in Here(f), f[m].parent \in Nodes \ T
               PROVE  /\ m \in Here(g) /\ g[m].parent = f[m].parent /\ h[m] = h[m]
                      /\ s2[m][0] = s[m][0] /\ s2[m][Num(g, m) + 1] = s[m][Num(f, m) + 1]
    BY DEF StillHangs
  <2>1. m = n
    BY <1>1, Zenon
  <2>2. ~gone
    <3>1. Nil \notin Nodes
      BY BTreeAssumption DEF Nil
    <3> QED  BY <3>1, <2>1, <1>4, <1>15
  <2> QED  BY <2>1, <2>2, <1>1, <1>3, <1>8, <1>13 DEF num
\* The nodes that are left.
<1>17. ASSUME NEW m \in Here(g), m # l
       PROVE  /\ m \in Here(f) /\ m \in Nodes /\ m # r /\ (m = n => ~gone) /\ (gone => m # top)
  BY <1>1, <1>4, <1>8, <1>17 DEF Here
<1>18. ASSUME NEW m \in Here(g), m # l, m # n, m # top
       PROVE  /\ f[m].parent \in Here(f)
              /\ \/ /\ f[m].parent = n /\ g[m].parent = n /\ ~gone
                    /\ \E x \in 1..Len(g[n].child) : g[n].child[x] = m
                 \/ /\ f[m].parent = l \/ f[m].parent = r
                    /\ g[m].parent = l /\ \E x \in 1..Len(g[l].child) : g[l].child[x] = m
                 \/ f[m].parent \notin T /\ g[m] = f[m]
  <2>1. m \in Here(f) /\ m \in Nodes /\ m # r /\ m \in Nodes \ T
    BY <1>17, <1>18
  <2>2. PICK x \in Nat : f[m].parent \in Here(f) /\ IsChild(f, h, s, top, f[m].parent, x, m)
    BY <2>1, <1>18, ChildSomewhere
  <2>3. CASE f[m].parent = n
    <3>1. x \in 1..(num + 1) /\ f[n].child[x] = m /\ x # i /\ x # i + 1
      BY <2>2, <2>3, <2>1, <1>1, <1>18, Zenon DEF IsChild, num
    <3>2. ~gone
      BY <3>1, <1>4
    <3>3. g[m] = f[m]
      BY <2>1, <2>3, <1>1, <1>3, Zenon DEF OthersKept
    <3>4. \E y \in 1..Len(g[n].child) : g[n].child[y] = m
      <4>1. CASE x < i
        <5>1. x \in 1..Len(g[n].child) /\ x < i + 1
          BY <4>1, <3>1, <3>2, <1>1, <1>5, SMTT(60)
        <5> QED  BY <5>1, <3>1, <3>2, <1>5, Zenon
      <4>2. CASE x > i + 1
        <5> DEFINE y == x - 1
        <5>1. y \in 1..Len(g[n].child) /\ ~(y < i + 1) /\ y + 1 = x /\ y \in 1..num
          BY <4>2, <3>1, <3>2, <1>1, <1>5, SMTT(30)
        <5> HIDE DEF y
        <5>2. g[n].child[y] = f[n].child[y + 1]
          BY <5>1, <3>2, <1>5, Zenon
        <5> QED  BY <5>1, <5>2, <3>1
      <4> QED  BY <4>1, <4>2, <3>1, <1>1
    <3> QED  BY <2>2, <2>3, <3>2, <3>3, <3>4
  <2>4. CASE f[m].parent = l \/ f[m].parent = r
    <3>1. PICK j \in Nat : ~f[l].leaf /\ j \in 1..(len + 1) /\ RowChild(f, l, r, j) = m
      BY <2>1, <2>4, <1>18, RowIndex DEF len
    <3>2. 0 + j = j /\ j \in 1..(Num(g, l) + 1)
      BY <3>1, <1>3
    <3>3. g[l].child[j] = RowChild(f, l, r, 0 + j) /\ g[RowChild(f, l, r, 0 + j)].parent = l
          /\ Len(g[l].child) = Num(g, l) + 1
      BY <3>1, <3>2, <1>3 DEF Piece
    <3> QED  BY <3>1, <3>2, <3>3, <2>2, <2>4
  <2>5. CASE f[m].parent \notin T
    <3>1. g[m] = f[m]
      BY <2>1, <2>5, <1>3 DEF OthersKept
    <3> QED  BY <3>1, <2>2, <2>5
  <2> QED  BY <2>3, <2>4, <2>5
<1>19. ASSUME NEW m \in Here(g), m # t2 PROVE h[m] < h[t2]
  <2>1. CASE gone
    <3>1. m # l /\ m # n /\ m # top /\ t2 = l /\ n = top
      BY <2>1, <1>4, <1>17, <1>19
    <3>2. m \in Here(f) /\ m \in Nodes
      BY <3>1, <1>17
    <3>3. f[m].parent \in Here(f) /\ f[m].parent # n
      BY <2>1, <3>1, <1>18, <1>1
    <3>4. PICK x \in Nat : IsChild(f, h, s, top, f[m].parent, x, m)
      BY <3>1, <3>2, ChildSomewhere
    <3>5. h[f[m].parent] = h[m] + 1 /\ h[m] \in Nat
      BY <3>4 DEF IsChild
    <3>6. h[f[m].parent] < h[top]
      BY <3>1, <3>3 DEF TreeFits, Grounded
    <3> QED  BY <3>1, <3>5, <3>6, <1>1
  <2>2. CASE ~gone
    <3>1. t2 = top /\ m # top
      BY <2>2, <1>4, <1>19
    <3>2. m \in Here(f)
      BY <1>1, <1>17
    <3> QED  BY <3>1, <3>2 DEF TreeFits, Grounded
  <2> QED  BY <2>1, <2>2
<1>20. t2 \in Here(g) /\ t2 # r
  <2>1. CASE gone
    BY <2>1, <1>2, <1>4, <1>8
  <2>2. CASE ~gone
    <3>1. CASE top = n
      BY <2>2, <3>1, <1>1, <1>4, <1>8
    <3>2. CASE top # n
      BY <2>2, <3>2, <1>1, <1>4, <1>8, <1>15
    <3> QED  BY <3>1, <3>2
  <2> QED  BY <2>1, <2>2
<1>21. g[t2].parent = Nil /\ s2[t2][0] = 0 /\ s2[t2][Num(g, t2) + 1] = Top
  <2>0. s[top][0] = 0 /\ s[top][Num(f, top) + 1] = Top
    BY <1>15, HandlesIn DEF TreeFits
  <2>1. CASE gone
    <3>1. i - 1 = 0 /\ i + 1 = num + 1 /\ n = top /\ t2 = l
      BY <2>1, <1>4
    <3> QED  BY <2>0, <2>1, <3>1, <1>3, <1>11 DEF num
  <2>2. CASE ~gone /\ top = n
    BY <2>0, <2>2, <1>3, <1>4, <1>13, <1>15 DEF num
  <2>3. CASE ~gone /\ top # n
    <3>1. top \in Nodes \ T /\ t2 = top
      BY <2>3, <1>1, <1>4, <1>15
    <3>2. g[top] = f[top]
      <4>1. f[top].parent # l /\ f[top].parent # r
        BY <1>1, <1>15
      <4> QED  BY <3>1, <4>1, <1>3 DEF OthersKept
    <3> QED  BY <2>0, <3>1, <3>2, <1>7, <1>15 DEF Num
  <2> QED  BY <2>1, <2>2, <2>3
<1>22. ASSUME NEW m \in Here(g), m # t2, g[m].parent \in T
       PROVE  /\ g[m].parent \in Here(g)
              /\ \E x \in 1..Len(g[g[m].parent].child) : g[g[m].parent].child[x] = m
  <2>1. CASE m = l
    <3>1. ~gone /\ g[l].parent = n /\ n \in Here(g)
      BY <2>1, <1>3, <1>4, <1>8, <1>22
    <3>a. Len(g[n].child) = num /\ \A j \in 1..num : g[n].child[j] = IF j < i + 1 THEN f[n].child[j] ELSE f[n].child[j + 1]
      BY <3>1, <1>5
    <3>b. i \in 1..num /\ i < i + 1
      BY <1>2
    <3>2. i \in 1..Len(g[n].child)
      BY <3>a, <3>b
    <3>3. g[n].child[i] = l
      BY <3>a, <3>b, <1>1, Zenon
    <3> QED  BY <2>1, <3>1, <3>2, <3>3
  <2>2. m # n
    <3> SUFFICES ASSUME m = n PROVE FALSE
      OBVIOUS
    <3>1. ~gone /\ n # top /\ g[n].parent = f[n].parent
      BY <1>3, <1>4, <1>8, <1>22
    <3>2. f[n].parent \in T
      BY <3>1, <1>22
    <3>3. PICK x \in Nat : IsChild(f, h, s, top, f[n].parent, x, n)
      BY <3>1, <1>1, ChildSomewhere, Zenon
    <3>4. h[f[n].parent] = h[n] + 1
      BY <3>3 DEF IsChild
    <3> DEFINE p == f[n].parent
    <3>5. h[p] = h[n] + 1 /\ (p = l \/ p = r \/ p = n)
      BY <3>2, <3>4
    <3> HIDE DEF p
    <3> QED  BY <3>5, <1>1, SMTT(30)
  <2>3. CASE m # l
    <3>1. m # top
      BY <2>3, <1>4, <1>17, <1>22
    <3>2. \/ /\ g[m].parent = n /\ ~gone
             /\ \E x \in 1..Len(g[n].child) : g[n].child[x] = m
          \/ /\ g[m].parent = l /\ \E x \in 1..Len(g[l].child) : g[l].child[x] = m
      BY <2>2, <2>3, <3>1, <1>18, <1>22
    <3> QED  BY <3>2, <1>8
  <2> QED  BY <2>1, <2>3
<1>23. Rebuild(f, g, top, t2, h, s2, T)
  <2>1. \A m \in T : m \in Here(g) => NodeFits(g, h, s2, m)
    BY <1>8, <1>10, <1>14
  <2>2. \A m \in T : m \in Here(g) /\ m # t2 =>
           g[m].parent \in T \/ (m \in Here(f) /\ m # top /\ g[m].parent = f[m].parent)
    BY <1>1, <1>3, <1>4, <1>8
  <2>3. top \notin T => t2 = top
    BY <1>4
  <2> HIDE DEF T
  <2> QED  BY <2>1, <2>2, <2>3, <1>19, <1>20, <1>21, <1>22 DEF Rebuild
<1>24. Typed(g, h, s2)
  BY <1>3, <1>6, <1>7 DEF Typed
<1>25. TreeFits(g, t2, h, s2)
  <2> HIDE DEF T
  <2> QED  BY <1>15, <1>9, <1>16, <1>23, <1>24, Rebuilt
<1>26. ASSUME NEW k \in Keys, Marked(f, s, T, k) PROVE Marked(g, s2, T, k)
  <2>1. Besides(f, s, n, i, k) \/ OnRow(S, len, k)
    BY <1>26, RowMarked DEF S, len
  <2>2. CASE Besides(f, s, n, i, k)
    <3>1. PICK y \in Nat : y \in 1..num /\ y # i /\ s[n][y] = k
      BY <2>2 DEF Besides, num
    <3>2. ~gone
      BY <3>1, <1>4
    <3>3. \E z \in Nat : z \in 1..Num(g, n) /\ s2[n][z] = k
      <4>1. CASE y < i
        <5>1. y \in 1..Num(g, n)
          BY <3>1, <3>2, <4>1, <1>1, <1>2, <1>5, SMTT(30)
        <5> QED  BY <5>1, <3>1, <4>1, <1>7
      <4>2. CASE y > i
        <5> DEFINE z == y - 1
        <5>1. z \in Nat /\ z \in 1..Num(g, n) /\ ~(z < i) /\ z + 1 = y
          BY <3>1, <3>2, <4>2, <1>1, <1>2, <1>5
        <5> HIDE DEF z
        <5>2. s2[n][z] = k
          BY <5>1, <3>1, <1>7
        <5> QED  BY <5>1, <5>2
      <4> QED  BY <3>1, <4>1, <4>2, <1>1
    <3> QED  BY <3>2, <3>3, <1>1, <1>8 DEF Marked
  <2>3. CASE OnRow(S, len, k)
    <3>1. PICK j \in Nat : j \in 1..len /\ S[j] = k
      BY <2>3 DEF OnRow
    <3> QED  BY <3>1, <1>1, <1>3, <1>7, <1>8, Zenon DEF Marked
  <2> QED  BY <2>1, <2>2, <2>3
<1>27. ASSUME NEW k \in Keys, Marked(g, s2, T, k) PROVE Marked(f, s, T, k)
  <2>1. PICK m \in T, y \in Nat : m \in Here(g) /\ y \in 1..Num(g, m) /\ s2[m][y] = k
    BY <1>27 DEF Marked
  <2>2. Besides(f, s, n, i, k) \/ OnRow(S, len, k)
    <3>1. CASE m = n
      <4>1. ~gone /\ y \in 1..Num(g, n) /\ s2[n][y] = k
        BY <2>1, <3>1, <1>8
      <4>a. Num(g, n) \in Nat /\ Num(g, n) + 1 = num /\ y \in 1..Num(g, n)
        BY <4>1, <1>5
      <4>2. CASE y < i
        <5>a. y \in 1..num /\ y # i
          BY <4>a, <4>2, <2>1, <1>1, SMTT(30)
        <5>b. s[n][y] = k
          BY <4>1, <4>2, <2>1, <1>7
        <5>1. y \in 1..num /\ y # i /\ s[n][y] = k
          BY <5>a, <5>b
        <5> QED  BY <5>1 DEF Besides, num
      <4>3. CASE ~(y < i)
        <5> DEFINE z == y + 1
        <5>a. z \in Nat /\ z \in 1..num /\ z # i
          BY <4>a, <4>3, <2>1, <1>1
        <5>b. s[n][z] = k
          BY <4>1, <4>3, <2>1, <1>7
        <5>1. z \in Nat /\ z \in 1..num /\ z # i /\ s[n][z] = k
          BY <5>a, <5>b
        <5> HIDE DEF z
        <5> QED  BY <5>1 DEF Besides, num
      <4> QED  BY <4>2, <4>3
    <3>2. CASE m = l
      <4>1. y \in 1..len /\ S[y] = k
        BY <3>2, <2>1, <1>3, <1>7
      <4> QED  BY <4>1 DEF OnRow
    <3> QED  BY <2>1, <3>1, <3>2, <1>8
  <2> QED  BY <2>2, RowMarked DEF S, len
<1>28. KeysOf(g) = KeysOf(f)
  <2>1. \A k \in Keys : Marked(f, s, T, k) <=> Marked(g, s2, T, k)
    BY <1>26, <1>27
  <2> HIDE DEF T
  <2> QED  BY <2>1, <1>9, <1>24, <1>25, KeysKept
<1>29. Here(g) = Here(f) \ (IF gone THEN {n, r} ELSE {r})
  <2>1. Here(g) \subseteq Nodes /\ Here(f) \subseteq Nodes
    BY DEF Here
  <2>2. \A m \in Nodes : m \in Here(g) <=> m \in Here(f) /\ m # r /\ ~(gone /\ m = n)
    BY <1>1, <1>2, <1>8, Zenon
  <2> QED  BY <2>1, <2>2
<1>30. MergeDone(f, g, h, s, s2, top, n, i, l, r)
  BY <1>3, <1>5, <1>11, <1>24, <1>25, <1>28, <1>29 DEF MergeDone, gone, t2, num
<1> QED  BY <1>30 DEF S, s2

\* w is p, then e, then q.
Link(w, p, e, q) ==
    /\ Len(w) = Len(p) + 1 + Len(q)
    /\ \A j \in 1..(Len(p) + 1 + Len(q)) :
         w[j] = IF j <= Len(p) THEN p[j] ELSE IF j = Len(p) + 1 THEN e ELSE q[j - Len(p) - 1]

\* Joined, by what is at each index.
LEMMA JoinedIs ==
    ASSUME NEW S, NEW p \in Seq(S), NEW e \in S, NEW q \in Seq(S)
    PROVE  Joined(p, e, q) \in Seq(S) /\ Link(Joined(p, e, q), p, e, q)
<1> DEFINE u == Append(p, e)
           x == Len(p)
           y == Len(q)
           w == Joined(p, e, q)
<1>1. u \in Seq(S) /\ Len(u) = x + 1 /\ u[x + 1] = e /\ \A j \in 1..x : u[j] = p[j]
  BY AppendProperties
<1>2. x \in Nat /\ y \in Nat
  OBVIOUS
<1>3. w = u \o q
  BY DEF Joined
<1> HIDE DEF u, w
<1>4. w \in Seq(S) /\ Chain(w, u, q)
  BY <1>1, <1>3, ConcatIs
<1> HIDE DEF x
<1>5. Len(w) = x + 1 + y /\ \A j \in 1..(x + 1 + y) : w[j] = IF j <= x + 1 THEN u[j] ELSE q[j - (x + 1)]
  BY <1>1, <1>4 DEF Chain
<1>6. ASSUME NEW j \in 1..(x + 1 + y)
      PROVE  w[j] = IF j <= x THEN p[j] ELSE IF j = x + 1 THEN e ELSE q[j - x - 1]
  <2>1. CASE j <= x
    <3>1. j \in 1..x /\ j <= x + 1
      BY <2>1, <1>2, <1>6
    <3> QED  BY <3>1, <2>1, <1>1, <1>5, <1>6
  <2>2. CASE j = x + 1
    <3>1. j <= x + 1 /\ ~(j <= x)
      BY <2>2, <1>2
    <3> QED  BY <3>1, <2>2, <1>1, <1>5, <1>6
  <2>3. CASE j > x + 1
    <3>1. ~(j <= x + 1) /\ ~(j <= x) /\ j # x + 1 /\ j - (x + 1) = j - x - 1
      BY <2>3, <1>2, <1>6
    <3> QED  BY <3>1, <1>5, <1>6
  <2> QED  BY <2>1, <2>2, <2>3, <1>2, <1>6
<1> QED  BY <1>4, <1>5, <1>6 DEF Link, w, x

Changed(f, n, k, c) == [f EXCEPT ![n].keys = k, ![n].child = c]

\* Changed, node by node.
LEMMA ChangedIs ==
    ASSUME NEW f \in Forest, NEW n \in Nodes, NEW k \in Seq(Keys), NEW c \in Seq(Nodes)
    PROVE  LET e == Changed(f, n, k, c) IN
           /\ e \in Forest
           /\ e[n].leaf = f[n].leaf /\ e[n].parent = f[n].parent /\ e[n].keys = k /\ e[n].child = c
           /\ \A m \in Nodes \ {n} : e[m] = f[m]
<1> DEFINE a == [f EXCEPT ![n].keys = k]
           e == [a EXCEPT ![n].child = c]
<1>1. f[n] \in NodeType
  BY DEF Forest
<1>2. /\ a \in Forest /\ \A m \in Nodes \ {n} : a[m] = f[m]
      /\ a[n] = [f[n] EXCEPT !.keys = k]
  BY <1>1, Zenon DEF Forest, NodeType
<1> HIDE DEF a
<1>3. a[n] \in NodeType
  BY <1>2, Zenon DEF Forest
<1>4. /\ e \in Forest /\ \A m \in Nodes \ {n} : e[m] = a[m]
      /\ e[n] = [a[n] EXCEPT !.child = c]
  BY <1>2, <1>3, Zenon DEF Forest, NodeType
<1>5. e = Changed(f, n, k, c)
  BY DEF a, Changed
<1> HIDE DEF e
<1>6. e[n].leaf = f[n].leaf /\ e[n].parent = f[n].parent /\ e[n].keys = k /\ e[n].child = c
  BY <1>1, <1>2, <1>3, <1>4 DEF NodeType
<1> QED  BY <1>2, <1>4, <1>5, <1>6

\* A sequence of handles without the one at i, with l in place of the next.
LEMMA JoinedChildren ==
    ASSUME NEW S, NEW q \in Seq(S), NEW i \in Nat, i \in 1..(Len(q) - 1), NEW l, l \in S, l = q[i]
    PROVE  LET c == [RemoveAt(q, i) EXCEPT ![i] = l] IN c \in Seq(S) /\ Shorter(c, q, i + 1)
<1> DEFINE b == RemoveAt(q, i)
           c == [b EXCEPT ![i] = l]
           x == Len(q)
<1>1. x \in Nat /\ i \in 1..Len(q)
  OBVIOUS
<1>2. b \in Seq(S) /\ Shorter(b, q, i)
  BY <1>1, RemovedIs
<1> HIDE DEF b
<1>3. Len(b) = x - 1 /\ \A j \in 1..(x - 1) : b[j] = IF j < i THEN q[j] ELSE q[j + 1]
  BY <1>2 DEF Shorter
<1>4. i \in 1..Len(b)
  BY <1>3
<1>5. c \in Seq(S) /\ Len(c) = Len(b) /\ \A j \in 1..Len(b) : c[j] = IF j = i THEN l ELSE b[j]
  BY <1>2, <1>4, ExceptSeq
<1> HIDE DEF c, x
<1>6. \A j \in 1..(x - 1) : c[j] = IF j < i + 1 THEN q[j] ELSE q[j + 1]
  <2> SUFFICES ASSUME NEW j \in 1..(x - 1) PROVE c[j] = IF j < i + 1 THEN q[j] ELSE q[j + 1]
    OBVIOUS
  <2>1. CASE j < i
    <3>1. j < i + 1 /\ j # i
      BY <2>1, <1>1
    <3> QED  BY <3>1, <2>1, <1>3, <1>5
  <2>2. CASE j = i
    <3>1. j < i + 1
      BY <2>2
    <3> QED  BY <3>1, <2>2, <1>3, <1>5
  <2>3. CASE j > i
    <3>1. ~(j < i + 1) /\ ~(j < i) /\ j # i
      BY <2>3, <1>1
    <3> QED  BY <3>1, <1>3, <1>5
  <2> QED  BY <2>1, <2>2, <2>3, <1>1
<1> QED  BY <1>3, <1>5, <1>6 DEF Shorter, b, c, x

\* What Merge does to the nodes it changes, and when it gives up the root.
LEMMA MergeIs ==
    ASSUME NEW h, NEW s, Typed(node, h, s), TreeFits(node, root, h, s), root \in Nodes \cup {Nil},
           NEW n, NEW i, NEW l, NEW r, Pair(node, h, s, root, n, i, l, r), Merge(n, i)
    PROVE  /\ Merged(node, node', n, i, l, r, root)
           /\ root' = MergedTop(node, n, l, root) /\ op' = [op EXCEPT !.at = l]
<1> DEFINE A == Num(node, l)
           B == Num(node, r)
           g == node'
           lk == Joined(node[l].keys, node[n].keys[i], node[r].keys)
           lc == node[l].child \o node[r].child
           kids == ToSet(node[r].child)
           nk == RemoveAt(node[n].keys, i)
           rc == RemoveAt(node[n].child, i)
           nc == [rc EXCEPT ![i] = l]
           d(j) == RowChild(node, l, r, j)
           K(j) == RowKey(node, n, i, l, r, j)
           len == Long(node, l, r)
           gone == Spent(node, n, root)
           join == Changed(node, l, lk, lc)
           ad == Adopt(join, kids, l)
           tree == KeyDelete(ad, n, i)
           lost == {r} \cup (IF n = root /\ Count(n) = 1 THEN {n} ELSE {})
<1>1. /\ PairTyped(node, h, s, root, n, i, l, r) /\ A \in Nat /\ B \in Nat /\ len = A + 1 + B
      /\ node \in Forest /\ n \in Nodes /\ l \in Nodes /\ r \in Nodes /\ n # l /\ n # r /\ l # r
      /\ node[n].keys \in Seq(Keys) /\ node[l].keys \in Seq(Keys) /\ node[r].keys \in Seq(Keys)
      /\ node[l].child \in Seq(Nodes) /\ node[r].child \in Seq(Nodes)
      /\ Len(node[n].keys) = Num(node, n) /\ Len(node[l].keys) = A /\ Len(node[r].keys) = B /\ Num(node, n) \in Nat
      /\ i \in 1..Num(node, n) /\ (node[l].leaf <=> node[r].leaf)
      /\ node[n] \in NodeType /\ node[l] \in NodeType /\ node[r] \in NodeType
  <2>1. PairTyped(node, h, s, root, n, i, l, r)
    BY PairIsTyped
  <2> QED  BY <2>1 DEF PairTyped, Long
<1>2. /\ node[n].child \in Seq(Nodes) /\ Len(node[n].child) = Num(node, n) + 1 /\ i \in Nat
      /\ node[n].child[i] = l /\ node[n].child[i + 1] = r /\ ~node[n].leaf
      /\ node[l].parent = n /\ node[r].parent = n
  <2>1. /\ Len(node[n].child) = Num(node, n) + 1 /\ i \in Nat
        /\ node[n].child[i] = l /\ node[n].child[i + 1] = r /\ ~node[n].leaf
        /\ node[l].parent = n /\ node[r].parent = n
    BY DEF Pair, IsChild
  <2>2. node[n].child \in Seq(Nodes)
    BY <1>1, SMTT(60) DEF NodeType
  <2> QED  BY <2>1, <2>2
<1>3. /\ g = [m \in Nodes |->
                     CASE m \in lost                 -> Freed
                       [] m = n /\ n \notin lost      -> [tree[n] EXCEPT !.child[i] = l]
                       [] m = l /\ n \in lost        -> [tree[l] EXCEPT !.parent = Nil]
                       [] OTHER                      -> tree[m]]
      /\ root' = (IF n \in lost THEN l ELSE root)
      /\ op' = [op EXCEPT !.at = l]
  BY <1>2 DEF Merge, Descend, Changed
<1>4. (n \in lost <=> gone) /\ (\A m \in Nodes : m # n /\ m # r => m \notin lost) /\ r \in lost
  BY <1>1, SMTT(30) DEF Spent, Count, Num
<1>5. root' = MergedTop(node, n, l, root)
  BY <1>3, <1>4 DEF MergedTop
<1>6. /\ node[l].leaf => node[l].child = <<>> /\ node[r].child = <<>>
      /\ ~node[l].leaf => Len(node[l].child) = A + 1 /\ Len(node[r].child) = B + 1
      /\ ~node[l].leaf => \A j \in 1..(len + 1) : d(j) \in Nodes \ {n, l, r}
  BY <1>1 DEF PairTyped
<1>7. lk \in Seq(Keys) /\ Len(lk) = len /\ \A j \in 1..len : lk[j] = K(j)
  <2> DEFINE p == node[l].keys
             e == node[n].keys[i]
             q == node[r].keys
  <2>1. p \in Seq(Keys) /\ q \in Seq(Keys) /\ e \in Keys /\ Len(p) = A /\ Len(q) = B
    BY <1>1
  <2>2. lk = Joined(p, e, q)
    OBVIOUS
  <2>3. \A j \in 1..len : K(j) = IF j <= A THEN p[j] ELSE IF j = A + 1 THEN e ELSE q[j - A - 1]
    BY DEF RowKey
  <2> HIDE DEF p, e, q, lk, K, A, B, len
  <2>4. /\ lk \in Seq(Keys) /\ Len(lk) = A + 1 + B
        /\ \A j \in 1..(A + 1 + B) : lk[j] = IF j <= A THEN p[j] ELSE IF j = A + 1 THEN e ELSE q[j - A - 1]
    <3>1. lk \in Seq(Keys) /\ Link(lk, p, e, q)
      BY <2>1, <2>2, JoinedIs
    <3>2. Len(p) = A /\ Len(q) = B
      BY <2>1
    <3> QED  BY <3>1, <3>2 DEF Link
  <2> QED  BY <2>3, <2>4, <1>1, Zenon
<1>8. /\ lc \in Seq(Nodes)
      /\ node[l].leaf => lc = <<>>
      /\ ~node[l].leaf => Len(lc) = len + 1 /\ \A j \in 1..(len + 1) : lc[j] = d(j)
  <2>1. lc \in Seq(Nodes) /\ Chain(lc, node[l].child, node[r].child)
    BY <1>1, ConcatIs
  <2>2. CASE node[l].leaf
    <3>1. lc = <<>> \o <<>>
      BY <2>2, <1>6
    <3> QED  BY <3>1, <2>1, <2>2
  <2>3. CASE ~node[l].leaf
    <3> HIDE DEF lc
    <3>1. Len(node[l].child) = A + 1 /\ Len(node[l].child) + Len(node[r].child) = len + 1
      <4>1. Len(node[l].child) = A + 1 /\ Len(node[r].child) = B + 1
        BY <2>3, <1>6
      <4>2. A \in Nat /\ B \in Nat /\ len = A + 1 + B
        BY <1>1
      <4> HIDE DEF A, B, len
      <4> QED  BY <4>1, <4>2
    <3>2. Len(lc) = len + 1 /\ \A j \in 1..(len + 1) : lc[j] = IF j <= A + 1 THEN node[l].child[j] ELSE node[r].child[j - (A + 1)]
      BY <2>1, <3>1 DEF Chain
    <3>3. ASSUME NEW j \in 1..(len + 1) PROVE lc[j] = d(j)
      <4>1. j - (A + 1) = j - A - 1
        BY <1>1, <3>3
      <4> QED  BY <4>1, <3>2, <3>3 DEF RowChild
    <3> QED  BY <3>2, <3>3, <2>1, <2>3
  <2> QED  BY <2>2, <2>3, Zenon
<1>9. nk \in Seq(Keys) /\ Shorter(nk, node[n].keys, i)
  BY <1>1, RemovedIs
<1>10. nc \in Seq(Nodes) /\ Shorter(nc, node[n].child, i + 1) /\ rc \in Seq(Nodes)
  <2> DEFINE q == node[n].child
  <2>1. q \in Seq(Nodes) /\ i \in Nat /\ i \in 1..(Len(q) - 1) /\ i \in 1..Len(q) /\ l \in Nodes /\ l = q[i]
    BY <1>1, <1>2
  <2>2. rc \in Seq(Nodes)
    BY <2>1, RemovedIs
  <2>3. nc = [RemoveAt(q, i) EXCEPT ![i] = l]
    OBVIOUS
  <2> HIDE DEF q, nc
  <2>4. nc \in Seq(Nodes) /\ Shorter(nc, q, i + 1)
    BY <2>1, <2>3, JoinedChildren, Zenon
  <2> QED  BY <2>2, <2>4 DEF q
<1>11. \A m \in Nodes : m \in kids => ~node[l].leaf /\ m \in Nodes \ {n, l, r} /\ \E j \in Nat : j \in 1..(len + 1) /\ j > A + 1 /\ d(j) = m
  <2> SUFFICES ASSUME NEW m \in Nodes, m \in kids
               PROVE  ~node[l].leaf /\ m \in Nodes \ {n, l, r} /\ \E j \in Nat : j \in 1..(len + 1) /\ j > A + 1 /\ d(j) = m
    OBVIOUS
  <2>1. PICK x \in 1..Len(node[r].child) : node[r].child[x] = m
    BY <1>1 DEF ToSet
  <2>2. ~node[l].leaf /\ x \in 1..(B + 1)
    BY <2>1, <1>6, FreedIs
  <2> DEFINE j == A + 1 + x
  <2>3. j \in Nat /\ j \in 1..(len + 1) /\ j > A + 1 /\ ~(j <= A + 1) /\ j - A - 1 = x
    <3>1. A \in Nat /\ B \in Nat /\ len = A + 1 + B
      BY <1>1
    <3> HIDE DEF A, B, len
    <3> QED  BY <3>1, <2>2
  <2> HIDE DEF j
  <2>4. d(j) = m
    BY <2>1, <2>3 DEF RowChild
  <2> QED  BY <2>2, <2>3, <2>4, <1>6
<1>12. ~node[l].leaf => \A j \in 1..(len + 1) : j > A + 1 => d(j) \in kids
  <2> SUFFICES ASSUME ~node[l].leaf, NEW j \in 1..(len + 1), j > A + 1 PROVE d(j) \in kids
    OBVIOUS
  <2>1. j - A - 1 \in 1..Len(node[r].child) /\ ~(j <= A + 1)
    BY <1>1, <1>6, SMTT(30)
  <2>2. d(j) = node[r].child[j - A - 1]
    BY <2>1 DEF RowChild
  <2>3. DOMAIN node[r].child = 1..Len(node[r].child)
    BY <1>1
  <2> HIDE DEF d, A, len
  <2> QED  BY <2>1, <2>2, <2>3 DEF kids, ToSet
<1> HIDE DEF lk, lc, nk, rc, kids, d, K, len, A, B, gone, lost
<1>13. /\ join \in Forest
       /\ join[l].leaf = node[l].leaf /\ join[l].parent = node[l].parent /\ join[l].keys = lk /\ join[l].child = lc
       /\ \A m \in Nodes \ {l} : join[m] = node[m]
  <2>1. lk \in Seq(Keys) /\ lc \in Seq(Nodes) /\ node \in Forest /\ l \in Nodes
    BY <1>1, <1>7, <1>8
  <2>2. join = Changed(node, l, lk, lc)
    OBVIOUS
  <2> HIDE DEF join
  <2> QED  BY <2>1, <2>2, ChangedIs
<1> HIDE DEF join
<1>14. /\ ad \in Forest
       /\ \A m \in Nodes : m \notin kids => ad[m] = join[m]
       /\ \A m \in Nodes : /\ ad[m].leaf = join[m].leaf /\ ad[m].keys = join[m].keys /\ ad[m].child = join[m].child
                           /\ (m \in kids => ad[m].parent = l)
  BY <1>1, <1>13, AdoptIs
<1> HIDE DEF ad
<1>15. ad[n] = node[n] /\ ad[l] = join[l]
  BY <1>1, <1>11, <1>13, <1>14
<1>16. tree = Changed(ad, n, nk, rc)
  <2>1. ad[n].child # <<>>
    BY <1>1, <1>2, <1>15, FreedIs
  <2>2. ad[n].keys = node[n].keys /\ ad[n].child = node[n].child /\ n \in DOMAIN ad
    BY <1>1, <1>14, <1>15 DEF Forest
  <2> QED  BY <2>1, <2>2, <1>14 DEF KeyDelete, Changed, nk, rc, Forest, NodeType
<1>17. /\ \A m \in Nodes \ {n} : tree[m] = ad[m]
       /\ tree[n].leaf = node[n].leaf /\ tree[n].parent = node[n].parent /\ tree[n].keys = nk /\ tree[n].child = rc
       /\ tree[n] \in NodeType
  <2> HIDE DEF tree
  <2>1. /\ tree \in Forest /\ (\A m \in Nodes \ {n} : tree[m] = ad[m])
        /\ tree[n].leaf = ad[n].leaf /\ tree[n].parent = ad[n].parent /\ tree[n].keys = nk /\ tree[n].child = rc
    <3>1. nk \in Seq(Keys) /\ rc \in Seq(Nodes) /\ ad \in Forest /\ n \in Nodes
      BY <1>1, <1>9, <1>10, <1>14
    <3> QED  BY <3>1, <1>16, ChangedIs
  <2>2. tree[n] \in NodeType
    BY <2>1, <1>1 DEF Forest
  <2> QED  BY <2>1, <2>2, <1>15
<1> HIDE DEF tree
<1>18. g[r] = Freed
  BY <1>1, <1>3, <1>4
<1>19. \A m \in Nodes \ {n, l, r} : g[m] = ad[m]
  BY <1>1, <1>3, <1>4, <1>17
<1>20. IF gone THEN g[n] = Freed /\ g[l] = [ad[l] EXCEPT !.parent = Nil]
       ELSE g[n] = [tree[n] EXCEPT !.child[i] = l] /\ g[l] = ad[l]
  BY <1>1, <1>3, <1>4, <1>17, Zenon
<1>21. ~gone => /\ g[n] \in NodeType /\ g[n].leaf = node[n].leaf /\ g[n].parent = node[n].parent
                /\ g[n].keys = nk /\ g[n].child = nc
  <2>1. [tree[n] EXCEPT !.child[i] = l] = [tree[n] EXCEPT !.child = nc]
    BY <1>17 DEF NodeType
  <2> HIDE DEF nc
  <2> QED  BY <2>1, <1>10, <1>17, <1>20 DEF NodeType
<1> HIDE DEF nc
<1>22. /\ g[l] \in NodeType /\ g[l].leaf = node[l].leaf /\ g[l].keys = lk /\ g[l].child = lc
       /\ g[l].parent = IF gone THEN Nil ELSE n
  <2>1. ad[l] \in NodeType /\ ad[l].leaf = node[l].leaf /\ ad[l].parent = n /\ ad[l].keys = lk /\ ad[l].child = lc
    BY <1>1, <1>2, <1>13, <1>14, <1>15 DEF Forest
  <2> QED  BY <2>1, <1>20 DEF NodeType
<1>23. g \in Forest
  <2>1. g = [m \in Nodes |-> g[m]]
    BY <1>3
  <2>2. ASSUME NEW m \in Nodes PROVE g[m] \in NodeType
    <3>1. CASE m \in {n, r}
      BY <3>1, <1>18, <1>20, <1>21, FreedIs
    <3>2. CASE m = l
      BY <3>2, <1>22
    <3>3. CASE m \notin {n, l, r}
      BY <3>3, <1>14, <1>19 DEF Forest
    <3> QED  BY <3>1, <3>2, <3>3
  <2> HIDE DEF g
  <2> QED  BY <2>1, <2>2 DEF Forest
<1> HIDE DEF g
<1>24. Num(g, l) = len
  BY <1>7, <1>22 DEF Num
<1>25. ASSUME ~node[l].leaf, NEW j \in 1..(len + 1) PROVE g[d(j)].parent = l
  <2>1. /\ d(j) \in Nodes \ {n, l, r} /\ g[d(j)] = ad[d(j)]
        /\ node[d(j)].parent = IF j <= A + 1 THEN l ELSE r
    BY <1>6, <1>19, <1>25, RowOnce DEF d, len, A
  <2>2. CASE d(j) \in kids
    BY <2>1, <2>2, <1>14
  <2>3. CASE d(j) \notin kids
    <3>1. j <= A + 1
      BY <2>3, <1>1, <1>12, <1>25
    <3>2. ad[d(j)] = node[d(j)]
      BY <2>1, <2>3, <1>13, <1>14
    <3> QED  BY <2>1, <3>1, <3>2
  <2> QED  BY <2>2, <2>3
<1>26. Piece(node, g, n, i, l, r, l, 0)
  <2>1. \A j \in Nat : 0 + j = j
    OBVIOUS
  <2>2. 0 + Num(g, l) <= Long(node, l, r)
    BY <1>1, <1>24 DEF len
  <2>3. \A j \in 1..Num(g, l) : g[l].keys[j] = RowKey(node, n, i, l, r, 0 + j)
    BY <2>1, <1>7, <1>22, <1>24 DEF K
  <2>4. Len(g[l].child) = IF node[l].leaf THEN 0 ELSE Num(g, l) + 1
    <3>1. g[l].child = lc
      BY <1>22
    <3>2. CASE node[l].leaf
      BY <3>1, <3>2, <1>8, FreedIs
    <3>3. CASE ~node[l].leaf
      BY <3>1, <3>3, <1>8, <1>24
    <3> QED  BY <3>2, <3>3
  <2>5. ~node[l].leaf => \A j \in 1..(Num(g, l) + 1) :
           g[l].child[j] = RowChild(node, l, r, 0 + j) /\ g[RowChild(node, l, r, 0 + j)].parent = l
    BY <2>1, <1>8, <1>22, <1>24, <1>25 DEF d
  <2> QED  BY <2>2, <2>3, <2>4, <2>5, <1>22 DEF Piece
<1>27. OthersKept(node, g, n, l, r)
  <2> SUFFICES ASSUME NEW m \in Nodes \ {n, l, r}
               PROVE  /\ g[m].leaf = node[m].leaf /\ g[m].keys = node[m].keys /\ g[m].child = node[m].child
                      /\ \/ g[m] = node[m]
                         \/ /\ m \in Here(node) /\ (node[m].parent = l \/ node[m].parent = r) /\ m \in Here(g)
                            /\ (g[m].parent = l \/ g[m].parent = r)
    BY DEF OthersKept
  <2>1. g[m].leaf = node[m].leaf /\ g[m].keys = node[m].keys /\ g[m].child = node[m].child
    BY <1>13, <1>14, <1>19
  <2>2. CASE m \notin kids
    BY <2>1, <2>2, <1>13, <1>14, <1>19
  <2>3. CASE m \in kids
    <3>1. PICK j \in Nat : j \in 1..(len + 1) /\ d(j) = m /\ ~node[l].leaf
      BY <2>3, <1>11
    <3>2. m \in Here(node) /\ (node[m].parent = l \/ node[m].parent = r)
      BY <3>1, RowOnce DEF d, len
    <3>3. g[m].parent = l /\ l # Nil
      BY <3>1, <1>25, Zenon DEF Pair, IsChild
    <3>4. m \in Here(g)
      BY <3>3, FreedIs DEF Here
    <3> QED  BY <2>1, <3>2, <3>3, <3>4
  <2> QED  BY <2>2, <2>3
<1>28. Merged(node, g, n, i, l, r, root)
  <2>1. gone => g[n] = Freed /\ g[l].parent = Nil
    BY <1>20, <1>22
  <2>2. ~gone => /\ g[l].parent = n /\ g[n].leaf = node[n].leaf /\ g[n].parent = node[n].parent
                 /\ Shorter(g[n].keys, node[n].keys, i) /\ Shorter(g[n].child, node[n].child, i + 1)
    BY <1>9, <1>10, <1>21, <1>22
  <2> QED  BY <2>1, <2>2, <1>18, <1>23, <1>24, <1>26, <1>27 DEF Merged, gone, len
<1> QED  BY <1>3, <1>5, <1>28 DEF g

\* Two poor children of the node Delete's loop is at become one.
LEMMA MergeStep ==
    ASSUME NEW h, NEW s, Good(node, root, op, h, s), op.do = "delete", op.at # Nil,
           NEW n, n = op.at, NEW i, NEW l, NEW r, Pair(node, h, s, root, n, i, l, r),
           Num(node, l) = Empty, Num(node, r) = Empty, Merge(n, i),
           Ahead(s[n][i - 1], s[n][i + 1])
    PROVE  /\ TreeInv' /\ KeysOf(node') = KeysOf(node)
           /\ op'.do = op.do /\ op'.key = op.key /\ op' # Idle
<1> DEFINE g == node'
           num == Num(node, n)
           s2 == MergeMarks(s, n, i, l, Row(node, s, l, r))
           t2 == MergedTop(node, n, l, root)
           gone == Spent(node, n, root)
<1>1. Typed(node, h, s) /\ TreeFits(node, root, h, s) /\ Filled(node, root, op) /\ root \in Nodes \cup {Nil}
  BY DEF Good
<1>2. op \in DeleteOp /\ n \in Here(node) /\ (n # root => num > Empty)
  BY DeleteAt
<1>3. /\ n \in Nodes /\ l \in Nodes /\ r \in Nodes /\ l \in Here(node) /\ r \in Here(node)
      /\ n # l /\ n # r /\ l # Nil /\ n # Nil /\ l # root /\ r # root /\ ~node[n].leaf
      /\ h[n] \in Nat /\ h[l] \in Nat /\ h[r] \in Nat /\ h[n] = h[l] + 1 /\ h[n] = h[r] + 1
      /\ num \in Nat
  BY DEF Pair, IsChild
<1>4. l # r /\ i \in 1..num
  <2>1. RowFits(node, h, s, root, n, i, l, r)
    BY <1>1, PairIs
  <2> QED  BY <2>1 DEF RowFits
<1>5. n # root => num >= 2
  BY <1>2, <1>3, NodeSizes
<1>6. Merged(node, g, n, i, l, r, root) /\ root' = t2 /\ op' = [op EXCEPT !.at = l]
  BY <1>1, MergeIs
<1>7. MergeDone(node, g, h, s, s2, root, n, i, l, r)
  BY <1>1, <1>5, <1>6, MergeFits
<1>8. Num(g, l) = Full /\ OthersKept(node, g, n, l, r)
  <2>1. Num(g, l) = Num(node, l) + 1 + Num(node, r) /\ OthersKept(node, g, n, l, r)
    BY <1>6 DEF Merged, Long
  <2> HIDE DEF g
  <2>2. Empty + 1 + Empty = Full
    BY NodeSizes
  <2> QED  BY <2>1, <2>2
<1> HIDE DEF g, s2, t2, gone
<1>9. /\ Typed(g, h, s2) /\ TreeFits(g, t2, h, s2) /\ KeysOf(g) = KeysOf(node)
      /\ Here(g) = Here(node) \ (IF gone THEN {n, r} ELSE {r})
      /\ s2[l][0] = s[n][i - 1] /\ s2[l][Num(g, l) + 1] = s[n][i + 1]
      /\ ~gone => Num(g, n) + 1 = num /\ g[n].leaf = node[n].leaf
  BY <1>7 DEF MergeDone, gone, t2
<1>10. (gone <=> n = root /\ num = 1) /\ t2 = IF gone THEN l ELSE root
  BY DEF gone, t2, Spent, MergedTop
<1>11. ASSUME NEW m \in Here(g)
       PROVE  Num(g, m) <= Full /\ (m # t2 => Num(g, m) >= Empty) /\ ~(~g[m].leaf /\ Num(g, m) = 0)
  <2>1. CASE m = l
    <3>1. Num(g, m) = Full
      BY <2>1, <1>8
    <3> QED  BY <3>1, NodeSizes
  <2>2. CASE m = n
    <3>1. ~gone
      BY <2>2, <1>9, <1>11
    <3>2. Num(g, n) \in Nat
      BY <2>2, <1>9, <1>11, HandlesIn
    <3>4. Num(g, n) + 1 = num /\ num <= Full /\ num >= 2
      <4>1. Num(g, n) + 1 = num /\ num <= Full
        BY <3>1, <1>1, <1>2, <1>9 DEF Filled
      <4>2. num # 1 \/ n # root
        BY <3>1, <1>10
      <4> QED  BY <4>1, <4>2, <1>3, <1>4, <1>5
    <3>5. n # t2 => num > Empty
      BY <3>1, <1>2, <1>10
    <3> HIDE DEF num
    <3> QED  BY <3>2, <3>4, <3>5, <2>2, NodeSizes
  <2>3. CASE m \notin {n, l, r}
    <3>1. m \in Here(node) /\ m \in Nodes /\ Num(g, m) = Num(node, m) /\ g[m].leaf = node[m].leaf
      BY <2>3, <1>8, <1>9, <1>11 DEF Here, OthersKept, Num
    <3>2. ~(~node[m].leaf /\ Num(node, m) = 0)
      BY <3>1, NotGrowing
    <3>3. m # t2 => m # root
      BY <2>3, <1>10
    <3> QED  BY <3>1, <3>2, <3>3, <1>1 DEF Filled
  <2>4. m # r
    BY <1>9, <1>11
  <2> QED  BY <2>1, <2>2, <2>3, <2>4
<1>12. Filled(g, t2, op')
  BY <1>11 DEF Filled
<1>13. Awaits(g, h, n)
  <2>1. SameKeys(node, g, {n, l, r})
    BY <1>8, <1>9 DEF OthersKept, SameKeys
  <2>2. h[l] < h[n] /\ h[r] < h[n] /\ op.at \in Here(node)
    BY <1>2, <1>3
  <2> QED  BY <2>1, <2>2, <1>3, InnerKept, Zenon
<1>14. op.inner # Nowhere =>
               /\ op.inner[1] \in Here(g) /\ h[l] < h[op.inner[1]]
               /\ op.inner[2] \in 1..Num(g, op.inner[1])
               /\ g[op.inner[1]].keys[op.inner[2]] = op.key
  <2> SUFFICES ASSUME op.inner # Nowhere
               PROVE  /\ op.inner[1] \in Here(g) /\ h[l] < h[op.inner[1]]
                      /\ op.inner[2] \in 1..Num(g, op.inner[1])
                      /\ g[op.inner[1]].keys[op.inner[2]] = op.key
    OBVIOUS
  <2>1. /\ op.inner[1] \in Here(g) /\ h[n] < h[op.inner[1]]
        /\ op.inner[2] \in 1..Num(g, op.inner[1])
        /\ g[op.inner[1]].keys[op.inner[2]] = op.key
    BY <1>13 DEF Awaits
  <2>2. h[op.inner[1]] \in Nat
    BY <2>1, <1>9, HandlesIn
  <2> QED  BY <2>1, <2>2, <1>3
<1>15. l \in Here(g) /\ Num(g, l) > Empty
  <2>1. Full > Empty
    BY NodeSizes
  <2> QED  BY <2>1, <1>3, <1>4, <1>8, <1>9
<1>16. Ahead(s2[l][0], s2[l][Num(g, l) + 1])
  BY <1>9
<1>17. OpTyped(op') /\ OpFits(g, t2, h, s2, op') /\ op'.do = "delete"
  BY <1>2, <1>3, <1>6, <1>14, <1>15, <1>16, DescendFits, Zenon
<1>18. op'.do = op.do /\ op'.key = op.key /\ op' # Idle
  <2>1. op'.do = op.do /\ op'.key = op.key
    BY <1>2, <1>6 DEF DeleteOp
  <2>2. op'.do = "delete"
    BY <1>17
  <2> QED  BY <2>1, <2>2 DEF Idle
<1>19. Good(node', root', op', h, s2)
  <2>1. t2 \in Nodes \cup {Nil}
    BY <1>1, <1>3, <1>10
  <2> QED  BY <2>1, <1>6, <1>9, <1>12, <1>17 DEF Good, g
<1> QED  BY <1>9, <1>18, <1>19 DEF TreeInv, g

\* Two children of one node, side by side.
LEMMA ThePair ==
    ASSUME NEW h, NEW s, Good(node, root, op, h, s), NEW n \in Here(node), ~node[n].leaf,
           NEW i \in Nat, i \in 1..Num(node, n)
    PROVE  /\ Pair(node, h, s, root, n, i, node[n].child[i], node[n].child[i + 1])
           /\ Empty <= Num(node, node[n].child[i]) /\ Num(node, node[n].child[i]) \in Nat
           /\ Empty <= Num(node, node[n].child[i + 1]) /\ Num(node, node[n].child[i + 1]) \in Nat
           /\ s[n][i - 1] < s[n][i] /\ s[n][i] < s[n][i + 1]
           /\ s[n][i - 1] \in Nat /\ s[n][i] \in Nat /\ s[n][i + 1] \in Nat
<1> DEFINE l == node[n].child[i]
           r == node[n].child[i + 1]
<1>1. Num(node, n) \in Nat /\ Typed(node, h, s) /\ TreeFits(node, root, h, s)
  BY Handles DEF Good
<1>2. i \in 1..(Num(node, n) + 1) /\ i + 1 \in 1..(Num(node, n) + 1)
  BY <1>1
<1>3. IsChild(node, h, s, root, n, i, l)
  <2> HIDE DEF l
  <2>1. l = node[n].child[i]
    BY DEF l
  <2> QED  BY <2>1, <1>1, <1>2, TheChild
<1>4. IsChild(node, h, s, root, n, i + 1, r)
  <2>1. r = node[n].child[i + 1]
    OBVIOUS
  <2> HIDE DEF r
  <2> QED  BY <2>1, <1>1, <1>2, TheChild
<1>5. Empty <= Num(node, l) /\ Num(node, l) \in Nat
  <2>1. l = node[n].child[i] /\ l \in Here(node)
    BY <1>3 DEF IsChild
  <2> HIDE DEF l
  <2>2. Empty <= Num(node, l)
    BY <2>1, <1>2, ChildIs
  <2> QED  BY <2>1, <2>2, Handles
<1>6. Empty <= Num(node, r) /\ Num(node, r) \in Nat
  <2>1. r = node[n].child[i + 1] /\ r \in Here(node)
    BY <1>4 DEF IsChild
  <2> DEFINE j == i + 1
  <2>2. j \in 1..(Num(node, n) + 1) /\ r = node[n].child[j]
    BY <2>1, <1>2
  <2> HIDE DEF r, j
  <2>3. Empty <= Num(node, r)
    BY <2>2, ChildIs
  <2> QED  BY <2>1, <2>3, Handles
<1>7. Rises(s[n], Num(node, n))
  BY <1>3 DEF IsChild
<1>8. /\ s[n][i - 1] < s[n][i] /\ s[n][i] < s[n][i + 1]
      /\ s[n][i - 1] \in Nat /\ s[n][i] \in Nat /\ s[n][i + 1] \in Nat
  <2>1. /\ i - 1 \in 0..(Num(node, n) + 1) /\ i \in 0..(Num(node, n) + 1) /\ i + 1 \in 0..(Num(node, n) + 1)
        /\ i - 1 < i /\ i < i + 1 /\ i - 1 \in Nat /\ i + 1 \in Nat
    BY <1>1
  <2> QED  BY <2>1, <1>7 DEF Rises
<1> HIDE DEF l, r
<1>9. Pair(node, h, s, root, n, i, l, r)
  BY <1>3, <1>4 DEF Pair
<1> QED  BY <1>5, <1>6, <1>8, <1>9 DEF l, r

\* Delete merges the two neighbours of its key, and goes down to what they become.
LEMMA DeleteMergeStep ==
    ASSUME NEW h, NEW s, Good(node, root, op, h, s), DeleteMerge
    PROVE  /\ TreeInv' /\ KeysOf(node') = KeysOf(node)
           /\ op'.do = op.do /\ op'.key = op.key /\ op' # Idle
<1> DEFINE n == op.at
           i == Ge
           l == node[n].child[i]
           r == node[n].child[i + 1]
<1>1. /\ op.do = "delete" /\ n # Nil /\ ~node[n].leaf /\ op.inner = Nowhere /\ Has(n, op.key)
      /\ Num(node, l) = Empty /\ Num(node, r) = Empty /\ Merge(n, i)
  BY DEF DeleteMerge, Deleting, Leaf, Found, Searching, Poor, Count, Num
<1>2. op \in DeleteOp /\ n \in Here(node) /\ Between(node, s, n, op.key) /\ op.key \in Keys
  BY <1>1, DeleteAt DEF DeleteOp
<1>3. i \in Nat /\ i \in 1..Num(node, n) /\ s[n][i] = op.key
  <2>1. Ge \in Nat /\ Ge \in 1..(Num(node, n) + 1) /\ Ge <= Num(node, n) /\ s[n][Ge] = op.key
    BY <1>1, <1>2, GeGap
  <2>2. Num(node, n) \in Nat
    BY <1>2, Handles
  <2> QED  BY <2>1, <2>2
<1> HIDE DEF i
<1>4. /\ Pair(node, h, s, root, n, i, l, r)
      /\ s[n][i - 1] < s[n][i] /\ s[n][i] < s[n][i + 1]
  BY <1>1, <1>2, <1>3, ThePair
<1>5. Ahead(s[n][i - 1], s[n][i + 1])
  BY <1>1, <1>3, <1>4 DEF Ahead
<1> HIDE DEF l, r
<1> QED  BY <1>1, <1>4, <1>5, MergeStep

\* Delete merges a poor child with a poor neighbour, and goes down to it.
LEMMA MergeNeighboursStep ==
    ASSUME NEW h, NEW s, Good(node, root, op, h, s), MergeNeighbours
    PROVE  /\ TreeInv' /\ KeysOf(node') = KeysOf(node)
           /\ op'.do = op.do /\ op'.key = op.key /\ op' # Idle
<1> DEFINE n == op.at
           i == IF LeftOf # Nil THEN Way - 1 ELSE Way
           l == node[n].child[i]
           r == node[n].child[i + 1]
<1>1. Passing /\ Poor(OnWay) /\ ~Rich(RightOf) /\ ~Rich(LeftOf) /\ Merge(n, i)
  BY DEF MergeNeighbours
<1>2. /\ op.do = "delete" /\ n \in Here(node) /\ ~node[n].leaf /\ Num(node, n) \in Nat /\ Num(node, n) # 0
      /\ Way \in Nat /\ Way \in 1..(Num(node, n) + 1) /\ Ahead(s[n][Way - 1], s[n][Way])
      /\ op.inner # Nowhere => IF op.leftmost THEN Way = 1 ELSE Way = Num(node, n) + 1
      /\ n # Nil /\ op \in DeleteOp
  BY <1>1, WayGap, Handles
<1>3. op.key \in Nat
  BY <1>2, KeysAreNat DEF DeleteOp
<1>4. /\ Way > 1 => LeftOf = node[n].child[Way - 1] /\ LeftOf # Nil /\ Num(node, LeftOf) = Empty
      /\ Way <= 1 => LeftOf = Nil
  <2>1. CASE Way > 1
    <3>1. LeftOf = node[n].child[Way - 1]
      BY <2>1 DEF LeftOf
    <3>2. Way - 1 \in 1..(Num(node, n) + 1)
      BY <2>1, <1>2
    <3>3. LeftOf \in Here(node) /\ Empty <= Num(node, LeftOf)
      BY <3>1, <3>2, <1>2, ChildIs
    <3>4. LeftOf # Nil /\ Num(node, LeftOf) \in Nat
      BY <3>3, Handles
    <3>5. ~(Num(node, LeftOf) > Empty)
      BY <3>4, <1>1 DEF Rich, Count, Num
    <3>6. ~(Way <= 1)
      BY <2>1, <1>2
    <3> HIDE DEF n
    <3> QED  BY <3>1, <3>3, <3>4, <3>5, <3>6, NodeSizes
  <2>2. CASE ~(Way > 1)
    BY <2>2, <1>2 DEF LeftOf
  <2> QED  BY <2>1, <2>2, <1>2
<1>5. Num(node, node[n].child[Way]) = Empty
  BY <1>1 DEF Poor, OnWay, Count, Num
<1>6. CASE Way > 1
  <2>1. i = Way - 1 /\ i \in Nat /\ i \in 1..Num(node, n) /\ i + 1 = Way
    BY <1>2, <1>4, <1>6
  <2>2. Num(node, l) = Empty /\ Num(node, r) = Empty
    BY <2>1, <1>4, <1>5, <1>6
  <2> HIDE DEF i
  <2>3. /\ Pair(node, h, s, root, n, i, l, r)
        /\ s[n][i - 1] < s[n][i] /\ s[n][i] < s[n][i + 1]
        /\ s[n][i - 1] \in Nat /\ s[n][i] \in Nat /\ s[n][i + 1] \in Nat
    BY <2>1, <1>2, ThePair
  <2>4. Ahead(s[n][i], s[n][i + 1]) /\ (op.inner # Nowhere => ~op.leftmost)
    BY <2>1, <1>2, <1>6
  <2>5. Ahead(s[n][i - 1], s[n][i + 1])
    BY <2>3, <2>4, <1>3 DEF Ahead
  <2> HIDE DEF l, r
  <2> QED  BY <2>2, <2>3, <2>5, <1>1, <1>2, MergeStep
<1>7. CASE ~(Way > 1)
  <2>1. i = Way /\ Way = 1 /\ i \in Nat /\ i \in 1..Num(node, n) /\ Way <= Num(node, n)
    BY <1>2, <1>4, <1>7
  <2> HIDE DEF i
  <2>2. RightOf = r
    BY <2>1 DEF RightOf, Count, Num
  <2>3. /\ Pair(node, h, s, root, n, i, l, r)
        /\ s[n][i - 1] < s[n][i] /\ s[n][i] < s[n][i + 1]
        /\ s[n][i - 1] \in Nat /\ s[n][i] \in Nat /\ s[n][i + 1] \in Nat
        /\ Empty <= Num(node, r) /\ Num(node, r) \in Nat
    BY <2>1, <1>2, ThePair
  <2>4. Num(node, l) = Empty
    BY <2>1, <1>5
  <2> HIDE DEF l, r
  <2>5. Num(node, r) = Empty
    <3>1. r # Nil
      BY <2>3 DEF Pair, IsChild
    <3>2. ~(Num(node, r) > Empty)
      BY <3>1, <2>2, <1>1 DEF Rich, Count, Num
    <3> QED  BY <3>2, <2>3, NodeSizes
  <2>6. Ahead(s[n][i - 1], s[n][i]) /\ (op.inner # Nowhere => op.leftmost)
    BY <2>1, <1>2
  <2>7. Ahead(s[n][i - 1], s[n][i + 1])
    BY <2>3, <2>6, <1>3 DEF Ahead
  <2> QED  BY <2>3, <2>4, <2>5, <2>7, <1>1, <1>2, MergeStep
<1> QED  BY <1>6, <1>7

-----------------------------------------------------------------------------
(* The tree as a set of keys. *)

\* When Insert finds its key, the tree has it.
LEMMA InsertExistsKeeps ==
    ASSUME NEW h, NEW s, Good(node, root, op, h, s), InsertExists
    PROVE  op.key \in KeysOf(node)
<1>1. op.do = "insert" /\ Has(op.at, op.key)
  BY DEF InsertExists, Inserting
<1>2. op.at \in Here(node) /\ Between(node, s, op.at, op.key) /\ op.key \in Keys
  BY <1>1 DEF Good, OpFits, OpTyped, Idle
<1>3. Ge \in 1..Num(node, op.at) /\ node[op.at].keys[Ge] = op.key
  <2>1. Num(node, op.at) \in Nat
    BY <1>2, Handles
  <2> QED  BY <2>1, <1>1, <1>2, GeGap
<1> QED  BY <1>2, <1>3 DEF KeysOf

\* When Delete's loop ends in a leaf without its key, no other node has it.
LEMMA DeleteNothingKeeps ==
    ASSUME NEW h, NEW s, Good(node, root, op, h, s), DeleteNothing
    PROVE  op.key \notin KeysOf(node)
<1>1. Typed(node, h, s) /\ TreeFits(node, root, h, s) /\ op.do = "delete"
  BY DEF Good, DeleteNothing
<1>2. CASE op.at = Nil
  <2>1. root = Nil
    BY <1>1, <1>2 DEF Good, OpFits
  <2>2. Here(node) = {}
    BY <2>1, <1>1 DEF TreeFits
  <2> QED  BY <2>2 DEF KeysOf
<1>3. CASE op.at # Nil
  <2> DEFINE n == op.at
  <2>1. node[n].leaf /\ op.inner = Nowhere /\ ~Has(n, op.key)
    BY <1>3 DEF DeleteNothing, Leaf, Searching, Found
  <2>2. n \in Here(node) /\ Between(node, s, n, op.key)
    BY <2>1, <1>1, <1>3, DeleteAt
  <2>3. h[n] = 0 /\ node[n] \in NodeType /\ Num(node, n) \in Nat
    BY <2>1, <2>2, Handles DEF NodeFits
  <2> HIDE DEF n
  <2>4. ASSUME NEW m \in Here(node), NEW i \in 1..Num(node, m), node[m].keys[i] = op.key
        PROVE  FALSE
    <3>1. CASE m = n
      <4>1. op.key \in ToSet(node[n].keys)
        BY <3>1, <2>3, <2>4 DEF ToSet, NodeType, Num
      <4> QED  BY <4>1, <2>1 DEF Has, n
    <3>2. CASE m # n
      <4>1. h[m] >= h[n]
        BY <2>3, <2>4, Handles
      <4> QED  BY <4>1, <3>2, <2>2, <2>4, <1>1, NotWithin
    <3> QED  BY <3>1, <3>2
  <2> QED  BY <2>4 DEF KeysOf
<1> QED  BY <1>2, <1>3

Kept == KeysOf(node') = KeysOf(node)
Asked == op.do = "idle" /\ op'.do \in {"insert", "delete"} /\ op'.key \in Keys /\ Kept
WentOn == op'.do = op.do /\ op'.key = op.key /\ op'.do \in {"insert", "delete"} /\ Kept
Added == op.do = "insert" /\ op' = Idle /\ KeysOf(node') = KeysOf(node) \cup {op.key}
Removed == op.do = "delete" /\ op' = Idle /\ KeysOf(node') = KeysOf(node) \ {op.key}
Answers == Asked \/ WentOn \/ Added \/ Removed
Faulted == op = Idle /\ op' = Broken /\ Kept

\* The actions, one by one: each leaves a tree, and answers a call as it should.
LEMMA InsertKeepsTree ==
    ASSUME TreeInv, NEW k \in Keys, Insert(k)
    PROVE  TreeInv' /\ Answers
<1>1. PICK h, s : Good(node, root, op, h, s)
  BY DEF TreeInv
<1>2. CASE InsertFirst(k)
  <2>1. TreeInv' /\ Kept
    BY <1>1, <1>2, InsertFirstStep DEF Kept
  <2>2. op.do = "idle" /\ op'.do = "insert" /\ op'.key = k
    BY <1>2 DEF InsertFirst, Idle
  <2> QED  BY <2>1, <2>2 DEF Answers, Asked
<1>3. CASE InsertGrow(k)
  <2>1. TreeInv' /\ Kept
    BY <1>1, <1>3, InsertGrowStep DEF Kept
  <2>2. op.do = "idle" /\ op'.do = "insert" /\ op'.key = k
    BY <1>3 DEF InsertGrow, Idle
  <2> QED  BY <2>1, <2>2 DEF Answers, Asked
<1>4. CASE InsertStart(k)
  <2>1. TreeInv'
    BY <1>1, <1>4, InsertStartStep
  <2>2. op.do = "idle" /\ op'.do = "insert" /\ op'.key = k /\ node' = node
    BY <1>4 DEF InsertStart, Idle
  <2> QED  BY <2>1, <2>2 DEF Answers, Asked, Kept
<1> QED  BY <1>2, <1>3, <1>4 DEF Insert

\* Delete keeps the tree, whichever way its first pass of the loop goes.
LEMMA DeleteKeepsTree ==
    ASSUME TreeInv, NEW k \in Keys, Delete(k)
    PROVE  TreeInv' /\ Answers
<1>1. PICK h, s : Good(node, root, op, h, s)
  BY DEF TreeInv
<1>2. TreeInv'
  BY <1>1, DeleteStartStep DEF Delete
<1>3. op.do = "idle" /\ op'.do = "delete" /\ op'.key = k /\ node' = node
  BY DEF Delete, DeleteStart, Idle
<1> QED  BY <1>2, <1>3 DEF Answers, Asked, Kept

\* Every pass of the loop of Insert keeps the tree, and an answer is the right one.
LEMMA InsertLoopKeepsTree ==
    ASSUME TreeInv, InsertLoop
    PROVE  TreeInv' /\ Answers
<1>1. PICK h, s : Good(node, root, op, h, s)
  BY DEF TreeInv
<1>2. CASE InsertExists
  <2>1. TreeInv' /\ op.key \in KeysOf(node)
    BY <1>1, <1>2, InsertExistsStep, InsertExistsKeeps
  <2>2. op.do = "insert" /\ op' = Idle /\ node' = node
    BY <1>2 DEF InsertExists, Inserting, Return
  <2> QED  BY <2>1, <2>2 DEF Answers, Added
<1>3. CASE InsertLeaf
  <2>1. TreeInv' /\ KeysOf(node') = KeysOf(node) \cup {op.key}
    BY <1>1, <1>3, InsertLeafStep
  <2>2. op.do = "insert" /\ op' = Idle
    BY <1>3 DEF InsertLeaf, Inserting, Return
  <2> QED  BY <2>1, <2>2 DEF Answers, Added
<1>4. CASE InsertDescend
  <2>1. TreeInv'
    BY <1>1, <1>4, InsertDescendStep
  <2>2. op.do = "insert" /\ op' = [op EXCEPT !.at = node[op.at].child[Ge]] /\ node' = node
    BY <1>4 DEF InsertDescend, Inserting, Descend
  <2>3. op \in [do : {"insert"}, key : Keys, at : Nodes]
    BY <2>2, <1>1 DEF Good, OpTyped, Idle
  <2>4. op'.do = op.do /\ op'.key = op.key
    BY <2>2, <2>3
  <2> QED  BY <2>1, <2>2, <2>4 DEF Answers, WentOn, Kept
<1>5. CASE InsertSplit
  <2>1. /\ TreeInv' /\ KeysOf(node') = KeysOf(node)
        /\ op' = Idle \/ (op'.do = op.do /\ op'.key = op.key)
        /\ op' = Idle => op.key \in KeysOf(node)
    BY <1>1, <1>5, InsertSplitStep
  <2>2. op.do = "insert"
    BY <1>5 DEF InsertSplit, Inserting
  <2>3. CASE op' = Idle
    BY <2>1, <2>2, <2>3 DEF Answers, Added
  <2>4. CASE op' # Idle
    BY <2>1, <2>2, <2>4 DEF Answers, WentOn, Kept
  <2> QED  BY <2>3, <2>4
<1> QED  BY <1>2, <1>3, <1>4, <1>5 DEF InsertLoop

\* Every pass of the loop of Delete keeps the tree, and an answer is the right one.
LEMMA DeleteLoopKeepsTree ==
    ASSUME TreeInv, DeleteLoop
    PROVE  TreeInv' /\ Answers
<1>1. PICK h, s : Good(node, root, op, h, s)
  BY DEF TreeInv
<1>2. op.do = "delete"
  BY Zenon DEF DeleteLoop, DeleteNothing, DeleteLeaf, DeleteMerge, DeleteInner, DeleteReplace,
         DeleteDescend, MoveFromRight, MoveFromLeft, MergeNeighbours, Passing, Deleting
<1>3. op \in DeleteOp
  BY <1>1, <1>2, DeleteAt
<1>4. CASE DeleteNothing
  <2>1. TreeInv' /\ op.key \notin KeysOf(node)
    BY <1>1, <1>4, DeleteNothingStep, DeleteNothingKeeps
  <2>2. op' = Idle /\ node' = node
    BY <1>4 DEF DeleteNothing, Return
  <2> QED  BY <2>1, <2>2, <1>2 DEF Answers, Removed
<1>5. CASE DeleteLeaf
  <2>1. TreeInv' /\ KeysOf(node') = KeysOf(node) \ {op.key}
    BY <1>1, <1>5, DeleteLeafStep
  <2>2. op' = Idle
    BY <1>5 DEF DeleteLeaf, Return
  <2> QED  BY <2>1, <2>2, <1>2 DEF Answers, Removed
<1>6. CASE DeleteReplace
  <2>1. TreeInv' /\ KeysOf(node') = KeysOf(node) \ {op.key}
    BY <1>1, <1>6, DeleteReplaceStep
  <2>2. op' = Idle
    BY <1>6 DEF DeleteReplace, Return
  <2> QED  BY <2>1, <2>2, <1>2 DEF Answers, Removed
<1>7. CASE DeleteInner
  <2>1. TreeInv'
    BY <1>1, <1>7, DeleteInnerStep
  <2>2. node' = node /\ op'.do = op.do /\ op'.key = op.key
    BY <1>7, <1>3 DEF DeleteInner, DeleteOp
  <2> QED  BY <2>1, <2>2, <1>2 DEF Answers, WentOn, Kept
<1>8. CASE DeleteDescend
  <2>1. TreeInv'
    BY <1>1, <1>8, DeleteDescendStep
  <2>2. node' = node /\ op' = [op EXCEPT !.at = OnWay]
    BY <1>8 DEF DeleteDescend, Descend
  <2>3. op'.do = op.do /\ op'.key = op.key
    BY <2>2, <1>3 DEF DeleteOp
  <2> QED  BY <2>1, <2>2, <2>3, <1>2 DEF Answers, WentOn, Kept
<1>9. CASE DeleteMerge
  BY <1>1, <1>2, <1>9, DeleteMergeStep DEF Answers, WentOn, Kept
<1>10. CASE MoveFromRight
  BY <1>1, <1>2, <1>10, MoveFromRightStep DEF Answers, WentOn, Kept
<1>11. CASE MoveFromLeft
  BY <1>1, <1>2, <1>11, MoveFromLeftStep DEF Answers, WentOn, Kept
<1>12. CASE MergeNeighbours
  BY <1>1, <1>2, <1>12, MergeNeighboursStep DEF Answers, WentOn, Kept
<1> QED  BY <1>4, <1>5, <1>6, <1>7, <1>8, <1>9, <1>10, <1>11, <1>12, SMTT(60) DEF DeleteLoop

\* The iterators read the tree only.
LEMMA IterateReads == \A j \in Iterators : Iterate(j) => UNCHANGED <<root, node, op>>
BY Zenon DEF Iterate, PlaceLower, PlaceUpper, Load, NextKey, PreviousKey, NextAgain, PreviousAgain

\* Every step leaves a tree, and answers a call as it should.
LEMMA StepAnswers ==
    ASSUME TreeInv, [TreeNext]_treeVars
    PROVE  TreeInv' /\ (Answers \/ Faulted \/ UNCHANGED <<root, node, op>>)
<1>1. ASSUME UNCHANGED <<root, node, op>> PROVE TreeInv'
  BY <1>1 DEF TreeInv
<1>2. CASE UNCHANGED treeVars
  BY <1>1, <1>2 DEF treeVars
<1>3. CASE \E j \in Iterators : Iterate(j)
  BY <1>1, <1>3, IterateReads
<1>4. CASE \E k \in Keys : Insert(k) \/ Delete(k)
  BY <1>4, InsertKeepsTree, DeleteKeepsTree
<1>5. CASE InsertLoop \/ DeleteLoop
  BY <1>5, InsertLoopKeepsTree, DeleteLoopKeepsTree
<1>6. ASSUME NEW j \in Iterators, Faults(j) PROVE TreeInv' /\ Faulted
  <2>1. op = Idle /\ op' = Broken /\ node' = node /\ root' = root
    BY <1>6 DEF Faults, NextFaults, PreviousFaults
  <2>2. PICK h, s : Good(node, root, op, h, s)
    BY DEF TreeInv
  <2>3. OpTyped(op') /\ OpFits(node, root, h, s, op')
    BY <2>1 DEF OpTyped, OpFits, Broken
  <2>4. Filled(node, root, op')
    BY <2>1, <2>2 DEF Good, Filled, Growing, Idle, Broken
  <2>5. Good(node', root', op', h, s)
    BY <2>1, <2>2, <2>3, <2>4 DEF Good
  <2> QED  BY <2>1, <2>5 DEF TreeInv, Faulted, Kept
<1>7. CASE Gone
  BY <1>2, <1>7 DEF Gone
<1> QED  BY <1>2, <1>3, <1>4, <1>5, <1>6, <1>7 DEF TreeNext

\* The empty tree is one.
LEMMA InitIsTree == Init => TreeInv /\ Content = {}
<1> SUFFICES ASSUME Init PROVE TreeInv /\ Content = {}
  OBVIOUS
<1> DEFINE h == [n \in Nodes |-> 0]
           s == [n \in Nodes |-> [j \in Nat |-> 0]]
<1>1. root = Nil /\ node = [n \in Nodes |-> Freed] /\ op = Idle
  BY DEF Init
<1>2. node \in Forest /\ h \in Heights /\ s \in Marks
  BY <1>1, FreedIs DEF Forest, Heights, Marks
<1>3. Here(node) = {}
  BY <1>1 DEF Here
<1>4. Typed(node, h, s) /\ TreeFits(node, root, h, s) /\ Filled(node, root, op)
  BY <1>1, <1>2, <1>3 DEF Typed, TreeFits, Filled
<1>5. OpTyped(op) /\ OpFits(node, root, h, s, op)
  BY <1>1 DEF OpTyped, OpFits, Idle
<1> HIDE DEF h, s
<1>6. Good(node, root, op, h, s)
  BY <1>1, <1>4, <1>5 DEF Good
<1>7. Content = {}
  BY <1>3 DEF Content, Used, Here
<1> QED  BY <1>6, <1>7 DEF TreeInv

\* TreeInv: in the middle of every call the nodes that are used make one tree,
\* in which all leaves are at one depth, keys are in order across nodes, no node
\* below the root is over-full or poorer than BTree.h allows, and the loop of
\* Insert or Delete is on the way to its key, in a node it can take one from.
THEOREM TreeStaysBalanced == TreeSpec => []TreeInv
<1>1. TreeInv /\ [TreeNext]_treeVars => TreeInv'
  BY StepAnswers
<1> QED  BY <1>1, InitIsTree, PTL DEF TreeSpec

Request == IF op \in {Idle, Broken} THEN Idle ELSE [do |-> op.do, key |-> op.key]

\* Every step is a step of a set, or none.
LEMMA StepMaps ==
    ASSUME TreeInv, [TreeNext]_treeVars, TreeInv'
    PROVE  [Set!SetNext]_<<Content, Request>>
<1>1. Content = KeysOf(node) /\ Content' = KeysOf(node')
  <2>1. node \in Forest /\ node' \in Forest
    BY DEF TreeInv, Good, Typed
  <2>2. ContentOf(node) = KeysOf(node) /\ ContentOf(node') = KeysOf(node')
    BY <2>1, ContentIs
  <2> QED  BY <2>2 DEF ContentOf, Content, Used, Here
<1>2. Idle.do = "idle" /\ Broken.do = "broken" /\ Set!NoRequest = Idle
  BY DEF Idle, Broken, Set!NoRequest
<1>3. op.do = "idle" => op = Idle
  BY DEF TreeInv, Good, OpTyped
<1>4. op.do \in {"insert", "delete"} => op \notin {Idle, Broken} /\ op.key \in Keys
  BY <1>2 DEF TreeInv, Good, OpTyped
<1>5. op.do \in {"insert", "delete"} => Request = [do |-> op.do, key |-> op.key]
  BY <1>4 DEF Request
<1>6. op'.do \in {"insert", "delete"} => Request' = [do |-> op'.do, key |-> op'.key]
  BY <1>2 DEF Request
<1>7. CASE Asked
  <2>1. Request = Set!NoRequest /\ Content' = Content
    BY <1>1, <1>2, <1>3, <1>7 DEF Asked, Kept, Request
  <2>2. Request' \in Set!Requests
    BY <1>6, <1>7 DEF Asked, Set!Requests
  <2>3. Set!Call(Request')
    BY <2>1, <2>2 DEF Set!Call, Request
  <2> QED  BY <2>2, <2>3 DEF Set!SetNext
<1>8. CASE WentOn
  BY <1>1, <1>5, <1>6, <1>8 DEF WentOn, Kept
<1>9. CASE Added
  <2>1. Request' = Idle /\ Request.do = "insert" /\ Request.key = op.key
    BY <1>5, <1>9 DEF Added, Request
  <2>2. Set!ReturnInsert
    BY <2>1, <1>1, <1>2, <1>9 DEF Added, Set!ReturnInsert, Request
  <2> QED  BY <2>2 DEF Set!SetNext
<1>10. CASE Removed
  <2>1. Request' = Idle /\ Request.do = "delete" /\ Request.key = op.key
    BY <1>5, <1>10 DEF Removed, Request
  <2>2. Set!ReturnDelete
    BY <2>1, <1>1, <1>2, <1>10 DEF Removed, Set!ReturnDelete, Request
  <2> QED  BY <2>2 DEF Set!SetNext
<1>11. CASE UNCHANGED <<root, node, op>>
  BY <1>1, <1>11 DEF Request
<1>12. CASE Faulted
  BY <1>1, <1>12 DEF Faulted, Kept, Request
<1> QED  BY <1>7, <1>8, <1>9, <1>10, <1>11, <1>12, StepAnswers DEF Answers

\* However a call rebuilds the tree on its way down, the tree is a set of keys:
\* Insert adds its key and Delete removes its key, once, when they return, and
\* nothing else changes the content (Insert and Delete of BTree.h).
THEOREM TreeIsOrderedSet == TreeSpec => IsOrderedSet
<1>1. Init => Content = {} /\ Request = Set!NoRequest
  BY InitIsTree DEF Init, Request, Idle, Set!NoRequest
<1>2. Init => Set!SetInit
  BY <1>1 DEF Set!SetInit, Request
<1>3. TreeInv /\ [TreeNext]_treeVars /\ TreeInv' => [Set!SetNext]_<<Content, Request>>
  BY StepMaps
<1> QED  BY <1>2, <1>3, TreeStaysBalanced, PTL DEF TreeSpec, IsOrderedSet, Set!OrderedSetSpec, Request

\* The labels give the shape of the nodes.
LEMMA TreeIsShaped == TreeInv => Shaped
<1> SUFFICES ASSUME TreeInv PROVE Shaped
  OBVIOUS
<1>1. PICK h, s : Good(node, root, op, h, s)
  BY DEF TreeInv
<1>2. /\ Typed(node, h, s) /\ TreeFits(node, root, h, s) /\ Filled(node, root, op)
      /\ root \in Nodes \cup {Nil} /\ OpFits(node, root, h, s, op)
  BY <1>1 DEF Good
<1>3. Used = Here(node)
  BY DEF Used, Here
<1>4. ASSUME NEW n \in Here(node)
      PROVE  /\ n \in Nodes /\ n # Nil /\ Num(node, n) \in Nat /\ Count(n) = Num(node, n)
             /\ DOMAIN node[n].child = 1..Len(node[n].child)
             /\ Len(node[n].child) = IF Leaf(n) THEN 0 ELSE Num(node, n) + 1
  <2>1. n \in Nodes /\ n # Nil /\ Num(node, n) \in Nat /\ NodeFits(node, h, s, n) /\ node \in Forest
    BY <1>2, HandlesIn DEF Typed
  <2> QED  BY <2>1, NumIsNat DEF NodeFits, Leaf, Count, Num
<1>5. ASSUME NEW n \in Here(node), ~Leaf(n), NEW i \in DOMAIN node[n].child
      PROVE  IsChild(node, h, s, root, n, i, node[n].child[i])
  <2> DEFINE c == node[n].child[i]
  <2>1. i \in 1..(Num(node, n) + 1) /\ ~node[n].leaf /\ c = node[n].child[i]
    BY <1>4, <1>5 DEF Leaf
  <2> HIDE DEF c
  <2>2. IsChild(node, h, s, root, n, i, c)
    BY <2>1, <1>2, TheChild
  <2> QED  BY <2>1, <2>2
<1>6. Used = IF root = Nil THEN {} ELSE {root} \cup UNION {ToSet(node[n].child) : n \in Used}
  <2>1. CASE root = Nil
    BY <2>1, <1>2, <1>3 DEF TreeFits
  <2>2. CASE root # Nil
    <3>1. ASSUME NEW m \in Used, m # root PROVE m \in UNION {ToSet(node[n].child) : n \in Used}
      <4>1. PICK i \in Nat : node[m].parent \in Used /\ IsChild(node, h, s, root, node[m].parent, i, m)
        BY <3>1, <1>2, <1>3, ChildSomewhere
      <4>2. ~Leaf(node[m].parent) /\ i \in 1..(Num(node, node[m].parent) + 1) /\ node[node[m].parent].child[i] = m
        BY <4>1 DEF IsChild, Leaf
      <4>3. i \in DOMAIN node[node[m].parent].child
        BY <4>1, <4>2, <1>3, <1>4
      <4> QED  BY <4>1, <4>2, <4>3 DEF ToSet
    <3>2. ASSUME NEW n \in Used, NEW m \in ToSet(node[n].child) PROVE m \in Used
      <4>1. PICK i \in DOMAIN node[n].child : node[n].child[i] = m
        BY DEF ToSet
      <4>2. ~Leaf(n)
        BY <4>1, <1>3, <1>4
      <4> QED  BY <4>1, <4>2, <1>3, <1>5 DEF IsChild
    <3>3. root \in Used
      BY <2>2, <1>2, <1>3 DEF TreeFits
    <3> QED  BY <3>1, <3>2, <3>3, <2>2
  <2> QED  BY <2>1, <2>2
<1>7. ASSUME NEW n \in Used
      PROVE  /\ Count(n) <= Full
             /\ n # root => Count(n) >= Empty
             /\ ~Leaf(n) => /\ Len(node[n].child) = Count(n) + 1
                            /\ Count(n) = 0 => n = root /\ op.do = "insert" /\ op.at = n
                            /\ \A i \in DOMAIN node[n].child : node[node[n].child[i]].parent = n
                            /\ IsInjective(node[n].child)
  <2>1. Count(n) <= Full /\ (n # root => Count(n) >= Empty)
    BY <1>2, <1>3, <1>4 DEF Filled
  <2>2. ~Leaf(n) /\ Count(n) = 0 => n = root /\ op.do = "insert" /\ op.at = n
    BY <1>2, <1>3, <1>4 DEF Filled, Growing, Leaf
  <2>3. ASSUME ~Leaf(n)
        PROVE  /\ Len(node[n].child) = Count(n) + 1
               /\ \A i \in DOMAIN node[n].child : node[node[n].child[i]].parent = n
               /\ IsInjective(node[n].child)
    <3>1. Len(node[n].child) = Count(n) + 1
      BY <2>3, <1>3, <1>4
    <3>2. \A i \in DOMAIN node[n].child : node[node[n].child[i]].parent = n
      BY <2>3, <1>3, <1>5 DEF IsChild
    <3>3. ASSUME NEW i \in DOMAIN node[n].child, NEW j \in DOMAIN node[n].child,
                 node[n].child[i] = node[n].child[j]
          PROVE  i = j
      <4>1. /\ IsChild(node, h, s, root, n, i, node[n].child[i])
            /\ IsChild(node, h, s, root, n, j, node[n].child[i])
        BY <2>3, <3>3, <1>3, <1>5
      <4> QED  BY <4>1, ChildOnce
    <3>4. IsInjective(node[n].child)
      BY <3>3 DEF IsInjective
    <3> QED  BY <3>1, <3>2, <3>4
  <2> QED  BY <2>1, <2>2, <2>3
<1>8. op.do = "delete" /\ op.at \notin {root, Nil} => Rich(op.at)
  BY <1>2, <1>4 DEF OpFits, Rich
<1> QED  BY <1>2, <1>6, <1>7, <1>8 DEF Shaped

\* In the middle of every call the used nodes hang together as a tree, none is
\* over-full or too poor, and Delete only enters a node it can take a key from.
THEOREM NodesStayShaped == TreeSpec => []Shaped
BY TreeStaysBalanced, TreeIsShaped, PTL

=============================================================================
