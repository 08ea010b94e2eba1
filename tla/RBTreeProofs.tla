---------------------------- MODULE RBTreeProofs ----------------------------
(***************************************************************************)
(* Proofs about RBTree and RBTreeIter for any nodes, keys, values, limits  *)
(* and sequences of calls.                                                 *)
(*                                                                         *)
(* The nodes below each node, Below(t.left, t.right), are a function that  *)
(* is shown to exist and to be changed as the rotations and the unlinking  *)
(* change the children (Unfolds, Splits); search order, paths and          *)
(* iterators are stated with it.  Balance is a height for every place in   *)
(* the tree (Balanced); the heights of all paths down follow (OneHeight).  *)
(***************************************************************************)
EXTENDS RBTreeIter, Integers, FiniteSetTheorems, WellFoundedInduction, TLAPS

Place == Node \cup {NULL}
Children == [Node -> Place]
Subtrees == [Place -> SUBSET Node]
Heights == [Place -> Nat]

\* sub[n] are the nodes at and below n.
Unfolds(L, R, sub) ==
  sub[NULL] = {} /\ \A n \in Node : sub[n] = {n} \cup sub[L[n]] \cup sub[R[n]]

\* A node is not below itself, and nothing is on both sides of it.
Splits(L, R, sub) ==
  \A n \in Node : n \notin sub[L[n]] /\ n \notin sub[R[n]] /\ sub[L[n]] \cap sub[R[n]] = {}

\* No node is a child twice.
OneParent(L, R) ==
  \A m, n \in Node : /\ L[m] # NULL /\ L[m] = L[n] => m = n
                     /\ R[m] # NULL /\ R[m] = R[n] => m = n
                     /\ L[m] # NULL => L[m] # R[n]

\* The nodes form trees, and sub describes them.
Shape(L, R, sub) == Unfolds(L, R, sub) /\ Splits(L, R, sub) /\ OneParent(L, R)

\* The nodes of A are the tree with the root r; other nodes have no children.
Tree(L, R, r, A, sub) ==
  /\ Shape(L, R, sub)
  /\ r \in Place /\ sub[r] = A
  /\ \A n \in Node \ A : L[n] = NULL /\ R[n] = NULL

\* Search order of the keys k, not counting the nodes of X.
Order(L, R, sub, k, X) ==
  \A n \in Node \ X : /\ \A m \in sub[L[n]] \ X : k[m] < k[n]
                      /\ \A m \in sub[R[n]] \ X : k[m] > k[n]

Unique(k, A) == \A m, n \in A : k[m] = k[n] => m = n

\* w is the weight of the nodes, bh the sum of the weights on any path down.
Balanced(L, R, w, bh) ==
  bh[NULL] = 0 /\ \A n \in Node : bh[L[n]] = bh[R[n]] /\ bh[n] = bh[L[n]] + w[n]

TreeType == [root : Place, left : Children, right : Children, black : [Node -> BOOLEAN]]
Kids(s, n) == {s.left[n], s.right[n]}
Subs(s) == Below(s.left, s.right)

\* The nodes of A are a tree, its keys k are in order, and the weights w make it
\* balanced.
Sound(s, A, k, X, w) ==
  /\ Subs(s) \in Subtrees /\ Tree(s.left, s.right, s.root, A, Subs(s))
  /\ Order(s.left, s.right, Subs(s), k, X)
  /\ \E bh \in Heights : Balanced(s.left, s.right, w, bh)

\* n is a child of p, or the root if there is no p.
Above(s, n, p) == /\ n \in Node /\ p \in Place
                  /\ IF p = NULL THEN s.root = n ELSE n \in Kids(s, p)

\* No red node has a red child, except that nodes of X may be red, and v is not
\* looked at.
Red(s, X, v) ==
  \A n \in Node : n = v \/ s.black[n] \/ \A c \in Kids(s, n) : c = NULL \/ c \in X \/ s.black[c]

\* p is a path from the root.
IsPath(s, p) == p # <<>> => /\ p[1] = s.root
                            /\ \A i \in 2..Len(p) : p[i] \in Kids(s, p[i - 1])

\* The nodes outside S are on one side of S and of k.
Apart(A, S, k, x) ==
  \A n \in A \ S : \/ k[n] < x /\ \A m \in S : k[n] < k[m]
                   \/ k[n] > x /\ \A m \in S : k[n] > k[m]
-----------------------------------------------------------------------------
Searching == {"insert", "find", "lookup", "exists"}
Leaving   == {"rebalance", "rebalance_black", "unlink"}
Removing  == Leaving \cup {"found"}
Filling   == {"rebalance", "rebalance_black"}

\* The node that is to be freed, and the one whose paths lack a black node.
Gone   == IF pc \in Removing THEN {node} ELSE {}
Victim == IF pc \in Leaving THEN node ELSE NULL
Gap    == IF pc \in Filling THEN At(0) ELSE NULL

\* A black node weighs 1, the victim nothing, and the gap counts one more than
\* it is.
Weight(b, v, g) == [n \in Node |-> (IF n # v /\ b[n] THEN 1 ELSE 0) + (IF n = g THEN 1 ELSE 0)]

Types == /\ t \in TreeType
         /\ heap \in SUBSET Node
         /\ key \in [Node -> Keys \cup {0}] /\ \A n \in heap : key[n] \in Keys
         /\ value \in [Node -> Values \cup {NULL}]
         /\ count \in 0..SIZE_MAX
         /\ node \in Place /\ pair \in Place /\ found \in Keys \cup {NULL}
         /\ parent \in Place /\ child \in Place
         /\ pc \in Searching \cup Removing \cup {"idle", "fix_insert", "find_max"}
         /\ arg \in Keys \cup {0} /\ argv \in Values \cup {NULL}
         /\ pc = "insert" => argv \in Values
         /\ pc \in Searching => arg \in Keys

SoundInv == Sound(t, heap, key, Gone, Weight(t.black, Victim, Gap))
UniqueInv == Unique(key, heap \ Gone)

MayBeRed == IF pc = "fix_insert" THEN {At(0)} ELSE IF pc \in Leaving THEN {node} ELSE {}
RedInv == /\ Red(t, MayBeRed, Victim)
          /\ t.root # NULL => t.black[t.root] \/ t.root \in MayBeRed

StackInv == /\ stack \in Seq(Node) /\ stack_size \in Nat \ {0} /\ Len(stack) <= stack_size
            /\ pc # "unlink" => stack \in Seq(heap) /\ IsPath(t, stack)
            /\ pc \in {"idle", "lookup", "exists"} => stack = <<>>
            /\ pc \in {"insert", "find", "find_max"} /\ node # NULL
                 => IsPath(t, Append(stack, node))
            /\ pc \in {"found", "fix_insert"} \cup Filling => stack # <<>>
            /\ pc = "found" => At(0) = node
            /\ pc = "fix_insert" => ~t.black[At(0)]

SearchInv == pc \in Searching => /\ node \in heap \cup {NULL}
                                 /\ pc = "insert" => node # NULL
                                 /\ Apart(heap, Subs(t)[node], key, arg)

\* x is the node of the key that is to be removed.
MaxInv == pc = "find_max" =>
  /\ node \in heap
  /\ \E x \in heap : /\ key[x] = arg /\ node \in Subs(t)[t.left[x]]
                     /\ \E i \in 1..Len(stack) : stack[i] = x
  /\ \A n \in heap \ Subs(t)[node] : key[n] >= arg \/ \A m \in Subs(t)[node] : key[n] < key[m]

VictimInv == /\ pc \in Removing => node \in heap /\ (t.left[node] = NULL \/ t.right[node] = NULL)
             /\ pc \in Leaving =>
                  /\ child = IF t.right[node] # NULL THEN t.right[node] ELSE t.left[node]
                  /\ Above(t, node, parent)

GapInv == /\ pc \in Filling =>
               /\ node \in Subs(t)[At(0)]
               /\ At(0) = node \/ (t.black[At(0)] /\ parent \in Subs(t)[At(0)] /\ t.black[parent])
          /\ pc = "rebalance_black" => Len(stack) > 2 /\ IsBlack(t, Sibling)
          /\ pc = "unlink" /\ child # NULL /\ parent # NULL => t.black[parent]

CountInv == /\ Cardinality(heap) = count + IF pc \in {"fix_insert", "find_max"} \cup Removing THEN 1 ELSE 0
            /\ pc = "fix_insert" => count < SIZE_MAX

\* want is the map of the nodes of B.
MapOn(B) == DOMAIN want = {key[n] : n \in B} /\ \A n \in B : want[key[n]] = value[n]

Others == {n \in heap : key[n] # arg}

InsertInv ==
  /\ freed = {}
  /\ count = SIZE_MAX => node = t.root
  /\ \A n \in Others : want[key[n]] = value[n]
  /\ \/ /\ wantRet = "replaced" /\ want[arg] = argv
        /\ DOMAIN want = {key[n] : n \in heap}
        /\ \E x \in heap : /\ key[x] = arg
                           /\ wantFreed = {FreedValue(arg, value[x])}
                                          \cup {FreedKey(k) : k \in IF over THEN {arg} ELSE {}}
        /\ count = SIZE_MAX => key[t.root] = arg
     \/ /\ wantRet = "new" /\ want[arg] = argv
        /\ DOMAIN want = {key[n] : n \in heap} \cup {arg}
        /\ Others = heap /\ count < SIZE_MAX /\ wantFreed = {}
     \/ /\ wantRet = "failed" /\ MapOn(heap)
        /\ count = SIZE_MAX /\ key[t.root] # arg /\ wantFreed = {}

MapInv == /\ pc = "insert" => InsertInv
          /\ pc \in {"idle", "lookup", "exists", "fix_insert"} => MapOn(heap)
          /\ pc \in {"find", "find_max"} => MapOn(Others)
          /\ pc \in Removing => MapOn(heap \ {node})

FindInv == \/ /\ Others = heap /\ wantRet = "false" /\ wantFreed = {}
           \/ \E x \in heap : /\ key[x] = arg /\ wantRet = "true"
                              /\ wantFreed = {FreedKey(arg), FreedValue(arg, value[x])}

ResultInv ==
  /\ pc = "idle" => ret = wantRet
  /\ pc # "find" /\ pc # "insert" => freed = wantFreed
  /\ pc = "fix_insert" => wantRet = "new"
  /\ pc = "lookup" => wantRet = IF arg \in DOMAIN want THEN want[arg] ELSE "false"
  /\ pc = "exists" => wantRet = IF arg \in DOMAIN want THEN "true" ELSE "false"
  /\ pc = "find" => freed = {} /\ FindInv
  /\ pc \in {"find_max"} \cup Removing => wantRet = "true"

\* The pair survives the removal of arg.
PairInv ==
  /\ PairRefers
  /\ found # NULL /\ pc \in {"find", "find_max"} /\ (\E n \in heap : key[n] = arg)
       => found # arg /\ (found > arg \/ \E n \in heap : found < key[n] /\ key[n] < arg)
  /\ found # NULL /\ pc \in Removing => pair # node

IndInv == /\ Types /\ SoundInv /\ UniqueInv /\ RedInv
          /\ StackInv /\ SearchInv /\ MaxInv /\ VictimInv /\ GapInv
          /\ CountInv /\ MapInv /\ ResultInv /\ PairInv

-----------------------------------------------------------------------------
\* A nonempty set of numbers has a least one.
LEMMA LeastNumber ==
  ASSUME NEW T \in SUBSET Nat, T # {}
  PROVE  \E n \in T : \A m \in T : n <= m
<1> DEFINE Rel == {ss \in Nat \X Nat : ss[1] < ss[2]}
<1>1. IsWellFoundedOn(Rel, Nat)
  BY NatLessThanWellFounded DEF OpToRel
<1> HIDE DEF Rel
<1>2. PICK n \in T : \A m \in T : ~(<<m, n>> \in Rel)
  BY <1>1, WFMin
<1>3. \A m \in T : m < n => <<m, n>> \in Rel
  BY DEF Rel
<1>4. ASSUME NEW m \in T PROVE n <= m
  <2>1. ~(m < n)
    BY <1>2, <1>3, Zenon
  <2>2. m \in Nat /\ n \in Nat
    OBVIOUS
  <2> QED BY <2>1, <2>2
<1> QED BY <1>4

\* The null pointer is no node.
LEMMA Nodes == NULL \notin Node /\ IsFiniteSet(Node) /\ Node \subseteq Place /\ NULL \in Place
BY TreeAssumption DEF Place

\* Induction from the leaves to the roots: a set of places that contains NULL,
\* and a node if it contains its children, contains all.
LEMMA TreeInduction ==
  ASSUME NEW L \in Children, NEW R \in Children, NEW sub \in Subtrees,
         Shape(L, R, sub), NEW S, NULL \in S,
         \A n \in Node : L[n] \in S /\ R[n] \in S => n \in S
  PROVE  \A n \in Place : n \in S
<1> SUFFICES ASSUME NEW x \in Node, x \notin S PROVE FALSE
  BY DEF Place
<1> DEFINE c(n) == Cardinality(sub[n])
           Bad == Node \ S
           T == {c(n) : n \in Bad}
<1>1. \A n \in Place : sub[n] \in SUBSET Node /\ IsFiniteSet(sub[n]) /\ c(n) \in Nat
  BY Nodes, FS_Subset, FS_CardinalityType DEF Subtrees
<1>2. T \in SUBSET Nat /\ T # {}
  BY <1>1, Nodes
<1>3. PICK k \in T : \A j \in T : k <= j
  BY <1>2, LeastNumber
<1>4. PICK n \in Bad : k = c(n)
  OBVIOUS
<1>5. \A m \in Bad : c(n) <= c(m)
  BY <1>3, <1>4
<1>6. \A m \in Place : sub[m] \subseteq sub[n] /\ n \notin sub[m] /\ n \in sub[n] => c(m) < c(n)
  <2> SUFFICES ASSUME NEW m \in Place, sub[m] \subseteq sub[n], n \notin sub[m], n \in sub[n]
               PROVE  c(m) < c(n)
    OBVIOUS
  <2>1. c(m) <= c(n) /\ c(m) # c(n)
    BY <1>1, Nodes, FS_Subset
  <2> QED BY <2>1, <1>1, Nodes
<1>7. n \in Node /\ n \notin S /\ L[n] \in Place /\ R[n] \in Place
  BY DEF Children
<1>8. /\ sub[L[n]] \subseteq sub[n] /\ n \notin sub[L[n]] /\ n \in sub[n]
      /\ sub[R[n]] \subseteq sub[n] /\ n \notin sub[R[n]]
  BY <1>7 DEF Shape, Unfolds, Splits
<1>9. c(L[n]) < c(n) /\ c(R[n]) < c(n)
  BY <1>6, <1>7, <1>8
<1> HIDE DEF c
<1>10. L[n] \notin Bad /\ R[n] \notin Bad
  BY <1>1, <1>5, <1>7, <1>9, Nodes
<1>11. L[n] \in S /\ R[n] \in S
  BY <1>7, <1>10 DEF Place
<1> QED BY <1>7, <1>11

\* What is below a node of a subtree is in the subtree.
LEMMA BelowBelow ==
  ASSUME NEW L \in Children, NEW R \in Children, NEW sub \in Subtrees, Shape(L, R, sub)
  PROVE  \A n \in Place : \A m \in sub[n] : sub[m] \subseteq sub[n]
<1> DEFINE S == {n \in Place : \A m \in sub[n] : sub[m] \subseteq sub[n]}
<1>1. NULL \in S
  BY Nodes DEF Shape, Unfolds
<1>2. ASSUME NEW n \in Node, L[n] \in S, R[n] \in S PROVE n \in S
  <2>1. sub[n] = {n} \cup sub[L[n]] \cup sub[R[n]]
    BY DEF Shape, Unfolds
  <2>2. ASSUME NEW m \in sub[n] PROVE sub[m] \subseteq sub[n]
    BY <1>2, <2>1
  <2> QED BY <2>2, Nodes
<1> HIDE DEF S
<1>3. \A n \in Place : n \in S
  BY <1>1, <1>2, TreeInduction
<1> QED BY <1>3 DEF S

\* The parent of a node of a subtree is in the subtree, too, unless the node is
\* its root.
LEMMA ParentBelow ==
  ASSUME NEW L \in Children, NEW R \in Children, NEW sub \in Subtrees, Shape(L, R, sub),
         NEW x \in Node, NEW c \in Node, c \in {L[x], R[x]}
  PROVE  \A y \in Place : c \in sub[y] /\ c # y => x \in sub[y]
<1> DEFINE S == {y \in Place : c \in sub[y] /\ c # y => x \in sub[y]}
<1>1. NULL \in S
  BY Nodes DEF Shape, Unfolds
<1>2. ASSUME NEW y \in Node, L[y] \in S, R[y] \in S PROVE y \in S
  <2>1. sub[y] = {y} \cup sub[L[y]] \cup sub[R[y]]
    BY DEF Shape, Unfolds
  <2>2. c = L[y] \/ c = R[y] => x = y
    BY Nodes DEF Shape, OneParent
  <2> QED BY <1>2, <2>1, <2>2, Nodes
<1> HIDE DEF S
<1>3. \A y \in Place : y \in S
  BY <1>1, <1>2, TreeInduction
<1> QED BY <1>3 DEF S

\* A node is in its own subtree, and its children's subtrees are parts of it.
LEMMA OwnSubtree ==
  ASSUME NEW L \in Children, NEW R \in Children, NEW sub \in Subtrees, Shape(L, R, sub), NEW n \in Node
  PROVE  /\ n \in sub[n] /\ L[n] \in Place /\ R[n] \in Place
         /\ sub[n] = {n} \cup sub[L[n]] \cup sub[R[n]]
         /\ n \notin sub[L[n]] /\ n \notin sub[R[n]] /\ sub[L[n]] \cap sub[R[n]] = {}
         /\ L[n] # NULL => L[n] \in Node /\ L[n] \in sub[L[n]]
         /\ R[n] # NULL => R[n] \in Node /\ R[n] \in sub[R[n]]
         /\ L[n] # n /\ R[n] # n
         /\ L[n] # NULL => L[n] # R[n]
BY Nodes DEF Shape, Unfolds, Splits, Children, Place

\* The nodes below a child are not above it.
LEMMA ChildBelow ==
  ASSUME NEW L \in Children, NEW R \in Children, NEW sub \in Subtrees, Shape(L, R, sub),
         NEW x \in Node, NEW c \in Node, c \in {L[x], R[x]}
  PROVE  /\ sub[c] \subseteq sub[x] /\ x \notin sub[c] /\ c \in sub[c] /\ x \in sub[x] /\ c # x
         /\ \A m \in sub[c] : sub[m] \subseteq sub[c]
BY BelowBelow, Nodes, OwnSubtree

\* The root is no child.
LEMMA RootNoChild ==
  ASSUME NEW L \in Children, NEW R \in Children, NEW sub \in Subtrees, NEW r, NEW A,
         Tree(L, R, r, A, sub), NEW x \in Node
  PROVE  r # NULL => L[x] # r /\ R[x] # r
<1> SUFFICES ASSUME r \in Node, r \in {L[x], R[x]} PROVE FALSE
  BY DEF Tree, Place
<1>1. Shape(L, R, sub) /\ x \in sub[r]
  BY Nodes DEF Tree
<1> QED BY <1>1, ChildBelow

\* Nodes with a child, and children, are in the tree; and so is what is below.
LEMMA InTree ==
  ASSUME NEW L \in Children, NEW R \in Children, NEW sub \in Subtrees, NEW r, NEW A,
         Tree(L, R, r, A, sub)
  PROVE  /\ A \in SUBSET Node /\ (r # NULL => r \in A) /\ (r = NULL => A = {})
         /\ \A n \in Node : L[n] # NULL \/ R[n] # NULL => n \in A
         /\ \A n \in Node : L[n] \in A \cup {NULL} /\ R[n] \in A \cup {NULL}
         /\ \A n \in A : sub[n] \subseteq A
<1>1. Shape(L, R, sub) /\ r \in Place /\ sub[r] = A
  BY DEF Tree
<1>2. A \in SUBSET Node /\ (r # NULL => r \in A) /\ (r = NULL => A = {})
  BY <1>1 DEF Subtrees, Shape, Unfolds, Place
<1>3. \A n \in A : sub[n] \subseteq A
  BY <1>1, BelowBelow
<1>4. \A n \in Node : L[n] # NULL \/ R[n] # NULL => n \in A
  BY DEF Tree
<1>5. ASSUME NEW n \in Node PROVE L[n] \in A \cup {NULL} /\ R[n] \in A \cup {NULL}
  BY <1>1, <1>3, <1>4, OwnSubtree
<1> QED BY <1>2, <1>3, <1>4, <1>5

\* Below computes the subtrees.
LEMMA BelowIs ==
  ASSUME NEW L \in Children, NEW R \in Children, NEW sub \in Subtrees, Shape(L, R, sub)
  PROVE  Below(L, R) = sub
<1> DEFINE Eq(e) == e = [m \in Node \cup {NULL} |->
                           IF m = NULL THEN {} ELSE {m} \cup e[L[m]] \cup e[R[m]]]
<1>1. Eq(sub)
  BY Nodes DEF Subtrees, Place, Shape, Unfolds
<1>2. ASSUME NEW e, Eq(e) PROVE e = sub
  <2> DEFINE S == {m \in Place : e[m] = sub[m]}
  <2>1. NULL \in S
    BY <1>1, <1>2, Nodes DEF Place
  <2>2. ASSUME NEW n \in Node, L[n] \in S, R[n] \in S PROVE n \in S
    <3>1. e[n] = {n} \cup e[L[n]] \cup e[R[n]]
      BY <1>2, Nodes
    <3>2. sub[n] = {n} \cup sub[L[n]] \cup sub[R[n]]
      BY DEF Shape, Unfolds
    <3> QED BY ONLY <2>2, <3>1, <3>2, Nodes
  <2> HIDE DEF S
  <2>3. \A m \in Place : m \in S
    BY <2>1, <2>2, TreeInduction
  <2>4. \A m \in Place : e[m] = sub[m]
    BY <2>3 DEF S
  <2>5. /\ e = [m \in Place |-> e[m]]
        /\ sub = [m \in Place |-> sub[m]]
    BY <1>2 DEF Subtrees, Place
  <2> QED BY <2>4, <2>5
<1>3. Below(L, R) = CHOOSE e : Eq(e)
  BY DEF Below
<1> HIDE DEF Eq
<1> QED BY <1>1, <1>2, <1>3, Zenon

\* In a balanced tree all paths down have the same number of black nodes.
LEMMA OneHeight ==
  ASSUME NEW sub \in Subtrees, NEW bh \in Heights, t.left \in Children, t.right \in Children,
         Shape(t.left, t.right, sub), t.black \in [Node -> BOOLEAN],
         Balanced(t.left, t.right, Weight(t.black, NULL, NULL), bh), NEW n \in Place
  PROVE  BlackHeights(n) = {bh[n]}
<1> DEFINE L == t.left
           R == t.right
           w == Weight(t.black, NULL, NULL)
           Eq(e) == e = [m \in Node \cup {NULL} |->
                           IF m = NULL THEN {0}
                           ELSE {h + (IF t.black[m] THEN 1 ELSE 0) : h \in e[L[m]] \cup e[R[m]]}]
           f == [m \in Node \cup {NULL} |-> {bh[m]}]
<1>0. \A m \in Node : /\ w[m] = IF t.black[m] THEN 1 ELSE 0
                      /\ L[m] \in Node \cup {NULL} /\ R[m] \in Node \cup {NULL}
  BY Nodes DEF Weight, Children, Place
<1>1. \A m \in Node : bh[m] = bh[L[m]] + (IF t.black[m] THEN 1 ELSE 0) /\ bh[R[m]] = bh[L[m]]
  BY <1>0 DEF Balanced
<1>2. ASSUME NEW e, Eq(e) PROVE e = f
  <2> DEFINE S == {m \in Place : e[m] = {bh[m]}}
  <2>1. NULL \in S
    BY <1>2, Nodes DEF Place, Balanced
  <2>2. ASSUME NEW m \in Node, L[m] \in S, R[m] \in S PROVE m \in S
    <3>1. e[m] = {h + (IF t.black[m] THEN 1 ELSE 0) : h \in e[L[m]] \cup e[R[m]]}
      BY <1>2, Nodes
    <3>2. e[L[m]] \cup e[R[m]] = {bh[L[m]]}
      BY <2>2, <1>1
    <3>3. e[m] = {bh[L[m]] + (IF t.black[m] THEN 1 ELSE 0)}
      BY <3>1, <3>2
    <3> QED BY <1>1, <3>3, Nodes
  <2> HIDE DEF S
  <2>3. \A m \in Place : m \in S
    BY <2>1, <2>2, TreeInduction
  <2>4. \A m \in Node \cup {NULL} : e[m] = {bh[m]}
    BY <2>3 DEF S, Place
  <2> QED BY <1>2, <2>4
<1>3. Eq(f)
  <2>1. ASSUME NEW m \in Node
        PROVE  {bh[m]} = {h + (IF t.black[m] THEN 1 ELSE 0) : h \in f[L[m]] \cup f[R[m]]}
    <3>1. f[L[m]] \cup f[R[m]] = {bh[L[m]]}
      BY <1>0, <1>1
    <3> HIDE DEF f
    <3> QED BY <1>1, <3>1
  <2>2. bh[NULL] = 0
    BY DEF Balanced
  <2> QED BY <2>1, <2>2, Nodes
<1>4. f[n] = {bh[n]}
  BY DEF Place
<1>5. BlackHeights(n) = (CHOOSE e : Eq(e))[n]
  BY DEF BlackHeights
<1> HIDE DEF Eq, f
<1>6. (CHOOSE e : Eq(e)) = f
  BY <1>2, <1>3, Zenon
<1> QED BY <1>4, <1>5, <1>6, Zenon

-----------------------------------------------------------------------------
\* The children L2 and R2 and the root r2 after R[n] has been rotated above n,
\* a child of p or the root.
Rotates(L, R, r, L2, R2, r2, n, p) ==
  /\ n \in Node /\ R[n] \in Node /\ p \in Place
  /\ IF p = NULL THEN r = n /\ r2 = R[n] ELSE r2 = r /\ n \in {L[p], R[p]}
  /\ L2 \in Children /\ R2 \in Children
  /\ \A m \in Node : L2[m] = IF m = R[n] THEN n
                             ELSE IF m = p /\ L[m] = n THEN R[n] ELSE L[m]
  /\ \A m \in Node : R2[m] = IF m = n THEN L[R[n]]
                             ELSE IF m = p /\ R[m] = n THEN R[n] ELSE R[m]

Turned(sub, L, R, n) ==
  [sub EXCEPT ![n] = {n} \cup sub[L[n]] \cup sub[L[R[n]]], ![R[n]] = sub[n]]

\* The places around a rotation.
LEMMA RotatesPlaces ==
  ASSUME NEW L \in Children, NEW R \in Children, NEW sub \in Subtrees, NEW r, NEW A,
         Tree(L, R, r, A, sub), NEW L2, NEW R2, NEW r2, NEW n, NEW p,
         Rotates(L, R, r, L2, R2, r2, n, p)
  PROVE  /\ p # n /\ p # R[n] /\ R[n] # n
         /\ L[R[n]] # n /\ L[R[n]] # R[n] /\ R[R[n]] # n /\ R[R[n]] # R[n]
         /\ L[n] # n /\ L[n] # R[n]
         /\ \A m \in Node : m # p => L[m] # n /\ R[m] # n
         /\ \A m \in Node : m # n => L[m] # R[n] /\ R[m] # R[n]
         /\ p # NULL /\ L[p] = n => R[p] # n
<1> DEFINE c == R[n]
<1>1. /\ n \in Node /\ c \in Node /\ p \in Place /\ Shape(L, R, sub)
      /\ p # NULL => p \in Node /\ n \in {L[p], R[p]}
      /\ p = NULL => r = n
  BY DEF Rotates, Tree, Place
<1>2. sub[c] \subseteq sub[n] /\ n \notin sub[c] /\ c \in sub[c] /\ n \in sub[n] /\ c # n
  BY <1>1, ChildBelow
<1>3. p # NULL => p # n /\ p # c
  BY <1>1, <1>2, ChildBelow
<1>4. \A m \in Node : n \in {L[m], R[m]} => m = p
  BY <1>1, RootNoChild, Nodes DEF Shape, OneParent
<1>5. \A m \in Node : c \in {L[m], R[m]} => m = n
  BY <1>1, Nodes DEF Shape, OneParent
<1>6. L[n] # c /\ (p # NULL /\ L[p] = n => R[p] # n)
  BY <1>1, OwnSubtree, Nodes
<1>7. p # n /\ p # c
  BY <1>1, <1>3, Nodes
<1> QED BY ONLY <1>1, <1>2, <1>4, <1>5, <1>6, <1>7

\* The subtrees after a rotation.
LEMMA TurnedValues ==
  ASSUME NEW L \in Children, NEW R \in Children, NEW sub \in Subtrees, NEW r, NEW A,
         Tree(L, R, r, A, sub), NEW L2, NEW R2, NEW r2, NEW n, NEW p,
         Rotates(L, R, r, L2, R2, r2, n, p), NEW s2, s2 = Turned(sub, L, R, n)
  PROVE  /\ s2 \in Subtrees
         /\ \A m \in Node \ {n, R[n]} : /\ s2[L2[m]] = sub[L[m]] /\ s2[R2[m]] = sub[R[m]]
                                        /\ s2[m] = sub[m]
         /\ s2[L2[n]] = sub[L[n]] /\ s2[R2[n]] = sub[L[R[n]]]
         /\ s2[n] = {n} \cup sub[L[n]] \cup sub[L[R[n]]]
         /\ s2[L2[R[n]]] = {n} \cup sub[L[n]] \cup sub[L[R[n]]] /\ s2[R2[R[n]]] = sub[R[R[n]]]
         /\ s2[R[n]] = sub[n] /\ s2[NULL] = {}
<1> DEFINE c == R[n]
<1>1. /\ n \in Node /\ c \in Node /\ p \in Place /\ n \in Place /\ c \in Place /\ Shape(L, R, sub)
      /\ \A m \in Node : L[m] \in Place /\ R[m] \in Place
  BY DEF Rotates, Tree, Place, Children
<1>2. /\ p # n /\ p # c /\ c # n
      /\ L[c] # n /\ L[c] # c /\ R[c] # n /\ R[c] # c
      /\ L[n] # n /\ L[n] # c
      /\ \A m \in Node : m # p => L[m] # n /\ R[m] # n
      /\ \A m \in Node : m # n => L[m] # c /\ R[m] # c
      /\ p # NULL /\ L[p] = n => R[p] # n
  BY RotatesPlaces
<1>3. /\ \A m \in Place : s2[m] = IF m = c THEN sub[n]
                             ELSE IF m = n THEN {n} \cup sub[L[n]] \cup sub[L[c]] ELSE sub[m]
      /\ s2 \in Subtrees
  BY <1>1, <1>2 DEF Turned, Subtrees
<1>4. /\ \A m \in Node : L2[m] = IF m = c THEN n ELSE IF m = p /\ L[m] = n THEN c ELSE L[m]
      /\ \A m \in Node : R2[m] = IF m = n THEN L[c] ELSE IF m = p /\ R[m] = n THEN c ELSE R[m]
  BY DEF Rotates
<1>5. s2[NULL] = {}
  BY <1>1, <1>3, Nodes DEF Shape, Unfolds
<1> HIDE DEF c
<1>6. ASSUME NEW m \in Node \ {n, c}
      PROVE  s2[L2[m]] = sub[L[m]] /\ s2[R2[m]] = sub[R[m]] /\ s2[m] = sub[m]
  BY <1>1, <1>2, <1>3, <1>4, <1>6, Nodes
<1>7. s2[L2[n]] = sub[L[n]] /\ s2[R2[n]] = sub[L[c]] /\ s2[n] = {n} \cup sub[L[n]] \cup sub[L[c]]
  BY <1>1, <1>2, <1>3, <1>4
<1>8. /\ s2[L2[c]] = {n} \cup sub[L[n]] \cup sub[L[c]] /\ s2[R2[c]] = sub[R[c]]
      /\ s2[c] = sub[n]
  BY <1>1, <1>2, <1>3, <1>4
<1> QED BY <1>3, <1>5, <1>6, <1>7, <1>8 DEF c

\* A rotation makes a tree of a tree.
LEMMA RotatedTree ==
  ASSUME NEW L \in Children, NEW R \in Children, NEW sub \in Subtrees, NEW r, NEW A,
         Tree(L, R, r, A, sub), NEW L2, NEW R2, NEW r2, NEW n, NEW p,
         Rotates(L, R, r, L2, R2, r2, n, p)
  PROVE  Tree(L2, R2, r2, A, Turned(sub, L, R, n))
<1> DEFINE c == R[n]
           s2 == Turned(sub, L, R, n)
<1>1. /\ n \in Node /\ c \in Node /\ p \in Place /\ Shape(L, R, sub)
      /\ \A m \in Node : L[m] \in Place /\ R[m] \in Place
  BY DEF Rotates, Tree, Children
<1>2. /\ p # n /\ p # c /\ c # n
      /\ L[c] # n /\ L[c] # c /\ R[c] # n /\ R[c] # c
      /\ L[n] # n /\ L[n] # c
      /\ \A m \in Node : m # p => L[m] # n /\ R[m] # n
      /\ \A m \in Node : m # n => L[m] # c /\ R[m] # c
      /\ p # NULL /\ L[p] = n => R[p] # n
  BY RotatesPlaces
<1>3. /\ \A m \in Node \ {n, c} : /\ s2[L2[m]] = sub[L[m]] /\ s2[R2[m]] = sub[R[m]]
                                  /\ s2[m] = sub[m]
      /\ s2[L2[n]] = sub[L[n]] /\ s2[R2[n]] = sub[L[c]]
      /\ s2[n] = {n} \cup sub[L[n]] \cup sub[L[c]]
      /\ s2[L2[c]] = {n} \cup sub[L[n]] \cup sub[L[c]] /\ s2[R2[c]] = sub[R[c]]
      /\ s2[c] = sub[n] /\ s2[NULL] = {}
  BY TurnedValues
<1>4. \A m \in Node : /\ sub[m] = {m} \cup sub[L[m]] \cup sub[R[m]]
                      /\ m \notin sub[L[m]] /\ m \notin sub[R[m]] /\ sub[L[m]] \cap sub[R[m]] = {}
  BY <1>1 DEF Shape, Unfolds, Splits
<1>5. sub[n] = {n} \cup sub[L[n]] \cup ({c} \cup sub[L[c]] \cup sub[R[c]])
  BY <1>1, <1>4
<1> HIDE DEF s2
<1>6. Unfolds(L2, R2, s2)
  <2>1. ASSUME NEW m \in Node PROVE s2[m] = {m} \cup s2[L2[m]] \cup s2[R2[m]]
    <3>1. CASE m = n
      BY <1>3, <3>1
    <3>2. CASE m = c
      BY ONLY <1>3, <1>5, <3>2
    <3>3. CASE m \notin {n, c}
      BY <1>3, <1>4, <3>3
    <3> QED BY <3>1, <3>2, <3>3
  <2> QED BY <2>1, <1>3 DEF Unfolds
<1>7. Splits(L2, R2, s2)
  <2>1. ASSUME NEW m \in Node
        PROVE  m \notin s2[L2[m]] /\ m \notin s2[R2[m]] /\ s2[L2[m]] \cap s2[R2[m]] = {}
    <3>0. /\ n \notin sub[L[n]] /\ n \notin sub[c] /\ sub[L[n]] \cap sub[c] = {}
          /\ sub[c] = {c} \cup sub[L[c]] \cup sub[R[c]]
          /\ c \notin sub[L[c]] /\ c \notin sub[R[c]] /\ sub[L[c]] \cap sub[R[c]] = {}
      BY <1>1, <1>4
    <3>1. CASE m = n
      BY ONLY <1>3, <3>0, <3>1
    <3>2. CASE m = c
      BY ONLY <1>2, <1>3, <3>0, <3>2
    <3>3. CASE m \notin {n, c}
      BY <1>3, <1>4, <3>3
    <3> QED BY <3>1, <3>2, <3>3
  <2> QED BY <2>1 DEF Splits
<1> HIDE DEF c
<1>8. OneParent(L2, R2)
  <2>1. /\ \A m \in Node : L2[m] = IF m = c THEN n ELSE IF m = p /\ L[m] = n THEN c ELSE L[m]
        /\ \A m \in Node : R2[m] = IF m = n THEN L[c] ELSE IF m = p /\ R[m] = n THEN c ELSE R[m]
    BY DEF Rotates, c
  <2>2. OneParent(L, R)
    BY <1>1 DEF Shape
  <2> SUFFICES ASSUME NEW m \in Node, NEW k \in Node
               PROVE  /\ L2[m] # NULL /\ L2[m] = L2[k] => m = k
                      /\ R2[m] # NULL /\ R2[m] = R2[k] => m = k
                      /\ L2[m] # NULL => L2[m] # R2[k]
    BY DEF OneParent
  <2>3. /\ L[m] # NULL /\ L[m] = L[k] => m = k
        /\ R[m] # NULL /\ R[m] = R[k] => m = k
        /\ L[m] # NULL => L[m] # R[k]
        /\ L[m] # NULL /\ L[m] = L[c] => m = c
        /\ L[c] # NULL => L[c] # R[k] /\ L[c] # R[m]
        /\ L[c] # NULL /\ L[c] = L[m] => m = c
        /\ L[c] # NULL /\ L[c] = L[k] => k = c
    BY <1>1, <2>2 DEF OneParent
  <2>4. L2[m] # NULL /\ L2[m] = L2[k] => m = k
    BY ONLY <1>1, <1>2, <2>1, <2>3
  <2>5. R2[m] # NULL /\ R2[m] = R2[k] => m = k
    BY ONLY <1>1, <1>2, <2>1, <2>3
  <2>6. L2[m] # NULL => L2[m] # R2[k]
    BY ONLY <1>1, <1>2, <2>1, <2>3
  <2> QED BY <2>4, <2>5, <2>6
<1>9. r2 \in Place /\ s2[r2] = A
  <2>1. r \in Place /\ sub[r] = A /\ IF p = NULL THEN r = n /\ r2 = c ELSE r2 = r /\ n \in {L[p], R[p]}
    BY DEF Rotates, Tree, c
  <2>2. p # NULL => r # n
    BY <2>1, RootNoChild, <1>1, Nodes DEF Place
  <2>3. p # NULL => r # c
    BY <2>1, RootNoChild, <1>1, Nodes DEF c
  <2>4. sub[NULL] = {}
    BY <1>1 DEF Shape, Unfolds
  <2> QED BY <1>1, <1>3, <2>1, <2>2, <2>3, <2>4 DEF Place
<1>10. ASSUME NEW m \in Node \ A PROVE L2[m] = NULL /\ R2[m] = NULL
  <2>1. \A k \in Node : L[k] # NULL \/ R[k] # NULL => k \in A
    BY InTree
  <2>2. n \in A /\ (p # NULL => p \in A)
    BY <2>1, <1>1, Nodes DEF c, Rotates, Place
  <2>3. c \in A
    BY <1>1, <2>2, InTree, Nodes DEF c
  <2>4. L2[m] = L[m] /\ R2[m] = R[m]
    BY <2>2, <2>3, Nodes DEF Rotates, c
  <2> QED BY <2>1, <2>4
<1> QED BY <1>1, <1>6, <1>7, <1>8, <1>9, <1>10 DEF Tree, Shape, s2

\* A rotation keeps the keys in order.
LEMMA RotatedOrder ==
  ASSUME NEW L \in Children, NEW R \in Children, NEW sub \in Subtrees, NEW r, NEW A,
         Tree(L, R, r, A, sub), NEW L2, NEW R2, NEW r2, NEW n, NEW p,
         Rotates(L, R, r, L2, R2, r2, n, p),
         NEW k \in [Node -> Int], NEW X, Order(L, R, sub, k, X), n \notin X, R[n] \notin X
  PROVE  Order(L2, R2, Turned(sub, L, R, n), k, X)
<1> DEFINE c == R[n]
           s2 == Turned(sub, L, R, n)
<1>1. n \in Node /\ c \in Node /\ Shape(L, R, sub)
  BY DEF Rotates, Tree
<1>2. /\ \A m \in Node \ {n, c} : s2[L2[m]] = sub[L[m]] /\ s2[R2[m]] = sub[R[m]]
      /\ s2[L2[n]] = sub[L[n]] /\ s2[R2[n]] = sub[L[c]]
      /\ s2[L2[c]] = {n} \cup sub[L[n]] \cup sub[L[c]] /\ s2[R2[c]] = sub[R[c]]
  BY TurnedValues
<1>3. /\ sub[c] = {c} \cup sub[L[c]] \cup sub[R[c]]
      /\ sub[L[n]] \subseteq Node
  BY <1>1 DEF Shape, Unfolds, Subtrees, Children
<1>4. \A m \in Node \ X : /\ \A q \in sub[L[m]] \ X : k[q] < k[m]
                          /\ \A q \in sub[R[m]] \ X : k[q] > k[m]
  BY DEF Order
<1> HIDE DEF s2, c
<1>5. k[c] > k[n] /\ \A q \in sub[L[c]] \ X : k[q] > k[n]
  BY <1>1, <1>3, <1>4 DEF c
<1>6. ASSUME NEW m \in Node \ X
      PROVE  /\ \A q \in s2[L2[m]] \ X : k[q] < k[m]
             /\ \A q \in s2[R2[m]] \ X : k[q] > k[m]
  <2>1. CASE m = n
    BY <1>2, <1>4, <1>5, <2>1
  <2>2. CASE m = c
    <3>1. ASSUME NEW q \in sub[L[n]] \ X PROVE k[q] < k[c]
      <4>1. k[q] < k[n] /\ k[q] \in Int /\ k[n] \in Int /\ k[c] \in Int
        BY <1>1, <1>3, <1>4
      <4> QED BY <4>1, <1>5
    <3>2. k[n] < k[c]
      BY <1>5, <1>1
    <3> QED BY <1>2, <1>4, <2>2, <3>1, <3>2, <1>1 DEF c
  <2>3. CASE m \notin {n, c}
    BY <1>2, <1>4, <2>3
  <2> QED BY <2>1, <2>2, <2>3
<1> QED BY <1>6 DEF Order, s2

\* Reading a tree from right to left.
LEMMA Mirrored ==
  ASSUME NEW L \in Children, NEW R \in Children, NEW sub \in Subtrees
  PROVE  /\ Shape(L, R, sub) => Shape(R, L, sub)
         /\ \A r, A : Tree(L, R, r, A, sub) => Tree(R, L, r, A, sub)
         /\ \A k \in [Node -> Int] : \A X :
              Order(L, R, sub, k, X)
              <=> Order(R, L, sub, [n \in Node |-> -k[n]], X)
         /\ \A w, bh : Balanced(L, R, w, bh) => Balanced(R, L, w, bh)
<1>1. Shape(L, R, sub) => Shape(R, L, sub)
  <2> SUFFICES ASSUME Shape(L, R, sub) PROVE Shape(R, L, sub)
    OBVIOUS
  <2>1. OneParent(R, L)
    BY DEF Shape, OneParent
  <2>2. Unfolds(R, L, sub)
    BY DEF Shape, Unfolds
  <2>3. Splits(R, L, sub)
    BY DEF Shape, Splits
  <2> QED BY <2>1, <2>2, <2>3 DEF Shape
<1>2. \A r, A : Tree(L, R, r, A, sub) => Tree(R, L, r, A, sub)
  BY <1>1 DEF Tree
<1>3. ASSUME NEW k \in [Node -> Int], NEW X
      PROVE  Order(L, R, sub, k, X) <=> Order(R, L, sub, [n \in Node |-> -k[n]], X)
  <2> DEFINE j == [n \in Node |-> -k[n]]
  <2>1. \A m, n \in Node : (k[m] < k[n] <=> j[m] > j[n])
    BY SMT
  <2>2. \A m, n \in Node : (k[m] > k[n] <=> j[m] < j[n])
    BY SMT
  <2> HIDE DEF j
  <2>3. \A n \in Node : sub[L[n]] \subseteq Node /\ sub[R[n]] \subseteq Node
    BY DEF Subtrees, Children
  <2>4. Order(L, R, sub, k, X) => Order(R, L, sub, j, X)
    BY <2>1, <2>2, <2>3 DEF Order
  <2>5. Order(R, L, sub, j, X) => Order(L, R, sub, k, X)
    BY <2>1, <2>2, <2>3 DEF Order
  <2> QED BY <2>4, <2>5 DEF j
<1>4. \A w, bh : Balanced(L, R, w, bh) => Balanced(R, L, w, bh)
  BY DEF Balanced
<1> QED BY <1>1, <1>2, <1>3, <1>4

\* The mirrored rotation keeps the keys in order.
LEMMA MirroredOrder ==
  ASSUME NEW L \in Children, NEW R \in Children, NEW sub \in Subtrees, NEW r, NEW A,
         Tree(L, R, r, A, sub), NEW L2 \in Children, NEW R2 \in Children, NEW r2, NEW n, NEW p,
         Rotates(R, L, r, R2, L2, r2, n, p),
         NEW k \in [Node -> Int], NEW X, Order(L, R, sub, k, X), n \notin X, L[n] \notin X
  PROVE  Order(L2, R2, Turned(sub, R, L, n), k, X)
<1> DEFINE j == [m \in Node |-> -k[m]]
           s2 == Turned(sub, R, L, n)
<1>1. Tree(R, L, r, A, sub) /\ Order(R, L, sub, j, X) /\ j \in [Node -> Int]
  BY Mirrored
<1> HIDE DEF j
<1>2. Order(R2, L2, s2, j, X)
  BY <1>1, RotatedOrder
<1>3. s2 \in Subtrees
  BY <1>1, TurnedValues
<1> HIDE DEF s2
<1> QED BY <1>2, <1>3, Mirrored DEF j, s2

\* A rotation of a node without weight above another exchanges their weights.
LEMMA RotatedBalance ==
  ASSUME NEW L \in Children, NEW R \in Children, NEW sub \in Subtrees, NEW r, NEW A,
         Tree(L, R, r, A, sub), NEW L2, NEW R2, NEW r2, NEW n, NEW p,
         Rotates(L, R, r, L2, R2, r2, n, p),
         NEW w \in [Node -> Nat], NEW bh \in Heights, Balanced(L, R, w, bh), w[R[n]] = 0,
         NEW w2 \in [Node -> Nat], w2[n] = 0, w2[R[n]] = w[n],
         \A m \in Node \ {n, R[n]} : w2[m] = w[m]
  PROVE  \E h \in Heights : Balanced(L2, R2, w2, h)
<1> DEFINE c == R[n]
           h == [m \in Place |-> IF m = c THEN bh[n] ELSE IF m = n THEN bh[L[n]] ELSE bh[m]]
<1>1. /\ n \in Node /\ c \in Node /\ p \in Place /\ Shape(L, R, sub)
      /\ \A m \in Node : L[m] \in Place /\ R[m] \in Place
      /\ \A m \in Node : L2[m] \in Place /\ R2[m] \in Place
  BY DEF Rotates, Tree, Children
<1>2. /\ p # n /\ p # c /\ c # n
      /\ L[c] # n /\ L[c] # c /\ R[c] # n /\ R[c] # c
      /\ L[n] # n /\ L[n] # c
      /\ \A m \in Node : m # p => L[m] # n /\ R[m] # n
      /\ \A m \in Node : m # n => L[m] # c /\ R[m] # c
      /\ p # NULL /\ L[p] = n => R[p] # n
  BY RotatesPlaces
<1>3. /\ \A m \in Node : L2[m] = IF m = c THEN n ELSE IF m = p /\ L[m] = n THEN c ELSE L[m]
      /\ \A m \in Node : R2[m] = IF m = n THEN L[c] ELSE IF m = p /\ R[m] = n THEN c ELSE R[m]
  BY DEF Rotates
<1>4. bh[NULL] = 0 /\ \A m \in Node : bh[L[m]] = bh[R[m]] /\ bh[m] = bh[L[m]] + w[m]
  BY DEF Balanced
<1>5. \A m \in Place : bh[m] \in Nat
  BY DEF Heights
<1>6. h \in Heights /\ \A m \in Place : h[m] = IF m = c THEN bh[n] ELSE IF m = n THEN bh[L[n]] ELSE bh[m]
  BY <1>1, <1>5 DEF Heights, Place
<1>w. w[c] = 0 /\ w2[c] = w[n] /\ \A m \in Node \ {n, c} : w2[m] = w[m]
  OBVIOUS
<1> HIDE DEF h, c
<1>7. h[NULL] = 0
  BY <1>4, <1>6, <1>1, Nodes
<1>8. ASSUME NEW m \in Node PROVE h[L2[m]] = h[R2[m]] /\ h[m] = h[L2[m]] + w2[m]
  <2>1. bh[c] = bh[L[n]] /\ bh[c] = bh[L[c]] /\ bh[c] = bh[R[c]]
    BY <1>1, <1>4, <1>5, <1>w DEF c
  <2>2. CASE m = n
    <3>1. h[L2[m]] = bh[L[n]] /\ h[R2[m]] = bh[L[c]] /\ h[m] = bh[L[n]]
      BY <1>1, <1>2, <1>3, <1>6, <2>2, Nodes
    <3> QED BY <3>1, <2>1, <2>2, <1>1, <1>5
  <2>3. CASE m = c
    <3>1. h[L2[m]] = bh[L[n]] /\ h[R2[m]] = bh[R[c]] /\ h[m] = bh[n]
      BY <1>1, <1>2, <1>3, <1>6, <2>3, Nodes
    <3> QED BY <3>1, <2>1, <2>3, <1>1, <1>4, <1>w
  <2>4. CASE m \notin {n, c}
    <3>1. h[L2[m]] = bh[L[m]] /\ h[R2[m]] = bh[R[m]] /\ h[m] = bh[m]
      BY <1>1, <1>2, <1>3, <1>6, <2>4, Nodes
    <3> QED BY <3>1, <2>4, <1>4, <1>w
  <2> QED BY <2>2, <2>3, <2>4
<1> QED BY <1>6, <1>7, <1>8 DEF Balanced

\* Weight can be moved between a node and both its children.
LEMMA ShiftedBalance ==
  ASSUME NEW L \in Children, NEW R \in Children, OneParent(L, R),
         NEW n \in Node, L[n] \in Node, R[n] \in Node, L[n] # n, R[n] # n,
         NEW w \in [Node -> Nat], NEW bh \in Heights, Balanced(L, R, w, bh),
         NEW d \in Int, NEW w2 \in [Node -> Nat],
         w2[n] = w[n] - d, w2[L[n]] = w[L[n]] + d, w2[R[n]] = w[R[n]] + d,
         \A m \in Node \ {n, L[n], R[n]} : w2[m] = w[m]
  PROVE  \E h \in Heights : Balanced(L, R, w2, h)
<1> DEFINE h == [m \in Place |-> IF m \in {L[n], R[n]} THEN bh[m] + d ELSE bh[m]]
<1>1. bh[NULL] = 0 /\ \A m \in Node : bh[L[m]] = bh[R[m]] /\ bh[m] = bh[L[m]] + w[m]
  BY DEF Balanced
<1>2. /\ \A m \in Place : bh[m] \in Nat
      /\ \A m \in Node : L[m] \in Place /\ R[m] \in Place
  BY DEF Heights, Children
<1>3. \A m \in Node \ {n} : /\ L[m] \notin {L[n], R[n]} /\ R[m] \notin {L[n], R[n]}
  BY Nodes DEF OneParent
<1>4. ASSUME NEW m \in {L[n], R[n]} PROVE bh[m] + d \in Nat /\ bh[m] + d = bh[L[m]] + w2[m]
  <2>1. m \in Node /\ bh[m] \in Nat /\ bh[L[m]] \in Nat /\ w[m] \in Nat /\ w2[m] \in Nat
    BY <1>2, Nodes
  <2>2. bh[m] = bh[L[m]] + w[m] /\ w2[m] = w[m] + d
    BY <1>1, <2>1
  <2> QED BY <2>1, <2>2
<1>5. h \in Heights /\ \A m \in Place : h[m] = IF m \in {L[n], R[n]} THEN bh[m] + d ELSE bh[m]
  BY <1>2, <1>4 DEF Heights
<1> HIDE DEF h
<1>6. h[NULL] = 0
  BY <1>1, <1>5, Nodes
<1>7. ASSUME NEW m \in Node PROVE h[L[m]] = h[R[m]] /\ h[m] = h[L[m]] + w2[m]
  <2>1. CASE m = n
    <3>1. h[n] = bh[n] /\ h[L[n]] = bh[L[n]] + d /\ h[R[n]] = bh[R[n]] + d
      BY <1>5, Nodes
    <3> QED BY <1>1, <1>2, <2>1, <3>1
  <2>2. CASE m \in {L[n], R[n]}
    <3>1. h[m] = bh[m] + d /\ h[L[m]] = bh[L[m]] /\ h[R[m]] = bh[R[m]]
      BY <1>2, <1>3, <1>5, <2>2, Nodes
    <3> QED BY <1>1, <1>4, <2>2, <3>1
  <2>3. CASE m \notin {n, L[n], R[n]}
    <3>1. h[m] = bh[m] /\ h[L[m]] = bh[L[m]] /\ h[R[m]] = bh[R[m]] /\ w2[m] = w[m]
      BY <1>2, <1>3, <1>5, <2>3, Nodes
    <3> QED BY <1>1, <3>1
  <2> QED BY <2>1, <2>2, <2>3
<1> QED BY <1>5, <1>6, <1>7 DEF Balanced

\* The weight of the root does not matter.
LEMMA RootBalance ==
  ASSUME NEW L \in Children, NEW R \in Children, NEW n \in Node,
         \A m \in Node : L[m] # n /\ R[m] # n,
         NEW w \in [Node -> Nat], NEW bh \in Heights, Balanced(L, R, w, bh),
         NEW w2 \in [Node -> Nat], \A m \in Node \ {n} : w2[m] = w[m]
  PROVE  \E h \in Heights : Balanced(L, R, w2, h)
<1> DEFINE h == [m \in Place |-> IF m = n THEN bh[L[n]] + w2[n] ELSE bh[m]]
<1>1. bh[NULL] = 0 /\ \A m \in Node : bh[L[m]] = bh[R[m]] /\ bh[m] = bh[L[m]] + w[m]
  BY DEF Balanced
<1>2. /\ \A m \in Place : bh[m] \in Nat
      /\ \A m \in Node : L[m] \in Place /\ R[m] \in Place
  BY DEF Heights, Children
<1>3. h \in Heights /\ \A m \in Place : h[m] = IF m = n THEN bh[L[n]] + w2[n] ELSE bh[m]
  BY <1>2 DEF Heights
<1> HIDE DEF h
<1>4. h[NULL] = 0
  BY <1>1, <1>3, Nodes
<1>5. ASSUME NEW m \in Node PROVE h[L[m]] = h[R[m]] /\ h[m] = h[L[m]] + w2[m]
  <2>1. h[L[m]] = bh[L[m]] /\ h[R[m]] = bh[R[m]]
    BY <1>2, <1>3
  <2>2. CASE m = n
    BY <1>1, <1>3, <2>1, <2>2, Nodes
  <2>3. CASE m # n
    BY <1>1, <1>3, <2>1, <2>3, Nodes
  <2> QED BY <2>2, <2>3
<1> QED BY <1>3, <1>4, <1>5 DEF Balanced

-----------------------------------------------------------------------------
\* A node outside the tree is in no subtree but its own.
LEMMA Outside ==
  ASSUME NEW L \in Children, NEW R \in Children, NEW sub \in Subtrees, NEW r, NEW A,
         Tree(L, R, r, A, sub), NEW n \in Node \ A
  PROVE  /\ sub[n] = {n} /\ L[n] = NULL /\ R[n] = NULL
         /\ \A m \in Place \ {n} : n \notin sub[m]
         /\ \A m \in Node : L[m] # n /\ R[m] # n
<1>1. /\ \A m \in Node \ A : L[m] = NULL /\ R[m] = NULL
      /\ sub[NULL] = {} /\ \A m \in Node : sub[m] = {m} \cup sub[L[m]] \cup sub[R[m]]
  BY DEF Tree, Shape, Unfolds
<1>2. \A m \in A : sub[m] \subseteq A
  BY InTree
<1>3. \A m \in Node : L[m] \in A \cup {NULL} /\ R[m] \in A \cup {NULL}
  BY InTree
<1>4. \A m \in Place \ {n} : n \notin sub[m]
  BY <1>1, <1>2 DEF Place
<1> QED BY <1>1, <1>3, <1>4, Nodes

\* L2 are the left children after the leaf n has been added left of p.
Adds(L, L2, p, n) == /\ L2 \in Children /\ L[p] = NULL
                     /\ \A m \in Node : L2[m] = IF m = p THEN n ELSE L[m]

WithLeaf(sub, p, n) == [m \in Place |-> IF p \in sub[m] THEN sub[m] \cup {n} ELSE sub[m]]

\* s2 are the subtrees after that.
HasLeaf(L, R, L2, sub, p, n, s2) ==
  /\ s2 \in Subtrees /\ s2[NULL] = {} /\ p \in Node
  /\ \A m \in Node : /\ s2[m] = IF p \in sub[m] THEN sub[m] \cup {n} ELSE sub[m]
                     /\ s2[R[m]] = IF p \in sub[R[m]] THEN sub[R[m]] \cup {n} ELSE sub[R[m]]
  /\ \A m \in Node \ {p} : s2[L2[m]] = IF p \in sub[L[m]] THEN sub[L[m]] \cup {n} ELSE sub[L[m]]
  /\ s2[L2[p]] = {n}

\* The subtrees after a leaf has been added.
LEMMA LeafValues ==
  ASSUME NEW L \in Children, NEW R \in Children, NEW sub \in Subtrees, NEW r, NEW A,
         Tree(L, R, r, A, sub), NEW L2, NEW p \in A, NEW n \in Node \ A, Adds(L, L2, p, n)
  PROVE  HasLeaf(L, R, L2, sub, p, n, WithLeaf(sub, p, n))
<1> DEFINE s2 == WithLeaf(sub, p, n)
<1>1. Shape(L, R, sub) /\ A \in SUBSET Node /\ sub[NULL] = {} /\ sub[n] = {n}
  BY InTree, Outside DEF Tree, Shape, Unfolds
<1>2. \A m \in Node : L[m] \in Place /\ R[m] \in Place
  BY DEF Children
<1>3. /\ \A m \in Place : s2[m] = IF p \in sub[m] THEN sub[m] \cup {n} ELSE sub[m]
      /\ s2 \in Subtrees
  BY DEF WithLeaf, Subtrees
<1>4. s2[n] = {n}
  BY <1>1, <1>3, Nodes
<1> HIDE DEF s2
<1>5. \A m \in Node \ {p} :
        s2[L2[m]] = IF p \in sub[L[m]] THEN sub[L[m]] \cup {n} ELSE sub[L[m]]
  BY <1>1, <1>2, <1>3 DEF Adds
<1> QED BY <1>1, <1>2, <1>3, <1>4, <1>5, Nodes DEF Adds, HasLeaf, s2

\* A tree with one leaf more is a tree.
LEMMA LeafTree ==
  ASSUME NEW L \in Children, NEW R \in Children, NEW sub \in Subtrees, NEW r, NEW A,
         Tree(L, R, r, A, sub), NEW L2, NEW p \in A, NEW n \in Node \ A, Adds(L, L2, p, n)
  PROVE  Tree(L2, R, r, A \cup {n}, WithLeaf(sub, p, n))
<1> DEFINE s2 == WithLeaf(sub, p, n)
<1>0. HasLeaf(L, R, L2, sub, p, n, s2)
  BY LeafValues
<1> HIDE DEF s2
<1>1. /\ s2 \in Subtrees /\ s2[NULL] = {} /\ p \in Node
      /\ \A m \in Node : /\ s2[m] = IF p \in sub[m] THEN sub[m] \cup {n} ELSE sub[m]
                         /\ s2[R[m]] = IF p \in sub[R[m]] THEN sub[R[m]] \cup {n} ELSE sub[R[m]]
      /\ \A m \in Node \ {p} :
           s2[L2[m]] = IF p \in sub[L[m]] THEN sub[L[m]] \cup {n} ELSE sub[L[m]]
      /\ s2[L2[p]] = {n}
  BY <1>0 DEF HasLeaf
<1>2. Shape(L, R, sub) /\ r \in Place /\ sub[r] = A
  BY DEF Tree
<1>3. /\ sub[n] = {n} /\ L[n] = NULL /\ R[n] = NULL
      /\ \A m \in Place \ {n} : n \notin sub[m]
      /\ \A m \in Node : L[m] # n /\ R[m] # n
  BY Outside
<1>4. /\ \A m \in Node : L[m] \in Place /\ R[m] \in Place
      /\ L[p] = NULL /\ p # n /\ p # NULL
  BY <1>1, Nodes DEF Children, Adds
<1>5. sub[NULL] = {} /\ \A m \in Node : /\ sub[m] = {m} \cup sub[L[m]] \cup sub[R[m]]
                      /\ m \notin sub[L[m]] /\ m \notin sub[R[m]] /\ sub[L[m]] \cap sub[R[m]] = {}
  BY <1>2 DEF Shape, Unfolds, Splits
<1>6. ASSUME NEW m \in Node
      PROVE  /\ s2[m] = {m} \cup s2[L2[m]] \cup s2[R[m]]
             /\ m \notin s2[L2[m]] /\ m \notin s2[R[m]] /\ s2[L2[m]] \cap s2[R[m]] = {}
  <2>0. n \notin sub[L[m]] /\ n \notin sub[R[m]]
    BY <1>3, <1>4
  <2>1. CASE m = p
    <3>1. s2[p] = sub[p] \cup {n} /\ s2[R[p]] = sub[R[p]] /\ sub[p] = {p} \cup sub[R[p]]
      BY <1>1, <1>4, <1>5
    <3> QED BY <1>1, <1>4, <1>5, <2>0, <2>1, <3>1
  <2>2. CASE m # p /\ p \in sub[L[m]]
    <3>1. m # n /\ p \notin sub[R[m]]
      BY <1>3, <1>5, <2>2
    <3>2. s2[m] = sub[m] \cup {n} /\ s2[L2[m]] = sub[L[m]] \cup {n} /\ s2[R[m]] = sub[R[m]]
      <4>1. p \in sub[m] /\ m \in Node \ {p}
        BY <1>5, <2>2
      <4> QED BY ONLY <1>1, <2>2, <3>1, <4>1
    <3> QED BY ONLY m \in Node, <1>5, <2>0, <3>1, <3>2
  <2>3. CASE m # p /\ p \in sub[R[m]]
    <3>1. m # n /\ p \notin sub[L[m]]
      BY <1>3, <1>5, <2>3
    <3>2. s2[m] = sub[m] \cup {n} /\ s2[L2[m]] = sub[L[m]] /\ s2[R[m]] = sub[R[m]] \cup {n}
      <4>1. p \in sub[m] /\ m \in Node \ {p}
        BY <1>5, <2>3
      <4> QED BY ONLY <1>1, <2>3, <3>1, <4>1
    <3> QED BY ONLY m \in Node, <1>5, <2>0, <3>1, <3>2
  <2>4. CASE m # p /\ p \notin sub[L[m]] /\ p \notin sub[R[m]]
    BY <1>1, <1>5, <2>4
  <2> QED BY <2>1, <2>2, <2>3, <2>4
<1>7. OneParent(L2, R)
  BY <1>2, <1>3, <1>4 DEF Adds, Shape, OneParent
<1>8. s2[r] = A \cup {n}
  BY <1>1, <1>2, <1>5 DEF Place
<1>9. ASSUME NEW m \in Node \ (A \cup {n}) PROVE L2[m] = NULL /\ R[m] = NULL
  BY DEF Tree, Adds
<1>10. L2[n] = NULL /\ R[n] = NULL
  BY <1>3, <1>4 DEF Adds
<1>11. Shape(L2, R, s2)
  BY <1>1, <1>6, <1>7 DEF Shape, Unfolds, Splits
<1> QED BY <1>2, <1>8, <1>9, <1>10, <1>11 DEF Tree, s2

\* Where all nodes outside S are apart from it and from x, and S is empty, x is
\* not in the tree.
LEMMA ApartNone ==
  ASSUME NEW A \in SUBSET Node, NEW k \in [Node -> Int], NEW x \in Int, Apart(A, {}, k, x)
  PROVE  \A n \in A : k[n] # x
BY DEF Apart

\* Going down on the side of x keeps apart what is left behind.
LEMMA ApartDown ==
  ASSUME NEW L \in Children, NEW R \in Children, NEW sub \in Subtrees, Shape(L, R, sub),
         NEW A \in SUBSET Node, NEW k \in [Node -> Int], Order(L, R, sub, k, {}),
         NEW p \in A, NEW x \in Int, k[p] # x, Apart(A, sub[p], k, x)
  PROVE  Apart(A, sub[IF x < k[p] THEN L[p] ELSE R[p]], k, x)
<1>1. /\ sub[p] = {p} \cup sub[L[p]] \cup sub[R[p]] /\ sub[p] \subseteq Node
      /\ sub[L[p]] \subseteq Node /\ sub[R[p]] \subseteq Node
  BY DEF Shape, Unfolds, Subtrees, Place, Children
<1>2. (\A m \in sub[L[p]] : k[m] < k[p]) /\ (\A m \in sub[R[p]] : k[m] > k[p])
  BY DEF Order
<1>3. CASE x < k[p]
  <2>1. ASSUME NEW n \in A \ sub[L[p]]
        PROVE  \/ k[n] < x /\ \A m \in sub[L[p]] : k[n] < k[m]
               \/ k[n] > x /\ \A m \in sub[L[p]] : k[n] > k[m]
    <3>1. CASE n \notin sub[p]
      BY <1>1, <3>1 DEF Apart
    <3>2. CASE n \in sub[p]
      <4>1. k[n] >= k[p] /\ k[n] \in Int /\ k[p] \in Int
        BY <1>1, <1>2, <3>2
      <4>2. \A m \in sub[L[p]] : k[m] \in Int
        BY <1>1
      <4> QED BY <1>2, <1>3, <4>1, <4>2
    <3> QED BY <3>1, <3>2
  <2> QED BY <1>3, <2>1 DEF Apart
<1>4. CASE ~(x < k[p])
  <2>1. ASSUME NEW n \in A \ sub[R[p]]
        PROVE  \/ k[n] < x /\ \A m \in sub[R[p]] : k[n] < k[m]
               \/ k[n] > x /\ \A m \in sub[R[p]] : k[n] > k[m]
    <3>1. CASE n \notin sub[p]
      BY <1>1, <3>1 DEF Apart
    <3>2. CASE n \in sub[p]
      <4>1. k[n] <= k[p] /\ k[n] \in Int /\ k[p] \in Int /\ k[p] < x
        BY <1>1, <1>2, <1>4, <3>2
      <4>2. \A m \in sub[R[p]] : k[m] \in Int
        BY <1>1
      <4> QED BY <1>2, <4>1, <4>2
    <3> QED BY <3>1, <3>2
  <2> QED BY <1>4, <2>1 DEF Apart
<1> QED BY <1>3, <1>4

\* A leaf with the key x keeps the order if x belongs there.
LEMMA LeafOrder ==
  ASSUME NEW L \in Children, NEW R \in Children, NEW sub \in Subtrees, NEW r, NEW A,
         Tree(L, R, r, A, sub), NEW L2, NEW p \in A, NEW n \in Node \ A, Adds(L, L2, p, n),
         NEW k \in [Node -> Int], Order(L, R, sub, k, {}), NEW x \in Int, x < k[p],
         Apart(A, sub[p], k, x), NEW k2, k2 = [k EXCEPT ![n] = x]
  PROVE  Order(L2, R, WithLeaf(sub, p, n), k2, {})
<1> DEFINE s2 == WithLeaf(sub, p, n)
<1>0. HasLeaf(L, R, L2, sub, p, n, s2)
  BY LeafValues
<1> HIDE DEF s2
<1>1. /\ s2 \in Subtrees /\ s2[NULL] = {} /\ p \in Node
      /\ \A m \in Node : /\ s2[m] = IF p \in sub[m] THEN sub[m] \cup {n} ELSE sub[m]
                         /\ s2[R[m]] = IF p \in sub[R[m]] THEN sub[R[m]] \cup {n} ELSE sub[R[m]]
      /\ \A m \in Node \ {p} :
           s2[L2[m]] = IF p \in sub[L[m]] THEN sub[L[m]] \cup {n} ELSE sub[L[m]]
      /\ s2[L2[p]] = {n}
  BY <1>0 DEF HasLeaf
<1>2. /\ sub[n] = {n} /\ \A m \in Place \ {n} : n \notin sub[m]
      /\ L[n] = NULL /\ R[n] = NULL /\ \A m \in Node : L[m] # n /\ R[m] # n
  BY Outside
<1>3. /\ \A m \in Node : L[m] \in Place /\ R[m] \in Place
      /\ \A m \in Place : sub[m] \subseteq Node
      /\ Shape(L, R, sub) /\ sub[NULL] = {}
  BY DEF Children, Subtrees, Tree, Shape, Unfolds
<1>4. /\ \A m \in Node \ {n} : k2[m] = k[m] /\ k[m] \in Int
      /\ k2[n] = x
  OBVIOUS
<1>5. ASSUME NEW m \in Node, p \in sub[L[m]] PROVE k[m] > x
  <2>1. m \in A /\ m \notin sub[p] /\ m # p
    <3>1. m \notin sub[L[m]] /\ L[m] # NULL
      BY <1>3, <1>5 DEF Shape, Splits
    <3>2. sub[p] \subseteq sub[L[m]] /\ p \in sub[p]
      BY <1>1, <1>3, <1>5, BelowBelow, OwnSubtree
    <3> QED BY <3>1, <3>2, InTree
  <2>2. k[p] < k[m] /\ p \in sub[p]
    BY <1>1, <1>3, <1>5, OwnSubtree DEF Order
  <2> QED BY <1>1, <2>1, <2>2 DEF Apart
<1>6. ASSUME NEW m \in Node, p \in sub[R[m]] PROVE k[m] < x
  <2>1. m \in A /\ m \notin sub[p] /\ m # p
    <3>1. m \notin sub[R[m]] /\ R[m] # NULL
      BY <1>3, <1>6 DEF Shape, Splits
    <3>2. sub[p] \subseteq sub[R[m]] /\ p \in sub[p]
      BY <1>1, <1>3, <1>6, BelowBelow, OwnSubtree
    <3> QED BY <3>1, <3>2, InTree
  <2>2. k[p] > k[m] /\ p \in sub[p]
    BY <1>1, <1>3, <1>6, OwnSubtree DEF Order
  <2> QED BY <1>1, <2>1, <2>2 DEF Apart
<1>7. ASSUME NEW m \in Node
      PROVE  (\A q \in s2[L2[m]] : k2[q] < k2[m]) /\ (\A q \in s2[R[m]] : k2[q] > k2[m])
  <2>0. (\A q \in sub[L[m]] : k[q] < k[m]) /\ (\A q \in sub[R[m]] : k[q] > k[m])
    BY DEF Order
  <2>1. CASE m = n
    <3>1. s2[R[m]] = {} /\ s2[L2[m]] = {}
      BY <1>1, <1>2, <1>3, <2>1
    <3> QED BY <3>1
  <2>2. CASE m # n
    <3>0. k2[m] = k[m] /\ n \notin sub[L[m]] /\ n \notin sub[R[m]] /\ k[m] \in Int
      BY <1>2, <1>3, <1>4, <2>2
    <3>1. ASSUME NEW q \in s2[R[m]] PROVE k2[q] > k2[m]
      <4>1. CASE q = n
        BY <1>1, <1>4, <1>6, <3>0, <3>1, <4>1
      <4>2. CASE q # n
        <5>1. q \in sub[R[m]] /\ q \in Node
          BY <1>1, <1>3, <3>1, <4>2
        <5> QED BY <1>4, <2>0, <3>0, <4>2, <5>1
      <4> QED BY <4>1, <4>2
    <3>2. ASSUME NEW q \in s2[L2[m]] PROVE k2[q] < k2[m]
      <4>1. CASE q = n
        BY <1>1, <1>4, <1>5, <3>0, <3>2, <4>1
      <4>2. CASE q # n
        <5>1. q \in sub[L[m]] /\ q \in Node
          BY <1>1, <1>3, <3>2, <4>2
        <5> QED BY <1>4, <2>0, <3>0, <4>2, <5>1
      <4> QED BY <4>1, <4>2
    <3> QED BY <3>1, <3>2
  <2> QED BY <2>1, <2>2
<1> QED BY <1>7 DEF Order, s2

\* w2 are the weights w and one for n, which is 0.
NoWeight(w, w2, n) == w2[n] = 0 /\ \A m \in Node \ {n} : w2[m] = w[m]

\* A leaf without weight keeps the balance.
LEMMA LeafBalance ==
  ASSUME NEW L \in Children, NEW R \in Children, NEW sub \in Subtrees, NEW r, NEW A,
         Tree(L, R, r, A, sub), NEW L2, NEW p \in A, NEW n \in Node \ A, Adds(L, L2, p, n),
         NEW w \in [Node -> Nat], NEW bh \in Heights, Balanced(L, R, w, bh),
         NEW w2, NoWeight(w, w2, n)
  PROVE  \E h \in Heights : Balanced(L2, R, w2, h)
<1> DEFINE h == [m \in Place |-> IF m = n THEN 0 ELSE bh[m]]
<1>1. bh[NULL] = 0 /\ \A m \in Node : bh[L[m]] = bh[R[m]] /\ bh[m] = bh[L[m]] + w[m]
  BY DEF Balanced
<1>2. /\ \A m \in Place : bh[m] \in Nat
      /\ \A m \in Node : L[m] \in Place /\ R[m] \in Place
      /\ p \in Node /\ p # n /\ L[p] = NULL
  BY InTree DEF Heights, Children, Adds
<1>3. h \in Heights /\ \A m \in Place : h[m] = IF m = n THEN 0 ELSE bh[m]
  BY <1>2 DEF Heights
<1>4. L[n] = NULL /\ R[n] = NULL /\ \A m \in Node : L[m] # n /\ R[m] # n
  BY Outside
<1> HIDE DEF h
<1>5. h[NULL] = 0
  BY <1>1, <1>3, Nodes
<1>6. ASSUME NEW m \in Node PROVE h[L2[m]] = h[R[m]] /\ h[m] = h[L2[m]] + w2[m]
  <2>1. L2[m] = IF m = p THEN n ELSE L[m]
    BY DEF Adds
  <2>2. h[R[m]] = bh[R[m]] /\ h[L2[m]] = bh[L[m]]
    BY <1>1, <1>2, <1>3, <1>4, <2>1, Nodes
  <2>3. CASE m = n
    BY <1>1, <1>2, <1>3, <1>4, <2>2, <2>3, Nodes DEF NoWeight
  <2>4. CASE m # n
    BY <1>1, <1>3, <2>2, <2>4, Nodes DEF NoWeight
  <2> QED BY <1>1, <2>2, <2>3, <2>4
<1> QED BY <1>3, <1>5, <1>6 DEF Balanced

-----------------------------------------------------------------------------
\* The children and the root after v, the root or a child of p, has given its
\* place to its only child c.
Unlinks(L, R, r, L2, R2, r2, v, p, c) ==
  /\ v \in Node /\ c \in Place /\ p \in Place
  /\ (L[v] = c /\ R[v] = NULL) \/ (R[v] = c /\ L[v] = NULL)
  /\ IF p = NULL THEN r = v /\ r2 = c ELSE r2 = r /\ v \in {L[p], R[p]}
  /\ L2 \in Children /\ R2 \in Children
  /\ \A m \in Node : L2[m] = IF m = v THEN NULL ELSE IF m = p /\ L[m] = v THEN c ELSE L[m]
  /\ \A m \in Node : R2[m] = IF m = v THEN NULL ELSE IF m = p /\ R[m] = v THEN c ELSE R[m]

Without(sub, v) == [m \in Place |-> IF m = v THEN {v} ELSE sub[m] \ {v}]

\* The places around the node that is unlinked.
LEMMA UnlinksPlaces ==
  ASSUME NEW L \in Children, NEW R \in Children, NEW sub \in Subtrees, NEW r, NEW A,
         Tree(L, R, r, A, sub), NEW L2, NEW R2, NEW r2, NEW v, NEW p, NEW c,
         Unlinks(L, R, r, L2, R2, r2, v, p, c)
  PROVE  /\ v \in A /\ p # v /\ c # v /\ (p # NULL => p \in A) /\ sub[v] = {v} \cup sub[c] /\ v \notin sub[c]
         /\ \A m \in Node : m # p => L[m] # v /\ R[m] # v
         /\ \A m \in Node : m # v /\ c # NULL => L[m] # c /\ R[m] # c
         /\ p # NULL => L[p] # R[p] /\ r # v
<1>1. /\ v \in Node /\ p \in Place /\ Shape(L, R, sub) /\ c \in Place
      /\ p # NULL => p \in Node /\ v \in {L[p], R[p]}
      /\ p = NULL => r = v
      /\ c \in {L[v], R[v]} /\ (L[v] = NULL \/ R[v] = NULL)
      /\ sub[NULL] = {}
  BY DEF Unlinks, Tree, Place, Shape, Unfolds
<1>2. \A m \in Node : L[m] \in A \cup {NULL} /\ R[m] \in A \cup {NULL}
  BY InTree
<1>3. v \in A /\ (p # NULL => p \in A)
  BY <1>1, <1>2, InTree, Nodes
<1>4. sub[v] = {v} \cup sub[c] /\ v \notin sub[c] /\ c # v
  BY <1>1, OwnSubtree, Nodes DEF Unlinks
<1>5. \A m \in Node : v \in {L[m], R[m]} => m = p
  BY <1>1, RootNoChild, Nodes DEF Shape, OneParent
<1>6. \A m \in Node : c # NULL /\ c \in {L[m], R[m]} => m = v
  BY <1>1, Nodes DEF Shape, OneParent
<1>7. p # NULL => p # v /\ L[p] # R[p] /\ r # v
  BY <1>1, OwnSubtree, RootNoChild, Nodes
<1> QED BY <1>1, <1>3, <1>4, <1>5, <1>6, <1>7, Nodes

\* s2 are the subtrees after that.
HasNot(L, R, L2, R2, sub, v, s2) ==
  /\ s2 \in Subtrees /\ s2[NULL] = {} /\ s2[v] = {v} /\ s2[L2[v]] = {} /\ s2[R2[v]] = {}
  /\ \A m \in Node \ {v} : /\ s2[m] = sub[m] \ {v} /\ s2[L2[m]] = sub[L[m]] \ {v}
                           /\ s2[R2[m]] = sub[R[m]] \ {v}

\* The subtrees after a node has been unlinked.
LEMMA UnlinkedValues ==
  ASSUME NEW L \in Children, NEW R \in Children, NEW sub \in Subtrees, NEW r, NEW A,
         Tree(L, R, r, A, sub), NEW L2, NEW R2, NEW r2, NEW v, NEW p, NEW c,
         Unlinks(L, R, r, L2, R2, r2, v, p, c)
  PROVE  HasNot(L, R, L2, R2, sub, v, Without(sub, v))
<1> DEFINE s2 == Without(sub, v)
<1>1. /\ v \in Node /\ c \in Place /\ sub[NULL] = {} /\ L2[v] = NULL /\ R2[v] = NULL
      /\ \A m \in Node : L[m] \in Place /\ R[m] \in Place
  BY DEF Unlinks, Tree, Children, Shape, Unfolds
<1>2. s2 \in Subtrees /\ \A m \in Place : s2[m] = IF m = v THEN {v} ELSE sub[m] \ {v}
  BY <1>1 DEF Without, Subtrees
<1> HIDE DEF s2
<1>3. /\ p # v /\ c # v /\ sub[v] = {v} \cup sub[c] /\ v \notin sub[c]
      /\ \A m \in Node : m # p => L[m] # v /\ R[m] # v
  BY UnlinksPlaces
<1>4. s2[c] = sub[v] \ {v}
  BY <1>1, <1>2, <1>3
<1>5. ASSUME NEW m \in Node \ {v} PROVE s2[L2[m]] = sub[L[m]] \ {v} /\ s2[R2[m]] = sub[R[m]] \ {v}
  <2>1. /\ L2[m] = IF m = p /\ L[m] = v THEN c ELSE L[m]
        /\ R2[m] = IF m = p /\ R[m] = v THEN c ELSE R[m]
    BY DEF Unlinks
  <2>2. s2[L2[m]] = sub[L[m]] \ {v}
    BY <1>1, <1>2, <1>3, <1>4, <2>1
  <2>3. s2[R2[m]] = sub[R[m]] \ {v}
    BY <1>1, <1>2, <1>3, <1>4, <2>1
  <2> QED BY <2>2, <2>3
<1> QED BY <1>1, <1>2, <1>5, Nodes DEF HasNot, s2

\* A tree without the node is a tree.
LEMMA UnlinkedTree ==
  ASSUME NEW L \in Children, NEW R \in Children, NEW sub \in Subtrees, NEW r, NEW A,
         Tree(L, R, r, A, sub), NEW L2, NEW R2, NEW r2, NEW v, NEW p, NEW c,
         Unlinks(L, R, r, L2, R2, r2, v, p, c)
  PROVE  Tree(L2, R2, r2, A \ {v}, Without(sub, v))
<1> DEFINE s2 == Without(sub, v)
<1>0. HasNot(L, R, L2, R2, sub, v, s2)
  BY UnlinkedValues
<1> HIDE DEF s2
<1>1. /\ s2 \in Subtrees /\ s2[NULL] = {} /\ s2[v] = {v} /\ s2[L2[v]] = {} /\ s2[R2[v]] = {}
      /\ \A m \in Node \ {v} : /\ s2[m] = sub[m] \ {v} /\ s2[L2[m]] = sub[L[m]] \ {v}
                               /\ s2[R2[m]] = sub[R[m]] \ {v}
  BY <1>0 DEF HasNot
<1>2. /\ v \in A /\ p # v /\ c # v /\ (p # NULL => p \in A) /\ sub[v] = {v} \cup sub[c] /\ v \notin sub[c]
      /\ \A m \in Node : m # p => L[m] # v /\ R[m] # v
      /\ \A m \in Node : m # v /\ c # NULL => L[m] # c /\ R[m] # c
      /\ p # NULL => L[p] # R[p] /\ r # v
  BY UnlinksPlaces
<1>3. /\ v \in Node /\ c \in Place /\ p \in Place /\ Shape(L, R, sub) /\ r \in Place /\ sub[r] = A
      /\ IF p = NULL THEN r = v /\ r2 = c ELSE r2 = r /\ v \in {L[p], R[p]}
      /\ \A m \in Node : L2[m] = IF m = v THEN NULL ELSE IF m = p /\ L[m] = v THEN c ELSE L[m]
      /\ \A m \in Node : R2[m] = IF m = v THEN NULL ELSE IF m = p /\ R[m] = v THEN c ELSE R[m]
  BY DEF Unlinks, Tree
<1>4. \A m \in Node : /\ sub[m] = {m} \cup sub[L[m]] \cup sub[R[m]]
                      /\ m \notin sub[L[m]] /\ m \notin sub[R[m]] /\ sub[L[m]] \cap sub[R[m]] = {}
  BY <1>3 DEF Shape, Unfolds, Splits
<1>5. ASSUME NEW m \in Node
      PROVE  /\ s2[m] = {m} \cup s2[L2[m]] \cup s2[R2[m]]
             /\ m \notin s2[L2[m]] /\ m \notin s2[R2[m]] /\ s2[L2[m]] \cap s2[R2[m]] = {}
  <2>1. CASE m = v
    BY ONLY <1>1, <2>1
  <2>2. CASE m # v
    <3>1. s2[m] = sub[m] \ {v} /\ s2[L2[m]] = sub[L[m]] \ {v} /\ s2[R2[m]] = sub[R[m]] \ {v}
      BY <1>1, <2>2
    <3> QED BY ONLY <1>4, <2>2, <3>1, m \in Node
  <2> QED BY <2>1, <2>2
<1>6. OneParent(L2, R2)
  <2>2. OneParent(L, R)
    BY <1>3 DEF Shape
  <2> SUFFICES ASSUME NEW m \in Node, NEW k \in Node
               PROVE  /\ L2[m] # NULL /\ L2[m] = L2[k] => m = k
                      /\ R2[m] # NULL /\ R2[m] = R2[k] => m = k
                      /\ L2[m] # NULL => L2[m] # R2[k]
    BY DEF OneParent
  <2>3. /\ L[m] # NULL /\ L[m] = L[k] => m = k
        /\ R[m] # NULL /\ R[m] = R[k] => m = k
        /\ L[m] # NULL => L[m] # R[k]
    BY <2>2 DEF OneParent
  <2>4. L2[m] # NULL /\ L2[m] = L2[k] => m = k
    BY ONLY <1>2, <1>3, <2>3, m \in Node, k \in Node
  <2>5. R2[m] # NULL /\ R2[m] = R2[k] => m = k
    BY ONLY <1>2, <1>3, <2>3, m \in Node, k \in Node
  <2>6. L2[m] # NULL => L2[m] # R2[k]
    BY ONLY <1>2, <1>3, <2>3, m \in Node, k \in Node
  <2> QED BY <2>4, <2>5, <2>6
<1>7. r2 \in Place /\ s2[r2] = A \ {v}
  <2>1. CASE p = NULL
    <3>1. sub[c] = A \ {v}
      BY <1>2, <1>3, <2>1
    <3>2. c # NULL => s2[c] = sub[c] \ {v}
      BY <1>1, <1>2, <1>3 DEF Place
    <3>3. sub[NULL] = {}
      BY <1>3 DEF Shape, Unfolds
    <3> QED BY <1>1, <1>3, <2>1, <3>1, <3>2, <3>3
  <2>2. CASE p # NULL
    <3>1. r # NULL
      BY <1>2, <1>3, InTree
    <3> QED BY <1>1, <1>2, <1>3, <2>2, <3>1 DEF Place
  <2> QED BY <2>1, <2>2
<1>8. \A m \in Node \ (A \ {v}) : L2[m] = NULL /\ R2[m] = NULL
  <2>1. \A m \in Node \ A : L[m] = NULL /\ R[m] = NULL
    BY DEF Tree
  <2> QED BY <1>2, <1>3, <2>1, Nodes
<1> QED BY <1>1, <1>5, <1>6, <1>7, <1>8 DEF Tree, Shape, Unfolds, Splits, s2

\* The keys stay in order.
LEMMA UnlinkedOrder ==
  ASSUME NEW L \in Children, NEW R \in Children, NEW sub \in Subtrees, NEW r, NEW A,
         Tree(L, R, r, A, sub), NEW L2, NEW R2, NEW r2, NEW v, NEW p, NEW c,
         Unlinks(L, R, r, L2, R2, r2, v, p, c),
         NEW k \in [Node -> Int], Order(L, R, sub, k, {v}),
         NEW k2, \A m \in Node \ {v} : k2[m] = k[m]
  PROVE  Order(L2, R2, Without(sub, v), k2, {})
<1> DEFINE s2 == Without(sub, v)
<1>0. HasNot(L, R, L2, R2, sub, v, s2)
  BY UnlinkedValues
<1> HIDE DEF s2
<1>1. /\ s2[L2[v]] = {} /\ s2[R2[v]] = {}
      /\ \A m \in Node \ {v} : s2[L2[m]] = sub[L[m]] \ {v} /\ s2[R2[m]] = sub[R[m]] \ {v}
  BY <1>0 DEF HasNot
<1>2. \A m \in Node : sub[L[m]] \subseteq Node /\ sub[R[m]] \subseteq Node
  BY DEF Subtrees, Children
<1>3. ASSUME NEW m \in Node
      PROVE  (\A q \in s2[L2[m]] : k2[q] < k2[m]) /\ (\A q \in s2[R2[m]] : k2[q] > k2[m])
  <2>1. CASE m = v
    BY <1>1, <2>1
  <2>2. CASE m # v
    <3>1. /\ \A q \in sub[L[m]] \ {v} : k[q] < k[m]
          /\ \A q \in sub[R[m]] \ {v} : k[q] > k[m]
      BY <2>2 DEF Order
    <3>2. s2[L2[m]] = sub[L[m]] \ {v} /\ s2[R2[m]] = sub[R[m]] \ {v} /\ k2[m] = k[m]
      BY <1>1, <2>2
    <3> QED BY <1>2, <3>1, <3>2
  <2> QED BY <2>1, <2>2
<1> QED BY <1>3 DEF Order, s2

\* A node without weight can go.
LEMMA UnlinkedBalance ==
  ASSUME NEW L \in Children, NEW R \in Children, NEW sub \in Subtrees, NEW r, NEW A,
         Tree(L, R, r, A, sub), NEW L2, NEW R2, NEW r2, NEW v, NEW p, NEW c,
         Unlinks(L, R, r, L2, R2, r2, v, p, c),
         NEW w \in [Node -> Nat], NEW bh \in Heights, Balanced(L, R, w, bh), NoWeight(w, w, v),
         NEW w2, NoWeight(w, w2, v)
  PROVE  \E h \in Heights : Balanced(L2, R2, w2, h)
<1> DEFINE h == [m \in Place |-> IF m = v THEN 0 ELSE bh[m]]
<1>0. w[v] = 0 /\ w2[v] = 0 /\ \A m \in Node \ {v} : w2[m] = w[m]
  BY DEF NoWeight
<1>1. bh[NULL] = 0 /\ \A m \in Node : bh[L[m]] = bh[R[m]] /\ bh[m] = bh[L[m]] + w[m]
  BY DEF Balanced
<1>2. /\ \A m \in Place : bh[m] \in Nat
      /\ \A m \in Node : L[m] \in Place /\ R[m] \in Place
  BY DEF Heights, Children
<1>3. h \in Heights /\ \A m \in Place : h[m] = IF m = v THEN 0 ELSE bh[m]
  BY <1>2 DEF Heights
<1>4. /\ v \in Node /\ c \in Place /\ p \in Place
      /\ (L[v] = c /\ R[v] = NULL) \/ (R[v] = c /\ L[v] = NULL)
      /\ \A m \in Node : L2[m] = IF m = v THEN NULL ELSE IF m = p /\ L[m] = v THEN c ELSE L[m]
      /\ \A m \in Node : R2[m] = IF m = v THEN NULL ELSE IF m = p /\ R[m] = v THEN c ELSE R[m]
  BY DEF Unlinks
<1>5. c # v /\ \A m \in Node : m # p => L[m] # v /\ R[m] # v
  BY UnlinksPlaces
<1> HIDE DEF h
<1>6. h[NULL] = 0
  BY <1>1, <1>3, <1>4, Nodes
<1>7. bh[v] = bh[c]
  BY <1>0, <1>1, <1>2, <1>4
<1>8. ASSUME NEW m \in Node PROVE h[L2[m]] = h[R2[m]] /\ h[m] = h[L2[m]] + w2[m]
  <2>1. CASE m = v
    BY <1>0, <1>3, <1>4, <1>6, <2>1, Nodes
  <2>2. CASE m # v
    <3>1. h[L2[m]] = bh[L[m]] /\ h[R2[m]] = bh[R[m]] /\ h[m] = bh[m]
      BY <1>2, <1>3, <1>4, <1>5, <1>7, <2>2, Nodes
    <3> QED BY <1>0, <1>1, <2>2, <3>1
  <2> QED BY <2>1, <2>2
<1> QED BY <1>3, <1>6, <1>8 DEF Balanced

-----------------------------------------------------------------------------
\* The fields of a tree.
LEMMA FieldTypes ==
  ASSUME NEW s \in TreeType
  PROVE  /\ s.root \in Place /\ s.left \in Children /\ s.right \in Children
         /\ s.black \in [Node -> BOOLEAN]
BY DEF TreeType

\* What makes a tree sound.
LEMMA SoundFrom ==
  ASSUME NEW s \in TreeType, NEW sub \in Subtrees, NEW A, Tree(s.left, s.right, s.root, A, sub),
         NEW k, NEW X, Order(s.left, s.right, sub, k, X), NEW w,
         \E bh \in Heights : Balanced(s.left, s.right, w, bh)
  PROVE  Sound(s, A, k, X, w) /\ Subs(s) = sub
<1>1. Subs(s) = sub
  BY FieldTypes, BelowIs DEF Subs, Tree
<1> QED BY <1>1 DEF Sound

\* The relation of nodes to what is below them.
LEMMA TreeFacts ==
  ASSUME NEW s \in TreeType, NEW A, NEW k, NEW X, NEW w, Sound(s, A, k, X, w), NEW sub, sub = Subs(s)
  PROVE  /\ \A n \in Place : sub[n] \subseteq Node /\ \A m \in sub[n] : sub[m] \subseteq sub[n]
         /\ \A n \in Node : n \in sub[n]
         /\ \A n \in Node : \A c \in Kids(s, n) \ {NULL} :
              /\ c \in A /\ n \in A /\ sub[c] \subseteq sub[n] /\ n \notin sub[c] /\ c # n /\ c # s.root
              /\ \A y \in Place : c \in sub[y] /\ c # y => n \in sub[y]
              /\ \A m \in Node : c \in Kids(s, m) => m = n
         /\ \A n \in Node : \A c, d \in Kids(s, n) \ {NULL} : c # d => sub[c] \cap sub[d] = {}
         /\ \A n \in Node : s.left[n] # NULL => s.left[n] # s.right[n]
         /\ A \in SUBSET Node /\ sub[s.root] = A /\ (s.root # NULL => s.root \in A)
         /\ \A n \in A : sub[n] \subseteq A
<1> DEFINE L == s.left
           R == s.right
<1>0. L \in Children /\ R \in Children
  BY FieldTypes
<1>1. sub \in Subtrees /\ Tree(L, R, s.root, A, sub)
  BY DEF Sound
<1> HIDE DEF L, R
<1>2. Shape(L, R, sub) /\ sub[s.root] = A
  BY <1>1 DEF Tree
<1>3. \A n \in Place : sub[n] \subseteq Node /\ \A m \in sub[n] : sub[m] \subseteq sub[n]
  BY <1>0, <1>1, <1>2, BelowBelow DEF Subtrees
<1>4. \A n \in Node : n \in sub[n]
  BY <1>0, <1>1, <1>2, OwnSubtree
<1>5. /\ A \in SUBSET Node /\ (s.root # NULL => s.root \in A)
      /\ \A n \in A : sub[n] \subseteq A
  BY <1>0, <1>1, InTree
<1>6. ASSUME NEW n \in Node, NEW c \in {L[n], R[n]} \ {NULL}
      PROVE  /\ c \in A /\ n \in A /\ sub[c] \subseteq sub[n] /\ n \notin sub[c] /\ c # n /\ c # s.root
             /\ \A y \in Place : c \in sub[y] /\ c # y => n \in sub[y]
             /\ \A m \in Node : c \in {L[m], R[m]} => m = n
  <2>1. \A m \in Node : L[m] \in A \cup {NULL} /\ R[m] \in A \cup {NULL}
    BY <1>0, <1>1, InTree
  <2>2. \A m \in Node : L[m] # NULL \/ R[m] # NULL => m \in A
    BY <1>0, <1>1, InTree
  <2>3. c \in A /\ n \in A /\ c \in Node
    BY <1>5, <2>1, <2>2
  <2>4. sub[c] \subseteq sub[n] /\ n \notin sub[c] /\ c # n
    BY <1>0, <1>1, <1>2, <2>3, ChildBelow
  <2>5. \A y \in Place : c \in sub[y] /\ c # y => n \in sub[y]
    BY <1>0, <1>1, <1>2, <2>3, ParentBelow
  <2>6. c # s.root
    BY <1>0, <1>1, RootNoChild
  <2>7. \A m \in Node : c \in {L[m], R[m]} => m = n
    BY <1>2 DEF Shape, OneParent
  <2> QED BY <2>3, <2>4, <2>5, <2>6, <2>7
<1>7. ASSUME NEW n \in Node PROVE L[n] # NULL => L[n] # R[n]
  BY <1>0, <1>1, <1>2, OwnSubtree
<1>8. ASSUME NEW n \in Node, NEW c \in {L[n], R[n]}, NEW d \in {L[n], R[n]}, c # d
      PROVE  sub[c] \cap sub[d] = {}
  BY <1>2, <1>8 DEF Shape, Splits
<1> QED BY <1>2, <1>3, <1>4, <1>5, <1>6, <1>7, <1>8 DEF Kids, L, R

\* s2 is s with other colors.
Repaints(s, s2) == /\ s2 \in TreeType /\ s2.root = s.root
                   /\ s2.left = s.left /\ s2.right = s.right

\* Outside S, b2 are the colors b.
SameColors(b, b2, S) == \A m \in Node \ S : (b2[m] <=> b[m])

Blacken(s, n) == Paint(s, n, TRUE)
Redden(s, n)  == Paint(s, n, FALSE)

\* A node becomes black.
LEMMA PaintBlack ==
  ASSUME NEW s \in TreeType, NEW n \in Node, NEW s2, s2 = Blacken(s, n)
  PROVE  /\ Repaints(s, s2) /\ s2.black = [s.black EXCEPT ![n] = TRUE]
         /\ s2.black[n] /\ SameColors(s.black, s2.black, {n})
BY DEF Blacken, Redden, Paint, TreeType, Repaints, SameColors

\* A node becomes red.
LEMMA PaintRed ==
  ASSUME NEW s \in TreeType, NEW n \in Node, NEW s2, s2 = Redden(s, n)
  PROVE  /\ Repaints(s, s2) /\ s2.black = [s.black EXCEPT ![n] = FALSE]
         /\ ~s2.black[n] /\ SameColors(s.black, s2.black, {n})
BY DEF Blacken, Redden, Paint, TreeType, Repaints, SameColors

\* Colors do not matter for soundness.
LEMMA SamePlaces ==
  ASSUME NEW s \in TreeType, NEW s2, Repaints(s, s2)
  PROVE  /\ s2 \in TreeType /\ s2.root = s.root /\ s2.left = s.left /\ s2.right = s.right
         /\ Subs(s2) = Subs(s) /\ (\A m : Kids(s2, m) = Kids(s, m))
         /\ \A n, p : Above(s, n, p) <=> Above(s2, n, p)
         /\ \A A, k, X, w : Sound(s, A, k, X, w) => Sound(s2, A, k, X, w)
<1>1. s2 \in TreeType /\ s2.root = s.root /\ s2.left = s.left /\ s2.right = s.right
  BY DEF Repaints
<1>2. Subs(s2) = Subs(s) /\ (\A m : Kids(s2, m) = Kids(s, m))
  BY <1>1 DEF Subs, Kids
<1>3. \A n, p : Above(s, n, p) <=> Above(s2, n, p)
  BY <1>1, <1>2 DEF Above
<1>4. \A A, k, X, w : Sound(s, A, k, X, w) => Sound(s2, A, k, X, w)
  BY <1>1, <1>2 DEF Sound
<1> QED BY <1>1, <1>2, <1>3, <1>4

\* Outside S, w2 are the weights w.
SameWeights(w, w2, S) == \A m \in Node \ S : w2[m] = w[m]

\* A rotation of c, a child of n, above n, seen without left and right: o is the
\* other child of n, i the child of c that passes to n, e the one that stays.
Spins(s, s2, n, p, c, o, i, e) ==
  /\ s2 \in TreeType /\ s2.black = s.black
  /\ s2.root = IF p = NULL THEN c ELSE s.root
  /\ Kids(s, n) = {c, o} /\ Kids(s, c) = {i, e}
  /\ Kids(s2, n) = {i, o} /\ Kids(s2, c) = {n, e}
  /\ p # NULL => Kids(s2, p) = (Kids(s, p) \ {n}) \cup {c}
  /\ \A m \in Node \ {n, c, p} : s2.left[m] = s.left[m] /\ s2.right[m] = s.right[m]

\* _rbnode_rotate_left changes these fields.
LEMMA RotateLeftFields ==
  ASSUME NEW s \in TreeType, NEW A, NEW sub \in Subtrees, Tree(s.left, s.right, s.root, A, sub),
         NEW n, NEW p, Above(s, n, p), s.right[n] # NULL, NEW s2, s2 = RotateLeft(s, n, p)
  PROVE  /\ Rotates(s.left, s.right, s.root, s2.left, s2.right, s2.root, n, p)
         /\ Spins(s, s2, n, p, s.right[n], s.left[n], s.left[s.right[n]], s.right[s.right[n]])
<1> DEFINE c == s.right[n]
<1>1. /\ s.left \in Children /\ s.right \in Children /\ n \in Node /\ p \in Place /\ c \in Node
      /\ s.root \in Place /\ s.left[c] \in Place
  BY DEF TreeType, Above, Children, Place
<1>2. /\ p = NULL => s.root = n
      /\ p # NULL => p \in Node /\ n \in {s.left[p], s.right[p]}
  BY <1>1 DEF Above, Kids, Place
<1>3. Shape(s.left, s.right, sub)
  BY DEF Tree
<1>4. /\ c # n /\ s.left[n] # n /\ s.left[n] # c
      /\ p # NULL => p # n /\ p # c /\ s.left[p] # s.right[p]
  <2>1. c # n /\ s.left[n] # n /\ s.left[n] # c
    BY <1>1, <1>3, OwnSubtree, Nodes
  <2>2. ASSUME p # NULL PROVE p # n /\ p # c /\ s.left[p] # s.right[p]
    <3>1. sub[c] \subseteq sub[n] /\ c \in sub[c] /\ n \notin sub[c] /\ n \in sub[n]
      BY <1>1, <1>3, ChildBelow
    <3>2. sub[n] \subseteq sub[p] /\ p \notin sub[n]
      BY <1>1, <1>2, <1>3, <2>2, ChildBelow
    <3>3. s.left[p] # s.right[p]
      BY <1>1, <1>2, <1>3, <2>2, OwnSubtree, Nodes
    <3> QED BY <3>1, <3>2, <3>3
  <2> QED BY <2>1, <2>2
<1> DEFINE L2 == [[m \in Node |-> IF m = p /\ s.left[m] = n THEN c ELSE s.left[m]] EXCEPT ![c] = n]
           R2 == [[m \in Node |-> IF m = p /\ s.right[m] = n THEN c ELSE s.right[m]] EXCEPT ![n] = s.left[c]]
           r2 == IF p = NULL THEN c ELSE s.root
<1>5. s2 = [root |-> r2, left |-> L2, right |-> R2, black |-> s.black]
  <2>1. CASE p = NULL
    <3>1. s2 = [s EXCEPT !.root = c, !.right = [s.right EXCEPT ![n] = s.left[c]], !.left = [s.left EXCEPT ![c] = n]]
      BY <2>1 DEF RotateLeft, Replace
    <3>2. L2 = [s.left EXCEPT ![c] = n] /\ R2 = [s.right EXCEPT ![n] = s.left[c]]
      BY <1>1, <2>1, Nodes DEF Children
    <3> QED BY <3>1, <3>2, <2>1 DEF TreeType
  <2>2. CASE p # NULL /\ s.left[p] = n
    <3>1. s2 = [s EXCEPT !.left = [[s.left EXCEPT ![p] = c] EXCEPT ![c] = n], !.right = [s.right EXCEPT ![n] = s.left[c]]]
      BY <1>1, <1>2, <2>2 DEF RotateLeft, Replace, TreeType, Children
    <3>2. L2 = [[s.left EXCEPT ![p] = c] EXCEPT ![c] = n] /\ R2 = [s.right EXCEPT ![n] = s.left[c]]
      BY <1>1, <1>2, <1>4, <2>2, Nodes DEF Children
    <3> QED BY <3>1, <3>2, <2>2 DEF TreeType
  <2>3. CASE p # NULL /\ s.left[p] # n
    <3>1. s2 = [s EXCEPT !.right = [[s.right EXCEPT ![p] = c] EXCEPT ![n] = s.left[c]], !.left = [s.left EXCEPT ![c] = n]]
      BY <1>1, <1>2, <2>3 DEF RotateLeft, Replace, TreeType, Children
    <3>2. R2 = [[s.right EXCEPT ![p] = c] EXCEPT ![n] = s.left[c]] /\ L2 = [s.left EXCEPT ![c] = n]
      BY <1>1, <1>2, <1>4, <2>3, Nodes DEF Children
    <3> QED BY <3>1, <3>2, <2>3 DEF TreeType
  <2> QED BY <2>1, <2>2, <2>3
<1>6. /\ \A m \in Node : L2[m] = IF m = c THEN n ELSE IF m = p /\ s.left[m] = n THEN c ELSE s.left[m]
      /\ \A m \in Node : R2[m] = IF m = n THEN s.left[c] ELSE IF m = p /\ s.right[m] = n THEN c ELSE s.right[m]
  BY <1>1
<1>7. L2 \in Children /\ R2 \in Children /\ r2 \in Place
  BY <1>1, Nodes DEF Children
<1> HIDE DEF L2, R2, c
<1>8. s2 \in TreeType /\ s2.left = L2 /\ s2.right = R2 /\ s2.root = r2 /\ s2.black = s.black
  BY <1>5, <1>7 DEF TreeType
<1>9. Rotates(s.left, s.right, s.root, s2.left, s2.right, s2.root, n, p)
  BY <1>1, <1>2, <1>6, <1>7, <1>8 DEF Rotates, c
<1>10. Spins(s, s2, n, p, c, s.left[n], s.left[c], s.right[c])
  <2>1. L2[n] = s.left[n] /\ R2[n] = s.left[c] /\ L2[c] = n /\ R2[c] = s.right[c] /\ s.right[n] = c
    BY <1>1, <1>2, <1>4, <1>6 DEF c
  <2>2. p # NULL => Kids(s2, p) = (Kids(s, p) \ {n}) \cup {c}
    BY <1>1, <1>2, <1>4, <1>6, <1>8 DEF Kids
  <2>3. \A m \in Node \ {n, c, p} : L2[m] = s.left[m] /\ R2[m] = s.right[m]
    BY <1>6
  <2>4. Kids(s, n) = {c, s.left[n]} /\ Kids(s2, n) = {s.left[c], s.left[n]} /\ Kids(s2, c) = {n, s.right[c]}
    BY <1>8, <2>1 DEF Kids
  <2> QED BY <1>8, <2>2, <2>3, <2>4 DEF Spins, Kids
<1> QED BY <1>9, <1>10 DEF c

\* _rbnode_rotate_right changes these fields.
LEMMA RotateRightFields ==
  ASSUME NEW s \in TreeType, NEW A, NEW sub \in Subtrees, Tree(s.left, s.right, s.root, A, sub),
         NEW n, NEW p, Above(s, n, p), s.left[n] # NULL, NEW s2, s2 = RotateRight(s, n, p)
  PROVE  /\ Rotates(s.right, s.left, s.root, s2.right, s2.left, s2.root, n, p)
         /\ Spins(s, s2, n, p, s.left[n], s.right[n], s.right[s.left[n]], s.left[s.left[n]])
<1> DEFINE c == s.left[n]
<1>1. /\ s.right \in Children /\ s.left \in Children /\ n \in Node /\ p \in Place /\ c \in Node
      /\ s.root \in Place /\ s.right[c] \in Place
  BY DEF TreeType, Above, Children, Place
<1>2. /\ p = NULL => s.root = n
      /\ p # NULL => p \in Node /\ n \in {s.right[p], s.left[p]}
  BY <1>1 DEF Above, Kids, Place
<1>3. Shape(s.right, s.left, sub)
  BY FieldTypes, Mirrored DEF Tree
<1>4. /\ c # n /\ s.right[n] # n /\ s.right[n] # c
      /\ p # NULL => p # n /\ p # c /\ s.right[p] # s.left[p]
  <2>1. c # n /\ s.right[n] # n /\ s.right[n] # c
    BY <1>1, <1>3, OwnSubtree, Nodes
  <2>2. ASSUME p # NULL PROVE p # n /\ p # c /\ s.right[p] # s.left[p]
    <3>1. sub[c] \subseteq sub[n] /\ c \in sub[c] /\ n \notin sub[c] /\ n \in sub[n]
      BY <1>1, <1>3, ChildBelow
    <3>2. sub[n] \subseteq sub[p] /\ p \notin sub[n]
      BY <1>1, <1>2, <1>3, <2>2, ChildBelow
    <3>3. s.right[p] # s.left[p]
      BY <1>1, <1>2, <1>3, <2>2, OwnSubtree, Nodes
    <3> QED BY <3>1, <3>2, <3>3
  <2> QED BY <2>1, <2>2
<1> DEFINE L2 == [[m \in Node |-> IF m = p /\ s.right[m] = n THEN c ELSE s.right[m]] EXCEPT ![c] = n]
           R2 == [[m \in Node |-> IF m = p /\ s.left[m] = n THEN c ELSE s.left[m]] EXCEPT ![n] = s.right[c]]
           r2 == IF p = NULL THEN c ELSE s.root
<1>5. s2 = [root |-> r2, left |-> R2, right |-> L2, black |-> s.black]
  <2>1. CASE p = NULL
    <3>1. s2 = [s EXCEPT !.root = c, !.left = [s.left EXCEPT ![n] = s.right[c]], !.right = [s.right EXCEPT ![c] = n]]
      BY <2>1 DEF RotateRight, Replace
    <3>2. L2 = [s.right EXCEPT ![c] = n] /\ R2 = [s.left EXCEPT ![n] = s.right[c]]
      BY <1>1, <2>1, Nodes DEF Children
    <3> QED BY <3>1, <3>2, <2>1 DEF TreeType
  <2>2. CASE p # NULL /\ s.right[p] = n
    <3>1. s2 = [s EXCEPT !.right = [[s.right EXCEPT ![p] = c] EXCEPT ![c] = n], !.left = [s.left EXCEPT ![n] = s.right[c]]]
      BY <1>1, <1>2, <1>4, <2>2 DEF RotateRight, Replace, TreeType, Children
    <3>2. L2 = [[s.right EXCEPT ![p] = c] EXCEPT ![c] = n] /\ R2 = [s.left EXCEPT ![n] = s.right[c]]
      BY <1>1, <1>2, <1>4, <2>2, Nodes DEF Children
    <3> QED BY <3>1, <3>2, <2>2 DEF TreeType
  <2>3. CASE p # NULL /\ s.right[p] # n
    <3>1. s2 = [s EXCEPT !.left = [[s.left EXCEPT ![p] = c] EXCEPT ![n] = s.right[c]], !.right = [s.right EXCEPT ![c] = n]]
      BY <1>1, <1>2, <1>4, <2>3 DEF RotateRight, Replace, TreeType, Children
    <3>2. R2 = [[s.left EXCEPT ![p] = c] EXCEPT ![n] = s.right[c]] /\ L2 = [s.right EXCEPT ![c] = n]
      BY <1>1, <1>2, <1>4, <2>3, Nodes DEF Children
    <3> QED BY <3>1, <3>2, <2>3 DEF TreeType
  <2> QED BY <2>1, <2>2, <2>3
<1>6. /\ \A m \in Node : L2[m] = IF m = c THEN n ELSE IF m = p /\ s.right[m] = n THEN c ELSE s.right[m]
      /\ \A m \in Node : R2[m] = IF m = n THEN s.right[c] ELSE IF m = p /\ s.left[m] = n THEN c ELSE s.left[m]
  BY <1>1
<1>7. L2 \in Children /\ R2 \in Children /\ r2 \in Place
  BY <1>1, Nodes DEF Children
<1> HIDE DEF L2, R2, c
<1>8. s2 \in TreeType /\ s2.right = L2 /\ s2.left = R2 /\ s2.root = r2 /\ s2.black = s.black
  BY <1>5, <1>7 DEF TreeType
<1>9. Rotates(s.right, s.left, s.root, s2.right, s2.left, s2.root, n, p)
  BY <1>1, <1>2, <1>6, <1>7, <1>8 DEF Rotates, c
<1>10. Spins(s, s2, n, p, c, s.right[n], s.right[c], s.left[c])
  <2>1. L2[n] = s.right[n] /\ R2[n] = s.right[c] /\ L2[c] = n /\ R2[c] = s.left[c] /\ s.left[n] = c
    BY <1>1, <1>2, <1>4, <1>6 DEF c
  <2>2. p # NULL => Kids(s2, p) = (Kids(s, p) \ {n}) \cup {c}
    BY <1>1, <1>2, <1>4, <1>6, <1>8 DEF Kids
  <2>3. \A m \in Node \ {n, c, p} : L2[m] = s.right[m] /\ R2[m] = s.left[m]
    BY <1>6
  <2>4. Kids(s, n) = {c, s.right[n]} /\ Kids(s2, n) = {s.right[c], s.right[n]} /\ Kids(s2, c) = {n, s.left[c]}
    BY <1>8, <2>1 DEF Kids
  <2> QED BY <1>8, <2>2, <2>3, <2>4 DEF Spins, Kids
<1> QED BY <1>9, <1>10 DEF c

\* n and c exchange their weights.
Trades(w, w2, n, c) == w[c] = 0 /\ w2[n] = 0 /\ w2[c] = w[n] /\ SameWeights(w, w2, {n, c})

\* The child c of n, which weighs nothing, can be rotated above n.
MaySpin(s, A, k, X, w, n, p, c, w2) ==
  /\ s \in TreeType /\ k \in [Node -> Int] /\ w \in [Node -> Nat] /\ Sound(s, A, k, X, w)
  /\ n \in Node /\ Above(s, n, p) /\ c \in Node /\ c # NULL /\ n \notin X /\ c \notin X
  /\ w2 \in [Node -> Nat] /\ Trades(w, w2, n, c)

\* The outcome of a rotation.
Spun(s, s2, A, k, X, w2, n, p, c, o, i, e) ==
  /\ Sound(s2, A, k, X, w2) /\ Spins(s, s2, n, p, c, o, i, e)
  /\ \A m \in Node \ {n, c} : Subs(s2)[m] = Subs(s)[m]

\* A left rotation of a node without weight above another keeps a tree sound if
\* the weights are exchanged.
LEMMA SpinLeft ==
  ASSUME NEW s, NEW A, NEW k, NEW X, NEW w, NEW n, NEW p, NEW c, NEW w2,
         MaySpin(s, A, k, X, w, n, p, c, w2), c = s.right[n], NEW s2, s2 = RotateLeft(s, n, p)
  PROVE  Spun(s, s2, A, k, X, w2, n, p, c, s.left[n], s.left[c], s.right[c])
<1> USE DEF MaySpin
<1> DEFINE sub == Subs(s)
<1>1. s.left \in Children /\ s.right \in Children
  BY FieldTypes
<1>2. /\ sub \in Subtrees /\ Tree(s.left, s.right, s.root, A, sub)
      /\ Order(s.left, s.right, sub, k, X)
      /\ \E bh \in Heights : Balanced(s.left, s.right, w, bh)
  BY DEF Sound
<1> HIDE DEF sub
<1>3. /\ Rotates(s.left, s.right, s.root, s2.left, s2.right, s2.root, n, p)
      /\ Spins(s, s2, n, p, c, s.left[n], s.left[c], s.right[c])
  BY <1>2, RotateLeftFields
<1>4. PICK bh \in Heights : Balanced(s.left, s.right, w, bh)
  BY <1>2
<1>5. \E h \in Heights : Balanced(s2.left, s2.right, w2, h)
  BY <1>1, <1>2, <1>3, <1>4, RotatedBalance DEF SameWeights, Trades
<1> DEFINE u == Turned(sub, s.left, s.right, n)
<1>6. Tree(s2.left, s2.right, s2.root, A, u)
  BY <1>1, <1>2, <1>3, RotatedTree
<1>7. Order(s2.left, s2.right, u, k, X)
  BY <1>1, <1>2, <1>3, RotatedOrder
<1>8. u \in Subtrees /\ \A m \in Node \ {n, c} : u[m] = sub[m]
  BY <1>1, <1>2, <1>3, TurnedValues
<1>9. s2 \in TreeType
  BY <1>3 DEF Spins
<1> HIDE DEF u
<1>10. Sound(s2, A, k, X, w2) /\ Subs(s2) = u
  BY <1>5, <1>6, <1>7, <1>8, <1>9, SoundFrom
<1> QED BY <1>3, <1>8, <1>10 DEF sub, Spun

\* So does a right rotation.
LEMMA SpinRight ==
  ASSUME NEW s, NEW A, NEW k, NEW X, NEW w, NEW n, NEW p, NEW c, NEW w2,
         MaySpin(s, A, k, X, w, n, p, c, w2), c = s.left[n], NEW s2, s2 = RotateRight(s, n, p)
  PROVE  Spun(s, s2, A, k, X, w2, n, p, c, s.right[n], s.right[c], s.left[c])
<1> USE DEF MaySpin
<1> DEFINE sub == Subs(s)
<1>1. s.left \in Children /\ s.right \in Children
  BY FieldTypes
<1>2. /\ sub \in Subtrees /\ Tree(s.left, s.right, s.root, A, sub)
      /\ Order(s.left, s.right, sub, k, X)
      /\ \E bh \in Heights : Balanced(s.left, s.right, w, bh)
  BY DEF Sound
<1> HIDE DEF sub
<1>3. /\ Rotates(s.right, s.left, s.root, s2.right, s2.left, s2.root, n, p)
      /\ Spins(s, s2, n, p, c, s.right[n], s.right[c], s.left[c])
  BY <1>2, RotateRightFields
<1>4. PICK bh \in Heights : Balanced(s.left, s.right, w, bh)
  BY <1>2
<1>m. Tree(s.right, s.left, s.root, A, sub) /\ Balanced(s.right, s.left, w, bh)
  BY <1>1, <1>2, <1>4, Mirrored
<1>9. s2 \in TreeType /\ s2.left \in Children /\ s2.right \in Children
  BY <1>3, FieldTypes DEF Spins
<1>5. \E h \in Heights : Balanced(s2.left, s2.right, w2, h)
  <2>1. PICK h \in Heights : Balanced(s2.right, s2.left, w2, h)
    BY <1>1, <1>2, <1>3, <1>4, <1>m, RotatedBalance DEF SameWeights, Trades
  <2>2. Balanced(s2.left, s2.right, w2, h)
    BY <2>1 DEF Balanced
  <2> QED BY <2>2
<1> DEFINE u == Turned(sub, s.right, s.left, n)
<1>8. u \in Subtrees /\ \A m \in Node \ {n, c} : u[m] = sub[m]
  BY <1>1, <1>2, <1>3, <1>m, TurnedValues
<1>6. Tree(s2.left, s2.right, s2.root, A, u)
  <2>1. Tree(s2.right, s2.left, s2.root, A, u)
    BY <1>1, <1>2, <1>3, <1>m, RotatedTree
  <2> QED BY <2>1, <1>8, <1>9, Mirrored
<1>7. Order(s2.left, s2.right, u, k, X)
  BY <1>1, <1>2, <1>3, <1>9, MirroredOrder
<1> HIDE DEF u
<1>10. Sound(s2, A, k, X, w2) /\ Subs(s2) = u
  BY <1>5, <1>6, <1>7, <1>8, <1>9, SoundFrom
<1> QED BY <1>3, <1>8, <1>10 DEF sub, Spun

\* The child c of n is rotated above n; the children around it.
RotateUp(s, n, p, c) == IF s.left[n] = c THEN RotateRight(s, n, p) ELSE RotateLeft(s, n, p)
OtherOf(s, n, c) == IF s.left[n] = c THEN s.right[n] ELSE s.left[n]
InnerOf(s, n, c) == IF s.left[n] = c THEN s.right[c] ELSE s.left[c]
OuterOf(s, n, c) == IF s.left[n] = c THEN s.left[c] ELSE s.right[c]

\* A rotation keeps a tree sound.
LEMMA SpinUp ==
  ASSUME NEW s, NEW A, NEW k, NEW X, NEW w, NEW n, NEW p, NEW c, NEW w2,
         MaySpin(s, A, k, X, w, n, p, c, w2), c \in Kids(s, n), NEW s2, s2 = RotateUp(s, n, p, c)
  PROVE  Spun(s, s2, A, k, X, w2, n, p, c, OtherOf(s, n, c), InnerOf(s, n, c), OuterOf(s, n, c))
<1>1. CASE s.left[n] = c
  <2>1. s2 = RotateRight(s, n, p) /\ c = s.left[n]
    BY <1>1 DEF RotateUp
  <2>2. Spun(s, s2, A, k, X, w2, n, p, c, s.right[n], s.right[c], s.left[c])
    BY <2>1, SpinRight
  <2> QED BY <1>1, <2>2 DEF OtherOf, InnerOf, OuterOf
<1>2. CASE s.left[n] # c
  <2>1. s2 = RotateLeft(s, n, p) /\ c = s.right[n]
    BY <1>2 DEF RotateUp, Kids
  <2>2. Spun(s, s2, A, k, X, w2, n, p, c, s.left[n], s.left[c], s.right[c])
    BY <2>1, SpinLeft
  <2> QED BY <1>2, <2>2 DEF OtherOf, InnerOf, OuterOf
<1> QED BY <1>1, <1>2

Shifts(w, w2, n, a, b, d) == /\ w2[n] = w[n] - d /\ w2[a] = w[a] + d /\ w2[b] = w[b] + d
                             /\ SameWeights(w, w2, {n, a, b})

\* Weight moves between a node and both its children.
LEMMA SoundShift ==
  ASSUME NEW s \in TreeType, NEW A, NEW k, NEW X, NEW w \in [Node -> Nat], Sound(s, A, k, X, w),
         NEW n \in Node, NEW a \in Node, NEW b \in Node, Kids(s, n) = {a, b}, NEW d \in Int,
         NEW w2 \in [Node -> Nat], Shifts(w, w2, n, a, b, d)
  PROVE  Sound(s, A, k, X, w2)
<1>1. s.left \in Children /\ s.right \in Children
  BY FieldTypes
<1>2. Tree(s.left, s.right, s.root, A, Subs(s)) /\ Subs(s) \in Subtrees
  BY DEF Sound
<1>3. OneParent(s.left, s.right) /\ s.left[n] # n /\ s.right[n] # n
  BY <1>1, <1>2, OwnSubtree DEF Tree, Shape
<1>4. PICK bh \in Heights : Balanced(s.left, s.right, w, bh)
  BY DEF Sound
<1>5. s.left[n] \in {a, b} /\ s.right[n] \in {a, b} /\ {a, b} = {s.left[n], s.right[n]}
  BY DEF Kids
<1>6. w2[s.left[n]] = w[s.left[n]] + d /\ w2[s.right[n]] = w[s.right[n]] + d /\ w2[n] = w[n] - d
  BY <1>5 DEF Shifts
<1>7. \A m \in Node \ {n, s.left[n], s.right[n]} : w2[m] = w[m]
  BY <1>5 DEF Shifts, SameWeights
<1>8. \E h \in Heights : Balanced(s.left, s.right, w2, h)
  BY <1>1, <1>3, <1>4, <1>5, <1>6, <1>7, ShiftedBalance
<1> QED BY <1>8 DEF Sound

\* The root may weigh anything.
LEMMA SoundRoot ==
  ASSUME NEW s \in TreeType, NEW A, NEW k, NEW X, NEW w \in [Node -> Nat], Sound(s, A, k, X, w),
         s.root # NULL, NEW w2 \in [Node -> Nat], SameWeights(w, w2, {s.root})
  PROVE  Sound(s, A, k, X, w2)
<1>1. s.left \in Children /\ s.right \in Children /\ s.root \in Node
  BY FieldTypes DEF Place
<1>2. Tree(s.left, s.right, s.root, A, Subs(s)) /\ Subs(s) \in Subtrees
  BY DEF Sound
<1>3. \A m \in Node : s.left[m] # s.root /\ s.right[m] # s.root
  BY <1>1, <1>2, RootNoChild
<1>4. PICK bh \in Heights : Balanced(s.left, s.right, w, bh)
  BY DEF Sound
<1>5. \E h \in Heights : Balanced(s.left, s.right, w2, h)
  BY <1>1, <1>3, <1>4, RootBalance DEF SameWeights
<1> QED BY <1>5 DEF Sound

\* Siblings have the same height, and a node is at least as high as it weighs.
LEMMA SiblingHeight ==
  ASSUME NEW s \in TreeType, NEW A, NEW k, NEW X, NEW w \in [Node -> Nat], Sound(s, A, k, X, w),
         NEW n \in Node, NEW a \in Node, NEW b, Kids(s, n) = {a, b}, w[a] > 0
  PROVE  b # NULL
<1>1. PICK bh \in Heights : Balanced(s.left, s.right, w, bh)
  BY DEF Sound
<1>2. /\ bh[NULL] = 0 /\ \A m \in Node : bh[s.left[m]] = bh[s.right[m]] /\ bh[m] = bh[s.left[m]] + w[m]
      /\ \A m \in Place : bh[m] \in Nat
  BY <1>1 DEF Balanced, Heights
<1>3. bh[a] = bh[b]
  BY <1>2 DEF Kids
<1>4. s.left[a] \in Place
  BY FieldTypes DEF Children
<1>5. bh[a] > 0
  BY <1>2, <1>4
<1> QED BY <1>2, <1>3, <1>5

-----------------------------------------------------------------------------
\* Keys are numbers.
LEMMA KeyNumbers ==
  /\ \A k \in Keys \cup {0} : k \in Int /\ k \in Nat
  /\ NULL \notin Keys
  /\ Types => key \in [Node -> Int] /\ \A n \in heap : n \in Node /\ key[n] \in Keys
<1>1. Keys \subseteq Nat /\ NULL \notin Keys
  BY TreeAssumption
<1>2. Types => key \in [Node -> Keys \cup {0}] /\ heap \in SUBSET Node /\ \A n \in heap : key[n] \in Keys
  BY DEF Types
<1>3. Keys \cup {0} \subseteq Int
  BY <1>1
<1>4. Types => key \in [Node -> Int]
  BY <1>2, <1>3
<1> QED BY <1>1, <1>2, <1>4

\* The weights are numbers.
LEMMA WeightType ==
  ASSUME NEW b \in [Node -> BOOLEAN], NEW v, NEW g
  PROVE  /\ Weight(b, v, g) \in [Node -> Nat]
         /\ \A n \in Node : Weight(b, v, g)[n] = (IF n # v /\ b[n] THEN 1 ELSE 0) + (IF n = g THEN 1 ELSE 0)
BY DEF Weight

\* What a node weighs.
LEMMA Weighs ==
  ASSUME NEW b \in [Node -> BOOLEAN], NEW v, NEW g, NEW n \in Node
  PROVE  /\ n # g => /\ n = v \/ ~b[n] => Weight(b, v, g)[n] = 0
                     /\ n # v /\ b[n] => Weight(b, v, g)[n] = 1
         /\ n = g => /\ n = v \/ ~b[n] => Weight(b, v, g)[n] = 1
                     /\ n # v /\ b[n] => Weight(b, v, g)[n] = 2
BY DEF Weight

Inside(g, S) == g \in S \/ g \notin Node

\* A node weighs the same if nothing about it has changed.
LEMMA SameWeight ==
  ASSUME NEW b \in [Node -> BOOLEAN], NEW b2 \in [Node -> BOOLEAN], NEW S, SameColors(b, b2, S),
         NEW v, NEW g, Inside(g, S), NEW g2, Inside(g2, S)
  PROVE  SameWeights(Weight(b, v, g), Weight(b2, v, g2), S)
<1>1. SUFFICES ASSUME NEW m \in Node \ S PROVE Weight(b2, v, g2)[m] = Weight(b, v, g)[m]
  BY DEF SameWeights
<1>2. m \in Node /\ m # g /\ m # g2 /\ (b2[m] <=> b[m])
  BY DEF SameColors, Inside
<1>3. CASE m # v /\ b[m]
  BY <1>2, <1>3, Weighs
<1>4. CASE m = v \/ ~b[m]
  BY <1>2, <1>4, Weighs
<1> QED BY <1>3, <1>4

\* Other colors make no difference for soundness.
LEMMA SameSound ==
  ASSUME NEW s \in TreeType, NEW s2, Repaints(s, s2), NEW A, NEW k, NEW X, NEW w, Sound(s, A, k, X, w)
  PROVE  Sound(s2, A, k, X, w)
BY SamePlaces

\* Nodes without children are a sound tree, however they are colored.
LEMMA NoChildren ==
  ASSUME NEW s \in TreeType, \A n \in Node : s.left[n] = NULL /\ s.right[n] = NULL,
         NEW A, A = IF s.root = NULL THEN {} ELSE {s.root}, NEW w \in [Node -> Nat], NEW k, NEW X
  PROVE  Sound(s, A, k, X, w) /\ \A Y, v : Red(s, Y, v)
<1> DEFINE sub == [n \in Place |-> IF n = NULL THEN {} ELSE {n}]
           bh == [n \in Place |-> IF n = NULL THEN 0 ELSE w[n]]
<1>1. sub \in Subtrees /\ sub[NULL] = {} /\ \A n \in Node : sub[n] = {n}
  BY Nodes DEF Subtrees, Place
<1>2. bh \in Heights /\ bh[NULL] = 0 /\ \A n \in Node : bh[n] = w[n]
  BY Nodes DEF Heights, Place
<1> HIDE DEF sub, bh
<1>3. Balanced(s.left, s.right, w, bh)
  BY <1>2 DEF Balanced
<1>4. Order(s.left, s.right, sub, k, X)
  BY <1>1 DEF Order
<1>5. Tree(s.left, s.right, s.root, A, sub)
  <2>1. Shape(s.left, s.right, sub)
    BY <1>1 DEF Shape, Unfolds, Splits, OneParent
  <2>2. s.root \in Place
    BY DEF TreeType
  <2> QED BY <1>1, <2>1, <2>2 DEF Tree, Place
<1>6. \A Y, v : Red(s, Y, v)
  BY DEF Red, Kids
<1> QED BY <1>1, <1>2, <1>3, <1>4, <1>5, <1>6, SoundFrom

\* What is to show when a call returns.
LEMMA Returned ==
  ASSUME Types', pc' = "idle", stack' = <<>>, stack_size' \in Nat \ {0},
         Sound(t', heap', key', {}, Weight(t'.black, NULL, NULL)), Unique(key', heap'),
         Red(t', {}, NULL), t'.root # NULL => t'.black[t'.root], Cardinality(heap') = count',
         MapOn(heap)', ret' = wantRet', freed' = wantFreed', PairRefers'
  PROVE  IndInv'
<1>1. /\ ~(pc \in Searching)' /\ ~(pc \in Leaving)' /\ ~(pc \in Removing)' /\ ~(pc \in Filling)'
  BY DEF Searching, Leaving, Removing, Filling
<1>2. Gone' = {} /\ Victim' = NULL /\ Gap' = NULL /\ MayBeRed' = {}
  BY <1>1 DEF Gone, Victim, Gap, MayBeRed
<1>3. SoundInv' /\ RedInv'
  BY <1>2 DEF SoundInv, RedInv
<1>4. UniqueInv'
  <2>1. heap' \ {} = heap'
    OBVIOUS
  <2> QED BY <1>2, <2>1 DEF UniqueInv
<1>5. StackInv'
  BY <1>1 DEF StackInv, IsPath
<1>6. SearchInv' /\ MaxInv' /\ VictimInv' /\ GapInv'
  BY <1>1 DEF SearchInv, MaxInv, VictimInv, GapInv
<1>7. CountInv'
  <2>1. count' \in Nat
    BY DEF Types
  <2> QED BY <1>1, <2>1 DEF CountInv
<1>8. MapInv' /\ ResultInv' /\ PairInv'
  BY <1>1 DEF MapInv, ResultInv, PairInv
<1> QED BY <1>3, <1>4, <1>5, <1>6, <1>7, <1>8 DEF IndInv

\* The tree starts empty.
LEMMA InitKeeps ==
  ASSUME Init
  PROVE  IndInv
<1> USE DEF Init
<1>1. Types
  <2>1. t \in TreeType
    BY Nodes DEF TreeType, Children
  <2>2. key \in [Node -> Keys \cup {0}] /\ value \in [Node -> Values \cup {NULL}]
    OBVIOUS
  <2> QED BY <2>1, <2>2, Nodes, TreeAssumption DEF Types, Searching
<1>2. /\ ~(pc \in Searching) /\ ~(pc \in Leaving) /\ ~(pc \in Removing) /\ ~(pc \in Filling)
  BY DEF Searching, Leaving, Removing, Filling
<1>3. Gone = {} /\ Victim = NULL /\ Gap = NULL /\ MayBeRed = {}
  BY <1>2 DEF Gone, Victim, Gap, MayBeRed
<1>4. SoundInv /\ RedInv
  <2>1. t \in TreeType /\ t.root = NULL /\ \A n \in Node : t.left[n] = NULL /\ t.right[n] = NULL
    BY <1>1 DEF Types
  <2>2. Weight(t.black, NULL, NULL) \in [Node -> Nat]
    BY <2>1, FieldTypes, WeightType
  <2> QED BY <1>3, <2>1, <2>2, NoChildren DEF SoundInv, RedInv
<1>5. UniqueInv
  BY <1>3 DEF UniqueInv, Unique
<1>6. StackInv
  BY <1>2, TreeAssumption DEF StackInv, IsPath
<1>7. SearchInv /\ MaxInv /\ VictimInv /\ GapInv
  BY <1>2 DEF SearchInv, MaxInv, VictimInv, GapInv
<1>8. CountInv
  BY <1>2, FS_EmptySet DEF CountInv
<1>9. MapInv /\ ResultInv /\ PairInv
  BY <1>2 DEF MapInv, MapOn, ResultInv, PairInv, PairRefers
<1> QED BY <1>1, <1>4, <1>5, <1>6, <1>7, <1>8, <1>9 DEF IndInv

\* The invariant while the tree is not being changed.
LEMMA Steady ==
  ASSUME IndInv, pc \in Searching \cup {"idle", "find_max"}
  PROVE  /\ Types /\ t \in TreeType /\ Sound(t, heap, key, {}, Weight(t.black, NULL, NULL))
         /\ Unique(key, heap) /\ Red(t, {}, NULL) /\ (t.root # NULL => t.black[t.root])
         /\ stack_size \in Nat \ {0} /\ PairRefers
         /\ Cardinality(heap) = IF pc = "find_max" THEN count + 1 ELSE count
<1>1. Gone = {} /\ Victim = NULL /\ Gap = NULL /\ MayBeRed = {}
  BY DEF Gone, Victim, Gap, MayBeRed, Searching, Leaving, Removing, Filling
<1>2. heap \ {} = heap
  OBVIOUS
<1>3. Types /\ Sound(t, heap, key, {}, Weight(t.black, NULL, NULL)) /\ Unique(key, heap)
  BY <1>1, <1>2 DEF IndInv, SoundInv, UniqueInv
<1>4. Red(t, {}, NULL) /\ (t.root # NULL => t.black[t.root]) /\ stack_size \in Nat \ {0} /\ PairRefers
  BY <1>1 DEF IndInv, RedInv, StackInv, PairInv
<1>5. Cardinality(heap) = IF pc = "find_max" THEN count + 1 ELSE count
  BY DEF IndInv, CountInv, Removing, Leaving, Searching, Types
<1> QED BY <1>3, <1>4, <1>5 DEF Types

\* The invariant between two calls.
LEMMA AtRest ==
  ASSUME IndInv, pc = "idle"
  PROVE  /\ Types /\ t \in TreeType /\ Sound(t, heap, key, {}, Weight(t.black, NULL, NULL))
         /\ Unique(key, heap) /\ Red(t, {}, NULL) /\ (t.root # NULL => t.black[t.root])
         /\ stack_size \in Nat \ {0} /\ stack = <<>> /\ PairRefers
         /\ Cardinality(heap) = count /\ MapOn(heap) /\ ret = wantRet /\ freed = wantFreed
<1>1. MapOn(heap) /\ ret = wantRet /\ freed = wantFreed /\ stack = <<>>
  BY DEF IndInv, MapInv, ResultInv, StackInv
<1> QED BY <1>1, Steady

\* The tree of a sound state is the heap.
LEMMA HeapIsTree ==
  ASSUME t \in TreeType, NEW X, NEW w, Sound(t, heap, key, X, w)
  PROVE  /\ Under(t.root) = heap /\ Destroyed = heap
         /\ \A n \in Node \ heap : t.left[n] = NULL /\ t.right[n] = NULL
         /\ t.root = NULL <=> heap = {}
<1>1. Tree(t.left, t.right, t.root, heap, Subs(t))
  BY DEF Sound
<1>2. Subs(t)[t.root] = heap /\ Subs(t)[NULL] = {}
  BY <1>1 DEF Tree, Shape, Unfolds
<1>3. t.root # NULL => t.root \in heap
  BY TreeFacts
<1>4. \A n \in Node \ heap : t.left[n] = NULL /\ t.right[n] = NULL
  BY <1>1 DEF Tree
<1> QED BY <1>2, <1>3, <1>4 DEF Under, Destroyed, Subs

\* rbtree_clear and rbtree_free leave an empty tree.
LEMMA ClearKeeps ==
  ASSUME IndInv, NEW size \in Nat \ {0}, NEW p \in Place, Clear(size, p)
  PROVE  IndInv'
<1> USE DEF Clear, Return
<1>1. /\ Types /\ Sound(t, heap, key, {}, Weight(t.black, NULL, NULL)) /\ MapOn(heap)
  BY AtRest
<1>2. t \in TreeType
  BY <1>1 DEF Types
<1>3. Destroyed = heap /\ \A n \in Node \ heap : t.left[n] = NULL /\ t.right[n] = NULL
  BY <1>1, <1>2, HeapIsTree
<1>4. /\ heap' = {} /\ t' \in TreeType /\ t'.root = NULL
      /\ \A n \in Node : t'.left[n] = NULL /\ t'.right[n] = NULL
  <2> DEFINE L2 == [n \in Node |-> IF n \in heap THEN NULL ELSE t.left[n]]
             R2 == [n \in Node |-> IF n \in heap THEN NULL ELSE t.right[n]]
             b2 == [n \in Node |-> n \notin heap /\ t.black[n]]
  <2>1. t' = [root |-> NULL, left |-> L2, right |-> R2, black |-> b2]
    BY <1>3 DEF DestroyNodes
  <2>2. L2 \in Children /\ R2 \in Children /\ \A n \in Node : L2[n] = NULL /\ R2[n] = NULL
    BY <1>3, Nodes DEF Children
  <2>3. b2 \in [Node -> BOOLEAN]
    BY <1>2 DEF TreeType
  <2> HIDE DEF L2, R2, b2
  <2>4. heap' = {}
    BY <1>3 DEF DestroyNodes
  <2> QED BY <2>1, <2>2, <2>3, <2>4, Nodes DEF TreeType
<1>5. Types'
  <2>1. key' \in [Node -> Keys \cup {0}] /\ value' \in [Node -> Values \cup {NULL}]
    BY <1>1, <1>3 DEF DestroyNodes, Types
  <2> QED BY <1>4, <2>1, Nodes, TreeAssumption DEF Types, Searching, Removing, Leaving
<1>6. Sound(t', heap', key', {}, Weight(t'.black, NULL, NULL)) /\ Red(t', {}, NULL)
  <2>1. Weight(t'.black, NULL, NULL) \in [Node -> Nat]
    BY <1>4, FieldTypes, WeightType
  <2> QED BY <1>4, <2>1, NoChildren
<1>7. Unique(key', heap') /\ Cardinality(heap') = count' /\ MapOn(heap)'
  BY <1>4, FS_EmptySet DEF Unique, MapOn
<1>8. freed' = wantFreed'
  <2>1. DOMAIN want = {key[n] : n \in heap} /\ \A n \in heap : want[key[n]] = value[n]
    BY <1>1 DEF MapOn
  <2>2. freed' = UNION {{FreedKey(key[n]), FreedValue(key[n], value[n])} : n \in heap}
    BY <1>3
  <2>3. {{FreedKey(key[n]), FreedValue(key[n], value[n])} : n \in heap}
        = {{FreedKey(k), FreedValue(k, want[k])} : k \in DOMAIN want}
    BY <2>1
  <2> QED BY <2>2, <2>3
<1>9. PairRefers' /\ ret' = wantRet'
  BY DEF PairRefers
<1> QED BY <1>4, <1>5, <1>6, <1>7, <1>8, <1>9, Returned

\* The allocator finds a free node.
LEMMA NewNodeFree ==
  ASSUME heap \in SUBSET Node, heap # Node
  PROVE  NewNode \in Node \ heap
<1>1. Node \ heap \in SUBSET Nat /\ Node \ heap # {}
  BY TreeAssumption
<1>2. \E n \in Node \ heap : \A m \in Node \ heap : n <= m
  BY <1>1, LeastNumber
<1> QED BY <1>2, Zenon DEF NewNode

\* There is a free node if the tree can count it.
LEMMA FreeNode ==
  ASSUME heap \in SUBSET Node, Cardinality(heap) < SIZE_MAX
  PROVE  NewNode \in Node \ heap /\ Cardinality(heap \cup {NewNode}) = Cardinality(heap) + 1
<1>1. Cardinality(Node) >= SIZE_MAX /\ SIZE_MAX \in Nat /\ Cardinality(Node) \in Nat /\ IsFiniteSet(Node)
  BY TreeAssumption, FS_CardinalityType
<1>2. IsFiniteSet(heap) /\ Cardinality(heap) \in Nat
  BY <1>1, FS_Subset, FS_CardinalityType
<1>3. heap # Node
  BY <1>1, <1>2
<1>4. NewNode \in Node \ heap
  BY <1>3, NewNodeFree
<1> QED BY <1>2, <1>4, FS_AddElement

\* A free place of the array is there before a node is pushed.
LEMMA GrownFits ==
  ASSUME NEW len \in Nat, NEW size \in Nat \ {0}, len <= size
  PROVE  Grown(len, size) \in Nat \ {0} /\ len + 1 <= Grown(len, size) /\ Grown(len, size) >= size
BY DEF Grown

\* rbtree_set makes the first node the root.
LEMMA SetRootKeeps ==
  ASSUME IndInv, NEW k \in Keys, NEW v \in Values, NEW o \in BOOLEAN, SetRoot(k, v, o)
  PROVE  IndInv'
<1> USE DEF SetRoot, Return
<1>1. /\ Types /\ t \in TreeType /\ Sound(t, heap, key, {}, Weight(t.black, NULL, NULL)) /\ MapOn(heap)
      /\ Cardinality(heap) = count /\ stack_size \in Nat \ {0} /\ PairRefers
  BY AtRest
<1>2. heap = {} /\ \A n \in Node : t.left[n] = NULL /\ t.right[n] = NULL
  BY <1>1, HeapIsTree
<1>3. PICK n \in Node : n = NewNode
  BY <1>2, NewNodeFree, TreeAssumption, FS_EmptySet
<1>4. /\ heap' = {n} /\ t'.root = n /\ t' \in TreeType /\ t'.black[n] = TRUE
      /\ \A m \in Node : t'.left[m] = NULL /\ t'.right[m] = NULL
  <2>1. heap' = {n}
    BY <1>2, <1>3 DEF Fill
  <2>2. t' = [root |-> n, left |-> [t.left EXCEPT ![n] = NULL], right |-> [t.right EXCEPT ![n] = NULL],
              black |-> [t.black EXCEPT ![n] = TRUE]]
    BY <1>1, <1>3 DEF Create, TreeType
  <2> DEFINE L2 == [t.left EXCEPT ![n] = NULL]
             R2 == [t.right EXCEPT ![n] = NULL]
             b2 == [t.black EXCEPT ![n] = TRUE]
  <2>3. L2 \in Children /\ R2 \in Children /\ \A m \in Node : L2[m] = NULL /\ R2[m] = NULL
    BY <1>1, <1>2, FieldTypes, Nodes DEF Children
  <2>4. b2 \in [Node -> BOOLEAN] /\ b2[n] = TRUE
    BY <1>1, FieldTypes
  <2>5. t' = [root |-> n, left |-> L2, right |-> R2, black |-> b2]
    BY <2>2
  <2> HIDE DEF L2, R2, b2
  <2>6. t'.root = n /\ t'.left = L2 /\ t'.right = R2 /\ t'.black = b2
    BY ONLY <2>5
  <2>7. t' \in TreeType
    BY ONLY <2>3, <2>4, <2>5, n \in Node DEF TreeType, Place
  <2> QED BY ONLY <2>1, <2>3, <2>4, <2>6, <2>7
<1>5. key' = [key EXCEPT ![n] = k] /\ value' = [value EXCEPT ![n] = v]
  BY <1>3 DEF Fill
<1>6. wantRet' = "new" /\ wantFreed' = {} /\ want' = With(k, v) /\ DOMAIN want = {}
  <2>1. DOMAIN want = {}
    BY <1>1, <1>2 DEF MapOn
  <2>2. ~(Cardinality(DOMAIN want) = SIZE_MAX) /\ k \notin DOMAIN want
    BY <2>1, FS_EmptySet, TreeAssumption
  <2> QED BY <2>1, <2>2 DEF WantSet
<1>7. Types'
  <2>1. key' \in [Node -> Keys \cup {0}] /\ value' \in [Node -> Values \cup {NULL}] /\ key'[n] = k
    BY <1>1, <1>5 DEF Types
  <2> QED BY <1>1, <1>4, <2>1, Nodes, TreeAssumption DEF Types, Searching, Removing, Leaving, lookedup
<1>8. Sound(t', heap', key', {}, Weight(t'.black, NULL, NULL)) /\ Red(t', {}, NULL)
  <2>1. Weight(t'.black, NULL, NULL) \in [Node -> Nat]
    BY <1>4, FieldTypes, WeightType
  <2> QED BY <1>4, <2>1, Nodes, NoChildren
<1>9. Unique(key', heap') /\ Cardinality(heap') = count'
  BY <1>4, FS_Singleton DEF Unique
<1>10. MapOn(heap)'
  <2>1. key'[n] = k /\ value'[n] = v
    BY <1>1, <1>5 DEF Types
  <2>2. DOMAIN want' = {k} /\ want'[k] = v
    BY <1>6 DEF With
  <2> QED BY <1>4, <2>1, <2>2 DEF MapOn
<1>11. PairRefers'
  BY <1>1, <1>2 DEF PairRefers, lookedup
<1> QED BY <1>1, <1>4, <1>6, <1>7, <1>8, <1>9, <1>10, <1>11, Returned

\* What an action that changes only values and the counter has to show when it
\* returns.
LEMMA ReturnedSame ==
  ASSUME IndInv, pc \in Searching \cup {"idle"}, t' = t, key' = key, heap' = heap, count' = count,
         pc' = "idle", stack' = <<>>, stack_size' \in Nat \ {0}, node' = NULL, parent' = NULL,
         child' = NULL, arg' = 0, argv' = NULL, value' \in [Node -> Values \cup {NULL}],
         pair' \in Place, found' \in Keys \cup {NULL},
         MapOn(heap)', ret' = wantRet', freed' = wantFreed', PairRefers'
  PROVE  IndInv'
<1>1. /\ Types /\ t \in TreeType /\ Sound(t, heap, key, {}, Weight(t.black, NULL, NULL))
      /\ Unique(key, heap) /\ Red(t, {}, NULL) /\ (t.root # NULL => t.black[t.root])
      /\ Cardinality(heap) = count
  BY Steady DEF Searching
<1>2. Types'
  BY <1>1, Nodes DEF Types, Searching
<1> QED BY <1>1, <1>2, Returned

\* rbtree_pair_set_value changes the value of the pair's key.
LEMMA PairSetValueKeeps ==
  ASSUME IndInv, NEW v \in Values, PairSetValue(v)
  PROVE  IndInv'
<1> USE DEF PairSetValue, Return, lookedup
<1>1. Types /\ Unique(key, heap) /\ MapOn(heap) /\ stack_size \in Nat \ {0} /\ PairRefers
  BY AtRest
<1>2. /\ pair \in heap /\ key[pair] = found /\ heap \in SUBSET Node
      /\ value \in [Node -> Values \cup {NULL}] /\ pair \in Place /\ found \in Keys \cup {NULL}
  BY <1>1 DEF PairRefers, Types
<1>3. DOMAIN want = {key[n] : n \in heap} /\ \A n \in heap : want[key[n]] = value[n]
  BY <1>1 DEF MapOn
<1>4. want' = [j \in DOMAIN want \cup {found} |-> IF j = found THEN v ELSE want[j]]
  BY DEF With
<1>5. MapOn(heap)'
  <2>1. DOMAIN want' = {key[n] : n \in heap}
    BY <1>2, <1>3, <1>4
  <2>2. ASSUME NEW n \in heap PROVE want'[key[n]] = value'[n]
    <3>1. key[n] \in DOMAIN want
      BY <1>3
    <3>2. CASE n = pair
      BY <1>2, <1>4, <3>1, <3>2
    <3>3. CASE n # pair
      <4>1. key[n] # found
        BY <1>1, <1>2, <3>3 DEF Unique
      <4> QED BY <1>2, <1>3, <1>4, <3>1, <3>3, <4>1
    <3> QED BY <3>2, <3>3
  <2> QED BY <2>1, <2>2 DEF MapOn
<1>6. freed' = wantFreed'
  BY <1>2, <1>3
<1>7. value' \in [Node -> Values \cup {NULL}]
  BY <1>2
<1>8. PairRefers'
  BY <1>2 DEF PairRefers
<1> QED BY <1>1, <1>2, <1>5, <1>6, <1>7, <1>8, ReturnedSame

\* rbtree_set replaces the value of a key that is in the tree.
LEMMA InsertReplaceKeeps ==
  ASSUME IndInv, InsertReplace
  PROVE  IndInv'
<1> USE DEF InsertReplace, Return, lookedup, hist
<1>1. Types /\ Unique(key, heap) /\ stack_size \in Nat \ {0} /\ PairRefers
  BY Steady DEF Searching
<1>2. /\ heap \in SUBSET Node /\ value \in [Node -> Values \cup {NULL}] /\ argv \in Values
      /\ pair \in Place /\ found \in Keys \cup {NULL}
  BY <1>1 DEF Types
<1>3. node \in heap /\ InsertInv /\ Len(stack) \in Nat /\ Len(stack) <= stack_size
  BY DEF IndInv, SearchInv, MapInv, Searching, StackInv
<1>4. /\ wantRet = "replaced" /\ want[arg] = argv
      /\ DOMAIN want = {key[n] : n \in heap}
      /\ \E x \in heap : /\ key[x] = arg
                         /\ wantFreed = {FreedValue(arg, value[x])}
                                        \cup {FreedKey(k) : k \in IF over THEN {arg} ELSE {}}
  <2>1. Others # heap
    BY <1>3 DEF Others
  <2>2. ~(count = SIZE_MAX /\ key[t.root] # arg)
    BY <1>3 DEF InsertInv
  <2> QED BY <1>3, <2>1, <2>2 DEF InsertInv
<1>5. wantFreed = {FreedValue(arg, value[node])} \cup {FreedKey(k) : k \in IF over THEN {arg} ELSE {}}
  BY <1>1, <1>3, <1>4 DEF Unique
<1>6. MapOn(heap)'
  <2>1. ASSUME NEW n \in heap PROVE want[key[n]] = value'[n]
    <3>1. CASE n = node
      BY <1>2, <1>3, <1>4, <3>1
    <3>2. CASE n # node
      <4>1. n \in Others
        BY <1>1, <1>3, <3>2 DEF Others, Unique
      <4> QED BY <1>2, <1>3, <3>2, <4>1 DEF InsertInv
    <3> QED BY <3>1, <3>2
  <2> QED BY <1>4, <2>1 DEF MapOn
<1>7. value' \in [Node -> Values \cup {NULL}]
  BY <1>2
<1>8. stack_size' \in Nat \ {0}
  BY <1>1, <1>3, GrownFits
<1>9. PairRefers' /\ ret' = wantRet' /\ freed' = wantFreed'
  BY <1>1, <1>4, <1>5 DEF PairRefers
<1> QED BY <1>2, <1>6, <1>7, <1>8, <1>9, ReturnedSame DEF Searching

\* rbtree_set fails if the tree cannot count another node.
LEMMA InsertFailKeeps ==
  ASSUME IndInv, InsertFail
  PROVE  IndInv'
<1> USE DEF InsertFail, Return, lookedup, hist, fields
<1>1. Types /\ stack_size \in Nat \ {0} /\ PairRefers
  BY Steady DEF Searching
<1>2. /\ value \in [Node -> Values \cup {NULL}] /\ pair \in Place /\ found \in Keys \cup {NULL}
      /\ count = SIZE_MAX
  BY <1>1, TreeAssumption DEF Types, CanCount
<1>3. InsertInv /\ Len(stack) \in Nat /\ Len(stack) <= stack_size
  BY DEF IndInv, MapInv, StackInv
<1>4. wantRet = "failed" /\ MapOn(heap) /\ wantFreed = {} /\ freed = {}
  <2>1. node = t.root
    BY <1>2, <1>3 DEF InsertInv
  <2>2. ~(count < SIZE_MAX)
    BY <1>2, TreeAssumption
  <2> QED BY <1>2, <1>3, <2>1, <2>2 DEF InsertInv
<1>5. MapOn(heap)'
  BY <1>4 DEF MapOn
<1>6. stack_size' \in Nat \ {0}
  BY <1>1, <1>3, GrownFits
<1>7. PairRefers'
  BY <1>1 DEF PairRefers
<1> QED BY <1>2, <1>4, <1>5, <1>6, <1>7, ReturnedSame DEF Searching

\* A search that ends without a node: the key is not in the tree.
LEMMA FindMissingKeeps ==
  ASSUME IndInv, FindMissing
  PROVE  IndInv'
<1> USE DEF FindMissing, Return, lookedup, hist, fields
<1>1. /\ Types /\ t \in TreeType /\ stack_size \in Nat \ {0} /\ PairRefers
      /\ Sound(t, heap, key, {}, Weight(t.black, NULL, NULL))
  BY Steady DEF Searching
<1>2. /\ value \in [Node -> Values \cup {NULL}] /\ pair \in Place /\ found \in Keys \cup {NULL}
      /\ heap \in SUBSET Node /\ arg \in Keys
  BY <1>1 DEF Types, Searching
<1>3. \A n \in heap : key[n] # arg
  <2>1. Apart(heap, Subs(t)[NULL], key, arg)
    BY DEF IndInv, SearchInv, Searching
  <2>2. Subs(t)[NULL] = {}
    BY <1>1 DEF Sound, Tree, Shape, Unfolds
  <2> QED BY <1>1, <1>2, <2>1, <2>2, KeyNumbers, ApartNone
<1>4. Others = heap
  BY <1>3 DEF Others
<1>5. MapOn(heap) /\ wantRet = "false" /\ freed = wantFreed
  <2>1. CASE pc = "find"
    BY <1>3, <1>4, <2>1 DEF IndInv, MapInv, ResultInv, FindInv
  <2>2. CASE pc \in {"lookup", "exists"}
    <3>1. MapOn(heap) /\ freed = wantFreed
      BY <2>2 DEF IndInv, MapInv, ResultInv
    <3>2. arg \notin DOMAIN want
      BY <1>3, <3>1 DEF MapOn
    <3> QED BY <2>2, <3>1, <3>2 DEF IndInv, ResultInv
  <2> QED BY <2>1, <2>2
<1>6. MapOn(heap)' /\ PairRefers'
  BY <1>1, <1>5 DEF MapOn, PairRefers
<1> QED BY <1>1, <1>2, <1>5, <1>6, ReturnedSame DEF Searching

\* A lookup that ends at a node: the pair refers to its key.
LEMMA FoundKeeps ==
  ASSUME IndInv, LookupFound \/ ExistsFound
  PROVE  IndInv'
<1> USE DEF LookupFound, ExistsFound, FoundNode, Return, lookedup, hist, fields
<1>1. Types /\ stack_size \in Nat \ {0} /\ PairRefers /\ pc \in {"lookup", "exists"}
  BY Steady DEF Searching
<1>2. /\ value \in [Node -> Values \cup {NULL}] /\ pair \in Place /\ found \in Keys \cup {NULL}
      /\ node \in Place /\ arg \in Keys
  BY <1>1 DEF Types, Searching
<1>3. node \in heap /\ MapOn(heap) /\ freed = wantFreed
  BY <1>1 DEF IndInv, SearchInv, Searching, MapInv, ResultInv
<1>4. arg \in DOMAIN want /\ want[arg] = value[node]
  BY <1>3 DEF MapOn
<1>5. ret' = wantRet'
  BY <1>4 DEF IndInv, ResultInv
<1>6. MapOn(heap)'
  BY <1>3 DEF MapOn
<1>7. PairRefers'
  <2>1. CASE LookupFound
    BY <1>3, <2>1 DEF PairRefers
  <2>2. CASE ExistsFound
    BY <1>1, <2>2 DEF PairRefers
  <2> QED BY <2>1, <2>2
<1> QED BY <1>1, <1>2, <1>3, <1>5, <1>6, <1>7, ReturnedSame DEF Searching

-----------------------------------------------------------------------------
\* A path goes on to a child of its last node.
LEMMA PathAppend ==
  ASSUME NEW s, NEW S, NEW p \in Seq(S), IsPath(s, p), NEW c, p = <<>> => c = s.root,
         p # <<>> => c \in Kids(s, p[Len(p)])
  PROVE  IsPath(s, Append(p, c))
<1> DEFINE q == Append(p, c)
<1>1. Len(q) = Len(p) + 1 /\ Len(p) \in Nat /\ q[Len(p) + 1] = c /\ \A i \in 1..Len(p) : q[i] = p[i]
  OBVIOUS
<1> HIDE DEF q
<1>2. p # <<>> => Len(p) > 0
  BY <1>1
<1>3. p = <<>> => Len(p) = 0
  OBVIOUS
<1>4. q[1] = s.root
  BY <1>1, <1>2, <1>3 DEF IsPath
<1>5. ASSUME NEW i \in 2..Len(q) PROVE q[i] \in Kids(s, q[i - 1])
  <2>1. CASE i = Len(p) + 1
    BY <1>1, <1>2, <1>3, <2>1
  <2>2. CASE i # Len(p) + 1
    <3>1. i \in 2..Len(p) /\ i \in 1..Len(p) /\ i - 1 \in 1..Len(p) /\ p # <<>>
      BY <1>1, <1>3, <2>2
    <3>2. p[i] \in Kids(s, p[i - 1])
      BY <3>1 DEF IsPath
    <3> QED BY <1>1, <3>1, <3>2
  <2> QED BY <2>1, <2>2
<1> QED BY <1>4, <1>5 DEF IsPath, q

\* What stays true as long as the tree is not being changed.
LEMMA StillSteady ==
  ASSUME pc' \in Searching \cup {"find_max"},
         Sound(t', heap', key', {}, Weight(t'.black, NULL, NULL)), Unique(key', heap'),
         Red(t', {}, NULL), t'.root # NULL => t'.black[t'.root]
  PROVE  SoundInv' /\ UniqueInv' /\ RedInv' /\ VictimInv' /\ GapInv'
<1>1. /\ ~(pc \in Leaving)' /\ ~(pc \in Removing)' /\ ~(pc \in Filling)'
      /\ ~(pc' \in {"rebalance_black", "unlink", "fix_insert"})
  BY DEF Searching, Leaving, Removing, Filling
<1>2. Gone' = {} /\ Victim' = NULL /\ Gap' = NULL /\ MayBeRed' = {}
  BY <1>1 DEF Gone, Victim, Gap, MayBeRed
<1>3. SoundInv' /\ RedInv'
  BY <1>2 DEF SoundInv, RedInv
<1>4. UniqueInv'
  <2>1. heap' \ {} = heap'
    OBVIOUS
  <2> QED BY <1>2, <2>1 DEF UniqueInv
<1> QED BY <1>1, <1>3, <1>4 DEF VictimInv, GapInv

\* A call starts at the root.
LEMMA CallKeeps ==
  ASSUME IndInv, NEW l \in Searching, NEW k \in Keys, NEW v \in Values \cup {NULL}, NEW o,
         Call(l, k, v, o), l = "insert" => v \in Values /\ t.root # NULL, found' \in Keys \cup {NULL}
  PROVE  /\ Types' /\ SoundInv' /\ UniqueInv' /\ RedInv' /\ StackInv' /\ SearchInv' /\ MaxInv'
         /\ VictimInv' /\ GapInv' /\ CountInv'
<1> USE DEF Call, fields
<1>1. /\ Types /\ t \in TreeType /\ Sound(t, heap, key, {}, Weight(t.black, NULL, NULL))
      /\ Unique(key, heap) /\ Red(t, {}, NULL) /\ (t.root # NULL => t.black[t.root])
      /\ stack_size \in Nat \ {0} /\ stack = <<>> /\ Cardinality(heap) = count
  BY AtRest
<1>2. Types'
  BY <1>1, FieldTypes DEF Types
<1>3. SoundInv' /\ UniqueInv' /\ RedInv' /\ VictimInv' /\ GapInv'
  BY <1>1, StillSteady
<1>4. (t.root # NULL => t.root \in heap) /\ Subs(t)[t.root] = heap
  BY <1>1, TreeFacts
<1>5. SearchInv'
  <2>1. Subs(t)' = Subs(t)
    BY DEF Subs
  <2> QED BY <1>4, <2>1 DEF SearchInv, Apart
<1>6. StackInv'
  <2>1. l \in {"insert", "find", "lookup", "exists"}
    BY DEF Searching
  <2>2. stack' = <<>> /\ stack_size' = stack_size /\ pc' = l /\ node' = t.root /\ t' = t
    BY <1>1
  <2>3. IsPath(t, Append(<<>>, t.root))
    BY PathAppend DEF IsPath
  <2> QED BY <1>1, <2>1, <2>2, <2>3 DEF StackInv, Filling, IsPath
<1>7. MaxInv' /\ CountInv'
  BY <1>1 DEF MaxInv, CountInv, Searching, Removing, Leaving, Types
<1> QED BY <1>2, <1>3, <1>5, <1>6, <1>7

\* There are as many keys as nodes.
LEMMA KeyCount ==
  ASSUME heap \in SUBSET Node, Unique(key, heap)
  PROVE  Cardinality({key[n] : n \in heap}) = Cardinality(heap)
<1> DEFINE D == {key[n] : n \in heap}
           f == [n \in heap |-> key[n]]
<1>1. IsFiniteSet(heap)
  BY Nodes, FS_Subset
<1>2. f \in Bijection(heap, D)
  BY DEF Bijection, Injection, Surjection, IsInjective, Unique
<1>3. ExistsBijection(heap, D)
  BY <1>2 DEF ExistsBijection
<1> QED BY <1>1, <1>3, FS_Bijection

\* rbtree_set is called for a tree with a root.
LEMMA SetKeeps ==
  ASSUME IndInv, NEW k \in Keys, NEW v \in Values, NEW o \in BOOLEAN, Set(k, v, o)
  PROVE  IndInv'
<1> USE DEF Set
<1>1. /\ Types /\ Unique(key, heap) /\ MapOn(heap) /\ Cardinality(heap) = count /\ PairRefers
      /\ t \in TreeType /\ Sound(t, heap, key, {}, Weight(t.black, NULL, NULL)) /\ pc = "idle"
  BY AtRest DEF Call
<1>2. Call("insert", k, v, o) /\ found' = found /\ found \in Keys \cup {NULL}
  BY <1>1 DEF Types
<1>3. /\ Types' /\ SoundInv' /\ UniqueInv' /\ RedInv' /\ StackInv' /\ SearchInv' /\ MaxInv'
      /\ VictimInv' /\ GapInv' /\ CountInv'
  BY <1>2, CallKeeps DEF Searching
<1>4. /\ pc' = "insert" /\ node' = t.root /\ arg' = k /\ argv' = v /\ over' = o /\ freed' = {}
      /\ t' = t /\ key' = key /\ value' = value /\ heap' = heap /\ count' = count /\ pair' = pair
  BY <1>2 DEF Call, fields
<1>5. /\ DOMAIN want = {key[n] : n \in heap} /\ \A n \in heap : want[key[n]] = value[n]
      /\ t.root \in heap /\ Cardinality(DOMAIN want) = count /\ count \in 0..SIZE_MAX
  BY <1>1, KeyCount, TreeFacts DEF MapOn, Types
<1>6. Others' = {n \in heap : key[n] # k}
  BY <1>4 DEF Others
<1>7. InsertInv'
  <2>1. CASE k \in DOMAIN want /\ (count = SIZE_MAX => k = key[t.root])
    <3>1. /\ want' = With(k, v) /\ wantRet' = "replaced"
          /\ wantFreed' = {FreedValue(k, want[k])} \cup {FreedKey(j) : j \in IF o THEN {k} ELSE {}}
      BY <1>5, <2>1 DEF WantSet
    <3>2. DOMAIN want' = {key[n] : n \in heap} /\ want'[k] = v
      BY <1>5, <2>1, <3>1 DEF With
    <3>3. \A n \in Others' : want'[key[n]] = value[n]
      BY <1>5, <1>6, <2>1, <3>1 DEF With
    <3>4. PICK x \in heap : key[x] = k
      BY <1>5, <2>1
    <3>5. wantFreed' = {FreedValue(k, value[x])} \cup {FreedKey(j) : j \in IF o THEN {k} ELSE {}}
      BY <1>5, <3>1, <3>4
    <3> QED BY <1>4, <2>1, <3>1, <3>2, <3>3, <3>4, <3>5 DEF InsertInv
  <2>2. CASE k \notin DOMAIN want /\ count # SIZE_MAX
    <3>1. want' = With(k, v) /\ wantRet' = "new" /\ wantFreed' = {}
      BY <1>5, <2>2 DEF WantSet
    <3>2. DOMAIN want' = {key[n] : n \in heap} \cup {k} /\ want'[k] = v
      BY <1>5, <3>1 DEF With
    <3>3. \A n \in Others' : want'[key[n]] = value[n]
      BY <1>5, <1>6, <3>1 DEF With
    <3>4. Others' = heap
      BY <1>5, <1>6, <2>2
    <3>5. count < SIZE_MAX
      BY <1>5, <2>2, TreeAssumption
    <3> QED BY <1>4, <3>1, <3>2, <3>3, <3>4, <3>5 DEF InsertInv
  <2>3. CASE count = SIZE_MAX /\ ~(k \in DOMAIN want /\ k = key[t.root])
    <3>1. want' = want /\ wantRet' = "failed" /\ wantFreed' = {}
      BY <1>5, <2>3 DEF WantSet
    <3>2. key[t.root] # k
      BY <1>5, <2>3
    <3>3. MapOn(heap)'
      BY <1>4, <1>5, <3>1 DEF MapOn
    <3>4. \A n \in Others' : want[key[n]] = value[n]
      BY <1>5, <1>6
    <3> QED BY <1>4, <2>3, <3>1, <3>2, <3>3, <3>4 DEF InsertInv
  <2> QED BY <2>1, <2>2, <2>3
<1>8. MapInv' /\ ResultInv'
  BY <1>4, <1>7 DEF MapInv, ResultInv, Removing, Leaving
<1>9. PairInv'
  BY <1>1, <1>2, <1>4 DEF PairInv, PairRefers, Removing, Leaving
<1> QED BY <1>3, <1>8, <1>9 DEF IndInv

\* rbtree_remove is called.
LEMMA RemoveKeeps ==
  ASSUME IndInv, NEW k \in Keys, Remove(k)
  PROVE  IndInv'
<1> USE DEF Remove
<1>1. /\ Types /\ Unique(key, heap) /\ MapOn(heap) /\ PairRefers /\ pc = "idle"
  BY AtRest DEF Call
<1>2. Call("find", k, NULL, FALSE) /\ found' \in Keys \cup {NULL} /\ found \in Keys \cup {NULL}
  BY <1>1 DEF Types
<1>3. /\ Types' /\ SoundInv' /\ UniqueInv' /\ RedInv' /\ StackInv' /\ SearchInv' /\ MaxInv'
      /\ VictimInv' /\ GapInv' /\ CountInv'
  BY <1>2, CallKeeps DEF Searching
<1>4. /\ pc' = "find" /\ node' = t.root /\ arg' = k /\ freed' = {}
      /\ t' = t /\ key' = key /\ value' = value /\ heap' = heap /\ count' = count /\ pair' = pair
  BY <1>2 DEF Call, fields
<1>5. DOMAIN want = {key[n] : n \in heap} /\ \A n \in heap : want[key[n]] = value[n]
  BY <1>1 DEF MapOn
<1>6. Others' = {n \in heap : key[n] # k}
  BY <1>4 DEF Others
<1>7. MapInv'
  <2>1. DOMAIN want' = {key[n] : n \in Others'}
    BY <1>5, <1>6
  <2>2. \A n \in Others' : want'[key[n]] = value[n]
    BY <1>5, <1>6
  <2>3. MapOn(Others)'
    BY <1>4, <2>1, <2>2 DEF MapOn
  <2> QED BY <1>4, <2>3 DEF MapInv, Removing, Leaving
<1>8. ResultInv'
  <2>1. FindInv'
    <3>1. CASE k \in DOMAIN want
      <4>1. PICK x \in heap : key[x] = k
        BY <1>5, <3>1
      <4>2. wantFreed' = {FreedKey(k), FreedValue(k, value[x])}
        <5>1. DOMAIN want \cap {k} = {k}
          BY <3>1
        <5>2. want[k] = value[x]
          BY <1>5, <4>1
        <5>3. wantFreed' = UNION {{FreedKey(j), FreedValue(j, want[j])} : j \in {k}}
          BY <5>1
        <5> QED BY <5>2, <5>3
      <4> QED BY <1>4, <3>1, <4>1, <4>2 DEF FindInv
    <3>2. CASE k \notin DOMAIN want
      <4>1. Others' = heap'
        BY <1>4, <1>5, <1>6, <3>2
      <4>2. wantFreed' = {}
        <5>1. DOMAIN want \cap {k} = {}
          BY <3>2
        <5> QED BY <5>1
      <4> QED BY <3>2, <4>1, <4>2 DEF FindInv
    <3> QED BY <3>1, <3>2
  <2> QED BY <1>4, <2>1 DEF ResultInv, Removing, Leaving
<1>9. PairInv'
  <2>1. PairRefers'
    BY <1>1, <1>4 DEF PairRefers
  <2>2. ASSUME found' # NULL, NEW n \in heap, key[n] = k
        PROVE  found # k /\ (found > k \/ \E m \in heap : found < key[m] /\ key[m] < k)
    <3>1. found' = found /\ ~LosesPair(k) /\ found \in Nat /\ k \in Nat
      BY <1>2, <2>2, KeyNumbers
    <3>2. k \in DOMAIN want
      BY <1>5, <2>2
    <3>3. \A m \in heap : key[m] \in Nat
      BY <1>1, KeyNumbers
    <3>4. ~(found <= k /\ \A j \in DOMAIN want : j <= found \/ j >= k)
      BY <2>2, <3>1, <3>2 DEF LosesPair
    <3>5. \A j \in DOMAIN want : j \in Nat
      BY <1>5, <3>3
    <3>6. found # k
      BY <3>1, <3>4, <3>5
    <3>7. CASE found > k
      BY <3>6, <3>7
    <3>8. CASE ~(found > k)
      <4>1. PICK j \in DOMAIN want : ~(j <= found \/ j >= k)
        BY <3>1, <3>4, <3>8
      <4>2. PICK m \in heap : key[m] = j
        BY <1>5, <4>1
      <4> QED BY <3>1, <3>3, <3>6, <4>1, <4>2
    <3> QED BY <3>7, <3>8
  <2>3. found' # NULL => found' = found
    OBVIOUS
  <2> QED BY <1>4, <2>1, <2>2, <2>3 DEF PairInv, Removing, Leaving
<1> QED BY <1>3, <1>7, <1>8, <1>9 DEF IndInv

\* rbtree_lookup or rbtree_key_exists is called.
LEMMA LookupKeeps ==
  ASSUME IndInv, NEW k \in Keys, Lookup(k) \/ Exists(k)
  PROVE  IndInv'
<1>1. PICK l \in {"lookup", "exists"} : Call(l, k, NULL, FALSE)
  BY DEF Lookup, Exists
<1>2. Types /\ MapOn(heap) /\ PairRefers /\ pc = "idle" /\ found \in Keys \cup {NULL}
  BY <1>1, AtRest DEF Call, Types
<1>3. found' = found /\ want' = want /\ wantFreed' = {}
  BY DEF Lookup, Exists
<1>4. /\ Types' /\ SoundInv' /\ UniqueInv' /\ RedInv' /\ StackInv' /\ SearchInv' /\ MaxInv'
      /\ VictimInv' /\ GapInv' /\ CountInv'
  BY <1>1, <1>2, <1>3, CallKeeps DEF Searching
<1>5. /\ pc' = l /\ arg' = k /\ freed' = {}
      /\ t' = t /\ key' = key /\ value' = value /\ heap' = heap /\ count' = count /\ pair' = pair
  BY <1>1 DEF Call, fields
<1>6. MapInv'
  <2>1. MapOn(heap)'
    BY <1>2, <1>3, <1>5 DEF MapOn
  <2> QED BY <1>5, <2>1 DEF MapInv, Removing, Leaving
<1>7. ResultInv'
  <2>1. CASE Lookup(k)
    <3>1. l = "lookup" /\ wantRet' = IF k \in DOMAIN want THEN want[k] ELSE "false"
      BY <1>5, <2>1 DEF Lookup, Call
    <3> QED BY <1>3, <1>5, <3>1 DEF ResultInv, Removing, Leaving
  <2>2. CASE Exists(k)
    <3>1. l = "exists" /\ wantRet' = IF k \in DOMAIN want THEN "true" ELSE "false"
      BY <1>5, <2>2 DEF Exists, Call
    <3> QED BY <1>3, <1>5, <3>1 DEF ResultInv, Removing, Leaving
  <2> QED BY <2>1, <2>2
<1>8. PairInv'
  BY <1>2, <1>3, <1>5 DEF PairInv, PairRefers, Removing, Leaving
<1> QED BY <1>4, <1>6, <1>7, <1>8 DEF IndInv

-----------------------------------------------------------------------------
\* The stack after a push.
LEMMA PushFits ==
  ASSUME stack \in Seq(heap), heap \in SUBSET Node, NEW n \in heap, Len(stack) <= stack_size,
         stack_size \in Nat \ {0}, Push(n)
  PROVE  /\ stack' \in Seq(heap) /\ stack' \in Seq(Node) /\ stack' = Append(stack, n)
         /\ stack_size' \in Nat \ {0} /\ Len(stack') <= stack_size'
         /\ Len(stack') = Len(stack) + 1 /\ stack'[Len(stack')] = n /\ stack' # <<>>
         /\ \A i \in 1..Len(stack) : stack'[i] = stack[i]
<1>1. stack' = Append(stack, n) /\ stack_size' = Grown(Len(stack), stack_size) /\ Len(stack) \in Nat
  BY DEF Push
<1>2. /\ stack' \in Seq(heap) /\ Len(stack') = Len(stack) + 1 /\ stack'[Len(stack')] = n /\ stack' # <<>>
      /\ \A i \in 1..Len(stack) : stack'[i] = stack[i]
  BY <1>1
<1>3. stack' \in Seq(Node)
  BY <1>2
<1> QED BY <1>1, <1>2, <1>3, GrownFits

\* The search goes down to the child of node on the side of arg.
LEMMA GoesDown ==
  ASSUME IndInv, pc \in Searching, node \in heap, key[node] # arg, NEW c, c = Side(node, arg)
  PROVE  /\ c \in heap \cup {NULL} /\ c \in Place /\ c \in Kids(t, node)
         /\ Apart(heap, Subs(t)[c], key, arg)
<1>1. /\ Types /\ t \in TreeType /\ Sound(t, heap, key, {}, Weight(t.black, NULL, NULL))
  BY Steady
<1>2. key \in [Node -> Int] /\ arg \in Int /\ heap \in SUBSET Node /\ key[node] \in Int
  BY <1>1, KeyNumbers DEF Types
<1>3. c = IF arg < key[node] THEN t.left[node] ELSE t.right[node]
  BY DEF Side
<1>4. c \in Kids(t, node) /\ c \in Place
  BY <1>1, <1>2, <1>3, FieldTypes DEF Kids, Children
<1>5. c \in heap \cup {NULL}
  BY <1>1, <1>2, <1>4, TreeFacts
<1>6. Apart(heap, Subs(t)[node], key, arg)
  BY DEF IndInv, SearchInv
<1>7. Subs(t) \in Subtrees /\ Shape(t.left, t.right, Subs(t)) /\ Order(t.left, t.right, Subs(t), key, {})
  BY <1>1 DEF Sound, Tree
<1>8. t.left \in Children /\ t.right \in Children
  BY <1>1, FieldTypes
<1>9. Apart(heap, Subs(t)[c], key, arg)
  BY <1>2, <1>3, <1>6, <1>7, <1>8, ApartDown
<1> QED BY <1>4, <1>5, <1>9

\* A step that leaves the tree as it is.
LEMMA SteadySame ==
  ASSUME IndInv, pc \in Searching \cup {"find_max"}, pc' \in Searching \cup {"find_max"}, t' = t, key' = key, heap' = heap
  PROVE  /\ SoundInv' /\ UniqueInv' /\ RedInv' /\ VictimInv' /\ GapInv' /\ Subs(t)' = Subs(t)
<1>1. /\ Sound(t, heap, key, {}, Weight(t.black, NULL, NULL))
      /\ Unique(key, heap) /\ Red(t, {}, NULL) /\ (t.root # NULL => t.black[t.root])
  BY Steady
<1>2. Subs(t)' = Subs(t)
  BY DEF Subs
<1> QED BY <1>1, <1>2, StillSteady

\* _rbtree_insert_child goes down one level.
LEMMA InsertDownKeeps ==
  ASSUME IndInv, InsertDown
  PROVE  IndInv'
<1> USE DEF InsertDown, fields, args, hist, lookedup
<1>1. Types /\ pc \in Searching /\ pc = "insert" /\ t \in TreeType
  BY Steady DEF Searching
<1>2. /\ node \in heap /\ heap \in SUBSET Node /\ stack \in Seq(heap) /\ stack_size \in Nat \ {0}
      /\ Len(stack) <= stack_size /\ IsPath(t, Append(stack, node)) /\ node # NULL
  BY <1>1, Nodes DEF IndInv, SearchInv, StackInv, Types
<1>3. /\ node' \in heap /\ node' \in Kids(t, node) /\ Apart(heap, Subs(t)[node'], key, arg)
      /\ node' \in Place /\ node' # NULL
  BY <1>1, <1>2, GoesDown
<1>4. Types'
  BY <1>1, <1>3 DEF Types
<1>5. /\ SoundInv' /\ UniqueInv' /\ RedInv' /\ VictimInv' /\ GapInv' /\ Subs(t)' = Subs(t)
  BY <1>1, SteadySame
<1>6. StackInv'
  <2>1. /\ stack' \in Seq(heap) /\ stack' \in Seq(Node) /\ stack' = Append(stack, node)
        /\ stack_size' \in Nat \ {0} /\ Len(stack') <= stack_size'
        /\ Len(stack') = Len(stack) + 1 /\ stack'[Len(stack')] = node /\ stack' # <<>>
    BY <1>2, PushFits
  <2>2. IsPath(t, stack')
    BY <1>2, <2>1
  <2>3. IsPath(t, Append(stack', node'))
    BY <1>3, <2>1, <2>2, PathAppend
  <2> QED BY <1>1, <2>1, <2>2, <2>3 DEF StackInv, Filling
<1>7. SearchInv' /\ MaxInv'
  BY <1>1, <1>3, <1>5 DEF SearchInv, MaxInv
<1>8. CountInv' /\ PairInv'
  BY <1>1 DEF IndInv, CountInv, PairInv, PairRefers, Removing, Leaving
<1>9. MapInv'
  <2>1. Others' = Others
    BY DEF Others
  <2>2. InsertInv
    BY <1>1 DEF IndInv, MapInv
  <2>3. count # SIZE_MAX
    BY <1>1, TreeAssumption DEF CanCount, Types
  <2>4. InsertInv'
    BY <2>1, <2>2, <2>3 DEF InsertInv, MapOn
  <2> QED BY <1>1, <2>4 DEF MapInv, Removing, Leaving
<1>10. ResultInv'
  BY <1>1 DEF ResultInv, Removing, Leaving
<1> QED BY <1>4, <1>5, <1>6, <1>7, <1>8, <1>9, <1>10 DEF IndInv

\* _rbtree_find_node goes down one level.
LEMMA FindDownKeeps ==
  ASSUME IndInv, FindDown
  PROVE  IndInv'
<1> USE DEF FindDown, fields, args, hist, lookedup
<1>1. Types /\ pc \in Searching /\ pc \in {"find", "lookup", "exists"} /\ t \in TreeType /\ pc' = pc
  BY Steady DEF Searching
<1>2. /\ node \in heap /\ heap \in SUBSET Node /\ stack \in Seq(heap) /\ stack_size \in Nat \ {0}
      /\ Len(stack) <= stack_size /\ node # NULL
      /\ pc = "find" => IsPath(t, Append(stack, node))
      /\ pc # "find" => stack = <<>>
  BY <1>1, Nodes DEF IndInv, SearchInv, StackInv, Types
<1>3. /\ node' \in heap \cup {NULL} /\ node' \in Kids(t, node) /\ Apart(heap, Subs(t)[node'], key, arg)
      /\ node' \in Place
  BY <1>1, <1>2, GoesDown
<1>4. Types'
  BY <1>1, <1>3 DEF Types
<1>5. /\ SoundInv' /\ UniqueInv' /\ RedInv' /\ VictimInv' /\ GapInv' /\ Subs(t)' = Subs(t)
  BY <1>1, SteadySame
<1>6. StackInv'
  <2>1. CASE pc = "find"
    <3>1. /\ stack' \in Seq(heap) /\ stack' \in Seq(Node) /\ stack' = Append(stack, node)
          /\ stack_size' \in Nat \ {0} /\ Len(stack') <= stack_size'
          /\ Len(stack') = Len(stack) + 1 /\ stack'[Len(stack')] = node /\ stack' # <<>>
      BY <1>2, <2>1, PushFits
    <3>2. IsPath(t, stack')
      BY <1>2, <2>1, <3>1
    <3>3. IsPath(t, Append(stack', node'))
      BY <1>3, <3>1, <3>2, PathAppend
    <3> QED BY <1>1, <2>1, <3>1, <3>2, <3>3 DEF StackInv, Filling
  <2>2. CASE pc # "find"
    BY <1>1, <1>2, <2>2 DEF IndInv, StackInv, Filling, IsPath
  <2> QED BY <2>1, <2>2
<1>7. SearchInv' /\ MaxInv'
  BY <1>1, <1>3, <1>5 DEF SearchInv, MaxInv
<1>8. CountInv' /\ PairInv'
  BY <1>1 DEF IndInv, CountInv, PairInv, PairRefers, Removing, Leaving
<1>9. MapInv' /\ ResultInv'
  <2>1. Others' = Others
    BY DEF Others
  <2>2. MapInv'
    BY <1>1, <2>1 DEF IndInv, MapInv, MapOn, Removing, Leaving
  <2>3. FindInv' <=> FindInv
    BY <2>1 DEF FindInv
  <2>4. ResultInv'
    BY <1>1, <2>3 DEF IndInv, ResultInv
  <2> QED BY <2>2, <2>4
<1> QED BY <1>4, <1>5, <1>6, <1>7, <1>8, <1>9 DEF IndInv

\* rbtree_remove has found the node of the key.
LEMMA RemoveFoundKeeps ==
  ASSUME IndInv, RemoveFound
  PROVE  IndInv'
<1> USE DEF RemoveFound, fields, args, hist, lookedup, MaxStart
<1>1. /\ Types /\ pc \in Searching /\ pc = "find" /\ t \in TreeType
      /\ Sound(t, heap, key, {}, Weight(t.black, NULL, NULL)) /\ Cardinality(heap) = count
      /\ Unique(key, heap) /\ Red(t, {}, NULL) /\ (t.root # NULL => t.black[t.root]) /\ PairRefers
  BY Steady DEF Searching
<1>2. /\ node \in heap /\ heap \in SUBSET Node /\ stack \in Seq(heap) /\ stack_size \in Nat \ {0}
      /\ Len(stack) <= stack_size /\ node # NULL /\ IsPath(t, Append(stack, node))
      /\ Apart(heap, Subs(t)[node], key, arg)
  BY <1>1, Nodes DEF IndInv, SearchInv, StackInv, Types
<1>3. /\ stack' \in Seq(heap) /\ stack' \in Seq(Node) /\ stack' = Append(stack, node)
      /\ stack_size' \in Nat \ {0} /\ Len(stack') <= stack_size'
      /\ Len(stack') = Len(stack) + 1 /\ stack'[Len(stack')] = node /\ stack' # <<>>
      /\ Len(stack) \in Nat
  BY <1>2, PushFits
<1>4. IsPath(t, stack')
  BY <1>2, <1>3
<1>5. count' \in 0..SIZE_MAX /\ count = count' + 1
  <2>1. IsFiniteSet(heap) /\ count # 0
    BY <1>1, <1>2, Nodes, FS_Subset, FS_EmptySet
  <2>2. count \in 0..SIZE_MAX
    BY <1>1 DEF Types
  <2> QED BY <2>1, <2>2, TreeAssumption
<1>6. wantRet = "true" /\ freed' = wantFreed /\ MapOn(Others)
  <2>1. Others # heap
    BY <1>2 DEF Others
  <2>2. \E x \in heap : key[x] = arg /\ wantRet = "true" /\ wantFreed = {FreedKey(arg), FreedValue(arg, value[x])}
    BY <1>1, <2>1 DEF IndInv, ResultInv, FindInv
  <2>3. MapOn(Others)
    BY <1>1 DEF IndInv, MapInv
  <2> QED BY <1>1, <1>2, <2>2, <2>3 DEF Unique
<1>7. Others' = Others /\ Others = heap \ {node}
  BY <1>1, <1>2 DEF Others, Unique
<1>8. found # NULL => found # arg /\ (found > arg \/ \E n \in heap : found < key[n] /\ key[n] < arg)
  BY <1>1, <1>2 DEF IndInv, PairInv
<1>9. PairRefers' /\ (found # NULL => pair # node)
  BY <1>1, <1>8 DEF PairRefers
<1>10. CASE t.left[node] # NULL /\ t.right[node] # NULL
  <2>1. pc' = "find_max" /\ node' = t.left[node]
    BY <1>10
  <2>2. node' \in heap /\ node' \in Kids(t, node) /\ node' \in Subs(t)[t.left[node]] /\ node' \in Place
    BY <1>1, <1>2, <1>10, <2>1, TreeFacts, Nodes DEF Kids
  <2>3. Types'
    BY <1>1, <1>5, <2>1, <2>2 DEF Types, Searching
  <2>4. /\ SoundInv' /\ UniqueInv' /\ RedInv' /\ VictimInv' /\ GapInv' /\ Subs(t)' = Subs(t)
    BY <1>1, <2>1, SteadySame
  <2>5. StackInv'
    <3>1. IsPath(t, Append(stack', node'))
      BY <1>3, <1>4, <2>2, PathAppend
    <3> QED BY <1>3, <1>4, <2>1, <3>1 DEF StackInv, Filling
  <2>6. MaxInv'
    <3>1. \E i \in 1..Len(stack') : stack'[i] = node
      BY <1>3
    <3>2. ASSUME NEW n \in heap \ Subs(t)[t.left[node]]
          PROVE  key[n] >= arg \/ \A m \in Subs(t)[t.left[node]] : key[n] < key[m]
      <4>1. /\ Subs(t)[node] = {node} \cup Subs(t)[t.left[node]] \cup Subs(t)[t.right[node]]
            /\ \A m \in Subs(t)[t.right[node]] : key[m] > key[node]
        BY <1>1, <1>2 DEF Sound, Tree, Shape, Unfolds, Order
      <4>2. key[n] \in Int /\ arg \in Int
        BY <1>1, KeyNumbers DEF Types
      <4>3. CASE n \in Subs(t)[node]
        BY <3>2, <4>1, <4>2, <4>3
      <4>4. CASE n \notin Subs(t)[node]
        BY <1>2, <4>1, <4>2, <4>4 DEF Apart
      <4> QED BY <4>3, <4>4
    <3> QED BY <1>2, <2>1, <2>2, <2>4, <3>1, <3>2 DEF MaxInv
  <2>7. SearchInv' /\ CountInv'
    BY <1>1, <1>5, <2>1 DEF SearchInv, Searching, CountInv
  <2>8. MapInv'
    BY <1>6, <1>7, <2>1 DEF MapInv, MapOn, Removing, Leaving
  <2>9. ResultInv'
    BY <1>6, <2>1 DEF ResultInv
  <2>10. PairInv'
    BY <1>8, <1>9, <2>1 DEF PairInv, Removing, Leaving
  <2> QED BY <2>3, <2>4, <2>5, <2>6, <2>7, <2>8, <2>9, <2>10 DEF IndInv
<1>11. CASE ~(t.left[node] # NULL /\ t.right[node] # NULL)
  <2>1. pc' = "found" /\ node' = node
    BY <1>11
  <2>2. ~(pc' \in Leaving) /\ ~(pc' \in Filling) /\ pc' \in Removing /\ ~(pc' \in Searching)
    BY <2>1 DEF Leaving, Filling, Removing, Searching
  <2>3. Types'
    BY <1>1, <1>5, <2>1, <2>2 DEF Types
  <2>4. Gone' = {node} /\ Victim' = NULL /\ Gap' = NULL /\ MayBeRed' = {}
    BY <2>1, <2>2 DEF Gone, Victim, Gap, MayBeRed
  <2>5. SoundInv' /\ UniqueInv' /\ RedInv'
    <3>1. Sound(t, heap, key, {node}, Weight(t.black, NULL, NULL))
      BY <1>1 DEF Sound, Order
    <3>2. Unique(key, heap \ {node})
      BY <1>1 DEF Unique
    <3> QED BY <1>1, <2>4, <3>1, <3>2 DEF SoundInv, UniqueInv, RedInv
  <2>6. StackInv'
    <3>1. At(0)' = node
      BY <1>3 DEF At
    <3> QED BY <1>3, <1>4, <2>1, <2>2, <3>1 DEF StackInv
  <2>7. VictimInv' /\ GapInv' /\ SearchInv' /\ MaxInv'
    BY <1>2, <1>11, <2>1, <2>2 DEF VictimInv, GapInv, SearchInv, MaxInv
  <2>8. CountInv'
    BY <1>1, <1>5, <2>2 DEF CountInv
  <2>9. MapInv'
    BY <1>6, <1>7, <2>1 DEF MapInv, MapOn, Removing, Leaving
  <2>10. ResultInv'
    BY <1>6, <2>1 DEF ResultInv
  <2>11. PairInv'
    BY <1>9, <2>1 DEF PairInv
  <2> QED BY <2>3, <2>5, <2>6, <2>7, <2>8, <2>9, <2>10, <2>11 DEF IndInv
<1> QED BY <1>10, <1>11

\* What is known while the largest node is searched.
LEMMA AtMax ==
  ASSUME IndInv, pc = "find_max"
  PROVE  /\ Types /\ t \in TreeType /\ node \in heap /\ heap \in SUBSET Node /\ node # NULL
         /\ Sound(t, heap, key, {}, Weight(t.black, NULL, NULL)) /\ Unique(key, heap)
         /\ Red(t, {}, NULL) /\ (t.root # NULL => t.black[t.root]) /\ PairRefers
         /\ stack \in Seq(heap) /\ stack_size \in Nat \ {0} /\ Len(stack) <= stack_size
         /\ IsPath(t, Append(stack, node)) /\ Len(stack) \in Nat
         /\ \E x \in heap : /\ key[x] = arg /\ node \in Subs(t)[t.left[x]]
                            /\ \E i \in 1..Len(stack) : stack[i] = x
         /\ \A n \in heap \ Subs(t)[node] : key[n] >= arg \/ \A m \in Subs(t)[node] : key[n] < key[m]
         /\ Subs(t)[node] = {node} \cup Subs(t)[t.left[node]] \cup Subs(t)[t.right[node]]
         /\ \A m \in Subs(t)[t.left[node]] : key[m] < key[node]
         /\ \A m \in Subs(t)[t.right[node]] : key[m] > key[node]
         /\ \A n \in heap : key[n] \in Int
         /\ arg \in Int
<1>1. /\ Types /\ t \in TreeType /\ Sound(t, heap, key, {}, Weight(t.black, NULL, NULL))
      /\ Unique(key, heap) /\ Red(t, {}, NULL) /\ (t.root # NULL => t.black[t.root]) /\ PairRefers
  BY Steady
<1>2. heap \in SUBSET Node /\ arg \in Keys \cup {0} /\ \A n \in heap : key[n] \in Int
  BY <1>1, KeyNumbers DEF Types
<1>3. /\ node \in heap
      /\ \E x \in heap : /\ key[x] = arg /\ node \in Subs(t)[t.left[x]]
                         /\ \E i \in 1..Len(stack) : stack[i] = x
      /\ \A n \in heap \ Subs(t)[node] : key[n] >= arg \/ \A m \in Subs(t)[node] : key[n] < key[m]
  BY DEF IndInv, MaxInv
<1>4. node # NULL /\ node \in Node
  BY <1>2, <1>3, Nodes
<1>5. /\ stack \in Seq(heap) /\ stack_size \in Nat \ {0} /\ Len(stack) <= stack_size
      /\ IsPath(t, Append(stack, node))
  BY <1>4 DEF IndInv, StackInv
<1>6. /\ Subs(t)[node] = {node} \cup Subs(t)[t.left[node]] \cup Subs(t)[t.right[node]]
      /\ \A m \in Subs(t)[t.left[node]] : key[m] < key[node]
      /\ \A m \in Subs(t)[t.right[node]] : key[m] > key[node]
  BY <1>1, <1>4 DEF Sound, Tree, Shape, Unfolds, Order
<1> QED BY <1>1, <1>2, <1>3, <1>4, <1>5, <1>6, KeyNumbers

\* _rbtree_find_max_node goes right.
LEMMA MaxDownKeeps ==
  ASSUME IndInv, MaxDown
  PROVE  IndInv'
<1> USE DEF MaxDown, fields, args, hist, lookedup
<1>1. pc = "find_max" /\ Types /\ t \in TreeType
  BY AtMax
<1>2. /\ node \in heap /\ heap \in SUBSET Node /\ stack \in Seq(heap) /\ stack_size \in Nat \ {0}
      /\ Len(stack) <= stack_size /\ node # NULL /\ IsPath(t, Append(stack, node))
      /\ Sound(t, heap, key, {}, Weight(t.black, NULL, NULL))
  BY <1>1, AtMax
<1>3. /\ stack' \in Seq(heap) /\ stack' \in Seq(Node) /\ stack' = Append(stack, node)
      /\ stack_size' \in Nat \ {0} /\ Len(stack') <= stack_size'
      /\ Len(stack') = Len(stack) + 1 /\ stack'[Len(stack')] = node /\ stack' # <<>>
      /\ Len(stack) \in Nat /\ \A i \in 1..Len(stack) : stack'[i] = stack[i]
  BY <1>2, PushFits
<1>4. node' \in heap /\ node' \in Kids(t, node) /\ node' \in Place /\ node' = t.right[node]
  BY <1>1, <1>2, FieldTypes, TreeFacts DEF Kids, Children
<1>5. Types'
  BY <1>1, <1>4 DEF Types
<1>6. /\ SoundInv' /\ UniqueInv' /\ RedInv' /\ VictimInv' /\ GapInv' /\ Subs(t)' = Subs(t)
  BY <1>1, SteadySame
<1>7. StackInv'
  <2>1. IsPath(t, stack')
    BY <1>2, <1>3
  <2>2. IsPath(t, Append(stack', node'))
    BY <1>3, <1>4, <2>1, PathAppend
  <2> QED BY <1>1, <1>3, <2>1, <2>2 DEF StackInv, Filling
<1>8. MaxInv'
  <2>1. PICK x \in heap : /\ key[x] = arg /\ node \in Subs(t)[t.left[x]]
                          /\ \E i \in 1..Len(stack) : stack[i] = x
    BY <1>1, AtMax
  <2>2. \E i \in 1..Len(stack') : stack'[i] = x
    BY <1>3, <2>1
  <2>3. node' \in Subs(t)[node] /\ Subs(t)[node'] \subseteq Subs(t)[node]
    BY <1>1, <1>2, <1>4, TreeFacts
  <2>4. node' \in Subs(t)[t.left[x]]
    <3>1. t.left[x] \in Place
      BY <1>1, <1>2, <2>1, FieldTypes DEF Children
    <3>2. Subs(t)[node] \subseteq Subs(t)[t.left[x]]
      BY <1>1, <1>2, <2>1, <3>1, TreeFacts
    <3> QED BY <2>3, <3>2
  <2>5. ASSUME NEW n \in heap \ Subs(t)[node']
        PROVE  key[n] >= arg \/ \A m \in Subs(t)[node'] : key[n] < key[m]
    <3>1. /\ \A j \in heap \ Subs(t)[node] : key[j] >= arg \/ \A m \in Subs(t)[node] : key[j] < key[m]
          /\ Subs(t)[node] = {node} \cup Subs(t)[t.left[node]] \cup Subs(t)[t.right[node]]
          /\ \A m \in Subs(t)[t.left[node]] : key[m] < key[node]
          /\ \A m \in Subs(t)[t.right[node]] : key[m] > key[node]
          /\ \A j \in heap : key[j] \in Int
      BY <1>1, AtMax
    <3>2. CASE n \notin Subs(t)[node]
      BY <2>3, <3>1, <3>2
    <3>3. CASE n \in Subs(t)[node]
      <4>1. key[n] <= key[node] /\ key[n] \in Int /\ key[node] \in Int
        BY <1>2, <1>4, <2>5, <3>1, <3>3
      <4>2. \A m \in Subs(t)[node'] : key[m] \in Int /\ key[m] > key[node]
        BY <1>1, <1>2, <1>4, <3>1, TreeFacts
      <4> QED BY <4>1, <4>2
    <3> QED BY <3>2, <3>3
  <2> QED BY <1>4, <1>6, <2>1, <2>2, <2>4, <2>5 DEF MaxInv
<1>9. SearchInv' /\ CountInv' /\ ResultInv' /\ PairInv'
  BY <1>1 DEF IndInv, SearchInv, Searching, CountInv, ResultInv, PairInv, PairRefers, Removing, Leaving
<1>10. MapInv'
  <2>1. Others' = Others
    BY DEF Others
  <2> QED BY <1>1, <2>1 DEF IndInv, MapInv, MapOn, Removing, Leaving
<1> QED BY <1>5, <1>6, <1>7, <1>8, <1>9, <1>10 DEF IndInv

\* The next smaller key can take the place of a key.
LEMMA MovedOrder ==
  ASSUME NEW s \in TreeType, NEW A \in SUBSET Node, NEW k \in [Node -> Int], NEW w, Sound(s, A, k, {}, w),
         NEW x \in A, NEW y \in A, k[y] < k[x],
         \A n \in A \ {x, y} : k[n] > k[x] \/ k[n] < k[y],
         NEW k2, k2 = [k EXCEPT ![x] = k[y]]
  PROVE  Sound(s, A, k2, {y}, w)
<1> DEFINE sub == Subs(s)
<1>1. /\ Order(s.left, s.right, sub, k, {}) /\ sub \in Subtrees
      /\ Tree(s.left, s.right, s.root, A, sub)
  BY DEF Sound
<1>2. \A n \in Node : /\ s.left[n] # NULL \/ s.right[n] # NULL => n \in A
                      /\ sub[s.left[n]] \subseteq A /\ sub[s.right[n]] \subseteq A
  <2>1. s.left \in Children /\ s.right \in Children
    BY FieldTypes
  <2>2. sub[NULL] = {}
    BY <1>1 DEF Tree, Shape, Unfolds
  <2>3. /\ \A n \in Node : s.left[n] # NULL \/ s.right[n] # NULL => n \in A
        /\ \A n \in Node : s.left[n] \in A \cup {NULL} /\ s.right[n] \in A \cup {NULL}
        /\ \A n \in A : sub[n] \subseteq A
    BY <1>1, <2>1, InTree
  <2> QED BY <2>2, <2>3
<1>3. \A n \in Node : k2[n] = IF n = x THEN k[y] ELSE k[n]
  OBVIOUS
<1>4. ASSUME NEW n \in Node \ {y}, NEW m \in sub[s.left[n]] \ {y}
      PROVE  k2[m] < k2[n]
  <2>1. m \in A /\ k[m] < k[n] /\ k[m] \in Int /\ k[n] \in Int /\ k[x] \in Int /\ k[y] \in Int
    BY <1>1, <1>2, <1>4 DEF Order
  <2> QED BY <1>3, <1>4, <2>1
<1>5. ASSUME NEW n \in Node \ {y}, NEW m \in sub[s.right[n]] \ {y}
      PROVE  k2[m] > k2[n]
  <2>1. m \in A /\ k[m] > k[n] /\ k[m] \in Int /\ k[n] \in Int /\ k[x] \in Int /\ k[y] \in Int
    BY <1>1, <1>2, <1>5 DEF Order
  <2>2. n \in A
    <3>1. sub[NULL] = {}
      BY <1>1 DEF Tree, Shape, Unfolds
    <3> QED BY <1>2, <1>5, <3>1
  <2> QED BY <1>3, <1>5, <2>1, <2>2
<1>6. Order(s.left, s.right, sub, k2, {y})
  BY <1>4, <1>5 DEF Order
<1> QED BY <1>1, <1>6 DEF Sound

\* _rbtree_find_max_node ends: the largest node gives its key and value away and
\* is the victim from now on.
LEMMA MaxFoundKeeps ==
  ASSUME IndInv, MaxFound
  PROVE  IndInv'
<1> USE DEF MaxFound, fields, args, hist, lookedup, MoveMax
<1>1. pc = "find_max" /\ Types /\ t \in TreeType /\ pc' = "found" /\ node' = node
  BY AtMax
<1>2. /\ node \in heap /\ heap \in SUBSET Node /\ stack \in Seq(heap) /\ stack_size \in Nat \ {0}
      /\ Len(stack) <= stack_size /\ node # NULL /\ IsPath(t, Append(stack, node))
      /\ Sound(t, heap, key, {}, Weight(t.black, NULL, NULL)) /\ Unique(key, heap)
      /\ Red(t, {}, NULL) /\ (t.root # NULL => t.black[t.root]) /\ PairRefers
  BY <1>1, AtMax
<1>3. /\ stack' \in Seq(heap) /\ stack' \in Seq(Node) /\ stack' = Append(stack, node)
      /\ stack_size' \in Nat \ {0} /\ Len(stack') <= stack_size'
      /\ Len(stack') = Len(stack) + 1 /\ stack'[Len(stack')] = node /\ stack' # <<>>
      /\ Len(stack) \in Nat /\ \A i \in 1..Len(stack) : stack'[i] = stack[i]
  BY <1>2, PushFits
<1>4. PICK x \in heap : /\ key[x] = arg /\ node \in Subs(t)[t.left[x]]
                        /\ \E i \in 1..Len(stack) : stack[i] = x
  BY <1>1, AtMax
<1>5. Target = x
  <2>1. \A n \in {stack[i] : i \in 1..Len(stack)} : n \in heap
    BY <1>2
  <2>2. x \in {stack[i] : i \in 1..Len(stack)}
    BY <1>4
  <2>3. \A n \in {stack[i] : i \in 1..Len(stack)} : key[n] = arg => n = x
    BY <1>2, <1>4, <2>1 DEF Unique
  <2> QED BY <1>4, <2>2, <2>3 DEF Target
<1>6. /\ key[node] < arg /\ \A n \in heap : key[n] \in Int
      /\ key \in [Node -> Int] /\ arg \in Int /\ x # node
  <2>1. key[node] < key[x]
    BY <1>2, <1>4 DEF Sound, Order
  <2>2. /\ \A n \in heap : key[n] \in Int
        /\ key \in [Node -> Int]
    BY <1>1, KeyNumbers, AtMax
  <2> QED BY <1>2, <1>4, <2>1, <2>2
<1>7. \A n \in heap \ {x, node} : key[n] > arg \/ key[n] < key[node]
  <2>1. TAKE n \in heap \ {x, node}
  <2>2. /\ \A j \in heap \ Subs(t)[node] : key[j] >= arg \/ \A m \in Subs(t)[node] : key[j] < key[m]
        /\ Subs(t)[node] = {node} \cup Subs(t)[t.left[node]] \cup Subs(t)[t.right[node]]
        /\ \A m \in Subs(t)[t.left[node]] : key[m] < key[node]
    BY <1>1, AtMax
  <2>3. Subs(t)[t.right[node]] = {}
    BY <1>2 DEF Sound, Tree, Shape, Unfolds
  <2>4. key[n] # arg
    BY <1>2, <1>4, <2>1 DEF Unique
  <2>5. CASE n \in Subs(t)[node]
    BY <2>1, <2>2, <2>3, <2>5
  <2>6. CASE n \notin Subs(t)[node]
    BY <1>2, <1>4, <1>6, <2>1, <2>2, <2>4, <2>6
  <2> QED BY <2>5, <2>6
<1>8. key' = [key EXCEPT ![x] = key[node]] /\ value' = [value EXCEPT ![x] = value[node]]
  BY <1>5
<1>9. /\ \A n \in Node : key'[n] = IF n = x THEN key[node] ELSE key[n]
      /\ \A n \in Node : value'[n] = IF n = x THEN value[node] ELSE value[n]
      /\ key' \in [Node -> Keys \cup {0}] /\ value' \in [Node -> Values \cup {NULL}]
      /\ \A n \in heap : key'[n] \in Keys
  <2>1. /\ key \in [Node -> Keys \cup {0}] /\ \A n \in heap : key[n] \in Keys
        /\ value \in [Node -> Values \cup {NULL}]
    BY <1>1 DEF Types
  <2>2. x \in Node /\ node \in Node
    BY <1>2, <1>4
  <2>3. /\ \A n \in Node : key'[n] = IF n = x THEN key[node] ELSE key[n]
        /\ \A n \in Node : value'[n] = IF n = x THEN value[node] ELSE value[n]
    BY <1>8, <2>1, <2>2
  <2>4. key' \in [Node -> Keys \cup {0}] /\ value' \in [Node -> Values \cup {NULL}]
    BY ONLY <1>8, <2>1, <2>2
  <2> QED BY <1>2, <2>1, <2>3, <2>4
<1>10. Types'
  BY <1>1, <1>9 DEF Types, Removing, Searching
<1>11. ~(pc' \in Leaving) /\ ~(pc' \in Filling) /\ pc' \in Removing /\ ~(pc' \in Searching)
  BY <1>1 DEF Leaving, Filling, Removing, Searching
<1>12. Gone' = {node} /\ Victim' = NULL /\ Gap' = NULL /\ MayBeRed' = {}
  BY <1>1, <1>11 DEF Gone, Victim, Gap, MayBeRed
<1>13. SoundInv' /\ UniqueInv' /\ RedInv'
  <2>1. Sound(t, heap, key', {node}, Weight(t.black, NULL, NULL))
    BY <1>1, <1>2, <1>4, <1>6, <1>7, <1>8, MovedOrder
  <2>2. Unique(key', heap \ {node})
    BY <1>2, <1>9 DEF Unique
  <2> QED BY <1>2, <1>12, <2>1, <2>2 DEF SoundInv, UniqueInv, RedInv
<1>14. StackInv'
  <2>1. At(0)' = node
    BY <1>3 DEF At
  <2> QED BY <1>1, <1>2, <1>3, <1>11, <2>1 DEF StackInv
<1>15. VictimInv' /\ GapInv' /\ SearchInv' /\ MaxInv'
  BY <1>1, <1>2, <1>11 DEF VictimInv, GapInv, SearchInv, MaxInv
<1>16. CountInv' /\ ResultInv'
  BY <1>1, <1>11 DEF IndInv, CountInv, ResultInv
<1>17. MapInv'
  <2>1. Others = heap \ {x}
    BY <1>2, <1>4 DEF Others, Unique
  <2>2. DOMAIN want = {key[n] : n \in heap \ {x}} /\ \A n \in heap \ {x} : want[key[n]] = value[n]
    BY <1>1, <2>1 DEF IndInv, MapInv, MapOn
  <2>3. {key[n] : n \in heap \ {x}} = {key'[n] : n \in heap \ {node}}
    <3>1. \A n \in heap \ {x, node} : key'[n] = key[n]
      BY <1>2, <1>9
    <3>2. key'[x] = key[node] /\ node \in heap \ {x} /\ x \in heap \ {node}
      BY <1>2, <1>4, <1>6, <1>9
    <3> QED BY <3>1, <3>2
  <2>4. \A n \in heap \ {node} : want[key'[n]] = value'[n]
    BY <1>2, <1>6, <1>9, <2>2
  <2>5. MapOn(heap \ {node})'
    BY <1>1, <2>2, <2>3, <2>4 DEF MapOn
  <2> QED BY <1>1, <2>5 DEF MapInv
<1>18. PairInv'
  <2>1. ASSUME found # NULL
        PROVE  pair \in heap /\ key'[pair] = found /\ pair # node
    <3>1. pair \in heap /\ key[pair] = found
      BY <1>2, <2>1 DEF PairRefers
    <3>2. found # arg /\ (found > arg \/ \E n \in heap : found < key[n] /\ key[n] < arg)
      BY <1>1, <1>4, <2>1 DEF IndInv, PairInv
    <3>3. ASSUME pair = node PROVE FALSE
      <4>1. PICK n \in heap : found < key[n] /\ key[n] < arg
        BY <1>6, <3>1, <3>2, <3>3
      <4>2. n # x /\ n # node /\ key[n] \in Int /\ key[node] \in Int
        BY <1>2, <1>4, <1>6, <3>1, <3>3, <4>1
      <4> QED BY <1>6, <1>7, <3>1, <3>3, <4>1, <4>2
    <3> QED BY <1>2, <1>4, <1>9, <3>1, <3>2, <3>3
  <2> QED BY <1>1, <2>1 DEF PairInv, PairRefers
<1> QED BY <1>10, <1>13, <1>14, <1>15, <1>16, <1>17, <1>18 DEF IndInv

\* A leaf on the right side keeps the order, too.
LEMMA MirroredLeafOrder ==
  ASSUME NEW L \in Children, NEW R \in Children, NEW sub \in Subtrees, NEW r, NEW A,
         Tree(L, R, r, A, sub), NEW R2, NEW p \in A, NEW n \in Node \ A, Adds(R, R2, p, n),
         NEW k \in [Node -> Int], Order(L, R, sub, k, {}), NEW x \in Int, x > k[p],
         Apart(A, sub[p], k, x), NEW k2, k2 = [k EXCEPT ![n] = x]
  PROVE  Order(L, R2, WithLeaf(sub, p, n), k2, {})
<1> DEFINE j  == [m \in Node |-> -k[m]]
           j2 == [j EXCEPT ![n] = -x]
           s2 == WithLeaf(sub, p, n)
<1>1. Tree(R, L, r, A, sub) /\ Order(R, L, sub, j, {}) /\ j \in [Node -> Int]
  BY Mirrored
<1>2. A \in SUBSET Node /\ sub[p] \in SUBSET Node
  BY InTree DEF Subtrees, Place
<1>3. -x < j[p] /\ Apart(A, sub[p], j, -x)
  <2>1. -x < j[p]
    BY <1>2
  <2>2. ASSUME NEW m \in A \ sub[p]
        PROVE  \/ j[m] < -x /\ \A q \in sub[p] : j[m] < j[q]
               \/ j[m] > -x /\ \A q \in sub[p] : j[m] > j[q]
    <3>1. j[m] = -k[m] /\ k[m] \in Int /\ \A q \in sub[p] : j[q] = -k[q] /\ k[q] \in Int
      BY <1>2
    <3>2. CASE k[m] < x /\ \A q \in sub[p] : k[m] < k[q]
      BY <3>1, <3>2
    <3>3. CASE k[m] > x /\ \A q \in sub[p] : k[m] > k[q]
      BY <3>1, <3>3
    <3> QED BY <3>2, <3>3 DEF Apart
  <2> QED BY <2>1, <2>2 DEF Apart
<1>4. j2 = [m \in Node |-> -k2[m]] /\ k2 \in [Node -> Int] /\ -x \in Int
  <2>1. k2 \in [Node -> Int] /\ -x \in Int /\ \A m \in Node : k2[m] = IF m = n THEN x ELSE k[m]
    OBVIOUS
  <2>2. j2 \in [Node -> Int] /\ \A m \in Node : j2[m] = IF m = n THEN -x ELSE -k[m]
    BY <1>1, <2>1
  <2>3. \A m \in Node : j2[m] = -k2[m]
    BY <2>1, <2>2
  <2> HIDE DEF j2, j
  <2> QED BY <2>1, <2>2, <2>3
<1>5. s2 \in Subtrees
  BY <1>1, LeafValues DEF HasLeaf
<1>6. R2 \in Children
  BY DEF Adds
<1> HIDE DEF j, j2, s2
<1>7. Order(R2, L, s2, j2, {})
  <2>1. PICK y \in Int : y = -x
    BY <1>4
  <2>2. j2 = [j EXCEPT ![n] = y] /\ y < j[p] /\ Apart(A, sub[p], j, y)
    BY <1>3, <2>1 DEF j2
  <2> QED BY <1>1, <2>2, LeafOrder DEF s2
<1>8. PICK k3 \in [Node -> Int] : k3 = k2
  BY <1>4
<1>9. Order(L, R2, s2, k3, {}) <=> Order(R2, L, s2, [m \in Node |-> -k3[m]], {})
  BY <1>5, <1>6, Mirrored, Zenon
<1> QED BY <1>4, <1>7, <1>8, <1>9 DEF s2

\* s2 is s with the red leaf n below p.
Grows(s, s2, p, n) ==
  /\ s2 \in TreeType /\ s2.root = s.root /\ s2.black = [s.black EXCEPT ![n] = FALSE]
  /\ n \in Kids(s2, p) /\ s2.left[n] = NULL /\ s2.right[n] = NULL
  /\ \A m \in Node : /\ Kids(s, m) \ {NULL} \subseteq Kids(s2, m)
                     /\ Kids(s2, m) \subseteq Kids(s, m) \cup IF m = p THEN {n} ELSE {}

LeftLeaf(s, p, n)  == [Create(s, n, FALSE) EXCEPT !.left[p] = n]
RightLeaf(s, p, n) == [Create(s, n, FALSE) EXCEPT !.right[p] = n]

\* The fields of a tree with a leaf on the left side.
LEMMA LeafLeft ==
  ASSUME NEW s \in TreeType, NEW p \in Node, NEW n \in Node, p # n, s.left[n] = NULL, s.right[n] = NULL,
         s.left[p] = NULL, NEW s2, s2 = LeftLeaf(s, p, n)
  PROVE  Grows(s, s2, p, n) /\ Adds(s.left, s2.left, p, n) /\ s2.right = s.right
<1> DEFINE L2 == [s.left EXCEPT ![p] = n]
           b2 == [s.black EXCEPT ![n] = FALSE]
<1>1. /\ s.root \in Place /\ s.left \in Children /\ s.right \in Children
      /\ s.black \in [Node -> BOOLEAN]
  BY FieldTypes
<1>2. [s.left EXCEPT ![n] = NULL] = s.left /\ [s.right EXCEPT ![n] = NULL] = s.right
  BY <1>1 DEF Children
<1>3. Create(s, n, FALSE) = [root |-> s.root, left |-> [s.left EXCEPT ![n] = NULL],
                             right |-> [s.right EXCEPT ![n] = NULL], black |-> [s.black EXCEPT ![n] = FALSE]]
  <2>1. s = [root |-> s.root, left |-> s.left, right |-> s.right, black |-> s.black]
    BY DEF TreeType
  <2>2. Create(s, n, FALSE) = [s EXCEPT !.left = [s.left EXCEPT ![n] = NULL], !.right = [s.right EXCEPT ![n] = NULL],
                                        !.black = [s.black EXCEPT ![n] = FALSE]]
    BY DEF Create, TreeType
  <2> QED BY <2>1, <2>2
<1>4. s2 = [root |-> s.root, left |-> L2, right |-> s.right, black |-> b2]
  <2>1. Create(s, n, FALSE) = [root |-> s.root, left |-> s.left, right |-> s.right, black |-> b2]
    BY <1>2, <1>3
  <2> HIDE DEF b2
  <2>2. s2 = [[root |-> s.root, left |-> s.left, right |-> s.right, black |-> b2] EXCEPT !.left[p] = n]
    BY <2>1 DEF LeftLeaf
  <2> QED BY ONLY <2>2 DEF L2
<1>5. /\ L2 \in Children /\ b2 \in [Node -> BOOLEAN]
      /\ \A m \in Node : L2[m] = IF m = p THEN n ELSE s.left[m]
  BY <1>1, Nodes DEF Children
<1> HIDE DEF L2, b2
<1>6. s2 \in TreeType /\ s2.root = s.root /\ s2.left = L2 /\ s2.right = s.right /\ s2.black = b2
  BY ONLY <1>1, <1>4, <1>5 DEF TreeType
<1> QED BY <1>5, <1>6 DEF Grows, Adds, Kids, b2

\* And on the right side.
LEMMA LeafRight ==
  ASSUME NEW s \in TreeType, NEW p \in Node, NEW n \in Node, p # n, s.left[n] = NULL, s.right[n] = NULL,
         s.right[p] = NULL, NEW s2, s2 = RightLeaf(s, p, n)
  PROVE  Grows(s, s2, p, n) /\ Adds(s.right, s2.right, p, n) /\ s2.left = s.left
<1> DEFINE R2 == [s.right EXCEPT ![p] = n]
           b2 == [s.black EXCEPT ![n] = FALSE]
<1>1. /\ s.root \in Place /\ s.left \in Children /\ s.right \in Children
      /\ s.black \in [Node -> BOOLEAN]
  BY FieldTypes
<1>2. [s.left EXCEPT ![n] = NULL] = s.left /\ [s.right EXCEPT ![n] = NULL] = s.right
  BY <1>1 DEF Children
<1>3. Create(s, n, FALSE) = [root |-> s.root, left |-> [s.left EXCEPT ![n] = NULL],
                             right |-> [s.right EXCEPT ![n] = NULL], black |-> [s.black EXCEPT ![n] = FALSE]]
  <2>1. s = [root |-> s.root, left |-> s.left, right |-> s.right, black |-> s.black]
    BY DEF TreeType
  <2>2. Create(s, n, FALSE) = [s EXCEPT !.left = [s.left EXCEPT ![n] = NULL], !.right = [s.right EXCEPT ![n] = NULL],
                                        !.black = [s.black EXCEPT ![n] = FALSE]]
    BY DEF Create, TreeType
  <2> QED BY <2>1, <2>2
<1>4. s2 = [root |-> s.root, left |-> s.left, right |-> R2, black |-> b2]
  <2>1. Create(s, n, FALSE) = [root |-> s.root, left |-> s.left, right |-> s.right, black |-> b2]
    BY <1>2, <1>3
  <2> HIDE DEF b2
  <2>2. s2 = [[root |-> s.root, left |-> s.left, right |-> s.right, black |-> b2] EXCEPT !.right[p] = n]
    BY <2>1 DEF RightLeaf
  <2> QED BY ONLY <2>2 DEF R2
<1>5. /\ R2 \in Children /\ b2 \in [Node -> BOOLEAN]
      /\ \A m \in Node : R2[m] = IF m = p THEN n ELSE s.right[m]
  BY <1>1, Nodes DEF Children
<1> HIDE DEF R2, b2
<1>6. s2 \in TreeType /\ s2.root = s.root /\ s2.left = s.left /\ s2.right = R2 /\ s2.black = b2
  BY ONLY <1>1, <1>4, <1>5 DEF TreeType
<1> QED BY <1>5, <1>6 DEF Grows, Adds, Kids, b2

FreeSide(s, k, p, x) == (IF x < k[p] THEN s.left[p] ELSE s.right[p]) = NULL
NewLeaf(s, k, p, n, x) == IF x < k[p] THEN LeftLeaf(s, p, n) ELSE RightLeaf(s, p, n)

\* A red leaf where a search has ended leaves the tree sound.
LEMMA LeafSound ==
  ASSUME NEW s \in TreeType, NEW A, NEW k \in [Node -> Int], NEW w \in [Node -> Nat], Sound(s, A, k, {}, w),
         NEW p \in A, NEW n \in Node \ A, NEW x \in Int, k[p] # x, Apart(A, Subs(s)[p], k, x),
         FreeSide(s, k, p, x), NEW w2, NoWeight(w, w2, n), NEW k2, k2 = [k EXCEPT ![n] = x],
         NEW s2, s2 = NewLeaf(s, k, p, n, x)
  PROVE  Grows(s, s2, p, n) /\ Sound(s2, A \cup {n}, k2, {}, w2)
<1> DEFINE sub == Subs(s)
<1>1. s.left \in Children /\ s.right \in Children
  BY FieldTypes
<1>2. /\ sub \in Subtrees /\ Tree(s.left, s.right, s.root, A, sub)
      /\ Order(s.left, s.right, sub, k, {}) /\ Apart(A, sub[p], k, x)
      /\ \E bh \in Heights : Balanced(s.left, s.right, w, bh)
  BY DEF Sound
<1> HIDE DEF sub
<1>3. PICK bh \in Heights : Balanced(s.left, s.right, w, bh)
  BY <1>2
<1>4. s.left[n] = NULL /\ s.right[n] = NULL /\ p # n /\ p \in Node /\ k[p] \in Int
  BY <1>1, <1>2, Outside, InTree
<1> DEFINE u == WithLeaf(sub, p, n)
<1>5. CASE x < k[p]
  <2>1. Grows(s, s2, p, n) /\ Adds(s.left, s2.left, p, n) /\ s2.right = s.right
    <3>1. s.left[p] = NULL /\ s2 = LeftLeaf(s, p, n) /\ n \in Node
      BY <1>5 DEF FreeSide, NewLeaf
    <3> QED BY <1>4, <3>1, LeafLeft
  <2>2. u \in Subtrees
    BY <1>1, <1>2, <2>1, LeafValues DEF HasLeaf
  <2>3. Tree(s2.left, s2.right, s2.root, A \cup {n}, u)
    BY <1>1, <1>2, <2>1, LeafTree DEF Grows
  <2>4. Order(s2.left, s2.right, u, k2, {})
    BY <1>1, <1>2, <1>5, <2>1, LeafOrder
  <2>5. \E h \in Heights : Balanced(s2.left, s2.right, w2, h)
    <3>1. \E h \in Heights : Balanced(s2.left, s.right, w2, h)
      BY <1>1, <1>2, <1>3, <2>1, LeafBalance
    <3> QED BY <2>1, <3>1
  <2> HIDE DEF u
  <2> QED BY <2>1, <2>2, <2>3, <2>4, <2>5, SoundFrom DEF Grows
<1>6. CASE ~(x < k[p])
  <2>1. Grows(s, s2, p, n) /\ Adds(s.right, s2.right, p, n) /\ s2.left = s.left
    <3>1. s.right[p] = NULL /\ s2 = RightLeaf(s, p, n) /\ n \in Node
      BY <1>6 DEF FreeSide, NewLeaf
    <3> QED BY <1>4, <3>1, LeafRight
  <2>m. Tree(s.right, s.left, s.root, A, sub) /\ Balanced(s.right, s.left, w, bh)
    BY <1>1, <1>2, <1>3, Mirrored
  <2>2. u \in Subtrees
    BY <1>1, <1>2, <2>1, <2>m, LeafValues DEF HasLeaf
  <2>6. s2.left \in Children /\ s2.right \in Children
    BY <2>1, FieldTypes DEF Grows
  <2>3. Tree(s2.left, s2.right, s2.root, A \cup {n}, u)
    <3>1. Tree(s2.right, s2.left, s2.root, A \cup {n}, u)
      BY <1>1, <1>2, <2>1, <2>m, LeafTree DEF Grows
    <3> QED BY <2>2, <2>6, <3>1, Mirrored
  <2>4. Order(s2.left, s2.right, u, k2, {})
    <3>1. x > k[p]
      BY <1>4, <1>6
    <3> QED BY <1>1, <1>2, <2>1, <3>1, MirroredLeafOrder
  <2>5. \E h \in Heights : Balanced(s2.left, s2.right, w2, h)
    <3>1. PICK h \in Heights : Balanced(s2.right, s.left, w2, h)
      BY <1>1, <1>2, <1>3, <2>1, <2>m, LeafBalance
    <3>2. Balanced(s2.left, s2.right, w2, h)
      BY ONLY <2>1, <3>1 DEF Balanced
    <3> QED BY <3>2
  <2> HIDE DEF u
  <2> QED BY <2>1, <2>2, <2>3, <2>4, <2>5, SoundFrom DEF Grows
<1> QED BY <1>5, <1>6

\* A path is still there after a leaf has been added.
LEMMA PathGrows ==
  ASSUME NEW s, NEW s2, NEW q, NEW n, Grows(s, s2, q, n), NEW p \in Seq(Node), IsPath(s, p)
  PROVE  IsPath(s2, p)
<1>1. ASSUME NEW i \in 2..Len(p) PROVE p[i] \in Kids(s2, p[i - 1])
  <2>1. p[i] \in Node /\ p[i - 1] \in Node /\ p[i] \in Kids(s, p[i - 1])
    BY <1>1 DEF IsPath
  <2> QED BY <2>1, Nodes DEF Grows
<1> QED BY <1>1 DEF IsPath, Grows

\* A leaf may be red if it may be under a red node.
LEMMA RedGrows ==
  ASSUME NEW s \in TreeType, NEW s2, NEW p \in Node, NEW n \in Node, Grows(s, s2, p, n), Red(s, {}, NULL),
         \A m \in Node : n \notin Kids(s, m)
  PROVE  Red(s2, {n}, NULL)
<1>1. s.black \in [Node -> BOOLEAN] /\ s2.black = [s.black EXCEPT ![n] = FALSE]
  BY FieldTypes DEF Grows
<1>2. \A m \in Node \ {n} : s2.black[m] = s.black[m]
  BY <1>1
<1>3. ASSUME NEW m \in Node, ~s2.black[m], NEW c \in Kids(s2, m), c # NULL, c # n
      PROVE  s2.black[c]
  <2>1. CASE m = n
    BY <1>3, <2>1 DEF Grows, Kids
  <2>2. CASE m # n
    <3>1. c \in Kids(s, m) /\ ~s.black[m]
      BY <1>2, <1>3, <2>2 DEF Grows
    <3>2. s.black[c] /\ c \in Node
      BY <1>3, <2>2, <3>1, FieldTypes, Nodes DEF Red, Kids, Children, Place
    <3> QED BY <1>2, <1>3, <3>2
  <2> QED BY <2>1, <2>2
<1> QED BY <1>3 DEF Red

\* _rbtree_insert_child ends with a new red leaf.
LEMMA InsertLeafKeeps ==
  ASSUME IndInv, InsertLeaf
  PROVE  IndInv'
<1> USE DEF InsertLeaf, fields, args, hist, lookedup
<1>1. /\ Types /\ pc \in Searching /\ pc = "insert" /\ t \in TreeType
      /\ Sound(t, heap, key, {}, Weight(t.black, NULL, NULL)) /\ Cardinality(heap) = count
      /\ Unique(key, heap) /\ Red(t, {}, NULL) /\ (t.root # NULL => t.black[t.root]) /\ PairRefers
  BY Steady DEF Searching
<1>2. /\ node \in heap /\ heap \in SUBSET Node /\ stack \in Seq(heap) /\ stack_size \in Nat \ {0}
      /\ Len(stack) <= stack_size /\ node # NULL /\ IsPath(t, Append(stack, node))
      /\ Apart(heap, Subs(t)[node], key, arg)
  BY <1>1, Nodes DEF IndInv, SearchInv, StackInv, Types
<1>3. PICK n \in Node \ heap : n = NewNode /\ Cardinality(heap \cup {n}) = count + 1
  <2>1. count < SIZE_MAX /\ Cardinality(heap) = count
    BY <1>1 DEF CanCount
  <2> QED BY <1>2, <2>1, FreeNode
<1>4. /\ key \in [Node -> Int] /\ arg \in Int /\ arg \in Keys /\ argv \in Values
      /\ key[node] # arg /\ FreeSide(t, key, node, arg)
  BY <1>1, <1>2, KeyNumbers DEF Types, Side, FreeSide
<1>5. /\ key' = [key EXCEPT ![n] = arg] /\ value' = [value EXCEPT ![n] = argv] /\ heap' = heap \cup {n}
      /\ t' = NewLeaf(t, key, node, n, arg)
      /\ stack' = stack \o <<node, n>>
      /\ stack_size' = Grown(Len(stack) + 1, Grown(Len(stack), stack_size))
      /\ pc' = "fix_insert" /\ node' = node
  BY <1>3 DEF Fill, NewLeaf, LeftLeaf, RightLeaf
<1>6. PICK w2 : w2 = Weight([t.black EXCEPT ![n] = FALSE], NULL, NULL)
  OBVIOUS
<1>7. NoWeight(Weight(t.black, NULL, NULL), w2, n) /\ Weight(t.black, NULL, NULL) \in [Node -> Nat]
  <2>1. t.black \in [Node -> BOOLEAN]
    BY <1>1, FieldTypes
  <2> QED BY <1>3, <1>6, <2>1, Nodes DEF NoWeight, Weight
<1>8. Grows(t, t', node, n) /\ Sound(t', heap', key', {}, w2)
  BY <1>1, <1>2, <1>3, <1>4, <1>5, <1>7, LeafSound
<1>9. /\ t' \in TreeType /\ t'.black = [t.black EXCEPT ![n] = FALSE] /\ t'.root = t.root
      /\ n \in Kids(t', node) /\ t.black \in [Node -> BOOLEAN] /\ t'.black[n] = FALSE
  <2>1. /\ t' \in TreeType /\ t'.black = [t.black EXCEPT ![n] = FALSE] /\ t'.root = t.root
        /\ n \in Kids(t', node)
    BY <1>8 DEF Grows
  <2>2. t.black \in [Node -> BOOLEAN]
    BY <1>1, FieldTypes
  <2> QED BY <1>3, <2>1, <2>2
<1>10. Types'
  <2>1. key' \in [Node -> Keys \cup {0}] /\ value' \in [Node -> Values \cup {NULL}] /\ heap' \in SUBSET Node
    BY <1>1, <1>2, <1>3, <1>4, <1>5 DEF Types
  <2>2. \A m \in heap' : key'[m] \in Keys
    BY <1>1, <1>2, <1>3, <1>4, <1>5 DEF Types
  <2> QED BY <1>1, <1>5, <1>9, <2>1, <2>2 DEF Types, Searching
<1>11. /\ stack' \in Seq(heap') /\ stack' \in Seq(Node) /\ stack_size' \in Nat \ {0} /\ Len(stack') <= stack_size'
       /\ IsPath(t', stack') /\ stack' # <<>> /\ At(0)' = n
  <2>1. /\ stack' = Append(Append(stack, node), n) /\ Append(stack, node) \in Seq(heap)
        /\ Len(Append(stack, node)) = Len(stack) + 1 /\ Append(stack, node)[Len(stack) + 1] = node
        /\ Append(stack, node) # <<>> /\ Len(stack) \in Nat
    BY <1>2, <1>5
  <2>2. PICK p \in Seq(heap) : p = Append(stack, node)
    BY <2>1
  <2>3. p \in Seq(Node) /\ IsPath(t, p) /\ stack' = Append(p, n) /\ p[Len(p)] = node /\ p # <<>>
    BY <1>2, <2>1, <2>2
  <2>4. IsPath(t', p)
    BY <1>8, <2>3, PathGrows
  <2>5. IsPath(t', stack')
    <3>1. n \in Kids(t', p[Len(p)])
      BY <1>9, <2>3
    <3> QED BY <2>3, <2>4, <3>1, PathAppend
  <2>6. stack' \in Seq(heap') /\ stack' \in Seq(Node) /\ stack' # <<>> /\ Len(stack') = Len(stack) + 2
    BY <1>3, <1>5, <2>1, <2>2, <2>3
  <2>7. stack'[Len(stack')] = n
    BY <2>3
  <2>8. stack_size' \in Nat \ {0} /\ Len(stack) + 2 <= stack_size'
    <3>1. PICK z \in Nat \ {0} : z = Grown(Len(stack), stack_size)
      BY <1>2, <2>1, GrownFits
    <3>2. Len(stack) + 1 <= z
      BY <1>2, <2>1, <3>1, GrownFits
    <3>3. PICK l \in Nat : l = Len(stack) + 1
      BY <2>1
    <3>4. Grown(l, z) \in Nat \ {0} /\ l + 1 <= Grown(l, z)
      BY <3>2, <3>3, GrownFits
    <3> QED BY <1>5, <2>1, <3>1, <3>3, <3>4
  <2> QED BY <2>5, <2>6, <2>7, <2>8 DEF At
<1>12. ~(pc' \in Leaving) /\ ~(pc' \in Filling) /\ ~(pc' \in Removing) /\ ~(pc' \in Searching)
  BY <1>5 DEF Leaving, Filling, Removing, Searching
<1>13. Gone' = {} /\ Victim' = NULL /\ Gap' = NULL /\ MayBeRed' = {n}
  BY <1>5, <1>11, <1>12 DEF Gone, Victim, Gap, MayBeRed
<1>14. SoundInv'
  BY <1>6, <1>8, <1>9, <1>13 DEF SoundInv
<1>15. \A m \in heap : key[m] # arg
  <2>1. Apart(heap, Subs(t)[NULL], key, arg)
    BY <1>1, <1>2, <1>4, GoesDown DEF Side
  <2>2. Subs(t)[NULL] = {}
    BY <1>1 DEF Sound, Tree, Shape, Unfolds
  <2> QED BY <1>2, <1>4, <2>1, <2>2, ApartNone
<1>16. /\ \A m \in heap : key'[m] = key[m] /\ value'[m] = value[m]
       /\ key'[n] = arg /\ value'[n] = argv
  BY <1>1, <1>2, <1>3, <1>5 DEF Types
<1>17. UniqueInv'
  <2>1. Unique(key', heap')
    BY <1>1, <1>5, <1>15, <1>16 DEF Unique
  <2> QED BY <1>13, <2>1 DEF UniqueInv
<1>18. RedInv'
  <2>1. \A m \in Node : n \notin Kids(t, m)
    BY <1>1, <1>2, <1>3, Nodes, TreeFacts
  <2>2. Red(t', {n}, NULL)
    BY <1>1, <1>2, <1>3, <1>8, <2>1, RedGrows
  <2>3. t'.root # NULL => t'.black[t'.root] \/ t'.root \in {n}
    BY <1>1, <1>9, FieldTypes DEF Place
  <2> QED BY <1>13, <2>2, <2>3, Zenon DEF RedInv
<1>19. StackInv'
  BY <1>5, <1>9, <1>11, <1>12 DEF StackInv
<1>20. SearchInv' /\ MaxInv' /\ VictimInv' /\ GapInv'
  BY <1>5, <1>12 DEF SearchInv, MaxInv, VictimInv, GapInv
<1>21. CountInv'
  BY <1>3, <1>5, <1>12 DEF CountInv, CanCount
<1>22. MapOn(heap)' /\ wantRet = "new" /\ wantFreed = {} /\ freed = {}
  <2>1. /\ InsertInv /\ Others = heap
    BY <1>1, <1>15 DEF IndInv, MapInv, Others
  <2>2. count # SIZE_MAX
    BY <1>1, TreeAssumption DEF CanCount, Types
  <2>3. /\ wantRet = "new" /\ want[arg] = argv /\ DOMAIN want = {key[m] : m \in heap} \cup {arg}
        /\ wantFreed = {} /\ freed = {} /\ \A m \in heap : want[key[m]] = value[m]
    BY <1>15, <2>1, <2>2 DEF InsertInv
  <2>4. {key[m] : m \in heap} \cup {arg} = {key'[m] : m \in heap'}
    BY <1>5, <1>16
  <2>5. \A m \in heap' : want[key'[m]] = value'[m]
    BY <1>5, <1>16, <2>3
  <2> QED BY <2>3, <2>4, <2>5 DEF MapOn
<1>23. MapInv' /\ ResultInv'
  BY <1>5, <1>12, <1>22 DEF MapInv, ResultInv
<1>24. PairInv'
  BY <1>1, <1>5, <1>12, <1>16 DEF PairInv, PairRefers
<1> QED BY <1>10, <1>14, <1>17, <1>18, <1>19, <1>20, <1>21, <1>23, <1>24 DEF IndInv

-----------------------------------------------------------------------------
\* The path up from the node on top of the stack.
LEMMA PathTop ==
  ASSUME stack \in Seq(heap), heap \in SUBSET Node, IsPath(t, stack), stack # <<>>
  PROVE  /\ At(0) \in heap /\ At(1) \in heap \cup {NULL} /\ At(2) \in heap \cup {NULL} /\ At(3) \in heap \cup {NULL}
         /\ Above(t, At(0), At(1)) /\ (At(1) # NULL <=> Len(stack) > 1)
         /\ At(1) # NULL => Above(t, At(1), At(2))
         /\ (At(2) # NULL <=> Len(stack) > 2)
         /\ At(2) # NULL => Above(t, At(2), At(3))
<1>1. Len(stack) \in Nat /\ Len(stack) > 0 /\ \A j \in 1..Len(stack) : stack[j] \in heap
  OBVIOUS
<1>2. PICK l \in Nat : l = Len(stack) /\ l > 0
  BY <1>1
<1>3. /\ At(0) = stack[l]
      /\ At(1) = IF l > 1 THEN stack[l - 1] ELSE NULL
      /\ At(2) = IF l > 2 THEN stack[l - 2] ELSE NULL
      /\ At(3) = IF l > 3 THEN stack[l - 3] ELSE NULL
  BY <1>2 DEF At
<1>4. stack[1] = t.root /\ \A j \in 2..l : stack[j] \in Kids(t, stack[j - 1])
  BY <1>2 DEF IsPath
<1>5. /\ stack[l] \in heap
      /\ l > 1 => stack[l - 1] \in heap
      /\ l > 2 => stack[l - 2] \in heap
      /\ l > 3 => stack[l - 3] \in heap
  BY <1>1, <1>2
<1>6. /\ l > 1 => stack[l] \in Kids(t, stack[l - 1])
      /\ l > 2 => stack[l - 1] \in Kids(t, stack[l - 2])
      /\ l > 3 => stack[l - 2] \in Kids(t, stack[l - 3])
  <2>1. l > 1 => l \in 2..l
    BY <1>2
  <2>2. l > 2 => l - 1 \in 2..l /\ (l - 1) - 1 = l - 2
    BY <1>2
  <2>3. l > 3 => l - 2 \in 2..l /\ (l - 2) - 1 = l - 3
    BY <1>2
  <2>4. l > 2 => stack[l - 1] \in Kids(t, stack[(l - 1) - 1])
    BY <1>4, <2>2
  <2>5. l > 3 => stack[l - 2] \in Kids(t, stack[(l - 2) - 1])
    BY <1>4, <2>3
  <2> QED BY <1>4, <2>1, <2>2, <2>3, <2>4, <2>5
<1>7. NULL \notin heap /\ heap \subseteq Node
  BY Nodes
<1>8. (At(1) # NULL <=> l > 1) /\ (At(2) # NULL <=> l > 2)
  BY <1>2, <1>3, <1>5, <1>7
<1>9. Above(t, At(0), At(1))
  <2>1. CASE l = 1
    BY <1>3, <1>4, <1>5, <1>7, <2>1 DEF Above, Place
  <2>2. CASE l > 1
    BY <1>3, <1>5, <1>6, <1>7, <2>2 DEF Above, Place
  <2> QED BY <1>2, <2>1, <2>2
<1>10. l > 1 => Above(t, At(1), At(2))
  <2>1. CASE l = 2
    BY <1>3, <1>4, <1>5, <1>7, <2>1 DEF Above, Place
  <2>2. CASE l > 2
    BY <1>3, <1>5, <1>6, <1>7, <2>2 DEF Above, Place
  <2> QED BY <1>2, <2>1, <2>2
<1>11. l > 2 => Above(t, At(2), At(3))
  <2>1. CASE l = 3
    BY <1>3, <1>4, <1>5, <1>7, <2>1 DEF Above, Place
  <2>2. CASE l > 3
    BY <1>3, <1>5, <1>6, <1>7, <2>2 DEF Above, Place
  <2> QED BY <1>2, <2>1, <2>2
<1> QED BY <1>2, <1>3, <1>5, <1>8, <1>9, <1>10, <1>11

\* A part of the path, from the root, is a path.
LEMMA PathDown ==
  ASSUME stack \in Seq(heap), heap \in SUBSET Node, IsPath(t, stack), NEW i \in Nat, i < Len(stack)
  PROVE  /\ Down(i) \in Seq(heap) /\ Down(i) \in Seq(Node) /\ IsPath(t, Down(i)) /\ Down(i) # <<>>
         /\ Len(Down(i)) = Len(stack) - i /\ Down(i)[Len(Down(i))] = At(i)
<1>1. Len(stack) \in Nat
  OBVIOUS
<1>2. PICK l \in Nat : l = Len(stack) - i /\ l > 0
  BY <1>1
<1>3. Down(i) = SubSeq(stack, 1, l) /\ At(i) = stack[l]
  BY <1>2 DEF Down, At
<1>4. /\ SubSeq(stack, 1, l) \in Seq(heap) /\ Len(SubSeq(stack, 1, l)) = l
      /\ \A j \in 1..l : SubSeq(stack, 1, l)[j] = stack[j]
  BY <1>1, <1>2
<1>5. PICK q \in Seq(heap) : q = Down(i)
  BY <1>3, <1>4
<1>6. Len(q) = l /\ \A j \in 1..l : q[j] = stack[j]
  BY <1>3, <1>4, <1>5
<1>7. stack[1] = t.root /\ \A j \in 2..Len(stack) : stack[j] \in Kids(t, stack[j - 1])
  BY <1>2 DEF IsPath
<1>8. q[1] = t.root
  BY <1>2, <1>6, <1>7
<1>9. ASSUME NEW j \in 2..l PROVE q[j] \in Kids(t, q[j - 1])
  <2>1. j \in 2..Len(stack) /\ j \in 1..l /\ j - 1 \in 1..l
    BY <1>1, <1>2, <1>9
  <2> QED BY <1>6, <1>7, <2>1
<1>10. IsPath(t, q) /\ q # <<>>
  BY <1>2, <1>6, <1>8, <1>9 DEF IsPath
<1>11. q \in Seq(Node) /\ q[Len(q)] = stack[l]
  BY <1>2, <1>6
<1> QED BY <1>2, <1>3, <1>5, <1>6, <1>10, <1>11

\* What is known while an insertion is repaired.
LEMMA Fixing ==
  ASSUME IndInv, pc = "fix_insert"
  PROVE  /\ Types /\ t \in TreeType /\ heap \in SUBSET Node
         /\ Sound(t, heap, key, {}, Weight(t.black, NULL, NULL))
         /\ Unique(key, heap) /\ Red(t, {At(0)}, NULL) /\ PairRefers
         /\ t.root # NULL => t.black[t.root] \/ t.root = At(0)
         /\ ~t.black[At(0)] /\ key \in [Node -> Int]
         /\ Weight(t.black, NULL, NULL) \in [Node -> Nat] /\ t.black \in [Node -> BOOLEAN]
         /\ stack \in Seq(heap) /\ stack_size \in Nat \ {0} /\ IsPath(t, stack) /\ stack # <<>>
         /\ Len(stack) <= stack_size /\ Len(stack) \in Nat
         /\ Cardinality(heap) = count + 1 /\ count + 1 \in 0..SIZE_MAX
         /\ MapOn(heap) /\ freed = wantFreed /\ wantRet = "new"
<1>1. ~(pc \in Leaving) /\ ~(pc \in Filling) /\ ~(pc \in Removing) /\ ~(pc \in Searching)
  BY DEF Leaving, Filling, Removing, Searching
<1>2. Gone = {} /\ Victim = NULL /\ Gap = NULL /\ MayBeRed = {At(0)}
  BY <1>1 DEF Gone, Victim, Gap, MayBeRed
<1>3. Types /\ t \in TreeType /\ heap \in SUBSET Node /\ key \in [Node -> Int]
  BY KeyNumbers DEF IndInv, Types
<1>4. /\ Sound(t, heap, key, {}, Weight(t.black, NULL, NULL)) /\ Red(t, {At(0)}, NULL)
      /\ t.root # NULL => t.black[t.root] \/ t.root = At(0)
  BY <1>2 DEF IndInv, SoundInv, RedInv
<1>5. Unique(key, heap)
  <2>1. heap \ {} = heap
    OBVIOUS
  <2> QED BY <1>2, <2>1 DEF IndInv, UniqueInv
<1>6. Weight(t.black, NULL, NULL) \in [Node -> Nat] /\ t.black \in [Node -> BOOLEAN]
  BY <1>3, FieldTypes, WeightType
<1>7. /\ stack \in Seq(heap) /\ stack_size \in Nat \ {0} /\ IsPath(t, stack) /\ stack # <<>>
      /\ Len(stack) <= stack_size /\ Len(stack) \in Nat /\ ~t.black[At(0)]
  BY DEF IndInv, StackInv
<1>8. Cardinality(heap) = count + 1 /\ count + 1 \in 0..SIZE_MAX
  BY <1>3, TreeAssumption DEF IndInv, CountInv, Types
<1>9. MapOn(heap) /\ freed = wantFreed /\ wantRet = "new" /\ PairRefers
  BY DEF IndInv, MapInv, ResultInv, PairInv
<1> QED BY <1>3, <1>4, <1>5, <1>6, <1>7, <1>8, <1>9

\* What is to show when an insertion returns.
LEMMA Inserted ==
  ASSUME IndInv, pc = "fix_insert", t' \in TreeType, Red(t', {}, NULL),
         Sound(t', heap, key, {}, Weight(t'.black, NULL, NULL)), t'.root # NULL => t'.black[t'.root],
         InsertDone, UNCHANGED <<key, value, heap, stack_size, freed, hist, lookedup>>
  PROVE  IndInv'
<1> USE DEF InsertDone, Return, hist, lookedup
<1>1. /\ Types /\ Unique(key, heap) /\ PairRefers /\ stack_size \in Nat \ {0}
      /\ Cardinality(heap) = count + 1 /\ count + 1 \in 0..SIZE_MAX
      /\ MapOn(heap) /\ freed = wantFreed /\ wantRet = "new"
  BY Fixing
<1>2. Types'
  BY <1>1, Nodes DEF Types, Searching
<1>3. MapOn(heap)' /\ PairRefers'
  BY <1>1 DEF MapOn, PairRefers
<1> QED BY <1>1, <1>2, <1>3, Returned

\* _rbtree_insert_case1: the root becomes black.
LEMMA FixInsertRootKeeps ==
  ASSUME IndInv, FixInsertRoot
  PROVE  IndInv'
<1> USE DEF FixInsertRoot, hist, lookedup
<1>1. /\ t \in TreeType /\ heap \in SUBSET Node /\ Sound(t, heap, key, {}, Weight(t.black, NULL, NULL))
      /\ Red(t, {At(0)}, NULL) /\ t.black \in [Node -> BOOLEAN] /\ Weight(t.black, NULL, NULL) \in [Node -> Nat]
      /\ stack \in Seq(heap) /\ IsPath(t, stack) /\ stack # <<>>
  BY Fixing
<1>2. PICK r \in Node : r = At(0) /\ r = t.root
  BY <1>1, PathTop DEF Above
<1>3. t' = Blacken(t, r)
  BY <1>2 DEF Blacken
<1>4. Repaints(t, t') /\ t'.black[r] /\ SameColors(t.black, t'.black, {r})
  BY <1>1, <1>3, PaintBlack
<1>5. /\ t' \in TreeType /\ t'.root = r /\ (\A m : Kids(t', m) = Kids(t, m))
      /\ Sound(t', heap, key, {}, Weight(t.black, NULL, NULL)) /\ t'.black \in [Node -> BOOLEAN]
  <2>1. t' \in TreeType /\ t'.root = r /\ (\A m : Kids(t', m) = Kids(t, m))
    BY <1>2, <1>4 DEF Repaints, Kids
  <2>2. Sound(t', heap, key, {}, Weight(t.black, NULL, NULL))
    BY <1>1, <1>4, SameSound
  <2> QED BY <2>1, <2>2, FieldTypes
<1>6. Weight(t'.black, NULL, NULL) \in [Node -> Nat]
  BY <1>5, WeightType
<1>7. SameWeights(Weight(t.black, NULL, NULL), Weight(t'.black, NULL, NULL), {r})
  <2>1. Inside(NULL, {r})
    BY Nodes DEF Inside
  <2> QED BY <1>1, <1>4, <1>5, <2>1, SameWeight
<1>8. Sound(t', heap, key, {}, Weight(t'.black, NULL, NULL))
  <2>1. PICK w \in [Node -> Nat] : w = Weight(t.black, NULL, NULL)
    BY <1>1
  <2>2. PICK w2 \in [Node -> Nat] : w2 = Weight(t'.black, NULL, NULL)
    BY <1>6
  <2>3. Sound(t', heap, key, {}, w) /\ t'.root # NULL /\ SameWeights(w, w2, {t'.root})
    BY <1>2, <1>5, <1>7, <2>1, <2>2, Nodes
  <2> QED BY <1>5, <2>2, <2>3, SoundRoot
<1>9. Red(t', {}, NULL)
  <2>1. SUFFICES ASSUME NEW m \in Node, ~t'.black[m], NEW c \in Kids(t', m), c # NULL
                 PROVE  t'.black[c]
    BY DEF Red
  <2>2. c \in Kids(t, m) \ {NULL}
    BY <1>5, <2>1
  <2>3. c \in Node /\ c # r
    BY <1>1, <1>2, <2>2, TreeFacts
  <2>4. m # NULL /\ ~t.black[m]
    BY <1>4, <2>1, Nodes DEF SameColors
  <2>5. t.black[c]
    BY <1>1, <1>2, <2>2, <2>3, <2>4 DEF Red
  <2> QED BY <1>4, <2>3, <2>5 DEF SameColors
<1> QED BY <1>4, <1>5, <1>8, <1>9, Inserted

\* The parent of the node on top of the stack.
LEMMA FixParent ==
  ASSUME IndInv, pc = "fix_insert", Len(stack) > 1
  PROVE  /\ At(0) \in heap /\ At(1) \in heap /\ At(0) \in Node /\ At(1) \in Node /\ At(0) \in Kids(t, At(1))
         /\ \A m \in Node : At(0) \in Kids(t, m) => m = At(1)
         /\ t.root \in Node /\ t.black[t.root] /\ t.root # At(0)
<1>1. /\ t \in TreeType /\ heap \in SUBSET Node /\ Sound(t, heap, key, {}, Weight(t.black, NULL, NULL))
      /\ stack \in Seq(heap) /\ IsPath(t, stack) /\ stack # <<>>
      /\ t.root # NULL => t.black[t.root] \/ t.root = At(0)
  BY Fixing
<1>2. /\ At(0) \in heap /\ At(1) \in heap /\ At(0) \in Node /\ At(1) \in Node /\ At(0) \in Kids(t, At(1))
  BY <1>1, PathTop DEF Above
<1>3. PICK n \in Node : n = At(0) /\ n # NULL
  BY <1>2, Nodes
<1>4. PICK p \in Node : p = At(1) /\ p # NULL
  BY <1>2, Nodes
<1>5. (\A m \in Node : n \in Kids(t, m) => m = p) /\ n # t.root
  BY <1>1, <1>2, <1>3, <1>4, TreeFacts
<1>6. t.root # NULL /\ t.root \in Node
  BY <1>1, <1>2, HeapIsTree, FieldTypes DEF Place
<1> QED BY <1>1, <1>2, <1>3, <1>4, <1>5, <1>6

\* Case 2: the red node is below a black one.
LEMMA FixInsertBlackParentKeeps ==
  ASSUME IndInv, FixInsertBlackParent
  PROVE  IndInv'
<1> USE DEF FixInsertBlackParent, fields, hist, lookedup
<1>1. t \in TreeType /\ Sound(t, heap, key, {}, Weight(t.black, NULL, NULL)) /\ Red(t, {At(0)}, NULL)
  BY Fixing
<1>2. /\ At(1) \in Node /\ At(0) \in Kids(t, At(1)) /\ t.root \in Node /\ t.black[t.root]
      /\ \A m \in Node : At(0) \in Kids(t, m) => m = At(1)
  BY FixParent
<1>3. t.black[At(1)]
  BY <1>2, Nodes DEF IsBlack
<1>4. Red(t, {}, NULL)
  BY <1>1, <1>2, <1>3 DEF Red
<1> QED BY <1>1, <1>2, <1>4, Inserted

\* A red parent has a black parent.
LEMMA FixGrandparent ==
  ASSUME IndInv, pc = "fix_insert", Len(stack) > 1, ~IsBlack(t, At(1))
  PROVE  /\ Len(stack) > 2 /\ At(2) \in heap /\ At(2) \in Node /\ Above(t, At(2), At(3))
         /\ ~t.black[At(1)] /\ t.black[At(2)] /\ Kids(t, At(2)) = {At(1), Uncle} /\ At(1) # Uncle
         /\ At(1) \in Kids(t, At(2))
<1>1. /\ t \in TreeType /\ heap \in SUBSET Node /\ Sound(t, heap, key, {}, Weight(t.black, NULL, NULL))
      /\ stack \in Seq(heap) /\ IsPath(t, stack) /\ stack # <<>> /\ Red(t, {At(0)}, NULL)
  BY Fixing
<1>2. /\ At(0) \in heap /\ At(1) \in heap /\ At(0) \in Node /\ At(1) \in Node /\ At(0) \in Kids(t, At(1))
      /\ t.root \in Node /\ t.black[t.root]
  BY FixParent
<1>3. ~t.black[At(1)]
  BY DEF IsBlack
<1>4. At(1) # NULL /\ t.root # At(1)
  BY <1>2, <1>3, Nodes
<1>5. At(2) \in heap \cup {NULL} /\ Above(t, At(1), At(2))
  BY <1>1, <1>4, PathTop
<1>6. At(2) # NULL /\ At(2) \in heap /\ At(1) \in Kids(t, At(2)) /\ At(2) \in Node
  BY <1>1, <1>4, <1>5 DEF Above
<1>7. Len(stack) > 2 /\ Above(t, At(2), At(3))
  BY <1>1, <1>6, PathTop
<1>8. PICK n \in Node : n = At(0) /\ n # NULL
  BY <1>2, Nodes
<1>9. PICK p \in Node : p = At(1) /\ p # NULL
  BY <1>2, <1>4
<1>10. PICK g \in Node : g = At(2)
  BY <1>6
<1>11. t.left[g] # NULL => t.left[g] # t.right[g]
  BY <1>1, <1>2, <1>8, <1>9, <1>10, TreeFacts
<1>12. t.left[g] # t.right[g]
  <2>1. p \in {t.left[g], t.right[g]}
    BY <1>6, <1>9, <1>10 DEF Kids
  <2> QED BY <1>9, <1>11, <2>1
<1>13. Kids(t, g) = {p, Uncle} /\ p # Uncle
  BY <1>6, <1>9, <1>10, <1>12 DEF Kids, Uncle
<1>14. n # p
  BY <1>1, <1>2, <1>8, <1>9, TreeFacts
<1>15. t.black[g]
  BY <1>1, <1>3, <1>6, <1>8, <1>9, <1>10, <1>14, Nodes DEF Red
<1> QED BY <1>3, <1>6, <1>7, <1>9, <1>10, <1>13, <1>15

\* Case 3: the grandparent takes the red color and goes on.
LEMMA FixInsertRedUncleKeeps ==
  ASSUME IndInv, FixInsertRedUncle
  PROVE  IndInv'
<1> USE DEF FixInsertRedUncle, locals, args, hist, lookedup
<1>0. pc = "fix_insert" /\ pc' = pc
  OBVIOUS
<1>1. /\ Types /\ t \in TreeType /\ heap \in SUBSET Node /\ Sound(t, heap, key, {}, Weight(t.black, NULL, NULL))
      /\ Unique(key, heap) /\ PairRefers /\ stack_size \in Nat \ {0} /\ Len(stack) <= stack_size /\ Len(stack) \in Nat
      /\ Cardinality(heap) = count + 1 /\ count + 1 \in 0..SIZE_MAX
      /\ MapOn(heap) /\ freed = wantFreed /\ wantRet = "new"
      /\ stack \in Seq(heap) /\ IsPath(t, stack) /\ stack # <<>> /\ Red(t, {At(0)}, NULL)
      /\ t.black \in [Node -> BOOLEAN] /\ Weight(t.black, NULL, NULL) \in [Node -> Nat]
  BY Fixing
<1>2. /\ At(0) \in Node /\ At(1) \in Node /\ At(0) \in Kids(t, At(1))
      /\ \A m \in Node : At(0) \in Kids(t, m) => m = At(1)
      /\ t.root \in Node /\ t.black[t.root] /\ t.root # At(0)
  BY FixParent
<1>3. /\ Len(stack) > 2 /\ At(2) \in Node /\ ~t.black[At(1)] /\ t.black[At(2)]
      /\ Kids(t, At(2)) = {At(1), Uncle} /\ At(1) # Uncle
  BY FixGrandparent
<1>4. Uncle \in Node /\ ~t.black[Uncle]
  <2>1. Uncle # NULL /\ ~t.black[Uncle]
    BY DEF IsBlack
  <2>2. Uncle \in Place
    <3>1. t.left[At(2)] \in Place /\ t.right[At(2)] \in Place
      BY <1>1, <1>3, FieldTypes DEF Children
    <3> QED BY <3>1 DEF Uncle
  <2> QED BY <2>1, <2>2 DEF Place
<1>5. PICK n \in Node : n = At(0)
  BY <1>2
<1>6. PICK p \in Node : p = At(1) /\ ~t.black[p]
  BY <1>2, <1>3
<1>7. PICK g \in Node : g = At(2) /\ t.black[g]
  BY <1>3
<1>8. PICK u \in Node : u = Uncle /\ ~t.black[u] /\ u # p /\ Kids(t, g) = {p, u}
  BY <1>3, <1>4, <1>6, <1>7
<1>9. \A m \in Node : n \in Kids(t, m) => m = p
  BY <1>2, <1>5, <1>6
<1>10. g # p /\ g # u
  BY <1>6, <1>7, <1>8
<1>11. t' = Redden(Blacken(Blacken(t, p), u), g)
  BY <1>6, <1>7, <1>8 DEF Recolored, Blacken, Redden
<1>12. /\ Repaints(t, t') /\ t'.black[p] /\ t'.black[u] /\ ~t'.black[g]
       /\ SameColors(t.black, t'.black, {g, p, u})
  <2>1. PICK a : a = Blacken(t, p)
    OBVIOUS
  <2>2. PICK b : b = Blacken(a, u)
    OBVIOUS
  <2>3. t' = Redden(b, g)
    BY <1>11, <2>1, <2>2
  <2>4. Repaints(t, a) /\ a.black[p] /\ SameColors(t.black, a.black, {p})
    BY <1>1, <2>1, PaintBlack
  <2>5. a \in TreeType
    BY <2>4 DEF Repaints
  <2>6. Repaints(a, b) /\ b.black[u] /\ SameColors(a.black, b.black, {u})
    BY <2>2, <2>5, PaintBlack
  <2>7. b \in TreeType
    BY <2>6 DEF Repaints
  <2>8. Repaints(b, t') /\ ~t'.black[g] /\ SameColors(b.black, t'.black, {g})
    BY <2>3, <2>7, PaintRed
  <2>9. Repaints(t, t')
    BY <2>4, <2>6, <2>8 DEF Repaints
  <2>10. t'.black[p] /\ t'.black[u]
    BY <1>10, <2>4, <2>6, <2>8 DEF SameColors
  <2>11. SameColors(t.black, t'.black, {g, p, u})
    BY <2>4, <2>6, <2>8 DEF SameColors
  <2> QED BY <2>8, <2>9, <2>10, <2>11
<1>13. /\ t' \in TreeType /\ t'.root = t.root /\ (\A m : Kids(t', m) = Kids(t, m))
       /\ Sound(t', heap, key, {}, Weight(t.black, NULL, NULL)) /\ t'.black \in [Node -> BOOLEAN]
  <2>1. t' \in TreeType /\ t'.root = t.root /\ (\A m : Kids(t', m) = Kids(t, m))
    BY <1>1, <1>12, SamePlaces
  <2>2. Sound(t', heap, key, {}, Weight(t.black, NULL, NULL))
    BY <1>1, <1>12, SameSound
  <2> QED BY <2>1, <2>2, FieldTypes
<1>14. Sound(t', heap, key, {}, Weight(t'.black, NULL, NULL))
  <2>1. PICK w \in [Node -> Nat] : w = Weight(t.black, NULL, NULL)
    BY <1>1
  <2>2. PICK w2 \in [Node -> Nat] : w2 = Weight(t'.black, NULL, NULL)
    BY <1>13, WeightType
  <2>3. /\ w[p] = 0 /\ w[u] = 0 /\ w[g] = 1 /\ w2[p] = 1 /\ w2[u] = 1 /\ w2[g] = 0
        /\ SameWeights(w, w2, {g, p, u})
    <3>1. PICK b1 \in [Node -> BOOLEAN] : b1 = t.black
      BY <1>1
    <3>2. PICK b2 \in [Node -> BOOLEAN] : b2 = t'.black
      BY <1>13
    <3>3. p # NULL /\ u # NULL /\ g # NULL /\ ~b1[p] /\ ~b1[u] /\ b1[g] /\ b2[p] /\ b2[u] /\ ~b2[g]
      BY <1>6, <1>7, <1>8, <1>12, <3>1, <3>2, Nodes
    <3>4. w[p] = 0 /\ w[u] = 0 /\ w[g] = 1 /\ w2[p] = 1 /\ w2[u] = 1 /\ w2[g] = 0
      BY <2>1, <2>2, <3>1, <3>2, <3>3, Weighs
    <3>5. SameWeights(w, w2, {g, p, u})
      <4>1. Inside(NULL, {g, p, u})
        BY Nodes DEF Inside
      <4> QED BY <1>12, <2>1, <2>2, <3>1, <3>2, <4>1, SameWeight
    <3> QED BY <3>4, <3>5
  <2>4. Sound(t', heap, key, {}, w) /\ Kids(t', g) = {p, u}
    BY <1>8, <1>13, <2>1
  <2>5. PICK d \in Int : d = 1
    OBVIOUS
  <2>6. Shifts(w, w2, g, p, u, d)
    BY <2>3, <2>5 DEF Shifts
  <2> QED BY <1>13, <2>2, <2>4, <2>6, SoundShift
<1>15. Red(t', {g}, NULL)
  <2>1. SUFFICES ASSUME NEW m \in Node, ~t'.black[m], NEW c \in Kids(t', m), c # NULL, c # g
                 PROVE  t'.black[c]
    BY DEF Red
  <2>2. c \in Kids(t, m) /\ c \in Node
    <3>1. c \in Kids(t, m) \ {NULL}
      BY <1>13, <2>1
    <3>2. c \in Node
      BY <1>1, <3>1, TreeFacts
    <3> QED BY <3>1, <3>2
  <2>3. CASE m = g
    BY <1>8, <1>12, <2>2, <2>3
  <2>4. CASE m # g
    <3>1. ~t.black[m] /\ m # p
      BY <1>6, <1>12, <2>1, <2>4 DEF SameColors
    <3>2. t.black[c]
      BY <1>1, <1>5, <1>9, <2>1, <2>2, <3>1, Nodes DEF Red
    <3> QED BY <1>12, <2>1, <2>2, <3>2 DEF SameColors
  <2> QED BY <2>3, <2>4
<1>16. /\ stack' \in Seq(heap) /\ stack' \in Seq(Node) /\ IsPath(t, stack') /\ stack' # <<>>
       /\ Len(stack') = Len(stack) - 2 /\ stack'[Len(stack')] = g
  BY <1>1, <1>3, <1>7, PathDown
<1>17. At(0)' = g /\ IsPath(t', stack') /\ Len(stack') <= stack_size
  <2>1. IsPath(t', stack')
    BY <1>13, <1>16 DEF IsPath
  <2>2. At(0)' = stack'[Len(stack')]
    BY <1>16 DEF At
  <2>3. Len(stack') <= stack_size
    BY <1>1, <1>16
  <2> QED BY <1>16, <2>1, <2>2, <2>3
<1>18. ~(pc' \in Leaving) /\ ~(pc' \in Filling) /\ ~(pc' \in Removing) /\ ~(pc' \in Searching)
  BY <1>0 DEF Leaving, Filling, Removing, Searching
<1>19. Gone' = {} /\ Victim' = NULL /\ Gap' = NULL /\ MayBeRed' = {g}
  BY <1>0, <1>17, <1>18 DEF Gone, Victim, Gap, MayBeRed
<1>20. Types'
  BY <1>1, <1>13 DEF Types
<1>21. SoundInv' /\ UniqueInv'
  <2>1. heap \ {} = heap
    OBVIOUS
  <2> QED BY <1>1, <1>14, <1>19, <2>1 DEF SoundInv, UniqueInv
<1>22. RedInv'
  <2>1. t'.black[t'.root] \/ t'.root \in {g}
    BY <1>2, <1>12, <1>13 DEF SameColors
  <2> QED BY <1>15, <1>19, <2>1, Zenon DEF RedInv
<1>23. StackInv'
  BY <1>0, <1>1, <1>12, <1>16, <1>17, <1>18 DEF StackInv
<1>24. SearchInv' /\ MaxInv' /\ VictimInv' /\ GapInv'
  BY <1>0, <1>18 DEF SearchInv, MaxInv, VictimInv, GapInv
<1>25. CountInv' /\ MapInv' /\ ResultInv' /\ PairInv'
  BY <1>0, <1>1, <1>18 DEF IndInv, CountInv, MapInv, MapOn, ResultInv, PairInv, PairRefers
<1> QED BY <1>20, <1>21, <1>22, <1>23, <1>24, <1>25 DEF IndInv

\* Below a red node d is no harm.
Fine(s, X, d) == d = NULL \/ d \in X \/ s.black[d]

\* The colors after a rotation of c above n.
LEMMA RedSpin ==
  ASSUME NEW s \in TreeType, NEW s2, NEW n \in Node, NEW p, NEW c \in Node, NEW o, NEW i, NEW e,
         Spins(s, s2, n, p, c, o, i, e), \A m \in Node : n \in Kids(s, m) => m = p, NEW X, NEW v,
         \A m \in Node \ {n, c} : m = v \/ s.black[m] \/ \A d \in Kids(s, m) \ {n} : Fine(s, X, d),
         n = v \/ s.black[n] \/ (Fine(s, X, i) /\ Fine(s, X, o)),
         c = v \/ s.black[c] \/ (Fine(s, X, n) /\ Fine(s, X, e)),
         p = NULL \/ p = v \/ s.black[p] \/ Fine(s, X, c)
  PROVE  Red(s2, X, v)
<1>1. SUFFICES ASSUME NEW m \in Node, m # v, ~s2.black[m], NEW d \in Kids(s2, m)
               PROVE  Fine(s2, X, d)
  BY DEF Red, Fine
<1>2. s2.black = s.black
  BY DEF Spins
<1>3. Fine(s2, X, d) <=> Fine(s, X, d)
  BY <1>2 DEF Fine
<1>4. ~s.black[m]
  BY <1>1, <1>2
<1>5. CASE m = n
  <2>1. d = i \/ d = o
    BY <1>1, <1>5 DEF Spins
  <2> QED BY <1>1, <1>3, <1>4, <1>5, <2>1
<1>6. CASE m = c
  <2>1. d = n \/ d = e
    BY <1>1, <1>6 DEF Spins
  <2> QED BY <1>1, <1>3, <1>4, <1>6, <2>1
<1>7. CASE m = p /\ m # n /\ m # c
  <2>1. d = c \/ d \in Kids(s, m) \ {n}
    BY <1>1, <1>7, Nodes DEF Spins
  <2> QED BY <1>1, <1>3, <1>4, <1>7, <2>1, Nodes
<1>8. CASE m # n /\ m # c /\ m # p
  <2>1. d \in Kids(s, m)
    BY <1>1, <1>8 DEF Spins, Kids
  <2> QED BY <1>1, <1>3, <1>4, <1>8, <2>1
<1> QED BY <1>5, <1>6, <1>7, <1>8

\* A node is not its own grandparent, and the like.
LEMMA Generations ==
  ASSUME NEW s \in TreeType, NEW A, NEW k, NEW X, NEW w, Sound(s, A, k, X, w), NEW g \in Node,
         NEW p \in Node, p \in Kids(s, g), NEW n \in Node, n \in Kids(s, p), NEW q, Above(s, g, q)
  PROVE  /\ n # p /\ p # g /\ n # g /\ q # g /\ q # p /\ q # n
         /\ n \notin Kids(s, g) /\ g \notin Kids(s, n) /\ g \notin Kids(s, p) /\ p \notin Kids(s, n)
         /\ \A m \in Node : (n \in Kids(s, m) => m = p) /\ (p \in Kids(s, m) => m = g) /\ (g \in Kids(s, m) => m = q)
         /\ s.root # n /\ s.root # p
<1> DEFINE sub == Subs(s)
<1>1. /\ n # NULL /\ p # NULL /\ g # NULL /\ q \in Place
      /\ q # NULL => q \in Node /\ g \in Kids(s, q)
      /\ q = NULL => s.root = g
  BY Nodes DEF Above, Place
<1>2. /\ sub[p] \subseteq sub[g] /\ g \notin sub[p] /\ p # g /\ p # s.root
      /\ \A m \in Node : p \in Kids(s, m) => m = g
  BY <1>1, TreeFacts
<1>3. /\ sub[n] \subseteq sub[p] /\ p \notin sub[n] /\ n # p /\ n # s.root
      /\ \A m \in Node : n \in Kids(s, m) => m = p
  BY <1>1, TreeFacts
<1>4. q # NULL => /\ sub[g] \subseteq sub[q] /\ q \notin sub[g]
                  /\ \A m \in Node : g \in Kids(s, m) => m = q
  BY <1>1, TreeFacts
<1>5. n \in sub[n] /\ p \in sub[p] /\ g \in sub[g]
  BY TreeFacts
<1>6. q = NULL => \A m \in Node : g \notin Kids(s, m)
  BY <1>1, TreeFacts
<1> QED BY <1>1, <1>2, <1>3, <1>4, <1>5, <1>6

\* Below the black node g are two red nodes on the same side, the upper one, top,
\* without a red sibling.
Hangs(s, A, k, w, top, low, g, q) ==
  /\ s \in TreeType /\ Sound(s, A, k, {}, w) /\ Above(s, g, q)
  /\ top \in Node /\ low \in Node
  /\ \/ s.left[g] = top /\ s.left[top] = low
     \/ s.left[g] # top /\ s.right[g] = top /\ s.right[top] = low
  /\ ~s.black[top] /\ ~s.black[low] /\ Red(s, {low}, NULL)
  /\ \A d \in Kids(s, g) \ {top} : Fine(s, {}, d)

\* Rotating an inner red node to the outside.
LEMMA TurnsOut ==
  ASSUME NEW s \in TreeType, NEW A, NEW k \in [Node -> Int], NEW w \in [Node -> Nat], Sound(s, A, k, {}, w),
         NEW g \in Node, NEW p \in Node, p \in Kids(s, g), NEW n \in Node, n \in Kids(s, p), NEW q, Above(s, g, q),
         ~s.black[p], ~s.black[n], s.black[g], Red(s, {n}, NULL), \A d \in Kids(s, g) \ {p} : Fine(s, {}, d),
         NEW s2, Sound(s2, A, k, {}, w), NEW o, NEW i, NEW e, Spins(s, s2, p, g, n, o, i, e),
         \/ s2.left[g] = n /\ s2.left[n] = p
         \/ s2.left[g] # n /\ s2.right[g] = n /\ s2.right[n] = p
  PROVE  Hangs(s2, A, k, w, n, p, g, q) /\ s2.root = s.root /\ s2.black = s.black
<1>1. /\ n # p /\ p # g /\ n # g /\ q # g /\ q # p /\ q # n
      /\ n \notin Kids(s, g) /\ g \notin Kids(s, n) /\ g \notin Kids(s, p) /\ p \notin Kids(s, n)
      /\ \A m \in Node : (n \in Kids(s, m) => m = p) /\ (p \in Kids(s, m) => m = g)
  BY Generations
<1>2. /\ s2 \in TreeType /\ s2.black = s.black /\ s2.root = s.root
      /\ Kids(s, p) = {n, o} /\ Kids(s, n) = {i, e}
      /\ Kids(s2, g) = (Kids(s, g) \ {p}) \cup {n}
      /\ \A m \in Node \ {p, n, g} : s2.left[m] = s.left[m] /\ s2.right[m] = s.right[m]
  BY Nodes DEF Spins
<1>3. Above(s2, g, q)
  <2>1. CASE q = NULL
    BY <1>2, <2>1 DEF Above
  <2>2. CASE q # NULL
    <3>1. q \in Node \ {p, n, g} /\ g \in Kids(s, q)
      BY <1>1, <2>2 DEF Above, Place
    <3>2. Kids(s2, q) = Kids(s, q)
      BY <1>2, <3>1 DEF Kids
    <3> QED BY <2>2, <3>1, <3>2 DEF Above
  <2> QED BY <2>1, <2>2
<1>4. Fine(s, {}, i) /\ Fine(s, {}, e) /\ i # p /\ e # p /\ i # n /\ e # n
  <2>1. n \notin Kids(s, n)
    BY <1>1
  <2>2. \A d \in Kids(s, n) : d = NULL \/ d \in {n} \/ s.black[d]
    BY Nodes DEF Red
  <2> QED BY <1>1, <1>2, <2>1, <2>2 DEF Fine
<1>5. o = n \/ Fine(s, {}, o)
  <2>1. \A d \in Kids(s, p) : d = NULL \/ d \in {n} \/ s.black[d]
    BY Nodes DEF Red
  <2> QED BY <1>2, <2>1 DEF Fine
<1>6. o # n
  <2>1. s.left[p] # s.right[p]
    <3>1. n \in {s.left[p], s.right[p]} /\ n # NULL
      BY Nodes DEF Kids
    <3>2. s.left[p] # NULL => s.left[p] # s.right[p]
      BY TreeFacts
    <3> QED BY <3>1, <3>2
  <2> QED BY <1>2, <2>1 DEF Kids
<1>7. Red(s2, {p}, NULL)
  <2>1. ASSUME NEW m \in Node \ {p, n}
        PROVE  m = NULL \/ s.black[m] \/ \A d \in Kids(s, m) \ {p} : Fine(s, {p}, d)
    <3>1. n \notin Kids(s, m)
      BY <1>1, <2>1
    <3> QED BY <2>1, <3>1, Nodes DEF Red, Fine
  <2>2. Fine(s, {p}, i) /\ Fine(s, {p}, o) /\ Fine(s, {p}, p) /\ Fine(s, {p}, e)
    BY <1>4, <1>5, <1>6 DEF Fine
  <2>3. \A m \in Node : p \in Kids(s, m) => m = g
    BY <1>1
  <2> QED BY <2>1, <2>2, <2>3, RedSpin
<1>8. \A d \in Kids(s2, g) \ {n} : Fine(s2, {}, d)
  BY <1>2 DEF Fine
<1> QED BY <1>2, <1>3, <1>7, <1>8 DEF Hangs

\* Case 5: the black color and the place of g pass to top.
LEMMA Lifts ==
  ASSUME NEW s, NEW A, NEW k \in [Node -> Int], NEW top, NEW low, NEW g \in Node, NEW q,
         Hangs(s, A, k, Weight(s.black, NULL, NULL), top, low, g, q), s.black[g],
         s.root # NULL, s.black[s.root], NEW s2, s2 = Blacken(Redden(s, g), top),
         NEW s3, s3 = RotateUp(s2, g, q, top)
  PROVE  /\ s3 \in TreeType /\ Sound(s3, A, k, {}, Weight(s3.black, NULL, NULL)) /\ Red(s3, {}, NULL)
         /\ s3.black[s3.root]
<1>1. /\ s \in TreeType /\ Sound(s, A, k, {}, Weight(s.black, NULL, NULL)) /\ Above(s, g, q)
      /\ top \in Node /\ low \in Node
      /\ \/ s.left[g] = top /\ s.left[top] = low
         \/ s.left[g] # top /\ s.right[g] = top /\ s.right[top] = low
      /\ ~s.black[top] /\ ~s.black[low] /\ Red(s, {low}, NULL)
      /\ \A d \in Kids(s, g) \ {top} : Fine(s, {}, d)
  BY DEF Hangs
<1>2. top \in Kids(s, g) /\ low \in Kids(s, top)
  BY <1>1 DEF Kids
<1>3. /\ low # top /\ top # g /\ low # g /\ q # g /\ q # top /\ q # low
      /\ low \notin Kids(s, g) /\ g \notin Kids(s, top) /\ top \notin Kids(s, top)
      /\ \A m \in Node : (low \in Kids(s, m) => m = top) /\ (top \in Kids(s, m) => m = g) /\ (g \in Kids(s, m) => m = q)
  BY <1>1, <1>2, Generations
<1>4. PICK s1 : s1 = Redden(s, g)
  OBVIOUS
<1>5. Repaints(s, s1) /\ ~s1.black[g] /\ SameColors(s.black, s1.black, {g}) /\ s1 \in TreeType
  <2>1. Repaints(s, s1) /\ ~s1.black[g] /\ SameColors(s.black, s1.black, {g})
    BY <1>1, <1>4, PaintRed
  <2> QED BY <2>1 DEF Repaints
<1>6. Repaints(s1, s2) /\ s2.black[top] /\ SameColors(s1.black, s2.black, {top})
  BY <1>1, <1>4, <1>5, PaintBlack
<1>7. /\ Repaints(s, s2) /\ s2 \in TreeType /\ s2.black[top] /\ ~s2.black[g] /\ SameColors(s.black, s2.black, {g, top})
      /\ s2.left = s.left /\ s2.right = s.right /\ s2.root = s.root
  <2>1. Repaints(s, s2) /\ s2 \in TreeType /\ s2.left = s.left /\ s2.right = s.right /\ s2.root = s.root
    BY <1>5, <1>6 DEF Repaints
  <2>2. SameColors(s.black, s2.black, {g, top}) /\ ~s2.black[g]
    BY <1>3, <1>5, <1>6 DEF SameColors
  <2> QED BY <1>6, <2>1, <2>2
<1>8. Above(s2, g, q) /\ \A m : Kids(s2, m) = Kids(s, m)
  BY <1>1, <1>7, SamePlaces
<1>9. PICK w \in [Node -> Nat] : w = Weight(s.black, NULL, NULL)
  BY <1>1, FieldTypes, WeightType
<1>10. PICK w2 \in [Node -> Nat] : w2 = Weight(s2.black, NULL, NULL)
  BY <1>7, FieldTypes, WeightType
<1>11. Trades(w, w2, g, top)
  <2>1. PICK b1 \in [Node -> BOOLEAN] : b1 = s.black
    BY <1>1, FieldTypes
  <2>2. PICK b2 \in [Node -> BOOLEAN] : b2 = s2.black
    BY <1>7, FieldTypes
  <2>3. top # NULL /\ g # NULL /\ b1[g] /\ ~b1[top] /\ ~b2[g] /\ b2[top]
    BY <1>1, <1>7, <2>1, <2>2, Nodes
  <2>4. w[g] = 1 /\ w[top] = 0 /\ w2[g] = 0 /\ w2[top] = 1
    BY <1>1, <1>9, <1>10, <2>1, <2>2, <2>3, Weighs
  <2>5. Inside(NULL, {g, top})
    BY Nodes DEF Inside
  <2>6. SameWeights(w, w2, {g, top})
    BY <1>7, <1>9, <1>10, <2>1, <2>2, <2>5, SameWeight
  <2> QED BY <2>4, <2>6 DEF Trades
<1>12. Sound(s2, A, k, {}, w)
  BY <1>1, <1>7, <1>9, SameSound
<1>13. PICK o, i, e : Sound(s3, A, k, {}, w2) /\ Spins(s2, s3, g, q, top, o, i, e) /\ i # low
  <2>1. top \in Kids(s2, g) /\ g \notin {} /\ top \notin {}
    BY <1>2, <1>8
  <2>2. Sound(s3, A, k, {}, w2) /\ Spins(s2, s3, g, q, top, OtherOf(s2, g, top), InnerOf(s2, g, top), OuterOf(s2, g, top))
    <3>1. MaySpin(s2, A, k, {}, w, g, q, top, w2)
      BY <1>1, <1>7, <1>8, <1>9, <1>10, <1>11, <1>12, Nodes DEF MaySpin
    <3>2. Spun(s2, s3, A, k, {}, w2, g, q, top, OtherOf(s2, g, top), InnerOf(s2, g, top), OuterOf(s2, g, top))
      BY <2>1, <3>1, SpinUp
    <3> QED BY <3>2 DEF Spun
  <2>3. InnerOf(s2, g, top) # low
    <3>1. s.left[top] # NULL => s.left[top] # s.right[top]
      BY <1>1, TreeFacts
    <3> QED BY <1>1, <1>7, <3>1, Nodes DEF InnerOf
  <2> QED BY <2>2, <2>3
<1>14. /\ s3 \in TreeType /\ s3.black = s2.black /\ s3.root = (IF q = NULL THEN top ELSE s.root)
       /\ Kids(s2, g) = {top, o} /\ Kids(s2, top) = {i, e}
  BY <1>7, <1>13 DEF Spins
<1>15. Sound(s3, A, k, {}, Weight(s3.black, NULL, NULL))
  BY <1>10, <1>13, <1>14
<1>16. \A d : d # g /\ d # top /\ Fine(s, {}, d) /\ d \in Place => Fine(s2, {}, d)
  BY <1>7 DEF Fine, SameColors, Place
<1>17. Red(s3, {}, NULL)
  <2>1. ASSUME NEW m \in Node \ {g, top}, ~s2.black[m], NEW d \in Kids(s2, m) \ {g}
        PROVE  Fine(s2, {}, d)
    <3>1. ~s.black[m] /\ d \in Kids(s, m) /\ d # low /\ d # top /\ d \in Place
      BY <1>1, <1>3, <1>7, <1>8, <2>1, FieldTypes DEF SameColors, Kids, Children
    <3>2. Fine(s, {}, d)
      BY <1>1, <2>1, <3>1, Nodes DEF Red, Fine
    <3> QED BY <1>16, <2>1, <3>1, <3>2
  <2>2. Fine(s2, {}, i)
    <3>1. i \in Kids(s, top) /\ i # low /\ i # g /\ i # top /\ i \in Place
      <4>1. i \in Kids(s, top)
        BY <1>8, <1>14
      <4>2. i \in Place
        BY <1>1, <4>1, FieldTypes DEF Kids, Children
      <4> QED BY <1>3, <1>13, <4>1, <4>2
    <3>2. Fine(s, {}, i)
      BY <1>1, <3>1, Nodes DEF Red, Fine
    <3> QED BY <1>16, <3>1, <3>2
  <2>3. Fine(s2, {}, o)
    <3>1. o \in Kids(s, g) /\ o \in Place
      <4>1. o \in Kids(s, g)
        BY <1>8, <1>14
      <4> QED BY <1>1, <4>1, FieldTypes DEF Kids, Children
    <3>2. o # top
      <4>1. s.left[g] # s.right[g]
        BY <1>1, TreeFacts, Nodes
      <4>2. {s.left[g], s.right[g]} = {top, o}
        BY <1>8, <1>14 DEF Kids
      <4> QED BY <4>1, <4>2
    <3>3. o # g
      BY <1>1, <1>3, <3>1
    <3> QED BY <1>1, <1>16, <3>1, <3>2, <3>3
  <2>4. \A m \in Node : g \in Kids(s2, m) => m = q
    BY <1>3, <1>8
  <2>5. Fine(s2, {}, top)
    BY <1>7 DEF Fine
  <2> QED BY <1>1, <1>7, <1>13, <2>1, <2>2, <2>3, <2>4, <2>5, RedSpin
<1>18. s3.black[s3.root]
  <2>1. CASE q = NULL
    BY <1>7, <1>14, <2>1
  <2>2. CASE q # NULL
    <3>1. s.root # g /\ s.root # top /\ s.root \in Node
      <4>1. g \in Kids(s, q) \ {NULL} /\ q \in Node
        BY <1>1, <2>2, Nodes DEF Above, Place
      <4>2. s.root # g
        BY <1>1, <4>1, TreeFacts
      <4> QED BY <1>1, <4>2, FieldTypes DEF Place
    <3> QED BY <1>7, <1>14, <2>2, <3>1 DEF SameColors
  <2> QED BY <2>1, <2>2
<1> QED BY <1>14, <1>15, <1>17, <1>18

\* An inner grandchild n of g that is rotated above its parent p is on the side
\* of g on which p is now below it.
LEMMA Outward ==
  ASSUME NEW s, NEW A, NEW k, NEW w, NEW n, NEW p, NEW g, MaySpin(s, A, k, {}, w, p, g, n, w),
         g \in Node, n \in Kids(s, p), p \in Kids(s, g), ~(n = s.right[p] <=> p = s.right[g]),
         NEW s2, s2 = RotateUp(s, p, g, n)
  PROVE  \/ s2.left[g] = n /\ s2.left[n] = p
         \/ s2.left[g] # n /\ s2.right[g] = n /\ s2.right[n] = p
<1>1. /\ s \in TreeType /\ Sound(s, A, k, {}, w) /\ p \in Node /\ Above(s, p, g) /\ n \in Node /\ n # NULL /\ p # NULL
  BY Nodes DEF MaySpin
<1>2. /\ n # p /\ p # g /\ n # g /\ n \notin Kids(s, g)
      /\ s.left[g] # NULL => s.left[g] # s.right[g]
      /\ s.left[p] # NULL => s.left[p] # s.right[p]
  <2>1. n \in Kids(s, p) \ {NULL} /\ p \in Kids(s, g) \ {NULL}
    BY <1>1
  <2> QED BY <1>1, <2>1, TreeFacts
<1>3. PICK sub \in Subtrees : Tree(s.left, s.right, s.root, A, sub)
  BY <1>1 DEF Sound
<1>4. CASE n = s.right[p]
  <2>1. s.left[g] = p /\ s.left[p] # n
    BY <1>1, <1>2, <1>4 DEF Kids
  <2>2. s2 = RotateLeft(s, p, g) /\ s.right[p] # NULL
    BY <1>1, <1>4, <2>1 DEF RotateUp
  <2>3. Rotates(s.left, s.right, s.root, s2.left, s2.right, s2.root, p, g)
    BY <1>1, <1>3, <2>2, RotateLeftFields
  <2> QED BY <1>1, <1>2, <1>4, <2>1, <2>3 DEF Rotates
<1>5. CASE n # s.right[p]
  <2>1. s.right[g] = p /\ s.left[p] = n /\ s.left[g] # p
    BY <1>1, <1>2, <1>5 DEF Kids
  <2>2. s2 = RotateRight(s, p, g) /\ s.left[p] # NULL
    BY <1>1, <2>1 DEF RotateUp
  <2>3. Rotates(s.right, s.left, s.root, s2.right, s2.left, s2.root, p, g)
    BY <1>1, <1>3, <2>2, RotateRightFields
  <2>4. s2.left[g] = s.left[g] /\ s2.right[g] = n /\ s2.right[n] = p
    BY <1>1, <1>2, <2>1, <2>3 DEF Rotates
  <2> QED BY <1>2, <2>4 DEF Kids
<1> QED BY <1>4, <1>5

\* Cases 4 and 5: rotations put the red nodes on both sides of a black one.
LEMMA FixInsertRotateKeeps ==
  ASSUME IndInv, FixInsertRotate
  PROVE  IndInv'
<1>1. /\ pc = "fix_insert" /\ Len(stack) > 1 /\ ~IsBlack(t, At(1)) /\ IsBlack(t, Uncle)
      /\ t' = Rotated(At(0), At(1), At(2), At(3)) /\ InsertDone
      /\ UNCHANGED <<key, value, heap, stack_size, freed, hist, lookedup>>
  BY DEF FixInsertRotate
<1>2. /\ t \in TreeType /\ Sound(t, heap, key, {}, Weight(t.black, NULL, NULL)) /\ heap \in SUBSET Node
      /\ Red(t, {At(0)}, NULL) /\ ~t.black[At(0)] /\ key \in [Node -> Int] /\ t.black \in [Node -> BOOLEAN]
  BY <1>1, Fixing
<1>3. PICK n \in Node : n = At(0)
  BY <1>1, FixParent
<1>4. PICK p \in Node : p = At(1)
  BY <1>1, FixParent
<1>5. PICK g \in Node : g = At(2)
  BY <1>1, FixGrandparent
<1>6. PICK q : q = At(3)
  OBVIOUS
<1>7. n \in Kids(t, p) /\ t.root \in Node /\ t.black[t.root] /\ t.root # NULL
  BY <1>1, <1>3, <1>4, FixParent, Nodes
<1>8. /\ Above(t, g, q) /\ ~t.black[p] /\ t.black[g] /\ Kids(t, g) = {p, Uncle} /\ p \in Kids(t, g)
      /\ ~t.black[n] /\ Red(t, {n}, NULL)
  BY <1>1, <1>2, <1>3, <1>4, <1>5, <1>6, FixGrandparent
<1>9. \A d \in Kids(t, g) \ {p} : Fine(t, {}, d)
  BY <1>1, <1>8 DEF Fine, IsBlack
<1>10. PICK w \in [Node -> Nat] : w = Weight(t.black, NULL, NULL)
  BY <1>2, WeightType
<1>11. PICK s1, top, low :
          /\ Hangs(s1, heap, key, w, top, low, g, q) /\ s1.root = t.root /\ s1.black = t.black
          /\ t' = RotateUp(Blacken(Redden(s1, g), top), g, q, top)
  <2>1. ASSUME NEW s1 \in TreeType, NEW top \in Node, NEW s3,
               s3 = LET s2 == Paint(Paint(s1, g, FALSE), top, TRUE)
                    IN  IF s1.left[g] = top THEN RotateRight(s2, g, q) ELSE RotateLeft(s2, g, q)
        PROVE  s3 = RotateUp(Blacken(Redden(s1, g), top), g, q, top)
    BY <2>1 DEF RotateUp, Blacken, Redden, Paint, TreeType
  <2>2. CASE n = t.right[p] <=> p = t.right[g]
    <3>1. Hangs(t, heap, key, w, p, n, g, q)
      <4>1. \/ t.left[g] = p /\ t.left[p] = n
            \/ t.left[g] # p /\ t.right[g] = p /\ t.right[p] = n
        <5>1. t.left[g] # NULL => t.left[g] # t.right[g]
          BY <1>2, TreeFacts
        <5> QED BY <1>7, <1>8, <2>2, <5>1, Nodes DEF Kids
      <4> QED BY <1>2, <1>8, <1>9, <1>10, <4>1 DEF Hangs
    <3>2. t' = LET s2 == Paint(Paint(t, g, FALSE), p, TRUE)
               IN  IF t.left[g] = p THEN RotateRight(s2, g, q) ELSE RotateLeft(s2, g, q)
      BY <1>1, <1>3, <1>4, <1>5, <1>6, <2>2 DEF Rotated
    <3>3. t' = RotateUp(Blacken(Redden(t, g), p), g, q, p)
      BY <1>2, <2>1, <3>2
    <3> QED BY <3>1, <3>3
  <2>3. CASE ~(n = t.right[p] <=> p = t.right[g])
    <3>1. PICK s1 : s1 = RotateUp(t, p, g, n)
      OBVIOUS
    <3>2. MaySpin(t, heap, key, {}, w, p, g, n, w)
      <4>1. n # NULL /\ p # NULL /\ g # NULL
        BY Nodes
      <4>2. Above(t, p, g)
        BY <1>8, <4>1 DEF Above, Place
      <4>3. w[p] = 0 /\ w[n] = 0
        BY <1>2, <1>8, <1>10, <4>1, Weighs
      <4>4. Trades(w, w, p, n)
        BY <4>3 DEF Trades, SameWeights
      <4> QED BY <1>2, <1>10, <4>1, <4>2, <4>4 DEF MaySpin
    <3>3. PICK o, i, e : Spun(t, s1, heap, key, {}, w, p, g, n, o, i, e)
      BY <1>7, <3>1, <3>2, SpinUp
    <3>4. \/ s1.left[g] = n /\ s1.left[n] = p
          \/ s1.left[g] # n /\ s1.right[g] = n /\ s1.right[n] = p
      BY <1>7, <1>8, <2>3, <3>1, <3>2, Outward
    <3>5. Sound(s1, heap, key, {}, w) /\ Spins(t, s1, p, g, n, o, i, e) /\ s1 \in TreeType
      BY <3>3 DEF Spun, Spins
    <3>6. Hangs(s1, heap, key, w, n, p, g, q) /\ s1.root = t.root /\ s1.black = t.black
      BY <1>2, <1>7, <1>8, <1>9, <1>10, <3>4, <3>5, TurnsOut
    <3>7. t' = LET s2 == Paint(Paint(s1, g, FALSE), n, TRUE)
               IN  IF s1.left[g] = n THEN RotateRight(s2, g, q) ELSE RotateLeft(s2, g, q)
      <4>1. t.left[p] # NULL => t.left[p] # t.right[p]
        BY <1>2, TreeFacts
      <4>2. s1 = IF n = t.right[p] THEN RotateLeft(t, p, g) ELSE RotateRight(t, p, g)
        BY <1>7, <3>1, <4>1, Nodes DEF RotateUp, Kids
      <4> QED BY <1>1, <1>3, <1>4, <1>5, <1>6, <2>3, <4>2 DEF Rotated
    <3>8. t' = RotateUp(Blacken(Redden(s1, g), n), g, q, n)
      BY <2>1, <3>5, <3>7
    <3> QED BY <3>6, <3>8
  <2> QED BY <2>2, <2>3
<1>12. /\ t' \in TreeType /\ Sound(t', heap, key, {}, Weight(t'.black, NULL, NULL)) /\ Red(t', {}, NULL)
       /\ t'.black[t'.root]
  <2>1. PICK s3 : s3 = t'
    OBVIOUS
  <2>2. Hangs(s1, heap, key, Weight(s1.black, NULL, NULL), top, low, g, q) /\ s1.black[g] /\ s1.root # NULL /\ s1.black[s1.root]
    BY <1>7, <1>8, <1>10, <1>11
  <2>3. /\ s3 \in TreeType /\ Sound(s3, heap, key, {}, Weight(s3.black, NULL, NULL)) /\ Red(s3, {}, NULL)
        /\ s3.black[s3.root]
    <3>1. PICK s2 : s2 = Blacken(Redden(s1, g), top)
      OBVIOUS
    <3>2. s3 = RotateUp(s2, g, q, top)
      BY <1>11, <2>1, <3>1
    <3> QED BY <1>2, <2>2, <3>1, <3>2, Lifts
  <2> QED BY <2>1, <2>3
<1> QED BY <1>1, <1>12, Inserted

-----------------------------------------------------------------------------
\* The node v keeps its children and its parent q.
Stays(s, s2, v, q) == s2.left[v] = s.left[v] /\ s2.right[v] = s.right[v] /\ Above(s2, v, q)

\* What is known while a gap is filled.
LEMMA AtGap ==
  ASSUME IndInv, pc \in Filling
  PROVE  /\ Types /\ t \in TreeType /\ heap \in SUBSET Node /\ key \in [Node -> Int]
         /\ t.black \in [Node -> BOOLEAN]
         /\ Sound(t, heap, key, {node}, Weight(t.black, node, At(0)))
         /\ Red(t, {node}, node) /\ (t.root # NULL => t.black[t.root] \/ t.root = node)
         /\ stack \in Seq(heap) /\ stack_size \in Nat \ {0} /\ IsPath(t, stack) /\ stack # <<>>
         /\ Len(stack) <= stack_size /\ Len(stack) \in Nat /\ stack \in Seq(Node)
         /\ node \in heap /\ node \in Node /\ Above(t, node, parent) /\ node \in Subs(t)[At(0)]
         /\ At(0) = node \/ (t.black[At(0)] /\ parent \in Subs(t)[At(0)] /\ t.black[parent])
         /\ At(0) \in heap /\ At(0) \in Node
<1>1. pc \in Leaving /\ pc \in Removing /\ pc # "unlink" /\ pc # "fix_insert"
  BY DEF Filling, Leaving, Removing
<1>2. Types /\ t \in TreeType /\ heap \in SUBSET Node /\ key \in [Node -> Int] /\ t.black \in [Node -> BOOLEAN]
  BY KeyNumbers, FieldTypes DEF IndInv, Types
<1>3. Sound(t, heap, key, {node}, Weight(t.black, node, At(0)))
  BY <1>1 DEF IndInv, SoundInv, Gone, Victim, Gap
<1>4. Red(t, {node}, node) /\ (t.root # NULL => t.black[t.root] \/ t.root = node)
  BY <1>1 DEF IndInv, RedInv, MayBeRed, Victim
<1>5. /\ stack \in Seq(heap) /\ stack_size \in Nat \ {0} /\ IsPath(t, stack) /\ stack # <<>>
      /\ Len(stack) <= stack_size /\ Len(stack) \in Nat /\ stack \in Seq(Node)
  BY <1>1 DEF IndInv, StackInv
<1>6. node \in heap /\ Above(t, node, parent)
  BY <1>1 DEF IndInv, VictimInv
<1>7. /\ node \in Subs(t)[At(0)]
      /\ At(0) = node \/ (t.black[At(0)] /\ parent \in Subs(t)[At(0)] /\ t.black[parent])
  BY DEF IndInv, GapInv
<1>8. At(0) \in heap
  BY <1>2, <1>5, PathTop
<1> QED BY <1>2, <1>3, <1>4, <1>5, <1>6, <1>7, <1>8

\* What is to show for a step of the rebalancing.
LEMMA LeavingKeeps ==
  ASSUME IndInv, pc \in Removing, pc' \in Leaving, t' \in TreeType, parent' \in Place, child' \in Place,
         UNCHANGED <<key, value, heap, count, node, args, ret, freed, hist, lookedup>>,
         SoundInv', RedInv', StackInv', VictimInv', GapInv'
  PROVE  IndInv'
<1>1. /\ pc' \in Removing /\ pc' \notin Searching /\ pc' \notin {"idle", "fix_insert", "find_max"} /\ pc' \notin {"lookup", "exists", "find", "insert"}
      /\ pc \notin Searching /\ pc \notin {"idle", "fix_insert", "find_max"} /\ pc \notin {"lookup", "exists", "find", "insert"}
  BY DEF Leaving, Removing, Searching
<1>2. Types'
  BY <1>1 DEF IndInv, Types, args, lookedup
<1>3. UniqueInv'
  BY <1>1 DEF IndInv, UniqueInv, Unique, Gone
<1>4. SearchInv' /\ MaxInv'
  BY <1>1 DEF SearchInv, MaxInv
<1>5. CountInv'
  <2>1. Cardinality(heap) = count + 1
    BY DEF IndInv, CountInv
  <2> QED BY <1>1, <2>1 DEF CountInv
<1>6. MapInv'
  <2>1. MapOn(heap \ {node})
    BY DEF IndInv, MapInv
  <2>2. MapOn(heap \ {node})'
    BY <2>1 DEF MapOn, hist
  <2> QED BY <1>1, <2>2 DEF MapInv
<1>7. ResultInv'
  <2>1. freed = wantFreed /\ wantRet = "true"
    BY <1>1 DEF IndInv, ResultInv
  <2> QED BY <1>1, <2>1 DEF ResultInv, hist
<1>8. PairInv'
  BY <1>1 DEF IndInv, PairInv, PairRefers, lookedup
<1> QED BY <1>2, <1>3, <1>4, <1>5, <1>6, <1>7, <1>8 DEF IndInv

\* The gap is closed: the victim can go.
LEMMA ClosedKeeps ==
  ASSUME IndInv, pc \in Filling, pc' = "unlink", stack' = stack, stack_size' = stack_size, t' \in TreeType,
         UNCHANGED <<key, value, heap, count, node, parent, child, args, ret, freed, hist, lookedup>>,
         Sound(t', heap, key, {node}, Weight(t'.black, node, NULL)), Red(t', {node}, node),
         t'.root # NULL => t'.black[t'.root] \/ t'.root = node,
         Stays(t, t', node, parent), parent # NULL => t'.black[parent]
  PROVE  IndInv'
<1>1. /\ pc \in Removing /\ pc \in Leaving /\ pc' \in Leaving /\ pc' \in Removing /\ pc' \notin Filling
      /\ pc' \notin {"idle", "lookup", "exists"} /\ pc' \notin {"insert", "find", "find_max"}
      /\ pc' \notin {"found", "fix_insert"} \cup Filling
  BY DEF Filling, Leaving, Removing
<1>2. SoundInv'
  <2>1. Gone' = {node} /\ Victim' = node /\ Gap' = NULL
    BY <1>1 DEF Gone, Victim, Gap
  <2> QED BY <2>1 DEF SoundInv
<1>3. RedInv'
  <2>1. MayBeRed' = {node} /\ Victim' = node
    BY <1>1 DEF MayBeRed, Victim
  <2> QED BY <2>1 DEF RedInv
<1>4. StackInv'
  <2>1. stack \in Seq(Node) /\ stack_size \in Nat \ {0} /\ Len(stack) <= stack_size
    BY AtGap
  <2> QED BY <1>1, <2>1 DEF StackInv
<1>5. VictimInv'
  <2>1. /\ node \in heap /\ (t.left[node] = NULL \/ t.right[node] = NULL)
        /\ child = IF t.right[node] # NULL THEN t.right[node] ELSE t.left[node]
    BY <1>1 DEF IndInv, VictimInv
  <2> QED BY <1>1, <2>1 DEF VictimInv, Stays
<1>6. GapInv'
  BY <1>1 DEF GapInv
<1>7. parent' \in Place /\ child' \in Place
  BY DEF IndInv, Types
<1> QED BY <1>1, <1>2, <1>3, <1>4, <1>5, <1>6, <1>7, LeavingKeeps

\* _rbtree_remove_case1: the gap at the root is none.
LEMMA RebalanceRootKeeps ==
  ASSUME IndInv, RebalanceRoot
  PROVE  IndInv'
<1>1. /\ pc = "rebalance" /\ Len(stack) = 1 /\ pc' = "unlink" /\ t' = t /\ stack' = stack /\ stack_size' = stack_size
      /\ UNCHANGED <<key, value, heap, count, node, parent, child, args, ret, freed, hist, lookedup>>
  BY DEF RebalanceRoot, fields
<1>2. pc \in Filling
  BY <1>1 DEF Filling
<1>3. /\ t \in TreeType /\ heap \in SUBSET Node /\ key \in [Node -> Int] /\ t.black \in [Node -> BOOLEAN]
      /\ Sound(t, heap, key, {node}, Weight(t.black, node, At(0)))
      /\ Red(t, {node}, node) /\ (t.root # NULL => t.black[t.root] \/ t.root = node)
      /\ stack \in Seq(heap) /\ IsPath(t, stack) /\ stack # <<>>
      /\ node \in Node /\ Above(t, node, parent)
      /\ At(0) = node \/ (t.black[At(0)] /\ parent \in Subs(t)[At(0)] /\ t.black[parent])
      /\ At(0) \in Node
  BY <1>2, AtGap
<1>4. t.root = At(0) /\ t.root # NULL
  BY <1>1, <1>3, PathTop, Nodes DEF Above
<1>5. PICK w \in [Node -> Nat] : w = Weight(t.black, node, At(0))
  BY <1>3, WeightType
<1>6. PICK w2 \in [Node -> Nat] : w2 = Weight(t.black, node, NULL)
  BY <1>3, WeightType
<1>7. SameWeights(w, w2, {t.root})
  <2>1. Inside(At(0), {t.root}) /\ Inside(NULL, {t.root}) /\ SameColors(t.black, t.black, {t.root})
    BY <1>4, Nodes DEF Inside, SameColors
  <2> QED BY <1>3, <1>5, <1>6, <2>1, SameWeight
<1>8. Sound(t, heap, key, {node}, w2)
  BY <1>3, <1>4, <1>5, <1>6, <1>7, SoundRoot
<1>9. parent # NULL => t.black[parent]
  <2>1. ASSUME parent # NULL, node = At(0) PROVE FALSE
    <3>1. node \in Kids(t, parent) \ {NULL} /\ parent \in Node
      BY <1>3, <2>1, Nodes DEF Above, Place
    <3> QED BY <1>3, <1>4, <2>1, <3>1, TreeFacts
  <2> QED BY <1>3, <2>1
<1> QED BY <1>1, <1>2, <1>3, <1>6, <1>8, <1>9, ClosedKeeps DEF Stays

\* The paths through a, a child of p, lack a black node; b is its sibling.  The
\* victim v, a child of q, is a or below it.
Gaps(s, A, k, v, q, a, b, p, g) ==
  /\ s \in TreeType /\ k \in [Node -> Int] /\ A \in SUBSET Node
  /\ Sound(s, A, k, {v}, Weight(s.black, v, a)) /\ Red(s, {v}, v)
  /\ s.root # NULL => s.black[s.root] \/ s.root = v
  /\ p \in Node /\ a \in Node /\ b \in Node /\ a # b /\ Kids(s, p) = {a, b} /\ Above(s, p, g)
  /\ v \in Node /\ v \in Subs(s)[a] /\ Above(s, v, q)
  /\ a = v \/ (s.black[a] /\ q \in Subs(s)[a] /\ s.black[q])

\* These nodes are different ones.
GapsApart(s, v, q, a, b, p, g) ==
  /\ p \notin Subs(s)[a] /\ b \notin Subs(s)[a] /\ g \notin Subs(s)[a]
  /\ v # p /\ v # b /\ v # g /\ q # b /\ q \in Node /\ (v = a => q = p) /\ (v # a => q \in Subs(s)[a])
  /\ p # a /\ p # b /\ g # a /\ g # b /\ g # p
  /\ \A m \in Node : /\ p \in Kids(s, m) => m = g
                     /\ a \in Kids(s, m) => m = p
                     /\ b \in Kids(s, m) => m = p
  /\ \A c \in Kids(s, b) : c \notin Subs(s)[a] /\ c # p /\ c # b /\ c # a
  /\ s.root \in Node /\ s.root # v /\ s.root # b /\ s.root # a /\ (g = NULL <=> s.root = p) /\ s.black[s.root]

\* What follows from the shape of the tree.
LEMMA GapFacts ==
  ASSUME NEW s, NEW A, NEW k, NEW v, NEW q, NEW a, NEW b, NEW p, NEW g, Gaps(s, A, k, v, q, a, b, p, g)
  PROVE  GapsApart(s, v, q, a, b, p, g)
<1>1. /\ s \in TreeType /\ A \in SUBSET Node /\ Sound(s, A, k, {v}, Weight(s.black, v, a))
      /\ s.root # NULL => s.black[s.root] \/ s.root = v
      /\ p \in Node /\ a \in Node /\ b \in Node /\ a # b /\ Kids(s, p) = {a, b} /\ Above(s, p, g)
      /\ v \in Node /\ v \in Subs(s)[a] /\ Above(s, v, q)
      /\ a = v \/ (s.black[a] /\ q \in Subs(s)[a] /\ s.black[q])
  BY DEF Gaps
<1>2. /\ a # NULL /\ b # NULL /\ p # NULL /\ v # NULL
      /\ a \in Kids(s, p) \ {NULL} /\ b \in Kids(s, p) \ {NULL}
  BY <1>1, Nodes
<1>3. PICK sub : sub = Subs(s)
  OBVIOUS
<1>4. /\ \A n \in Place : sub[n] \subseteq Node /\ \A m \in sub[n] : sub[m] \subseteq sub[n]
      /\ \A n \in Node : n \in sub[n]
      /\ \A n \in Node : \A c \in Kids(s, n) \ {NULL} :
           /\ c \in A /\ n \in A /\ sub[c] \subseteq sub[n] /\ n \notin sub[c] /\ c # n /\ c # s.root
           /\ \A y \in Place : c \in sub[y] /\ c # y => n \in sub[y]
           /\ \A m \in Node : c \in Kids(s, m) => m = n
      /\ \A n \in Node : \A c, d \in Kids(s, n) \ {NULL} : c # d => sub[c] \cap sub[d] = {}
      /\ sub[s.root] = A /\ (s.root # NULL => s.root \in A)
  BY <1>1, <1>3, TreeFacts
<1>5. p \notin sub[a] /\ b \notin sub[a] /\ p # a /\ p # b /\ sub[a] \cap sub[b] = {} /\ p \notin sub[b]
  BY <1>1, <1>2, <1>4
<1>6. g = NULL \/ (g \in Node /\ p \in Kids(s, g) \ {NULL} /\ p \in sub[g] /\ p # s.root)
  BY <1>1, <1>2, <1>4 DEF Above, Place
<1>7. g \notin sub[a] /\ g # a /\ g # b /\ g # p /\ (g = NULL <=> s.root = p)
  <2>1. CASE g = NULL
    <3>1. g \notin sub[a]
      BY <1>1, <1>4, <2>1, Nodes DEF Place
    <3> QED BY <1>1, <1>2, <2>1, <3>1 DEF Above
  <2>2. CASE g # NULL
    <3>1. g \in Node /\ p \in sub[g] /\ p # s.root /\ p \in Kids(s, g) \ {NULL}
      BY <1>6, <2>2
    <3>2. g # p
      BY <1>4, <3>1
    <3>3. g \notin sub[a] /\ g \notin sub[b]
      BY <1>1, <1>4, <1>5, <3>1, Nodes DEF Place
    <3> QED BY <1>1, <1>4, <2>2, <3>1, <3>2, <3>3
  <2> QED BY <2>1, <2>2
<1>8. \A m \in Node : /\ p \in Kids(s, m) => m = g
                      /\ a \in Kids(s, m) => m = p
                      /\ b \in Kids(s, m) => m = p
  <2>1. ASSUME NEW m \in Node, p \in Kids(s, m) PROVE m = g
    <3>1. p \in Kids(s, m) \ {NULL}
      BY <1>2, <2>1
    <3>2. p # s.root
      BY <1>4, <3>1
    <3> QED BY <1>4, <1>6, <1>7, <3>1, <3>2
  <2> QED BY <1>1, <1>2, <1>4, <2>1
<1>9. \A c \in Kids(s, b) : c \notin sub[a] /\ c # p /\ c # b /\ c # a
  <2>1. ASSUME NEW c \in Kids(s, b) PROVE c \notin sub[a] /\ c # p /\ c # b /\ c # a
    <3>1. CASE c = NULL
      BY <1>1, <1>2, <1>4, <3>1, Nodes DEF Place
    <3>2. CASE c # NULL
      <4>1. c \in Kids(s, b) \ {NULL} /\ c \in Node
        BY <1>1, <2>1, <3>2, FieldTypes DEF Kids, Children, Place
      <4>2. sub[c] \subseteq sub[b] /\ c \in sub[c] /\ c # b
        BY <1>1, <1>4, <4>1
      <4> QED BY <1>1, <1>4, <1>5, <4>2
    <3> QED BY <3>1, <3>2
  <2> QED BY <2>1
<1>10. v # p /\ v # b /\ v # g
  BY <1>1, <1>3, <1>5, <1>7
<1>11. s.root \in Node /\ s.root # v /\ s.root # b /\ s.root # a /\ s.black[s.root]
  <2>1. s.root # NULL
    <3>1. sub[NULL] = {} /\ a \in A
      BY <1>1, <1>2, <1>3, <1>4 DEF Sound, Tree, Shape, Unfolds
    <3> QED BY <1>4, <3>1
  <2>2. s.root \in Node
    BY <1>1, <2>1, FieldTypes DEF Place
  <2>3. s.root # v
    <3>1. p \in A
      BY <1>1, <1>2, <1>4
    <3>2. sub[v] \subseteq sub[a]
      BY <1>1, <1>3, <1>4, Nodes
    <3> QED BY <1>4, <1>5, <3>1, <3>2
  <2> QED BY <1>1, <1>2, <1>4, <2>1, <2>2, <2>3
<1>12. q \in Node /\ v \in Kids(s, q) \ {NULL}
  BY <1>1, <1>2, <1>11 DEF Above, Place
<1>13. (v = a => q = p) /\ (v # a => q \in sub[a])
  BY <1>3, <1>1, <1>8, <1>12
<1>14. q # b
  BY <1>1, <1>5, <1>13
<1> QED BY <1>3, <1>5, <1>7, <1>8, <1>9, <1>10, <1>11, <1>12, <1>13, <1>14 DEF GapsApart

\* While a gap is filled below the root, there is a sibling.
LEMMA AtSibling ==
  ASSUME IndInv, pc \in Filling, Len(stack) > 1
  PROVE  /\ Gaps(t, heap, key, node, parent, At(0), Sibling, At(1), At(2)) /\ Sibling # NULL
         /\ At(1) \in heap /\ At(2) \in heap \cup {NULL} /\ Sibling \in heap
         /\ (At(2) # NULL <=> Len(stack) > 2)
<1>1. /\ t \in TreeType /\ heap \in SUBSET Node /\ key \in [Node -> Int]
      /\ t.black \in [Node -> BOOLEAN]
      /\ Sound(t, heap, key, {node}, Weight(t.black, node, At(0)))
      /\ Red(t, {node}, node) /\ (t.root # NULL => t.black[t.root] \/ t.root = node)
      /\ stack \in Seq(heap) /\ IsPath(t, stack) /\ stack # <<>>
      /\ node \in Node /\ Above(t, node, parent) /\ node \in Subs(t)[At(0)]
      /\ At(0) = node \/ (t.black[At(0)] /\ parent \in Subs(t)[At(0)] /\ t.black[parent])
      /\ At(0) \in heap /\ At(0) \in Node
  BY AtGap
<1>2. /\ At(1) \in heap \cup {NULL} /\ At(2) \in heap \cup {NULL}
      /\ Above(t, At(0), At(1)) /\ At(1) # NULL /\ Above(t, At(1), At(2))
      /\ (At(2) # NULL <=> Len(stack) > 2)
  BY <1>1, PathTop
<1>3. At(1) \in heap /\ At(1) \in Node /\ At(0) \in Kids(t, At(1)) \ {NULL}
  BY <1>1, <1>2, Nodes DEF Above
<1>4. t.left[At(1)] # NULL => t.left[At(1)] # t.right[At(1)]
  BY <1>1, <1>3, TreeFacts
<1>5. Kids(t, At(1)) = {At(0), Sibling} /\ At(0) # Sibling
  BY <1>3, <1>4 DEF Kids, Sibling, SiblingOf
<1>6. PICK w \in [Node -> Nat] : w = Weight(t.black, node, At(0))
  BY <1>1, WeightType
<1>7. PICK a \in Node : a = At(0)
  BY <1>1
<1>8. Sibling # NULL
  <2>1. PICK b, p : b = Sibling /\ p = At(1)
    OBVIOUS
  <2>2. PICK b1 \in [Node -> BOOLEAN] : b1 = t.black
    BY <1>1
  <2>3. w = Weight(b1, node, a) /\ Sound(t, heap, key, {node}, w) /\ Kids(t, p) = {a, b} /\ p \in Node
    BY <1>1, <1>3, <1>5, <1>6, <1>7, <2>1, <2>2
  <2>4. w[a] > 0
    BY <2>2, <2>3, Weighs
  <2>5. b # NULL
    BY <1>1, <2>3, <2>4, SiblingHeight
  <2> QED BY <2>1, <2>5
<1>9. Sibling \in Kids(t, At(1)) \ {NULL}
  BY <1>5, <1>8
<1>10. Sibling \in heap
  BY <1>1, <1>3, <1>9, TreeFacts
<1>11. Sibling \in Node
  BY <1>1, <1>10
<1> QED BY <1>1, <1>2, <1>3, <1>5, <1>8, <1>10, <1>11 DEF Gaps

\* _rbtree_remove_case3_to_6 finds a black sibling.
LEMMA Case3 ==
  ASSUME IndInv, AtCase3
  PROVE  pc \in Filling /\ Len(stack) > 1 /\ IsBlack(t, Sibling)
<1>1. Len(stack) \in Nat
  BY DEF IndInv, StackInv
<1> QED BY <1>1 DEF AtCase3, Filling, IndInv, GapInv

\* Where the gap is once the parent p and the red sibling have taken it: a red p
\* closes it by becoming black.
GapMoves(s, p, gap) == gap = IF s.black[p] THEN p ELSE NULL

\* Cases 3 and 4: the sibling becomes red, the parent is black.
Lowers(s, s2, b, p) == /\ Repaints(s, s2) /\ ~s2.black[b] /\ s2.black[p]
                       /\ SameColors(s.black, s2.black, {b, p})

\* The gap moves up, or a red parent closes it.
LEMMA LowersGap ==
  ASSUME NEW s, NEW A, NEW k, NEW v, NEW q, NEW a, NEW b, NEW p, NEW g, Gaps(s, A, k, v, q, a, b, p, g),
         s.black[b], \A c \in Kids(s, b) : Fine(s, {}, c), NEW s2, Lowers(s, s2, b, p), NEW gap, GapMoves(s, p, gap)
  PROVE  /\ s2 \in TreeType /\ Sound(s2, A, k, {v}, Weight(s2.black, v, gap)) /\ Red(s2, {v}, v)
         /\ s2.black[s2.root] /\ s2.black[q] /\ Stays(s, s2, v, q)
<1>1. /\ s \in TreeType /\ Sound(s, A, k, {v}, Weight(s.black, v, a)) /\ Red(s, {v}, v)
      /\ p \in Node /\ a \in Node /\ b \in Node /\ a # b /\ Kids(s, p) = {a, b} /\ Above(s, v, q)
      /\ a = v \/ (s.black[a] /\ q \in Subs(s)[a] /\ s.black[q])
  BY DEF Gaps
<1>2. /\ v # p /\ v # b /\ q # b /\ q \in Node /\ (v = a => q = p)
      /\ p # a /\ p # b
      /\ \A m \in Node : b \in Kids(s, m) => m = p
      /\ \A c \in Kids(s, b) : c # p /\ c # b
      /\ s.root \in Node /\ s.root # b /\ s.black[s.root]
  BY GapFacts DEF GapsApart
<1>3. Repaints(s, s2) /\ ~s2.black[b] /\ s2.black[p] /\ SameColors(s.black, s2.black, {b, p})
  BY DEF Lowers
<1>4. /\ s2 \in TreeType /\ s2.root = s.root /\ s2.left = s.left /\ s2.right = s.right
      /\ \A m : Kids(s2, m) = Kids(s, m)
      /\ Above(s2, v, q) /\ Sound(s2, A, k, {v}, Weight(s.black, v, a))
  BY <1>1, <1>3, SamePlaces
<1>5. Sound(s2, A, k, {v}, Weight(s2.black, v, gap))
  <2>1. PICK b1 \in [Node -> BOOLEAN] : b1 = s.black
    BY <1>1, FieldTypes
  <2>2. PICK b2 \in [Node -> BOOLEAN] : b2 = s2.black
    BY <1>4, FieldTypes
  <2>3. PICK w \in [Node -> Nat] : w = Weight(b1, v, a)
    BY <2>1, WeightType
  <2>4. PICK w2 \in [Node -> Nat] : w2 = Weight(b2, v, gap)
    BY <2>2, WeightType
  <2>5. PICK d \in Int : d = -1
    OBVIOUS
  <2>6. gap \in {p, NULL} /\ gap # a /\ gap # b /\ p # NULL
    BY <1>1, <1>2, Nodes DEF GapMoves
  <2>7. SameWeights(w, w2, {p, a, b})
    <3>1. SameColors(b1, b2, {p, a, b}) /\ Inside(a, {p, a, b}) /\ Inside(gap, {p, a, b})
      BY <1>3, <2>1, <2>2, <2>6, Nodes DEF SameColors, Inside
    <3> QED BY <2>3, <2>4, <3>1, SameWeight
  <2>8. w2[b] = w[b] + d
    <3>1. w[b] = 1
      BY <1>1, <1>2, <2>1, <2>3, Weighs
    <3>2. w2[b] = 0
      BY <1>1, <1>3, <2>2, <2>4, <2>6, Weighs
    <3> QED BY <2>5, <3>1, <3>2
  <2>9. w2[a] = w[a] + d
    <3>1. b1[a] <=> b2[a]
      BY <1>1, <1>2, <1>3, <2>1, <2>2 DEF SameColors
    <3>2. CASE a # v /\ b1[a]
      <4>1. w[a] = 2
        BY <1>1, <2>3, <3>2, Weighs
      <4>2. w2[a] = 1
        BY <1>1, <2>4, <2>6, <3>1, <3>2, Weighs
      <4> QED BY <2>5, <4>1, <4>2
    <3>3. CASE ~(a # v /\ b1[a])
      <4>1. w[a] = 1
        BY <1>1, <2>3, <3>3, Weighs
      <4>2. w2[a] = 0
        BY <1>1, <2>4, <2>6, <3>1, <3>3, Weighs
      <4> QED BY <2>5, <4>1, <4>2
    <3> QED BY <3>2, <3>3
  <2>10. w2[p] = w[p] - d
    <3>1. b2[p] /\ p # v /\ p # a
      BY <1>2, <1>3, <2>2
    <3>2. CASE b1[p]
      <4>1. gap = p
        BY <2>1, <3>2 DEF GapMoves
      <4>2. w[p] = 1
        BY <1>1, <2>3, <3>1, <3>2, Weighs
      <4>3. w2[p] = 2
        BY <1>1, <2>4, <3>1, <4>1, Weighs
      <4> QED BY <2>5, <4>2, <4>3
    <3>3. CASE ~b1[p]
      <4>1. gap # p
        BY <2>1, <2>6, <3>3 DEF GapMoves
      <4>2. w[p] = 0
        BY <1>1, <2>3, <3>1, <3>3, Weighs
      <4>3. w2[p] = 1
        BY <1>1, <2>4, <3>1, <4>1, Weighs
      <4> QED BY <2>5, <4>2, <4>3
    <3> QED BY <3>2, <3>3
  <2>11. Shifts(w, w2, p, a, b, d)
    BY <2>7, <2>8, <2>9, <2>10 DEF Shifts
  <2>12. Sound(s2, A, k, {v}, w) /\ Kids(s2, p) = {a, b}
    BY <1>1, <1>4, <2>1, <2>3
  <2>13. Sound(s2, A, k, {v}, w2)
    BY <1>1, <1>4, <2>11, <2>12, SoundShift
  <2> QED BY <2>2, <2>4, <2>13
<1>6. Red(s2, {v}, v)
  <2>1. ASSUME NEW m \in Node, m # v, ~s2.black[m], NEW c \in Kids(s2, m), c # NULL, c # v
        PROVE  s2.black[c]
    <3>1. c \in Kids(s, m) /\ c \in Node
      BY <1>1, <1>4, <2>1, FieldTypes DEF Kids, Children, Place
    <3>2. CASE m = b
      <4>1. s.black[c] /\ c # p /\ c # b
        BY <1>2, <2>1, <3>1, <3>2 DEF Fine
      <4> QED BY <1>3, <3>1, <4>1 DEF SameColors
    <3>3. CASE m # b
      <4>1. m # p /\ ~s.black[m]
        BY <1>3, <2>1, <3>3 DEF SameColors
      <4>2. s.black[c] /\ c # b
        BY <1>1, <1>2, <2>1, <3>1, <4>1 DEF Red
      <4> QED BY <1>3, <3>1, <4>2 DEF SameColors
    <3> QED BY <3>2, <3>3
  <2> QED BY <2>1 DEF Red
<1>7. s2.black[s2.root] /\ s2.black[q]
  <2>1. s2.black[s2.root]
    BY <1>2, <1>3, <1>4 DEF SameColors
  <2>2. s2.black[q]
    BY <1>1, <1>2, <1>3 DEF SameColors
  <2> QED BY <2>1, <2>2
<1>8. Stays(s, s2, v, q)
  BY <1>4 DEF Stays
<1> QED BY <1>4, <1>5, <1>6, <1>7, <1>8

\* Case 4: a red parent takes the gap.
LEMMA RebalanceRedParentKeeps ==
  ASSUME IndInv, RebalanceRedParent
  PROVE  IndInv'
<1>1. /\ AtCase3 /\ SiblingAllBlack /\ ~IsBlack(t, At(1)) /\ pc' = "unlink" /\ stack' = stack /\ stack_size' = stack_size
      /\ t' = Paint(Paint(t, Sibling, FALSE), At(1), TRUE)
      /\ UNCHANGED <<key, value, heap, count, node, parent, child, args, ret, freed, hist, lookedup>>
  BY DEF RebalanceRedParent
<1>2. pc \in Filling /\ Len(stack) > 1
  BY <1>1, Case3
<1>3. PICK a, b, p, g : a = At(0) /\ b = Sibling /\ p = At(1) /\ g = At(2)
  OBVIOUS
<1>4. Gaps(t, heap, key, node, parent, a, b, p, g)
  BY <1>2, <1>3, AtSibling
<1>5. t \in TreeType /\ p \in Node /\ b \in Node /\ p # NULL /\ b # NULL /\ p # b
  <2>1. GapsApart(t, node, parent, a, b, p, g)
    BY <1>4, GapFacts
  <2> QED BY <1>4, <2>1, Nodes DEF Gaps, GapsApart
<1>6. t.black[b] /\ (\A c \in Kids(t, b) : Fine(t, {}, c)) /\ ~t.black[p]
  BY <1>1, <1>3, <1>5 DEF SiblingAllBlack, IsBlack, Fine, Kids
<1>7. PICK s2 : s2 = t'
  OBVIOUS
<1>8. Lowers(t, s2, b, p)
  <2>1. PICK s1 : s1 = Redden(t, b)
    OBVIOUS
  <2>2. Repaints(t, s1) /\ ~s1.black[b] /\ SameColors(t.black, s1.black, {b})
    BY <1>5, <2>1, PaintRed
  <2>3. s2 = Blacken(s1, p) /\ s1 \in TreeType
    BY <1>1, <1>3, <1>7, <2>1, <2>2 DEF Blacken, Redden, Repaints
  <2>4. Repaints(s1, s2) /\ s2.black[p] /\ SameColors(s1.black, s2.black, {p})
    BY <1>5, <2>3, PaintBlack
  <2> QED BY <1>5, <2>2, <2>4 DEF Lowers, Repaints, SameColors
<1>9. GapMoves(t, p, NULL)
  BY <1>6 DEF GapMoves
<1>10. /\ s2 \in TreeType /\ Sound(s2, heap, key, {node}, Weight(s2.black, node, NULL)) /\ Red(s2, {node}, node)
       /\ s2.black[s2.root] /\ s2.black[parent] /\ Stays(t, s2, node, parent)
  BY <1>4, <1>6, <1>8, <1>9, LowersGap
<1> QED BY <1>1, <1>2, <1>7, <1>10, ClosedKeeps

\* Case 3: the gap moves up to a black parent.
LEMMA RebalanceUpKeeps ==
  ASSUME IndInv, RebalanceUp
  PROVE  IndInv'
<1>1. /\ AtCase3 /\ SiblingAllBlack /\ IsBlack(t, At(1)) /\ pc' = "rebalance" /\ stack' = Down(1) /\ stack_size' = stack_size
      /\ t' = Paint(t, Sibling, FALSE)
      /\ UNCHANGED <<key, value, heap, count, node, parent, child, args, ret, freed, hist, lookedup>>
  BY DEF RebalanceUp
<1>2. pc \in Filling /\ Len(stack) > 1
  BY <1>1, Case3
<1>3. PICK a, b, p, g : a = At(0) /\ b = Sibling /\ p = At(1) /\ g = At(2)
  OBVIOUS
<1>4. Gaps(t, heap, key, node, parent, a, b, p, g)
  BY <1>2, <1>3, AtSibling
<1>a. GapsApart(t, node, parent, a, b, p, g)
  BY <1>4, GapFacts
<1>5. t \in TreeType /\ p \in Node /\ b \in Node /\ p # NULL /\ b # NULL /\ p # b
  BY <1>4, <1>a, Nodes DEF Gaps, GapsApart
<1>6. t.black[b] /\ (\A c \in Kids(t, b) : Fine(t, {}, c)) /\ t.black[p]
  BY <1>1, <1>3, <1>5 DEF SiblingAllBlack, IsBlack, Fine, Kids
<1>7. PICK s2 : s2 = t'
  OBVIOUS
<1>8. Repaints(t, s2) /\ ~s2.black[b] /\ SameColors(t.black, s2.black, {b})
  BY <1>1, <1>3, <1>5, <1>7, PaintRed DEF Redden
<1>9. Lowers(t, s2, b, p)
  BY <1>5, <1>6, <1>8 DEF Lowers, SameColors
<1>10. GapMoves(t, p, p)
  BY <1>6 DEF GapMoves
<1>11. /\ s2 \in TreeType /\ Sound(s2, heap, key, {node}, Weight(s2.black, node, p)) /\ Red(s2, {node}, node)
       /\ s2.black[s2.root] /\ s2.black[parent] /\ Stays(t, s2, node, parent)
  BY <1>4, <1>6, <1>9, <1>10, LowersGap
<1>12. /\ stack \in Seq(heap) /\ heap \in SUBSET Node /\ IsPath(t, stack) /\ Len(stack) \in Nat
       /\ stack_size \in Nat \ {0} /\ Len(stack) <= stack_size
  BY <1>2, AtGap
<1>13. /\ stack' \in Seq(heap) /\ stack' \in Seq(Node) /\ IsPath(t, stack') /\ stack' # <<>>
       /\ Len(stack') = Len(stack) - 1 /\ stack'[Len(stack')] = p
  BY <1>1, <1>2, <1>3, <1>12, PathDown
<1>14. Len(stack') \in Nat /\ At(0)' = p
  BY <1>2, <1>12, <1>13 DEF At
<1>15. /\ pc \in Removing /\ pc \in Leaving /\ pc' \in Leaving /\ pc' \in Removing /\ pc' \in Filling /\ pc' # "unlink"
       /\ pc' \notin {"idle", "lookup", "exists"} /\ pc' \notin {"insert", "find", "find_max"} /\ pc' # "found"
       /\ pc' # "fix_insert" /\ pc' # "rebalance_black"
  BY <1>1, <1>2 DEF Filling, Leaving, Removing
<1>16. SoundInv'
  <2>1. Gone' = {node} /\ Victim' = node /\ Gap' = p
    BY <1>1, <1>14, <1>15 DEF Gone, Victim, Gap
  <2> QED BY <1>1, <1>7, <1>11, <2>1 DEF SoundInv
<1>17. RedInv'
  <2>1. MayBeRed' = {node} /\ Victim' = node
    BY <1>1, <1>15 DEF MayBeRed, Victim
  <2> QED BY <1>7, <1>11, <2>1 DEF RedInv
<1>18. StackInv'
  <2>1. IsPath(t', stack')
    BY <1>5, <1>7, <1>8, <1>13 DEF IsPath, Repaints, Kids
  <2>2. Len(stack') <= stack_size'
    BY <1>1, <1>12, <1>13
  <2> QED BY <1>1, <1>12, <1>13, <1>15, <2>1, <2>2 DEF StackInv
<1>19. VictimInv'
  <2>1. /\ node \in heap /\ (t.left[node] = NULL \/ t.right[node] = NULL)
        /\ child = IF t.right[node] # NULL THEN t.right[node] ELSE t.left[node]
    BY <1>15 DEF IndInv, VictimInv
  <2> QED BY <1>1, <1>7, <1>11, <1>15, <2>1 DEF VictimInv, Stays
<1>20. GapInv'
  <2>1. Subs(s2) = Subs(t)
    BY <1>5, <1>8, SamePlaces
  <2>2. Subs(t)[a] \subseteq Subs(t)[p] /\ p \in Subs(t)[p]
    <3>1. a \in Kids(t, p) \ {NULL} /\ t \in TreeType /\ Sound(t, heap, key, {node}, Weight(t.black, node, a))
      BY <1>4, Nodes DEF Gaps
    <3> QED BY <1>5, <3>1, TreeFacts
  <2>3. node \in Subs(t)[p] /\ parent \in Subs(t)[p]
    BY <1>4, <1>a, <2>2 DEF Gaps, GapsApart
  <2>4. s2.black[p]
    BY <1>9 DEF Lowers
  <2> QED BY <1>1, <1>7, <1>11, <1>14, <1>15, <2>1, <2>3, <2>4 DEF GapInv
<1>21. parent' \in Place /\ child' \in Place
  BY <1>1 DEF IndInv, Types
<1> QED BY <1>1, <1>7, <1>11, <1>15, <1>16, <1>17, <1>18, <1>19, <1>20, <1>21, LeavingKeeps

\* What is below a stays where it is if a rotation leaves a below its parent m.
LEMMA BelowGap ==
  ASSUME NEW s \in TreeType, NEW A, NEW k, NEW X, NEW w, Sound(s, A, k, X, w), NEW s2, NEW n, NEW p, NEW c, NEW o, NEW i, NEW e,
         Spins(s, s2, n, p, c, o, i, e), NEW m \in Node, NEW a \in Node, a \in Kids(s, m), a \in Kids(s2, m),
         n \notin Subs(s)[a], c \notin Subs(s)[a], p \notin Subs(s)[a],
         NEW v \in Node, v \in Subs(s)[a], NEW q \in Node, Above(s, v, q), v # a => q \in Subs(s)[a]
  PROVE  Stays(s, s2, v, q)
<1>1. \A x \in Node \ {n, c, p} : s2.left[x] = s.left[x] /\ s2.right[x] = s.right[x]
  BY DEF Spins
<1>2. s2.left[v] = s.left[v] /\ s2.right[v] = s.right[v]
  BY <1>1
<1>3. q # NULL /\ q \in Place /\ v \in Kids(s, q)
  BY Nodes DEF Above
<1>4. v \in Kids(s2, q)
  <2>1. CASE v = a
    <3>1. q = m
      <4>1. a \in Kids(s, m) \ {NULL} /\ a \in Kids(s, q)
        BY <1>3, <2>1, Nodes
      <4> QED BY <4>1, TreeFacts
    <3> QED BY <2>1, <3>1
  <2>2. CASE v # a
    BY <1>1, <1>3, <2>2 DEF Kids
  <2> QED BY <2>1, <2>2
<1> QED BY <1>2, <1>3, <1>4 DEF Stays, Above

\* The last node of a path is below all of its nodes.
LEMMA PathNested ==
  ASSUME NEW s \in TreeType, NEW A, NEW k, NEW X, NEW w, Sound(s, A, k, X, w), NEW p \in Seq(Node), IsPath(s, p), p # <<>>
  PROVE  \A j \in 1..Len(p) : p[Len(p)] \in Subs(s)[p[j]]
<1>1. PICK sub : sub = Subs(s)
  OBVIOUS
<1>2. /\ \A n \in Node : n \in sub[n]
      /\ \A n \in Node : \A c \in Kids(s, n) \ {NULL} : sub[c] \subseteq sub[n]
  BY <1>1, TreeFacts
<1>3. PICK l \in Nat : l = Len(p) /\ l > 0
  OBVIOUS
<1>4. /\ \A j \in 1..l : p[j] \in Node
      /\ \A j \in 2..l : p[j] \in Kids(s, p[j - 1])
  BY <1>3 DEF IsPath
<1> DEFINE Bad == {d \in 0..(l - 1) : p[l] \notin sub[p[l - d]]}
<1>5. SUFFICES ASSUME Bad # {} PROVE FALSE
  <2>1. ASSUME Bad = {}, NEW j \in 1..l PROVE p[l] \in sub[p[j]]
    <3>1. l - j \in 0..(l - 1) /\ l - (l - j) = j
      BY <1>3
    <3> QED BY <2>1, <3>1
  <2> QED BY <1>1, <1>3, <1>5, <2>1
<1>6. PICK d \in Bad : \A x \in Bad : d <= x
  <2>1. Bad \in SUBSET Nat
    BY <1>3
  <2> HIDE DEF Bad
  <2> QED BY <1>5, <2>1, LeastNumber
<1>7. d \in 0..(l - 1) /\ d \in Int /\ p[l] \notin sub[p[l - d]]
  BY <1>6
<1>8. d # 0
  <2>1. l - 0 = l /\ l \in 1..l
    BY <1>3
  <2> QED BY <1>2, <1>4, <1>7, <2>1
<1>9. d - 1 \in 0..(l - 1) /\ d - 1 \notin Bad
  <2>1. d - 1 \in 0..(l - 1) /\ ~(d <= d - 1)
    BY <1>3, <1>7, <1>8
  <2> HIDE DEF Bad
  <2> QED BY <1>6, <2>1
<1>10. p[l] \in sub[p[l - (d - 1)]]
  BY <1>9
<1>11. PICK j \in 2..l : j = l - (d - 1) /\ j - 1 = l - d /\ j - 1 \in 1..l /\ j \in 1..l
  <2>1. PICK x \in Int : x = l - (d - 1)
    BY <1>3, <1>7
  <2>2. x \in 2..l /\ x - 1 = l - d /\ x - 1 \in 1..l /\ x \in 1..l
    BY <1>3, <1>7, <1>8, <2>1
  <2> QED BY <2>1, <2>2
<1>12. p[j] \in Kids(s, p[j - 1]) /\ p[j] \in Node /\ p[j - 1] \in Node
  BY <1>4, <1>11
<1>13. p[j] \in Kids(s, p[j - 1]) \ {NULL}
  BY <1>12, Nodes
<1>14. sub[p[j]] \subseteq sub[p[j - 1]]
  BY <1>2, <1>12, <1>13
<1> QED BY <1>7, <1>10, <1>11, <1>14

\* Case 2: a red sibling is rotated above the parent; the new sibling i is black.
LEMMA SiblingRises ==
  ASSUME NEW s, NEW A, NEW k, NEW v, NEW q, NEW a, NEW b, NEW p, NEW g, Gaps(s, A, k, v, q, a, b, p, g),
         ~s.black[b], NEW s2, s2 = Blacken(Redden(s, p), b), NEW s3, s3 = RotateUp(s2, p, g, b)
  PROVE  /\ \E i : Gaps(s3, A, k, v, q, a, i, p, b) /\ s3.black[i]
         /\ \E o, i, e : Spins(s2, s3, p, g, b, o, i, e)
         /\ Repaints(s, s2) /\ Stays(s, s3, v, q)
<1>1. /\ s \in TreeType /\ k \in [Node -> Int] /\ A \in SUBSET Node /\ Sound(s, A, k, {v}, Weight(s.black, v, a)) /\ Red(s, {v}, v)
      /\ p \in Node /\ a \in Node /\ b \in Node /\ a # b /\ Kids(s, p) = {a, b} /\ Above(s, p, g) /\ Above(s, v, q)
      /\ v \in Node /\ v \in Subs(s)[a]
      /\ a = v \/ (s.black[a] /\ q \in Subs(s)[a] /\ s.black[q])
  BY DEF Gaps
<1>2. /\ p \notin Subs(s)[a] /\ b \notin Subs(s)[a] /\ g \notin Subs(s)[a]
      /\ v # p /\ v # b /\ v # g /\ q # b /\ q \in Node /\ (v = a => q = p) /\ (v # a => q \in Subs(s)[a])
      /\ p # a /\ p # b /\ g # a /\ g # b /\ g # p
      /\ \A m \in Node : /\ p \in Kids(s, m) => m = g
                         /\ a \in Kids(s, m) => m = p
                         /\ b \in Kids(s, m) => m = p
      /\ \A c \in Kids(s, b) : c \notin Subs(s)[a] /\ c # p /\ c # b /\ c # a
      /\ s.root \in Node /\ s.root # v /\ s.root # b /\ s.root # a /\ (g = NULL <=> s.root = p) /\ s.black[s.root]
  BY GapFacts DEF GapsApart
<1>3. s.black[p]
  BY <1>1, <1>2, Nodes DEF Red
<1>4. PICK s1 : s1 = Redden(s, p)
  OBVIOUS
<1>5. Repaints(s, s1) /\ ~s1.black[p] /\ SameColors(s.black, s1.black, {p}) /\ s1 \in TreeType
  <2>1. Repaints(s, s1) /\ ~s1.black[p] /\ SameColors(s.black, s1.black, {p})
    BY <1>1, <1>4, PaintRed
  <2> QED BY <2>1 DEF Repaints
<1>6. Repaints(s1, s2) /\ s2.black[b] /\ SameColors(s1.black, s2.black, {b})
  BY <1>1, <1>4, <1>5, PaintBlack
<1>7. /\ Repaints(s, s2) /\ s2.black[b] /\ ~s2.black[p] /\ SameColors(s.black, s2.black, {p, b})
  <2>1. Repaints(s, s2)
    BY <1>5, <1>6 DEF Repaints
  <2>2. SameColors(s.black, s2.black, {p, b}) /\ ~s2.black[p]
    BY <1>1, <1>2, <1>5, <1>6 DEF SameColors
  <2> QED BY <1>6, <2>1, <2>2
<1>8. /\ s2 \in TreeType /\ s2.root = s.root /\ s2.left = s.left /\ s2.right = s.right
      /\ Subs(s2) = Subs(s) /\ (\A m : Kids(s2, m) = Kids(s, m))
      /\ Above(s2, p, g) /\ Above(s2, v, q)
      /\ Sound(s2, A, k, {v}, Weight(s.black, v, a))
  BY <1>1, <1>7, SamePlaces
<1>9. PICK w \in [Node -> Nat] : w = Weight(s.black, v, a)
  BY <1>1, FieldTypes, WeightType
<1>10. PICK w2 \in [Node -> Nat] : w2 = Weight(s2.black, v, a)
  BY <1>8, FieldTypes, WeightType
<1>11. Trades(w, w2, p, b)
  <2>1. PICK b1 \in [Node -> BOOLEAN] : b1 = s.black
    BY <1>1, FieldTypes
  <2>2. PICK b2 \in [Node -> BOOLEAN] : b2 = s2.black
    BY <1>8, FieldTypes
  <2>3. b1[p] /\ ~b1[b] /\ ~b2[p] /\ b2[b] /\ p # v /\ b # v /\ p # a /\ b # a
    BY <1>1, <1>2, <1>3, <1>7, <2>1, <2>2
  <2>4. w[p] = 1 /\ w[b] = 0 /\ w2[p] = 0 /\ w2[b] = 1
    BY <1>1, <1>9, <1>10, <2>1, <2>2, <2>3, Weighs
  <2>5. SameWeights(w, w2, {p, b})
    <3>1. \A m \in Node \ {p, b} : w2[m] = w[m]
      BY <1>7, <1>9, <1>10, <2>1, <2>2, WeightType DEF SameColors
    <3> QED BY <3>1 DEF SameWeights
  <2> QED BY <2>4, <2>5 DEF Trades
<1>12. PICK o, i, e : /\ Spun(s2, s3, A, k, {v}, w2, p, g, b, o, i, e)
                      /\ o = OtherOf(s2, p, b)
  <2>1. b \in Kids(s2, p)
    BY <1>1, <1>8
  <2>2. MaySpin(s2, A, k, {v}, w, p, g, b, w2)
    BY <1>1, <1>2, <1>8, <1>9, <1>10, <1>11, Nodes DEF MaySpin
  <2> QED BY <2>1, <2>2, SpinUp
<1>13. Sound(s3, A, k, {v}, w2) /\ Spins(s2, s3, p, g, b, o, i, e) /\ \A m \in Node \ {p, b} : Subs(s3)[m] = Subs(s)[m]
  BY <1>8, <1>12 DEF Spun
<1>14. /\ s3 \in TreeType /\ s3.black = s2.black /\ s3.root = (IF g = NULL THEN b ELSE s.root)
       /\ Kids(s2, p) = {b, o} /\ Kids(s2, b) = {i, e} /\ Kids(s3, p) = {i, o} /\ Kids(s3, b) = {p, e}
  BY <1>8, <1>13 DEF Spins
<1>15. o = a
  BY <1>1, <1>8, <1>12, <1>14 DEF OtherOf, Kids
<1>16. i \in Kids(s, b) /\ i \notin Subs(s)[a] /\ i # p /\ i # b /\ i # a /\ i \in Place
  <2>1. i \in Kids(s, b)
    BY <1>8, <1>14
  <2> QED BY <1>1, <1>2, <2>1, FieldTypes DEF Kids, Children
<1>17. i # NULL /\ i \in Node
  <2>1. w2[a] > 0
    <3>1. PICK b2 \in [Node -> BOOLEAN] : b2 = s2.black
      BY <1>8, FieldTypes
    <3>2. w2 = Weight(b2, v, a) /\ a \in Node
      BY <1>1, <1>10, <3>1
    <3>3. w2[a] = 1 \/ w2[a] = 2
      BY <3>1, <3>2, Weighs
    <3> QED BY <3>3
  <2>2. Kids(s3, p) = {a, i}
    BY <1>14, <1>15
  <2>3. i # NULL
    BY <1>1, <1>13, <1>14, <2>1, <2>2, SiblingHeight
  <2> QED BY <1>16, <2>3 DEF Place
<1>18. s.black[i] /\ s3.black[i]
  <2>1. v \notin Kids(s, b)
    BY <1>1, <1>2
  <2>2. s.black[i]
    BY <1>1, <1>2, <1>16, <1>17, <2>1 DEF Red
  <2> QED BY <1>7, <1>14, <1>16, <1>17, <2>2 DEF SameColors
<1>19. Stays(s, s3, v, q)
  <2>1. Stays(s2, s3, v, q)
    BY <1>1, <1>2, <1>8, <1>13, <1>14, <1>15, BelowGap
  <2> QED BY <1>8, <2>1 DEF Stays
<1>20. \A d \in Node \ {p, b} : s2.black[d] <=> s.black[d]
  BY <1>7 DEF SameColors
<1>21. Red(s3, {v}, v)
  <2>1. ASSUME NEW m \in Node \ {p, b}, m # v, ~s2.black[m], NEW d \in Kids(s2, m) \ {p}
        PROVE  Fine(s2, {v}, d)
    <3>1. ~s.black[m] /\ d \in Kids(s, m) /\ d # b /\ d \in Place
      BY <1>1, <1>2, <1>8, <1>20, <2>1, FieldTypes DEF Kids, Children
    <3> QED BY <1>1, <1>20, <2>1, <3>1 DEF Red, Fine, Place
  <2>2. Fine(s2, {v}, i)
    BY <1>14, <1>18 DEF Fine
  <2>3. Fine(s2, {v}, o)
    BY <1>1, <1>2, <1>15, <1>20 DEF Fine
  <2>4. \A m \in Node : p \in Kids(s2, m) => m = g
    BY <1>2, <1>8
  <2>5. s2.black[b] /\ Fine(s2, {v}, b)
    BY <1>7 DEF Fine
  <2>6. \A m \in Node \ {p, b} : m = v \/ s2.black[m] \/ \A d \in Kids(s2, m) \ {p} : Fine(s2, {v}, d)
    BY <2>1
  <2>7. p = v \/ s2.black[p] \/ (Fine(s2, {v}, i) /\ Fine(s2, {v}, o))
    BY <2>2, <2>3
  <2>8. b = v \/ s2.black[b] \/ (Fine(s2, {v}, p) /\ Fine(s2, {v}, e))
    BY <2>5
  <2>9. g = NULL \/ g = v \/ s2.black[g] \/ Fine(s2, {v}, b)
    BY <2>5
  <2>10. s2 \in TreeType /\ p \in Node /\ b \in Node /\ Spins(s2, s3, p, g, b, o, i, e)
    BY <1>1, <1>8, <1>13
  <2> QED BY ONLY <2>4, <2>6, <2>7, <2>8, <2>9, <2>10, RedSpin
<1>22. s3.black[s3.root]
  BY <1>1, <1>2, <1>7, <1>14, <1>20
<1>23. a = v \/ (s3.black[a] /\ q \in Subs(s3)[a] /\ s3.black[q])
  <2>1. ASSUME a # v PROVE q \in Subs(s)[a] /\ q # p /\ q # b /\ s.black[q] /\ s.black[a]
    BY <1>1, <1>2, <2>1
  <2> QED BY <1>1, <1>2, <1>13, <1>14, <1>20, <2>1
<1>24. Gaps(s3, A, k, v, q, a, i, p, b)
  <2>1. Above(s3, v, q) /\ v \in Subs(s3)[a]
    BY <1>1, <1>2, <1>13, <1>19 DEF Stays
  <2>2. Above(s3, p, b)
    BY <1>1, <1>14, Nodes DEF Above
  <2>3. Kids(s3, p) = {a, i} /\ a # i
    BY <1>14, <1>15, <1>16
  <2>4. Sound(s3, A, k, {v}, Weight(s3.black, v, a))
    BY <1>10, <1>13, <1>14
  <2> QED BY <1>1, <1>14, <1>17, <1>21, <1>22, <1>23, <2>1, <2>2, <2>3, <2>4 DEF Gaps
<1> QED BY <1>7, <1>13, <1>18, <1>19, <1>24

\* A sequence with one element more.
LEMMA Appended ==
  ASSUME NEW S, NEW d \in Seq(S), NEW x \in S, NEW u, u = Append(d, x)
  PROVE  /\ u \in Seq(S) /\ Len(u) = Len(d) + 1 /\ u[Len(u)] = x /\ u # <<>>
         /\ \A i \in 1..Len(d) : u[i] = d[i]
OBVIOUS

\* A sequence with three elements more.
LEMMA AppendedThree ==
  ASSUME NEW S, NEW d \in Seq(S), NEW x \in S, NEW y \in S, NEW z \in S
  PROVE  d \o <<x, y, z>> = Append(Append(Append(d, x), y), z)
OBVIOUS

\* A path up to g is still there after the rotation of b above p, a child of g.
LEMMA PathSpins ==
  ASSUME NEW s, NEW A, NEW k, NEW v, NEW q, NEW a, NEW b, NEW p, NEW g, Gaps(s, A, k, v, q, a, b, p, g), g # NULL,
         NEW s2, Repaints(s, s2), NEW s3, NEW o, NEW i, NEW e, Spins(s2, s3, p, g, b, o, i, e),
         NEW d \in Seq(Node), IsPath(s, d), d # <<>>, d[Len(d)] = g
  PROVE  IsPath(s3, d) /\ b \in Kids(s3, g)
<1>1. /\ s \in TreeType /\ Sound(s, A, k, {v}, Weight(s.black, v, a)) /\ p \in Node /\ b \in Node
      /\ Kids(s, p) = {a, b} /\ Above(s, p, g)
  BY DEF Gaps
<1>2. g \in Node /\ p \in Kids(s, g) \ {NULL} /\ b \in Kids(s, p) \ {NULL}
  BY <1>1, Nodes DEF Above, Place
<1>3. g \notin Subs(s)[p] /\ g \notin Subs(s)[b]
  <2>1. g \notin Subs(s)[p]
    BY <1>1, <1>2, TreeFacts
  <2>2. Subs(s)[b] \subseteq Subs(s)[p]
    BY <1>1, <1>2, TreeFacts
  <2> QED BY <2>1, <2>2
<1>4. \A j \in 1..Len(d) : g \in Subs(s)[d[j]]
  BY <1>1, PathNested
<1>5. \A j \in 1..Len(d) : d[j] \in Node /\ d[j] # p /\ d[j] # b
  BY <1>3, <1>4
<1>6. /\ s3.root = s.root /\ (\A m \in Node \ {p, b, g} : Kids(s3, m) = Kids(s, m))
      /\ Kids(s3, g) = (Kids(s, g) \ {p}) \cup {b}
  <2>1. s2.root = s.root /\ s2 \in TreeType /\ \A m : Kids(s2, m) = Kids(s, m)
    BY <1>1, SamePlaces
  <2>2. s3.root = s2.root /\ Kids(s3, g) = (Kids(s2, g) \ {p}) \cup {b}
    BY DEF Spins
  <2>3. \A m \in Node \ {p, b, g} : Kids(s3, m) = Kids(s2, m)
    BY DEF Spins, Kids
  <2> QED BY <2>1, <2>2, <2>3
<1>7. d[1] = s.root /\ \A j \in 2..Len(d) : d[j] \in Kids(s, d[j - 1])
  BY DEF IsPath
<1>8. ASSUME NEW j \in 2..Len(d) PROVE d[j] \in Kids(s3, d[j - 1])
  <2>1. j \in 1..Len(d) /\ j - 1 \in 1..Len(d)
    BY <1>8
  <2>2. d[j - 1] \in Node \ {p, b} /\ d[j] # p /\ d[j] \in Kids(s, d[j - 1])
    BY <1>5, <1>7, <2>1
  <2> QED BY <1>6, <2>2
<1> QED BY <1>6, <1>7, <1>8 DEF IsPath

\* The path ends with g, p and a.
OnStack(a, p, g) == /\ stack \in Seq(heap) /\ heap \in SUBSET Node /\ IsPath(t, stack) /\ Len(stack) > 1
                    /\ a = At(0) /\ p = At(1) /\ g = At(2) /\ a \in heap /\ p \in heap

\* A path, one longer, that ends with p and a.
Turns(s, path, a, p) == /\ path \in Seq(heap) /\ IsPath(s, path) /\ Len(path) = Len(stack) + 1
                        /\ path[Len(path)] = a /\ path[Len(path) - 1] = p

\* The path after case 2.
LEMMA PathTurns ==
  ASSUME NEW v, NEW q, NEW a, NEW b, NEW p, NEW g, Gaps(t, heap, key, v, q, a, b, p, g), OnStack(a, p, g), b \in heap,
         NEW s2, Repaints(t, s2), NEW s3, NEW o, NEW i, NEW e, Spins(s2, s3, p, g, b, o, i, e), a \in Kids(s3, p),
         NEW path, path = Down(2) \o <<b, p, a>>
  PROVE  Turns(s3, path, a, p)
<1> USE DEF OnStack
<1>1. Len(stack) \in Nat /\ stack # <<>> /\ Len(stack) > 1
  OBVIOUS
<1>2. g # NULL <=> Len(stack) > 2
  BY <1>1, PathTop
<1>3. PICK d : d = Down(2)
  OBVIOUS
<1>4. /\ d \in Seq(heap) /\ Len(d) = Len(stack) - 2 /\ IsPath(s3, d)
      /\ (d = <<>> => b = s3.root) /\ (d # <<>> => b \in Kids(s3, d[Len(d)]))
  <2>1. CASE g = NULL
    <3>1. Len(stack) = 2
      <4>1. PICK l \in Nat : l = Len(stack)
        BY <1>1
      <4>2. l > 1 /\ ~(l > 2)
        BY <1>1, <1>2, <2>1, <4>1
      <4>3. l = 2
        BY ONLY <4>2, l \in Nat
      <4> QED BY <4>1, <4>3
    <3>2. d = SubSeq(stack, 1, 0)
      BY <1>3, <3>1 DEF Down
    <3>3. d = <<>> /\ Len(d) = 0
      BY <3>2
    <3>4. s3.root = b
      BY <2>1 DEF Spins
    <3> QED BY <3>1, <3>3, <3>4 DEF IsPath
  <2>2. CASE g # NULL
    <3>1. 2 \in Nat /\ 2 < Len(stack)
      BY <1>1, <1>2, <2>2
    <3>2. d \in Seq(heap) /\ d \in Seq(Node) /\ IsPath(t, d) /\ d # <<>> /\ Len(d) = Len(stack) - 2 /\ d[Len(d)] = g
      BY <1>3, <3>1, PathDown
    <3>3. IsPath(s3, d) /\ b \in Kids(s3, g)
      BY <2>2, <3>2, PathSpins
    <3> QED BY <3>2, <3>3
  <2> QED BY <2>1, <2>2
<1>5. Kids(s3, b) = {p, e}
  BY DEF Spins
<1>6. PICK d1 : d1 = Append(d, b)
  OBVIOUS
<1>7. d1 \in Seq(heap) /\ Len(d1) = Len(d) + 1 /\ d1[Len(d1)] = b /\ d1 # <<>>
  BY <1>4, <1>6, Appended
<1>8. IsPath(s3, d1)
  BY <1>4, <1>6, PathAppend
<1>9. PICK d2 : d2 = Append(d1, p)
  OBVIOUS
<1>10. d2 \in Seq(heap) /\ Len(d2) = Len(d1) + 1 /\ d2[Len(d2)] = p /\ d2 # <<>>
  BY <1>7, <1>9, Appended
<1>11. IsPath(s3, d2)
  BY <1>5, <1>7, <1>8, <1>9, PathAppend
<1>12. path = Append(d2, a)
  <2>1. path = d \o <<b, p, a>>
    BY <1>3
  <2> QED BY ONLY <1>4, <1>6, <1>9, <2>1, heap \in SUBSET Node, a \in heap, b \in heap, p \in heap, AppendedThree
<1>13. path \in Seq(heap) /\ Len(path) = Len(d2) + 1 /\ path[Len(path)] = a /\ path[Len(d2)] = d2[Len(d2)]
  <2>1. path \in Seq(heap) /\ Len(path) = Len(d2) + 1 /\ path[Len(path)] = a /\ \A j \in 1..Len(d2) : path[j] = d2[j]
    BY ONLY <1>10, <1>12, a \in heap, Appended
  <2>2. Len(d2) \in 1..Len(d2)
    BY <1>10
  <2> QED BY <2>1, <2>2
<1>14. IsPath(s3, path)
  BY <1>10, <1>11, <1>12, PathAppend
<1>15. Len(d) \in Nat /\ Len(d2) = Len(stack) /\ Len(path) = Len(stack) + 1 /\ Len(path) - 1 = Len(d2)
  BY <1>1, <1>4, <1>7, <1>10, <1>13
<1> QED BY <1>10, <1>13, <1>14, <1>15 DEF Turns

\* Case 2 leaves a gap with a black sibling, one level deeper.
LEMMA RebalanceRedSiblingKeeps ==
  ASSUME IndInv, RebalanceRedSibling
  PROVE  IndInv'
<1>1. /\ pc = "rebalance" /\ Len(stack) > 1 /\ ~IsBlack(t, Sibling) /\ pc' = "rebalance_black"
      /\ t' = LET s == Paint(Paint(t, At(1), FALSE), Sibling, TRUE)
              IN  IF t.left[At(1)] = At(0) THEN RotateLeft(s, At(1), At(2)) ELSE RotateRight(s, At(1), At(2))
      /\ stack' = Down(2) \o <<Sibling, At(1), At(0)>> /\ stack_size' = Grown(Len(stack), stack_size)
      /\ UNCHANGED <<key, value, heap, count, node, parent, child, args, ret, freed, hist, lookedup>>
  BY DEF RebalanceRedSibling, PathBelow
<1>2. pc \in Filling
  BY <1>1 DEF Filling
<1>3. PICK a, b, p, g : a = At(0) /\ b = Sibling /\ p = At(1) /\ g = At(2)
  OBVIOUS
<1>4. Gaps(t, heap, key, node, parent, a, b, p, g) /\ p \in heap /\ b \in heap
  BY <1>1, <1>2, <1>3, AtSibling
<1>5. /\ stack \in Seq(heap) /\ heap \in SUBSET Node /\ IsPath(t, stack) /\ Len(stack) \in Nat
      /\ stack_size \in Nat \ {0} /\ Len(stack) <= stack_size /\ a \in heap
  BY <1>2, <1>3, AtGap
<1>6. t \in TreeType /\ p \in Node /\ b \in Node /\ a \in Node /\ Kids(t, p) = {a, b} /\ a # b
  BY <1>4 DEF Gaps
<1>7. ~t.black[b]
  BY <1>1, <1>3 DEF IsBlack
<1>8. PICK s2 : s2 = Blacken(Redden(t, p), b)
  OBVIOUS
<1>9. PICK s3 : s3 = t'
  OBVIOUS
<1>10. s3 = RotateUp(s2, p, g, b)
  <2>1. s2.left[p] = t.left[p]
    BY <1>6, <1>8 DEF Blacken, Redden, Paint, TreeType
  <2>2. t.left[p] = b <=> t.left[p] # a
    BY <1>6 DEF Kids
  <2> QED BY <1>1, <1>3, <1>8, <1>9, <2>1, <2>2 DEF RotateUp, Blacken, Redden
<1>11. /\ \E i : Gaps(s3, heap, key, node, parent, a, i, p, b) /\ s3.black[i]
       /\ \E o, i, e : Spins(s2, s3, p, g, b, o, i, e)
       /\ Repaints(t, s2) /\ Stays(t, s3, node, parent)
  BY <1>4, <1>7, <1>8, <1>10, SiblingRises
<1>12. PICK i : Gaps(s3, heap, key, node, parent, a, i, p, b) /\ s3.black[i]
  BY <1>11
<1>13. PICK o, i1, e : Spins(s2, s3, p, g, b, o, i1, e)
  BY <1>11
<1>14. /\ s3 \in TreeType /\ Sound(s3, heap, key, {node}, Weight(s3.black, node, a)) /\ Red(s3, {node}, node)
       /\ s3.root # NULL => s3.black[s3.root] \/ s3.root = node
       /\ Kids(s3, p) = {a, i} /\ a # i /\ i \in Node /\ node \in Subs(s3)[a]
       /\ a = node \/ (s3.black[a] /\ parent \in Subs(s3)[a] /\ s3.black[parent])
  BY <1>12 DEF Gaps
<1>15. PICK path : path = stack'
  OBVIOUS
<1>16. /\ path \in Seq(heap) /\ IsPath(s3, path) /\ Len(path) = Len(stack) + 1
       /\ path[Len(path)] = a /\ path[Len(path) - 1] = p
  <2>1. path = Down(2) \o <<b, p, a>> /\ a \in Kids(s3, p)
    BY <1>1, <1>3, <1>14, <1>15
  <2>2. OnStack(a, p, g) /\ Repaints(t, s2)
    BY <1>1, <1>3, <1>4, <1>5, <1>11 DEF OnStack
  <2>3. Turns(s3, path, a, p)
    BY <1>4, <1>13, <2>1, <2>2, PathTurns
  <2> QED BY <2>3 DEF Turns
<1>17. Len(path) \in Nat /\ Len(path) > 2 /\ At(0)' = a /\ At(1)' = p
  <2>1. Len(path) \in Nat /\ Len(path) > 2
    BY <1>1, <1>5, <1>16
  <2> QED BY <1>15, <1>16, <2>1 DEF At
<1>18. /\ pc \in Removing /\ pc \in Leaving /\ pc' \in Leaving /\ pc' \in Removing /\ pc' \in Filling /\ pc' # "unlink"
       /\ pc' \notin {"idle", "lookup", "exists"} /\ pc' \notin {"insert", "find", "find_max"} /\ pc' # "found"
       /\ pc' # "fix_insert"
  BY <1>1, <1>2 DEF Filling, Leaving, Removing
<1>19. SoundInv'
  <2>1. Gone' = {node} /\ Victim' = node /\ Gap' = a
    BY <1>1, <1>17, <1>18 DEF Gone, Victim, Gap
  <2> QED BY <1>1, <1>9, <1>14, <2>1 DEF SoundInv
<1>20. RedInv'
  <2>1. MayBeRed' = {node} /\ Victim' = node
    BY <1>1, <1>18 DEF MayBeRed, Victim
  <2> QED BY <1>9, <1>14, <2>1 DEF RedInv
<1>21. StackInv'
  <2>1. stack_size' \in Nat \ {0} /\ Len(stack') <= stack_size'
    BY <1>1, <1>5, <1>15, <1>16, GrownFits
  <2>2. stack' \in Seq(heap) /\ stack' \in Seq(Node) /\ IsPath(t', stack') /\ stack' # <<>>
    <3>1. path \in Seq(Node) /\ path # <<>>
      BY <1>5, <1>16, <1>17
    <3> QED BY <1>9, <1>15, <1>16, <3>1
  <2> QED BY <1>1, <1>18, <2>1, <2>2 DEF StackInv
<1>22. VictimInv'
  <2>1. /\ node \in heap /\ (t.left[node] = NULL \/ t.right[node] = NULL)
        /\ child = IF t.right[node] # NULL THEN t.right[node] ELSE t.left[node]
    BY <1>18 DEF IndInv, VictimInv
  <2> QED BY <1>1, <1>9, <1>11, <1>18, <2>1 DEF VictimInv, Stays
<1>23. GapInv'
  <2>1. IsBlack(t, Sibling)'
    <3>1. Sibling' = SiblingOf(s3, a, p)
      BY <1>9, <1>17 DEF Sibling
    <3>2. SiblingOf(s3, a, p) = i
      BY <1>14 DEF SiblingOf, Kids
    <3> QED BY <1>9, <1>12, <3>1, <3>2 DEF IsBlack
  <2>2. Len(stack') > 2
    BY <1>15, <1>17
  <2> QED BY <1>1, <1>9, <1>14, <1>17, <1>18, <2>1, <2>2 DEF GapInv
<1>24. parent' \in Place /\ child' \in Place
  BY <1>1 DEF IndInv, Types
<1> QED BY <1>1, <1>9, <1>14, <1>18, <1>19, <1>20, <1>21, <1>22, <1>23, <1>24, LeavingKeeps

\* The children of the sibling b of a: the one on the side of a, and the other.
Near(s, a, p, b) == IF a = s.left[p] THEN s.left[b] ELSE s.right[b]
Far(s, a, p, b)  == IF a = s.left[p] THEN s.right[b] ELSE s.left[b]

\* After the near child of b has been rotated above b, b is its far child.
LEMMA FarSide ==
  ASSUME NEW s, NEW A, NEW k, NEW X, NEW w, NEW w2, NEW a, NEW b, NEW p, NEW c, MaySpin(s, A, k, X, w, b, p, c, w2),
         p \in Node, a \in Node, Kids(s, p) = {a, b}, a # b, c = Near(s, a, p, b), c # a, c # p, NEW s2, s2 = RotateUp(s, b, p, c)
  PROVE  Far(s2, a, p, c) = b
<1>1. /\ s \in TreeType /\ Sound(s, A, k, X, w) /\ b \in Node /\ Above(s, b, p) /\ c \in Node /\ c # NULL /\ p # NULL /\ a # NULL
  BY Nodes DEF MaySpin
<1>2. PICK sub \in Subtrees : Tree(s.left, s.right, s.root, A, sub)
  BY <1>1 DEF Sound
<1>3. c # b /\ p # b
  <2>1. b \in Kids(s, p) \ {NULL} /\ c \in Kids(s, b) \ {NULL}
    BY <1>1, Nodes DEF Near, Kids
  <2> QED BY <1>1, <2>1, TreeFacts
<1>4. CASE a = s.left[p]
  <2>1. c = s.left[b] /\ s.right[p] = b
    BY <1>4 DEF Near, Kids
  <2>2. s2 = RotateRight(s, b, p) /\ s.left[b] # NULL
    BY <1>1, <2>1 DEF RotateUp
  <2>3. Rotates(s.right, s.left, s.root, s2.right, s2.left, s2.root, b, p)
    BY <1>1, <1>2, <2>2, RotateRightFields
  <2>4. s2.left[p] = a /\ s2.right[c] = b
    BY <1>1, <1>3, <1>4, <2>1, <2>3 DEF Rotates
  <2> QED BY <2>4 DEF Far
<1>5. CASE a # s.left[p]
  <2>1. c = s.right[b] /\ s.left[p] = b /\ s.right[p] = a
    BY <1>5 DEF Near, Kids
  <2>2. s.left[b] # c
    <3>1. s.left[b] # NULL => s.left[b] # s.right[b]
      BY <1>1, TreeFacts
    <3> QED BY <1>1, <2>1, <3>1
  <2>3. s2 = RotateLeft(s, b, p) /\ s.right[b] # NULL
    BY <1>1, <2>1, <2>2 DEF RotateUp
  <2>4. Rotates(s.left, s.right, s.root, s2.left, s2.right, s2.root, b, p)
    BY <1>1, <1>2, <2>3, RotateLeftFields
  <2>5. s2.left[p] = c /\ s2.left[c] = b
    BY <1>1, <1>3, <2>1, <2>4 DEF Rotates
  <2> QED BY <2>5 DEF Far
<1> QED BY <1>4, <1>5

\* Case 5: the red near child c of the black sibling b is rotated above it.
LEMMA TurnsFar ==
  ASSUME NEW s, NEW A, NEW k, NEW v, NEW q, NEW a, NEW b, NEW p, NEW g, Gaps(s, A, k, v, q, a, b, p, g),
         s.black[b], NEW c, c = Near(s, a, p, b), c # NULL, ~s.black[c], Fine(s, {}, Far(s, a, p, b)),
         NEW s2, s2 = Blacken(Redden(s, b), c), NEW s3, s3 = RotateUp(s2, b, p, c)
  PROVE  /\ Gaps(s3, A, k, v, q, a, c, p, g) /\ s3.black[c] /\ Far(s3, a, p, c) = b /\ ~s3.black[b]
         /\ Stays(s, s3, v, q)
<1>1. /\ s \in TreeType /\ k \in [Node -> Int] /\ A \in SUBSET Node /\ Sound(s, A, k, {v}, Weight(s.black, v, a)) /\ Red(s, {v}, v)
      /\ p \in Node /\ a \in Node /\ b \in Node /\ a # b /\ Kids(s, p) = {a, b} /\ Above(s, p, g) /\ Above(s, v, q)
      /\ v \in Node /\ v \in Subs(s)[a]
      /\ a = v \/ (s.black[a] /\ q \in Subs(s)[a] /\ s.black[q])
  BY DEF Gaps
<1>2. /\ p \notin Subs(s)[a] /\ b \notin Subs(s)[a] /\ g \notin Subs(s)[a]
      /\ v # p /\ v # b /\ v # g /\ q # b /\ q \in Node /\ (v = a => q = p) /\ (v # a => q \in Subs(s)[a])
      /\ p # a /\ p # b /\ g # a /\ g # b /\ g # p
      /\ \A m \in Node : /\ p \in Kids(s, m) => m = g
                         /\ a \in Kids(s, m) => m = p
                         /\ b \in Kids(s, m) => m = p
      /\ \A d \in Kids(s, b) : d \notin Subs(s)[a] /\ d # p /\ d # b /\ d # a
      /\ s.root \in Node /\ s.root # v /\ s.root # b /\ s.root # a /\ (g = NULL <=> s.root = p) /\ s.black[s.root]
  BY GapFacts DEF GapsApart
<1>3. c \in Kids(s, b) /\ Far(s, a, p, b) \in Kids(s, b) /\ Kids(s, b) = {c, Far(s, a, p, b)}
  BY DEF Near, Far, Kids
<1>4. c \in Node /\ c \notin Subs(s)[a] /\ c # p /\ c # b /\ c # a /\ c # v
  <2>1. c \in Node
    BY <1>1, <1>3, FieldTypes DEF Kids, Children, Place
  <2> QED BY <1>1, <1>2, <1>3, <2>1
<1>5. PICK s1 : s1 = Redden(s, b)
  OBVIOUS
<1>6. Repaints(s, s1) /\ ~s1.black[b] /\ SameColors(s.black, s1.black, {b}) /\ s1 \in TreeType
  <2>1. Repaints(s, s1) /\ ~s1.black[b] /\ SameColors(s.black, s1.black, {b})
    BY <1>1, <1>5, PaintRed
  <2> QED BY <2>1 DEF Repaints
<1>7. Repaints(s1, s2) /\ s2.black[c] /\ SameColors(s1.black, s2.black, {c})
  BY <1>4, <1>5, <1>6, PaintBlack
<1>8. Repaints(s, s2) /\ s2.black[c] /\ ~s2.black[b] /\ SameColors(s.black, s2.black, {b, c})
  <2>1. Repaints(s, s2)
    BY <1>6, <1>7 DEF Repaints
  <2>2. SameColors(s.black, s2.black, {b, c}) /\ ~s2.black[b]
    BY <1>1, <1>4, <1>6, <1>7 DEF SameColors
  <2> QED BY <1>7, <2>1, <2>2
<1>9. /\ s2 \in TreeType /\ s2.root = s.root /\ s2.left = s.left /\ s2.right = s.right
      /\ Subs(s2) = Subs(s) /\ (\A m : Kids(s2, m) = Kids(s, m))
      /\ Above(s2, v, q) /\ Sound(s2, A, k, {v}, Weight(s.black, v, a))
  BY <1>1, <1>8, SamePlaces
<1>10. PICK w \in [Node -> Nat] : w = Weight(s.black, v, a)
  BY <1>1, FieldTypes, WeightType
<1>11. PICK w2 \in [Node -> Nat] : w2 = Weight(s2.black, v, a)
  BY <1>9, FieldTypes, WeightType
<1>12. Trades(w, w2, b, c)
  <2>1. PICK b1 \in [Node -> BOOLEAN] : b1 = s.black
    BY <1>1, FieldTypes
  <2>2. PICK b2 \in [Node -> BOOLEAN] : b2 = s2.black
    BY <1>9, FieldTypes
  <2>3. b1[b] /\ ~b1[c] /\ ~b2[b] /\ b2[c] /\ b # v /\ c # v /\ b # a /\ c # a
    BY <1>1, <1>2, <1>4, <1>8, <2>1, <2>2
  <2>4. w[b] = 1 /\ w[c] = 0 /\ w2[b] = 0 /\ w2[c] = 1
    BY <1>1, <1>4, <1>10, <1>11, <2>1, <2>2, <2>3, Weighs
  <2>5. SameWeights(w, w2, {b, c})
    <3>1. \A m \in Node \ {b, c} : w2[m] = w[m]
      BY <1>8, <1>10, <1>11, <2>1, <2>2, WeightType DEF SameColors
    <3> QED BY <3>1 DEF SameWeights
  <2> QED BY <2>4, <2>5 DEF Trades
<1>13. MaySpin(s2, A, k, {v}, w, b, p, c, w2) /\ c \in Kids(s2, b)
  <2>1. Above(s2, b, p)
    BY <1>1, <1>9, Nodes DEF Above
  <2> QED BY <1>1, <1>2, <1>3, <1>4, <1>9, <1>10, <1>11, <1>12, <2>1, Nodes DEF MaySpin
<1>14. PICK o, i, e : Spun(s2, s3, A, k, {v}, w2, b, p, c, o, i, e) /\ o = OtherOf(s2, b, c)
  BY <1>13, SpinUp
<1>15. Sound(s3, A, k, {v}, w2) /\ Spins(s2, s3, b, p, c, o, i, e) /\ \A m \in Node \ {b, c} : Subs(s3)[m] = Subs(s)[m]
  BY <1>9, <1>14 DEF Spun
<1>16. /\ s3 \in TreeType /\ s3.black = s2.black /\ s3.root = s.root
       /\ Kids(s2, b) = {c, o} /\ Kids(s2, c) = {i, e} /\ Kids(s3, b) = {i, o} /\ Kids(s3, c) = {b, e}
       /\ Kids(s3, p) = (Kids(s2, p) \ {b}) \cup {c}
       /\ \A m \in Node \ {b, c, p} : Kids(s3, m) = Kids(s, m)
  <2>1. p # NULL
    BY <1>1, Nodes
  <2>2. \A m \in Node \ {b, c, p} : Kids(s3, m) = Kids(s, m)
    BY <1>9, <1>15 DEF Spins, Kids
  <2> QED BY <1>9, <1>15, <2>1, <2>2 DEF Spins
<1>17. Kids(s3, p) = {a, c}
  BY <1>1, <1>4, <1>9, <1>16
<1>18. Far(s3, a, p, c) = b
  <2>1. c = Near(s2, a, p, b) /\ Kids(s2, p) = {a, b}
    BY <1>1, <1>9 DEF Near
  <2>2. p \in Node /\ a \in Node /\ a # b /\ c # a /\ c # p
    BY <1>1, <1>4
  <2> QED BY ONLY <1>13, <2>1, <2>2, s3 = RotateUp(s2, b, p, c), FarSide
<1>19. Stays(s, s3, v, q)
  <2>1. Stays(s2, s3, v, q)
    BY <1>1, <1>2, <1>4, <1>9, <1>15, <1>17, BelowGap
  <2> QED BY <1>9, <2>1 DEF Stays
<1>20. \A d \in Node \ {b, c} : s2.black[d] <=> s.black[d]
  BY <1>8 DEF SameColors
<1>21. Red(s3, {v}, v)
  <2>1. ASSUME NEW m \in Node \ {b, c}, m # v, ~s2.black[m], NEW d \in Kids(s2, m) \ {b}
        PROVE  Fine(s2, {v}, d)
    <3>1. ~s.black[m] /\ d \in Kids(s, m) /\ d \in Place
      BY <1>1, <1>9, <1>20, <2>1, FieldTypes DEF Kids, Children
    <3>2. d = NULL \/ d = v \/ (s.black[d] /\ d \in Node)
      BY <1>1, <2>1, <3>1 DEF Red, Place
    <3>3. d = c => s2.black[d]
      BY <1>8
    <3> QED BY <1>20, <2>1, <3>2, <3>3 DEF Fine
  <2>2. Fine(s2, {v}, i)
    <3>1. i \in Kids(s, c) /\ i \in Place
      <4>1. i \in Kids(s, c)
        BY <1>9, <1>16
      <4> QED BY <1>1, <1>4, <4>1, FieldTypes DEF Kids, Children
    <3>2. i = NULL \/ (i \in Node /\ i # c /\ i # b /\ (i = v \/ s.black[i]))
      <4>1. ASSUME i # NULL PROVE i \in Node /\ i # c /\ i # b /\ (i = v \/ s.black[i])
        <5>1. i \in Node /\ i \in Kids(s, c) \ {NULL} /\ c \in Kids(s, b) \ {NULL}
          BY <1>3, <1>4, <3>1, <4>1, Nodes DEF Place
        <5>2. i # c /\ i # b
          BY <1>1, <1>2, <1>4, <5>1, TreeFacts
        <5>3. i = v \/ s.black[i]
          BY <1>1, <1>4, <5>1 DEF Red
        <5> QED BY <5>1, <5>2, <5>3
      <4> QED BY <4>1
    <3> QED BY <1>20, <3>2 DEF Fine
  <2>3. Fine(s2, {v}, o)
    <3>1. o = Far(s, a, p, b)
      <4>1. s.left[b] # NULL => s.left[b] # s.right[b]
        BY <1>1, TreeFacts
      <4> QED BY <1>9, <1>14, <4>1 DEF OtherOf, Far, Near
    <3>2. o = NULL \/ (o \in Node /\ o # c /\ o # b /\ s.black[o])
      <4>1. o \in Place /\ o # b
        BY <1>1, <1>2, <1>3, <3>1, FieldTypes DEF Kids, Children
      <4> QED BY <3>1, <4>1 DEF Fine, Place
    <3> QED BY <1>20, <3>2 DEF Fine
  <2>4. \A m \in Node : b \in Kids(s2, m) => m = p
    BY <1>2, <1>9
  <2>5. s2.black[c] /\ Fine(s2, {v}, c)
    BY <1>8 DEF Fine
  <2>6. \A m \in Node \ {b, c} : m = v \/ s2.black[m] \/ \A d \in Kids(s2, m) \ {b} : Fine(s2, {v}, d)
    BY <2>1
  <2>7. b = v \/ s2.black[b] \/ (Fine(s2, {v}, i) /\ Fine(s2, {v}, o))
    BY <2>2, <2>3
  <2>8. c = v \/ s2.black[c] \/ (Fine(s2, {v}, b) /\ Fine(s2, {v}, e))
    BY <2>5
  <2>9. p = NULL \/ p = v \/ s2.black[p] \/ Fine(s2, {v}, c)
    BY <2>5
  <2>10. s2 \in TreeType /\ b \in Node /\ c \in Node /\ Spins(s2, s3, b, p, c, o, i, e)
    BY <1>1, <1>4, <1>9, <1>15
  <2> QED BY ONLY <2>4, <2>6, <2>7, <2>8, <2>9, <2>10, RedSpin
<1>22. s3.black[s3.root]
  BY <1>2, <1>8, <1>16, <1>20
<1>23. a = v \/ (s3.black[a] /\ q \in Subs(s3)[a] /\ s3.black[q])
  <2>1. ASSUME a # v PROVE q \in Subs(s)[a] /\ q # c /\ q # b /\ s.black[q] /\ s.black[a]
    BY <1>1, <1>2, <1>4, <2>1
  <2> QED BY <1>1, <1>2, <1>4, <1>15, <1>16, <1>20, <2>1
<1>24. Gaps(s3, A, k, v, q, a, c, p, g)
  <2>1. Above(s3, v, q) /\ v \in Subs(s3)[a]
    BY <1>1, <1>4, <1>15, <1>19 DEF Stays
  <2>2. Above(s3, p, g)
    <3>1. CASE g = NULL
      BY <1>1, <1>16, <3>1 DEF Above
    <3>2. CASE g # NULL
      <4>1. g \in Node /\ p \in Kids(s, g)
        BY <1>1, <3>2 DEF Above, Place
      <4>2. g # c
        <5>1. p \in Kids(s, g) \ {NULL} /\ b \in Kids(s, p) \ {NULL} /\ c \in Kids(s, b) \ {NULL}
          BY <1>1, <1>3, <4>1, Nodes
        <5>2. p \notin Subs(s)[b] /\ c \in Subs(s)[c] /\ Subs(s)[c] \subseteq Subs(s)[b] /\ p \in Subs(s)[p] /\ Subs(s)[p] \subseteq Subs(s)[g]
          BY <1>1, <1>4, <4>1, <5>1, TreeFacts
        <5> QED BY <5>2
      <4>3. Kids(s3, g) = Kids(s, g)
        BY <1>2, <1>16, <4>1, <4>2
      <4> QED BY <1>1, <3>2, <4>1, <4>3 DEF Above
    <3> QED BY <3>1, <3>2
  <2>3. Sound(s3, A, k, {v}, Weight(s3.black, v, a))
    BY <1>11, <1>15, <1>16
  <2> QED BY <1>1, <1>4, <1>16, <1>17, <1>21, <1>22, <1>23, <2>1, <2>2, <2>3 DEF Gaps
<1> QED BY <1>8, <1>16, <1>18, <1>19, <1>24

\* Case 6: the colors before the sibling b is rotated above p; c is its red far
\* child.
Recolors(s, s2, b, p, c) == /\ Repaints(s, s2) /\ (s2.black[b] <=> s.black[p]) /\ s2.black[p] /\ s2.black[c]
                            /\ SameColors(s.black, s2.black, {b, p, c})

\* The weights of case 6: the gap's goes to p, then to b, from there to p and c.
LEMMA FillsSound ==
  ASSUME NEW s, NEW A, NEW k, NEW v, NEW q, NEW a, NEW b, NEW p, NEW g, Gaps(s, A, k, v, q, a, b, p, g),
         s.black[b], NEW c \in Node, c = Far(s, a, p, b), ~s.black[c], c # a, c # p, c # b, c # v,
         NEW s2, Recolors(s, s2, b, p, c), NEW s3, s3 = RotateUp(s2, p, g, b)
  PROVE  /\ Sound(s3, A, k, {v}, Weight(s3.black, v, NULL))
         /\ \E i : Spins(s2, s3, p, g, b, a, i, c)
<1>1. /\ s \in TreeType /\ k \in [Node -> Int] /\ Sound(s, A, k, {v}, Weight(s.black, v, a))
      /\ p \in Node /\ a \in Node /\ b \in Node /\ a # b /\ Kids(s, p) = {a, b} /\ Above(s, p, g)
  BY DEF Gaps
<1>2. v # p /\ v # b /\ p # a /\ p # b
  BY GapFacts DEF GapsApart
<1>3. Repaints(s, s2) /\ (s2.black[b] <=> s.black[p]) /\ s2.black[p] /\ s2.black[c] /\ SameColors(s.black, s2.black, {b, p, c})
  BY DEF Recolors
<1>4. /\ s2 \in TreeType /\ s2.left = s.left /\ s2.right = s.right /\ (\A m : Kids(s2, m) = Kids(s, m))
      /\ Above(s2, p, g) /\ Sound(s2, A, k, {v}, Weight(s.black, v, a))
  BY <1>1, <1>3, SamePlaces
<1>5. PICK b1 \in [Node -> BOOLEAN] : b1 = s.black
  BY <1>1, FieldTypes
<1>6. PICK b2 \in [Node -> BOOLEAN] : b2 = s2.black
  BY <1>4, FieldTypes
<1>7. /\ b1[b] /\ ~b1[c] /\ (b2[b] <=> b1[p]) /\ b2[p] /\ b2[c] /\ \A m \in Node \ {b, p, c} : b2[m] <=> b1[m]
  BY <1>3, <1>5, <1>6 DEF SameColors
<1>8. PICK w \in [Node -> Nat] : w = Weight(b1, v, a)
  BY <1>5, WeightType
<1>9. w[b] = 1 /\ w[c] = 0 /\ w[p] = (IF b1[p] THEN 1 ELSE 0) /\ w[a] \in Nat /\ w[a] > 0
  <2>1. w[b] = 1
    BY <1>1, <1>2, <1>5, <1>7, <1>8, Weighs
  <2>2. w[c] = 0
    BY <1>5, <1>7, <1>8, Weighs
  <2>3. w[p] = (IF b1[p] THEN 1 ELSE 0)
    BY <1>1, <1>2, <1>5, <1>8, Weighs
  <2>4. w[a] = 1 \/ w[a] = 2
    BY <1>1, <1>5, <1>8, Weighs
  <2> QED BY <2>1, <2>2, <2>3, <2>4
<1>10. PICK w1 \in [Node -> Nat] : w1 = [w EXCEPT ![p] = w[p] + 1, ![a] = w[a] - 1, ![b] = 0]
  <2>1. w[p] + 1 \in Nat /\ w[a] - 1 \in Nat
    BY <1>1, <1>8, <1>9
  <2>2. [w EXCEPT ![p] = w[p] + 1, ![a] = w[a] - 1, ![b] = 0] \in [Node -> Nat]
    BY ONLY <1>1, <2>1, w \in [Node -> Nat]
  <2> QED BY <2>2
<1>11. w1[p] = w[p] + 1 /\ w1[a] = w[a] - 1 /\ w1[b] = 0 /\ \A m \in Node \ {p, a, b} : w1[m] = w[m]
  BY <1>1, <1>2, <1>8, <1>10
<1>12. Sound(s2, A, k, {v}, w1)
  <2>1. PICK d \in Int : d = -1
    OBVIOUS
  <2>2. w[p] \in Nat /\ w[a] \in Nat
    BY <1>1, <1>8
  <2>3. w1[p] = w[p] - d /\ w1[a] = w[a] + d /\ w1[b] = w[b] + d
    BY <1>9, <1>11, <2>1, <2>2
  <2>4. Shifts(w, w1, p, a, b, d)
    BY <1>11, <2>3 DEF Shifts, SameWeights
  <2>5. Kids(s2, p) = {a, b} /\ Sound(s2, A, k, {v}, w)
    BY <1>1, <1>4, <1>5, <1>8
  <2> QED BY ONLY <1>1, <1>4, <2>4, <2>5, w \in [Node -> Nat], w1 \in [Node -> Nat], d \in Int, SoundShift
<1>13. PICK w2 \in [Node -> Nat] : w2 = [w1 EXCEPT ![p] = 0, ![b] = w1[p]]
  BY <1>1, <1>10
<1>14. w2[p] = 0 /\ w2[b] = w1[p] /\ \A m \in Node \ {p, b} : w2[m] = w1[m]
  BY <1>1, <1>2, <1>10, <1>13
<1>15. PICK o, i, e : /\ Spun(s2, s3, A, k, {v}, w2, p, g, b, o, i, e)
                      /\ o = OtherOf(s2, p, b) /\ e = OuterOf(s2, p, b)
  <2>1. Trades(w1, w2, p, b)
    BY <1>11, <1>14 DEF Trades, SameWeights
  <2>2. MaySpin(s2, A, k, {v}, w1, p, g, b, w2)
    BY <1>1, <1>2, <1>4, <1>10, <1>12, <1>13, <2>1, Nodes DEF MaySpin
  <2>3. b \in Kids(s2, p)
    BY <1>1, <1>4
  <2> QED BY <2>2, <2>3, SpinUp
<1>16. o = a /\ e = c
  <2>1. s.left[p] = b <=> s.left[p] # a
    BY <1>1 DEF Kids
  <2>2. o = a
    BY <1>1, <1>4, <1>15, <2>1 DEF OtherOf, Kids
  <2>3. e = c
    BY <1>4, <1>15, <2>1 DEF OuterOf, Far
  <2> QED BY <2>2, <2>3
<1>17. Sound(s3, A, k, {v}, w2) /\ Spins(s2, s3, p, g, b, a, i, c)
  BY <1>15, <1>16 DEF Spun
<1>18. s3 \in TreeType /\ s3.black = b2 /\ Kids(s3, b) = {p, c}
  BY <1>6, <1>17 DEF Spins
<1>19. PICK w3 \in [Node -> Nat] : w3 = Weight(b2, v, NULL)
  BY <1>6, WeightType
<1>20. PICK d \in Int : d = 1
  OBVIOUS
<1>21. Shifts(w2, w3, b, p, c, d)
  <2>1. p # NULL /\ b # NULL /\ c # NULL /\ a # NULL
    BY <1>1, Nodes
  <2>2. w3[p] = 1 /\ w3[c] = 1 /\ w3[b] = (IF b1[p] THEN 1 ELSE 0)
    BY <1>1, <1>2, <1>6, <1>7, <1>19, <2>1, Weighs
  <2>3. w2[b] = w[p] + 1 /\ w2[p] = 0 /\ w2[c] = 0
    <3>1. w2[c] = w1[c] /\ w1[c] = w[c]
      BY <1>11, <1>14
    <3> QED BY <1>9, <1>11, <1>14, <3>1
  <2>4. w3[b] = w2[b] - d /\ w3[p] = w2[p] + d /\ w3[c] = w2[c] + d
    BY <1>9, <1>20, <2>2, <2>3
  <2>5. ASSUME NEW m \in Node \ {b, p, c} PROVE w3[m] = w2[m]
    <3>1. b2[m] <=> b1[m]
      BY <1>7, <2>5
    <3>2. w2[m] = w1[m]
      BY <1>14, <2>5
    <3>3. CASE m = a
      <4>1. CASE m # v /\ b1[m]
        <5>1. w[m] = 2
          BY <1>8, <3>3, <4>1, Weighs
        <5>2. w3[m] = 1
          BY <1>19, <2>1, <3>1, <3>3, <4>1, Weighs
        <5> QED BY <1>11, <3>2, <3>3, <5>1, <5>2
      <4>2. CASE ~(m # v /\ b1[m])
        <5>1. w[m] = 1
          BY <1>8, <3>3, <4>2, Weighs
        <5>2. w3[m] = 0
          BY <1>19, <2>1, <3>1, <3>3, <4>2, Weighs
        <5> QED BY <1>11, <3>2, <3>3, <5>1, <5>2
      <4> QED BY <4>1, <4>2
    <3>4. CASE m # a
      <4>1. w1[m] = w[m] /\ m # NULL
        BY <1>11, <2>5, <3>4, Nodes
      <4>2. CASE m # v /\ b1[m]
        <5>1. w[m] = 1
          BY <1>8, <3>4, <4>2, Weighs
        <5>2. w3[m] = 1
          BY <1>19, <3>1, <4>1, <4>2, Weighs
        <5> QED BY <3>2, <4>1, <5>1, <5>2
      <4>3. CASE ~(m # v /\ b1[m])
        <5>1. w[m] = 0
          BY <1>8, <3>4, <4>3, Weighs
        <5>2. w3[m] = 0
          BY <1>19, <3>1, <4>1, <4>3, Weighs
        <5> QED BY <3>2, <4>1, <5>1, <5>2
      <4> QED BY <4>2, <4>3
    <3> QED BY <3>3, <3>4
  <2> QED BY <2>4, <2>5 DEF Shifts, SameWeights
<1>22. Sound(s3, A, k, {v}, w3)
  BY ONLY <1>1, <1>17, <1>18, <1>21, w2 \in [Node -> Nat], w3 \in [Node -> Nat], d \in Int, c \in Node, SoundShift
<1> QED BY <1>17, <1>18, <1>19, <1>22

\* Case 6: the sibling is rotated above the parent and closes the gap.
LEMMA Fills ==
  ASSUME NEW s, NEW A, NEW k, NEW v, NEW q, NEW a, NEW b, NEW p, NEW g, Gaps(s, A, k, v, q, a, b, p, g),
         s.black[b], NEW c, c = Far(s, a, p, b), c # NULL, ~s.black[c],
         NEW s2, Recolors(s, s2, b, p, c), NEW s3, s3 = RotateUp(s2, p, g, b)
  PROVE  /\ s3 \in TreeType /\ Sound(s3, A, k, {v}, Weight(s3.black, v, NULL)) /\ Red(s3, {v}, v)
         /\ s3.black[s3.root] /\ s3.black[q] /\ Stays(s, s3, v, q)
<1>1. /\ s \in TreeType /\ Sound(s, A, k, {v}, Weight(s.black, v, a)) /\ Red(s, {v}, v)
      /\ p \in Node /\ a \in Node /\ b \in Node /\ a # b /\ Kids(s, p) = {a, b} /\ Above(s, p, g) /\ Above(s, v, q)
      /\ v \in Node /\ v \in Subs(s)[a]
      /\ a = v \/ (s.black[a] /\ q \in Subs(s)[a] /\ s.black[q])
  BY DEF Gaps
<1>2. /\ p \notin Subs(s)[a] /\ b \notin Subs(s)[a] /\ g \notin Subs(s)[a]
      /\ v # p /\ v # b /\ v # g /\ q # b /\ q \in Node /\ (v = a => q = p) /\ (v # a => q \in Subs(s)[a])
      /\ p # a /\ p # b /\ g # a /\ g # b /\ g # p
      /\ \A m \in Node : /\ p \in Kids(s, m) => m = g
                         /\ a \in Kids(s, m) => m = p
                         /\ b \in Kids(s, m) => m = p
      /\ \A d \in Kids(s, b) : d \notin Subs(s)[a] /\ d # p /\ d # b /\ d # a
      /\ s.root \in Node /\ s.root # v /\ s.root # b /\ s.root # a /\ (g = NULL <=> s.root = p) /\ s.black[s.root]
  BY GapFacts DEF GapsApart
<1>3. c \in Kids(s, b)
  BY DEF Far, Kids
<1>4. c \in Node /\ c \notin Subs(s)[a] /\ c # p /\ c # b /\ c # a /\ c # v
  <2>1. c \in Node
    BY <1>1, <1>3, FieldTypes DEF Kids, Children, Place
  <2> QED BY <1>1, <1>2, <1>3, <2>1
<1>5. Repaints(s, s2) /\ (s2.black[b] <=> s.black[p]) /\ s2.black[p] /\ s2.black[c] /\ SameColors(s.black, s2.black, {b, p, c})
  BY DEF Recolors
<1>6. /\ s2 \in TreeType /\ s2.root = s.root /\ s2.left = s.left /\ s2.right = s.right
      /\ Subs(s2) = Subs(s) /\ (\A m : Kids(s2, m) = Kids(s, m))
      /\ Above(s2, v, q) /\ Sound(s2, A, k, {v}, Weight(s.black, v, a))
  BY <1>1, <1>5, SamePlaces
<1>7. Sound(s3, A, k, {v}, Weight(s3.black, v, NULL)) /\ \E i : Spins(s2, s3, p, g, b, a, i, c)
  BY <1>4, FillsSound
<1>8. PICK i : Spins(s2, s3, p, g, b, a, i, c)
  BY <1>7
<1>9. s3 \in TreeType /\ s3.black = s2.black /\ s3.root = (IF g = NULL THEN b ELSE s.root) /\ Kids(s3, p) = {i, a}
  BY <1>6, <1>8 DEF Spins
<1>10. \A d \in Node \ {b, p, c} : s2.black[d] <=> s.black[d]
  BY <1>5 DEF SameColors
<1>11. Stays(s, s3, v, q)
  <2>1. a \in Kids(s2, p) /\ a \in Kids(s3, p)
    BY <1>1, <1>6, <1>9
  <2>2. p \notin Subs(s2)[a] /\ b \notin Subs(s2)[a] /\ g \notin Subs(s2)[a] /\ v \in Subs(s2)[a] /\ (v # a => q \in Subs(s2)[a])
    BY <1>1, <1>2, <1>6
  <2>3. Stays(s2, s3, v, q)
    BY <1>1, <1>2, <1>6, <1>8, <2>1, <2>2, BelowGap
  <2> QED BY <1>6, <2>3 DEF Stays
<1>12. Red(s3, {v}, v)
  <2>1. ASSUME NEW m \in Node \ {p, b}, m # v, ~s2.black[m], NEW d \in Kids(s2, m) \ {p}
        PROVE  Fine(s2, {v}, d)
    <3>1. m # c /\ ~s.black[m] /\ d \in Kids(s, m) /\ d \in Place /\ d # b
      BY <1>1, <1>2, <1>5, <1>6, <1>10, <2>1, FieldTypes DEF Kids, Children
    <3>2. d = NULL \/ d = v \/ (s.black[d] /\ d \in Node)
      BY <1>1, <2>1, <3>1 DEF Red, Place
    <3> QED BY <1>5, <1>10, <2>1, <3>1, <3>2 DEF Fine
  <2>2. \A m \in Node : p \in Kids(s2, m) => m = g
    BY <1>2, <1>6
  <2>3. \A m \in Node \ {p, b} : m = v \/ s2.black[m] \/ \A d \in Kids(s2, m) \ {p} : Fine(s2, {v}, d)
    BY <2>1
  <2>4. p = v \/ s2.black[p] \/ (Fine(s2, {v}, i) /\ Fine(s2, {v}, a))
    BY <1>5
  <2>5. b = v \/ s2.black[b] \/ (Fine(s2, {v}, p) /\ Fine(s2, {v}, c))
    BY <1>5 DEF Fine
  <2>6. g = NULL \/ g = v \/ s2.black[g] \/ Fine(s2, {v}, b)
    <3>1. ASSUME g # NULL, g # v, ~s2.black[g] PROVE s2.black[b]
      <4>1. g \in Node /\ p \in Kids(s, g) /\ g # c
        BY <1>1, <1>5, <3>1 DEF Above, Place
      <4>2. ~s.black[g]
        BY <1>2, <1>10, <3>1, <4>1
      <4>3. s.black[p]
        BY <1>1, <1>2, <3>1, <4>1, <4>2, Nodes DEF Red
      <4> QED BY <1>5, <4>3
    <3> QED BY <3>1 DEF Fine
  <2>7. s2 \in TreeType /\ p \in Node /\ b \in Node /\ Spins(s2, s3, p, g, b, a, i, c)
    BY <1>1, <1>6, <1>8
  <2> QED BY ONLY <2>2, <2>3, <2>4, <2>5, <2>6, <2>7, RedSpin
<1>13. s3.black[s3.root]
  <2>1. CASE g = NULL
    BY <1>2, <1>5, <1>9, <2>1
  <2>2. CASE g # NULL
    BY <1>2, <1>5, <1>9, <1>10, <2>2
  <2> QED BY <2>1, <2>2
<1>14. s3.black[q]
  <2>1. CASE v = a
    BY <1>2, <1>5, <1>9, <2>1
  <2>2. CASE v # a
    <3>1. q # c /\ q # p /\ q # b /\ s.black[q]
      BY <1>1, <1>2, <1>4, <2>2
    <3> QED BY <1>2, <1>9, <1>10, <3>1
  <2> QED BY <2>1, <2>2
<1> QED BY <1>7, <1>9, <1>11, <1>12, <1>13, <1>14

\* Case 6 paints these nodes.
Repainted(s, b, p, c) == Paint(Paint(Paint(s, b, s.black[p]), p, TRUE), c, TRUE)

\* Their colors.
LEMMA RepaintedColors ==
  ASSUME NEW s \in TreeType, NEW b \in Node, NEW p \in Node, NEW c \in Node, b # p, c # b, c # p,
         NEW s2, s2 = Repainted(s, b, p, c)
  PROVE  Recolors(s, s2, b, p, c)
<1>1. PICK s1 : s1 = Paint(s, b, s.black[p])
  OBVIOUS
<1>2. Repaints(s, s1) /\ (s1.black[b] <=> s.black[p]) /\ SameColors(s.black, s1.black, {b})
  <2>1. s.black[p] \in BOOLEAN
    BY FieldTypes
  <2>2. CASE s.black[p] = TRUE
    <3>1. s1 = Blacken(s, b)
      BY <1>1, <2>2 DEF Blacken
    <3> QED BY <2>2, <3>1, PaintBlack
  <2>3. CASE s.black[p] = FALSE
    <3>1. s1 = Redden(s, b)
      BY <1>1, <2>3 DEF Redden
    <3> QED BY <2>3, <3>1, PaintRed
  <2> QED BY <2>1, <2>2, <2>3
<1>3. s1 \in TreeType
  BY <1>2 DEF Repaints
<1>4. PICK u : u = Blacken(s1, p)
  OBVIOUS
<1>5. Repaints(s1, u) /\ u.black[p] /\ SameColors(s1.black, u.black, {p})
  BY <1>3, <1>4, PaintBlack
<1>6. u \in TreeType
  BY <1>5 DEF Repaints
<1>7. s2 = Blacken(u, c)
  BY <1>1, <1>4 DEF Blacken, Repainted
<1>8. Repaints(u, s2) /\ s2.black[c] /\ SameColors(u.black, s2.black, {c})
  BY <1>6, <1>7, PaintBlack
<1>9. Repaints(s, s2)
  BY <1>2, <1>5, <1>8 DEF Repaints
<1>10. (s2.black[b] <=> s.black[p]) /\ s2.black[p]
  BY <1>2, <1>5, <1>8 DEF SameColors
<1>11. SameColors(s.black, s2.black, {b, p, c})
  BY <1>2, <1>5, <1>8 DEF SameColors
<1> QED BY <1>8, <1>9, <1>10, <1>11 DEF Recolors

\* The sibling b of the gap a has a red far child.
HasFar(s, a, b, p, g) == /\ Gaps(s, heap, key, node, parent, a, b, p, g) /\ s.black[b] /\ b = SiblingOf(s, a, p)
                         /\ Far(s, a, p, b) # NULL /\ ~s.black[Far(s, a, p, b)]
                         /\ Stays(t, s, node, parent)

\* Case 5 leads to case 6.
LEMMA AtFar ==
  ASSUME IndInv, AtCase3, ~SiblingAllBlack, NEW a, a = At(0), NEW p, p = At(1), NEW g, g = At(2)
  PROVE  HasFar(OuterRed(a, p), a, SiblingOf(OuterRed(a, p), a, p), p, g)
<1>1. pc \in Filling /\ Len(stack) > 1 /\ IsBlack(t, Sibling)
  BY Case3
<1>2. PICK b : b = Sibling
  OBVIOUS
<1>3. Gaps(t, heap, key, node, parent, a, b, p, g)
  BY <1>1, <1>2, AtSibling
<1>4. /\ t \in TreeType /\ Sound(t, heap, key, {node}, Weight(t.black, node, a)) /\ Above(t, node, parent)
      /\ p \in Node /\ a \in Node /\ b \in Node /\ a # b /\ Kids(t, p) = {a, b} /\ a # NULL /\ b # NULL
  BY <1>3, Nodes DEF Gaps
<1>5. t.black[b] /\ b = SiblingOf(t, a, p)
  BY <1>1, <1>2, <1>4 DEF IsBlack, Sibling
<1>6. (a = t.left[p] <=> a # t.right[p]) /\ (t.left[b] # NULL => t.left[b] # t.right[b])
  <2>1. (t.left[p] # NULL => t.left[p] # t.right[p]) /\ (t.left[b] # NULL => t.left[b] # t.right[b])
    BY <1>4, TreeFacts
  <2>2. {t.left[p], t.right[p]} = {a, b}
    BY <1>4 DEF Kids
  <2> QED BY <1>4, <2>1, <2>2
<1>7. PICK c, f : c = Near(t, a, p, b) /\ f = Far(t, a, p, b)
  OBVIOUS
<1>8. PICK s1 : s1 = OuterRed(a, p)
  OBVIOUS
<1>9. CASE ~IsBlack(t, f)
  <2>1. s1 = t
    <3>1. CASE a = t.left[p]
      BY <1>5, <1>6, <1>7, <1>8, <1>9, <3>1 DEF OuterRed, Far
    <3>2. CASE a # t.left[p]
      BY <1>5, <1>6, <1>7, <1>8, <1>9, <3>2 DEF OuterRed, Far
    <3> QED BY <3>1, <3>2
  <2>2. f # NULL /\ ~t.black[f]
    BY <1>9 DEF IsBlack
  <2>3. HasFar(t, a, b, p, g)
    BY <1>3, <1>4, <1>5, <1>7, <2>2 DEF HasFar, Stays
  <2> QED BY <1>5, <1>8, <2>1, <2>3
<1>10. CASE IsBlack(t, f)
  <2>1. ~IsBlack(t, c)
    BY <1>1, <1>2, <1>7, <1>10 DEF SiblingAllBlack, Near, Far
  <2>2. c # NULL /\ ~t.black[c] /\ Fine(t, {}, Far(t, a, p, b))
    BY <1>7, <1>10, <2>1 DEF IsBlack, Fine
  <2>3. PICK s2 : s2 = Blacken(Redden(t, b), c)
    OBVIOUS
  <2>4. s2.left = t.left
    BY <1>4, <2>3 DEF Blacken, Redden, Paint, TreeType
  <2>5. s1 = RotateUp(s2, b, p, c)
    <3>1. CASE a = t.left[p]
      <4>1. c = t.left[b] /\ f = t.right[b]
        BY <1>7, <3>1 DEF Near, Far
      <4>2. s1 = RotateRight(Paint(Paint(t, b, FALSE), c, TRUE), b, p)
        BY <1>1, <1>2, <1>5, <1>8, <1>10, <2>1, <3>1, <4>1 DEF OuterRed
      <4> QED BY <2>3, <2>4, <4>1, <4>2 DEF RotateUp, Blacken, Redden
    <3>2. CASE a # t.left[p]
      <4>1. c = t.right[b] /\ f = t.left[b] /\ a = t.right[p]
        BY <1>6, <1>7, <3>2 DEF Near, Far
      <4>2. s1 = RotateLeft(Paint(Paint(t, b, FALSE), c, TRUE), b, p)
        BY <1>1, <1>2, <1>5, <1>8, <1>10, <2>1, <3>2, <4>1 DEF OuterRed
      <4>3. t.left[b] # c
        BY <1>6, <2>2, <4>1
      <4> QED BY <2>3, <2>4, <4>2, <4>3 DEF RotateUp, Blacken, Redden
    <3> QED BY <3>1, <3>2
  <2>6. /\ Gaps(s1, heap, key, node, parent, a, c, p, g) /\ s1.black[c] /\ Far(s1, a, p, c) = b /\ ~s1.black[b]
        /\ Stays(t, s1, node, parent)
    BY <1>3, <1>5, <1>7, <2>2, <2>3, <2>5, TurnsFar
  <2>7. c = SiblingOf(s1, a, p)
    <3>1. Kids(s1, p) = {a, c} /\ a # c
      BY <2>6 DEF Gaps
    <3> QED BY <3>1 DEF SiblingOf, Kids
  <2>8. HasFar(s1, a, c, p, g)
    BY <1>4, <2>6, <2>7 DEF HasFar
  <2> QED BY <1>8, <2>7, <2>8
<1> QED BY <1>9, <1>10

\* Cases 5 and 6: rotations of the sibling close the gap.
LEMMA RebalanceRotateKeeps ==
  ASSUME IndInv, RebalanceRotate
  PROVE  IndInv'
<1>1. /\ AtCase3 /\ ~SiblingAllBlack /\ t' = Filled(At(0), At(1), At(2)) /\ pc' = "unlink"
      /\ stack' = stack /\ stack_size' = stack_size
      /\ UNCHANGED <<key, value, heap, count, node, parent, child, args, ret, freed, hist, lookedup>>
  BY DEF RebalanceRotate
<1>2. pc \in Filling
  BY <1>1, Case3
<1>3. PICK a, p, g : a = At(0) /\ p = At(1) /\ g = At(2)
  OBVIOUS
<1>4. PICK s1, b : s1 = OuterRed(a, p) /\ b = SiblingOf(s1, a, p)
  OBVIOUS
<1>5. HasFar(s1, a, b, p, g)
  BY <1>1, <1>3, <1>4, AtFar
<1>6. PICK c : c = Far(s1, a, p, b)
  OBVIOUS
<1>7. /\ Gaps(s1, heap, key, node, parent, a, b, p, g) /\ s1.black[b] /\ c # NULL /\ ~s1.black[c]
      /\ Stays(t, s1, node, parent)
  BY <1>5, <1>6 DEF HasFar
<1>8. GapsApart(s1, node, parent, a, b, p, g)
  BY <1>7, GapFacts
<1>9. s1 \in TreeType /\ p \in Node /\ b \in Node /\ Kids(s1, p) = {a, b} /\ a # b
  BY <1>7 DEF Gaps
<1>10. c \in Node /\ p # b /\ c # b /\ c # p
  <2>1. c \in Kids(s1, b)
    BY <1>6 DEF Far, Kids
  <2>2. c \in Node
    BY <1>7, <1>9, <2>1, FieldTypes DEF Kids, Children, Place
  <2> QED BY <1>8, <2>1, <2>2 DEF GapsApart
<1>11. PICK s2 : s2 = Repainted(s1, b, p, c)
  OBVIOUS
<1>12. Recolors(s1, s2, b, p, c)
  BY <1>9, <1>10, <1>11, RepaintedColors
<1>13. PICK s3 : s3 = t'
  OBVIOUS
<1>14. s3 = RotateUp(s2, p, g, b)
  <2>1. s2.left = s1.left
    BY <1>12 DEF Recolors, Repaints
  <2>2. a = s1.left[p] <=> s1.left[p] # b
    BY <1>9 DEF Kids
  <2>3. CASE a = s1.left[p]
    <3>1. c = s1.right[b]
      BY <1>6, <2>3 DEF Far
    <3>2. s3 = RotateLeft(s2, p, g)
      BY <1>1, <1>3, <1>4, <1>11, <1>13, <2>3, <3>1 DEF Filled, Repainted
    <3> QED BY <2>1, <2>2, <2>3, <3>2 DEF RotateUp
  <2>4. CASE a # s1.left[p]
    <3>1. c = s1.left[b]
      BY <1>6, <2>4 DEF Far
    <3>2. s3 = RotateRight(s2, p, g)
      BY <1>1, <1>3, <1>4, <1>11, <1>13, <2>4, <3>1 DEF Filled, Repainted
    <3> QED BY <2>1, <2>2, <2>4, <3>2 DEF RotateUp
  <2> QED BY <2>3, <2>4
<1>15. /\ s3 \in TreeType /\ Sound(s3, heap, key, {node}, Weight(s3.black, node, NULL)) /\ Red(s3, {node}, node)
       /\ s3.black[s3.root] /\ s3.black[parent] /\ Stays(s1, s3, node, parent)
  BY <1>6, <1>7, <1>12, <1>14, Fills
<1>16. Stays(t, s3, node, parent)
  BY <1>7, <1>15 DEF Stays
<1> QED BY <1>1, <1>2, <1>13, <1>15, <1>16, ClosedKeeps

\* rbtree_remove: a black victim leaves a gap, a red one none.
LEMMA PrepareKeeps ==
  ASSUME IndInv, Prepare
  PROVE  IndInv'
<1>1. /\ pc = "found" /\ child' = (IF t.right[node] # NULL THEN t.right[node] ELSE t.left[node]) /\ parent' = At(1)
      /\ t' = (IF t.black[node] /\ ~IsBlack(t, child') THEN Paint(t, node, FALSE) ELSE t)
      /\ pc' = (IF t.black[node] THEN "rebalance" ELSE "unlink") /\ stack' = stack /\ stack_size' = stack_size
      /\ UNCHANGED <<key, value, heap, count, node, args, ret, freed, hist, lookedup>>
  BY DEF Prepare, LeavesGap
<1>2. /\ pc \in Removing /\ pc \notin Leaving /\ pc \notin Filling /\ pc # "unlink" /\ pc # "fix_insert"
      /\ pc' \in Leaving /\ pc' \in Removing
      /\ pc' \notin {"idle", "lookup", "exists"} /\ pc' \notin {"insert", "find", "find_max"} /\ pc' # "found"
      /\ pc' # "fix_insert" /\ pc' # "rebalance_black"
  BY <1>1 DEF Filling, Leaving, Removing
<1>3. t \in TreeType /\ heap \in SUBSET Node /\ t.black \in [Node -> BOOLEAN] /\ NULL \notin Node
  BY FieldTypes, Nodes DEF IndInv, Types
<1>4. node \in heap /\ node \in Node /\ (t.left[node] = NULL \/ t.right[node] = NULL)
  BY <1>2, <1>3 DEF IndInv, VictimInv
<1>5. Sound(t, heap, key, {node}, Weight(t.black, NULL, NULL))
  BY <1>2 DEF IndInv, SoundInv, Gone, Victim, Gap
<1>6. Red(t, {}, NULL) /\ (t.root # NULL => t.black[t.root])
  BY <1>2 DEF IndInv, RedInv, MayBeRed, Victim
<1>7. /\ stack \in Seq(heap) /\ stack \in Seq(Node) /\ IsPath(t, stack) /\ stack # <<>> /\ At(0) = node
      /\ stack_size \in Nat \ {0} /\ Len(stack) <= stack_size
  BY <1>1, <1>2 DEF IndInv, StackInv
<1>8. Above(t, node, At(1)) /\ At(1) \in Place
  BY <1>3, <1>7, PathTop DEF Above
<1>9. PICK s2 : s2 = t'
  OBVIOUS
<1>10. /\ Repaints(t, s2) /\ SameColors(t.black, s2.black, {node}) /\ (~t.black[node] => s2 = t)
  <2>1. CASE t.black[node] /\ ~IsBlack(t, child')
    <3>1. s2 = Redden(t, node)
      BY <1>1, <1>9, <2>1 DEF Redden
    <3> QED BY <1>3, <1>4, <2>1, <3>1, PaintRed
  <2>2. CASE ~(t.black[node] /\ ~IsBlack(t, child'))
    <3>1. s2 = t
      BY <1>1, <1>9, <2>2
    <3> QED BY <1>3, <3>1 DEF Repaints, SameColors
  <2> QED BY <2>1, <2>2
<1>11. /\ s2 \in TreeType /\ s2.root = t.root /\ s2.left = t.left /\ s2.right = t.right /\ Subs(s2) = Subs(t)
       /\ (\A m : Kids(s2, m) = Kids(t, m)) /\ Above(s2, node, At(1))
       /\ Sound(s2, heap, key, {node}, Weight(t.black, NULL, NULL))
  BY <1>3, <1>5, <1>8, <1>10, SamePlaces
<1>12. At(0)' = node /\ Gone' = {node} /\ Victim' = node /\ MayBeRed' = {node}
  <2>1. At(0)' = node
    BY <1>1, <1>7 DEF At
  <2> QED BY <1>1, <1>2, <2>1 DEF Gone, Victim, MayBeRed
<1>13. SoundInv'
  <2>1. PICK gap : gap = Gap'
    OBVIOUS
  <2>2. gap = (IF t.black[node] THEN node ELSE NULL)
    BY <1>1, <1>12, <2>1 DEF Gap, Filling
  <2>3. PICK b1 \in [Node -> BOOLEAN] : b1 = t.black
    BY <1>3
  <2>4. PICK b2 \in [Node -> BOOLEAN] : b2 = s2.black
    BY <1>11, FieldTypes
  <2>5. PICK w \in [Node -> Nat] : w = Weight(b1, NULL, NULL)
    BY <2>3, WeightType
  <2>6. PICK w2 \in [Node -> Nat] : w2 = Weight(b2, node, gap)
    BY <2>4, WeightType
  <2>7. ASSUME NEW m \in Node PROVE w2[m] = w[m]
    <3>1. m # NULL /\ node # NULL
      BY <1>3, <1>4
    <3>2. CASE m # node
      <4>1. (b2[m] <=> b1[m]) /\ m # gap
        BY <1>10, <2>2, <2>3, <2>4, <3>1, <3>2 DEF SameColors
      <4>2. CASE b1[m]
        <5>1. w[m] = 1
          BY <2>5, <3>1, <4>2, Weighs
        <5>2. w2[m] = 1
          BY <2>6, <3>2, <4>1, <4>2, Weighs
        <5> QED BY <5>1, <5>2
      <4>3. CASE ~b1[m]
        <5>1. w[m] = 0
          BY <2>5, <3>1, <4>3, Weighs
        <5>2. w2[m] = 0
          BY <2>6, <3>2, <4>1, <4>3, Weighs
        <5> QED BY <5>1, <5>2
      <4> QED BY <4>2, <4>3
    <3>3. CASE m = node
      <4>1. CASE b1[m]
        <5>1. w[m] = 1
          BY <2>5, <3>1, <4>1, Weighs
        <5>2. m = gap
          BY <2>2, <2>3, <3>3, <4>1
        <5>3. w2[m] = 1
          BY <2>6, <3>3, <5>2, Weighs
        <5> QED BY <5>1, <5>3
      <4>2. CASE ~b1[m]
        <5>1. w[m] = 0
          BY <2>5, <3>1, <4>2, Weighs
        <5>2. m # gap
          BY <2>2, <2>3, <3>1, <3>3, <4>2
        <5>3. w2[m] = 0
          BY <2>6, <3>3, <5>2, Weighs
        <5> QED BY <5>1, <5>3
      <4> QED BY <4>1, <4>2
    <3> QED BY <3>2, <3>3
  <2>8. w2 = w
    BY <2>7
  <2>9. Sound(s2, heap, key, {node}, Weight(s2.black, node, gap))
    BY <1>11, <2>3, <2>4, <2>5, <2>6, <2>8
  <2> QED BY <1>1, <1>9, <1>12, <2>1, <2>9 DEF SoundInv
<1>14. RedInv'
  <2>1. Red(s2, {node}, node)
    <3>1. ASSUME NEW m \in Node, m # node, ~s2.black[m], NEW c \in Kids(s2, m), c # NULL, c # node PROVE s2.black[c]
      <4>1. ~t.black[m] /\ c \in Kids(t, m) /\ c \in Node
        BY <1>3, <1>10, <1>11, <3>1, FieldTypes DEF SameColors, Kids, Children, Place
      <4>2. t.black[c]
        BY <1>3, <1>6, <3>1, <4>1 DEF Red
      <4> QED BY <1>10, <3>1, <4>1, <4>2 DEF SameColors
    <3> QED BY <3>1 DEF Red
  <2>2. s2.root # NULL => s2.black[s2.root] \/ s2.root = node
    BY <1>3, <1>6, <1>10, <1>11, FieldTypes DEF SameColors, Place
  <2> QED BY <1>9, <1>12, <2>1, <2>2 DEF RedInv
<1>15. StackInv'
  <2>1. IsPath(t', stack)
    BY <1>7, <1>9, <1>11 DEF IsPath, Kids
  <2> QED BY <1>1, <1>2, <1>7, <2>1 DEF StackInv
<1>16. VictimInv'
  BY <1>1, <1>2, <1>4, <1>9, <1>11 DEF VictimInv
<1>17. GapInv'
  <2>1. node \in Subs(t')[node]
    <3>1. node \in Subs(t)[node]
      BY <1>3, <1>4, <1>5, TreeFacts
    <3> QED BY <1>9, <1>11, <3>1
  <2>2. pc' = "unlink" /\ child' # NULL /\ parent' # NULL => t'.black[parent']
    <3>1. ASSUME pc' = "unlink", At(1) # NULL PROVE t'.black[At(1)]
      <4>1. ~t.black[node] /\ t' = t
        BY <1>1, <3>1
      <4>2. At(1) \in Node /\ node \in Kids(t, At(1)) /\ node # NULL /\ At(1) # NULL
        BY <1>3, <1>4, <1>8, <3>1 DEF Above, Place
      <4> QED BY <1>6, <4>1, <4>2 DEF Red
    <3> QED BY <1>1, <3>1
  <2> QED BY <1>1, <1>2, <1>12, <2>1, <2>2 DEF GapInv
<1>18. parent' \in Place /\ child' \in Place
  BY <1>1, <1>3, <1>4, <1>8, FieldTypes DEF Children
<1> QED BY <1>1, <1>2, <1>9, <1>11, <1>13, <1>14, <1>15, <1>16, <1>17, <1>18, LeavingKeeps

-----------------------------------------------------------------------------
\* s2 is s with c in the place of v, the root or a child of p.
Replaces(s, s2, v, p, c) ==
  /\ s2 \in TreeType /\ s2.black = s.black /\ s2.root = IF p = NULL THEN c ELSE s.root
  /\ \A m \in Node : s2.left[m] = IF m = p /\ s.left[m] = v THEN c ELSE s.left[m]
  /\ \A m \in Node : s2.right[m] = IF m = p /\ s.right[m] = v THEN c ELSE s.right[m]

\* _rbnode_replace changes these fields.
LEMMA ReplaceFields ==
  ASSUME NEW s \in TreeType, NEW v \in Node, NEW p \in Place, NEW c \in Place,
         p # NULL => v \in Kids(s, p) /\ s.left[p] # s.right[p], NEW s2, s2 = Replace(s, v, p, c)
  PROVE  Replaces(s, s2, v, p, c)
<1>1. /\ s.root \in Place /\ s.left \in Children /\ s.right \in Children
      /\ s.black \in [Node -> BOOLEAN] /\ NULL \notin Node
  BY FieldTypes, Nodes
<1>2. s = [root |-> s.root, left |-> s.left, right |-> s.right, black |-> s.black]
  BY DEF TreeType
<1>3. CASE p = NULL
  <2>1. s2 = [s EXCEPT !.root = c]
    BY <1>3 DEF Replace
  <2>2. s2 = [root |-> c, left |-> s.left, right |-> s.right, black |-> s.black]
    BY <1>2, <2>1
  <2>3. s2 \in TreeType /\ s2.root = c /\ s2.left = s.left /\ s2.right = s.right /\ s2.black = s.black
    BY ONLY <1>1, <2>2, c \in Place DEF TreeType
  <2> QED BY <1>1, <1>3, <2>3 DEF Replaces
<1>4. CASE p # NULL /\ s.left[p] = v
  <2> DEFINE L2 == [s.left EXCEPT ![p] = c]
  <2>0. p \in Node /\ s.right[p] # v
    BY <1>4 DEF Place
  <2>1. s2 = [s EXCEPT !.left[p] = c]
    BY <1>4 DEF Replace
  <2>2. s2 = [root |-> s.root, left |-> L2, right |-> s.right, black |-> s.black]
    BY <1>2, <2>1
  <2>3. L2 \in Children /\ \A m \in Node : L2[m] = IF m = p THEN c ELSE s.left[m]
    BY <1>1 DEF Children
  <2> HIDE DEF L2
  <2>4. s2 \in TreeType /\ s2.root = s.root /\ s2.left = L2 /\ s2.right = s.right /\ s2.black = s.black
    BY ONLY <1>1, <2>2, <2>3 DEF TreeType
  <2> QED BY <1>4, <2>0, <2>3, <2>4 DEF Replaces
<1>5. CASE p # NULL /\ s.left[p] # v
  <2> DEFINE R2 == [s.right EXCEPT ![p] = c]
  <2>0. p \in Node /\ s.right[p] = v
    BY <1>5 DEF Place, Kids
  <2>1. s2 = [s EXCEPT !.right[p] = c]
    BY <1>5 DEF Replace
  <2>2. s2 = [root |-> s.root, left |-> s.left, right |-> R2, black |-> s.black]
    BY <1>2, <2>1
  <2>3. R2 \in Children /\ \A m \in Node : R2[m] = IF m = p THEN c ELSE s.right[m]
    BY <1>1 DEF Children
  <2> HIDE DEF R2
  <2>4. s2 \in TreeType /\ s2.root = s.root /\ s2.left = s.left /\ s2.right = R2 /\ s2.black = s.black
    BY ONLY <1>1, <2>2, <2>3 DEF TreeType
  <2> QED BY <1>5, <2>0, <2>3, <2>4 DEF Replaces
<1> QED BY <1>3, <1>4, <1>5

\* s2 is s without children of n, which is red.
Clears(s, s2, n) ==
  /\ s2 \in TreeType /\ s2.root = s.root
  /\ s2.left = [s.left EXCEPT ![n] = NULL] /\ s2.right = [s.right EXCEPT ![n] = NULL]
  /\ ~s2.black[n] /\ SameColors(s.black, s2.black, {n})

\* The fields of a node that has been freed.
LEMMA CreateFields ==
  ASSUME NEW s \in TreeType, NEW n \in Node, NEW s2, s2 = Create(s, n, FALSE)
  PROVE  Clears(s, s2, n)
<1> DEFINE L2 == [s.left EXCEPT ![n] = NULL]
           R2 == [s.right EXCEPT ![n] = NULL]
           b2 == [s.black EXCEPT ![n] = FALSE]
<1>1. /\ s.root \in Place /\ s.left \in Children /\ s.right \in Children
      /\ s.black \in [Node -> BOOLEAN]
  BY FieldTypes
<1>2. L2 \in Children /\ R2 \in Children /\ b2 \in [Node -> BOOLEAN]
  BY <1>1, Nodes DEF Children
<1>3. ~b2[n] /\ SameColors(s.black, b2, {n})
  BY <1>1 DEF SameColors
<1>4. s2 = [root |-> s.root, left |-> L2, right |-> R2, black |-> b2]
  <2>1. s = [root |-> s.root, left |-> s.left, right |-> s.right, black |-> s.black]
    BY DEF TreeType
  <2>2. s2 = [s EXCEPT !.left = L2, !.right = R2, !.black = b2]
    BY DEF Create, TreeType
  <2> HIDE DEF L2, R2, b2
  <2> QED BY <2>1, <2>2
<1> HIDE DEF L2, R2, b2
<1>5. s2 \in TreeType /\ s2.root = s.root /\ s2.left = L2 /\ s2.right = R2 /\ s2.black = b2
  BY ONLY <1>1, <1>2, <1>4 DEF TreeType
<1> QED BY <1>3, <1>5 DEF Clears, L2, R2

\* c is the only child of v, or NULL if there is none.
OnlyChild(s, v, c) == (s.left[v] = c /\ s.right[v] = NULL) \/ (s.right[v] = c /\ s.left[v] = NULL)

\* The victim's place is taken by its child.
LEMMA UnlinkFields ==
  ASSUME NEW s \in TreeType, NEW A, NEW k, NEW X, NEW w, Sound(s, A, k, X, w),
         NEW v \in Node, NEW p \in Place, NEW c \in Place, Above(s, v, p),
         OnlyChild(s, v, c), NEW s1, s1 = Replace(s, v, p, c), NEW s2, Repaints(s1, s2), NEW s3, s3 = Create(s2, v, FALSE)
  PROVE  /\ Unlinks(s.left, s.right, s.root, s3.left, s3.right, s3.root, v, p, c)
         /\ s3 \in TreeType /\ ~s3.black[v] /\ SameColors(s2.black, s3.black, {v})
<1>1. p # NULL => p \in Node /\ v \in Kids(s, p) /\ s.left[p] # s.right[p]
  <2>1. p # NULL => p \in Node /\ v \in Kids(s, p) /\ v # NULL
    BY Nodes DEF Above, Place
  <2>2. p # NULL => (s.left[p] # NULL => s.left[p] # s.right[p])
    BY <2>1, TreeFacts
  <2> QED BY <2>1, <2>2 DEF Kids
<1>2. Replaces(s, s1, v, p, c)
  BY <1>1, ReplaceFields
<1>3. s1 \in TreeType /\ s2 \in TreeType /\ s2.root = s1.root /\ s2.left = s1.left /\ s2.right = s1.right
  BY <1>2 DEF Replaces, Repaints
<1>4. Clears(s2, s3, v)
  BY <1>3, CreateFields
<1>5. s3.left \in Children /\ s3.right \in Children /\ s3 \in TreeType /\ ~s3.black[v] /\ SameColors(s2.black, s3.black, {v})
  BY <1>4, FieldTypes DEF Clears
<1>6. /\ s2.left \in Children /\ s2.right \in Children
      /\ \A m \in Node : s2.left[m] = IF m = p /\ s.left[m] = v THEN c ELSE s.left[m]
      /\ \A m \in Node : s2.right[m] = IF m = p /\ s.right[m] = v THEN c ELSE s.right[m]
  BY <1>2, <1>3, FieldTypes DEF Replaces
<1>7. /\ \A m \in Node : s3.left[m] = IF m = v THEN NULL ELSE s2.left[m]
      /\ \A m \in Node : s3.right[m] = IF m = v THEN NULL ELSE s2.right[m]
  BY <1>4, <1>6 DEF Clears, Children
<1>8. IF p = NULL THEN s.root = v /\ s3.root = c ELSE s3.root = s.root /\ v \in {s.left[p], s.right[p]}
  BY <1>1, <1>2, <1>3, <1>4 DEF Replaces, Clears, Above, Kids
<1>9. Unlinks(s.left, s.right, s.root, s3.left, s3.right, s3.root, v, p, c)
  BY <1>5, <1>6, <1>7, <1>8 DEF Unlinks, OnlyChild
<1> QED BY <1>5, <1>9

\* The nodes whose weight may change with the victim's unlinking.
Lightened(v, p, c) == IF p = NULL THEN {v, c} ELSE {v}

\* Outside S, k2 are the keys k.
SameKeys(k, k2, S) == \A m \in Node \ S : k2[m] = k[m]

\* A tree without the victim is sound, whatever its root weighs.
LEMMA UnlinkSound ==
  ASSUME NEW s \in TreeType, NEW A, NEW k \in [Node -> Int], NEW v \in Node, NEW w \in [Node -> Nat],
         NoWeight(w, w, v), Sound(s, A, k, {v}, w),
         NEW p, NEW c, NEW s3 \in TreeType, Unlinks(s.left, s.right, s.root, s3.left, s3.right, s3.root, v, p, c),
         NEW w3 \in [Node -> Nat], NoWeight(w3, w3, v), SameWeights(w, w3, Lightened(v, p, c)),
         NEW k2, SameKeys(k, k2, {v})
  PROVE  Sound(s3, A \ {v}, k2, {}, w3)
<1>1. s.left \in Children /\ s.right \in Children /\ NULL \notin Node
  BY FieldTypes, Nodes
<1>2. PICK sub \in Subtrees : sub = Subs(s)
  BY DEF Sound
<1>3. /\ Tree(s.left, s.right, s.root, A, sub) /\ Order(s.left, s.right, sub, k, {v})
      /\ \E bh \in Heights : Balanced(s.left, s.right, w, bh)
  BY <1>2 DEF Sound
<1>4. PICK bh \in Heights : Balanced(s.left, s.right, w, bh)
  BY <1>3
<1>5. PICK u : u = Without(sub, v)
  OBVIOUS
<1>6. Tree(s3.left, s3.right, s3.root, A \ {v}, u)
  BY <1>1, <1>3, <1>5, UnlinkedTree
<1>7. u \in Subtrees
  BY <1>1, <1>3, <1>5, UnlinkedValues DEF HasNot
<1>8. Order(s3.left, s3.right, u, k2, {})
  <2>1. \A m \in Node \ {v} : k2[m] = k[m]
    BY DEF SameKeys
  <2> QED BY <1>1, <1>3, <1>5, <2>1, UnlinkedOrder
<1>9. CASE p = NULL /\ c # NULL
  <2>1. \E h \in Heights : Balanced(s3.left, s3.right, w, h)
    BY <1>1, <1>3, <1>4, UnlinkedBalance
  <2>2. Sound(s3, A \ {v}, k2, {}, w)
    BY <1>6, <1>7, <1>8, <2>1, SoundFrom
  <2>3. s3.root = c
    BY <1>9 DEF Unlinks
  <2>4. SameWeights(w, w3, {s3.root})
    BY <1>9, <2>3 DEF SameWeights, NoWeight, Lightened
  <2> QED BY <1>9, <2>2, <2>3, <2>4, SoundRoot
<1>10. CASE p # NULL \/ c = NULL
  <2>1. NoWeight(w, w3, v)
    BY <1>1, <1>10 DEF SameWeights, NoWeight, Lightened
  <2>2. \E h \in Heights : Balanced(s3.left, s3.right, w3, h)
    BY <1>1, <1>3, <1>4, <2>1, UnlinkedBalance
  <2> QED BY <1>6, <1>7, <1>8, <2>2, SoundFrom
<1> QED BY <1>9, <1>10

\* The victim's child takes its place; the root is black afterwards.
LEMMA UnlinkKeeps ==
  ASSUME IndInv, Unlink
  PROVE  IndInv'
<1> USE DEF hist, lookedup
<1>1. /\ pc = "unlink" /\ t' = Create(RootBlack(Replace(t, node, parent, child)), node, FALSE)
      /\ heap' = heap \ {node} /\ key' = [key EXCEPT ![node] = 0] /\ value' = [value EXCEPT ![node] = NULL]
      /\ Return("true") /\ UNCHANGED <<count, stack_size, freed, hist, lookedup>>
  BY DEF Unlink
<1>2. pc \in Removing /\ pc \in Leaving /\ pc \notin Filling /\ pc # "fix_insert"
  BY <1>1 DEF Filling, Leaving, Removing
<1>3. t \in TreeType /\ heap \in SUBSET Node /\ t.black \in [Node -> BOOLEAN] /\ NULL \notin Node /\ IsFiniteSet(Node)
  BY FieldTypes, Nodes DEF IndInv, Types
<1>4. /\ node \in heap /\ node \in Node /\ (t.left[node] = NULL \/ t.right[node] = NULL)
      /\ child = (IF t.right[node] # NULL THEN t.right[node] ELSE t.left[node])
      /\ Above(t, node, parent) /\ parent \in Place /\ child \in Place
  BY <1>2, <1>3 DEF IndInv, VictimInv, Types
<1>5. Sound(t, heap, key, {node}, Weight(t.black, node, NULL))
  BY <1>2 DEF IndInv, SoundInv, Gone, Victim, Gap
<1>6. Red(t, {node}, node) /\ (t.root # NULL => t.black[t.root] \/ t.root = node)
  BY <1>2 DEF IndInv, RedInv, MayBeRed, Victim
<1>7. child # NULL /\ parent # NULL => t.black[parent]
  BY <1>1 DEF IndInv, GapInv
<1>8. PICK s1 : s1 = Replace(t, node, parent, child)
  OBVIOUS
<1>9. PICK s2 : s2 = RootBlack(s1)
  OBVIOUS
<1>10. PICK s3 : s3 = t'
  OBVIOUS
<1>11. OnlyChild(t, node, child)
  BY <1>4 DEF OnlyChild
<1>12. s1 \in TreeType /\ s1.black = t.black
  <2>1. Replaces(t, s1, node, parent, child)
    <3>1. parent # NULL => parent \in Node /\ node \in Kids(t, parent) /\ node # NULL
      BY <1>3, <1>4 DEF Above, Place
    <3>2. parent # NULL => (t.left[parent] # NULL => t.left[parent] # t.right[parent])
      BY <1>3, <1>5, <3>1, TreeFacts
    <3>3. parent # NULL => node \in Kids(t, parent) /\ t.left[parent] # t.right[parent]
      BY <3>1, <3>2 DEF Kids
    <3> QED BY <1>3, <1>4, <1>8, <3>3, ReplaceFields
  <2> QED BY <2>1 DEF Replaces
<1>13. /\ Repaints(s1, s2) /\ (parent # NULL => s2 = s1)
       /\ SameColors(s1.black, s2.black, IF parent = NULL THEN {child} ELSE {})
       /\ (parent = NULL /\ child # NULL => s2.black[child])
  <2>1. CASE parent = NULL /\ child # NULL
    <3>1. s2 = Blacken(s1, child) /\ child \in Node
      BY <1>4, <1>9, <2>1 DEF RootBlack, Blacken, Place
    <3> QED BY <1>12, <2>1, <3>1, PaintBlack
  <2>2. CASE ~(parent = NULL /\ child # NULL)
    <3>1. s2 = s1
      BY ONLY <1>9, <2>2, Zenon DEF RootBlack
    <3> QED BY <1>12, <2>2, <3>1 DEF Repaints, SameColors
  <2> QED BY <2>1, <2>2
<1>14. /\ Unlinks(t.left, t.right, t.root, s3.left, s3.right, s3.root, node, parent, child)
       /\ s3 \in TreeType /\ ~s3.black[node] /\ SameColors(s2.black, s3.black, {node})
  <2>1. s3 = Create(s2, node, FALSE)
    BY <1>1, <1>8, <1>9, <1>10
  <2>2. PICK w : w = Weight(t.black, node, NULL)
    OBVIOUS
  <2>3. Sound(t, heap, key, {node}, w)
    BY <1>5, <2>2
  <2> QED BY <1>3, <1>4, <1>8, <1>11, <1>13, <2>1, <2>3, UnlinkFields
<1>15. SameColors(t.black, s3.black, IF parent = NULL THEN {node, child} ELSE {node})
  BY <1>12, <1>13, <1>14 DEF SameColors
<1>16. Sound(s3, heap \ {node}, key', {}, Weight(s3.black, NULL, NULL))
  <2>1. PICK w \in [Node -> Nat] : w = Weight(t.black, node, NULL)
    BY <1>3, WeightType
  <2>2. PICK b3 \in [Node -> BOOLEAN] : b3 = s3.black
    BY <1>14, FieldTypes
  <2>3. PICK w3 \in [Node -> Nat] : w3 = Weight(b3, NULL, NULL)
    BY <2>2, WeightType
  <2>4. PICK S : S = IF parent = NULL THEN {node, child} ELSE {node}
    OBVIOUS
  <2>5. NoWeight(w, w, node) /\ NoWeight(w3, w3, node)
    <3>1. w[node] = 0 /\ w3[node] = 0
      BY <1>3, <1>4, <1>14, <2>1, <2>2, <2>3, Weighs
    <3> QED BY <3>1 DEF NoWeight
  <2>6. ASSUME NEW m \in Node \ S PROVE w3[m] = w[m]
    <3>1. m # node /\ m # NULL /\ m \in Node /\ (b3[m] <=> t.black[m])
      BY <1>3, <1>15, <2>2, <2>4 DEF SameColors
    <3>2. CASE b3[m]
      BY <1>3, <2>1, <2>3, <3>1, <3>2, Weighs
    <3>3. CASE ~b3[m]
      BY <1>3, <2>1, <2>3, <3>1, <3>3, Weighs
    <3> QED BY <3>2, <3>3
  <2>7. SameWeights(w, w3, Lightened(node, parent, child))
    BY <2>4, <2>6 DEF SameWeights, Lightened
  <2>8. PICK k \in [Node -> Int] : k = key
    BY KeyNumbers DEF IndInv
  <2>9. PICK k2 : k2 = key'
    OBVIOUS
  <2>10. Sound(t, heap, k, {node}, w) /\ SameKeys(k, k2, {node})
    BY <1>1, <1>5, <2>1, <2>8, <2>9 DEF SameKeys
  <2>11. Sound(s3, heap \ {node}, k2, {}, w3)
    BY <1>3, <1>4, <1>14, <2>5, <2>7, <2>10, UnlinkSound
  <2> QED BY <2>2, <2>3, <2>9, <2>11
<1>17. /\ child # node /\ parent # node
       /\ \A m \in Node : m # parent => t.left[m] # node /\ t.right[m] # node
       /\ parent # NULL => t.root # node
  <2>1. t.left \in Children /\ t.right \in Children /\ Subs(t) \in Subtrees /\ Tree(t.left, t.right, t.root, heap, Subs(t))
    BY <1>3, <1>5, FieldTypes DEF Sound
  <2> QED BY <1>14, <2>1, UnlinksPlaces
<1>18. ASSUME NEW m \in Node, NEW c \in Kids(s3, m), c # NULL
       PROVE  m # node /\ c # node /\ c \in Node /\ (c \in Kids(t, m) \/ (m = parent /\ c = child))
  <2>1. /\ s3.left[m] = IF m = node THEN NULL ELSE IF m = parent /\ t.left[m] = node THEN child ELSE t.left[m]
        /\ s3.right[m] = IF m = node THEN NULL ELSE IF m = parent /\ t.right[m] = node THEN child ELSE t.right[m]
        /\ s3.left \in Children /\ s3.right \in Children
    BY <1>14 DEF Unlinks
  <2>2. c \in Node
    BY <1>18, <2>1 DEF Kids, Children, Place
  <2> QED BY <1>17, <1>18, <2>1, <2>2 DEF Kids
<1>19. Red(s3, {}, NULL)
  <2>1. ASSUME NEW m \in Node, ~s3.black[m], NEW c \in Kids(s3, m), c # NULL PROVE s3.black[c]
    <3>1. m # node /\ c # node /\ c \in Node /\ (c \in Kids(t, m) \/ (m = parent /\ c = child))
      BY <1>18, <2>1
    <3>2. ~t.black[m]
      <4>1. m # child => ~t.black[m]
        BY <1>15, <2>1, <3>1 DEF SameColors
      <4>2. parent # NULL => ~t.black[m]
        BY <1>15, <2>1, <3>1 DEF SameColors
      <4>3. parent = NULL /\ m = child => s3.black[m]
        BY <1>3, <1>13, <1>14, <3>1 DEF SameColors
      <4> QED BY <2>1, <4>1, <4>2, <4>3
    <3>3. c \in Kids(t, m)
      BY <1>3, <1>7, <2>1, <3>1, <3>2
    <3>4. t.black[c]
      BY <1>6, <2>1, <3>1, <3>2, <3>3 DEF Red
    <3>5. c # child \/ parent # NULL => s3.black[c]
      BY <1>15, <3>1, <3>4 DEF SameColors
    <3>6. c = child /\ parent = NULL => s3.black[c]
      BY <1>13, <1>14, <2>1, <3>1 DEF SameColors
    <3> QED BY <3>5, <3>6
  <2> QED BY <2>1 DEF Red
<1>20. s3.root # NULL => s3.black[s3.root]
  <2>1. CASE parent = NULL
    <3>1. s3.root = child
      BY <1>14, <2>1 DEF Unlinks
    <3> QED BY <1>4, <1>13, <1>14, <1>17, <2>1, <3>1 DEF SameColors, Place
  <2>2. CASE parent # NULL
    <3>1. s3.root = t.root /\ t.root # node /\ t.root \in Place
      BY <1>3, <1>14, <1>17, <2>2, FieldTypes DEF Unlinks
    <3> QED BY <1>6, <1>15, <2>2, <3>1 DEF SameColors, Place
  <2> QED BY <2>1, <2>2
<1>21. Cardinality(heap') = count'
  <2>1. IsFiniteSet(heap) /\ Cardinality(heap) = count + 1 /\ count \in Nat
    BY <1>2, <1>3, FS_Subset DEF IndInv, CountInv, Types
  <2>2. Cardinality(heap \ {node}) = Cardinality(heap) - 1
    BY <1>4, <2>1, FS_RemoveElement
  <2> QED BY <1>1, <2>1, <2>2
<1>22. \A n \in heap \ {node} : n \in Node /\ key'[n] = key[n] /\ value'[n] = value[n]
  <2>1. key \in [Node -> Keys \cup {0}] /\ value \in [Node -> Values \cup {NULL}]
    BY DEF IndInv, Types
  <2> QED BY <1>1, <1>3, <2>1
<1>23. MapOn(heap)'
  <2>1. MapOn(heap \ {node})
    BY <1>2 DEF IndInv, MapInv
  <2>2. {key'[n] : n \in heap \ {node}} = {key[n] : n \in heap \ {node}}
    BY <1>22
  <2> QED BY <1>1, <1>22, <2>1, <2>2 DEF MapOn
<1>24. Unique(key', heap')
  <2>1. Unique(key, heap \ {node})
    BY <1>2 DEF IndInv, UniqueInv, Gone
  <2> QED BY <1>1, <1>22, <2>1 DEF Unique
<1>25. PairRefers'
  <2>1. found # NULL => pair \in heap /\ key[pair] = found /\ pair # node
    BY <1>2 DEF IndInv, PairInv, PairRefers
  <2> QED BY <1>1, <1>22, <2>1 DEF PairRefers
<1>26. ret' = wantRet' /\ freed' = wantFreed'
  BY <1>1, <1>2 DEF IndInv, ResultInv, Return
<1>27. Types'
  <2>1. \A n \in heap' : key'[n] \in Keys
    BY <1>1, <1>22 DEF IndInv, Types
  <2>2. key' \in [Node -> Keys \cup {0}] /\ value' \in [Node -> Values \cup {NULL}]
    BY <1>1 DEF IndInv, Types
  <2>3. heap' \in SUBSET Node /\ t' \in TreeType
    BY <1>1, <1>3, <1>10, <1>14
  <2> QED BY <1>1, <2>1, <2>2, <2>3, Nodes DEF IndInv, Types, Return, Searching
<1>28. pc' = "idle" /\ stack' = <<>> /\ stack_size' \in Nat \ {0}
  BY <1>1 DEF Return, IndInv, StackInv
<1> QED BY <1>1, <1>10, <1>16, <1>19, <1>20, <1>21, <1>23, <1>24, <1>25, <1>26, <1>27, <1>28, Returned

-----------------------------------------------------------------------------
\* The invariant speaks of the variables of the tree only.
LEMMA StutterKeeps ==
  ASSUME IndInv, UNCHANGED vars
  PROVE  IndInv'
<1>1. /\ t' = t /\ key' = key /\ value' = value /\ heap' = heap /\ count' = count
      /\ stack' = stack /\ stack_size' = stack_size /\ pair' = pair /\ found' = found
      /\ pc' = pc /\ node' = node /\ parent' = parent /\ child' = child
      /\ arg' = arg /\ argv' = argv /\ over' = over /\ ret' = ret /\ freed' = freed
      /\ want' = want /\ wantRet' = wantRet /\ wantFreed' = wantFreed
  BY DEF vars, fields, lookedup, locals, args, hist
<1>2. Gone' = Gone /\ Victim' = Victim /\ Gap' = Gap /\ MayBeRed' = MayBeRed
  BY <1>1 DEF Gone, Victim, Gap, MayBeRed, At
<1>3. Types' /\ SoundInv' /\ UniqueInv' /\ RedInv'
  BY <1>1, <1>2 DEF IndInv, Types, SoundInv, UniqueInv, RedInv
<1>4. StackInv' /\ SearchInv' /\ MaxInv' /\ VictimInv'
  BY <1>1 DEF IndInv, StackInv, SearchInv, MaxInv, VictimInv, At
<1>5. GapInv' /\ CountInv'
  BY <1>1 DEF IndInv, GapInv, CountInv, At, Sibling
<1>6. MapInv' /\ ResultInv'
  BY <1>1 DEF IndInv, MapInv, InsertInv, MapOn, Others, ResultInv, FindInv
<1>7. PairInv'
  BY <1>1 DEF IndInv, PairInv, PairRefers
<1> QED BY <1>3, <1>4, <1>5, <1>6, <1>7 DEF IndInv

\* Every call of the interface keeps the invariant.
LEMMA CallNextKeeps ==
  ASSUME IndInv, CallNext
  PROVE  IndInv'
<1>1. ASSUME NEW k \in Keys, NEW v \in Values, NEW o \in BOOLEAN, SetRoot(k, v, o) PROVE IndInv'
  BY <1>1, SetRootKeeps
<1>2. ASSUME NEW k \in Keys, NEW v \in Values, NEW o \in BOOLEAN, Set(k, v, o) PROVE IndInv'
  BY <1>2, SetKeeps
<1>3. ASSUME NEW k \in Keys, Remove(k) PROVE IndInv'
  BY <1>3, RemoveKeeps
<1>4. ASSUME NEW k \in Keys, Lookup(k) \/ Exists(k) PROVE IndInv'
  BY <1>4, LookupKeeps
<1>5. ASSUME NEW v \in Values, PairSetValue(v) PROVE IndInv'
  BY <1>5, PairSetValueKeeps
<1>6. ASSUME Clear(stack_size, pair) PROVE IndInv'
  <2>1. stack_size \in Nat \ {0} /\ pair \in Place
    BY DEF IndInv, StackInv, Types
  <2> QED BY <1>6, <2>1, ClearKeeps
<1>7. ASSUME Clear(RBTREE_INITIAL_BLOCK_SIZE, NULL) PROVE IndInv'
  BY <1>7, ClearKeeps, TreeAssumption, Nodes
<1> QED BY <1>1, <1>2, <1>3, <1>4, <1>5, <1>6, <1>7, Zenon DEF CallNext

\* Every step of a call keeps the invariant.
LEMMA StepNextKeeps ==
  ASSUME IndInv, StepNext
  PROVE  IndInv'
<1>1. CASE InsertReplace
  BY <1>1, InsertReplaceKeeps
<1>2. CASE InsertFail
  BY <1>2, InsertFailKeeps
<1>3. CASE InsertDown
  BY <1>3, InsertDownKeeps
<1>4. CASE InsertLeaf
  BY <1>4, InsertLeafKeeps
<1>5. CASE FixInsertRoot
  BY <1>5, FixInsertRootKeeps
<1>6. CASE FixInsertBlackParent
  BY <1>6, FixInsertBlackParentKeeps
<1>7. CASE FixInsertRedUncle
  BY <1>7, FixInsertRedUncleKeeps
<1>8. CASE FixInsertRotate
  BY <1>8, FixInsertRotateKeeps
<1>9. CASE FindDown
  BY <1>9, FindDownKeeps
<1>10. CASE FindMissing
  BY <1>10, FindMissingKeeps
<1>11. CASE LookupFound \/ ExistsFound
  BY <1>11, FoundKeeps
<1>12. CASE RemoveFound
  BY <1>12, RemoveFoundKeeps
<1>13. CASE MaxDown
  BY <1>13, MaxDownKeeps
<1>14. CASE MaxFound
  BY <1>14, MaxFoundKeeps
<1>15. CASE Prepare
  BY <1>15, PrepareKeeps
<1>16. CASE RebalanceRoot
  BY <1>16, RebalanceRootKeeps
<1>17. CASE RebalanceRedSibling
  BY <1>17, RebalanceRedSiblingKeeps
<1>18. CASE RebalanceUp
  BY <1>18, RebalanceUpKeeps
<1>19. CASE RebalanceRedParent
  BY <1>19, RebalanceRedParentKeeps
<1>20. CASE RebalanceRotate
  BY <1>20, RebalanceRotateKeeps
<1>21. CASE Unlink
  BY <1>21, UnlinkKeeps
<1> QED BY <1>1, <1>2, <1>3, <1>4, <1>5, <1>6, <1>7, <1>8, <1>9, <1>10, <1>11, <1>12, <1>13, <1>14,
           <1>15, <1>16, <1>17, <1>18, <1>19, <1>20, <1>21 DEF StepNext

\* The inductive invariant holds in every state of every behaviour.
THEOREM TreeInvariant == Spec => []IndInv
<1>1. Init => IndInv
  BY InitKeeps
<1>2. IndInv /\ [Next]_vars => IndInv'
  BY CallNextKeeps, StepNextKeeps, StutterKeeps DEF Next
<1> QED BY <1>1, <1>2, PTL DEF Spec

\* At rest the tree is a red-black tree.
LEMMA IndInvRedBlack ==
  ASSUME IndInv
  PROVE  RedBlack
<1>1. TypeOK
  BY DEF IndInv, Types, TypeOK, TreeType, Children, Place
<1>2. ASSUME pc = "idle"
      PROVE  /\ SearchOrder /\ IsBlack(t, t.root)
             /\ \A n \in heap : t.black[n] \/ (IsBlack(t, t.left[n]) /\ IsBlack(t, t.right[n]))
             /\ Cardinality(BlackHeights(t.root)) = 1
  <2>1. /\ t \in TreeType /\ Sound(t, heap, key, {}, Weight(t.black, NULL, NULL))
        /\ Red(t, {}, NULL) /\ (t.root # NULL => t.black[t.root]) /\ heap \in SUBSET Node
    BY <1>2, AtRest DEF Types
  <2>2. SearchOrder
    <3>1. Order(t.left, t.right, Subs(t), key, {})
      BY <2>1 DEF Sound
    <3>2. \A n \in Node : /\ \A m \in Under(t.left[n]) : key[m] < key[n]
                          /\ \A m \in Under(t.right[n]) : key[m] > key[n]
      BY <3>1 DEF Order, Under, Subs
    <3> QED BY <2>1, <3>2 DEF SearchOrder
  <2>3. IsBlack(t, t.root)
    BY <2>1 DEF IsBlack
  <2>4. \A n \in heap : t.black[n] \/ (IsBlack(t, t.left[n]) /\ IsBlack(t, t.right[n]))
    BY <2>1, Nodes DEF Red, IsBlack, Kids
  <2>5. Cardinality(BlackHeights(t.root)) = 1
    <3>1. PICK bh \in Heights : Balanced(t.left, t.right, Weight(t.black, NULL, NULL), bh)
      BY <2>1 DEF Sound
    <3>2. Subs(t) \in Subtrees /\ Shape(t.left, t.right, Subs(t))
      BY <2>1 DEF Sound, Tree
    <3>3. t.left \in Children /\ t.right \in Children /\ t.root \in Place /\ t.black \in [Node -> BOOLEAN]
      BY <2>1, FieldTypes
    <3>4. BlackHeights(t.root) = {bh[t.root]}
      BY <3>1, <3>2, <3>3, OneHeight
    <3> QED BY <3>4, FS_Singleton
  <2> QED BY <2>2, <2>3, <2>4, <2>5
<1> QED BY <1>1, <1>2 DEF RedBlack

\* At rest the tree holds the map.
LEMMA IndInvIsMap ==
  ASSUME IndInv
  PROVE  IsMap
<1> SUFFICES ASSUME pc = "idle"
             PROVE  /\ heap = Under(t.root)
                    /\ {<<key[n], value[n]>> : n \in heap} = {<<k, want[k]>> : k \in DOMAIN want}
                    /\ count = Cardinality(DOMAIN want) /\ ret = wantRet /\ freed = wantFreed
  BY DEF IsMap
<1>1. /\ t \in TreeType /\ Sound(t, heap, key, {}, Weight(t.black, NULL, NULL)) /\ Unique(key, heap)
      /\ MapOn(heap) /\ Cardinality(heap) = count /\ ret = wantRet /\ freed = wantFreed /\ heap \in SUBSET Node
  BY AtRest DEF Types
<1>2. heap = Under(t.root)
  BY <1>1, HeapIsTree
<1>3. DOMAIN want = {key[n] : n \in heap} /\ \A n \in heap : want[key[n]] = value[n]
  BY <1>1 DEF MapOn
<1>4. {<<key[n], value[n]>> : n \in heap} = {<<k, want[k]>> : k \in DOMAIN want}
  BY <1>3
<1>5. count = Cardinality(DOMAIN want)
  BY <1>1, <1>3, KeyCount
<1> QED BY <1>1, <1>2, <1>4, <1>5

\* The pointers that are followed during a removal are there.
LEMMA IndInvSiblingExists ==
  ASSUME IndInv
  PROVE  SiblingExists
<1> SUFFICES ASSUME pc \in Filling, Len(stack) > 1
             PROVE  SiblingExists
  BY DEF SiblingExists, Filling
<1>1. Sibling # NULL
  BY AtSibling
<1>2. PICK a : a = At(0)
  OBVIOUS
<1>3. PICK p : p = At(1)
  OBVIOUS
<1>4. PICK s : s = OuterRed(a, p)
  OBVIOUS
<1>5. PICK sib : sib = SiblingOf(s, a, p)
  OBVIOUS
<1>6. ASSUME AtCase3, ~SiblingAllBlack PROVE ~IsBlack(s, IF a = s.left[p] THEN s.right[sib] ELSE s.left[sib])
  <2>1. PICK g : g = At(2)
    OBVIOUS
  <2>2. HasFar(s, a, sib, p, g)
    BY <1>2, <1>3, <1>4, <1>5, <1>6, <2>1, AtFar
  <2>3. Far(s, a, p, sib) # NULL /\ ~s.black[Far(s, a, p, sib)]
    BY <2>2 DEF HasFar
  <2> QED BY <2>3 DEF Far, IsBlack
<1>7. AtCase3 /\ ~SiblingAllBlack =>
        ~IsBlack(s, IF At(0) = s.left[At(1)] THEN s.right[sib] ELSE s.left[sib])
  BY <1>2, <1>3, <1>6
<1>8. s = OuterRed(At(0), At(1)) /\ sib = SiblingOf(s, At(0), At(1))
  BY <1>2, <1>3, <1>4, <1>5
<1> QED BY <1>1, <1>7, <1>8 DEF SiblingExists

\* The stack holds a path.
LEMMA IndInvPathOnStack ==
  ASSUME IndInv
  PROVE  PathOnStack
BY DEF IndInv, StackInv, IsPath, PathOnStack, Kids

\* Between calls the tree is ordered and balanced: RedBlack holds whatever the
\* keys, the number of nodes and the calls.
THEOREM RedBlackTheorem == Spec => []RedBlack
<1>1. IndInv => RedBlack
  BY IndInvRedBlack
<1> QED BY <1>1, TreeInvariant, PTL

\* rbtree.c keeps the map it has been told to keep.
THEOREM IsMapTheorem == Spec => []IsMap
<1>1. IndInv => IsMap
  BY IndInvIsMap
<1> QED BY <1>1, TreeInvariant, PTL

\* The pair of the last lookup keeps referring to its key.
THEOREM PairRefersTheorem == Spec => []PairRefers
<1>1. IndInv => PairRefers
  BY DEF IndInv, PairInv
<1> QED BY <1>1, TreeInvariant, PTL

\* The sibling of a gap, and the red child it is rotated with, are there.
THEOREM SiblingExistsTheorem == Spec => []SiblingExists
<1>1. IndInv => SiblingExists
  BY IndInvSiblingExists
<1> QED BY <1>1, TreeInvariant, PTL

\* The stack is a path from the root and fits into its array.
THEOREM PathOnStackTheorem == Spec => []PathOnStack
<1>1. IndInv => PathOnStack
  BY IndInvPathOnStack
<1> QED BY <1>1, TreeInvariant, PTL

-----------------------------------------------------------------------------
\* The iterator.

Item == [node : Node, state : 0..2]

\* What is still to be visited below the node of item x.
Rest(L, R, sub, x) == (IF x.state = 0 THEN sub[L[x.node]] ELSE {})
                      \cup (IF x.state < 2 THEN sub[R[x.node]] ELSE {})

\* n is below the child of x's node that was pushed last.
InBranch(L, R, sub, x, n) == \/ x.state = 1 /\ n \in sub[L[x.node]]
                             \/ x.state = 2 /\ n \in sub[R[x.node]]

\* q is a path in the tree of A; what is visited and what is to be visited make
\* up the tree.
Walk(L, R, sub, A, q, V) ==
  /\ q \in Seq(Item)
  /\ \A i \in 1..Len(q) : q[i].node \in A
  /\ \A i \in 1..Len(q) : \A j \in 1..(i - 1) : InBranch(L, R, sub, q[j], q[i].node)
  /\ \A n \in A : n \in V <=> \A i \in 1..Len(q) : n \notin Rest(L, R, sub, q[i])

Seen == {visited[i] : i \in 1..Len(visited)}

IterInv ==
  /\ visited \in Seq(Node) /\ isize \in Nat /\ fresh \in BOOLEAN /\ finished \in BOOLEAN
  /\ istack # <<>> => fresh
  /\ ipc = "next" => istack # <<>>
  /\ fresh =>
       /\ pc \in {"idle", "lookup", "exists"}
       /\ SX!IsInjective(visited) /\ Seen \subseteq heap
       /\ t.root = NULL => finished
       /\ t.root # NULL /\ count < SIZE_MAX => isize >= count + 1
       /\ IF istack # <<>> THEN ~finished /\ Walk(t.left, t.right, Subs(t), heap, istack, Seen)
          ELSE Seen = IF finished THEN heap ELSE {}

\* c is the child of x's node n that is next.
NextChild(L, R, x, n, c) == /\ n = x.node
                            /\ (x.state = 0 /\ c = L[n]) \/ (x.state = 1 /\ c = R[n])

\* The item at the end of the path moves on to its next child.
Advance(q, l) == [q EXCEPT ![l].state = @ + 1]

\* Only its state changes.
LEMMA Advanced ==
  ASSUME NEW q \in Seq(Item), NEW l \in 1..Len(q), q[l].state < 2, NEW q1, q1 = Advance(q, l)
  PROVE  /\ q1 \in Seq(Item) /\ Len(q1) = Len(q)
         /\ \A i \in 1..Len(q) : q1[i].node = q[i].node
         /\ \A i \in (1..Len(q)) \ {l} : q1[i] = q[i]
         /\ q1[l].state = q[l].state + 1
<1>1. q[l].node \in Node /\ q[l].state \in 0..2 /\ q[l] = [node |-> q[l].node, state |-> q[l].state]
  <2>1. q[l] \in Item
    OBVIOUS
  <2> QED BY <2>1 DEF Item
<1>2. PICK x : x = [q[l] EXCEPT !.state = @ + 1]
  OBVIOUS
<1>3. x = [node |-> q[l].node, state |-> q[l].state + 1]
  BY <1>1, <1>2 DEF Item
<1>4. x \in Item /\ x.node = q[l].node /\ x.state = q[l].state + 1
  BY <1>1, <1>3 DEF Item
<1>5. q1 = [q EXCEPT ![l] = x]
  BY <1>2 DEF Advance
<1>6. q1 \in Seq(Item) /\ Len(q1) = Len(q)
  BY <1>4, <1>5
<1>7. \A i \in 1..Len(q) : q1[i] = IF i = l THEN x ELSE q[i]
  BY <1>5
<1> QED BY <1>4, <1>6, <1>7

\* The item's child c is pushed.
Deeper(q, l, c) == Append(Advance(q, l), [node |-> c, state |-> 0])

\* c divides what is to be visited from the end of the path on.
Divides(L, R, sub, q, l, n, c) ==
  /\ c \in Place /\ sub[c] \subseteq sub[n]
  /\ q[l].state = 0 => /\ Rest(L, R, sub, q[l]) = sub[c] \cup sub[R[n]]
                       /\ sub[c] \cap sub[R[n]] = {}
  /\ q[l].state = 1 => Rest(L, R, sub, q[l]) = sub[c]
  /\ \A i \in 1..(l - 1) : sub[n] \cap Rest(L, R, sub, q[i]) = {}

\* What is below the next child belongs to nothing else that is to be visited.
LEMMA NextRest ==
  ASSUME NEW L \in Children, NEW R \in Children, NEW sub \in Subtrees, Shape(L, R, sub),
         NEW A \in SUBSET Node, NEW q, NEW V, Walk(L, R, sub, A, q, V),
         NEW l \in 1..Len(q), l = Len(q), NEW n, NEW c, NextChild(L, R, q[l], n, c)
  PROVE  Divides(L, R, sub, q, l, n, c)
<1>1. n \in A /\ n \in Node
  BY DEF Walk, NextChild
<1>2. L[n] \in Place /\ R[n] \in Place
  BY <1>1 DEF Children
<1>3. sub[n] = {n} \cup sub[L[n]] \cup sub[R[n]] /\ n \notin sub[L[n]] /\ n \notin sub[R[n]] /\ sub[L[n]] \cap sub[R[n]] = {}
  BY <1>1 DEF Shape, Unfolds, Splits
<1>4. /\ q[l].state = 0 => c = L[n] /\ Rest(L, R, sub, q[l]) = sub[c] \cup sub[R[n]]
      /\ q[l].state = 1 => c = R[n] /\ Rest(L, R, sub, q[l]) = sub[c]
      /\ q[l].state = 0 \/ q[l].state = 1
  BY DEF Rest, NextChild
<1>5. ASSUME NEW i \in 1..(l - 1) PROVE sub[n] \cap Rest(L, R, sub, q[i]) = {}
  <2>1. InBranch(L, R, sub, q[i], n)
    BY DEF Walk, NextChild
  <2>2. PICK m \in Node : m = q[i].node
    BY DEF Walk
  <2>3. L[m] \in Place /\ R[m] \in Place /\ sub[L[m]] \cap sub[R[m]] = {}
    BY DEF Shape, Splits, Children
  <2>4. CASE q[i].state = 1 /\ n \in sub[L[m]]
    <3>1. sub[n] \subseteq sub[L[m]]
      BY <2>3, <2>4, BelowBelow
    <3>2. Rest(L, R, sub, q[i]) = sub[R[m]]
      BY <2>2, <2>4 DEF Rest
    <3> QED BY <2>3, <3>1, <3>2
  <2>5. CASE q[i].state = 2
    BY <2>5 DEF Rest
  <2> QED BY <2>1, <2>2, <2>4, <2>5 DEF InBranch
<1> QED BY <1>1, <1>2, <1>3, <1>4, <1>5 DEF Divides

\* q is a path that ends at l.
OnWalk(L, R, sub, A, q, V, l) ==
  /\ L \in Children /\ R \in Children /\ sub \in Subtrees /\ Shape(L, R, sub)
  /\ A \in SUBSET Node /\ \A m \in A : sub[m] \subseteq A
  /\ Walk(L, R, sub, A, q, V) /\ l \in 1..Len(q) /\ l = Len(q)

\* c is visited at the end of path q2.
Visits(L, R, sub, A, q2, V, c) == c \in A /\ c \notin V /\ Walk(L, R, sub, A, q2, V \cup {c})

\* The iterator visits the next child.
LEMMA WalkDown ==
  ASSUME NEW L, NEW R, NEW sub, NEW A, NEW q, NEW V, NEW l, OnWalk(L, R, sub, A, q, V, l),
         NEW n, NEW c, NextChild(L, R, q[l], n, c), c # NULL
  PROVE  Visits(L, R, sub, A, Deeper(q, l, c), V, c)
<1> SUFFICES ASSUME L \in Children, R \in Children, sub \in Subtrees, Shape(L, R, sub), A \in SUBSET Node,
                    \A m \in A : sub[m] \subseteq A, Walk(L, R, sub, A, q, V), l \in 1..Len(q), l = Len(q),
                    NEW q2, q2 = Deeper(q, l, c)
             PROVE  c \in A /\ c \notin V /\ Walk(L, R, sub, A, q2, V \cup {c})
  BY DEF OnWalk, Visits
<1>0. /\ q \in Seq(Item) /\ n \in A /\ n \in Node /\ q[l].state < 2 /\ Len(q) \in Nat
      /\ \A i \in 1..Len(q) : q[i].node \in A
      /\ \A i \in 1..Len(q) : \A j \in 1..(i - 1) : InBranch(L, R, sub, q[j], q[i].node)
      /\ \A m \in A : m \in V <=> \A i \in 1..Len(q) : m \notin Rest(L, R, sub, q[i])
  BY DEF Walk, NextChild
<1>n. n = q[l].node /\ ((q[l].state = 0 /\ c = L[n]) \/ (q[l].state = 1 /\ c = R[n]))
  BY DEF NextChild
<1>1. /\ c \in Place /\ sub[c] \subseteq sub[n]
      /\ q[l].state = 0 => /\ Rest(L, R, sub, q[l]) = sub[c] \cup sub[R[n]]
                           /\ sub[c] \cap sub[R[n]] = {}
      /\ q[l].state = 1 => Rest(L, R, sub, q[l]) = sub[c]
      /\ \A i \in 1..(l - 1) : sub[n] \cap Rest(L, R, sub, q[i]) = {}
  <2>1. Divides(L, R, sub, q, l, n, c)
    BY NextRest
  <2> QED BY <2>1 DEF Divides
<1>2. c \in Node /\ c \in sub[c] /\ sub[c] = {c} \cup sub[L[c]] \cup sub[R[c]] /\ c \notin sub[L[c]] /\ c \notin sub[R[c]]
  <2>1. c \in Node
    BY <1>1 DEF Place
  <2> QED BY <2>1 DEF Shape, Unfolds, Splits
<1>3. c \in A /\ c \notin V
  <2>1. c \in A
    BY <1>0, <1>1, <1>2
  <2>2. c \in Rest(L, R, sub, q[l])
    BY <1>n, <1>1, <1>2
  <2> QED BY <1>0, <2>1, <2>2
<1>4. PICK q1 : q1 = Advance(q, l)
  OBVIOUS
<1>5. /\ q1 \in Seq(Item) /\ Len(q1) = l
      /\ \A i \in 1..l : q1[i].node = q[i].node
      /\ \A i \in 1..(l - 1) : q1[i] = q[i]
      /\ q1[l].state = q[l].state + 1
  <2>1. q \in Seq(Item) /\ q[l].state < 2
    BY <1>0
  <2> QED BY <1>4, <2>1, Advanced
<1>6. PICK x : x = [node |-> c, state |-> 0]
  OBVIOUS
<1>7. x \in Item /\ x.node = c /\ x.state = 0
  BY <1>2, <1>6 DEF Item
<1>8. /\ q2 \in Seq(Item) /\ Len(q2) = l + 1 /\ q2[l + 1] = x
      /\ \A i \in 1..l : q2[i] = q1[i]
  <2>1. q2 = Append(q1, x)
    BY <1>4, <1>6 DEF Deeper
  <2> QED BY <1>5, <1>7, <2>1
<1>9. /\ \A i \in 1..(l - 1) : q2[i] = q[i]
      /\ \A i \in 1..l : q2[i].node = q[i].node
      /\ q2[l].node = n /\ q2[l].state = q[l].state + 1
  <2>1. l \in 1..l
    OBVIOUS
  <2> QED BY <1>n, <1>5, <1>8, <2>1
<1>10. (q[l].state = 0 /\ q2[l].state = 1) \/ (q[l].state = 1 /\ q2[l].state = 2)
  BY <1>n, <1>9
<1>11. /\ q[l].state = 0 => Rest(L, R, sub, q2[l]) = sub[R[n]]
       /\ q[l].state = 1 => Rest(L, R, sub, q2[l]) = {}
       /\ Rest(L, R, sub, q2[l + 1]) = sub[c] \ {c}
  <2>1. /\ q[l].state = 0 => Rest(L, R, sub, q2[l]) = sub[R[n]]
        /\ q[l].state = 1 => Rest(L, R, sub, q2[l]) = {}
    BY <1>9, <1>10 DEF Rest
  <2>2. Rest(L, R, sub, q2[l + 1]) = sub[L[c]] \cup sub[R[c]]
    BY <1>7, <1>8 DEF Rest
  <2> QED BY <1>2, <2>1, <2>2
<1>12. \A i \in 1..Len(q2) : q2[i].node \in A
  BY <1>0, <1>3, <1>7, <1>8, <1>9
<1>13. ASSUME NEW i \in 1..Len(q2), NEW j \in 1..(i - 1) PROVE InBranch(L, R, sub, q2[j], q2[i].node)
  <2>1. CASE i <= l
    <3>0. i \in 1..l /\ j \in 1..(l - 1)
      BY <1>0, <1>8, <2>1
    <3>1. q2[j] = q[j] /\ q2[i].node = q[i].node /\ i \in 1..Len(q)
      BY <1>9, <3>0
    <3> QED BY <1>0, <3>1
  <2>2. CASE i = l + 1 /\ j < l
    <3>1. q2[j] = q[j] /\ q2[i].node = c /\ InBranch(L, R, sub, q[j], n)
      BY <1>0, <1>7, <1>8, <1>9, <2>2
    <3>2. PICK m \in Node : m = q[j].node
      BY <1>0, <2>2
    <3>3. L[m] \in Place /\ R[m] \in Place
      BY DEF Children
    <3>4. c \in sub[n]
      BY <1>1, <1>2
    <3>5. n \in sub[L[m]] => c \in sub[L[m]]
      BY <3>3, <3>4, BelowBelow
    <3>6. n \in sub[R[m]] => c \in sub[R[m]]
      BY <3>3, <3>4, BelowBelow
    <3> QED BY <3>1, <3>2, <3>5, <3>6 DEF InBranch
  <2>3. CASE i = l + 1 /\ j = l
    <3>1. q2[i].node = c
      BY <1>7, <1>8, <2>3
    <3> QED BY <1>n, <1>2, <1>10, <1>9, <2>3, <3>1 DEF InBranch
  <2> QED BY <1>8, <2>1, <2>2, <2>3
<1>14. ASSUME NEW m \in A PROVE m \in V \cup {c} <=> \A i \in 1..Len(q2) : m \notin Rest(L, R, sub, q2[i])
  <2>1. (\A i \in 1..Len(q2) : m \notin Rest(L, R, sub, q2[i])) <=>
          /\ \A i \in 1..(l - 1) : m \notin Rest(L, R, sub, q[i])
          /\ m \notin Rest(L, R, sub, q2[l]) /\ m \notin Rest(L, R, sub, q2[l + 1])
    <3>1. \A i \in 1..Len(q2) : i \in 1..(l - 1) \/ i = l \/ i = l + 1
      BY <1>0, <1>8
    <3>2. l \in 1..Len(q2) /\ l + 1 \in 1..Len(q2) /\ \A i \in 1..(l - 1) : i \in 1..Len(q2)
      BY <1>0, <1>8
    <3>3. PICK k : k = l + 1
      OBVIOUS
    <3> QED BY <1>9, <3>1, <3>2, <3>3
  <2>2. m \in V <=> /\ \A i \in 1..(l - 1) : m \notin Rest(L, R, sub, q[i])
                    /\ m \notin Rest(L, R, sub, q[l])
    BY <1>0
  <2>3. CASE m = c
    <3>1. \A i \in 1..(l - 1) : m \notin Rest(L, R, sub, q[i])
      BY <1>1, <1>2, <2>3
    <3>2. m \notin Rest(L, R, sub, q2[l]) /\ m \notin Rest(L, R, sub, q2[l + 1])
      BY <1>1, <1>2, <1>10, <1>11, <2>3
    <3> QED BY <2>1, <2>3, <3>1, <3>2
  <2>4. CASE m # c
    <3>1. m \notin Rest(L, R, sub, q[l]) <=> m \notin Rest(L, R, sub, q2[l]) /\ m \notin Rest(L, R, sub, q2[l + 1])
      BY <1>1, <1>10, <1>11, <2>4
    <3> QED BY <2>1, <2>2, <2>4, <3>1
  <2> QED BY <2>3, <2>4
<1> QED BY <1>3, <1>8, <1>12, <1>13, <1>14 DEF Walk

\* A null child is passed over.
LEMMA WalkOver ==
  ASSUME NEW L, NEW R, NEW sub, NEW A, NEW q, NEW V, NEW l, OnWalk(L, R, sub, A, q, V, l),
         NEW n, NEW c, NextChild(L, R, q[l], n, c), c = NULL
  PROVE  Walk(L, R, sub, A, Advance(q, l), V) /\ Len(Advance(q, l)) = l
<1> SUFFICES ASSUME L \in Children, R \in Children, sub \in Subtrees, Shape(L, R, sub), A \in SUBSET Node,
                    Walk(L, R, sub, A, q, V), l \in 1..Len(q), l = Len(q), NEW q2, q2 = Advance(q, l)
             PROVE  Walk(L, R, sub, A, q2, V) /\ Len(q2) = l
  BY DEF OnWalk
<1>0. /\ q \in Seq(Item) /\ n \in A /\ n \in Node /\ q[l].state < 2 /\ Len(q) \in Nat
      /\ \A i \in 1..Len(q) : q[i].node \in A
      /\ \A i \in 1..Len(q) : \A j \in 1..(i - 1) : InBranch(L, R, sub, q[j], q[i].node)
      /\ \A m \in A : m \in V <=> \A i \in 1..Len(q) : m \notin Rest(L, R, sub, q[i])
  BY DEF Walk, NextChild
<1>n. n = q[l].node /\ ((q[l].state = 0 /\ c = L[n]) \/ (q[l].state = 1 /\ c = R[n]))
  BY DEF NextChild
<1>1. /\ q[l].state = 0 => Rest(L, R, sub, q[l]) = sub[c] \cup sub[R[n]]
      /\ q[l].state = 1 => Rest(L, R, sub, q[l]) = sub[c]
  <2>1. Divides(L, R, sub, q, l, n, c)
    BY NextRest
  <2> QED BY <2>1 DEF Divides
<1>2. /\ q2 \in Seq(Item) /\ Len(q2) = l
      /\ \A i \in 1..l : q2[i].node = q[i].node
      /\ \A i \in 1..(l - 1) : q2[i] = q[i]
      /\ q2[l].node = n /\ q2[l].state = q[l].state + 1
  <2>1. q \in Seq(Item) /\ q[l].state < 2 /\ l \in 1..l
    BY <1>0
  <2> QED BY <1>n, <2>1, Advanced
<1>3. Rest(L, R, sub, q2[l]) = Rest(L, R, sub, q[l])
  <2>1. sub[c] = {}
    BY DEF Shape, Unfolds
  <2>2. (q[l].state = 0 /\ q2[l].state = 1) \/ (q[l].state = 1 /\ q2[l].state = 2)
    BY <1>n, <1>2
  <2>3. /\ q[l].state = 0 => Rest(L, R, sub, q2[l]) = sub[R[n]]
        /\ q[l].state = 1 => Rest(L, R, sub, q2[l]) = {}
    BY <1>2, <2>2 DEF Rest
  <2> QED BY <1>1, <2>1, <2>2, <2>3
<1>4. \A i \in 1..Len(q2) : q2[i].node \in A
  BY <1>0, <1>2
<1>5. ASSUME NEW i \in 1..Len(q2), NEW j \in 1..(i - 1) PROVE InBranch(L, R, sub, q2[j], q2[i].node)
  <2>1. q2[j] = q[j] /\ q2[i].node = q[i].node /\ i \in 1..Len(q)
    BY <1>2
  <2> QED BY <1>0, <2>1
<1>6. ASSUME NEW i \in 1..l PROVE Rest(L, R, sub, q2[i]) = Rest(L, R, sub, q[i])
  BY <1>2, <1>3
<1>7. \A m \in A : m \in V <=> \A i \in 1..Len(q2) : m \notin Rest(L, R, sub, q2[i])
  BY <1>0, <1>2, <1>6
<1> QED BY <1>2, <1>4, <1>5, <1>7 DEF Walk

\* The last item of the path is gone.
WentBack(L, R, sub, A, q, V, l) ==
  LET q2 == SubSeq(q, 1, l - 1)
  IN  Walk(L, R, sub, A, q2, V) /\ Len(q2) = l - 1 /\ \A i \in 1..(l - 1) : q2[i] = q[i]

\* The iterator goes back when both children have been dealt with.
LEMMA WalkBack ==
  ASSUME NEW L, NEW R, NEW sub, NEW A, NEW q, NEW V, NEW l, OnWalk(L, R, sub, A, q, V, l), q[l].state = 2
  PROVE  WentBack(L, R, sub, A, q, V, l)
<1> SUFFICES ASSUME L \in Children, R \in Children, sub \in Subtrees, A \in SUBSET Node, Walk(L, R, sub, A, q, V),
                    l \in 1..Len(q), l = Len(q), NEW q2, q2 = SubSeq(q, 1, l - 1)
             PROVE  Walk(L, R, sub, A, q2, V) /\ Len(q2) = l - 1 /\ \A i \in 1..(l - 1) : q2[i] = q[i]
  BY DEF OnWalk, WentBack
<1>0. /\ q \in Seq(Item) /\ Len(q) \in Nat
      /\ \A i \in 1..Len(q) : q[i].node \in A
      /\ \A i \in 1..Len(q) : \A j \in 1..(i - 1) : InBranch(L, R, sub, q[j], q[i].node)
      /\ \A m \in A : m \in V <=> \A i \in 1..Len(q) : m \notin Rest(L, R, sub, q[i])
  BY DEF Walk
<1>1. q2 \in Seq(Item) /\ Len(q2) = l - 1 /\ \A i \in 1..(l - 1) : q2[i] = q[i]
  BY <1>0
<1>2. Rest(L, R, sub, q[l]) = {}
  BY DEF Rest
<1>3. \A i \in 1..Len(q2) : q2[i].node \in A
  BY <1>0, <1>1
<1>4. ASSUME NEW i \in 1..Len(q2), NEW j \in 1..(i - 1) PROVE InBranch(L, R, sub, q2[j], q2[i].node)
  <2>1. q2[j] = q[j] /\ q2[i] = q[i] /\ i \in 1..Len(q)
    BY <1>1
  <2> QED BY <1>0, <2>1
<1>5. ASSUME NEW m \in A PROVE m \in V <=> \A i \in 1..Len(q2) : m \notin Rest(L, R, sub, q2[i])
  <2>1. (\A i \in 1..Len(q2) : m \notin Rest(L, R, sub, q2[i])) <=>
        (\A i \in 1..(l - 1) : m \notin Rest(L, R, sub, q[i]))
    BY <1>1
  <2> QED BY <1>0, <1>2, <2>1
<1> QED BY <1>1, <1>3, <1>4, <1>5 DEF Walk

\* 1..n has n elements.
LEMMA CountTo == \A n \in Nat : Cardinality(1..n) = n
<1> SUFFICES ASSUME NEW n \in Nat PROVE Cardinality(1..n) = n
  OBVIOUS
<1>1. CASE n = 0
  <2>1. 1..n = {}
    BY <1>1
  <2> QED BY <1>1, <2>1, FS_EmptySet
<1>2. CASE n # 0
  <2>1. 1 \in Int /\ n \in Int /\ ~(1 > n)
    BY <1>2
  <2>2. Cardinality(1..n) = (n - 1) + 1
    BY <2>1, FS_Interval
  <2> QED BY <2>2
<1> QED BY <1>1, <1>2

\* A path is not longer than the tree has nodes.
LEMMA WalkFits ==
  ASSUME NEW L \in Children, NEW R \in Children, NEW sub \in Subtrees, Shape(L, R, sub),
         NEW A \in SUBSET Node, NEW q, NEW V, Walk(L, R, sub, A, q, V)
  PROVE  Len(q) <= Cardinality(A)
<1>0. /\ q \in Seq(Item) /\ Len(q) \in Nat
      /\ \A i \in 1..Len(q) : q[i].node \in A
      /\ \A i \in 1..Len(q) : \A j \in 1..(i - 1) : InBranch(L, R, sub, q[j], q[i].node)
  BY DEF Walk
<1> DEFINE f == [i \in 1..Len(q) |-> q[i].node]
<1>1. ASSUME NEW i \in 1..Len(q), NEW j \in 1..(i - 1) PROVE q[i].node # q[j].node
  <2>1. InBranch(L, R, sub, q[j], q[i].node) /\ q[j].node \in Node
    BY <1>0
  <2> QED BY <2>1 DEF InBranch, Shape, Splits
<1>2. \A i, j \in 1..Len(q) : q[i].node = q[j].node => i = j
  <2> SUFFICES ASSUME NEW i \in 1..Len(q), NEW j \in 1..Len(q), i # j PROVE q[i].node # q[j].node
    OBVIOUS
  <2>1. CASE j < i
    BY <1>1, <2>1
  <2>2. CASE i < j
    BY <1>1, <2>2
  <2> QED BY <2>1, <2>2
<1>3. f \in Injection(1..Len(q), A)
  BY <1>0, <1>2 DEF Injection, IsInjective
<1>4. IsFiniteSet(A)
  BY Nodes, FS_Subset
<1>5. Cardinality(1..Len(q)) <= Cardinality(A)
  BY <1>3, <1>4, FS_Injection
<1>6. Cardinality(1..Len(q)) = Len(q)
  BY <1>0, CountTo
<1> QED BY <1>5, <1>6

\* The first node is the root.
LEMMA WalkStart ==
  ASSUME NEW L \in Children, NEW R \in Children, NEW sub \in Subtrees, Shape(L, R, sub),
         NEW r \in Node, NEW A, A = sub[r], NEW q, q = <<[node |-> r, state |-> 0]>>
  PROVE  r \in A /\ Walk(L, R, sub, A, q, {r})
<1>1. PICK x : x = [node |-> r, state |-> 0]
  OBVIOUS
<1>2. x \in Item /\ x.node = r /\ x.state = 0
  BY <1>1 DEF Item
<1>3. q \in Seq(Item) /\ Len(q) = 1 /\ q[1] = x
  BY <1>1, <1>2
<1>4. sub[r] = {r} \cup sub[L[r]] \cup sub[R[r]] /\ r \notin sub[L[r]] /\ r \notin sub[R[r]]
  BY DEF Shape, Unfolds, Splits
<1>5. Rest(L, R, sub, x) = sub[L[r]] \cup sub[R[r]]
  BY <1>2 DEF Rest
<1>6. ASSUME NEW m \in A PROVE m \in {r} <=> \A i \in 1..Len(q) : m \notin Rest(L, R, sub, q[i])
  <2>1. (\A i \in 1..Len(q) : m \notin Rest(L, R, sub, q[i])) <=> m \notin Rest(L, R, sub, x)
    BY <1>3
  <2> QED BY <1>4, <1>5, <2>1
<1>7. \A i \in 1..Len(q) : q[i].node \in A /\ \A j \in 1..(i - 1) : FALSE
  BY <1>2, <1>3, <1>4
<1> QED BY <1>3, <1>4, <1>6, <1>7 DEF Walk

\* The tree under an iterator that is not stale.
LEMMA IterTree ==
  ASSUME IndInv, pc \in {"idle", "lookup", "exists"}
  PROVE  /\ t.left \in Children /\ t.right \in Children /\ Subs(t) \in Subtrees
         /\ Shape(t.left, t.right, Subs(t)) /\ heap = Subs(t)[t.root] /\ heap \in SUBSET Node
         /\ t.root \in Place /\ (t.root # NULL => t.root \in heap) /\ (t.root = NULL => heap = {})
         /\ \A m \in heap : Subs(t)[m] \subseteq heap
         /\ Cardinality(heap) = count /\ count \in Nat
<1>1. /\ t \in TreeType /\ heap \in SUBSET Node /\ count \in Nat /\ Cardinality(heap) = count
      /\ Sound(t, heap, key, {}, Weight(t.black, NULL, NULL))
  BY Steady DEF Searching, Types
<1>2. Subs(t) \in Subtrees /\ Shape(t.left, t.right, Subs(t))
  BY <1>1 DEF Sound, Tree
<1>3. /\ heap = Subs(t)[t.root] /\ (t.root # NULL => t.root \in heap)
      /\ \A m \in heap : Subs(t)[m] \subseteq heap
  BY <1>1, TreeFacts
<1>4. t.root = NULL => heap = {}
  BY <1>2, <1>3 DEF Shape, Unfolds
<1> QED BY <1>1, <1>2, <1>3, <1>4, FieldTypes

\* A step of the tree beside the iterator.
LEMMA BesideKeeps ==
  ASSUME IndInv, IndInv', IterInv, Beside(Next)
  PROVE  IterInv'
<1>1. /\ ipc' = "idle" /\ isize' = isize /\ finished' = finished
      /\ fresh' <=> (fresh /\ t' = t /\ pc' \in {"idle", "lookup", "exists"})
      /\ fresh' => istack' = istack /\ visited' = visited
      /\ ~fresh' => istack' = <<>> /\ visited' = <<>>
      /\ fresh' \in BOOLEAN
  BY DEF Beside
<1>2. /\ visited \in Seq(Node) /\ isize \in Nat /\ finished \in BOOLEAN
  BY DEF IterInv
<1>3. CASE ~fresh'
  BY <1>1, <1>2, <1>3 DEF IterInv
<1>4. CASE fresh'
  <2>1. /\ fresh /\ t' = t /\ pc' \in {"idle", "lookup", "exists"} /\ istack' = istack /\ visited' = visited
        /\ pc \in {"idle", "lookup", "exists"}
    BY <1>1, <1>4 DEF IterInv
  <2>2. heap = Subs(t)[t.root] /\ Cardinality(heap) = count
    BY <2>1, IterTree
  <2>3. t' \in TreeType
    BY DEF IndInv, Types
  <2>4. heap' = heap
    <3>1. Sound(t', heap', key', Gone', Weight(t'.black, Victim', Gap'))
      BY DEF IndInv, SoundInv
    <3>2. PICK w : w = Weight(t'.black, Victim', Gap')
      OBVIOUS
    <3>3. Sound(t', heap', key', Gone', w)
      BY <3>1, <3>2
    <3>4. Subs(t')[t'.root] = heap'
      BY <2>3, <3>3, TreeFacts
    <3> QED BY <2>1, <2>2, <3>4
  <2>5. count' = count
    <3>1. pc' \notin {"fix_insert", "find_max"} \cup Removing
      BY <2>1 DEF Removing, Leaving
    <3>2. (IF pc' \in {"fix_insert", "find_max"} \cup Removing THEN 1 ELSE 0) = 0
      BY ONLY <3>1
    <3>3. Cardinality(heap') = count' + 0
      BY <3>2, Zenon DEF IndInv, CountInv
    <3>4. count' \in Nat
      BY DEF IndInv, Types
    <3>5. \A c \in Nat : c + 0 = c
      BY ONLY TRUE
    <3>6. Cardinality(heap') = count'
      BY <3>3, <3>4, <3>5, Zenon
    <3> QED BY <2>2, <2>4, <3>6
  <2>6. Seen' = Seen
    BY <2>1 DEF Seen
  <2> QED BY <1>1, <2>1, <2>4, <2>5, <2>6 DEF IterInv
<1> QED BY <1>3, <1>4

\* What rbtree_iter_init and rbtree_iter_reuse ask for: a place more than the
\* tree has nodes, if a size_t can count them.
LEMMA RoomIs ==
  ASSUME count \in Nat
  PROVE  RoomForPath \in Nat /\ (count < SIZE_MAX => RoomForPath = count + 1)
<1>1. SIZE_MAX \in Nat
  BY TreeAssumption
<1> QED BY <1>1 DEF RoomForPath

\* The iterator is set to the start of the tree, or freed.
LEMMA RestartKeeps ==
  ASSUME IndInv, IterInv, IterInit \/ IterReuse \/ IterFree
  PROVE  IterInv'
<1>1. /\ t' = t /\ pc' = pc /\ count' = count /\ heap' = heap /\ pc = "idle" /\ ipc = "idle"
      /\ istack' = <<>> /\ visited' = <<>>
  BY DEF IterInit, IterReuse, IterFree, Restart, Between, vars, fields, locals
<1>2. count \in Nat /\ (t.root = NULL => heap = {})
  BY <1>1, IterTree
<1>3. ipc' # "next"
  BY <1>1 DEF IterInit, IterReuse, IterFree, UseGarbage
<1>4. Seen' = {} /\ SX!IsInjective(visited')
  BY <1>1 DEF Seen, SX!IsInjective
<1>5. visited' \in Seq(Node)
  BY <1>1
<1>6. CASE IterFree
  BY <1>1, <1>3, <1>5, <1>6 DEF IterFree, IterInv
<1>7. CASE IterInit \/ IterReuse
  <2>1. fresh' = TRUE /\ finished' = (t.root = NULL)
    BY <1>7 DEF IterInit, IterReuse, Restart
  <2>2. isize' \in Nat /\ (t.root # NULL /\ count < SIZE_MAX => isize' >= count + 1)
    <3>1. RoomForPath \in Nat /\ (count < SIZE_MAX => RoomForPath = count + 1)
      BY <1>2, RoomIs
    <3>2. CASE IterInit
      BY <3>1, <3>2 DEF IterInit
    <3>3. CASE IterReuse
      <4>1. isize \in Nat
        BY DEF IterInv
      <4> QED BY <1>2, <3>1, <3>3, <4>1 DEF IterReuse, MustGrow
    <3> QED BY <1>7, <3>2, <3>3
  <2>3. finished' \in BOOLEAN /\ (t.root = NULL <=> finished')
    BY <2>1
  <2>4. Seen' = IF finished' THEN heap' ELSE {}
    BY <1>1, <1>2, <1>4, <2>3
  <2> QED BY <1>1, <1>3, <1>4, <1>5, <2>1, <2>2, <2>3, <2>4 DEF IterInv
<1> QED BY <1>6, <1>7

\* rbtree_iter_next starts at the root, or with the path it has.
LEMMA IterCallKeeps ==
  ASSUME IndInv, IterInv, IterFirst \/ IterCall
  PROVE  IterInv'
<1>1. /\ t' = t /\ pc' = pc /\ count' = count /\ heap' = heap /\ pc = "idle" /\ isize' = isize
      /\ fresh' = fresh /\ finished' = finished /\ fresh /\ ~finished
  BY DEF IterFirst, IterCall, Between, vars, fields, locals
<1>2. CASE IterCall
  <2>1. istack' = istack /\ visited' = visited /\ istack # <<>>
    BY <1>2 DEF IterCall
  <2> QED BY <1>1, <2>1 DEF IterInv, Seen
<1>3. CASE IterFirst
  <2>1. /\ istack' = <<[node |-> t.root, state |-> 0]>> /\ visited' = <<t.root>> /\ t.root # NULL
    BY <1>1, <1>3 DEF IterFirst, IterInv
  <2>2. /\ t.left \in Children /\ t.right \in Children /\ Subs(t) \in Subtrees /\ t.root \in Node
        /\ Shape(t.left, t.right, Subs(t)) /\ heap = Subs(t)[t.root]
    BY <1>1, <2>1, IterTree
  <2>3. PICK r \in Node : r = t.root
    BY <2>2
  <2>4. r \in heap /\ Walk(t.left, t.right, Subs(t), heap, istack', {r})
    BY <2>1, <2>2, <2>3, WalkStart
  <2>5. Len(visited') = 1 /\ visited'[1] = r /\ visited' \in Seq(Node) /\ DOMAIN visited' = 1..1
    BY <2>1, <2>3
  <2>6. Seen' = {r} /\ SX!IsInjective(visited')
    BY <2>5 DEF Seen, SX!IsInjective
  <2>7. istack' # <<>> /\ ipc' # "next"
    BY <1>3, <2>1 DEF IterFirst, AfterWrite
  <2> QED BY <1>1, <2>4, <2>5, <2>6, <2>7 DEF IterInv
<1> QED BY <1>2, <1>3

\* A child that has been pushed is at the end, and what is in front of it is the
\* path that has moved on.
LEMMA DeeperEnds ==
  ASSUME NEW q \in Seq(Item), NEW l \in 1..Len(q), l = Len(q), q[l].state < 2, NEW c \in Place,
         NEW q2, q2 = Deeper(q, l, c)
  PROVE  /\ q2 # <<>> /\ Len(q2) = l + 1 /\ SX!Front(q2) = Advance(q, l)
         /\ SX!Last(q2).node = c /\ SX!Last(q2).state = 0
<1>1. PICK q1 : q1 = Advance(q, l)
  OBVIOUS
<1>2. q1 \in Seq(Item) /\ Len(q1) = l /\ l \in Nat
  BY <1>1, Advanced
<1>3. PICK x : x = [node |-> c, state |-> 0]
  OBVIOUS
<1>4. PICK S : S = Item \cup {x}
  OBVIOUS
<1>5. q1 \in Seq(S) /\ x \in S
  BY <1>2, <1>4
<1>6. q2 = Append(q1, x)
  BY <1>1, <1>3 DEF Deeper
<1>7. q2 \in Seq(S) /\ Len(q2) = l + 1 /\ q2[l + 1] = x /\ \A i \in 1..l : q2[i] = q1[i]
  BY ONLY <1>2, <1>5, <1>6
<1>8. SubSeq(q2, 1, l) = q1
  BY ONLY <1>2, <1>5, <1>7
<1>9. q2 # <<>>
  BY ONLY <1>2, <1>7
<1>10. SX!Front(q2) = q1
  <2>1. Len(q2) - 1 = l
    BY ONLY <1>2, <1>7
  <2> QED BY <1>8, <2>1 DEF SX!Front
<1>11. SX!Last(q2) = x
  BY <1>7 DEF SX!Last
<1>12. x.node = c /\ x.state = 0
  BY ONLY <1>3
<1> QED BY <1>1, <1>7, <1>9, <1>10, <1>11, <1>12

\* Where an iteration takes the path.
LEMMA MovedIs ==
  ASSUME NEW l, l = Len(istack), NEW n, n = istack[l].node, istack[l].state \in 0..2
  PROVE  /\ istack[l].state = 0 => Moved = Deeper(istack, l, t.left[n])
         /\ istack[l].state = 1 => Moved = Deeper(istack, l, t.right[n])
         /\ istack[l].state = 2 => Moved = SubSeq(istack, 1, l - 1)
BY DEF Moved, Pushed, Deeper, Advance, SX!Last, SX!Front

\* V has been visited, once each.
Visited(v, V) == v \in Seq(Node) /\ SX!IsInjective(v) /\ V = {v[i] : i \in 1..Len(v)}

\* A node that is visited is put at the end of what has been visited.
LEMMA VisitNew ==
  ASSUME NEW v, NEW V, Visited(v, V), NEW c \in Node, c \notin V
  PROVE  Visited(Append(v, c), V \cup {c})
<1> SUFFICES ASSUME v \in Seq(Node), SX!IsInjective(v), V = {v[i] : i \in 1..Len(v)}, NEW v2, v2 = Append(v, c)
             PROVE  v2 \in Seq(Node) /\ SX!IsInjective(v2) /\ {v2[i] : i \in 1..Len(v2)} = V \cup {c}
  BY DEF Visited
<1>1. v2 \in Seq(Node) /\ Len(v2) = Len(v) + 1 /\ v2[Len(v) + 1] = c /\ \A i \in 1..Len(v) : v2[i] = v[i]
  OBVIOUS
<1>2. DOMAIN v = 1..Len(v) /\ DOMAIN v2 = 1..(Len(v) + 1) /\ Len(v) \in Nat
  BY <1>1
<1>3. ASSUME NEW i \in DOMAIN v2, NEW j \in DOMAIN v2, v2[i] = v2[j] PROVE i = j
  <2>1. CASE i \in 1..Len(v) /\ j \in 1..Len(v)
    BY <1>1, <1>2, <1>3, <2>1 DEF SX!IsInjective
  <2>2. CASE i \in 1..Len(v) /\ j = Len(v) + 1
    BY <1>1, <1>3, <2>2
  <2>3. CASE i = Len(v) + 1 /\ j \in 1..Len(v)
    BY <1>1, <1>3, <2>3
  <2> QED BY <1>2, <2>1, <2>2, <2>3
<1>4. SX!IsInjective(v2)
  BY <1>3 DEF SX!IsInjective
<1>5. {v2[i] : i \in 1..Len(v2)} = V \cup {c}
  <2>1. \A i \in 1..Len(v2) : i \in 1..Len(v) \/ i = Len(v) + 1
    BY <1>1, <1>2
  <2>2. Len(v) + 1 \in 1..Len(v2) /\ \A i \in 1..Len(v) : i \in 1..Len(v2)
    BY <1>1, <1>2
  <2> QED BY <1>1, <2>1, <2>2
<1> QED BY <1>1, <1>4, <1>5

\* The iterator is in the midst of the tree.
LEMMA IterNextTree ==
  ASSUME IndInv, IterInv, ipc = "next"
  PROVE  /\ t.left \in Children /\ t.right \in Children /\ Subs(t) \in Subtrees
         /\ Shape(t.left, t.right, Subs(t)) /\ heap \in SUBSET Node
         /\ \A m \in heap : Subs(t)[m] \subseteq heap
         /\ Walk(t.left, t.right, Subs(t), heap, istack, Seen)
         /\ istack \in Seq(Item) /\ istack # <<>> /\ fresh /\ ~finished
         /\ Cardinality(heap) = count /\ count \in Nat /\ isize \in Nat
         /\ count < SIZE_MAX => isize >= count + 1
<1>1. /\ istack # <<>> /\ fresh /\ ~finished /\ pc \in {"idle", "lookup", "exists"} /\ isize \in Nat
      /\ Walk(t.left, t.right, Subs(t), heap, istack, Seen)
      /\ (t.root # NULL /\ count < SIZE_MAX => isize >= count + 1) /\ (t.root = NULL => finished)
  BY DEF IterInv
<1>2. istack \in Seq(Item)
  BY <1>1 DEF Walk
<1> QED BY <1>1, <1>2, IterTree

\* One iteration of rbtree_iter_next.
LEMMA IterStepKeeps ==
  ASSUME IndInv, IterInv, IterStep
  PROVE  IterInv'
<1>1. /\ t' = t /\ pc' = pc /\ count' = count /\ heap' = heap /\ isize' = isize /\ fresh' = fresh /\ ipc = "next"
  BY DEF IterStep, vars, fields, locals
<1>2. PICK L : L = t.left
  OBVIOUS
<1>3. PICK R : R = t.right
  OBVIOUS
<1>4. PICK sub : sub = Subs(t)
  OBVIOUS
<1>5. PICK A : A = heap
  OBVIOUS
<1>6. PICK q : q = istack
  OBVIOUS
<1>7. PICK V : V = Seen
  OBVIOUS
<1>8. PICK l : l = Len(q)
  OBVIOUS
<1>9. /\ L \in Children /\ R \in Children /\ sub \in Subtrees /\ Shape(L, R, sub) /\ A \in SUBSET Node
      /\ \A m \in A : sub[m] \subseteq A
      /\ Walk(L, R, sub, A, q, V) /\ q \in Seq(Item) /\ q # <<>> /\ fresh /\ ~finished
  BY <1>1, <1>2, <1>3, <1>4, <1>5, <1>6, <1>7, IterNextTree
<1>10. /\ visited \in Seq(Node) /\ SX!IsInjective(visited) /\ V \subseteq A /\ V = {visited[i] : i \in 1..Len(visited)}
  BY <1>5, <1>7, <1>9 DEF IterInv, Seen
<1>11. l \in 1..Len(q) /\ l \in Nat /\ q[l] \in Item
  BY <1>8, <1>9
<1>12. PICK n \in A : n = q[l].node
  BY <1>9, <1>11 DEF Walk
<1>13. q[l].state \in 0..2 /\ n \in Node
  BY <1>9, <1>11 DEF Item
<1>w. OnWalk(L, R, sub, A, q, V, l)
  BY <1>8, <1>9, <1>11 DEF OnWalk
<1>14. ASSUME istack' # <<>>, ~finished', Walk(L, R, sub, A, istack', Seen'),
              visited' \in Seq(Node), SX!IsInjective(visited'), Seen' \subseteq A
       PROVE  IterInv'
  <2>1. /\ isize \in Nat /\ pc \in {"idle", "lookup", "exists"}
        /\ (t.root # NULL /\ count < SIZE_MAX => isize >= count + 1) /\ (t.root = NULL => finished)
    BY <1>9 DEF IterInv
  <2>2. Walk(t'.left, t'.right, Subs(t'), heap', istack', Seen') /\ Seen' \subseteq heap'
    BY <1>1, <1>2, <1>3, <1>4, <1>5, <1>14
  <2>3. finished' = FALSE /\ fresh' = TRUE
    BY <1>1, <1>9, <1>14 DEF IterStep, IterInv
  <2>4. /\ isize' \in Nat /\ pc' \in {"idle", "lookup", "exists"}
        /\ (t'.root # NULL /\ count' < SIZE_MAX => isize' >= count' + 1) /\ t'.root # NULL
    BY <1>1, <1>9, <2>1
  <2> QED BY <1>14, <2>2, <2>3, <2>4 DEF IterInv
<1>15. visited' = visited => Seen' = V
  BY <1>7 DEF Seen
<1>16. ASSUME NEW c, NextChild(L, R, q[l], n, c), Moved = Deeper(q, l, c)
       PROVE  IterInv'
  <2>1. c \in Place /\ q[l].state < 2
    BY <1>9, <1>13, <1>16 DEF NextChild, Children
  <2>2. PICK q2 : q2 = Deeper(q, l, c)
    OBVIOUS
  <2>3. /\ q2 # <<>> /\ SX!Front(q2) = Advance(q, l)
        /\ SX!Last(q2).node = c /\ SX!Last(q2).state = 0
    BY <1>8, <1>9, <1>11, <2>1, <2>2, DeeperEnds
  <2>4. CASE c # NULL
    <3>1. istack' = q2 /\ visited' = Append(visited, c) /\ finished' = finished
      BY <1>16, <2>2, <2>3, <2>4 DEF IterStep
    <3>2. c \in A /\ c \notin V /\ Walk(L, R, sub, A, q2, V \cup {c})
      <4>1. Visits(L, R, sub, A, Deeper(q, l, c), V, c)
        BY <1>16, <1>w, <2>4, WalkDown
      <4> QED BY <2>2, <4>1 DEF Visits
    <3>3. PICK v : v = visited
      OBVIOUS
    <3>4. PICK v2 : v2 = Append(v, c)
      OBVIOUS
    <3>5. v2 \in Seq(Node) /\ SX!IsInjective(v2) /\ {v2[i] : i \in 1..Len(v2)} = V \cup {c}
      <4>1. c \in Node /\ c \notin V /\ Visited(v, V)
        BY <1>9, <1>10, <3>2, <3>3 DEF Visited
      <4>2. Visited(Append(v, c), V \cup {c})
        BY <4>1, VisitNew
      <4> QED BY <3>4, <4>2 DEF Visited
    <3>6. visited' = v2
      BY <3>1, <3>3, <3>4
    <3>7. Seen' = V \cup {c}
      BY <3>5, <3>6 DEF Seen
    <3> QED BY <1>9, <1>10, <1>14, <2>3, <3>1, <3>2, <3>5, <3>6, <3>7
  <2>5. CASE c = NULL
    <3>1. istack' = Advance(q, l) /\ visited' = visited /\ finished' = finished
      BY <1>16, <2>2, <2>3, <2>5 DEF IterStep
    <3>2. PICK q3 : q3 = Advance(q, l)
      OBVIOUS
    <3>3. Walk(L, R, sub, A, q3, V) /\ Len(q3) = l
      BY <1>16, <1>w, <2>5, <3>2, WalkOver
    <3>4. q3 # <<>>
      BY <1>11, <3>3
    <3> QED BY <1>9, <1>10, <1>14, <1>15, <3>1, <3>2, <3>3, <3>4
  <2> QED BY <2>4, <2>5
<1>17. CASE q[l].state = 0
  <2>1. NextChild(L, R, q[l], n, L[n])
    BY <1>12, <1>17 DEF NextChild
  <2>2. Moved = Deeper(q, l, L[n])
    BY <1>2, <1>6, <1>8, <1>12, <1>13, <1>17, MovedIs
  <2> QED BY <1>16, <2>1, <2>2
<1>18. CASE q[l].state = 1
  <2>1. NextChild(L, R, q[l], n, R[n])
    BY <1>12, <1>18 DEF NextChild
  <2>2. Moved = Deeper(q, l, R[n])
    BY <1>3, <1>6, <1>8, <1>12, <1>13, <1>18, MovedIs
  <2> QED BY <1>16, <2>1, <2>2
<1>19. CASE q[l].state = 2
  <2>1. PICK q2 : q2 = SubSeq(q, 1, l - 1)
    OBVIOUS
  <2>2. Moved = q2
    BY <1>6, <1>8, <1>12, <1>13, <1>19, <2>1, MovedIs
  <2>3. Walk(L, R, sub, A, q2, V) /\ Len(q2) = l - 1 /\ \A i \in 1..(l - 1) : q2[i] = q[i]
    <3>1. WentBack(L, R, sub, A, q, V, l)
      BY <1>19, <1>w, WalkBack
    <3> QED BY <2>1, <3>1 DEF WentBack
  <2>4. CASE l = 1
    <3>1. Len(q2) = 0 /\ q2 \in Seq(Item)
      BY <2>3, <2>4 DEF Walk
    <3>2. q2 = <<>>
      BY ONLY <3>1
    <3>3. istack' = <<>> /\ finished' = TRUE /\ ipc' = "idle" /\ visited' = visited
      BY <2>2, <3>2 DEF IterStep
    <3>4. \A m \in A : m \in V
      BY <2>3, <3>1 DEF Walk
    <3>5. Seen' = heap'
      BY <1>1, <1>5, <1>10, <1>15, <3>3, <3>4
    <3> QED BY <1>1, <1>9, <1>10, <3>3, <3>5 DEF IterInv
  <2>5. CASE l # 1
    <3>1. PICK k \in 1..(l - 1) : k = l - 1
      BY <1>11, <2>5
    <3>2. q2 # <<>> /\ SX!Last(q2) = q[k]
      BY <2>3, <3>1 DEF SX!Last
    <3>3. q[k].node \in A /\ q[k].state # 0
      <4>1. InBranch(L, R, sub, q[k], q[l].node)
        BY <1>9, <1>11, <3>1 DEF Walk
      <4>2. k \in 1..Len(q)
        BY <1>8, <1>11, <3>1
      <4> QED BY <1>9, <4>1, <4>2 DEF Walk, InBranch
    <3>4. q[k].node # NULL
      BY <1>9, <3>3, Nodes
    <3>5. istack' = q2 /\ visited' = visited /\ finished' = finished
      BY <2>2, <3>2, <3>3, <3>4 DEF IterStep
    <3> QED BY <1>9, <1>10, <1>14, <1>15, <2>3, <3>2, <3>5
  <2> QED BY <2>4, <2>5
<1> QED BY <1>13, <1>17, <1>18, <1>19

\* The iterator does not write the tree.
LEMMA IterNextUnchanged ==
  ASSUME IterNext
  PROVE  UNCHANGED vars
BY DEF IterNext, IterInit, IterFree, IterReuse, IterFirst, IterCall, IterStep, vars

\* Nothing has been visited yet.
LEMMA IterStarts ==
  ASSUME IInit
  PROVE  IterInv
<1>1. visited \in Seq(Node)
  BY DEF IInit
<1> QED BY <1>1 DEF IInit, IterInv

\* Nothing happens.
LEMMA IterStutters ==
  ASSUME IterInv, UNCHANGED ivars
  PROVE  IterInv'
BY DEF IterInv, Seen, Subs, ivars, iterator, vars, fields, locals

\* The invariant of the tree and that of the iterator hold in every state of
\* every behaviour of both.
THEOREM IterInvariant == ISpec => [](IndInv /\ IterInv)
<1>1. IInit => IndInv /\ IterInv
  BY InitKeeps, IterStarts DEF IInit
<1>2. ASSUME IndInv, IterInv, [INext]_ivars PROVE IndInv' /\ IterInv'
  <2>1. CASE Beside(Next)
    <3>1. IndInv'
      BY <1>2, <2>1, CallNextKeeps, StepNextKeeps DEF Beside, Next
    <3> QED BY <1>2, <2>1, <3>1, BesideKeeps
  <2>2. CASE IterNext
    <3>1. IndInv'
      BY <1>2, <2>2, IterNextUnchanged, StutterKeeps
    <3>2. IterInv'
      BY <1>2, <2>2, RestartKeeps, IterCallKeeps, IterStepKeeps DEF IterNext
    <3> QED BY <3>1, <3>2
  <2>3. CASE UNCHANGED ivars
    <3>1. UNCHANGED vars
      BY <2>3 DEF ivars
    <3> QED BY <1>2, <2>3, <3>1, StutterKeeps, IterStutters
  <2> QED BY <1>2, <2>1, <2>2, <2>3 DEF INext
<1> QED BY <1>1, <1>2, PTL DEF ISpec

\* An injective sequence is as long as it has elements.
LEMMA LengthIs ==
  ASSUME NEW v \in Seq(Node), SX!IsInjective(v), NEW V, V = {v[i] : i \in 1..Len(v)}
  PROVE  Len(v) = Cardinality(V)
<1>1. v \in [1..Len(v) -> V] /\ Len(v) \in Nat /\ DOMAIN v = 1..Len(v)
  OBVIOUS
<1>2. v \in Bijection(1..Len(v), V)
  BY <1>1 DEF SX!IsInjective, Bijection, Injection, Surjection, IsInjective
<1>3. ExistsBijection(1..Len(v), V)
  BY <1>2 DEF ExistsBijection
<1> QED BY <1>1, <1>3, FS_CountingElements

\* rbtree_iter_next returns every node once, whatever the tree looks like, if it
\* has fewer than SIZE_MAX nodes.
THEOREM VisitsEachOnceTheorem == ISpec => []VisitsEachOnce
<1>1. ASSUME IndInv, IterInv PROVE VisitsEachOnce
  <2> SUFFICES ASSUME fresh, count < SIZE_MAX
               PROVE  /\ SX!IsInjective(visited)
                      /\ {visited[i] : i \in 1..Len(visited)} \subseteq heap
                      /\ finished => Len(visited) = count
    BY DEF VisitsEachOnce
  <2>1. visited \in Seq(Node) /\ SX!IsInjective(visited) /\ Seen \subseteq heap /\ (finished => Seen = heap)
        /\ pc \in {"idle", "lookup", "exists"}
    BY <1>1 DEF IterInv
  <2>2. Seen = {visited[i] : i \in 1..Len(visited)}
    BY DEF Seen
  <2>3. Cardinality(heap) = count
    BY <1>1, <2>1, IterTree
  <2>4. finished => Len(visited) = count
    BY <2>1, <2>2, <2>3, LengthIs
  <2> QED BY <2>1, <2>2, <2>4
<1> QED BY <1>1, IterInvariant, PTL

\* The path of rbtree_iter_next fits into the memory taken for it, if the tree
\* has fewer than SIZE_MAX nodes.
THEOREM IterStackFitsTheorem == ISpec => []IterStackFits
<1>1. ASSUME IndInv, IterInv, count < SIZE_MAX, istack # <<>> PROVE Len(istack) <= isize
  <2>1. fresh /\ pc \in {"idle", "lookup", "exists"} /\ isize \in Nat
        /\ Walk(t.left, t.right, Subs(t), heap, istack, Seen)
        /\ (t.root # NULL => isize >= count + 1) /\ (t.root = NULL => finished) /\ ~finished
    BY <1>1 DEF IterInv
  <2>2. Len(istack) <= Cardinality(heap)
    BY <1>1, <2>1, IterTree, WalkFits
  <2>3. Cardinality(heap) = count /\ count \in Nat
    BY <1>1, <2>1, IterTree
  <2>4. Len(istack) \in Nat
    BY <2>1 DEF Walk
  <2> QED BY <2>1, <2>2, <2>3, <2>4
<1>2. ASSUME IndInv, IterInv, count < SIZE_MAX, ipc = "next" PROVE Len(Moved) <= isize
  <2>1. /\ t.left \in Children /\ t.right \in Children /\ Subs(t) \in Subtrees
        /\ Shape(t.left, t.right, Subs(t)) /\ heap \in SUBSET Node
        /\ Walk(t.left, t.right, Subs(t), heap, istack, Seen)
        /\ istack \in Seq(Item) /\ istack # <<>>
        /\ Cardinality(heap) = count /\ count \in Nat /\ isize \in Nat /\ isize >= count + 1
    BY <1>2, IterNextTree
  <2>2. PICK l \in Nat : l = Len(istack)
    BY <2>1
  <2>3. l <= count
    BY <2>1, <2>2, WalkFits
  <2>4. l \in 1..Len(istack) /\ istack[l] \in Item
    BY <2>1, <2>2
  <2>5. PICK n \in Node : n = istack[l].node
    BY <2>4 DEF Item
  <2>6. istack[l].state \in 0..2
    BY <2>4 DEF Item
  <2>7. Len(Moved) <= l + 1
    <3>1. ASSUME NEW c \in Place, istack[l].state < 2, Moved = Deeper(istack, l, c) PROVE Len(Moved) <= l + 1
      <4>1. Len(Moved) = l + 1
        BY <2>1, <2>2, <2>4, <3>1, DeeperEnds
      <4> QED BY <4>1
    <3>2. t.left[n] \in Place /\ t.right[n] \in Place
      BY <2>1 DEF Children
    <3>3. CASE istack[l].state = 0
      BY <2>2, <2>5, <2>6, <3>1, <3>2, <3>3, MovedIs
    <3>4. CASE istack[l].state = 1
      BY <2>2, <2>5, <2>6, <3>1, <3>2, <3>4, MovedIs
    <3>5. CASE istack[l].state = 2
      <4>1. Moved = SubSeq(istack, 1, l - 1)
        BY <2>2, <2>5, <2>6, <3>5, MovedIs
      <4>2. Len(Moved) = l - 1
        BY <2>1, <2>2, <2>4, <4>1
      <4> QED BY <4>2
    <3> QED BY <2>6, <3>3, <3>4, <3>5
  <2> QED BY <2>1, <2>3, <2>7
<1>3. ASSUME IndInv, IterInv PROVE IterStackFits
  BY <1>1, <1>2, <1>3 DEF IterStackFits
<1> QED BY <1>3, IterInvariant, PTL
=============================================================================
