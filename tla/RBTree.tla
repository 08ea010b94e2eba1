------------------------------- MODULE RBTree -------------------------------
(***************************************************************************)
(* rbtree.c: a red-black tree without parent pointers; the path from the   *)
(* root is kept on a stack that belongs to the tree.                       *)
(*                                                                         *)
(* The nodes are modelled field by field: t.left, t.right, t.black and     *)
(* t.root of the record t, and key and value.  Every loop iteration and    *)
(* every call of the mutually recursive rebalancing functions is a step.   *)
(* The sequence stack is the code's array up to and including tree->sp;    *)
(* the empty sequence is sp == NULL.                                       *)
(***************************************************************************)
EXTENDS Naturals, Sequences, FiniteSets

CONSTANTS Node,        \* addresses of RBNodes: an initial part of 1, 2, ...
          NULL,        \* the null pointer
          Keys,        \* keys, ordered as numbers
          Values,      \* values
          SIZE_MAX,    \* largest value of a size_t
          RBTREE_INITIAL_BLOCK_SIZE

ASSUME TreeAssumption == /\ Node \subseteq Nat /\ NULL \notin Node
                         /\ Keys \subseteq Nat /\ NULL \notin Keys
                         /\ SIZE_MAX \in Nat \ {0}
                         /\ IsFiniteSet(Node) /\ Cardinality(Node) >= SIZE_MAX
                         /\ RBTREE_INITIAL_BLOCK_SIZE \in Nat \ {0}

VARIABLES t,            \* root, and left, right and black of the nodes
          key, value,   \* the other fields of the nodes
          heap,         \* the allocated nodes
          count,        \* tree->count
          stack,        \* tree->stack up to tree->sp
          stack_size,   \* tree->stack_size
          pair,         \* tree->pair.node, the node of the last lookup
          pc,           \* where the call in progress is
          node,         \* its local variables: the current node,
          parent, child,  \* the node's parent and child in rbtree_remove,
          arg, argv,    \* its arguments: a key, a value
          over,         \* and overwrite_key
          ret,          \* what the last call returned
          freed,        \* what it passed to free_key and free_value
          want,         \* history: the map the calls should have built,
          wantRet, wantFreed,  \* and what the last call should return and free,
          found         \* and the key the pair stands for, or NULL

fields == <<t, key, value, heap>>
args   == <<arg, argv, over>>
locals == <<pc, node, parent, child, args>>
hist   == <<want, wantRet, wantFreed>>
lookedup == <<pair, found>>
vars   == <<fields, count, stack, stack_size, lookedup, locals, ret, freed, hist>>
-----------------------------------------------------------------------------
(* Node helpers, as functions of the tree t.                               *)

IsBlack(s, n) == n # NULL => s.black[n]
Paint(s, n, b) == [s EXCEPT !.black[n] = b]

\* _rbnode_replace: old is p's child, or the root if p is NULL.
Replace(s, old, p, new) == IF p = NULL THEN [s EXCEPT !.root = new]
                           ELSE IF s.left[p] = old THEN [s EXCEPT !.left[p] = new]
                           ELSE [s EXCEPT !.right[p] = new]

\* _rbnode_rotate_left and _rbnode_rotate_right of n below p.
RotateLeft(s, n, p) ==
  LET r == s.right[n]
  IN  [Replace(s, n, p, r) EXCEPT !.right[n] = s.left[r], !.left[r] = n]
RotateRight(s, n, p) ==
  LET l == s.left[n]
  IN  [Replace(s, n, p, l) EXCEPT !.left[n] = s.right[l], !.right[l] = n]

\* *(tree->sp - i), NULL below the bottom of the stack.
At(i) == IF i < Len(stack) THEN stack[Len(stack) - i] ELSE NULL
Down(i) == SubSeq(stack, 1, Len(stack) - i)

\* Mutant: the array is doubled one push too late.
GrownLate(len, size) == IF len > size THEN 2 * size ELSE size

\* _rbtree_stack_push: the array doubles when its last place is taken.
Grown(len, size) == IF len >= size THEN 2 * size ELSE size

Push(n) == /\ stack' = Append(stack, n)
           /\ stack_size' = Grown(Len(stack), stack_size)

\* The allocator returns any free node; addresses are not compared, so the
\* lowest one stands for all.
NewNode == CHOOSE n \in Node \ heap : \A m \in Node \ heap : n <= m

\* The call in progress returns r.  The path is forgotten: rbtree_set and
\* rbtree_remove begin with tree->sp = NULL.
Return(r) == /\ ret' = r
             /\ stack' = <<>>
             /\ pc' = "idle" /\ node' = NULL /\ parent' = NULL /\ child' = NULL
             /\ arg' = 0 /\ argv' = NULL /\ over' = FALSE
-----------------------------------------------------------------------------
Init == /\ t = [root |-> NULL, left |-> [n \in Node |-> NULL],
                right |-> [n \in Node |-> NULL], black |-> [n \in Node |-> FALSE]]
        /\ key = [n \in Node |-> 0]
        /\ value = [n \in Node |-> NULL]
        /\ heap = {}
        /\ count = 0
        /\ stack = <<>>
        /\ stack_size = RBTREE_INITIAL_BLOCK_SIZE
        /\ pc = "idle" /\ node = NULL /\ parent = NULL /\ child = NULL
        /\ arg = 0 /\ argv = NULL /\ over = FALSE
        /\ ret = "none" /\ freed = {}
        /\ want = [k \in {} |-> NULL] /\ wantRet = "none" /\ wantFreed = {}
        /\ pair = NULL /\ found = NULL

\* The API function whose code starts at label l is called.
Call(l, k, v, o) == /\ pc = "idle"
                    /\ pc' = l
                    /\ node' = t.root
                    /\ arg' = k /\ argv' = v /\ over' = o
                    /\ ret' = "none" /\ freed' = {}
                    /\ UNCHANGED <<fields, count, stack, stack_size, pair, parent, child>>

With(k, v) == [j \in DOMAIN want \cup {k} |-> IF j = k THEN v ELSE want[j]]

\* A pointer passed to free_key or free_value, by the key it was stored under.
FreedKey(k) == <<"key", k>>
FreedValue(k, v) == <<"value", k, v>>

\* What rbtree_set(k, v, o) should do to the map.  A tree that cannot count
\* another node finds out before it has searched: then a key is only replaced
\* if it is the root's.
WantSet(k, v, o) ==
  LET full == Cardinality(DOMAIN want) = SIZE_MAX
  IN  IF k \in DOMAIN want /\ (full => k = key[t.root])
        THEN /\ want' = With(k, v) /\ wantRet' = "replaced"
             /\ wantFreed' = {FreedValue(k, want[k])} \cup {FreedKey(j) : j \in IF o THEN {k} ELSE {}}
      ELSE IF ~full
        THEN want' = With(k, v) /\ wantRet' = "new" /\ wantFreed' = {}
      ELSE want' = want /\ wantRet' = "failed" /\ wantFreed' = {}

\* _rbnode_create_new: node n with this color and no children.
Create(s, n, b) == [s EXCEPT !.left[n] = NULL, !.right[n] = NULL, !.black[n] = b]
Fill(n, k, v) == /\ heap' = heap \cup {n}
                 /\ key' = [key EXCEPT ![n] = k]
                 /\ value' = [value EXCEPT ![n] = v]

\* rbtree_set on an empty tree: _rbtree_insert_root.
SetRoot(k, v, o) == /\ pc = "idle"
                    /\ t.root = NULL
                    /\ t' = [Create(t, NewNode, TRUE) EXCEPT !.root = NewNode]
                    /\ Fill(NewNode, k, v)
                    /\ count' = 1
                    /\ Return("new")
                    /\ freed' = {}
                    /\ WantSet(k, v, o)
                    /\ UNCHANGED <<stack_size, lookedup>>

\* rbtree_set otherwise: _rbtree_insert_child starts at the root.
Set(k, v, o) == /\ t.root # NULL
                /\ Call("insert", k, v, o)
                /\ WantSet(k, v, o)
                /\ UNCHANGED found

\* _rbtree_insert_child, an iteration that ends at a node with the same key,
\* whose value is replaced (_rbtree_replace_node).
InsertReplace == /\ pc = "insert"
                 /\ key[node] = arg
                 /\ stack_size' = Grown(Len(stack), stack_size)
                 /\ value' = [value EXCEPT ![node] = argv]
                 /\ freed' = {FreedValue(key[node], value[node])}
                             \cup {FreedKey(k) : k \in IF over THEN {key[node]} ELSE {}}
                 /\ Return("replaced")
                 /\ UNCHANGED <<t, key, heap, count, hist, lookedup>>

\* Mutant: one node more than the counter can hold.
CountsOneMore == count <= SIZE_MAX

\* _rbtree_insert_child: tree->count < SIZE_MAX.
CanCount == count < SIZE_MAX

\* _rbtree_insert_child: the tree cannot count another node.
InsertFail == /\ pc = "insert"
              /\ key[node] # arg
              /\ ~CanCount
              /\ stack_size' = Grown(Len(stack), stack_size)
              /\ Return("failed")
              /\ UNCHANGED <<fields, count, freed, hist, lookedup>>

Side(n, k) == IF k < key[n] THEN t.left[n] ELSE t.right[n]

\* _rbtree_insert_child, an iteration that goes down one level.
InsertDown == /\ pc = "insert"
              /\ key[node] # arg
              /\ CanCount
              /\ Side(node, arg) # NULL
              /\ Push(node)
              /\ node' = Side(node, arg)
              /\ UNCHANGED <<fields, count, pc, parent, child, args, ret, freed, hist, lookedup>>

\* _rbtree_insert_child, the last iteration: a red leaf is created; it and its
\* parent are pushed, one after the other.
InsertLeaf ==
  /\ pc = "insert"
  /\ key[node] # arg
  /\ CanCount
  /\ Side(node, arg) = NULL
  /\ LET n == NewNode
         s == Create(t, n, FALSE)
     IN  /\ t' = IF arg < key[node] THEN [s EXCEPT !.left[node] = n]
                                    ELSE [s EXCEPT !.right[node] = n]
         /\ Fill(n, arg, argv)
         /\ stack' = stack \o <<node, n>>
         /\ stack_size' = Grown(Len(stack) + 1, Grown(Len(stack), stack_size))
  /\ pc' = "fix_insert"
  /\ UNCHANGED <<count, node, parent, child, args, ret, freed, hist, lookedup>>

\* rbtree_set returns RBTREE_INSERT_RESULT_NEW.
InsertDone == count' = count + 1 /\ Return("new")

\* _rbtree_insert_case1: the recoloring has reached the root.
FixInsertRoot == /\ pc = "fix_insert"
                 /\ Len(stack) = 1
                 /\ t' = Paint(t, At(0), TRUE)
                 /\ InsertDone
                 /\ UNCHANGED <<key, value, heap, stack_size, freed, hist, lookedup>>

\* _rbtree_insert_case2_to_6, case 2: below a black node nothing is to do.
FixInsertBlackParent == /\ pc = "fix_insert"
                        /\ Len(stack) > 1
                        /\ IsBlack(t, At(1))
                        /\ InsertDone
                        /\ UNCHANGED <<fields, stack_size, freed, hist, lookedup>>

\* The sibling of the parent.
Uncle == IF At(1) = t.left[At(2)] THEN t.right[At(2)] ELSE t.left[At(2)]

\* Mutant: the grandparent keeps its color.
RecoloredParents == Paint(Paint(t, At(1), TRUE), Uncle, TRUE)

\* Case 3: parent and uncle become black, the grandparent red.
Recolored == Paint(Paint(Paint(t, At(1), TRUE), Uncle, TRUE), At(2), FALSE)

\* Case 3: go on at the grandparent.
FixInsertRedUncle == /\ pc = "fix_insert"
                     /\ Len(stack) > 1
                     /\ ~IsBlack(t, At(1)) /\ ~IsBlack(t, Uncle)
                     /\ t' = Recolored
                     /\ stack' = Down(2)
                     /\ UNCHANGED <<key, value, heap, count, stack_size, locals, ret,
                                    freed, hist, lookedup>>

\* Cases 4 and 5: an inner node is first rotated to the outside, then the
\* grandparent is rotated below the parent.
Rotated(n, p, g, gg) ==
  LET inner == (n = t.right[p]) # (p = t.right[g])
      s1    == IF ~inner THEN t
               ELSE IF n = t.right[p] THEN RotateLeft(t, p, g) ELSE RotateRight(t, p, g)
      top   == IF inner THEN n ELSE p
      s2    == Paint(Paint(s1, g, FALSE), top, TRUE)
  IN  IF s1.left[g] = top THEN RotateRight(s2, g, gg) ELSE RotateLeft(s2, g, gg)

FixInsertRotate == /\ pc = "fix_insert"
                   /\ Len(stack) > 1
                   /\ ~IsBlack(t, At(1)) /\ IsBlack(t, Uncle)
                   /\ t' = Rotated(At(0), At(1), At(2), At(3))
                   /\ InsertDone
                   /\ UNCHANGED <<key, value, heap, stack_size, freed, hist, lookedup>>
-----------------------------------------------------------------------------
\* A removal may cost two pairs their node: the one of the key, and the one of
\* the next smaller key, whose node may be freed in its place.
LosesPair(k) == /\ found # NULL
                /\ k \in DOMAIN want
                /\ found <= k
                /\ \A j \in DOMAIN want : j <= found \/ j >= k

\* rbtree_remove: _rbtree_find_node builds the path to the key.
Remove(k) == /\ Call("find", k, NULL, FALSE)
             /\ want' = [j \in DOMAIN want \ {k} |-> want[j]]
             /\ wantRet' = IF k \in DOMAIN want THEN "true" ELSE "false"
             /\ wantFreed' = UNION {{FreedKey(j), FreedValue(j, want[j])} : j \in DOMAIN want \cap {k}}
             /\ found' = IF LosesPair(k) THEN NULL ELSE found

\* rbtree_key_exists: _rbtree_find_node without the stack.
Exists(k) == /\ Call("exists", k, NULL, FALSE)
             /\ wantRet' = IF k \in DOMAIN want THEN "true" ELSE "false"
             /\ wantFreed' = {}
             /\ UNCHANGED <<want, found>>

\* rbtree_lookup: likewise.
Lookup(k) == /\ Call("lookup", k, NULL, FALSE)
             /\ wantRet' = IF k \in DOMAIN want THEN want[k] ELSE "false"
             /\ wantFreed' = {}
             /\ UNCHANGED <<want, found>>

\* _rbtree_find_node, an iteration that goes down one level.
FindDown == /\ pc \in {"find", "lookup", "exists"}
            /\ node # NULL
            /\ key[node] # arg
            /\ IF pc = "find" THEN Push(node) ELSE UNCHANGED <<stack, stack_size>>
            /\ node' = Side(node, arg)
            /\ UNCHANGED <<fields, count, pc, parent, child, args, ret, freed, hist, lookedup>>

\* _rbtree_find_node: the key is not in the tree.
FindMissing == /\ pc \in {"find", "lookup", "exists"}
               /\ node = NULL
               /\ Return("false")
               /\ UNCHANGED <<fields, count, stack_size, freed, hist, lookedup>>

\* Mutant: the pair is the node where the search started.
StartNode == t.root

\* rbtree_lookup: tree->pair.node = node.
FoundNode == node

\* rbtree_lookup, and rbtree_pair_get_value of the pair it returns.
LookupFound == /\ pc = "lookup"
               /\ node # NULL
               /\ key[node] = arg
               /\ pair' = FoundNode
               /\ found' = arg
               /\ Return(value[FoundNode])
               /\ UNCHANGED <<fields, count, stack_size, freed, hist>>

\* rbtree_key_exists.
ExistsFound == /\ pc = "exists"
               /\ node # NULL
               /\ key[node] = arg
               /\ Return("true")
               /\ UNCHANGED <<fields, count, stack_size, freed, hist, lookedup>>

\* rbtree_pair_set_value, on a pair that is not stale.
PairSetValue(v) == /\ pc = "idle"
                   /\ found # NULL
                   /\ freed' = {FreedValue(key[pair], value[pair])}
                   /\ value' = [value EXCEPT ![pair] = v]
                   /\ Return("none")
                   /\ want' = With(found, v) /\ wantRet' = "none"
                   /\ wantFreed' = {FreedValue(found, want[found])}
                   /\ UNCHANGED <<t, key, heap, count, stack_size, lookedup>>

\* Mutant: the search for the largest node starts on the right.
MaxStartRight(n) == t.right[n]

\* rbtree_remove: where _rbtree_find_max_node starts.
MaxStart(n) == t.left[n]

\* rbtree_remove: the key is found.  A node with two children is kept; the
\* largest node of its left subtree will go in its place.
RemoveFound == /\ pc = "find"
               /\ node # NULL
               /\ key[node] = arg
               /\ Push(node)
               /\ count' = count - 1
               /\ freed' = {FreedKey(key[node]), FreedValue(key[node], value[node])}
               /\ IF t.left[node] # NULL /\ t.right[node] # NULL
                    THEN pc' = "find_max" /\ node' = MaxStart(node)
                    ELSE pc' = "found" /\ node' = node
               /\ UNCHANGED <<fields, parent, child, args, ret, hist, lookedup>>

\* _rbtree_find_max_node, one iteration.
MaxDown == /\ pc = "find_max"
           /\ Push(node)
           /\ t.right[node] # NULL
           /\ node' = t.right[node]
           /\ UNCHANGED <<fields, count, pc, parent, child, args, ret, freed, hist, lookedup>>

\* The node of the removed key, once the path goes on to the largest node.
Target == CHOOSE n \in {stack[i] : i \in 1..Len(stack)} : key[n] = arg

\* Mutant: the value is not moved with the key.
MoveKeyOnly == /\ key' = [key EXCEPT ![Target] = key[node]]
               /\ value' = value

\* rbtree_remove: node->key = max->key; node->value = max->value.
MoveMax == /\ key' = [key EXCEPT ![Target] = key[node]]
           /\ value' = [value EXCEPT ![Target] = value[node]]

\* _rbtree_find_max_node ends; from now on the largest node is the victim.
MaxFound == /\ pc = "find_max"
            /\ t.right[node] = NULL
            /\ Push(node)
            /\ MoveMax
            /\ pc' = "found"
            /\ UNCHANGED <<t, heap, count, node, parent, child, args, ret, freed, hist, lookedup>>

\* Mutant: a red victim is treated like a black one.
AnyGap(n) == TRUE

\* rbtree_remove: the paths through a black victim lose a black node.
LeavesGap(n) == t.black[n]

\* rbtree_remove: the victim has at most one child; a black one leaves a gap
\* in the black height, which is closed before the victim is unlinked.
Prepare ==
  /\ pc = "found"
  /\ LET c == IF t.right[node] # NULL THEN t.right[node] ELSE t.left[node]
     IN  /\ child' = c
         /\ parent' = At(1)
         /\ t' = IF LeavesGap(node) /\ ~IsBlack(t, c) THEN Paint(t, node, FALSE) ELSE t
  /\ pc' = IF LeavesGap(node) THEN "rebalance" ELSE "unlink"
  /\ UNCHANGED <<key, value, heap, count, stack, stack_size, node, args, ret, freed, hist, lookedup>>

\* The other child of p.
SiblingOf(s, n, p) == IF s.right[p] = n THEN s.left[p] ELSE s.right[p]
Sibling == SiblingOf(t, At(0), At(1))

\* _rbtree_remove_case1: the gap has reached the root.
RebalanceRoot == /\ pc = "rebalance"
                 /\ Len(stack) = 1
                 /\ pc' = "unlink"
                 /\ UNCHANGED <<fields, count, stack, stack_size, node, parent, child, args,
                                ret, freed, hist, lookedup>>

\* Mutant: the stack is not adapted to the rotation.
PathAsBefore(p, sib) == stack

\* _rbtree_remove_case2: after the rotation the sibling is above the parent.
PathBelow(p, sib) == Down(2) \o <<sib, p, At(0)>>

\* _rbtree_remove_case2: a red sibling is rotated above the parent, which
\* becomes red; then case3_to_6 finds a black sibling.
RebalanceRedSibling ==
  /\ pc = "rebalance"
  /\ Len(stack) > 1
  /\ ~IsBlack(t, Sibling)
  /\ LET p == At(1)
         s == Paint(Paint(t, p, FALSE), Sibling, TRUE)
     IN  t' = IF t.left[p] = At(0) THEN RotateLeft(s, p, At(2)) ELSE RotateRight(s, p, At(2))
  /\ stack' = PathBelow(At(1), Sibling)
  /\ stack_size' = Grown(Len(stack), stack_size)
  /\ pc' = "rebalance_black"
  /\ UNCHANGED <<key, value, heap, count, node, parent, child, args, ret, freed, hist, lookedup>>

\* _rbtree_remove_case3_to_6 is about to run: case 2 did not apply, or it has
\* been dealt with.
AtCase3 == \/ pc = "rebalance" /\ Len(stack) > 1 /\ IsBlack(t, Sibling)
           \/ pc = "rebalance_black"

SiblingAllBlack == /\ IsBlack(t, Sibling)
                   /\ IsBlack(t, t.left[Sibling]) /\ IsBlack(t, t.right[Sibling])

\* Case 3: the sibling becomes red and the gap moves up.
RebalanceUp == /\ AtCase3
               /\ SiblingAllBlack /\ IsBlack(t, At(1))
               /\ t' = Paint(t, Sibling, FALSE)
               /\ stack' = Down(1)
               /\ pc' = "rebalance"
               /\ UNCHANGED <<key, value, heap, count, stack_size, node, parent, child, args,
                              ret, freed, hist, lookedup>>

\* Case 4: a red parent takes the gap.
RebalanceRedParent == /\ AtCase3
                      /\ SiblingAllBlack /\ ~IsBlack(t, At(1))
                      /\ t' = Paint(Paint(t, Sibling, FALSE), At(1), TRUE)
                      /\ pc' = "unlink"
                      /\ UNCHANGED <<key, value, heap, count, stack, stack_size, node, parent,
                                     child, args, ret, freed, hist, lookedup>>

\* Case 5: a red inner child of the sibling is rotated to the outside.
OuterRed(n, p) ==
  LET sib == SiblingOf(t, n, p)
  IN  IF n = t.left[p] /\ IsBlack(t, sib) /\ ~IsBlack(t, t.left[sib])
                       /\ IsBlack(t, t.right[sib])
        THEN RotateRight(Paint(Paint(t, sib, FALSE), t.left[sib], TRUE), sib, p)
      ELSE IF n = t.right[p] /\ IsBlack(t, sib) /\ IsBlack(t, t.left[sib])
                             /\ ~IsBlack(t, t.right[sib])
        THEN RotateLeft(Paint(Paint(t, sib, FALSE), t.right[sib], TRUE), sib, p)
      ELSE t

\* Case 6: the sibling is rotated above the parent and fills the gap.
Filled(n, p, g) ==
  LET s1  == OuterRed(n, p)
      sib == SiblingOf(s1, n, p)
      s2  == Paint(Paint(s1, sib, s1.black[p]), p, TRUE)
  IN  IF n = s1.left[p]
        THEN RotateLeft(Paint(s2, s1.right[sib], TRUE), p, g)
        ELSE RotateRight(Paint(s2, s1.left[sib], TRUE), p, g)

RebalanceRotate == /\ AtCase3
                   /\ ~SiblingAllBlack
                   /\ t' = Filled(At(0), At(1), At(2))
                   /\ pc' = "unlink"
                   /\ UNCHANGED <<key, value, heap, count, stack, stack_size, node, parent, child,
                                  args, ret, freed, hist, lookedup>>

\* Mutant: a red child that becomes the root stays red.
RootAsIs(s) == s

\* rbtree_remove: if(!parent && child) child->black = 1.
RootBlack(s) == IF parent = NULL /\ child # NULL THEN Paint(s, child, TRUE) ELSE s

\* rbtree_remove: the child takes the victim's place, the victim is freed.
Unlink == /\ pc = "unlink"
          /\ t' = Create(RootBlack(Replace(t, node, parent, child)), node, FALSE)
          /\ heap' = heap \ {node}
          /\ key' = [key EXCEPT ![node] = 0]
          /\ value' = [value EXCEPT ![node] = NULL]
          /\ Return("true")
          /\ UNCHANGED <<count, stack_size, freed, hist, lookedup>>

\* The nodes at and below a node, with these left and right children.
Below(L, R) ==
  LET Sub[m \in Node \cup {NULL}] == IF m = NULL THEN {} ELSE {m} \cup Sub[L[m]] \cup Sub[R[m]]
  IN  Sub
Under(n) == Below(t.left, t.right)[n]

\* Mutant: a node with a left child forgets its right one.
DestroyedLeft ==
  LET Sub[m \in Node \cup {NULL}] ==
        IF m = NULL THEN {}
        ELSE {m} \cup Sub[IF t.left[m] # NULL THEN t.left[m] ELSE t.right[m]]
  IN  Sub[t.root]

\* The nodes _rbtree_destroy_node(tree, tree->root) reaches.
Destroyed == Under(t.root)

\* _rbtree_destroy_node frees the nodes below the root in post-order.
DestroyNodes == LET D == Destroyed
                IN  /\ heap' = heap \ D
                    /\ t' = [root  |-> NULL,
                             left  |-> [n \in Node |-> IF n \in D THEN NULL ELSE t.left[n]],
                             right |-> [n \in Node |-> IF n \in D THEN NULL ELSE t.right[n]],
                             black |-> [n \in Node |-> n \notin D /\ t.black[n]]]
                    /\ key' = [n \in Node |-> IF n \in D THEN 0 ELSE key[n]]
                    /\ value' = [n \in Node |-> IF n \in D THEN NULL ELSE value[n]]

\* rbtree_clear, which keeps the stack and the pair's address; and rbtree_free
\* followed by rbtree_init, which allocates a new stack and resets the pair.
Clear(size, p) == /\ pc = "idle"
                  /\ DestroyNodes
                  /\ count' = 0
                  /\ stack_size' = size
                  /\ freed' = UNION {{FreedKey(key[n]), FreedValue(key[n], value[n])} : n \in Destroyed}
                  /\ Return("none")
                  /\ found' = NULL
                  /\ pair' = p
                  /\ want' = [k \in {} |-> NULL] /\ wantRet' = "none"
                  /\ wantFreed' = UNION {{FreedKey(k), FreedValue(k, want[k])} : k \in DOMAIN want}

CallNext == \/ \E k \in Keys :
                 \/ \E v \in Values, o \in BOOLEAN : SetRoot(k, v, o) \/ Set(k, v, o)
                 \/ Remove(k) \/ Lookup(k) \/ Exists(k)
            \/ \E v \in Values : PairSetValue(v)
            \/ Clear(stack_size, pair) \/ Clear(RBTREE_INITIAL_BLOCK_SIZE, NULL)

StepNext == \/ InsertReplace \/ InsertFail \/ InsertDown \/ InsertLeaf
            \/ FixInsertRoot \/ FixInsertBlackParent \/ FixInsertRedUncle \/ FixInsertRotate
            \/ FindDown \/ FindMissing \/ LookupFound \/ ExistsFound \/ RemoveFound
            \/ MaxDown \/ MaxFound \/ Prepare
            \/ RebalanceRoot \/ RebalanceRedSibling \/ RebalanceUp \/ RebalanceRedParent
            \/ RebalanceRotate \/ Unlink

Next == CallNext \/ StepNext

Spec == Init /\ [][Next]_vars
-----------------------------------------------------------------------------
TypeOK == /\ t.root \in Node \cup {NULL}
          /\ t.left \in [Node -> Node \cup {NULL}]
          /\ t.right \in [Node -> Node \cup {NULL}]
          /\ t.black \in [Node -> BOOLEAN]
          /\ heap \in SUBSET Node
          /\ key \in [Node -> Keys \cup {0}]
          /\ value \in [Node -> Values \cup {NULL}]
          /\ count \in 0..SIZE_MAX
          /\ node \in Node \cup {NULL} /\ pair \in Node \cup {NULL}

\* Left of a node are smaller keys only, right of it larger ones only.
SearchOrder == \A n \in heap : /\ \A m \in Under(t.left[n]) : key[m] < key[n]
                               /\ \A m \in Under(t.right[n]) : key[m] > key[n]

\* The numbers of black nodes on the paths from n to a leaf.
BlackHeights(n) ==
  LET H[m \in Node \cup {NULL}] ==
        IF m = NULL THEN {0}
        ELSE {h + (IF t.black[m] THEN 1 ELSE 0) : h \in H[t.left[m]] \cup H[t.right[m]]}
  IN  H[n]

\* Between calls the tree is an ordered and balanced one: after any rotations
\* on the way the keys are in search order, the root is black, no red node has
\* a red child, and all paths down have the same number of black nodes.
\* rbtree.c gets there by a different rebalancing than the textbook for a black
\* node with a red child, and without parent pointers.
RedBlack ==
  /\ TypeOK
  /\ pc = "idle" =>
       /\ SearchOrder
       /\ IsBlack(t, t.root)
       /\ \A n \in heap : t.black[n] \/ (IsBlack(t, t.left[n]) /\ IsBlack(t, t.right[n]))
       /\ Cardinality(BlackHeights(t.root)) = 1

\* Between calls the tree holds exactly the pairs of the map, counts them, and
\* the last call returned and freed what the map says: a removal moves the
\* largest node of the left subtree, key and value, without losing either.  The
\* allocated nodes are those of the tree.
IsMap ==
  pc = "idle" =>
    /\ heap = Under(t.root)
    /\ {<<key[n], value[n]>> : n \in Under(t.root)} = {<<k, want[k]>> : k \in DOMAIN want}
    /\ count = Cardinality(DOMAIN want)
    /\ ret = wantRet
    /\ freed = wantFreed

\* The pair of the last lookup keeps referring to the key that was found, while
\* rotations and removals of other keys move the nodes, until its key or the
\* next greater one is removed.
PairRefers == found # NULL => pair \in heap /\ key[pair] = found

\* rbtree.c follows these pointers without a test (the asserts at 670, 722 and
\* 728): where a black node is missing there is a sibling, and where the
\* sibling is rotated it has a red child.
SiblingExists ==
  pc \in {"rebalance", "rebalance_black"} /\ Len(stack) > 1 =>
    /\ Sibling # NULL
    /\ AtCase3 /\ ~SiblingAllBlack =>
         LET s == OuterRed(At(0), At(1))
             sib == SiblingOf(s, At(0), At(1))
         IN  ~IsBlack(s, IF At(0) = s.left[At(1)] THEN s.right[sib] ELSE s.left[sib])

\* The path on the stack is a path of the tree that starts at the root, also
\* after the rotations of case 2, and never leaves its array.
PathOnStack ==
  /\ Len(stack) <= stack_size
  /\ stack # <<>> /\ pc # "unlink" => stack[1] = t.root
  /\ pc # "unlink" => \A i \in 2..Len(stack) : stack[i] \in {t.left[stack[i - 1]], t.right[stack[i - 1]]}
=============================================================================
