------------------------------ MODULE MCRBTree ------------------------------
(***************************************************************************)
(* The tree and its iterator with four kinds of clients; each keeps to one *)
(* kind of call, so that the instance stays small where it need not be     *)
(* large:                                                                  *)
(*   "any"     sets and removes some keys in any order and clears the tree;*)
(*   "pairs"   looks keys up, too, and sets values through the pair;       *)
(*   "iterate" builds trees of any shape and iterates over them;           *)
(*   "deep"    inserts as many keys as the tree can count, in ascending    *)
(*             order, and removes them in any order, so that a gap moves up*)
(*             several levels.  Where the tree is full or has place for one*)
(*             more it iterates, too; it frees the iterator before it      *)
(*             removes.                                                    *)
(***************************************************************************)
EXTENDS RBTreeIter

CONSTANTS AnyKeys, AnyNodes,      \* bounds of the client "any"
          FewKeys                 \* keys of the clients "pairs" and "iterate"

VARIABLE client

mcvars == <<ivars, client>>

MCInit == IInit /\ client \in {"any", "pairs", "iterate", "deep"}

\* One key in the middle has more than one value.
TheValue == CHOOSE v \in Values : TRUE
ValuesOf(k) == IF k = 3 THEN Values ELSE {TheValue}

SetAny(k, v, o) == SetRoot(k, v, o) \/ Set(k, v, o)

AnyCall == \/ \E k \in AnyKeys, o \in BOOLEAN : \E v \in ValuesOf(k) :
                (count < AnyNodes \/ k \in DOMAIN want) /\ SetAny(k, v, o)
           \/ \E k \in AnyKeys : Remove(k)
           \/ Clear(stack_size, pair) \/ Clear(RBTREE_INITIAL_BLOCK_SIZE, NULL)

PairsCall == \/ \E k \in FewKeys : \E v \in ValuesOf(k) : SetAny(k, v, FALSE)
             \/ \E k \in FewKeys : Remove(k) \/ Lookup(k) \/ Exists(k)
             \/ found # NULL /\ \E v \in ValuesOf(found) : PairSetValue(v)
             \/ Clear(stack_size, pair) \/ Clear(RBTREE_INITIAL_BLOCK_SIZE, NULL)

IterateCall == \/ \E k \in FewKeys : SetAny(k, TheValue, FALSE) \/ Remove(k)
               \/ Clear(stack_size, pair)

\* At the limit a set of an existing key and of a new one are tried, too.
NextKey == Cardinality(DOMAIN want) + 1
DeepCall == \/ /\ wantRet # "true" \/ t.root = NULL
               /\ SetAny(NextKey, TheValue, FALSE)
            \/ count = SIZE_MAX /\ \E k \in DOMAIN want, o \in BOOLEAN : Set(k, TheValue, o)
            \/ imem = "none" /\ \E k \in DOMAIN want : Remove(k)

ClientCall == \/ client = "any" /\ AnyCall
              \/ client = "pairs" /\ PairsCall
              \/ client = "iterate" /\ IterateCall
              \/ client = "deep" /\ DeepCall

\* A process that has crashed does nothing.
Crashed == ipc = "crashed" /\ UNCHANGED ivars

MCNext == /\ \/ Beside(ClientCall) \/ Beside(StepNext)
             \/ (client = "iterate" \/ (client = "deep" /\ count >= SIZE_MAX - 1)) /\ IterNext
             \/ Crashed
          /\ UNCHANGED client

MCSpec == MCInit /\ [][MCNext]_mcvars
=============================================================================
