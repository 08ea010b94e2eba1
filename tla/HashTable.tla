----------------------------- MODULE HashTable -----------------------------
(***************************************************************************)
(* hashtable.c: a map kept in an array of chains of buckets, which grows   *)
(* along a list of sizes, with the pair of the last lookup and an iterator *)
(* over the chains.                                                        *)
(*                                                                         *)
(* A Node is the address of a struct _Bucket; heap is the set of those     *)
(* taken from the table's pool.  Every loop over a chain takes one step    *)
(* per iteration, so that the chains can be seen while a resize is on its  *)
(* way.                                                                    *)
(***************************************************************************)
EXTENDS Naturals, Sequences, FiniteSets

CONSTANTS Node,          \* addresses of buckets
          NULL,
          Key,           \* keys: numbers passed as pointers
          Copy, Value,
          Offered,       \* the keys and values callers pass to hashtable_set
          PRIMES,        \* the table sizes, ending with 0
          FixedSizes,    \* sizes callers choose instead
          SIZE_MAX, PointerSize, UINT32_MAX

ASSUME TableAssumption ==
  /\ Key \subseteq Nat \ {0} /\ NULL \notin Key /\ NULL \notin Node
  /\ Offered \subseteq [key : Key, copy : Copy, value : Value]
  /\ PRIMES \in Seq(Nat) \ {<<>>} /\ PRIMES[1] > 0 /\ PRIMES[Len(PRIMES)] = 0
  /\ SIZE_MAX \in Nat /\ PointerSize \in Nat \ {0} /\ UINT32_MAX \in Nat
  /\ FixedSizes \subseteq 1..(SIZE_MAX \div PointerSize)
  /\ IsFiniteSet(Node) /\ Cardinality(Node) >= SIZE_MAX

VARIABLES node, heap,                          \* the buckets: key, data and next
          buckets, size, sizeptr, grow, count, \* the HashTable
          pair,                                \* table->pair.bucket
          liter, offset, finished,             \* the HashTableIter
          pc, req,                             \* the call in progress, its arguments
          iter, prev,                          \* its local variables
          old, i,                              \* _hashtable_resize: the former array
          ret, freed,                          \* what the last call returned and freed
          found,                               \* history: the key the pair stands for
          iterating                            \* history: the iterator is in use

table  == <<buckets, size, sizeptr, grow, count>>
memory == <<node, heap>>
iterator == <<liter, offset, finished, iterating>>
lookedup == <<pair, found>>
locals == <<iter, prev, old, i>>
result == <<ret, freed>>
vars   == <<memory, table, iterator, lookedup, locals, pc, req, result>>

HASHTABLE_AUTO_RESIZE == 0

\* Two objects are the same key if compare_keys says so.
KeyObject == [key : Key, copy : Copy]

SetRequest == {[op |-> "set", key |-> e.key, copy |-> e.copy, value |-> e.value, over |-> o] :
                 e \in Offered, o \in BOOLEAN}
Request == SetRequest \cup [op : {"remove", "lookup", "exists"}, key : Key]

ASSUME NullAssumption == NULL \notin Request /\ \A S \in SUBSET Key : S # NULL

\* hash.c: pointers beyond 32 bits have all the same hash.
direct_hash(v) == IF v > UINT32_MAX THEN UINT32_MAX ELSE v

\* HASHTABLE_INDEX.
INDEX(k) == direct_hash(k) % size

NoBuckets(n) == [j \in 0..(n - 1) |-> NULL]
Unused == [key |-> NULL, data |-> NULL, next |-> NULL]

\* hashtable_init: what a table made with this size argument looks like.
InitialTable(s) == [size    |-> IF s = HASHTABLE_AUTO_RESIZE THEN PRIMES[1] ELSE s,
                    sizeptr |-> IF s = HASHTABLE_AUTO_RESIZE THEN 1 ELSE 0,
                    grow    |-> s = HASHTABLE_AUTO_RESIZE]

SizeArguments == FixedSizes \cup {HASHTABLE_AUTO_RESIZE}

Init == /\ \E s \in SizeArguments :
             LET new == InitialTable(s)
             IN  /\ size = new.size /\ sizeptr = new.sizeptr /\ grow = new.grow
                 /\ buckets = NoBuckets(new.size)
        /\ count = 0
        /\ node = [n \in Node |-> Unused] /\ heap = {}
        /\ pair = NULL /\ found = NULL
        /\ liter = NULL /\ offset = 0 /\ finished = FALSE /\ iterating = FALSE
        /\ pc = "idle" /\ req = NULL
        /\ iter = NULL /\ prev = NULL /\ old = <<>> /\ i = 0
        /\ ret = <<"none">> /\ freed = {}

\* Modifying the table makes an iterator stale.
EndIteration == /\ iterating' = FALSE
                /\ liter' = NULL /\ offset' = 0 /\ finished' = FALSE

\* A key object that is to be stored is the caller's own.
IsCallers(r) == \A n \in heap : node[n].key # [key |-> r.key, copy |-> r.copy]

\* hashtable_set is called.
CallSet(r) == /\ pc = "idle"
              /\ r.op = "set" /\ IsCallers(r)
              /\ pc' = "set"
              /\ req' = r
              /\ ret' = <<"none">> /\ freed' = {}
              /\ EndIteration
              /\ UNCHANGED <<memory, table, lookedup, locals>>

\* hashtable_remove, hashtable_lookup and hashtable_key_exists start at the
\* head of the key's chain.
Call(r) == /\ pc = "idle"
           /\ r.op # "set"
           /\ pc' = IF r.op = "remove" THEN "remove" ELSE "find"
           /\ req' = r
           /\ iter' = buckets[INDEX(r.key)] /\ prev' = NULL
           /\ ret' = <<"none">> /\ freed' = {}
           /\ UNCHANGED <<memory, table, iterator, lookedup, old, i>>

\* Mutant: the table grows one element later.
OverfullLate == count > size + 1

\* hashtable_set: table->count > table->size.
Overfull == count > size

\* hashtable_set: the table need not grow, the search begins.
SetFind == /\ pc = "set"
           /\ ~(grow /\ Overfull)
           /\ pc' = "find"
           /\ iter' = buckets[INDEX(req.key)]
           /\ UNCHANGED <<memory, table, iterator, lookedup, prev, old, i, req, result>>

NextSize == PRIMES[sizeptr + 1]

\* Mutant: the end of the list of sizes is not noticed.
NoSizeIfTooLarge == NextSize > SIZE_MAX \div PointerSize

\* _hashtable_resize: !table->size || table->size > SIZE_MAX / sizeof(struct _Bucket *).
NoSize == NextSize = 0 \/ NextSize > SIZE_MAX \div PointerSize

\* _hashtable_resize: there is no further size, or it overflows: abort().
ResizeAbort == /\ pc = "set"
               /\ grow /\ Overfull
               /\ NoSize
               /\ pc' = "aborted"
               /\ UNCHANGED <<memory, table, iterator, lookedup, locals, req, result>>

\* _hashtable_resize, up to the first iteration.
ResizeStart == /\ pc = "set"
               /\ grow /\ Overfull
               /\ ~NoSize
               /\ pc' = "resize"
               /\ sizeptr' = sizeptr + 1
               /\ size' = NextSize
               /\ old' = buckets
               /\ buckets' = NoBuckets(NextSize)
               /\ i' = 0
               /\ iter' = buckets[0]
               /\ UNCHANGED <<memory, grow, count, iterator, lookedup, prev, req, result>>

\* Mutant: the next bucket is read after this one has been linked elsewhere.
NextRelinked(n) == buckets[INDEX(node[n].key.key)]

\* _hashtable_resize: struct _Bucket *next = iter->next.
NextBucket(n) == node[n].next

\* _hashtable_resize: a bucket becomes the head of its chain in the new array.
ResizeStep == /\ pc = "resize"
              /\ iter # NULL
              /\ LET index == INDEX(node[iter].key.key)
                 IN  /\ node' = [node EXCEPT ![iter].next = buckets[index]]
                     /\ buckets' = [buckets EXCEPT ![index] = iter]
              /\ iter' = NextBucket(iter)
              /\ UNCHANGED <<heap, size, sizeptr, grow, count, iterator, lookedup,
                             prev, old, i, pc, req, result>>

\* _hashtable_resize: a chain of the old array is done.
ResizeChain == /\ pc = "resize"
               /\ iter = NULL
               /\ i + 1 \in DOMAIN old
               /\ i' = i + 1
               /\ iter' = old[i + 1]
               /\ UNCHANGED <<memory, table, iterator, lookedup, prev, old, pc, req, result>>

\* _hashtable_resize frees the old array, and hashtable_set goes on.
ResizeEnd == /\ pc = "resize"
             /\ iter = NULL
             /\ i + 1 \notin DOMAIN old
             /\ old' = <<>> /\ i' = 0
             /\ pc' = "find"
             /\ iter' = buckets[INDEX(req.key)]
             /\ UNCHANGED <<memory, table, iterator, lookedup, prev, req, result>>

Equal(n) == node[n].key.key = req.key

\* _hashtable_find_bucket: not this bucket.
FindStep == /\ pc = "find"
            /\ iter # NULL
            /\ ~Equal(iter)
            /\ iter' = node[iter].next
            /\ UNCHANGED <<memory, table, iterator, lookedup, prev, old, i, pc, req, result>>

\* _hashtable_find_bucket has found the key, or has seen the whole chain.
Hit(o) == pc = "find" /\ iter # NULL /\ Equal(iter) /\ req.op = o
Miss(o) == pc = "find" /\ iter = NULL /\ req.op = o

Return(r, f) == /\ pc' = "idle"
                /\ req' = NULL
                /\ iter' = NULL /\ prev' = NULL
                /\ ret' = r
                /\ freed' = f
                /\ UNCHANGED <<old, i>>

FreedKey(n) == {<<"key", node[n].key.key, node[n].key.copy>>}
FreedValue(n) == IF node[n].data = NULL THEN {} ELSE {<<"value", node[n].key.key, node[n].data>>}

\* Mutant: the key is freed and stays in the bucket.
StoredKeyFreed == node[iter].key

\* hashtable_set: which key object is in the bucket afterwards.
StoredKey == IF req.over THEN [key |-> req.key, copy |-> req.copy] ELSE node[iter].key

\* hashtable_set of a key that exists.
SetReplace == /\ Hit("set")
              /\ node' = [node EXCEPT ![iter].key = StoredKey, ![iter].data = req.value]
              /\ Return(<<"replaced">>, FreedValue(iter)
                                        \cup (IF req.over THEN FreedKey(iter) ELSE {}))
              /\ UNCHANGED <<heap, table, iterator, lookedup>>

\* hashtable_set: table->count < SIZE_MAX.
CanCount == count < SIZE_MAX

\* hashtable_set of a new key: a bucket n from the pool becomes the head of the
\* chain.
SetNew(n) == /\ Miss("set")
             /\ CanCount
             /\ n \notin heap
             /\ LET index == INDEX(req.key)
                IN  /\ node' = [node EXCEPT ![n] = [key  |-> [key |-> req.key, copy |-> req.copy],
                                                    data |-> req.value,
                                                    next |-> buckets[index]]]
                    /\ buckets' = [buckets EXCEPT ![index] = n]
             /\ heap' = heap \cup {n}
             /\ count' = count + 1
             /\ Return(<<"new">>, {})
             /\ UNCHANGED <<size, sizeptr, grow, iterator, lookedup>>

\* hashtable_set of a new key when count is SIZE_MAX.
SetFail == /\ Miss("set")
           /\ ~CanCount
           /\ Return(<<"failed">>, {})
           /\ UNCHANGED <<memory, table, iterator, lookedup>>

\* hashtable_remove: not this bucket.
RemoveStep == /\ pc = "remove"
              /\ iter # NULL
              /\ ~Equal(iter)
              /\ prev' = iter
              /\ iter' = node[iter].next
              /\ UNCHANGED <<memory, table, iterator, lookedup, old, i, pc, req, result>>

\* hashtable_remove: prev->next or the head of the chain skips the bucket, which
\* goes back to the pool.  (Its next field is read once more; the value is not
\* used.)
Unlink == IF prev # NULL
            THEN /\ node' = [node EXCEPT ![prev].next = node[iter].next, ![iter] = Unused]
                 /\ UNCHANGED buckets
            ELSE /\ buckets' = [buckets EXCEPT ![INDEX(req.key)] = node[iter].next]
                 /\ node' = [node EXCEPT ![iter] = Unused]

\* hashtable_remove of a key that exists.  It costs the pair its bucket if it
\* stands for this key.
Remove == /\ pc = "remove"
          /\ iter # NULL /\ Equal(iter)
          /\ Unlink
          /\ heap' = heap \ {iter}
          /\ count' = count - 1
          /\ Return(<<"none">>, FreedKey(iter) \cup FreedValue(iter))
          /\ found' = IF found = req.key THEN NULL ELSE found
          /\ EndIteration
          /\ UNCHANGED <<size, sizeptr, grow, pair>>

\* hashtable_remove of a key that does not exist.
RemoveMissing == /\ pc = "remove"
                 /\ iter = NULL
                 /\ Return(<<"none">>, {})
                 /\ UNCHANGED <<memory, table, iterator, lookedup>>

\* Mutant: the pair is the head of the chain.
HeadBucket == buckets[INDEX(req.key)]

\* hashtable_lookup: table->pair.bucket = item.
FoundBucket == iter

\* hashtable_lookup.
Lookup == \/ /\ Hit("lookup")
             /\ pair' = FoundBucket
             /\ found' = req.key
             /\ Return(<<"pair">>, {})
             /\ UNCHANGED <<memory, table, iterator>>
          \/ /\ Miss("lookup")
             /\ Return(<<NULL>>, {})
             /\ UNCHANGED <<memory, table, iterator, lookedup>>

\* hashtable_key_exists.
Exists == /\ \/ Hit("exists") /\ Return(<<"true">>, {})
             \/ Miss("exists") /\ Return(<<"false">>, {})
          /\ UNCHANGED <<memory, table, iterator, lookedup>>

\* What a caller sees of a bucket.
Shown(n) == <<"shown", node[n].key.key, [copy |-> node[n].key.copy, value |-> node[n].data]>>

\* hashtable_pair_get_key and hashtable_pair_get_value.
PairGet == /\ pc = "idle"
           /\ found # NULL
           /\ ret' = Shown(pair) /\ freed' = {}
           /\ UNCHANGED <<memory, table, iterator, lookedup, locals, pc, req>>

\* hashtable_pair_set_value.
PairSetValue(v) == /\ pc = "idle"
                   /\ found # NULL
                   /\ freed' = FreedValue(pair)
                   /\ node' = [node EXCEPT ![pair].data = v]
                   /\ ret' = <<"none">>
                   /\ UNCHANGED <<heap, table, iterator, lookedup, locals, pc, req>>

\* _hashtable_free_memory, and the pool is destroyed.
FreeMemory == /\ freed' = UNION {FreedKey(n) \cup FreedValue(n) : n \in heap}
              /\ heap' = {}
              /\ node' = [n \in Node |-> Unused]
              /\ count' = 0
              /\ ret' = <<"none">>
              /\ found' = NULL
              /\ EndIteration

\* hashtable_clear keeps the size; the pair keeps its address.
Clear == /\ pc = "idle"
         /\ FreeMemory
         /\ buckets' = NoBuckets(size)
         /\ UNCHANGED <<size, sizeptr, grow, pair, locals, pc, req>>

\* hashtable_free, and hashtable_init with the size argument s.
Reinit(s) == /\ pc = "idle"
             /\ FreeMemory
             /\ LET new == InitialTable(s)
                IN  /\ size' = new.size /\ sizeptr' = new.sizeptr /\ grow' = new.grow
                    /\ buckets' = NoBuckets(new.size)
             /\ pair' = NULL
             /\ UNCHANGED <<locals, pc, req>>

\* hashtable_iter_init.
IterInit == /\ pc = "idle"
            /\ liter' = NULL /\ offset' = 0 /\ finished' = FALSE
            /\ iterating' = TRUE
            /\ ret' = <<"none">> /\ freed' = {}
            /\ UNCHANGED <<memory, table, lookedup, locals, pc, req>>

\* The heads of chains the iterator has still to come to.
Ahead == {o \in offset..(size - 1) : buckets[o] # NULL}

\* hashtable_iter_next, hashtable_iter_get_key and hashtable_iter_get_value:
\* along the chain, or on to the next one that is not empty.
IterNext ==
  /\ pc = "idle"
  /\ iterating
  /\ LET next == IF liter # NULL THEN node[liter].next ELSE NULL
     IN  IF next # NULL \/ finished
           THEN liter' = next /\ UNCHANGED <<offset, finished>>
           ELSE IF Ahead # {}
           THEN \E o \in Ahead : /\ \A a \in Ahead : o <= a
                                 /\ liter' = buckets[o] /\ offset' = o + 1
                                 /\ UNCHANGED finished
           ELSE liter' = NULL /\ offset' = size /\ finished' = TRUE
  /\ ret' = IF liter' # NULL THEN Shown(liter') ELSE <<"end">>
  /\ freed' = {}
  /\ UNCHANGED <<memory, table, lookedup, iterating, locals, pc, req>>

Next == \/ \E r \in Request : CallSet(r) \/ Call(r)
        \/ SetFind \/ ResizeAbort \/ ResizeStart \/ ResizeStep \/ ResizeChain \/ ResizeEnd
        \/ FindStep \/ SetReplace \/ (\E n \in Node : SetNew(n)) \/ SetFail
        \/ RemoveStep \/ Remove \/ RemoveMissing
        \/ Lookup \/ Exists
        \/ PairGet \/ \E e \in Offered : e.key = found /\ PairSetValue(e.value)
        \/ Clear \/ \E s \in SizeArguments : Reinit(s)
        \/ IterInit \/ IterNext

Spec == Init /\ [][Next]_vars
-----------------------------------------------------------------------------
TypeOK == /\ node \in [Node -> [key : KeyObject \cup {NULL}, data : Value \cup {NULL},
                                next : Node \cup {NULL}]]
          /\ heap \subseteq Node
          /\ size \in Nat \ {0} /\ sizeptr \in Nat /\ grow \in BOOLEAN
          /\ buckets \in [0..(size - 1) -> Node \cup {NULL}]
          /\ count \in 0..SIZE_MAX
          /\ pair \in Node \cup {NULL} /\ found \in Key \cup {NULL}
          /\ liter \in Node \cup {NULL} /\ offset \in 0..size
          /\ finished \in BOOLEAN /\ iterating \in BOOLEAN
          /\ pc \in {"idle", "set", "resize", "find", "remove", "aborted"}
          /\ req \in Request \cup {NULL}
          /\ iter \in Node \cup {NULL} /\ prev \in Node \cup {NULL}

\* The buckets from n on, and whether the chain ends.
Walk(nd, n) == LET at[j \in 0..Cardinality(Node)] ==
                     IF j = 0 THEN n ELSE IF at[j - 1] = NULL THEN NULL ELSE nd[at[j - 1]].next
               IN  at
Chain(nd, n) == {Walk(nd, n)[j] : j \in 0..Cardinality(Node)} \ {NULL}
Ends(nd, n) == Walk(nd, n)[Cardinality(Node)] = NULL

Linked == UNION {Chain(node, buckets[j]) : j \in DOMAIN buckets}
Moving == IF pc = "resize"
            THEN Chain(node, iter) \cup UNION {Chain(node, old[j]) : j \in {o \in DOMAIN old : o > i}}
            ELSE {}

\* Every bucket taken from the pool is in the chain its key hashes to, in no
\* other, and the chains end; while the table is resized it is either there or
\* in what is left of the old array, never in both and never lost.
Placed == /\ TypeOK
          /\ heap = Linked \cup Moving
          /\ Linked \cap Moving = {}
          /\ \A j \in DOMAIN buckets : /\ Ends(node, buckets[j])
                                       /\ \A n \in Chain(node, buckets[j]) : INDEX(node[n].key.key) = j
          /\ count = Cardinality(heap)

\* The pair of the last lookup stays what was found, through resizes and
\* changes of other keys, until its key is removed or the table cleared.
PairRefers == found # NULL => pair \in heap /\ node[pair].key.key = found

\* As long as the sizes ascend, a table that resizes itself holds at most one
\* element more than it has chains.
LoadBounded == grow /\ pc = "idle" /\ (\A j \in 1..(sizeptr - 1) : PRIMES[j] < PRIMES[j + 1])
                 => count <= size + 1

\* The map the buckets of hp stand for, and the buckets an iterator has yet to
\* visit that is at it, o being the next chain.
MapOf(nd, hp) == [k \in {nd[n].key.key : n \in hp} |->
                    LET n == CHOOSE m \in hp : nd[m].key.key = k
                    IN  [copy |-> nd[n].key.copy, value |-> nd[n].data]]
Unvisited(nd, bk, it, o) == (Chain(nd, it) \ {it})
                            \cup UNION {Chain(nd, bk[j]) : j \in {a \in DOMAIN bk : a >= o}}

AbsMap == MapOf(node, heap)
AbsTodo == IF iterating
             THEN {node[n].key.key : n \in Unvisited(node, buckets, liter, offset)}
             ELSE NULL

Abs == INSTANCE Map WITH
  Limit <- SIZE_MAX,
  call  <- req,
  map   <- AbsMap,
  pair  <- found,
  todo  <- AbsTodo

\* The table is a map: every call takes effect on the key it was given, and on
\* no other, frees what the table owned and no longer stores, and the iterator
\* visits every key once, wherever the buckets are.
IsMap == Abs!Spec
=============================================================================
