# libdatatypes in TLA+

A verification project for libdatatypes, a library of abstract data types in
C11.  The modules model the library's components from their source, TLC checks
them on small instances, and TLAPS proves the most important properties for
every value of the constants.  `PROJECT.json` lists the components, the runs,
the lines each definition models, the hazards and the theorems.

## 1. The system

The library has no process of its own: its functions run in the threads of the
program that calls them.  Only the asynchronous queue is made for several
threads; all other types are sequential, and their hard behaviour lies in long
sequences of calls, pointer structures and numeric limits.  The library is built
with `-DNDEBUG`, so the asserts of the source are comments: what an assert says
is checked here as a property or used as the contract of the caller, never as a
guard.  A failing `malloc` aborts and a failing pthread call leaves through
`err()`; both end the process and are not modelled.

| Component | State | Operations | Uses | What makes it correct |
|---|---|---|---|---|
| asynchronous queue (`asyncqueue.c`) | queue, mutex, condition variable, `waiting` | push, pop, pop with timeout, clear, count, init, free | queue, pthreads, clock | calls appear atomic; items leave once and in order; no lost wakeup; calls return |
| memory pool (`pool.c`) | list of blocks, offset, list of pointer blocks | alloc, free, new, destroy | malloc | an item in use is not handed out again; nothing leaks or is wasted |
| singly-linked list (`slist.c`) | head, tail, count, items | append, prepend, sorted insert, remove, remove by data, pop, find, clear, free | pool, compare and free callbacks | links, tail and count agree; behaves like a sequence; owns its data |
| stack, queue (`stack.c`, `stack.h`, `queue.h`) | the list's | push, pop, head | singly-linked list | last-in first-out, first-in first-out |
| red-black tree (`rbtree.c`) | nodes, root, count, path stack, pair; iterators with a stack of their own | set, lookup, remove, clear, set the value of a pair, iterate | pool, callbacks | search order, balance, it is a map, no leak, pairs and iterators are right |
| byte buffer (`buffer.c`) | bytes, len, msize, max_size, valid | fill, fill from a file, read line, flush, to string, clear | `read` | nothing lost, strings terminated, memory large enough, invalid means silent |
| doubly-linked list (`list.c`) | head, tail, count, items with prev | as the singly-linked list, and reverse traversal | pool, callbacks | both directions agree |
| hash table (`hashtable.c`) | chains, size, place in `PRIMES`, count, pair | set, remove, lookup, clear, iterate, automatic growth | memory pool, hash and equality callbacks | it is a map, also across a resize; pairs stay what was found |
| associative array (`assocarray.c`) | sorted keys, values, size, pair | set, remove, lookup, clear, iterate | compare callback | sorted, within its memory, the search ends at the right place, it is a map |
| compare and hash functions (`compare.c`, `hash.c`) | none | pure | | orders and equalities are consistent |

How they interact: the containers take their nodes from a `Pool` through the
callbacks `alloc` and `free`, or from malloc; the asynchronous queue is a queue
under a mutex; queue and stack are macros over the singly-linked list.

Hard behaviours: the interleavings of threads in the asynchronous queue, its
condition variable without a loop around the wait, timeouts that race with
pushes; the rebalancing of the tree without parent pointers; the tail pointer of
the list; the free list of the pool; chains that are relinked while they are
walked; pairs and iterators that outlive changes of their container; sizes near
their limits.  `hazards` in
`PROJECT.json` names each at its line, with the properties that cover it.

## 2. Modules

| Module | Models |
|---|---|
| `AtomicQueue` | abstract: a queue on which every call takes effect at one instant |
| `AsyncQueue` | `asyncqueue.c`, thread by thread |
| `TimedPop` | the deadline of `async_queue_pop_timeout` against the clock |
| `Allocator` | abstract: what the `Pool` interface promises |
| `MemoryPool` | `pool.c` |
| `ListReference` | abstract: what the functions of both lists do, on sequences |
| `SList`, `MCSList` | `slist.c`, `stack.c`, `stack.h`, `queue.h` |
| `List`, `MCList` | `list.c` |
| `RBTree` | `rbtree.c` without the iterator |
| `RBTreeIter`, `MCRBTree` | the iterator of `rbtree.c` beside the tree |
| `Map` | abstract: what `hashtable.h` and `assocarray.h` promise |
| `HashTable`, `MCHashTable` | `hashtable.c` with `direct_hash` |
| `AssocArray`, `MCAssocArray` | `assocarray.c` |
| `Buffer`, `MCBuffer` | `buffer.c` |
| `AsyncQueueProofs` (with `TimedPop`), `MemoryPoolProofs`, `AssocArrayProofs`, `SListProofs`, `ListProofs`, `BufferProofs`, `HashTableProofs`, `RBTreeProofs` (with `RBTreeIter`) | theorems |

Definitions whose comment begins with "Mutant" are faulty variants of the
definition after them.  They are not used by the specifications; replacing the
definition by its mutant shows that a property can fail.

### AsyncQueue

`mutex`, `queue` and `waiting` are the fields of the C structure; the underlying
list is the sequence of its items, which `SList` justifies.  `pc` says where each
thread is: a call takes one step to the lock, one for each section between two
mutex or condition variable operations, one to the unlock.  `PopWait` counts the
thread as waiting, releases the mutex and blocks in one step, as POSIX
guarantees.  A blocked thread is woken by a signal (`PushSignal` picks any of
them), by its deadline (`Timeout`) or for no reason (`SpuriousWakeup`), and goes
on once it holds the mutex again.  As in the code there is one attempt after the
wait, and no way back to it.  `async_queue_free` takes no lock, and its caller
has to know that nobody uses the queue: `Free` requires it, as the repository's
test does by joining its threads.

`AtomicQueue` keeps only the items and, for each thread, its call, whether it has
taken effect, and its result.  The refinement mapping takes the step in which a
call reaches its signal or unlock statement as the instant of its effect.
`AtomicQueue` says when a pop may fail: an untimed one only at an instant when
the queue is empty.  It does not say that an untimed pop waits until it
succeeds, because it does not: a consumer whose item was taken by another, or
that woke up spuriously, returns false.

### TimedPop

One consumer and one producer with a clock in milliseconds.  The call
(`TimedCall`) and the moment it has the mutex (`TimedTake`, `TimedWait`) are two
steps, between which time passes and items are pushed: the clock is read only
under the mutex (line 150).  `start` is the time of the call and `read` that
reading.  `Deadline` is the computation of lines 152 and 153, `IsTimed` the test
of line 145.  A contended mutex moves the deadline with the reading, past
`start + ms`: a call at 999 with a timeout of 1000 that gets the mutex at 1000 has
its deadline at 2000.  So `DeadlineWindow` says "not late" from the reading and
"not two seconds early" from the call.  A wait ends by a push or by its deadline
here; wakeups without reason are in `AsyncQueue`.  A failing wait is retried by
nobody, so the time of the call's return follows.  Its names differ from those of `AsyncQueue`, so that `AsyncQueueProofs` can extend both.

### MemoryPool

An address is a block number and an index.  `free_block` is the list of pointer
blocks, first one first, each the sequence of addresses below its offset.
`inUse` is what clients hold, `live` and `peak` count allocations.  Clients give
back only what they hold, and do not enter the pool at the same time.

### SList

An explicit heap: `next` and `data` per item, `heap` the allocated items.  A
freed item's fields hold `FREED`, so reading one through a stale pointer shows up
in the state.  Loops take one step per iteration with the code's local variables
(`ptr` is `SListItem **ptr`).  `seq` records which items are linked, and `want`
and `wantRet` what a plain sequence would contain and return; they are computed
by the definitions of `ListReference`, from the call's arguments.  Pool and malloc are the
same here: `ItemNew` takes any item that is not allocated.

### List

As `SList`, with `prev` fields.  The functions without a loop are one step, since
nobody can look at the list in between.  `_list_find` searches from both ends, so
it need not find the first match: `allowed` holds every item with the key at or
behind the offset.  `list_insert_sorted` is right when the datum goes to one of the
ends; between two items the code follows the null `prev` field of the head, which
the model shows as the state `crashed`, with nothing after it.

### RBTree

The nodes field by field, the path stack as a sequence with the array's size
beside it.  Every iteration and every call among the mutually recursive
`_rbtree_insert_case*` and `_rbtree_remove_case*` is a step.  `want` is the map
the calls should have built, `wantRet` and `wantFreed` what the last call should
have returned and passed to the free callbacks.  One behaviour of the code is
part of `WantSet` because it is not obvious: with `SIZE_MAX` nodes the limit is
tested before the search has ended, so the value of an existing key is replaced
only if the key is the root's.  `pair` is the node of the last lookup and `found` the
key it should stand for; a removal takes `found` away from the removed key and
from the next smaller one, whose node may be freed in place of the other
(`rbtree.c:821-826`), and from no other.

### RBTreeIter

Extends `RBTree` by one iterator: its stack, the size of its memory, and what
`iter->stack` holds.  `rbtree_iter_next` takes one step per iteration.  The header
says that modifying the tree while iterating is undefined: a call that may change
the tree ends `fresh`, and a stale iterator is only freed or reused.  On an empty
tree `rbtree_iter_init` leaves `iter->stack` unset (`imem = "garbage"`); freeing or
reallocating that address does nothing or ends the process, as chance will have
it.  The size of the memory is computed in `size_t`: for a tree with `SIZE_MAX`
nodes `count + 1` is 0, so `rbtree_iter_init` asks for no memory and
`rbtree_iter_reuse` never for more (`RoomForPath`, `MustGrow`).  A write outside
the memory (`AfterWrite`) goes well or ends the process; what else it may
overwrite is not modelled, and `VisitsEachOnce` and `IterStackFits` claim nothing
for such a tree.  A `malloc(0)` that returns null ends the process in `abort` and is,
like all failures of `malloc`, left out.  `MCRBTree` has four kinds of clients, one
per behaviour, so that the calls of one kind do not multiply the states of the others.

### Map, HashTable and AssocArray

Both containers implement `Map`, whose calls take effect at one instant.  A key is
what the compare function distinguishes and a copy, so that two objects can be the
same key: `overwrite_key` decides which of them is stored and which is freed.
`freed` is what the last call passed to the free callbacks, `ret` what it returned
and, for pairs and iterators, what they show.  In `Map` an iterator has a set of
keys to visit and a pair a key; a change of the map may take the pair's meaning
away, and each container says precisely when (`PairRefers`).

`HashTable` has the buckets field by field.  Resizing takes one step per bucket,
so that `Placed` sees the two arrays in between.  The sizes come from `PRIMES`,
which ends with 0; `hashtable.c` aborts there, and when a size does not fit.
`direct_hash` saturates: large keys collide.  A bucket given back to the pool is
`Unused`; the code reads its `next` field once more and does not use it.

`AssocArray` keeps the two arrays as sequences up to `count`.  The search is a
step per iteration, everything else one step.  An insertion or removal at or in
front of the pair's key moves what its offset stands for, so `found` is kept only
through changes behind it.

### Buffer

`bytes` is the content and `msize` the memory, computed modulo 2^SIZE_BITS.
`dst` is the string the caller passes, with the real size of its memory beside
`*len`, because the code gives `*len` two meanings: the memory's size when the
caller allocated it, one less when the buffer did.  `ret` is what a call returns,
the string of `buffer_to_string` included, so that `InvalidIsSilent` sees all ways
content can leave the buffer.

## 3. Runs

| Run | Instance | Checks |
|---|---|---|
| `queue` | 3 threads, 5 calls, SIZE_MAX 2, fair | `TypeOK`, `WaitingCount`, `NoStrandedItem`, `ExactlyOnceInOrder`, `Linearizable` (implements `AtomicQueue`), `CallsReturn`, `SleeperMeetsItem` |
| `timed_pop` | 13 instants around full seconds, 6 timeouts | `DeadlineWindow`, `TimedPopReturns` |
| `timed_pop_early` | fails as expected | `BlocksForMs` |
| `pool` | 4 blocks of 2 items | `Accounting`, `FreeListShape`, `NoWaste`, `IsAllocator` (implements `Allocator`) |
| `slist` | 5 items, 2 keys, 5 insertions, SIZE_MAX 4, symmetric | `WellLinked`, `MatchesReference`, `Ownership` |
| `list` | 5 items, 2 keys, 5 insertions, SIZE_MAX 4, symmetric | `WellLinked`, `MatchesReference`, `Ownership` |
| `list_sorted` | fails as expected | `InsertedInPlace` |
| `rbtree` | 5 keys in any order; 4 keys with pairs; 4 keys with an iterator; 11 keys inserted in ascending order and removed in any, SIZE_MAX 11 | `RedBlack`, `PairRefers`, `IsMap`, `SiblingExists`, `PathOnStack`, `VisitsEachOnce`, `IterStackFits` |
| `rbtree_iter_empty` | fails as expected | `InitializedIterIsUsable` |
| `hashtable` | 5 keys, 4 buckets, SIZE_MAX 4, sizes 1, 3, 2 and a fixed 2, symmetric | `Placed`, `PairRefers`, `LoadBounded`, `IsMap` (implements `Map`) |
| `assocarray` | 6 keys, sizes 2, 4 and 5 | `ArrayShape`, `SearchBrackets`, `PairRefers`, `SearchEnds`, `IsMap` (implements `Map`) |
| `buffer` | 2 bytes, size_t of 5 bits; 7 bytes of text in buffers of 3 and 5, 16 bytes in all other sizes | `StringTerminated`, `NothingLost`, `FitsMemory`, `OneLineAtATime`, `InvalidIsSilent` |

The type invariant of most components is a conjunct of their first structural
invariant (`WellLinked`, `RedBlack`, `Placed`, `ArrayShape`, `FitsMemory`).  Every
invariant and action property of the passing runs is proved, too.

### Bounds

* `MaxCalls` in `AsyncQueue`: three threads and five calls allow two sleeping
  consumers and a producer between append and signal, or a sleeping consumer whose
  item another one steals; `SIZE_MAX = 2` makes both the full queue and the counter
  at its limit happen.  What does not need fairness is proved for any threads.
* `MaxBlocks` in `MemoryPool`: eight items give four full pointer blocks, so that
  blocks are added, emptied and left with full ones behind them.
* `MaxInserts` and `Node` in `SList` and `List`: five objects let a list lose its first,
  middle and last items and be filled again; two keys give equal neighbours, and lists of one
  to four items let the two ends of `_list_find` meet and cross.
* `AnyKeys`, `FewKeys` in `MCRBTree`: all orders of calls for small trees; a gap that
  moves up more than one level, and meets a red sibling there, needs the eleven
  nodes of the client "deep", which also brings the counter to its limit, with
  iterators that are new there and such that were made one node before.
  `RBTREE_INITIAL_BLOCK_SIZE` is 2 instead of 4 so that the stack grows.  Values
  are never compared, so one key with two values is enough.
* `MCPrimes` in `MCHashTable`: one, three, two chains and then the end, so that a
  chain is split, chains are merged, the sizes go down as at `hashtable.c:65-66`,
  and the process ends.  With `SIZE_MAX = 4` the full table is reached, too.  Two of
  the five keys have the same hash.  The buckets are interchangeable, which the
  symmetry uses.
* `ASSOC_ARRAY_MAX_SIZE = 5` and `InitialSize = 2`: the array is doubled, then set to
  the limit, then full; five keys give searches of three iterations.
* `SIZE_BITS` in `Buffer`: with five bits the largest legal buffer makes the
  doubling overflow.  `InitialSize` is small for the same reason; `MaxWritten`
  bounds the bytes between two clears: 7 for arbitrary text, which gives several
  lines and a partial one, 16 for runs of one byte, more than any legal buffer takes.
* `Instants` in `TimedPop`: before, at and after full seconds, up to the last
  deadline.

### Fairness

`AsyncQueue!FairSpec` has weak fairness for the steps of each thread inside a
call: the operating system schedules every runnable thread, and the deadline of a
timed wait arrives.  Weak fairness says nothing about a contended mutex; with
finitely many calls nobody can be overtaken for ever, so none is needed.  No
thread is required to call, no wait to end spuriously.  `TimedPop!FairTimedSpec` lets
time pass, a call get the mutex, which every function of the queue gives back after
a few statements or in the wait, and expired waits end; nobody has to push.

### Deadlock

Deadlock is checked except in the runs of `AsyncQueue`, where a consumer may wait
for an item for ever, of `TimedPop`, whose clock ends with the last instant, of
`List`, where the process ends in the state `crashed`, and of `HashTable` and
`AssocArray`, which abort at their limits.

### Findings

* `list_sorted`: inserting a datum that belongs between the first and the last item
  of a sorted doubly-linked list reads at a null address (`list.c:218` has `prev`
  where `slist.c:210` has no such detour).  The tests insert in descending order only.
* `timed_pop_early`: `asyncqueue.h` says of the timed pop "Blocks for ms
  milliseconds".  The deadline is cut to a full second twice, so the call can give
  up almost two seconds early, and with less than 1000 ms it gives up at once.
* `rbtree_iter_empty`: an iterator that was initialized on an empty tree is freed or
  reused with an address nobody has set (`rbtree.c:880-893`, `901`, `918`), where
  `rbtree.h` speaks of "an already initialized RBTreeIter".  The test program
  initializes one on a cleared map and does not free it.

Behaviours the models contain and no run is about:

* An iterator of a tree with `SIZE_MAX` nodes gets memory for 0 items, because
  `tree->count + 1` wraps round (`rbtree.c:876`), and `rbtree_iter_next` writes outside
  it; an iterator that is reused there keeps the memory it has, since 0 is not more
  (`rbtree.c:915`).  The run `rbtree` goes through these states and the properties of the
  iterator exclude them (`count < SIZE_MAX`).
* A timed pop with a timeout of 0 blocks without limit (`TimedPop!IsTimed`).
* On an invalid buffer `buffer_fill_from_fd` returns 0, like at the end of a file, where
  `buffer.h` speaks of -1 on failure (`Buffer!FillFromFdInvalid`).

## 4. Proofs

All theorems hold for every value of the constants that satisfies the named
assumptions of the module.

`AsyncQueueProofs` assumes a finite set of threads and `SIZE_MAX > 0`, and for `TimedPop`
that times and timeouts are natural numbers.

* `IndInvHolds`: the inductive invariant is `TypeOK`, `MutexInv`, `ControlInv`
  and `WaitingCount`.  `WaitingCount` alone is not inductive: that two threads do
  not change `waiting` in the same critical section needs `MutexInv`, and that a
  thread in the wait is in a pop needs `ControlInv`.  `TypeOK` in turn needs
  `WaitingCount`: `--queue->waiting` stays in the naturals because the thread
  that executes it is counted.
* `NoLostWakeup`: `NoStrandedItem` is inductive relative to it.  The argument is a
  count: every push adds one item and, if a consumer is blocked, wakes one, since
  the waiting counter is then positive; a woken consumer that leaves takes an item
  or finds none; a consumer goes to sleep only when the queue is empty.
* `ExactlyOnce`: conservation and order, from three lemmas about appending to,
  taking from and discarding a queue.
* `Refinement`: every step of `AsyncQueue` is a step of `AtomicQueue` or leaves its
  variables unchanged.  A pop that was woken and finds nothing maps to a failing
  pop on an empty queue; a timed-out one needs `ControlInv` to be a timed pop.
* `DeadlineInWindow`, about `TimedPop`, for every set of instants and timeouts, from
  the arithmetic lemma `DeadlineBounds`.  That a blocked call read the clock after it
  was made (`TimedInv`) carries the bound from the reading to the call.

`MemoryPoolProofs` assumes `block_size > 1`, which `memory_pool_new` asserts.

* `PoolIsSound`, `PoolWastesNothing`: the inductive invariant is `TypeOK`,
  `FreeListShape`, `Accounting`, `NoWaste` and `CountInv`, which relates the counter
  of allocations to the set of items in use.  `NoWaste` needs it: a new item is cut
  only when the free list is empty, and then all items cut are in use.  Lemmas say
  what adding and dropping a block or an address does to the addresses in the list.
* `FreeListStaysInBounds`: the shape of the free list, read off the same invariant.
* `PoolImplementsAllocator`: simulation under the same invariant.

`AssocArrayProofs` assumes integer keys, an initial size within the limit, and that
`NULL` is neither a call nor a set of keys.

* `ArrayStaysSorted`, `SearchFindsPlace`, `PairKeepsKey`: the inductive invariant is
  `ArrayShape`, `SearchBrackets`, `PairRefers` and `CallInv`.  None of the first three
  is inductive alone: an insertion keeps the order only because the search has
  bracketed the key, the bracket moves past the middle only because the keys are
  sorted, and a removal leaves a pair alone only because the order tells which
  elements move.  `CallInv` says what a call knows between its search and its end.
  The lemmas `Inserting` and `Removing` say what the memmoves do, element by element.
* `SearchTerminates`: under the same invariant the middle lies between `begin` and
  `end`, so that each iteration shortens the part searched.
* `ArrayImplementsMap`: `MapOfIs` says when a function is the map of the two arrays;
  for each action the function `Map` asks for is compared with the arrays index by
  index.  A search that fails means that the key is not in the map, and that nobody
  iterates while a key is set makes the iterator's keys agree.

`SListProofs` and `ListProofs` assume that `NULL`, `FREED` and (for `SList`) `HEAD`
are no items, that keys are positive numbers (0 is the key of a null datum) and that
`NULL` is no object; nothing about the number of items, keys or objects.

* `SListInvariant`, `ListInvariant`: the inductive invariant is `TypeOK`, `Shape`,
  `Owned`, `MatchesReference` and one formula per loop.  `Shape` says that the fields
  of the list and the links of the items describe `seq`; it holds inside the loops,
  too, except while the items are freed one by one.  `Owned` says it of single
  items where `Ownership` speaks of the union, so that removing one item needs only
  the facts about that item.  The formula of a loop says which part of the list it
  has behind it: no smaller item in front of `ptr` (sorted insertion), no equal one
  (`remove_by_data`, find), nothing allocated any more (`free`).  What is still to be
  done is then read off `want`.
* `SListWellLinked`, `ListWellLinked`, `SListOwnership`, `ListOwnership`,
  `SListMatchesReference`, `ListMatchesReference` follow from it.  For `_list_find` the
  invariant says that `iter` and `end` have taken the same number `t` of steps and that
  nothing they passed is equal; while `iter` is an item, `end` lies at or behind the
  offset, and if the successor of `iter` is `end` nothing is between them.
* The lemmas are about plain sequences: `IsInsert` and `IsWithout` say index by index
  what insertion and removal do, and the same is shown of the links (`LinksIn`,
  `LinksOut`, and `LinksInBack`, `LinksOutBack` for `prev`), of the data and of the
  owners.  The library of these lemmas is in both modules, because each states it for
  its own items and data.

`BufferProofs` assumes what `buffer_init` asserts, `0 < max_size <= BUFFER_LIMIT`, a
positive initial size and a width of at least one bit.

* `BufferInvariant`: `FitsMemory`, `StringTerminated` and `NothingLost` together are
  inductive.  The heart is `NewReallocSizeBounds`: the doubling loop ends within
  `SIZE_BITS` iterations, also when it overflows, with at least the size asked for and
  less than twice that.
* `BufferOneLineAtATime` is an action property, from the same invariant, and
  `BufferInvalidIsSilent` one that follows from the guards alone.

`HashTableProofs` assumes that keys are positive numbers, that there are finitely many
buckets, at least as many as can be counted, that the list of sizes begins with a positive
one and ends with 0 (as `PRIMES` does; it need not ascend), and that `NULL` is neither a call
nor a set of keys.

* `TableInvariant`: that buckets form chains is stated without following them.  Every
  bucket has a home, the chain it is in, and a rank (`Structure`): a `next` field leads to
  the same home and a lower rank, no bucket of the chain has a rank in between, and the head
  has the highest.  Ranks need not be consecutive, so a bucket that is unlinked changes
  nobody else's, and a new head gets one more than the old head's.  While the table is
  resized, the same holds of the buckets in `left` and of `Rest`, what is left of the old
  array.  Around it stand the uniqueness of keys (`KeysInv`), the count, the call in
  progress, the place in `PRIMES`, the load and the iterator.  Keys stay unique because a
  search that has come to the end of its chain has passed every bucket with the key: those
  not above `iter` are all that is left (`Searching`), and there are none.
* `TableBucketsPlaced`: the chains as `Walk` follows them, from the invariant.
  `ChainOfBucket` shows that the walk from a bucket comes to exactly the buckets of its home
  that are not above it, and that it ends: otherwise `Walk` would be an injection of one
  number more than there are buckets.
* `TablePairRefers`, `TableLoadBounded`: the pair's bucket and the load are parts of the
  invariant.  The load needs what `hashtable_set` knows between the resize and the search:
  there are then not more elements than chains.
* `TableImplementsMap`: simulation under the same invariant.  `MapOfIs` says when a function
  is the map of the buckets; `UnvisitedAt` says by home and rank which buckets an iterator
  has yet to visit, so that going along a chain and skipping empty ones each take exactly
  one bucket out of that set.

`RBTreeProofs` assumes that nodes and keys are numbers and `NULL` neither, that there are
finitely many nodes, at least as many as can be counted (a `malloc` that fails ends the
process), and that a counter and the first block of the stack hold at least one.

* `TreeInvariant`: the inductive invariant `IndInv` holds before and after every iteration
  of a search and every case of the rebalancing.  Its parts:
  * `Sound`: the children make the allocated nodes one tree.  `Below(L, R)` is the function
    from a place in the tree to the nodes at and below it; `Unfolds`, `Splits` and `OneParent`
    say that it satisfies its recursive equation, that a node's two subtrees are disjoint and
    do not contain it, and that no node is a child twice.  From these three follows induction
    over the tree (`TreeInduction`, by the number of nodes below).  For each change of the
    children (a new leaf, a rotation, the removal of a node with at most one child) a lemma
    gives the new function and shows that it is `Below` of the new children, since only one
    function satisfies the equation (`BelowIs`).
  * `Order`, in terms of `Below`.  While a key is searched every node outside the subtree
    still searched lies, with regard to the key and to that whole subtree, on one side
    (`Apart`); a search that comes to a null child has therefore passed every node, and a new
    leaf may stand there.
  * `Balanced`: there is a height for every place so that both children of a node have the same
    and its own is greater by the node's weight.  Between calls a black node weighs one and a red
    one nothing.  During a removal the node that is to be freed (`Victim`) weighs nothing,
    and the node whose subtree lacks a black node (`Gap`) one more than its colour says.  With
    these weights the tree is balanced in every state of a removal: cases 1 to 6 only move
    or absorb the extra weight.  That the sibling of a gap has a positive height, and so is
    not null, follows.
  * `Red`: a red node has black children, except where the case at hand has still to repair it
    (`MayBeRed`: the node just inserted, or the victim, whose own children do not count).
  * `StackInv`: the stack is a path from the root.  `GapInv` and `VictimInv` say where the gap and
    the victim are on it, and which case of the removal the code is in.
  * `MaxInv`: the node whose content moves is the greatest one below the left child.
  * `InsertInv`, `FindInv`, `MapInv`, `ResultInv`: what `want`, `wantRet` and `wantFreed`, which
    are fixed when a call begins, have to do with the nodes the call has not yet changed.
  * `PairInv`: a pair whose key is neither the removed one nor its predecessor stays at its node.
* `RedBlackTheorem`, `IsMapTheorem`, `PairRefersTheorem`, `SiblingExistsTheorem` and
  `PathOnStackTheorem` are read off it.  `BlackHeights`, the set of heights `RedBlack` counts, has
  one element because every path has the height of `Balanced` (`OneHeight`).
* The cases of the rebalancing come in mirrored pairs.  Their lemmas are stated once and used
  for `L` and `R` in either order: a tree read from right to left is a tree, with negated keys
  in order (`Mirrored`).
* `IterInvariant`: `Walk` says of the path of a fresh iterator that each item lies in the branch
  the item before it went into, and that a node has been visited exactly if it is in the part
  still to be visited (`Rest`) of no item.  The parts of different items are disjoint, since
  each item's node lies in the branch that those before it have left out of theirs.  So a new
  child has not been visited (`WalkDown`), a null child is passed over without loss
  (`WalkOver`), and when the path is empty nothing is left.
* `VisitsEachOnceTheorem` and `IterStackFitsTheorem` follow: the items of a path are different
  nodes, so it has at most `count` of them, and one null child more.  Both are about trees with
  fewer than `SIZE_MAX` nodes, the only ones for which `count + 1` is what the iterator gets.

Recursive functions: `NewReallocSize`, `Pow2`, `RemoveEvery`, `Walk` (of `HashTable`), `Below`
and `BlackHeights` are recursive functions over numbers, or over the places of a tree.  The
induction theorems of the library take a predicate as a parameter, which no installed prover
instantiates; here induction is over a set (`SetInduction`, `TreeInduction`), from the
existence of a least element, and where the existence of the function is needed it is
proved in the same way.

Only model-checked: the liveness properties `CallsReturn`, `SleeperMeetsItem` and
`TimedPopReturns`, because liveness under fairness is out of the prover's reach, and the three
properties that fail as expected.

## 5. Not modelled, and the plan

Every component that keeps state is modelled.  What is left is `SharedPool`: two asynchronous
queues that were given one pool enter it at the same time, each under its own mutex.  The
pool promises nothing to concurrent callers, so this would model the consequences of a
misuse.

Not planned: the functions on strings in `compare.c` and `hash.c`, which read their
argument and keep nothing; the benchmark programs, build and documentation files,
accessors that only read a field, and the wording of error messages.
