----------------------------- MODULE MemoryPool -----------------------------
(***************************************************************************)
(* pool.c: MemoryPool, the allocator the containers take their nodes from. *)
(*                                                                         *)
(* Memory is carved from a list of blocks of block_size items; the newest  *)
(* block is the current one.  Items given back are remembered in a list of *)
(* pointer blocks, each an array of block_size addresses filled from the   *)
(* bottom.  An address is <<b, i>>: item i of the b-th block created.      *)
(*                                                                         *)
(* The clients keep to the interface: they give back only items they hold, *)
(* and no two threads are inside the pool at once.                         *)
(***************************************************************************)
EXTENDS Naturals, Sequences, FiniteSets

CONSTANTS block_size,   \* items of a block
          MaxBlocks     \* bound: blocks created for one pool

\* memory_pool_new asserts block_size > 1.
ASSUME PoolAssumption == block_size \in Nat /\ block_size > 1 /\ MaxBlocks \in Nat \ {0}

VARIABLES alive,        \* between memory_pool_new and memory_pool_destroy
          blocks,       \* length of the list pool->block
          offset,       \* pool->block->offset
          free_block,   \* pool->free_block: the pointer blocks, first one first
          inUse,        \* the items clients hold
          live,         \* history: allocations not yet given back
          peak          \* history: the largest value of live

vars == <<alive, blocks, offset, free_block, inUse, live, peak>>

Addr == (1..MaxBlocks) \X (0..(block_size - 1))

\* The addresses that have been cut from the blocks.
Carved == {a \in Addr : a[1] < blocks \/ (a[1] = blocks /\ a[2] < offset)}

\* The places <<i, j>> of a list of pointer blocks, and the addresses there.
Slots(list) == UNION {{<<i, j>> : j \in 1..Len(list[i])} : i \in 1..Len(list)}
Stored(list) == {list[s[1]][s[2]] : s \in Slots(list)}

Detached == Stored(free_block)

Larger(a, b) == IF a > b THEN a ELSE b
-----------------------------------------------------------------------------
\* memory_pool_new: one block, created ahead of the first allocation.
Init == /\ alive = TRUE
        /\ blocks = 1
        /\ offset = 0
        /\ free_block = <<>>
        /\ inUse = {}
        /\ live = 0
        /\ peak = 0

HandOut(item) == /\ inUse' = inUse \cup {item}
                 /\ live' = live + 1
                 /\ peak' = Larger(peak, live + 1)

\* Mutant: an emptied pointer block stays in the list.
KeepEmptyBlock == [free_block EXCEPT ![1] = SubSeq(@, 1, Len(@) - 1)]

\* The free list without the last address of its first block; a block that has
\* become empty is unlinked and freed.
PopDetached == IF Len(Head(free_block)) = 1
                 THEN Tail(free_block)
                 ELSE [free_block EXCEPT ![1] = SubSeq(@, 1, Len(@) - 1)]

\* Mutant: the address stays in the free list.
PeekDetached == /\ free_block # <<>>
                /\ LET head == Head(free_block)
                   IN  HandOut(head[Len(head)])
                /\ UNCHANGED <<alive, blocks, offset, free_block>>

\* _memory_pool_try_get_detached_item: reuse the item given back last.
AllocDetached == /\ alive
                 /\ free_block # <<>>
                 /\ LET head == Head(free_block)
                    IN  HandOut(head[Len(head)])
                 /\ free_block' = PopDetached
                 /\ UNCHANGED <<alive, blocks, offset>>

\* Mutant: the current block is used up before the free list is looked at.
AlwaysCurrent == TRUE

\* _memory_pool_alloc: no detached item was found.
NothingDetached == free_block = <<>>

\* Mutant: the boundary of the block is missed by one.
RoomPastTheEnd == offset <= block_size

\* _memory_pool_try_get_current_item: offset < block_size.
RoomInBlock == offset < block_size

\* _memory_pool_try_get_current_item: the next item of the current block.
AllocCurrent == /\ alive
                /\ NothingDetached
                /\ RoomInBlock
                /\ HandOut(<<blocks, offset>>)
                /\ offset' = offset + 1
                /\ UNCHANGED <<alive, blocks, free_block>>

\* Mutant: the offset of the new block is not advanced.
NewBlockAtStart == /\ alive
                   /\ NothingDetached
                   /\ ~RoomInBlock
                   /\ blocks < MaxBlocks
                   /\ blocks' = blocks + 1
                   /\ offset' = 0
                   /\ HandOut(<<blocks + 1, 0>>)
                   /\ UNCHANGED <<alive, free_block>>

\* _memory_pool_get_item_from_new_block: the first item of a new block, which
\* becomes the current one.
AllocNewBlock == /\ alive
                 /\ NothingDetached
                 /\ ~RoomInBlock
                 /\ blocks < MaxBlocks
                 /\ blocks' = blocks + 1
                 /\ offset' = 1
                 /\ HandOut(<<blocks + 1, 0>>)
                 /\ UNCHANGED <<alive, free_block>>

\* _memory_pool_alloc.
Alloc == AllocDetached \/ AllocCurrent \/ AllocNewBlock

\* Mutant: a full pointer block is written past its end.
NeedsPtrBlockIfNone == free_block = <<>>

\* _memory_pool_free: there is no pointer block, or the first one is full.
NeedsPtrBlock == free_block = <<>> \/ Len(Head(free_block)) = block_size

\* _memory_pool_free: remember the address in the first pointer block.
Free(item) == /\ alive
              /\ item \in inUse
              /\ free_block' = IF NeedsPtrBlock
                                 THEN <<<<item>>>> \o free_block
                                 ELSE [free_block EXCEPT ![1] = Append(@, item)]
              /\ inUse' = inUse \ {item}
              /\ live' = live - 1
              /\ UNCHANGED <<alive, blocks, offset, peak>>

\* memory_pool_destroy frees both lists; what clients still hold is gone.
Destroy == /\ alive
           /\ alive' = FALSE
           /\ blocks' = 0
           /\ offset' = 0
           /\ free_block' = <<>>
           /\ inUse' = {}
           /\ live' = 0
           /\ peak' = 0

\* memory_pool_new after a destroy.
New == /\ ~alive
       /\ alive' = TRUE
       /\ blocks' = 1
       /\ offset' = 0
       /\ free_block' = <<>>
       /\ UNCHANGED <<inUse, live, peak>>

Next == \/ Alloc
        \/ \E item \in Addr : Free(item)
        \/ Destroy
        \/ New

Spec == Init /\ [][Next]_vars
-----------------------------------------------------------------------------
TypeOK == /\ alive \in BOOLEAN
          /\ blocks \in 0..MaxBlocks
          /\ offset \in 0..block_size
          /\ free_block \in Seq(Seq(Addr))
          /\ inUse \in SUBSET Addr
          /\ live \in Nat
          /\ peak \in Nat

\* No address is at two places of the list.
StoredOnce(list) ==
  \A r, s \in Slots(list) : list[r[1]][r[2]] = list[s[1]][s[2]] => r = s

\* Blocks of 1 to block_size addresses, all but the first one full.
WellShaped(list) ==
  \A i \in 1..Len(list) : /\ Len(list[i]) \in 1..block_size
                          /\ i > 1 => Len(list[i]) = block_size

\* Every item cut from a block is either held by one client or stored in
\* exactly one place of the free list, over any sequence of allocations and
\* frees: nothing leaks, and nothing that could be handed out twice exists.
Accounting == /\ inUse \cup Detached = Carved
              /\ inUse \cap Detached = {}
              /\ StoredOnce(free_block)

\* The pointer blocks stay within their arrays of block_size addresses, no
\* block in the list is empty (pool.c asserts offset > 0 before it reads
\* items[--offset]) and all but the first are full.
FreeListShape == WellShaped(free_block)

\* The pool never takes more memory than the clients have needed at one time:
\* the number of items cut from blocks is the largest number of items that
\* were in use at once.
NoWaste == Cardinality(Carved) = peak

Abs == INSTANCE Allocator WITH Item <- Addr

\* MemoryPool keeps the promise of the Pool interface.
IsAllocator == Abs!Spec
=============================================================================
