------------------------------- MODULE SList -------------------------------
(***************************************************************************)
(* slist.c, and the stacks and queues that are macros over it (stack.c,    *)
(* stack.h, queue.h): a singly linked list with head, tail and count.      *)
(*                                                                         *)
(* The heap is modelled node by node: next and data are the fields of the  *)
(* SListItems, heap the set of items that are allocated.  Functions with a *)
(* loop take one step per iteration; ptr is the code's SListItem **ptr,    *)
(* given as the item whose next field it points to (HEAD for &list->head). *)
(* The list owns its data (list->free is set).                             *)
(*                                                                         *)
(* Two history variables say what the list should be: seq, the items it    *)
(* links, and want, the data a sequence would hold after the same calls.   *)
(***************************************************************************)
EXTENDS ListReference, FiniteSets

CONSTANTS Node,        \* addresses of SListItems
          HEAD,        \* "ptr points to list->head"
          FREED,       \* what the fields of an item hold that is not allocated
          Keys,        \* what compare distinguishes
          SIZE_MAX,    \* largest value of a size_t
          MaxInserts   \* bound: objects inserted in a behaviour

ASSUME SListAssumption == /\ {NULL, HEAD, FREED} \cap Node = {}
                          /\ Keys \subseteq Nat \ {0} /\ NULL \notin Nat \X Keys
                          /\ SIZE_MAX \in Nat /\ MaxInserts \in Nat

VARIABLES alive,              \* between slist_init and slist_free
          next, data, heap,   \* the items
          head, tail, count,  \* the SList
          pc, op, key, item,  \* the call in progress and its arguments
          ptr, prev,          \* its local variables
          ret,                \* what the last call returned
          seq,                \* history: the linked items, in order
          want, wantRet,      \* history: the contents and result expected
          given,              \* history: number of objects accepted
          freed, popped       \* history: objects freed, objects handed back

list   == <<head, tail, count>>
nodes  == <<next, data, heap>>
locals == <<pc, op, key, item, ptr, prev>>
owners == <<given, freed, popped>>
spec   == <<want, wantRet>>
vars   == <<alive, nodes, list, locals, ret, seq, spec, owners>>

Contents == [i \in 1..Len(seq) |-> data[seq[i]]]
InList   == {seq[i] : i \in 1..Len(seq)}

\* *ptr
Cur == IF ptr = HEAD THEN head ELSE next[ptr]
\* *ptr = n, with the next field of m set to v in the same block.
Store(n, m, v) ==
  /\ head' = IF ptr = HEAD THEN n ELSE head
  /\ next' = IF ptr = HEAD THEN [next EXCEPT ![m] = v] ELSE [next EXCEPT ![m] = v, ![ptr] = n]
-----------------------------------------------------------------------------
\* slist_init: the structure is zeroed.
Init == /\ alive = TRUE
        /\ next = [n \in Node |-> FREED]
        /\ data = [n \in Node |-> FREED]
        /\ heap = {}
        /\ head = NULL /\ tail = NULL /\ count = 0
        /\ pc = "idle" /\ op = "none" /\ key = 0 /\ item = NULL
        /\ ptr = HEAD /\ prev = NULL
        /\ ret = NULL
        /\ seq = <<>>
        /\ want = <<>> /\ wantRet = NULL
        /\ given = 0 /\ freed = {} /\ popped = {}

\* A call that returns r in its first step.
AtOnce(r) == /\ alive
             /\ pc = "idle"
             /\ ret' = r
             /\ UNCHANGED locals

\* A call that enters the loop l with these arguments and ptr = &list->head.
Enter(l, o, k, n, p) == /\ alive
                        /\ pc = "idle"
                        /\ pc' = l
                        /\ op' = o
                        /\ key' = k
                        /\ item' = n
                        /\ ptr' = HEAD
                        /\ prev' = p
                        /\ ret' = NULL

\* The call in progress returns r, and its variables go out of scope.
Done(r) == /\ ret' = r
           /\ pc' = "idle" /\ op' = "none" /\ key' = 0 /\ item' = NULL
           /\ ptr' = HEAD /\ prev' = NULL

\* The next object that is inserted.
Object(k) == <<given + 1, k>>

\* _slist_item_new: a zeroed item from the pool or from malloc.
ItemNew(n, d) == /\ n \notin heap
                 /\ heap' = heap \cup {n}
                 /\ data' = [data EXCEPT ![n] = d]

\* The item n goes back to the pool, or to free.
Release(n) == /\ heap' = heap \ {n}
              /\ data' = [data EXCEPT ![n] = FREED]

\* _slist_item_free: the datum goes to list->free, the item to the pool.
ItemFree(n) == Release(n) /\ freed' = freed \cup Id(data[n])

\* Mutant: the limit is missed by one.
HasRoomForOneMore == count <= SIZE_MAX

\* list->count < SIZE_MAX, which every inserting function checks.
HasRoom == count < SIZE_MAX

\* Mutant: the first item is not made the tail.
AppendItemNoTail(n, d) ==
  /\ ItemNew(n, d)
  /\ IF head # NULL
       THEN next' = [next EXCEPT ![n] = NULL, ![tail] = n] /\ tail' = n /\ head' = head
       ELSE next' = [next EXCEPT ![n] = NULL] /\ head' = n /\ tail' = tail
  /\ count' = count + 1
  /\ seq' = Append(seq, n)

\* slist_append (queue_push) on a list that has room.
AppendItem(n, d) ==
  /\ ItemNew(n, d)
  /\ IF head # NULL
       THEN next' = [next EXCEPT ![n] = NULL, ![tail] = n] /\ head' = head
       ELSE next' = [next EXCEPT ![n] = NULL] /\ head' = n
  /\ tail' = n
  /\ count' = count + 1
  /\ seq' = Append(seq, n)

\* One more object is in the list.
Accept == /\ given < MaxInserts
          /\ given' = given + 1
          /\ UNCHANGED <<freed, popped>>

Append1(n, k) == /\ AtOnce(n)
                 /\ HasRoom
                 /\ AppendItem(n, Object(k))
                 /\ Accept
                 /\ want' = Append(want, Object(k))
                 /\ wantRet' = n
                 /\ UNCHANGED alive

\* slist_prepend (stack_push).
Prepend(n, k) == /\ AtOnce(n)
                 /\ HasRoom
                 /\ ItemNew(n, Object(k))
                 /\ tail' = IF tail = NULL THEN n ELSE tail
                 /\ next' = [next EXCEPT ![n] = head]
                 /\ head' = n
                 /\ count' = count + 1
                 /\ seq' = <<n>> \o seq
                 /\ Accept
                 /\ want' = <<Object(k)>> \o want
                 /\ wantRet' = n
                 /\ UNCHANGED alive

\* slist_insert_sorted: the list is empty or compare(list->tail->data, data) <= 0.
BecomesLast(k) == count # 0 => KeyOf(data[tail]) <= k

\* slist_insert_sorted on an empty list, or on one whose last item is not
\* greater: the new item becomes the last one.
InsertSortedLast(n, k) == /\ AtOnce(n)
                          /\ HasRoom
                          /\ BecomesLast(k)
                          /\ AppendItem(n, Object(k))
                          /\ Accept
                          /\ want' = SortedInsert(want, Object(k))
                          /\ wantRet' = n
                          /\ UNCHANGED alive

\* slist_insert_sorted otherwise: _slist_prepend_new_sorted creates the item
\* and looks for its place.
InsertSortedSearch(n, k) == /\ Enter("sorted", "insert_sorted", k, n, NULL)
                            /\ HasRoom
                            /\ ~BecomesLast(k)
                            /\ ItemNew(n, Object(k))
                            /\ next' = [next EXCEPT ![n] = NULL]
                            /\ Accept
                            /\ want' = SortedInsert(want, Object(k))
                            /\ wantRet' = n
                            /\ UNCHANGED <<alive, list, seq>>

\* The three inserting functions on a full list: nothing happens.
Refuse == /\ AtOnce(NULL)
          /\ ~HasRoom
          /\ wantRet' = NULL
          /\ UNCHANGED <<alive, nodes, list, seq, want, owners>>

\* Position in seq of the place ptr points to.
Place == IF ptr = HEAD THEN 1 ELSE 1 + IndexOf(seq, ptr)

\* Mutant: an item with an equal key is passed.
SortedHerePassEqual == KeyOf(data[Cur]) > key

\* _slist_prepend_new_sorted: compare((*ptr)->data, data) >= 0.
SortedHere == KeyOf(data[Cur]) >= key

\* _slist_prepend_new_sorted, one iteration: link the item in front of the
\* first one that is not smaller, or move on.  If the loop ran off the end the
\* item would be counted and not linked.
SortedStep == /\ pc = "sorted"
              /\ IF Cur = NULL
                   THEN /\ count' = count + 1
                        /\ Done(item)
                        /\ UNCHANGED <<next, head, seq>>
                   ELSE IF SortedHere
                     THEN /\ Store(item, item, Cur)
                          /\ count' = count + 1
                          /\ seq' = InsertBefore(seq, Place, item)
                          /\ Done(item)
                     ELSE /\ ptr' = Cur
                          /\ UNCHANGED <<next, head, count, seq, ret, pc, op, key, item, prev>>
              /\ UNCHANGED <<alive, data, heap, tail, spec, owners>>

\* slist_remove: the caller names an item of the list.
Remove(n) == /\ Enter("remove", "remove", 0, n, NULL)
             /\ n \in InList
             /\ want' = Without(want, IndexOf(seq, n))
             /\ wantRet' = NULL
             /\ UNCHANGED <<alive, nodes, list, seq, owners>>

\* slist_remove_by_data, for the first match or for all of them.
RemoveByData(o, k) == /\ Enter("remove_by_data", o, k, NULL, NULL)
                      /\ want' = IF o = "remove_all" THEN RemoveEvery(want, k)
                                                     ELSE RemoveFirst(want, k)
                      /\ wantRet' = NULL
                      /\ UNCHANGED <<alive, nodes, list, seq, owners>>

\* Unlink and free the item ptr points to; the tail moves back if it was last.
UnlinkCur == LET n == Cur
             IN  /\ tail' = IF next[n] = NULL THEN prev ELSE tail
                 /\ head' = IF ptr = HEAD THEN next[n] ELSE head
                 /\ next' = IF ptr = HEAD THEN [next EXCEPT ![n] = FREED]
                                       ELSE [next EXCEPT ![n] = FREED, ![ptr] = next[n]]
                 /\ ItemFree(n)
                 /\ count' = count - 1
                 /\ seq' = Without(seq, Place)

\* tail = *ptr; ptr = &(*ptr)->next.
MoveOn == /\ prev' = Cur
          /\ ptr' = Cur
          /\ UNCHANGED <<nodes, list, seq, freed, ret, pc, op, key, item>>

\* slist_remove, one iteration. Its caller passes an item of this list, so the
\* loop meets it before the end: the exit with *ptr = NULL is never taken.
RemoveStep == /\ pc = "remove"
              /\ \/ /\ Cur = item
                    /\ UnlinkCur
                    /\ Done(NULL)
                 \/ Cur # item /\ MoveOn
              /\ UNCHANGED <<alive, spec, given, popped>>

\* slist_remove_by_data, one iteration; after an unlink ptr stays where it is.
RemoveByDataStep ==
  /\ pc = "remove_by_data"
  /\ \/ /\ Cur = NULL
        /\ Done(NULL)
        /\ UNCHANGED <<nodes, list, seq, freed>>
     \/ /\ Cur # NULL
        /\ KeyOf(data[Cur]) = key
        /\ UnlinkCur
        /\ IF op = "remove_all" THEN UNCHANGED <<locals, ret>> ELSE Done(NULL)
     \/ /\ Cur # NULL
        /\ KeyOf(data[Cur]) # key
        /\ MoveOn
  /\ UNCHANGED <<alive, spec, given, popped>>

\* slist_pop, and stack_pop and queue_pop, which are slist_pop after a test of
\* the count: the datum goes back to the caller, the item to the pool.
Pop == /\ count # 0
       /\ AtOnce(data[head])
       /\ head' = next[head]
       /\ tail' = IF next[head] = NULL THEN NULL ELSE tail
       /\ Release(head)
       /\ next' = [next EXCEPT ![head] = FREED]
       /\ count' = count - 1
       /\ popped' = popped \cup Id(data[head])
       /\ seq' = Tail(seq)
       /\ want' = Tail(want)
       /\ wantRet' = Head(want)
       /\ UNCHANGED <<alive, given, freed>>

\* stack_pop on an empty list: false, and the result is NULL.
PopEmpty == /\ AtOnce(NULL)
            /\ count = 0
            /\ wantRet' = IF want = <<>> THEN NULL ELSE Head(want)
            /\ UNCHANGED <<alive, nodes, list, seq, want, owners>>

\* stack_head (queue_head): the datum of the first item.
StackHead == /\ AtOnce(IF head = NULL THEN NULL ELSE data[head])
             /\ wantRet' = IF want = <<>> THEN NULL ELSE Head(want)
             /\ UNCHANGED <<alive, nodes, list, seq, want, owners>>

\* slist_find and slist_contains: search from an item of the list, or from
\* the head (offset NULL).  prev holds the code's iter.
Find(offset, k) ==
  /\ offset \in InList \cup {NULL}
  /\ Enter("find", "find", k, NULL, IF offset # NULL THEN offset ELSE head)
  /\ LET from  == IF offset = NULL THEN 1 ELSE IndexOf(seq, offset)
         match == Matches(want, from, k)
     IN  wantRet' = IF match = {} THEN NULL ELSE seq[Least(match)]
  /\ UNCHANGED <<alive, nodes, list, seq, want, owners>>

\* _slist_find: iter = iter->next.
FindNext == next[prev]

\* _slist_find: the loop ends with a match or at the end of the list.
FindOver == prev # NULL => KeyOf(data[prev]) = key

\* _slist_find, one iteration.
FindStep == /\ pc = "find"
            /\ \/ FindOver /\ Done(prev)
               \/ /\ ~FindOver
                  /\ prev' = FindNext
                  /\ UNCHANGED <<pc, op, key, item, ptr, ret>>
            /\ UNCHANGED <<alive, nodes, list, seq, spec, owners>>

\* Mutant: the pointer to the freed datum stays in the item.
KeepDatum(n) == data' = data

\* slist_item_free_data: item->data = NULL.
ResetDatum(n) == data' = [data EXCEPT ![n] = NULL]

\* slist_item_free_data.
ItemFreeData(n) == /\ AtOnce(NULL)
                   /\ n \in InList
                   /\ freed' = freed \cup Id(data[n])
                   /\ ResetDatum(n)
                   /\ want' = [want EXCEPT ![IndexOf(seq, n)] = NULL]
                   /\ wantRet' = NULL
                   /\ UNCHANGED <<alive, next, heap, list, seq, given, popped>>

\* slist_item_set_data: a macro that overwrites the datum; the old one stays
\* with the caller.
ItemSetData(n, k) == /\ AtOnce(NULL)
                     /\ n \in InList
                     /\ given < MaxInserts
                     /\ given' = given + 1
                     /\ popped' = popped \cup Id(data[n])
                     /\ data' = [data EXCEPT ![n] = Object(k)]
                     /\ want' = [want EXCEPT ![IndexOf(seq, n)] = Object(k)]
                     /\ wantRet' = NULL
                     /\ UNCHANGED <<alive, next, heap, list, seq, freed>>

\* slist_clear and slist_free walk the list; prev holds the code's iter.
FreeAll(o) == /\ Enter("free", o, 0, NULL, head)
              /\ want' = <<>>
              /\ wantRet' = NULL
              /\ UNCHANGED <<alive, nodes, list, seq, owners>>

\* slist_free, one iteration: the successor is read before the item is freed.
FreeStep == /\ pc = "free"
            /\ prev # NULL
            /\ prev' = next[prev]
            /\ ItemFree(prev)
            /\ next' = [next EXCEPT ![prev] = FREED]
            /\ UNCHANGED <<alive, list, pc, op, key, item, ptr, ret,
                           seq, spec, given, popped>>

\* slist_clear resets the structure; after slist_free it is not used again
\* before slist_init.
FreeEnd == /\ pc = "free"
           /\ prev = NULL
           /\ Done(NULL)
           /\ seq' = <<>>
           /\ IF op = "clear"
                THEN head' = NULL /\ tail' = NULL /\ count' = 0 /\ alive' = TRUE
                ELSE alive' = FALSE /\ UNCHANGED list
           /\ UNCHANGED <<nodes, spec, owners>>

\* slist_init of a freed list.
Reinit == /\ ~alive
          /\ alive' = TRUE
          /\ head' = NULL /\ tail' = NULL /\ count' = 0
          /\ UNCHANGED <<nodes, locals, ret, seq, spec, owners>>

Call == \/ \E k \in Keys :
             \/ \E n \in Node : \/ Append1(n, k) \/ Prepend(n, k)
                                \/ InsertSortedLast(n, k) \/ InsertSortedSearch(n, k)
                                \/ Find(n, k) \/ ItemSetData(n, k)
             \/ \E o \in {"remove_first", "remove_all"} : RemoveByData(o, k)
             \/ Find(NULL, k)
        \/ \E n \in Node : Remove(n) \/ ItemFreeData(n)
        \/ Refuse \/ Pop \/ PopEmpty \/ StackHead
        \/ \E o \in {"clear", "free"} : FreeAll(o)
        \/ Reinit

LoopStep == \/ SortedStep \/ RemoveStep \/ RemoveByDataStep \/ FindStep
            \/ FreeStep \/ FreeEnd

Next == Call \/ LoopStep

Spec == Init /\ [][Next]_vars
-----------------------------------------------------------------------------
Datum == (Nat \X Keys) \cup {NULL}

TypeOK == /\ alive \in BOOLEAN
          /\ next \in [Node -> Node \cup {NULL, FREED}]
          /\ data \in [Node -> Datum \cup {FREED}]
          /\ heap \in SUBSET Node
          /\ head \in Node \cup {NULL} /\ tail \in Node \cup {NULL}
          /\ count \in 0..SIZE_MAX
          /\ pc \in {"idle", "sorted", "remove", "remove_by_data", "find", "free"}
          /\ key \in Keys \cup {0}
          /\ item \in Node \cup {NULL}
          /\ ptr \in Node \cup {HEAD}
          /\ prev \in Node \cup {NULL}
          /\ seq \in Seq(Node)
          /\ given \in 0..MaxInserts

\* head, tail, count and the next fields always describe one and the same
\* sequence of distinct allocated items, between the calls and at every
\* iteration of their loops: tail is the last item and nothing else, whichever
\* item was unlinked (the cases at slist.c:270, 306 and 336).  The count does
\* not exceed its limit.
WellLinked ==
  /\ TypeOK
  /\ alive =>
      /\ count = Len(seq)
      /\ head = IF seq = <<>> THEN NULL ELSE seq[1]
      /\ tail = IF seq = <<>> THEN NULL ELSE seq[Len(seq)]
      /\ \A i, j \in 1..Len(seq) : seq[i] = seq[j] => i = j
      /\ pc # "free" =>
           \A i \in 1..Len(seq) : next[seq[i]] = IF i = Len(seq) THEN NULL ELSE seq[i + 1]

\* Between calls the list holds, and the last call returned, what the same
\* calls give on a plain sequence.
MatchesReference == pc = "idle" => Contents = want /\ ret = wantRet

Held == UNION {Id(data[n]) : n \in InList}

\* Items and data have one owner: between calls the allocated items are those
\* in the list, and every object the list accepted is in the list, has been
\* freed, or has been handed back by a pop, and never two of these.
Ownership == pc = "idle" =>
  /\ heap = InList
  /\ Held \cup freed \cup popped = 1..given
  /\ Held \cap (freed \cup popped) = {}
  /\ freed \cap popped = {}
=============================================================================
