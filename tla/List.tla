-------------------------------- MODULE List --------------------------------
(***************************************************************************)
(* list.c: a doubly linked list with head, tail and count.                 *)
(*                                                                         *)
(* The heap is modelled node by node: next, prev and data are the fields   *)
(* of the ListItems, heap the set of items that are allocated.  Functions  *)
(* with a loop take one step per iteration.  The list owns its data        *)
(* (list->free is set).                                                    *)
(*                                                                         *)
(* History variables say what the list should be: seq, the items it links, *)
(* want, the data a sequence would hold after the same calls, and allowed, *)
(* the results the last call may have.                                     *)
(***************************************************************************)
EXTENDS ListReference, FiniteSets

CONSTANTS Node,        \* addresses of ListItems
          FREED,       \* what the fields of an item hold that is not allocated
          Keys,        \* what compare distinguishes
          SIZE_MAX,    \* largest value of a size_t
          MaxInserts   \* bound: objects inserted in a behaviour

ASSUME ListAssumption == /\ {NULL, FREED} \cap Node = {}
                         /\ Keys \subseteq Nat \ {0} /\ NULL \notin Nat \X Keys
                         /\ SIZE_MAX \in Nat /\ MaxInserts \in Nat

VARIABLES alive,                   \* between list_init and list_free
          next, prev, data, heap,  \* the items
          head, tail, count,       \* the List
          pc, op, key, iter, end,  \* the call in progress and its variables
          ret,                     \* what the last call returned
          seq,                     \* history: the linked items, in order
          want, allowed,           \* history: the contents and results expected
          given,                   \* history: number of objects accepted
          freed, popped            \* history: objects freed, objects handed back

list   == <<head, tail, count>>
nodes  == <<next, prev, data, heap>>
locals == <<pc, op, key, iter, end>>
owners == <<given, freed, popped>>
spec   == <<want, allowed>>
vars   == <<alive, nodes, list, locals, ret, seq, spec, owners>>

Contents == [i \in 1..Len(seq) |-> data[seq[i]]]
InList   == {seq[i] : i \in 1..Len(seq)}

\* list_init: the structure is zeroed.
Init == /\ alive = TRUE
        /\ next = [n \in Node |-> FREED]
        /\ prev = [n \in Node |-> FREED]
        /\ data = [n \in Node |-> FREED]
        /\ heap = {}
        /\ head = NULL /\ tail = NULL /\ count = 0
        /\ pc = "idle" /\ op = "none" /\ key = 0 /\ iter = NULL /\ end = NULL
        /\ ret = NULL
        /\ seq = <<>>
        /\ want = <<>> /\ allowed = {NULL}
        /\ given = 0 /\ freed = {} /\ popped = {}

\* A call that returns r in its first step.
AtOnce(r) == /\ alive
             /\ pc = "idle"
             /\ ret' = r
             /\ UNCHANGED locals

\* A call that enters the loop l.
Enter(l, o, k, i, e) == /\ alive
                        /\ pc = "idle"
                        /\ pc' = l
                        /\ op' = o
                        /\ key' = k
                        /\ iter' = i
                        /\ end' = e
                        /\ ret' = NULL

\* The call in progress returns r, and its variables go out of scope.
Done(r) == /\ ret' = r
           /\ pc' = "idle" /\ op' = "none" /\ key' = 0 /\ iter' = NULL /\ end' = NULL

\* The next object that is inserted.
Object(k) == <<given + 1, k>>

\* A field of the item m is set to v, if there is such an item.
Set(f, m, v) == IF m = NULL THEN f ELSE [f EXCEPT ![m] = v]

\* _list_item_new: a zeroed item from the pool or from malloc.
ItemNew(n, d) == /\ n \notin heap
                 /\ heap' = heap \cup {n}
                 /\ data' = [data EXCEPT ![n] = d]

\* Mutant: the limit is missed by one.
HasRoomForOneMore == count <= SIZE_MAX

\* list->count < SIZE_MAX, which every inserting function checks.
HasRoom == count < SIZE_MAX

\* One more object is in the list.
Accept == /\ given < MaxInserts
          /\ given' = given + 1
          /\ UNCHANGED <<freed, popped>>

\* list_append on a list that has room; list_insert_sorted does the same to
\* an empty list.
AppendItem(n, d) == /\ ItemNew(n, d)
                    /\ next' = [Set(next, tail, n) EXCEPT ![n] = NULL]
                    /\ prev' = [prev EXCEPT ![n] = tail]
                    /\ head' = IF head = NULL THEN n ELSE head
                    /\ tail' = n
                    /\ count' = count + 1
                    /\ seq' = Append(seq, n)

\* list_prepend on a list that has room.
PrependItem(n, d) == /\ ItemNew(n, d)
                     /\ next' = [next EXCEPT ![n] = head]
                     /\ prev' = [Set(prev, head, n) EXCEPT ![n] = NULL]
                     /\ tail' = IF head = NULL THEN n ELSE tail
                     /\ head' = n
                     /\ count' = count + 1
                     /\ seq' = <<n>> \o seq

\* list_append.
AppendCall(n, k) == /\ AtOnce(n)
                    /\ HasRoom
                    /\ AppendItem(n, Object(k))
                    /\ Accept
                    /\ want' = Append(want, Object(k))
                    /\ allowed' = {n}
                    /\ UNCHANGED alive

\* list_prepend.
Prepend(n, k) == /\ AtOnce(n)
                 /\ HasRoom
                 /\ PrependItem(n, Object(k))
                 /\ Accept
                 /\ want' = <<Object(k)>> \o want
                 /\ allowed' = {n}
                 /\ UNCHANGED alive

\* list_insert_sorted: the list is empty or compare(list->tail->data, data) <= 0.
BecomesLast(k) == count # 0 => KeyOf(data[tail]) <= k

\* _list_prepend_new_sorted, first iteration: compare(list->head->data, data) >= 0.
BecomesFirst(k) == ~BecomesLast(k) /\ KeyOf(data[head]) >= k

\* list_insert_sorted in front of the head: *ptr is list->head, whose prev
\* field (NULL) becomes that of the new item.
LinkFirst(n, d) == /\ ItemNew(n, d)
                   /\ next' = [next EXCEPT ![n] = head]
                   /\ prev' = [prev EXCEPT ![n] = prev[head], ![head] = n]
                   /\ head' = n
                   /\ count' = count + 1
                   /\ seq' = <<n>> \o seq
                   /\ UNCHANGED tail

\* list_insert_sorted when the item goes to one of the ends.
InsertSorted(n, k) == /\ AtOnce(n)
                      /\ HasRoom
                      /\ \/ BecomesLast(k) /\ AppendItem(n, Object(k))
                         \/ BecomesFirst(k) /\ LinkFirst(n, Object(k))
                      /\ Accept
                      /\ want' = SortedInsert(want, Object(k))
                      /\ allowed' = {n}
                      /\ UNCHANGED alive

\* list_insert_sorted when the item goes between two others: the loop moves on
\* to &(*ptr)->prev->next with *ptr = list->head. The prev field of the head is
\* NULL, so the next test of *ptr reads at a null address and the process ends.
InsertSortedMiddle(n, k) == /\ alive
                            /\ pc = "idle"
                            /\ HasRoom
                            /\ ~BecomesLast(k) /\ ~BecomesFirst(k)
                            /\ prev[head] = NULL
                            /\ ItemNew(n, Object(k))
                            /\ next' = [next EXCEPT ![n] = NULL]
                            /\ prev' = [prev EXCEPT ![n] = NULL]
                            /\ Accept
                            /\ pc' = "crashed"
                            /\ want' = SortedInsert(want, Object(k))
                            /\ allowed' = {n}
                            /\ UNCHANGED <<alive, list, op, key, iter, end, ret, seq>>

\* The three inserting functions on a full list: nothing happens.
Refuse == /\ AtOnce(NULL)
          /\ ~HasRoom
          /\ allowed' = {NULL}
          /\ UNCHANGED <<alive, nodes, list, seq, want, owners>>

\* The item n goes back to the pool, or to free.
Release(n) == /\ heap' = heap \ {n}
              /\ data' = [data EXCEPT ![n] = FREED]

\* Mutant: the tail is not moved back when the last item goes.
UnlinkNotTail(n) == /\ head' = IF prev[n] = NULL THEN next[n] ELSE head
                    /\ tail' = IF next[n] = NULL /\ prev[n] = NULL THEN NULL ELSE tail
                    /\ next' = [Set(next, prev[n], next[n]) EXCEPT ![n] = FREED]
                    /\ prev' = [Set(prev, next[n], prev[n]) EXCEPT ![n] = FREED]

\* _list_detach and the end of the item's life: both neighbours, or the list's
\* own ends where there is none, take over its links.
Unlink(n) == /\ head' = IF prev[n] = NULL THEN next[n] ELSE head
             /\ tail' = IF next[n] = NULL THEN prev[n] ELSE tail
             /\ next' = [Set(next, prev[n], next[n]) EXCEPT ![n] = FREED]
             /\ prev' = [Set(prev, next[n], prev[n]) EXCEPT ![n] = FREED]

\* list_remove: detach the item, free its datum and the item.
RemoveItem(n) == /\ Unlink(n)
                 /\ Release(n)
                 /\ freed' = freed \cup Id(data[n])
                 /\ count' = count - 1
                 /\ seq' = Without(seq, IndexOf(seq, n))

\* list_remove: the caller names an item of the list.
Remove(n) == /\ AtOnce(NULL)
             /\ n \in InList
             /\ RemoveItem(n)
             /\ want' = Without(want, IndexOf(seq, n))
             /\ allowed' = {NULL}
             /\ UNCHANGED <<alive, given, popped>>

\* list_remove_by_data, for the first match or for all of them.
RemoveByData(o, k) == /\ Enter("remove_by_data", o, k, head, NULL)
                      /\ want' = IF o = "remove_all" THEN RemoveEvery(want, k)
                                                     ELSE RemoveFirst(want, k)
                      /\ allowed' = {NULL}
                      /\ UNCHANGED <<alive, nodes, list, seq, owners>>

\* list_remove_by_data, one iteration: the successor is read before the item
\* is freed.
RemoveByDataStep ==
  /\ pc = "remove_by_data"
  /\ \/ /\ iter = NULL
        /\ Done(NULL)
        /\ UNCHANGED <<nodes, list, seq, freed>>
     \/ /\ iter # NULL
        /\ KeyOf(data[iter]) = key
        /\ RemoveItem(iter)
        /\ IF op = "remove_all"
             THEN iter' = next[iter] /\ UNCHANGED <<pc, op, key, end, ret>>
             ELSE Done(NULL)
     \/ /\ iter # NULL
        /\ KeyOf(data[iter]) # key
        /\ iter' = next[iter]
        /\ UNCHANGED <<nodes, list, seq, freed, pc, op, key, end, ret>>
  /\ UNCHANGED <<alive, spec, given, popped>>

\* list_pop: the datum goes back to the caller, the item to the pool.
Pop == /\ head # NULL
       /\ AtOnce(data[head])
       /\ head' = next[head]
       /\ tail' = IF next[head] = NULL THEN NULL ELSE tail
       /\ prev' = [Set(prev, next[head], NULL) EXCEPT ![head] = FREED]
       /\ next' = [next EXCEPT ![head] = FREED]
       /\ Release(head)
       /\ count' = count - 1
       /\ popped' = popped \cup Id(data[head])
       /\ seq' = Tail(seq)
       /\ want' = Tail(want)
       /\ allowed' = {Head(want)}
       /\ UNCHANGED <<alive, given, freed>>

\* list_pop on an empty list.
PopEmpty == /\ AtOnce(NULL)
            /\ head = NULL
            /\ allowed' = {IF want = <<>> THEN NULL ELSE Head(want)}
            /\ UNCHANGED <<alive, nodes, list, seq, want, owners>>

\* list_find and list_contains: search from an item of the list, or from the
\* head (offset NULL).  Any item with the key at or behind the offset is right,
\* and NULL only if there is none.
Find(offset, k) ==
  /\ offset \in InList \cup {NULL}
  /\ Enter("find", "find", k, IF offset # NULL THEN offset ELSE head, tail)
  /\ LET from  == IF offset = NULL THEN 1 ELSE IndexOf(seq, offset)
         match == Matches(want, from, k)
     IN  allowed' = IF match = {} THEN {NULL} ELSE {seq[i] : i \in match}
  /\ UNCHANGED <<alive, nodes, list, seq, want, owners>>

\* Mutant: the search stops one item too early.
MeetEarly == next[iter] = prev[end]

\* _list_find: begin = begin->next; begin == end.
Meet == next[iter] = end

\* _list_find, one iteration: iter is the code's begin.  The first test that
\* succeeds ends the search.
FindStep ==
  /\ pc = "find"
  /\ \/ iter = NULL /\ Done(NULL)
     \/ /\ iter # NULL
        /\ KeyOf(data[iter]) = key
        /\ Done(iter)
     \/ /\ iter # NULL
        /\ KeyOf(data[iter]) # key
        /\ KeyOf(data[end]) = key
        /\ Done(end)
     \/ /\ iter # NULL
        /\ KeyOf(data[iter]) # key /\ KeyOf(data[end]) # key
        /\ IF Meet
             THEN Done(NULL)
             ELSE iter' = next[iter] /\ end' = prev[end] /\ UNCHANGED <<pc, op, key, ret>>
  /\ UNCHANGED <<alive, nodes, list, seq, spec, owners>>

\* Mutant: the pointer to the freed datum stays in the item.
KeepDatum(n) == data' = data

\* list_item_free_data: item->data = NULL.
ResetDatum(n) == data' = [data EXCEPT ![n] = NULL]

\* list_item_free_data.
ItemFreeData(n) == /\ AtOnce(NULL)
                   /\ n \in InList
                   /\ freed' = freed \cup Id(data[n])
                   /\ ResetDatum(n)
                   /\ want' = [want EXCEPT ![IndexOf(seq, n)] = NULL]
                   /\ allowed' = {NULL}
                   /\ UNCHANGED <<alive, next, prev, heap, list, seq, given, popped>>

\* list_item_set_data: a macro that overwrites the datum; the old one stays
\* with the caller.
ItemSetData(n, k) == /\ AtOnce(NULL)
                     /\ n \in InList
                     /\ given < MaxInserts
                     /\ given' = given + 1
                     /\ popped' = popped \cup Id(data[n])
                     /\ data' = [data EXCEPT ![n] = Object(k)]
                     /\ want' = [want EXCEPT ![IndexOf(seq, n)] = Object(k)]
                     /\ allowed' = {NULL}
                     /\ UNCHANGED <<alive, next, prev, heap, list, seq, freed>>

\* list_clear and list_free walk the list.
FreeAll(o) == /\ Enter("free", o, 0, head, NULL)
              /\ want' = <<>>
              /\ allowed' = {NULL}
              /\ UNCHANGED <<alive, nodes, list, seq, owners>>

\* list_free, one iteration: the successor is read before the item is freed.
FreeStep == /\ pc = "free"
            /\ iter # NULL
            /\ iter' = next[iter]
            /\ Release(iter)
            /\ freed' = freed \cup Id(data[iter])
            /\ next' = [next EXCEPT ![iter] = FREED]
            /\ prev' = [prev EXCEPT ![iter] = FREED]
            /\ UNCHANGED <<alive, list, pc, op, key, end, ret, seq, spec, given, popped>>

\* list_clear resets the structure; after list_free it is not used again
\* before list_init.
FreeEnd == /\ pc = "free"
           /\ iter = NULL
           /\ Done(NULL)
           /\ seq' = <<>>
           /\ IF op = "clear"
                THEN head' = NULL /\ tail' = NULL /\ count' = 0 /\ alive' = TRUE
                ELSE alive' = FALSE /\ UNCHANGED list
           /\ UNCHANGED <<nodes, spec, owners>>

\* list_init of a freed list.
Reinit == /\ ~alive
          /\ alive' = TRUE
          /\ head' = NULL /\ tail' = NULL /\ count' = 0
          /\ UNCHANGED <<nodes, locals, ret, seq, spec, owners>>

Call == \/ \E n \in Node, k \in Keys : \/ AppendCall(n, k) \/ Prepend(n, k)
                                       \/ InsertSorted(n, k) \/ InsertSortedMiddle(n, k)
                                       \/ ItemSetData(n, k)
        \/ \E n \in Node \cup {NULL}, k \in Keys : Find(n, k)
        \/ \E o \in {"remove_first", "remove_all"}, k \in Keys : RemoveByData(o, k)
        \/ \E n \in Node : Remove(n) \/ ItemFreeData(n)
        \/ Refuse \/ Pop \/ PopEmpty
        \/ \E o \in {"clear", "free"} : FreeAll(o)
        \/ Reinit

LoopStep == RemoveByDataStep \/ FindStep \/ FreeStep \/ FreeEnd

Next == Call \/ LoopStep

Spec == Init /\ [][Next]_vars
-----------------------------------------------------------------------------
Datum == (Nat \X Keys) \cup {NULL}

TypeOK == /\ alive \in BOOLEAN
          /\ next \in [Node -> Node \cup {NULL, FREED}]
          /\ prev \in [Node -> Node \cup {NULL, FREED}]
          /\ data \in [Node -> Datum \cup {FREED}]
          /\ heap \in SUBSET Node
          /\ head \in Node \cup {NULL} /\ tail \in Node \cup {NULL}
          /\ count \in 0..SIZE_MAX
          /\ pc \in {"idle", "remove_by_data", "find", "free", "crashed"}
          /\ key \in Keys \cup {0}
          /\ iter \in Node \cup {NULL} /\ end \in Node \cup {NULL}
          /\ seq \in Seq(Node)
          /\ given \in 0..MaxInserts

\* Both chains describe the same sequence of distinct allocated items, read
\* from head along next and from tail along prev, between the calls and at
\* every iteration of their loops (the four cases of _list_detach, list.c:271
\* and 276, and the ends in list_pop and list_prepend).  The count does not
\* exceed its limit.
WellLinked ==
  /\ TypeOK
  /\ alive =>
      /\ count = Len(seq)
      /\ head = IF seq = <<>> THEN NULL ELSE seq[1]
      /\ tail = IF seq = <<>> THEN NULL ELSE seq[Len(seq)]
      /\ Ext!IsInjective(seq)
      /\ pc # "free" =>
           \A i \in 1..Len(seq) :
              /\ next[seq[i]] = IF i = Len(seq) THEN NULL ELSE seq[i + 1]
              /\ prev[seq[i]] = IF i = 1 THEN NULL ELSE seq[i - 1]

\* Between calls the list holds what the same calls give on a plain sequence,
\* and the last call returned a right result.  For the search from both ends
\* (list.c:367-387) that is: it finds an item if there is one at or behind the
\* offset, and never one in front of it.
MatchesReference == pc = "idle" => Contents = want /\ ret \in allowed

Held == UNION {Id(data[n]) : n \in InList}

\* Items and data have one owner: between calls the allocated items are those
\* in the list, and every object the list accepted is in the list, has been
\* freed, or is with the caller again, and never two of these.
Ownership == pc = "idle" =>
  /\ heap = InList
  /\ Held \cup freed \cup popped = 1..given
  /\ Held \cap (freed \cup popped) = {}
  /\ freed \cap popped = {}

\* What list.h says of list_insert_sorted: it puts the datum where compare
\* says. Whether the call returned or not, after it a sorted list holds the
\* datum at its place.
InsertedInPlace == pc \in {"idle", "crashed"} /\ IsSorted(want) => Contents = want
=============================================================================
