----------------------------- MODULE AssocArray -----------------------------
(***************************************************************************)
(* assocarray.c: a map kept in two parallel arrays sorted by key, with     *)
(* binary search, the pair of the last lookup and an iterator.             *)
(*                                                                         *)
(* keys and values are the arrays up to count, size what is allocated.     *)
(* The binary search takes one step per iteration.  Offsets count from 0   *)
(* as in the code: keys[i + 1] is the code's keys[i].                      *)
(***************************************************************************)
EXTENDS Integers, Sequences, FiniteSets

CONSTANTS Key,           \* keys, ordered as numbers
          Copy, Value, NULL,
          Offered,       \* the keys and values callers pass to assoc_array_set
          InitialSize,   \* array->size after assoc_array_init: 8
          ASSOC_ARRAY_MAX_SIZE

ASSUME ArrayAssumption == /\ Key \subseteq Int
                          /\ NULL \notin Key
                          /\ Offered \subseteq [key : Key, copy : Copy, value : Value]
                          /\ ASSOC_ARRAY_MAX_SIZE \in Nat
                          /\ InitialSize \in 1..ASSOC_ARRAY_MAX_SIZE

VARIABLES keys, values, size,   \* the AssocArray
          pair,                 \* array->pair.offset
          iter,                 \* offset of the iterator
          pc, req,              \* the call in progress and its arguments
          begin, end,           \* _assoc_array_binary_search: the part to search,
          index, cmp,           \* the key compared last, and the result
          ret, freed,           \* what the last call returned and freed
          found,                \* history: the key the pair stands for, or NULL
          iterating             \* history: the iterator is in use and not stale

array  == <<keys, values, size>>
search == <<begin, end, index, cmp>>
client == <<pair, iter, found, iterating>>
vars   == <<array, search, client, pc, req, ret, freed>>

count == Len(keys)   \* array->count

\* Two objects are the same key if compare_keys says so.
KeyObject == [key : Key, copy : Copy]

\* The arguments of the calls that search.
SetRequest == {[op |-> "set", key |-> e.key, copy |-> e.copy, value |-> e.value, over |-> o] :
                 e \in Offered, o \in BOOLEAN}
Request == SetRequest \cup [op : {"remove", "lookup", "exists"}, key : Key]

\* NULL is no call and no set of keys.
ASSUME NullAssumption == NULL \notin Request /\ \A S \in SUBSET Key : S # NULL

\* The search variables between calls.
NoSearch == begin' = 0 /\ end' = -1 /\ index' = 0 /\ cmp' = 0

Init == /\ keys = <<>> /\ values = <<>>
        /\ size = InitialSize
        /\ pair = 0
        /\ iter = -1
        /\ pc = "idle" /\ req = NULL
        /\ begin = 0 /\ end = -1 /\ index = 0 /\ cmp = 0
        /\ ret = <<"none">> /\ freed = {}
        /\ found = NULL
        /\ iterating = FALSE

\* Modifying the array makes an iterator stale.
EndIteration == iterating' = FALSE /\ iter' = -1

\* assoc_array_set, _remove, _lookup and _key_exists begin with the search.
\* A key object that is to be stored is the caller's own.
Call(r) == /\ pc = "idle"
           /\ r.op = "set" => \A i \in 1..count : keys[i] # [key |-> r.key, copy |-> r.copy]
           /\ pc' = "search"
           /\ req' = r
           /\ begin' = 0
           /\ end' = count - 1
           /\ index' = 0
           /\ cmp' = 0
           /\ ret' = <<"none">> /\ freed' = {}
           /\ IF r.op = "set" THEN EndIteration ELSE UNCHANGED <<iter, iterating>>
           /\ UNCHANGED <<array, pair, found>>

Compare(a, b) == IF a > b THEN 1 ELSE IF a < b THEN -1 ELSE 0

\* Mutant: the middle is compared again and again on the right side.
BeginAt(m) == m

\* _assoc_array_binary_search: begin = *index + 1.
BeginAfter(m) == m + 1

\* _assoc_array_binary_search, one iteration.  The case len == 1 of the code
\* does what the loop does.
SearchStep == /\ pc = "search"
              /\ begin <= end
              /\ LET m == (begin + end) \div 2
                     c == Compare(req.key, keys[m + 1].key)
                 IN  /\ index' = m
                     /\ cmp' = c
                     /\ begin' = IF c > 0 THEN BeginAfter(m) ELSE begin
                     /\ end' = IF c < 0 THEN m - 1 ELSE end
                     /\ pc' = IF c = 0 THEN "hit" ELSE "search"
              /\ UNCHANGED <<array, client, req, ret, freed>>

\* The search has found the key at index, or has ended without finding it.
Hit(o) == pc = "hit" /\ req.op = o
Miss(o) == pc = "search" /\ begin > end /\ req.op = o

Return(r, f) == /\ pc' = "idle"
                /\ req' = NULL
                /\ NoSearch
                /\ ret' = r
                /\ freed' = f

FreedKey(i) == {<<"key", keys[i].key, keys[i].copy>>}
FreedValue(i) == IF values[i] = NULL THEN {} ELSE {<<"value", keys[i].key, values[i]>>}

\* Mutant: the key is freed and stays in the array.
StoredKeyFreed == keys[index + 1]

\* _assoc_array_replace: which key object is in the array afterwards.
StoredKey == IF req.over THEN [key |-> req.key, copy |-> req.copy] ELSE keys[index + 1]

\* assoc_array_set of a key that exists: _assoc_array_replace.
SetReplace == /\ Hit("set")
              /\ keys' = [keys EXCEPT ![index + 1] = StoredKey]
              /\ values' = [values EXCEPT ![index + 1] = req.value]
              /\ Return(<<"replaced">>, FreedValue(index + 1)
                                    \cup (IF req.over THEN FreedKey(index + 1) ELSE {}))
              /\ UNCHANGED <<size, client>>

\* Mutant: the keys behind the place are not moved.
OverwrittenAt(s, o, e) == [i \in 1..(Len(s) + 1) |-> IF i <= Len(s) /\ i # o + 1 THEN s[i] ELSE e]

\* _assoc_array_insert_before_offset and _assoc_array_insert_after_offset: the
\* rest is moved up by memmove, and e is at offset o.
InsertedAt(s, o, e) == [i \in 1..(Len(s) + 1) |->
                          IF i <= o THEN s[i] ELSE IF i = o + 1 THEN e ELSE s[i - 1]]

\* Mutant: the place is cleared, and nothing moved down.
ClearedAt(s, o) == [s EXCEPT ![o + 1] = NULL]

\* assoc_array_remove: the rest is moved down by memmove.
RemovedAt(s, o) == [i \in 1..(Len(s) - 1) |-> IF i <= o THEN s[i] ELSE s[i + 1]]

\* Mutant: the new size is not looked at again near the limit.
GrownOnce == IF count = size /\ size <= ASSOC_ARRAY_MAX_SIZE \div 2 THEN 2 * size ELSE size

\* _assoc_array_resize_if_necessary.
Grown == IF count < size THEN size
         ELSE IF size > ASSOC_ARRAY_MAX_SIZE \div 2 THEN ASSOC_ARRAY_MAX_SIZE
         ELSE 2 * size

\* Mutant: a key that is greater than all others goes in front of the last one.
PlaceBefore == index

\* assoc_array_set: before the key compared last if the new one is smaller,
\* after it otherwise; the first key goes to offset 0.
Place == IF count = 0 \/ cmp < 0 THEN index ELSE index + 1

\* Inserting or removing k moves what the pair's offset stands for.
Shifts(k) == found # NULL /\ k <= found

Limited == count = size /\ size = ASSOC_ARRAY_MAX_SIZE

\* assoc_array_set of a new key: _assoc_array_insert_first,
\* _assoc_array_insert_before_offset and _assoc_array_insert_after_offset.
SetNew == /\ Miss("set")
          /\ ~Limited
          /\ size' = Grown
          /\ keys' = InsertedAt(keys, Place, [key |-> req.key, copy |-> req.copy])
          /\ values' = InsertedAt(values, Place, req.value)
          /\ Return(<<"new">>, {})
          /\ found' = IF Shifts(req.key) THEN NULL ELSE found
          /\ UNCHANGED <<pair, iter, iterating>>

\* _assoc_array_resize_if_necessary: the array exceeds its limit, abort().
SetAbort == /\ Miss("set")
            /\ Limited
            /\ pc' = "aborted"
            /\ UNCHANGED <<array, client, search, req, ret, freed>>

\* assoc_array_remove of a key that exists.
Remove == /\ Hit("remove")
          /\ keys' = RemovedAt(keys, index)
          /\ values' = RemovedAt(values, index)
          /\ Return(<<"none">>, FreedKey(index + 1) \cup FreedValue(index + 1))
          /\ found' = IF Shifts(req.key) THEN NULL ELSE found
          /\ EndIteration
          /\ UNCHANGED <<size, pair>>

\* assoc_array_remove of a key that does not exist.
RemoveMissing == /\ Miss("remove")
                 /\ Return(<<"none">>, {})
                 /\ UNCHANGED <<array, client>>

\* Mutant: where the search began last, not where it found the key.
FoundAtBegin == begin

\* assoc_array_lookup: array->pair.offset = offset.
FoundOffset == index

\* assoc_array_lookup.
Lookup == \/ /\ Hit("lookup")
             /\ pair' = FoundOffset
             /\ found' = req.key
             /\ Return(<<"pair">>, {})
             /\ UNCHANGED <<array, iter, iterating>>
          \/ /\ Miss("lookup")
             /\ Return(<<NULL>>, {})
             /\ UNCHANGED <<array, client>>

\* assoc_array_key_exists.
Exists == /\ \/ Hit("exists") /\ Return(<<"true">>, {})
             \/ Miss("exists") /\ Return(<<"false">>, {})
          /\ UNCHANGED <<array, client>>

\* What a caller sees of the element at index i.
Shown(i) == <<"shown", keys[i].key, [copy |-> keys[i].copy, value |-> values[i]]>>

\* assoc_array_pair_get_key and assoc_array_pair_get_value, on a pair that is
\* not stale.
PairGet == /\ pc = "idle"
           /\ found # NULL
           /\ ret' = Shown(pair + 1)
           /\ freed' = {}
           /\ UNCHANGED <<array, search, client, pc, req>>

\* assoc_array_pair_set_value.
PairSetValue(v) == /\ pc = "idle"
                   /\ found # NULL
                   /\ freed' = FreedValue(pair + 1)
                   /\ values' = [values EXCEPT ![pair + 1] = v]
                   /\ ret' = <<"none">>
                   /\ UNCHANGED <<keys, size, search, client, pc, req>>

\* assoc_array_clear keeps the memory; assoc_array_free followed by
\* assoc_array_init starts with the initial size.
Clear(s) == /\ pc = "idle"
            /\ keys' = <<>> /\ values' = <<>>
            /\ size' = s
            /\ freed' = UNION {FreedKey(i) \cup FreedValue(i) : i \in 1..count}
            /\ ret' = <<"none">>
            /\ found' = NULL
            /\ EndIteration
            /\ UNCHANGED <<pair, search, pc, req>>

\* assoc_array_iter_init.
IterInit == /\ pc = "idle"
            /\ iter' = -1
            /\ iterating' = TRUE
            /\ ret' = <<"none">> /\ freed' = {}
            /\ UNCHANGED <<array, search, pair, found, pc, req>>

\* assoc_array_iter_next, and the key and value it has reached.  After the end
\* it may be called again (here once).
IterNext == /\ pc = "idle"
            /\ iterating
            /\ iter <= count
            /\ iter' = iter + 1
            /\ ret' = IF iter + 1 < count THEN Shown(iter + 2) ELSE <<"end">>
            /\ freed' = {}
            /\ UNCHANGED <<array, search, pair, found, iterating, pc, req>>

Next == \/ \E r \in Request : Call(r)
        \/ SearchStep
        \/ SetReplace \/ SetNew \/ SetAbort
        \/ Remove \/ RemoveMissing
        \/ Lookup \/ Exists
        \/ PairGet \/ \E e \in Offered : e.key = found /\ PairSetValue(e.value)
        \/ Clear(size) \/ Clear(InitialSize)
        \/ IterInit \/ IterNext

Spec == Init /\ [][Next]_vars
-----------------------------------------------------------------------------
TypeOK == /\ keys \in Seq(KeyObject) /\ values \in Seq(Value)
          /\ size \in Nat \ {0}
          /\ pair \in Nat
          /\ iter \in Int
          /\ pc \in {"idle", "search", "hit", "aborted"}
          /\ req \in Request \cup {NULL}
          /\ begin \in Int /\ end \in Int /\ index \in Nat /\ cmp \in {-1, 0, 1}
          /\ found \in Key \cup {NULL}
          /\ iterating \in BOOLEAN

\* The two arrays have the same length and fit into their memory, also where
\* the size is set to the limit instead of being doubled.
FitsArray == /\ Len(values) = count
             /\ count <= size
             /\ size <= ASSOC_ARRAY_MAX_SIZE

\* The keys are strictly increasing.
Sorted == \A i, j \in 1..count : i < j => keys[i].key < keys[j].key

\* Wherever keys were inserted and removed by the memmoves, the arrays stay
\* parallel, within their memory and sorted.
ArrayShape == TypeOK /\ FitsArray /\ Sorted

\* At every iteration the keys to the left of the part searched are smaller
\* and those to its right greater than the key; when the part is empty, the
\* place next to the key compared last is where the key belongs.
SearchBrackets ==
  pc = "search" =>
    /\ begin >= 0 /\ end < count /\ begin <= end + 1
    /\ \A i \in 1..count : /\ i - 1 < begin => keys[i].key < req.key
                           /\ i - 1 > end => keys[i].key > req.key
    /\ begin > end => Place = begin

\* Every iteration that does not find the key leaves less to search, so that
\* the search ends: begin and end move past the key compared.
SearchEnds == [][pc = "search" /\ pc' = "search" => end' - begin' < end - begin]_vars

\* A pair stays what the lookup found until a key that is not greater is
\* inserted or removed: greater keys leave its offset alone.
PairRefers == found # NULL => pair < count /\ keys[pair + 1].key = found

\* The map two arrays stand for, and the keys an iterator has yet to visit.
MapOf(ks, vs) == [k \in {ks[i].key : i \in 1..Len(ks)} |->
                    LET i == CHOOSE j \in 1..Len(ks) : ks[j].key = k
                    IN  [copy |-> ks[i].copy, value |-> vs[i]]]
TodoOf(ks, it) == {ks[i].key : i \in {j \in 1..Len(ks) : j > it + 1}}

AbsMap == MapOf(keys, values)
AbsTodo == IF iterating THEN TodoOf(keys, iter) ELSE NULL

Abs == INSTANCE Map WITH
  Limit <- ASSOC_ARRAY_MAX_SIZE,
  call  <- req,
  map   <- AbsMap,
  pair  <- found,
  todo  <- AbsTodo

\* The array is a map: every call takes effect on the key it was given, and on
\* no other, frees what the map owned and no longer stores, and the iterator
\* visits every key once.
IsMap == Abs!Spec
=============================================================================
