-------------------------------- MODULE Map --------------------------------
(***************************************************************************)
(* What the map containers promise (hashtable.h and assocarray.h declare   *)
(* the same functions, and test/test-map.m4 tests them by the same code):  *)
(* a partial function from keys to values, whose calls take effect at one  *)
(* instant, on the key they were given.                                    *)
(*                                                                         *)
(* Two objects can be the same key (two copies of a string); the map       *)
(* stores one of them.  freed is what a call passed to free_key and        *)
(* free_value: the map owns the key objects and the values it stores.      *)
(***************************************************************************)
EXTENDS Naturals, FiniteSets

CONSTANTS Key,       \* what compare_keys distinguishes
          Copy,      \* tells the objects apart that are the same key
          Value,     \* values, NULL among them
          NULL,
          Limit      \* the number of keys beyond which insertions fail

VARIABLES call,      \* the call in progress, or NULL
          map,       \* the stored key objects and values
          pair,      \* the key the last found pair refers to, or NULL
          todo,      \* keys the iterator has yet to visit, NULL without iterator
          ret,       \* what the last call returned
          freed      \* the objects it freed

mvars == <<call, map, pair, todo, ret, freed>>

Request == [op : {"set"}, key : Key, copy : Copy, value : Value, over : BOOLEAN]
           \cup [op : {"remove", "lookup", "exists"}, key : Key]

FreedKey(k) == {<<"key", k, map[k].copy>>}
FreedValue(k) == IF map[k].value = NULL THEN {} ELSE {<<"value", k, map[k].value>>}

Init == /\ call = NULL
        /\ map = [k \in {} |-> NULL]
        /\ pair = NULL
        /\ todo = NULL
        /\ ret = <<"none">>
        /\ freed = {}

\* A call that may change the map ends an iteration.
Call == /\ call = NULL
        /\ call' \in Request
        /\ todo' = IF call'.op = "set" THEN NULL ELSE todo
        /\ ret' = <<"none">> /\ freed' = {}
        /\ UNCHANGED <<map, pair>>

\* The call in progress is o and takes effect now, with this result.
Effect(o, r, f) == /\ call # NULL
                   /\ call.op = o
                   /\ call' = NULL
                   /\ ret' = r
                   /\ freed' = f

\* A change of the map may cost the pair its meaning, and ends an iteration.
Disturb == /\ pair' \in {pair, NULL}
           /\ todo' = NULL

SetNew == /\ call # NULL /\ call.key \notin DOMAIN map
          /\ Effect("set", <<"new">>, {})
          /\ map' = [k \in DOMAIN map \cup {call.key} |->
                       IF k = call.key THEN [copy |-> call.copy, value |-> call.value]
                                       ELSE map[k]]
          /\ Disturb

\* The stored key object is replaced, and freed, only if over is set.
SetReplace ==
  /\ call # NULL /\ call.key \in DOMAIN map
  /\ Effect("set", <<"replaced">>, FreedValue(call.key)
                               \cup (IF call.over THEN FreedKey(call.key) ELSE {}))
  /\ map' = [map EXCEPT ![call.key] =
                [copy |-> IF call.over THEN call.copy ELSE @.copy, value |-> call.value]]
  /\ Disturb

SetFail == /\ call # NULL /\ call.key \notin DOMAIN map
           /\ Cardinality(DOMAIN map) = Limit
           /\ Effect("set", <<"failed">>, {})
           /\ UNCHANGED map
           /\ Disturb

Remove == /\ call # NULL
          /\ IF call.key \in DOMAIN map
               THEN /\ Effect("remove", <<"none">>, FreedKey(call.key) \cup FreedValue(call.key))
                    /\ map' = [k \in DOMAIN map \ {call.key} |-> map[k]]
                    /\ Disturb
               ELSE /\ Effect("remove", <<"none">>, {})
                    /\ UNCHANGED <<map, pair, todo>>

Lookup == /\ call # NULL
          /\ IF call.key \in DOMAIN map
               THEN Effect("lookup", <<"pair">>, {}) /\ pair' = call.key
               ELSE Effect("lookup", <<NULL>>, {}) /\ UNCHANGED pair
          /\ UNCHANGED <<map, todo>>

Exists == /\ call # NULL
          /\ Effect("exists", IF call.key \in DOMAIN map THEN <<"true">> ELSE <<"false">>, {})
          /\ UNCHANGED <<map, pair, todo>>

\* The pair shows the key and the value the map has now.
PairGet == /\ call = NULL
           /\ pair # NULL
           /\ ret' = <<"shown", pair, map[pair]>>
           /\ freed' = {}
           /\ UNCHANGED <<call, map, pair, todo>>

PairSetValue == /\ call = NULL
                /\ pair # NULL
                /\ \E v \in Value : map' = [map EXCEPT ![pair].value = v]
                /\ ret' = <<"none">>
                /\ freed' = FreedValue(pair)
                /\ UNCHANGED <<call, pair, todo>>

Clear == /\ call = NULL
         /\ map' = [k \in {} |-> NULL]
         /\ pair' = NULL /\ todo' = NULL
         /\ ret' = <<"none">>
         /\ freed' = UNION {FreedKey(k) \cup FreedValue(k) : k \in DOMAIN map}
         /\ UNCHANGED call

IterInit == /\ call = NULL
            /\ todo' = DOMAIN map
            /\ ret' = <<"none">> /\ freed' = {}
            /\ UNCHANGED <<call, map, pair>>

\* The iterator visits every key once, in an order of its own, and then says
\* that it is at the end.
IterNext == /\ call = NULL
            /\ todo # NULL
            /\ \/ \E k \in todo : todo' = todo \ {k} /\ ret' = <<"shown", k, map[k]>>
               \/ todo = {} /\ ret' = <<"end">> /\ UNCHANGED todo
            /\ freed' = {}
            /\ UNCHANGED <<call, map, pair>>

Next == \/ Call
        \/ SetNew \/ SetReplace \/ SetFail \/ Remove \/ Lookup \/ Exists
        \/ PairGet \/ PairSetValue \/ Clear
        \/ IterInit \/ IterNext

Spec == Init /\ [][Next]_mvars
=============================================================================
