-------------------------- MODULE AssocArrayProofs --------------------------
(***************************************************************************)
(* Proofs about AssocArray for any set of integer keys, any offered        *)
(* elements and any limit of the array.                                    *)
(***************************************************************************)
EXTENDS AssocArray, SequenceTheorems, TLAPS

\* What the calls know on their way through the search: the arguments they
\* were given, that the key at index is theirs once it was found, and that
\* nobody iterates while a key is set.
CallInv == /\ pc = "idle" => req = NULL
           /\ pc # "idle" => req \in Request
           /\ pc = "hit" => index < count /\ keys[index + 1].key = req.key
           /\ pc # "idle" /\ req.op = "set" => ~iterating
           /\ iter >= -1

\* The inductive invariant.
IndInv == ArrayShape /\ SearchBrackets /\ PairRefers /\ CallInv

\* A sequence given by its elements.
LEMMA SeqOf ==
  ASSUME NEW S, NEW n \in Nat, NEW s \in [1..n -> S]
  PROVE  s \in Seq(S) /\ Len(s) = n
<1>1. s \in Seq(S)
  BY IsASeq
<1>2. Len(s) \in Nat /\ DOMAIN s = 1..Len(s) /\ DOMAIN s = 1..n
  BY <1>1, LenProperties
<1> QED BY <1>1, <1>2

\* The memmove of an insertion keeps what is in front of the place and moves
\* the rest up by one.
LEMMA Inserting ==
  ASSUME NEW S, NEW s \in Seq(S), NEW o \in 0..Len(s), NEW e \in S,
         NEW r, r = InsertedAt(s, o, e)
  PROVE  /\ r \in Seq(S)
         /\ Len(r) = Len(s) + 1
         /\ \A i \in 1..o : r[i] = s[i]
         /\ r[o + 1] = e
         /\ \A i \in (o + 2)..(Len(s) + 1) : r[i] = s[i - 1]
<1>1. Len(s) \in Nat /\ \A i \in 1..Len(s) : s[i] \in S
  BY LenProperties, ElementOfSeq
<1>2. \A i \in 1..(Len(s) + 1) :
         r[i] = IF i <= o THEN s[i] ELSE IF i = o + 1 THEN e ELSE s[i - 1]
  BY DEF InsertedAt
<1>3. r \in [1..(Len(s) + 1) -> S]
  <2>1. ASSUME NEW i \in 1..(Len(s) + 1)
        PROVE  (IF i <= o THEN s[i] ELSE IF i = o + 1 THEN e ELSE s[i - 1]) \in S
    <3>1. CASE i <= o
      BY <3>1, <1>1
    <3>2. CASE i = o + 1
      BY <3>2, <1>1
    <3>3. CASE ~(i <= o) /\ i # o + 1
      <4>1. i - 1 \in 1..Len(s)
        BY <3>3, <1>1
      <4> QED BY <4>1, <3>3, <1>1
    <3> QED BY <3>1, <3>2, <3>3
  <2> QED BY <2>1 DEF InsertedAt
<1>4. r \in Seq(S) /\ Len(r) = Len(s) + 1
  BY <1>1, <1>3, SeqOf
<1>5. \A i \in 1..o : r[i] = s[i]
  BY <1>1, <1>2
<1>6. r[o + 1] = e
  BY <1>1, <1>2
<1>7. \A i \in (o + 2)..(Len(s) + 1) : r[i] = s[i - 1]
  BY <1>1, <1>2
<1> QED BY <1>4, <1>5, <1>6, <1>7

\* The memmove of a removal keeps what is in front of the place and moves the
\* rest down by one.
LEMMA Removing ==
  ASSUME NEW S, NEW s \in Seq(S), NEW o \in 0..(Len(s) - 1),
         NEW r, r = RemovedAt(s, o)
  PROVE  /\ r \in Seq(S)
         /\ Len(r) = Len(s) - 1
         /\ \A i \in 1..o : r[i] = s[i]
         /\ \A i \in (o + 1)..(Len(s) - 1) : r[i] = s[i + 1]
<1>1. Len(s) \in Nat /\ Len(s) - 1 \in Nat /\ \A i \in 1..Len(s) : s[i] \in S
  BY LenProperties, ElementOfSeq
<1>2. \A i \in 1..(Len(s) - 1) : r[i] = IF i <= o THEN s[i] ELSE s[i + 1]
  BY DEF RemovedAt
<1>3. r \in [1..(Len(s) - 1) -> S]
  <2>1. ASSUME NEW i \in 1..(Len(s) - 1) PROVE (IF i <= o THEN s[i] ELSE s[i + 1]) \in S
    <3>1. i \in 1..Len(s) /\ i + 1 \in 1..Len(s)
      BY <1>1
    <3> QED BY <3>1, <1>1
  <2> QED BY <2>1 DEF RemovedAt
<1>4. r \in Seq(S) /\ Len(r) = Len(s) - 1
  BY <1>1, <1>3, SeqOf
<1>5. \A i \in 1..o : r[i] = s[i]
  BY <1>1, <1>2
<1>6. \A i \in (o + 1)..(Len(s) - 1) : r[i] = s[i + 1]
  BY <1>1, <1>2
<1> QED BY <1>4, <1>5, <1>6
-----------------------------------------------------------------------------
USE ArrayAssumption

\* What the requests hold.
LEMMA Requests ==
  ASSUME NEW r \in Request
  PROVE  /\ r.key \in Key
         /\ r.op \in {"set", "remove", "lookup", "exists"}
         /\ r.op = "set" => r.copy \in Copy /\ r.value \in Value /\ r.over \in BOOLEAN
<1>1. CASE r \in SetRequest
  <2>1. PICK e \in Offered, o \in BOOLEAN :
          r = [op |-> "set", key |-> e.key, copy |-> e.copy, value |-> e.value, over |-> o]
    BY <1>1 DEF SetRequest
  <2>2. e \in [key : Key, copy : Copy, value : Value]
    OBVIOUS
  <2> QED BY <2>1, <2>2
<1>2. CASE r \in [op : {"remove", "lookup", "exists"}, key : Key]
  BY <1>2
<1> QED BY <1>1, <1>2 DEF Request

\* The keys and the length of the arrays are those of a state with types.
LEMMA Elements ==
  ASSUME ArrayShape
  PROVE  /\ count \in Nat /\ Len(values) = count
         /\ \A i \in 1..count : /\ keys[i] \in KeyObject /\ keys[i].key \in Int
                                /\ values[i] \in Value
<1>1. count \in Nat /\ Len(values) = count
  BY LenProperties DEF ArrayShape, TypeOK, FitsArray, count
<1>2. \A i \in 1..count : keys[i] \in KeyObject /\ values[i] \in Value
  BY <1>1, ElementOfSeq DEF ArrayShape, TypeOK, count
<1>3. \A i \in 1..count : keys[i].key \in Int
  BY <1>2 DEF KeyObject
<1> QED BY <1>1, <1>2, <1>3

LEMMA InitInv == Init => IndInv
<1> SUFFICES ASSUME Init PROVE IndInv
  OBVIOUS
<1>1. keys = <<>> /\ values = <<>> /\ Len(keys) = 0 /\ Len(values) = 0
  BY DEF Init
<1>2. ArrayShape
  <2>1. keys \in Seq(KeyObject) /\ values \in Seq(Value)
    BY <1>1, EmptySeq
  <2>2. /\ size \in Nat \ {0} /\ pair \in Nat /\ iter \in Int /\ begin \in Int /\ end \in Int
        /\ index \in Nat /\ cmp \in {-1, 0, 1}
    BY DEF Init
  <2>3. TypeOK
    BY <2>1, <2>2 DEF Init, TypeOK
  <2>4. FitsArray /\ Sorted
    BY <1>1 DEF Init, FitsArray, Sorted, count
  <2> QED BY <2>3, <2>4 DEF ArrayShape
<1>3. SearchBrackets /\ PairRefers /\ CallInv
  BY DEF Init, SearchBrackets, PairRefers, CallInv
<1> QED BY <1>2, <1>3 DEF IndInv

\* A search begins with the whole array.
LEMMA CallKeepsInv ==
  ASSUME IndInv, NEW r \in Request, Call(r)
  PROVE  IndInv'
<1>0. count \in Nat /\ count' = count
  BY Elements DEF IndInv, Call, array, count
<1>1. ArrayShape'
  <2>1. iterating' \in BOOLEAN /\ iter' \in Int
    <3>1. CASE r.op = "set"
      <4>1. iterating' = FALSE /\ iter' = -1
        BY <3>1 DEF Call, EndIteration
      <4>2. iterating' \in BOOLEAN
        BY <4>1, Zenon
      <4> QED BY <4>1, <4>2
    <3>2. CASE r.op # "set"
      BY <3>2 DEF Call, IndInv, ArrayShape, TypeOK
    <3> QED BY <3>1, <3>2
  <2>2. TypeOK'
    BY <1>0, <2>1 DEF IndInv, ArrayShape, TypeOK, Call, array
  <2>3. FitsArray' /\ Sorted'
    BY <1>0 DEF IndInv, ArrayShape, FitsArray, Sorted, Call, array
  <2> QED BY <2>2, <2>3 DEF ArrayShape
<1>2. SearchBrackets'
  BY <1>0 DEF IndInv, Call, SearchBrackets, array, Place
<1>3. PairRefers'
  BY <1>0 DEF IndInv, Call, PairRefers, array
<1>4. CallInv'
  <2>1. CASE r.op = "set"
    BY <2>1 DEF Call, CallInv, EndIteration
  <2>2. CASE r.op # "set"
    BY <2>2 DEF IndInv, Call, CallInv
  <2> QED BY <2>1, <2>2
<1> QED BY <1>1, <1>2, <1>3, <1>4 DEF IndInv

\* One iteration: the middle lies between begin and end, and the order of the
\* keys carries the comparison to all keys on its side.
LEMMA SearchKeepsInv ==
  ASSUME IndInv, SearchStep
  PROVE  IndInv' /\ (pc' = "search" => end' - begin' < end - begin)
<1> DEFINE m == (begin + end) \div 2
           c == Compare(req.key, keys[m + 1].key)
<1>0. /\ count \in Nat /\ count' = count
      /\ begin \in Int /\ end \in Int /\ begin >= 0 /\ begin <= end /\ end < count
      /\ req \in Request /\ req.key \in Int
      /\ \A i \in 1..count : keys[i].key \in Int
      /\ req' = req /\ keys' = keys
  BY Elements, Requests
     DEF IndInv, SearchStep, SearchBrackets, ArrayShape, TypeOK, CallInv, array, count
<1>1. /\ m \in Int /\ begin <= m /\ m <= end /\ m + 1 \in 1..count
  BY <1>0
<1>2. /\ index' = m /\ cmp' = c
      /\ begin' = IF c > 0 THEN m + 1 ELSE begin
      /\ end' = IF c < 0 THEN m - 1 ELSE end
      /\ pc' = IF c = 0 THEN "hit" ELSE "search"
  BY DEF SearchStep, BeginAfter
<1>3. \/ c = 1 /\ req.key > keys[m + 1].key
      \/ c = -1 /\ req.key < keys[m + 1].key
      \/ c = 0 /\ req.key = keys[m + 1].key
  BY <1>0, <1>1 DEF Compare
<1>4. /\ \A i \in 1..count : i < m + 1 => keys[i].key < keys[m + 1].key
      /\ \A i \in 1..count : i > m + 1 => keys[i].key > keys[m + 1].key
  BY <1>1 DEF IndInv, ArrayShape, Sorted
<1>5. \A i \in 1..count : /\ i - 1 < begin => keys[i].key < req.key
                          /\ i - 1 > end => keys[i].key > req.key
  BY DEF IndInv, SearchBrackets, SearchStep
<1> HIDE DEF m, c
<1>6. ArrayShape'
  <2>1. /\ index' \in Nat /\ cmp' \in {-1, 0, 1} /\ begin' \in Int /\ end' \in Int
        /\ pc' \in {"idle", "search", "hit", "aborted"}
    BY <1>0, <1>1, <1>2, <1>3
  <2>2. /\ keys' = keys /\ values' = values /\ size' = size /\ pair' = pair /\ iter' = iter
        /\ req' = req /\ found' = found /\ iterating' = iterating
    BY DEF SearchStep, array, client
  <2>3. TypeOK'
    BY <2>1, <2>2 DEF IndInv, ArrayShape, TypeOK
  <2>4. FitsArray' /\ Sorted'
    BY <2>2 DEF IndInv, ArrayShape, FitsArray, Sorted, count
  <2> QED BY <2>3, <2>4 DEF ArrayShape
<1>7. SearchBrackets'
  <2>1. CASE c = 1
    <3>1. \A i \in 1..count : i - 1 < m + 1 => keys[i].key < req.key
      BY <2>1, <1>0, <1>1, <1>3, <1>4
    <3>2. Place' = m + 1
      BY <2>1, <1>0, <1>1, <1>2 DEF Place
    <3> QED BY <2>1, <3>1, <3>2, <1>0, <1>1, <1>2, <1>5 DEF SearchBrackets
  <2>2. CASE c = -1
    <3>1. \A i \in 1..count : i - 1 > m - 1 => keys[i].key > req.key
      BY <2>2, <1>0, <1>1, <1>3, <1>4
    <3>2. Place' = m
      BY <2>2, <1>0, <1>1, <1>2 DEF Place
    <3> QED BY <2>2, <3>1, <3>2, <1>0, <1>1, <1>2, <1>5 DEF SearchBrackets
  <2>3. CASE c = 0
    BY <2>3, <1>2 DEF SearchBrackets
  <2> QED BY <2>1, <2>2, <2>3, <1>3
<1>8. PairRefers'
  BY <1>0 DEF IndInv, SearchStep, PairRefers, client
<1>9. CallInv'
  BY <1>0, <1>1, <1>2, <1>3 DEF IndInv, SearchStep, client, CallInv
<1>10. pc' = "search" => end' - begin' < end - begin
  BY <1>0, <1>1, <1>2, <1>3
<1> QED BY <1>6, <1>7, <1>8, <1>9, <1>10 DEF IndInv

\* assoc_array_set of a key that is there: the same key stays at its place.
LEMMA ReplaceKeepsInv ==
  ASSUME IndInv, SetReplace
  PROVE  IndInv'
<1> DEFINE p == index + 1
<1>0. /\ count \in Nat /\ Len(values) = count
      /\ req \in Request /\ req.op = "set" /\ req.key \in Key /\ req.copy \in Copy
      /\ req.value \in Value
      /\ p \in 1..count /\ keys[p].key = req.key /\ keys[p] \in KeyObject
      /\ keys \in Seq(KeyObject) /\ values \in Seq(Value)
  BY Elements, Requests
     DEF IndInv, SetReplace, Hit, CallInv, ArrayShape, TypeOK
<1>1. StoredKey \in KeyObject /\ StoredKey.key = keys[p].key
  BY <1>0 DEF StoredKey, KeyObject
<1>2. keys' = [keys EXCEPT ![p] = StoredKey] /\ values' = [values EXCEPT ![p] = req.value]
  BY DEF SetReplace
<1> HIDE DEF p
<1>3. /\ keys' \in Seq(KeyObject) /\ values' \in Seq(Value)
      /\ count' = count /\ Len(values') = count
      /\ \A i \in 1..count : keys'[i].key = keys[i].key
  <2>1. keys' \in Seq(KeyObject) /\ Len(keys') = Len(keys)
    BY <1>0, <1>1, <1>2, ExceptSeq DEF count
  <2>2. values' \in Seq(Value) /\ Len(values') = Len(values)
    BY <1>0, <1>2, ExceptSeq DEF count
  <2>3. DOMAIN keys = 1..count
    BY <1>0, LenProperties DEF count
  <2>4. \A i \in 1..count : keys'[i].key = keys[i].key
    BY <1>0, <1>1, <1>2, <2>3
  <2> QED BY <1>0, <2>1, <2>2, <2>4 DEF count
<1>4. ArrayShape'
  BY <1>0, <1>3 DEF IndInv, SetReplace, ArrayShape, TypeOK, FitsArray, Sorted, Return, NoSearch, client
<1>5. PairRefers'
  BY <1>0, <1>3, <1>4 DEF IndInv, ArrayShape, TypeOK, SetReplace, PairRefers, client
<1>6. SearchBrackets' /\ CallInv'
  BY DEF IndInv, SetReplace, Return, client, SearchBrackets, CallInv
<1> QED BY <1>4, <1>5, <1>6 DEF IndInv

\* The place of a key that was not found: smaller keys are in front of it,
\* greater ones behind it.
LEMMA MissPlace ==
  ASSUME IndInv, pc = "search", begin > end
  PROVE  /\ Place \in 0..count
         /\ \A i \in 1..Place : keys[i].key < req.key
         /\ \A i \in (Place + 1)..count : keys[i].key > req.key
<1>1. count \in Nat /\ begin \in Int /\ end \in Int
  BY Elements DEF IndInv, ArrayShape, TypeOK
<1>2. Place = begin /\ begin = end + 1 /\ begin >= 0 /\ end < count
  BY <1>1 DEF IndInv, SearchBrackets
<1>3. \A i \in 1..count : /\ i - 1 < begin => keys[i].key < req.key
                          /\ i - 1 > end => keys[i].key > req.key
  BY DEF IndInv, SearchBrackets
<1> HIDE DEF Place
<1>4. \A i \in 1..Place : i \in 1..count /\ i - 1 < begin
  BY <1>1, <1>2
<1>5. \A i \in (Place + 1)..count : i \in 1..count /\ i - 1 > end
  BY <1>1, <1>2
<1> QED BY <1>1, <1>2, <1>3, <1>4, <1>5

\* Growth makes room for one more element and respects the limit.
LEMMA GrownFits ==
  ASSUME ArrayShape, ~Limited
  PROVE  Grown \in Nat \ {0} /\ count + 1 <= Grown /\ Grown <= ASSOC_ARRAY_MAX_SIZE
<1>1. /\ count \in Nat /\ size \in Nat \ {0} /\ count <= size /\ size <= ASSOC_ARRAY_MAX_SIZE
      /\ ASSOC_ARRAY_MAX_SIZE \in Nat
      /\ ~(count = size /\ size = ASSOC_ARRAY_MAX_SIZE)
  BY Elements DEF ArrayShape, TypeOK, FitsArray, Limited
<1>2. CASE count < size
  BY <1>1, <1>2 DEF Grown
<1>3. CASE count = size /\ size > ASSOC_ARRAY_MAX_SIZE \div 2
  BY <1>1, <1>3 DEF Grown
<1>4. CASE count = size /\ ~(size > ASSOC_ARRAY_MAX_SIZE \div 2)
  <2>1. 2 * size <= ASSOC_ARRAY_MAX_SIZE /\ 2 * size \in Nat \ {0} /\ count + 1 <= 2 * size
    BY <1>1, <1>4
  <2> QED BY <2>1, <1>4, <1>1 DEF Grown
<1> QED BY <1>1, <1>2, <1>3, <1>4

\* assoc_array_set of a new key: it goes between the smaller and the greater
\* ones, and moves only greater ones.
LEMMA NewKeepsInv ==
  ASSUME IndInv, SetNew
  PROVE  IndInv'
<1>a. PICK o : o = Place
  OBVIOUS
<1>b. PICK e : e = [key |-> req.key, copy |-> req.copy]
  OBVIOUS
<1>0. /\ count \in Nat /\ Len(values) = count
      /\ req \in Request /\ req.key \in Key /\ req.key \in Int /\ req.copy \in Copy
      /\ req.value \in Value
      /\ keys \in Seq(KeyObject) /\ values \in Seq(Value)
      /\ \A i \in 1..count : keys[i].key \in Int
      /\ e \in KeyObject /\ e.key = req.key
  BY <1>b, Elements, Requests
     DEF IndInv, SetNew, Miss, CallInv, ArrayShape, TypeOK, KeyObject
<1>1. /\ o \in 0..count
      /\ \A i \in 1..o : keys[i].key < req.key
      /\ \A i \in (o + 1)..count : keys[i].key > req.key
  BY <1>a, MissPlace DEF SetNew, Miss
<1>2. keys' = InsertedAt(keys, o, e) /\ values' = InsertedAt(values, o, req.value)
  BY <1>a, <1>b DEF SetNew
<1>3. /\ keys' \in Seq(KeyObject) /\ count' = count + 1
      /\ \A i \in 1..o : keys'[i] = keys[i]
      /\ keys'[o + 1] = e
      /\ \A i \in (o + 2)..(count + 1) : keys'[i] = keys[i - 1]
  <2>1. o \in 0..Len(keys)
    BY <1>1 DEF count
  <2>2. keys \in Seq(KeyObject) /\ e \in KeyObject /\ keys' = InsertedAt(keys, o, e)
    BY <1>0, <1>2
  <2>3. keys' \in Seq(KeyObject) /\ Len(keys') = Len(keys) + 1
    BY <2>1, <2>2, Inserting
  <2>4. \A i \in 1..o : keys'[i] = keys[i]
    BY <2>1, <2>2, Inserting
  <2>5. keys'[o + 1] = e
    BY <2>1, <2>2, Inserting
  <2>6. \A i \in (o + 2)..(Len(keys) + 1) : keys'[i] = keys[i - 1]
    BY <2>1, <2>2, Inserting
  <2> QED BY <2>3, <2>4, <2>5, <2>6 DEF count
<1>4. values' \in Seq(Value) /\ Len(values') = count + 1
  <2>1. o \in 0..Len(values)
    BY <1>0, <1>1
  <2>2. values \in Seq(Value) /\ req.value \in Value
    BY <1>0
  <2>3. values' \in Seq(Value) /\ Len(values') = Len(values) + 1
    BY <2>1, <2>2, <1>2, Inserting
  <2> QED BY <2>3, <1>0
<1>5. Sorted'
  <2> SUFFICES ASSUME NEW i \in 1..(count + 1), NEW j \in 1..(count + 1), i < j
               PROVE  keys'[i].key < keys'[j].key
    BY <1>3 DEF Sorted
  <2>0. \A k, l \in 1..count : k < l => keys[k].key < keys[l].key
    BY DEF IndInv, ArrayShape, Sorted
  <2>1. CASE j <= o
    <3>1. i \in 1..o /\ j \in 1..o /\ i \in 1..count /\ j \in 1..count
      BY <2>1, <1>0, <1>1
    <3> QED BY <3>1, <2>0, <1>3
  <2>2. CASE j = o + 1
    <3>1. i \in 1..o
      BY <2>2, <1>0, <1>1
    <3> QED BY <3>1, <2>2, <1>0, <1>1, <1>3
  <2>3. CASE j > o + 1 /\ i <= o
    <3>1. i \in 1..o /\ j \in (o + 2)..(count + 1) /\ i \in 1..count /\ j - 1 \in 1..count /\ i < j - 1
      BY <2>3, <1>0, <1>1
    <3> QED BY <3>1, <2>0, <1>3
  <2>4. CASE j > o + 1 /\ i = o + 1
    <3>1. j \in (o + 2)..(count + 1) /\ j - 1 \in (o + 1)..count
      BY <2>4, <1>0, <1>1
    <3>2. keys'[j].key > req.key /\ keys[j - 1].key \in Int /\ keys'[j] = keys[j - 1]
      BY <3>1, <1>0, <1>1, <1>3
    <3> QED BY <3>2, <2>4, <1>0, <1>3
  <2>5. CASE i > o + 1
    <3>1. /\ i \in (o + 2)..(count + 1) /\ j \in (o + 2)..(count + 1)
          /\ i - 1 \in 1..count /\ j - 1 \in 1..count /\ i - 1 < j - 1
      BY <2>5, <1>0, <1>1
    <3> QED BY <3>1, <2>0, <1>3
  <2> QED BY <2>1, <2>2, <2>3, <2>4, <2>5, <1>0, <1>1
<1>6. ArrayShape'
  <2>1. /\ size' \in Nat \ {0} /\ count' <= size' /\ size' <= ASSOC_ARRAY_MAX_SIZE
    BY <1>3, GrownFits DEF IndInv, SetNew
  <2>2. TypeOK'
    BY <2>1, <1>3, <1>4 DEF IndInv, SetNew, ArrayShape, TypeOK, Return, NoSearch
  <2> QED BY <2>1, <2>2, <1>3, <1>4, <1>5 DEF ArrayShape, FitsArray
<1>7. PairRefers'
  <2> SUFFICES ASSUME found' # NULL PROVE pair < count + 1 /\ keys'[pair + 1].key = found
    BY <1>3 DEF SetNew, PairRefers
  <2>1. found # NULL /\ found \in Int /\ ~(req.key <= found)
    BY DEF IndInv, ArrayShape, TypeOK, SetNew, Shifts
  <2>2. pair \in Nat /\ pair < count /\ keys[pair + 1].key = found
    BY <2>1 DEF IndInv, ArrayShape, TypeOK, PairRefers
  <2>3. pair + 1 \in 1..count
    BY <2>2, <1>0
  <2>4. pair + 1 \in 1..o
    BY <2>1, <2>2, <2>3, <1>0, <1>1
  <2> QED BY <2>2, <2>4, <1>0, <1>3
<1>8. SearchBrackets' /\ CallInv'
  BY DEF IndInv, SetNew, Return, SearchBrackets, CallInv
<1> QED BY <1>6, <1>7, <1>8 DEF IndInv

\* assoc_array_remove: greater keys move down, and the others stay.
LEMMA RemoveKeepsInv ==
  ASSUME IndInv, Remove
  PROVE  IndInv'
<1>0. /\ count \in Nat /\ Len(values) = count
      /\ req \in Request /\ req.key \in Int
      /\ index \in 0..(count - 1) /\ keys[index + 1].key = req.key
      /\ keys \in Seq(KeyObject) /\ values \in Seq(Value)
      /\ \A i \in 1..count : keys[i].key \in Int
      /\ keys' = RemovedAt(keys, index) /\ values' = RemovedAt(values, index)
  BY Elements, Requests DEF IndInv, Remove, Hit, CallInv, ArrayShape, TypeOK
<1>1. /\ keys' \in Seq(KeyObject) /\ count' = count - 1
      /\ \A i \in 1..index : keys'[i] = keys[i]
      /\ \A i \in (index + 1)..(count - 1) : keys'[i] = keys[i + 1]
  BY <1>0, Removing DEF count
<1>2. values' \in Seq(Value) /\ Len(values') = count - 1
  BY <1>0, Removing
<1>3. Sorted'
  <2> SUFFICES ASSUME NEW i \in 1..(count - 1), NEW j \in 1..(count - 1), i < j
               PROVE  keys'[i].key < keys'[j].key
    BY <1>1 DEF Sorted
  <2>0. \A k, l \in 1..count : k < l => keys[k].key < keys[l].key
    BY DEF IndInv, ArrayShape, Sorted
  <2>1. CASE j <= index
    <3>1. i \in 1..index /\ j \in 1..index /\ i \in 1..count /\ j \in 1..count
      BY <2>1, <1>0
    <3> QED BY <3>1, <2>0, <1>1
  <2>2. CASE j > index /\ i <= index
    <3>1. i \in 1..index /\ j \in (index + 1)..(count - 1) /\ i \in 1..count /\ j + 1 \in 1..count /\ i < j + 1
      BY <2>2, <1>0
    <3> QED BY <3>1, <2>0, <1>1
  <2>3. CASE i > index
    <3>1. /\ i \in (index + 1)..(count - 1) /\ j \in (index + 1)..(count - 1)
          /\ i + 1 \in 1..count /\ j + 1 \in 1..count /\ i + 1 < j + 1
      BY <2>3, <1>0
    <3> QED BY <3>1, <2>0, <1>1
  <2> QED BY <2>1, <2>2, <2>3, <1>0
<1>4. ArrayShape'
  <2>1. iterating' = FALSE /\ iter' = -1
    BY DEF Remove, EndIteration
  <2>2. iterating' \in BOOLEAN
    BY <2>1, Zenon
  <2>3. TypeOK'
    BY <2>1, <2>2, <1>1, <1>2 DEF IndInv, Remove, ArrayShape, TypeOK, Return, NoSearch
  <2>4. FitsArray'
    BY <1>0, <1>1, <1>2 DEF IndInv, ArrayShape, TypeOK, FitsArray, Remove
  <2> QED BY <2>3, <2>4, <1>3 DEF ArrayShape
<1>5. PairRefers'
  <2> SUFFICES ASSUME found' # NULL PROVE pair < count - 1 /\ keys'[pair + 1].key = found
    BY <1>1 DEF Remove, PairRefers
  <2>1. found # NULL /\ found \in Int /\ ~(req.key <= found)
    BY DEF IndInv, ArrayShape, TypeOK, Remove, Shifts
  <2>2. pair \in Nat /\ pair < count /\ keys[pair + 1].key = found
    BY <2>1 DEF IndInv, ArrayShape, TypeOK, PairRefers
  <2>3. pair + 1 \in 1..count /\ index + 1 \in 1..count
    BY <2>2, <1>0
  <2>4. pair < index
    <3> SUFFICES ASSUME pair >= index PROVE FALSE
      BY <2>2, <1>0
    <3>1. CASE pair = index
      BY <3>1, <2>1, <2>2, <1>0
    <3>2. CASE pair > index
      <4>1. keys[index + 1].key < keys[pair + 1].key
        <5>1. index + 1 < pair + 1
          BY <3>2, <2>2, <1>0
        <5> QED BY <5>1, <2>3 DEF IndInv, ArrayShape, Sorted
      <4> QED BY <4>1, <2>1, <2>2, <1>0
    <3> QED BY <3>1, <3>2, <2>2, <1>0
  <2>5. pair + 1 \in 1..index
    BY <2>2, <2>4, <1>0
  <2> QED BY <2>2, <2>4, <2>5, <1>0, <1>1
<1>6. SearchBrackets' /\ CallInv'
  BY DEF Remove, Return, EndIteration, SearchBrackets, CallInv
<1> QED BY <1>4, <1>5, <1>6 DEF IndInv

\* The other steps leave the keys alone, or empty the array.
LEMMA OthersKeepInv ==
  ASSUME IndInv,
         \/ SetAbort \/ RemoveMissing \/ Lookup \/ Exists
         \/ PairGet \/ (\E e \in Offered : e.key = found /\ PairSetValue(e.value))
         \/ Clear(size) \/ Clear(InitialSize)
         \/ IterInit \/ IterNext
         \/ UNCHANGED vars
  PROVE  IndInv'
<1>0. count \in Nat
  BY Elements DEF IndInv
<1>1. CASE SetAbort
  BY <1>1 DEF SetAbort, Miss, IndInv, ArrayShape, TypeOK, FitsArray, Sorted, SearchBrackets,
              PairRefers, CallInv, array, client, search, count
<1>2. CASE RemoveMissing \/ Exists
  BY <1>2 DEF RemoveMissing, Exists, Return, NoSearch, IndInv, ArrayShape, TypeOK,
              FitsArray, Sorted, SearchBrackets, PairRefers, CallInv, array, client, count
<1>3. CASE Lookup
  <2>1. keys' = keys /\ values' = values /\ size' = size /\ iter' = iter /\ iterating' = iterating
    BY <1>3 DEF Lookup, array, client
  <2>2. pair' \in Nat /\ found' \in Key \cup {NULL}
    BY <1>3, Requests
       DEF Lookup, Hit, Miss, FoundOffset, client, IndInv, ArrayShape, TypeOK, CallInv
  <2>3. pc' = "idle" /\ req' = NULL /\ begin' = 0 /\ end' = -1 /\ index' = 0 /\ cmp' = 0
    BY <1>3 DEF Lookup, Return, NoSearch
  <2>4. ArrayShape'
    BY <2>1, <2>2, <2>3 DEF IndInv, ArrayShape, TypeOK, FitsArray, Sorted, count
  <2>5. PairRefers'
    BY <1>3, <2>1 DEF Lookup, Hit, FoundOffset, client, IndInv, PairRefers, CallInv, count
  <2>6. SearchBrackets' /\ CallInv'
    BY <2>1, <2>3 DEF IndInv, SearchBrackets, CallInv
  <2> QED BY <2>4, <2>5, <2>6 DEF IndInv
<1>4. CASE PairGet \/ UNCHANGED vars
  <2>1. /\ keys' = keys /\ values' = values /\ size' = size /\ pair' = pair /\ found' = found
        /\ pc' = pc /\ req' = req /\ iter' = iter /\ iterating' = iterating
        /\ begin' = begin /\ end' = end /\ index' = index /\ cmp' = cmp
    BY <1>4 DEF PairGet, vars, array, client, search
  <2>2. ArrayShape'
    BY <2>1 DEF IndInv, ArrayShape, TypeOK, FitsArray, Sorted, count
  <2>3. SearchBrackets'
    BY <2>1 DEF IndInv, SearchBrackets, Place, count
  <2>4. PairRefers' /\ CallInv'
    BY <2>1 DEF IndInv, PairRefers, CallInv, count
  <2> QED BY <2>2, <2>3, <2>4 DEF IndInv
<1>5. ASSUME NEW e \in Offered, PairSetValue(e.value) PROVE IndInv'
  <2>1. /\ e.value \in Value /\ values \in Seq(Value)
        /\ values' = [values EXCEPT ![pair + 1] = e.value]
        /\ pair + 1 \in 1..Len(values)
    BY <1>0, <1>5 DEF PairSetValue, IndInv, PairRefers, ArrayShape, TypeOK, FitsArray
  <2>2. values' \in Seq(Value) /\ Len(values') = Len(values)
    BY <2>1, ExceptSeq
  <2> QED
    BY <1>5, <2>2 DEF PairSetValue, IndInv, ArrayShape, TypeOK, FitsArray, Sorted, SearchBrackets,
                      PairRefers, CallInv, client, search, count
<1>6. ASSUME NEW s \in Nat \ {0}, s <= ASSOC_ARRAY_MAX_SIZE, Clear(s) PROVE IndInv'
  <2>1. /\ keys' = <<>> /\ values' = <<>> /\ Len(keys') = 0 /\ Len(values') = 0
        /\ size' = s /\ found' = NULL /\ iterating' = FALSE /\ iter' = -1
        /\ pc = "idle" /\ pc' = pc /\ req' = req /\ pair' = pair
        /\ begin' = begin /\ end' = end /\ index' = index /\ cmp' = cmp
    BY <1>6 DEF Clear, EndIteration, search
  <2>2. keys' \in Seq(KeyObject) /\ values' \in Seq(Value)
    BY <2>1, EmptySeq
  <2>3. iterating' \in BOOLEAN
    BY <2>1, Zenon
  <2>4. TypeOK'
    BY <2>1, <2>2, <2>3 DEF IndInv, ArrayShape, TypeOK
  <2>5. FitsArray' /\ Sorted'
    BY <1>6, <2>1 DEF FitsArray, Sorted, count
  <2>6. SearchBrackets' /\ PairRefers' /\ CallInv'
    BY <2>1 DEF IndInv, SearchBrackets, PairRefers, CallInv
  <2> QED BY <2>4, <2>5, <2>6 DEF IndInv, ArrayShape
<1>7. CASE IterInit \/ IterNext
  <2>1. /\ keys' = keys /\ values' = values /\ size' = size /\ pair' = pair /\ found' = found
        /\ pc = "idle" /\ pc' = pc /\ req' = req
        /\ begin' = begin /\ end' = end /\ index' = index /\ cmp' = cmp
    BY <1>7 DEF IterInit, IterNext, array, search
  <2>2. iter' \in Int /\ iter' >= -1
    BY <1>7 DEF IterInit, IterNext, IndInv, ArrayShape, TypeOK, CallInv
  <2>3. iterating' \in BOOLEAN
    <3>1. CASE IterInit
      BY <3>1, Zenon DEF IterInit
    <3>2. CASE IterNext
      BY <3>2, Zenon DEF IterNext, IndInv, ArrayShape, TypeOK
    <3> QED BY <3>1, <3>2, <1>7
  <2>4. ArrayShape'
    BY <2>1, <2>2, <2>3 DEF IndInv, ArrayShape, TypeOK, FitsArray, Sorted, count
  <2>5. SearchBrackets' /\ PairRefers' /\ CallInv'
    BY <2>1, <2>2 DEF IndInv, SearchBrackets, PairRefers, CallInv, count
  <2> QED BY <2>4, <2>5 DEF IndInv
<1>8. /\ size \in Nat \ {0} /\ size <= ASSOC_ARRAY_MAX_SIZE
      /\ InitialSize \in Nat \ {0} /\ InitialSize <= ASSOC_ARRAY_MAX_SIZE
  BY DEF IndInv, ArrayShape, TypeOK, FitsArray
<1> QED BY <1>1, <1>2, <1>3, <1>4, <1>5, <1>6, <1>7, <1>8

\* Every step keeps the invariant, and an iteration of the search leaves less
\* to search.
LEMMA StepInv ==
  ASSUME IndInv, [Next]_vars
  PROVE  IndInv' /\ (pc = "search" /\ pc' = "search" => end' - begin' < end - begin \/ UNCHANGED vars)
<1>1. ASSUME NEW r \in Request, Call(r) PROVE IndInv' /\ pc # "search"
  BY <1>1, CallKeepsInv DEF Call
<1>2. CASE SearchStep
  BY <1>2, SearchKeepsInv
<1>3. CASE SetReplace
  BY <1>3, ReplaceKeepsInv DEF SetReplace, Hit
<1>4. CASE SetNew
  BY <1>4, NewKeepsInv DEF SetNew, Return
<1>5. CASE Remove
  BY <1>5, RemoveKeepsInv DEF Remove, Hit
<1>6. CASE \/ SetAbort \/ RemoveMissing \/ Lookup \/ Exists
           \/ PairGet \/ (\E e \in Offered : e.key = found /\ PairSetValue(e.value))
           \/ Clear(size) \/ Clear(InitialSize)
           \/ IterInit \/ IterNext
  <2>1. IndInv'
    BY <1>6, OthersKeepInv
  <2>2. ~(pc = "search" /\ pc' = "search")
    BY <1>6 DEF SetAbort, RemoveMissing, Lookup, Exists, Return, PairGet, PairSetValue,
                Clear, IterInit, IterNext
  <2> QED BY <2>1, <2>2
<1>7. CASE UNCHANGED vars
  BY <1>7, OthersKeepInv
<1> QED BY <1>1, <1>2, <1>3, <1>4, <1>5, <1>6, <1>7 DEF Next

\* The two arrays stay parallel, sorted and within their memory, whatever is
\* inserted and removed.
THEOREM ArrayStaysSorted == Spec => []ArrayShape
<1>1. IndInv => ArrayShape
  BY DEF IndInv
<1> QED BY <1>1, InitInv, StepInv, PTL DEF Spec

\* At every iteration the key, if it is there, is in the part still searched,
\* and a search that ends without it ends at the place where it belongs.
THEOREM SearchFindsPlace == Spec => []SearchBrackets
<1>1. IndInv => SearchBrackets
  BY DEF IndInv
<1> QED BY <1>1, InitInv, StepInv, PTL DEF Spec

\* The offset in the pair of a lookup stands for the key that was found as long
\* as only greater keys are inserted and removed.
THEOREM PairKeepsKey == Spec => []PairRefers
<1>1. IndInv => PairRefers
  BY DEF IndInv
<1> QED BY <1>1, InitInv, StepInv, PTL DEF Spec

\* The binary search ends for every length of the array and every key.
THEOREM SearchTerminates == Spec => SearchEnds
<1>1. IndInv /\ [Next]_vars
        => [pc = "search" /\ pc' = "search" => end' - begin' < end - begin]_vars
  BY StepInv
<1> QED BY <1>1, InitInv, StepInv, PTL DEF Spec, SearchEnds
-----------------------------------------------------------------------------
\* No key occurs twice.
Distinct(ks) == \A i, j \in 1..Len(ks) : ks[i].key = ks[j].key => i = j

\* The map of two arrays, element by element.
LEMMA MapOfAt ==
  ASSUME NEW ks, NEW vs, Distinct(ks), NEW g, g = MapOf(ks, vs)
  PROVE  /\ g = [k \in DOMAIN g |-> g[k]]
         /\ \A k \in DOMAIN g : \E i \in 1..Len(ks) : k = ks[i].key
         /\ \A i \in 1..Len(ks) : /\ ks[i].key \in DOMAIN g
                                  /\ g[ks[i].key] = [copy |-> ks[i].copy, value |-> vs[i]]
<1>1. DOMAIN g = {ks[i].key : i \in 1..Len(ks)} /\ g = [k \in DOMAIN g |-> g[k]]
  BY DEF MapOf
<1>2. \A k \in DOMAIN g : \E i \in 1..Len(ks) : k = ks[i].key
  BY <1>1
<1>3. \A i \in 1..Len(ks) : ks[i].key \in DOMAIN g
  BY <1>1
<1>4. ASSUME NEW i \in 1..Len(ks)
      PROVE  g[ks[i].key] = [copy |-> ks[i].copy, value |-> vs[i]]
  <2> DEFINE c == CHOOSE j \in 1..Len(ks) : ks[j].key = ks[i].key
  <2>1. c \in 1..Len(ks) /\ ks[c].key = ks[i].key
    OBVIOUS
  <2>2. c = i
    BY <2>1 DEF Distinct
  <2>3. g[ks[i].key] = [copy |-> ks[c].copy, value |-> vs[c]]
    BY DEF MapOf
  <2> QED BY <2>2, <2>3
<1> QED BY <1>1, <1>2, <1>3, <1>4

\* A function with these elements is the map of the two arrays.
LEMMA MapOfIs ==
  ASSUME NEW ks, NEW vs, Distinct(ks),
         NEW f, f = [k \in DOMAIN f |-> f[k]],
         \A k \in DOMAIN f : \E i \in 1..Len(ks) : k = ks[i].key,
         \A i \in 1..Len(ks) : /\ ks[i].key \in DOMAIN f
                               /\ f[ks[i].key] = [copy |-> ks[i].copy, value |-> vs[i]]
  PROVE  MapOf(ks, vs) = f
<1>a. PICK g : g = MapOf(ks, vs)
  OBVIOUS
<1>1. /\ g = [k \in DOMAIN g |-> g[k]]
      /\ \A k \in DOMAIN g : \E i \in 1..Len(ks) : k = ks[i].key
      /\ \A i \in 1..Len(ks) : /\ ks[i].key \in DOMAIN g
                               /\ g[ks[i].key] = [copy |-> ks[i].copy, value |-> vs[i]]
  BY <1>a, MapOfAt
<1>2. DOMAIN g = DOMAIN f
  <2>1. ASSUME NEW k \in DOMAIN f PROVE k \in DOMAIN g
    BY <1>1
  <2>2. ASSUME NEW k \in DOMAIN g PROVE k \in DOMAIN f
    <3>1. PICK i \in 1..Len(ks) : k = ks[i].key
      BY <1>1
    <3> QED BY <3>1
  <2> QED BY <2>1, <2>2
<1>3. ASSUME NEW k \in DOMAIN f PROVE g[k] = f[k]
  <2>1. PICK i \in 1..Len(ks) : k = ks[i].key
    OBVIOUS
  <2> QED BY <2>1, <1>1
<1> QED BY <1>a, <1>1, <1>2, <1>3

LEMMA SortedDistinct ==
  ASSUME NEW ks, Len(ks) \in Nat,
         \A i, j \in 1..Len(ks) : i < j => ks[i].key < ks[j].key,
         \A i \in 1..Len(ks) : ks[i].key \in Int
  PROVE  Distinct(ks)
<1> SUFFICES ASSUME NEW i \in 1..Len(ks), NEW j \in 1..Len(ks), ks[i].key = ks[j].key
             PROVE  i = j
  BY DEF Distinct
<1>1. ~(i < j) /\ ~(j < i)
  OBVIOUS
<1> QED BY <1>1

\* What the map of the array holds, element by element.
LEMMA MapNow ==
  ASSUME IndInv
  PROVE  /\ Distinct(keys)
         /\ AbsMap = [k \in DOMAIN AbsMap |-> AbsMap[k]]
         /\ \A k \in DOMAIN AbsMap : \E i \in 1..count : k = keys[i].key
         /\ \A i \in 1..count : /\ keys[i].key \in DOMAIN AbsMap
                                /\ AbsMap[keys[i].key] = [copy |-> keys[i].copy, value |-> values[i]]
<1>1. Distinct(keys)
  BY Elements, SortedDistinct DEF IndInv, ArrayShape, Sorted, count
<1> QED BY <1>1, MapOfAt DEF AbsMap, count

\* A key that was found is in the map, one that was not found is not.
LEMMA FoundInMap ==
  ASSUME IndInv
  PROVE  /\ pc = "hit" => /\ index + 1 \in 1..count
                          /\ keys[index + 1].key = req.key
                          /\ req.key \in DOMAIN AbsMap
                          /\ AbsMap[req.key] = [copy |-> keys[index + 1].copy,
                                                value |-> values[index + 1]]
         /\ pc = "search" /\ begin > end => req.key \notin DOMAIN AbsMap
<1>1. ASSUME pc = "hit"
      PROVE  /\ index + 1 \in 1..count /\ keys[index + 1].key = req.key
             /\ req.key \in DOMAIN AbsMap
             /\ AbsMap[req.key] = [copy |-> keys[index + 1].copy, value |-> values[index + 1]]
  <2>1. index + 1 \in 1..count /\ keys[index + 1].key = req.key
    BY <1>1, Elements DEF IndInv, CallInv, ArrayShape, TypeOK
  <2> QED BY <2>1, MapNow
<1>2. ASSUME pc = "search", begin > end PROVE req.key \notin DOMAIN AbsMap
  <2>1. count \in Nat /\ req.key \in Int /\ \A i \in 1..count : keys[i].key \in Int
    BY <1>2, Elements, Requests DEF IndInv, CallInv
  <2>2. ASSUME NEW i \in 1..count PROVE keys[i].key # req.key
    <3>1. /\ Place \in 0..count
          /\ \A j \in 1..Place : keys[j].key < req.key
          /\ \A j \in (Place + 1)..count : keys[j].key > req.key
      BY <1>2, MissPlace
    <3>2. i \in 1..Place \/ i \in (Place + 1)..count
      BY <2>1, <3>1
    <3> QED BY <2>1, <3>1, <3>2
  <2> QED BY <2>2, MapNow
<1> QED BY <1>1, <1>2

LEMMA RefInit == Init => Abs!Init
<1> SUFFICES ASSUME Init PROVE Abs!Init
  OBVIOUS
<1>1. Len(keys) = 0
  BY DEF Init
<1>2. AbsMap = [k \in {} |-> NULL]
  BY <1>1 DEF AbsMap, MapOf
<1>3. AbsTodo = NULL
  BY DEF Init, AbsTodo
<1> QED BY <1>2, <1>3 DEF Init, Abs!Init

LEMMA RefCall ==
  ASSUME IndInv, NEW r \in Request, Call(r)
  PROVE  Abs!Call
<1>1. req = NULL /\ req' = r
  BY DEF Call, IndInv, CallInv
<1>2. AbsMap' = AbsMap
  BY DEF Call, array, AbsMap
<1>3. r \in Abs!Request
  <2>1. CASE r \in SetRequest
    <3>1. PICK e \in Offered, o \in BOOLEAN :
            r = [op |-> "set", key |-> e.key, copy |-> e.copy, value |-> e.value, over |-> o]
      BY <2>1 DEF SetRequest
    <3>2. e \in [key : Key, copy : Copy, value : Value]
      OBVIOUS
    <3>3. e.key \in Key /\ e.copy \in Copy /\ e.value \in Value
      BY <3>2
    <3> QED BY <3>1, <3>3 DEF Abs!Request
  <2>2. CASE r \in [op : {"remove", "lookup", "exists"}, key : Key]
    BY <2>2 DEF Abs!Request
  <2> QED BY <2>1, <2>2 DEF Request
<1>4. AbsTodo' = IF r.op = "set" THEN NULL ELSE AbsTodo
  <2>1. CASE r.op = "set"
    BY <2>1 DEF Call, EndIteration, AbsTodo
  <2>2. CASE r.op # "set"
    BY <2>2 DEF Call, array, AbsTodo
  <2> QED BY <2>1, <2>2
<1> QED BY <1>1, <1>2, <1>3, <1>4 DEF Call, Abs!Call

\* The steps that do not end a call change nothing of the map.
LEMMA RefSilent ==
  ASSUME SearchStep \/ SetAbort \/ UNCHANGED vars
  PROVE  UNCHANGED Abs!mvars
<1>1. /\ keys' = keys /\ values' = values /\ found' = found /\ iter' = iter
      /\ iterating' = iterating /\ req' = req /\ ret' = ret /\ freed' = freed
  BY DEF SearchStep, SetAbort, vars, array, client
<1>2. AbsMap' = AbsMap /\ AbsTodo' = AbsTodo
  BY <1>1 DEF AbsMap, AbsTodo
<1> QED BY <1>1, <1>2 DEF Abs!mvars

\* A call in progress is not NULL.
LEMMA InCall ==
  ASSUME IndInv, pc # "idle"
  PROVE  req \in Request /\ req # NULL
BY NullAssumption DEF IndInv, CallInv

\* The calls that only read.
LEMMA RefRead ==
  ASSUME IndInv, RemoveMissing \/ Lookup \/ Exists
  PROVE  Abs!Remove \/ Abs!Lookup \/ Abs!Exists
<1>1. keys' = keys /\ values' = values /\ iter' = iter /\ iterating' = iterating
  BY DEF RemoveMissing, Lookup, Exists, array, client
<1>2. AbsMap' = AbsMap /\ AbsTodo' = AbsTodo
  BY <1>1 DEF AbsMap, AbsTodo
<1>3. req # NULL
  BY InCall DEF RemoveMissing, Lookup, Exists, Hit, Miss
<1>4. CASE RemoveMissing
  <2>1. req.key \notin DOMAIN AbsMap
    BY <1>4, FoundInMap DEF RemoveMissing, Miss
  <2>2. Abs!Remove
    BY <1>4, <2>1, <1>2, <1>3 DEF RemoveMissing, Miss, Return, client, Abs!Remove, Abs!Effect
  <2> QED BY <2>2
<1>5. CASE Lookup
  <2>1. CASE Hit("lookup")
    <3>1. req.key \in DOMAIN AbsMap
      BY <2>1, FoundInMap DEF Hit
    <3>2. found' = req.key /\ req' = NULL /\ ret' = <<"pair">> /\ freed' = {}
      BY <1>5, <2>1 DEF Lookup, Hit, Miss, Return
    <3>3. Abs!Lookup
      BY <2>1, <3>1, <3>2, <1>2, <1>3 DEF Hit, Abs!Lookup, Abs!Effect
    <3> QED BY <3>3
  <2>2. CASE Miss("lookup")
    <3>1. req.key \notin DOMAIN AbsMap
      BY <2>2, FoundInMap DEF Miss
    <3>2. found' = found /\ req' = NULL /\ ret' = <<NULL>> /\ freed' = {}
      BY <1>5, <2>2 DEF Lookup, Hit, Miss, Return, client
    <3>3. Abs!Lookup
      BY <2>2, <3>1, <3>2, <1>2, <1>3 DEF Miss, Abs!Lookup, Abs!Effect
    <3> QED BY <3>3
  <2> QED BY <2>1, <2>2, <1>5 DEF Lookup
<1>6. CASE Exists
  <2>1. CASE Hit("exists")
    <3>1. req.key \in DOMAIN AbsMap
      BY <2>1, FoundInMap DEF Hit
    <3>2. found' = found /\ req' = NULL /\ ret' = <<"true">> /\ freed' = {}
      BY <1>6, <2>1 DEF Exists, Hit, Miss, Return, client
    <3>3. Abs!Exists
      BY <2>1, <3>1, <3>2, <1>2, <1>3 DEF Hit, Abs!Exists, Abs!Effect
    <3> QED BY <3>3
  <2>2. CASE Miss("exists")
    <3>1. req.key \notin DOMAIN AbsMap
      BY <2>2, FoundInMap DEF Miss
    <3>2. found' = found /\ req' = NULL /\ ret' = <<"false">> /\ freed' = {}
      BY <1>6, <2>2 DEF Exists, Hit, Miss, Return, client
    <3>3. Abs!Exists
      BY <2>2, <3>1, <3>2, <1>2, <1>3 DEF Miss, Abs!Exists, Abs!Effect
    <3> QED BY <3>3
  <2> QED BY <2>1, <2>2, <1>6 DEF Exists
<1> QED BY <1>4, <1>5, <1>6

LEMMA RefReplace ==
  ASSUME IndInv, SetReplace
  PROVE  Abs!SetReplace
<1>a. PICK p : p = index + 1
  OBVIOUS
<1>b. PICK old : old = AbsMap[req.key]
  OBVIOUS
<1>c. PICK new : new = [copy |-> IF req.over THEN req.copy ELSE old.copy, value |-> req.value]
  OBVIOUS
<1>d. PICK f : f = [AbsMap EXCEPT ![req.key] = new]
  OBVIOUS
<1>0. /\ pc = "hit" /\ req.op = "set" /\ req # NULL /\ ~iterating
      /\ found' = found /\ iterating' = iterating /\ req' = NULL /\ ret' = <<"replaced">>
  BY InCall DEF SetReplace, Hit, Return, client, IndInv, CallInv
<1>1. /\ p \in 1..count /\ keys[p].key = req.key /\ req.key \in DOMAIN AbsMap
      /\ old = [copy |-> keys[p].copy, value |-> values[p]]
  BY <1>0, <1>a, <1>b, FoundInMap
<1>2. /\ Distinct(keys)
      /\ AbsMap = [k \in DOMAIN AbsMap |-> AbsMap[k]]
      /\ \A k \in DOMAIN AbsMap : \E i \in 1..count : k = keys[i].key
      /\ \A i \in 1..count : /\ keys[i].key \in DOMAIN AbsMap
                             /\ AbsMap[keys[i].key] = [copy |-> keys[i].copy, value |-> values[i]]
  BY MapNow
<1>3. /\ DOMAIN keys = 1..count /\ DOMAIN values = 1..count /\ count \in Nat
      /\ keys \in Seq(KeyObject) /\ values \in Seq(Value)
  BY Elements, LenProperties DEF IndInv, ArrayShape, TypeOK, FitsArray, count
<1>4. /\ keys' = [keys EXCEPT ![p] = StoredKey] /\ values' = [values EXCEPT ![p] = req.value]
      /\ StoredKey.key = req.key /\ StoredKey.copy = new.copy /\ new.value = req.value
  BY <1>1, <1>a, <1>c DEF SetReplace, StoredKey
<1>5. Len(keys') = count
  <2>1. StoredKey \in KeyObject
    <3>1. keys[p] \in KeyObject /\ req.key \in Key /\ req.copy \in Copy
      BY <1>0, <1>1, InCall, Requests, Elements DEF IndInv
    <3> QED BY <3>1, <1>a DEF StoredKey, KeyObject
  <2> QED BY <2>1, <1>1, <1>3, <1>4, ExceptSeq DEF count
<1>6. \A i \in 1..count :
         /\ keys'[i].key = keys[i].key
         /\ i = p => keys'[i].copy = new.copy /\ values'[i] = new.value
         /\ i # p => keys'[i].copy = keys[i].copy /\ values'[i] = values[i]
  BY <1>1, <1>3, <1>4
<1>7. Distinct(keys')
  BY <1>2, <1>5, <1>6 DEF Distinct, count
<1>8. MapOf(keys', values') = f
  <2>1. f = [k \in DOMAIN f |-> f[k]] /\ DOMAIN f = DOMAIN AbsMap
    BY <1>2, <1>d
  <2>2. ASSUME NEW k \in DOMAIN f PROVE \E i \in 1..Len(keys') : k = keys'[i].key
    <3>1. PICK i \in 1..count : k = keys[i].key
      BY <2>1, <1>2
    <3> QED BY <3>1, <1>5, <1>6
  <2>3. ASSUME NEW i \in 1..Len(keys')
        PROVE  /\ keys'[i].key \in DOMAIN f
               /\ f[keys'[i].key] = [copy |-> keys'[i].copy, value |-> values'[i]]
    <3>0. i \in 1..count /\ keys'[i].key = keys[i].key /\ keys[i].key \in DOMAIN AbsMap
      BY <1>2, <1>5, <1>6
    <3>1. CASE i = p
      <4>1. f[keys'[i].key] = new
        BY <3>0, <3>1, <1>1, <1>d
      <4>2. new = [copy |-> new.copy, value |-> new.value]
        BY <1>c
      <4> QED BY <3>0, <3>1, <4>1, <4>2, <2>1, <1>6
    <3>2. CASE i # p
      <4>1. keys[i].key # req.key
        BY <3>0, <3>2, <1>1, <1>2 DEF Distinct, count
      <4>2. f[keys'[i].key] = AbsMap[keys[i].key]
        BY <3>0, <4>1, <1>d
      <4> QED BY <3>0, <3>2, <4>2, <2>1, <1>2, <1>6
    <3> QED BY <3>1, <3>2
  <2> QED BY <2>1, <2>2, <2>3, <1>7, MapOfIs
<1>9. AbsMap' = f
  BY <1>8 DEF AbsMap
<1>10. AbsTodo' = NULL
  BY <1>0 DEF AbsTodo
<1>11. freed' = Abs!FreedValue(req.key) \cup (IF req.over THEN Abs!FreedKey(req.key) ELSE {})
  <2>1. freed' = FreedValue(p) \cup (IF req.over THEN FreedKey(p) ELSE {})
    BY <1>a DEF SetReplace, Return
  <2>2. FreedValue(p) = Abs!FreedValue(req.key)
    BY <1>1, <1>b DEF FreedValue, Abs!FreedValue
  <2>3. FreedKey(p) = Abs!FreedKey(req.key)
    BY <1>1, <1>b DEF FreedKey, Abs!FreedKey
  <2> QED BY <2>1, <2>2, <2>3
<1>12. AbsMap' = [AbsMap EXCEPT ![req.key] = [copy |-> IF req.over THEN req.copy ELSE @.copy,
                                              value |-> req.value]]
  BY <1>9, <1>b, <1>c, <1>d
<1> QED BY <1>0, <1>1, <1>10, <1>11, <1>12 DEF Abs!SetReplace, Abs!Effect, Abs!Disturb

LEMMA RefNew ==
  ASSUME IndInv, IndInv', SetNew
  PROVE  Abs!SetNew
<1>a. PICK o : o = Place
  OBVIOUS
<1>b. PICK e : e = [key |-> req.key, copy |-> req.copy]
  OBVIOUS
<1>c. PICK new : new = [copy |-> req.copy, value |-> req.value]
  OBVIOUS
<1>d. PICK f : f = [k \in DOMAIN AbsMap \cup {req.key} |-> IF k = req.key THEN new ELSE AbsMap[k]]
  OBVIOUS
<1>0. /\ pc = "search" /\ begin > end /\ req.op = "set" /\ req # NULL /\ ~iterating
      /\ found' \in {found, NULL} /\ iterating' = iterating
      /\ req' = NULL /\ ret' = <<"new">> /\ freed' = {}
  BY InCall DEF SetNew, Miss, Return, IndInv, CallInv
<1>1. o \in 0..count /\ req.key \notin DOMAIN AbsMap
  BY <1>0, <1>a, MissPlace, FoundInMap
<1>2. /\ \A k \in DOMAIN AbsMap : \E i \in 1..count : k = keys[i].key
      /\ \A i \in 1..count : /\ keys[i].key \in DOMAIN AbsMap
                             /\ AbsMap[keys[i].key] = [copy |-> keys[i].copy, value |-> values[i]]
  BY MapNow
<1>3. /\ count \in Nat /\ Len(values) = count
      /\ keys \in Seq(KeyObject) /\ values \in Seq(Value)
  BY Elements DEF IndInv, ArrayShape, TypeOK
<1>4. e \in KeyObject /\ req.value \in Value
  BY <1>0, <1>b, InCall, Requests DEF KeyObject
<1>5. keys' = InsertedAt(keys, o, e) /\ values' = InsertedAt(values, o, req.value)
  BY <1>a, <1>b DEF SetNew
<1>6. o \in 0..Len(keys) /\ o \in 0..Len(values)
  BY <1>1, <1>3 DEF count
<1>k. keys \in Seq(KeyObject) /\ e \in KeyObject /\ o \in 0..Len(keys) /\ keys' = InsertedAt(keys, o, e)
  BY <1>3, <1>4, <1>5, <1>6
<1>v. PICK v \in Value : v = req.value /\ values' = InsertedAt(values, o, v)
  BY <1>4, <1>5
<1>w. values \in Seq(Value) /\ o \in 0..Len(values)
  BY <1>3, <1>6
<1>7. Len(keys') = count + 1
  BY <1>k, Inserting DEF count
<1>8. \A i \in 1..o : keys'[i] = keys[i]
  BY <1>k, Inserting
<1>9. keys'[o + 1] = e
  BY <1>k, Inserting
<1>10. \A i \in (o + 2)..(Len(keys) + 1) : keys'[i] = keys[i - 1]
  BY <1>k, Inserting
<1>11. \A i \in 1..o : values'[i] = values[i]
  BY <1>v, <1>w, Inserting
<1>12. values'[o + 1] = req.value
  BY <1>v, <1>w, Inserting
<1>13. \A i \in (o + 2)..(Len(values) + 1) : values'[i] = values[i - 1]
  BY <1>v, <1>w, Inserting
<1>14. Distinct(keys')
  <2>1. \A i \in 1..Len(keys') : keys'[i].key \in Int
    <3>1. keys' \in Seq(KeyObject)
      BY DEF IndInv, ArrayShape, TypeOK
    <3>2. \A i \in 1..Len(keys') : keys'[i] \in KeyObject
      BY <3>1, ElementOfSeq
    <3> QED BY <3>2 DEF KeyObject
  <2>2. \A i, j \in 1..Len(keys') : i < j => keys'[i].key < keys'[j].key
    BY DEF IndInv, ArrayShape, Sorted, count
  <2>3. Len(keys') \in Nat
    BY <1>3, <1>7
  <2> QED BY <2>1, <2>2, <2>3, SortedDistinct
<1>15. MapOf(keys', values') = f
  <2>1. f = [k \in DOMAIN f |-> f[k]] /\ DOMAIN f = DOMAIN AbsMap \cup {req.key}
    BY <1>d
  <2>2. ASSUME NEW k \in DOMAIN f PROVE \E i \in 1..Len(keys') : k = keys'[i].key
    <3>1. CASE k = req.key
      BY <3>1, <1>1, <1>3, <1>7, <1>9, <1>b
    <3>2. CASE k # req.key
      <4>1. PICK i \in 1..count : k = keys[i].key
        BY <3>2, <2>1, <1>2
      <4>2. CASE i <= o
        <5>1. i \in 1..o /\ i \in 1..Len(keys')
          BY <4>2, <1>1, <1>3, <1>7
        <5> QED BY <5>1, <4>1, <1>8
      <4>3. CASE i > o
        <5>1. i + 1 \in (o + 2)..(Len(keys) + 1) /\ i + 1 \in 1..Len(keys') /\ (i + 1) - 1 = i
          BY <4>3, <1>1, <1>3, <1>7 DEF count
        <5> QED BY <5>1, <4>1, <1>10
      <4> QED BY <4>2, <4>3, <1>1, <1>3
    <3> QED BY <3>1, <3>2
  <2>3. ASSUME NEW i \in 1..Len(keys')
        PROVE  /\ keys'[i].key \in DOMAIN f
               /\ f[keys'[i].key] = [copy |-> keys'[i].copy, value |-> values'[i]]
    <3>1. CASE i <= o
      <4>1. i \in 1..o /\ i \in 1..count
        BY <3>1, <1>1, <1>3, <1>7
      <4>2. keys'[i] = keys[i] /\ values'[i] = values[i] /\ keys[i].key \in DOMAIN AbsMap
        BY <4>1, <1>2, <1>8, <1>11
      <4>3. f[keys[i].key] = AbsMap[keys[i].key]
        BY <4>2, <1>1, <1>d
      <4> QED BY <4>1, <4>2, <4>3, <2>1, <1>2
    <3>2. CASE i = o + 1
      <4>1. keys'[i] = e /\ values'[i] = req.value
        BY <3>2, <1>9, <1>12
      <4>2. f[req.key] = new /\ req.key \in DOMAIN f
        BY <1>d
      <4> QED BY <4>1, <4>2, <1>b, <1>c
    <3>3. CASE i > o + 1
      <4>1. /\ i \in (o + 2)..(Len(keys) + 1) /\ i \in (o + 2)..(Len(values) + 1)
            /\ i - 1 \in 1..count
        BY <3>3, <1>1, <1>3, <1>7 DEF count
      <4>2. /\ keys'[i] = keys[i - 1] /\ values'[i] = values[i - 1]
            /\ keys[i - 1].key \in DOMAIN AbsMap
        BY <4>1, <1>2, <1>10, <1>13
      <4>3. f[keys[i - 1].key] = AbsMap[keys[i - 1].key]
        BY <4>2, <1>1, <1>d
      <4> QED BY <4>1, <4>2, <4>3, <2>1, <1>2
    <3> QED BY <3>1, <3>2, <3>3, <1>1, <1>3, <1>7
  <2> QED BY <2>1, <2>2, <2>3, <1>14, MapOfIs
<1>16. AbsMap' = f /\ AbsTodo' = NULL
  BY <1>0, <1>15 DEF AbsMap, AbsTodo
<1> QED BY <1>0, <1>1, <1>16, <1>c, <1>d DEF Abs!SetNew, Abs!Effect, Abs!Disturb

LEMMA RefRemove ==
  ASSUME IndInv, IndInv', Remove
  PROVE  Abs!Remove
<1>a. PICK p : p = index + 1
  OBVIOUS
<1>d. PICK f : f = [k \in DOMAIN AbsMap \ {req.key} |-> AbsMap[k]]
  OBVIOUS
<1>0. /\ pc = "hit" /\ req.op = "remove" /\ req # NULL
      /\ found' \in {found, NULL} /\ iterating' = FALSE
      /\ req' = NULL /\ ret' = <<"none">>
  BY InCall DEF Remove, Hit, Return, EndIteration
<1>1. /\ p \in 1..count /\ keys[p].key = req.key /\ req.key \in DOMAIN AbsMap
      /\ AbsMap[req.key] = [copy |-> keys[p].copy, value |-> values[p]]
  BY <1>0, <1>a, FoundInMap
<1>2. /\ Distinct(keys)
      /\ \A k \in DOMAIN AbsMap : \E i \in 1..count : k = keys[i].key
      /\ \A i \in 1..count : /\ keys[i].key \in DOMAIN AbsMap
                             /\ AbsMap[keys[i].key] = [copy |-> keys[i].copy, value |-> values[i]]
  BY MapNow
<1>3. /\ count \in Nat /\ Len(values) = count /\ index \in Nat
      /\ keys \in Seq(KeyObject) /\ values \in Seq(Value)
  BY Elements DEF IndInv, ArrayShape, TypeOK
<1>4. keys' = RemovedAt(keys, index) /\ values' = RemovedAt(values, index)
  BY DEF Remove
<1>5. index \in 0..(Len(keys) - 1) /\ index \in 0..(Len(values) - 1)
  BY <1>1, <1>3, <1>a DEF count
<1>k. keys \in Seq(KeyObject) /\ index \in 0..(Len(keys) - 1) /\ keys' = RemovedAt(keys, index)
  BY <1>3, <1>4, <1>5
<1>v. values \in Seq(Value) /\ index \in 0..(Len(values) - 1) /\ values' = RemovedAt(values, index)
  BY <1>3, <1>4, <1>5
<1>6. Len(keys') = count - 1
  BY <1>k, Removing DEF count
<1>7. \A i \in 1..index : keys'[i] = keys[i] /\ values'[i] = values[i]
  <2>1. \A i \in 1..index : keys'[i] = keys[i]
    BY <1>k, Removing
  <2>2. \A i \in 1..index : values'[i] = values[i]
    BY <1>v, Removing
  <2> QED BY <2>1, <2>2
<1>8. \A i \in (index + 1)..(Len(keys) - 1) : keys'[i] = keys[i + 1]
  BY <1>k, Removing
<1>9. \A i \in (index + 1)..(Len(values) - 1) : values'[i] = values[i + 1]
  BY <1>v, Removing
<1>10. Distinct(keys')
  <2>1. \A i \in 1..Len(keys') : keys'[i].key \in Int
    <3>1. keys' \in Seq(KeyObject)
      BY DEF IndInv, ArrayShape, TypeOK
    <3>2. \A i \in 1..Len(keys') : keys'[i] \in KeyObject
      BY <3>1, ElementOfSeq
    <3> QED BY <3>2 DEF KeyObject
  <2>2. \A i, j \in 1..Len(keys') : i < j => keys'[i].key < keys'[j].key
    BY DEF IndInv, ArrayShape, Sorted, count
  <2>3. Len(keys') \in Nat
    BY <1>1, <1>3, <1>6
  <2> QED BY <2>1, <2>2, <2>3, SortedDistinct
<1>11. \A i \in 1..count : i # p => keys[i].key # req.key
  BY <1>1, <1>2 DEF Distinct, count
<1>12. MapOf(keys', values') = f
  <2>1. f = [k \in DOMAIN f |-> f[k]] /\ DOMAIN f = DOMAIN AbsMap \ {req.key}
    BY <1>d
  <2>2. ASSUME NEW k \in DOMAIN f PROVE \E i \in 1..Len(keys') : k = keys'[i].key
    <3>1. PICK i \in 1..count : k = keys[i].key
      BY <2>1, <1>2
    <3>2. i # p
      BY <3>1, <2>1, <1>1
    <3>3. CASE i < p
      <4>1. i \in 1..index /\ i \in 1..Len(keys')
        BY <3>3, <1>1, <1>3, <1>6, <1>a
      <4> QED BY <4>1, <3>1, <1>7
    <3>4. CASE i > p
      <4>1. i - 1 \in (index + 1)..(Len(keys) - 1) /\ i - 1 \in 1..Len(keys') /\ (i - 1) + 1 = i
        BY <3>4, <1>1, <1>3, <1>6, <1>a DEF count
      <4> QED BY <4>1, <3>1, <1>8
    <3> QED BY <3>2, <3>3, <3>4, <1>1, <1>3
  <2>3. ASSUME NEW i \in 1..Len(keys')
        PROVE  /\ keys'[i].key \in DOMAIN f
               /\ f[keys'[i].key] = [copy |-> keys'[i].copy, value |-> values'[i]]
    <3>1. CASE i <= index
      <4>1. i \in 1..index /\ i \in 1..count /\ i # p
        BY <3>1, <1>3, <1>6, <1>a
      <4>2. /\ keys'[i] = keys[i] /\ values'[i] = values[i]
            /\ keys[i].key \in DOMAIN AbsMap /\ keys[i].key # req.key
        BY <4>1, <1>2, <1>7, <1>11
      <4>3. f[keys[i].key] = AbsMap[keys[i].key]
        BY <4>2, <1>d
      <4> QED BY <4>1, <4>2, <4>3, <2>1, <1>2
    <3>2. CASE i > index
      <4>1. /\ i \in (index + 1)..(Len(keys) - 1) /\ i \in (index + 1)..(Len(values) - 1)
            /\ i + 1 \in 1..count /\ i + 1 # p
        BY <3>2, <1>3, <1>6, <1>a DEF count
      <4>2. /\ keys'[i] = keys[i + 1] /\ values'[i] = values[i + 1]
            /\ keys[i + 1].key \in DOMAIN AbsMap /\ keys[i + 1].key # req.key
        BY <4>1, <1>2, <1>8, <1>9, <1>11
      <4>3. f[keys[i + 1].key] = AbsMap[keys[i + 1].key]
        BY <4>2, <1>d
      <4> QED BY <4>1, <4>2, <4>3, <2>1, <1>2
    <3> QED BY <3>1, <3>2, <1>3, <1>6
  <2> QED BY <2>1, <2>2, <2>3, <1>10, MapOfIs
<1>13. AbsMap' = f /\ AbsTodo' = NULL
  BY <1>0, <1>12 DEF AbsMap, AbsTodo
<1>14. freed' = Abs!FreedKey(req.key) \cup Abs!FreedValue(req.key)
  <2>1. freed' = FreedKey(p) \cup FreedValue(p)
    BY <1>a DEF Remove, Return
  <2>2. FreedValue(p) = Abs!FreedValue(req.key)
    BY <1>1 DEF FreedValue, Abs!FreedValue
  <2>3. FreedKey(p) = Abs!FreedKey(req.key)
    BY <1>1 DEF FreedKey, Abs!FreedKey
  <2> QED BY <2>1, <2>2, <2>3
<1> QED BY <1>0, <1>1, <1>13, <1>14, <1>d DEF Abs!Remove, Abs!Effect, Abs!Disturb

\* Where a pair is: the element at its offset is that of its key.
LEMMA PairNow ==
  ASSUME IndInv, found # NULL
  PROVE  /\ pair + 1 \in 1..count /\ keys[pair + 1].key = found
         /\ found \in DOMAIN AbsMap
         /\ AbsMap[found] = [copy |-> keys[pair + 1].copy, value |-> values[pair + 1]]
<1>1. pair + 1 \in 1..count /\ keys[pair + 1].key = found
  BY Elements DEF IndInv, PairRefers, ArrayShape, TypeOK
<1> QED BY <1>1, MapNow

LEMMA RefPairGet ==
  ASSUME IndInv, PairGet
  PROVE  Abs!PairGet
<1>1. ret' = <<"shown", found, AbsMap[found]>>
  BY PairNow DEF PairGet, Shown
<1>2. AbsMap' = AbsMap /\ AbsTodo' = AbsTodo
  BY DEF PairGet, AbsMap, AbsTodo, array, client
<1> QED BY <1>1, <1>2 DEF PairGet, Abs!PairGet, IndInv, CallInv, client

LEMMA RefPairSetValue ==
  ASSUME IndInv, NEW v \in Value, PairSetValue(v)
  PROVE  Abs!PairSetValue
<1>a. PICK p : p = pair + 1
  OBVIOUS
<1>b. PICK old : old = AbsMap[found]
  OBVIOUS
<1>c. PICK new : new = [old EXCEPT !.value = v]
  OBVIOUS
<1>d. PICK f : f = [AbsMap EXCEPT ![found] = new]
  OBVIOUS
<1>0. /\ pc = "idle" /\ found # NULL /\ req = NULL /\ keys' = keys
      /\ found' = found /\ req' = req /\ ret' = <<"none">>
      /\ iterating' = iterating /\ iter' = iter
  BY DEF PairSetValue, client, IndInv, CallInv
<1>1. /\ p \in 1..count /\ keys[p].key = found /\ found \in DOMAIN AbsMap
      /\ old = [copy |-> keys[p].copy, value |-> values[p]]
  BY <1>0, <1>a, <1>b, PairNow
<1>2. /\ Distinct(keys)
      /\ AbsMap = [k \in DOMAIN AbsMap |-> AbsMap[k]]
      /\ \A k \in DOMAIN AbsMap : \E i \in 1..count : k = keys[i].key
      /\ \A i \in 1..count : /\ keys[i].key \in DOMAIN AbsMap
                             /\ AbsMap[keys[i].key] = [copy |-> keys[i].copy, value |-> values[i]]
  BY MapNow
<1>3. DOMAIN values = 1..count /\ values' = [values EXCEPT ![p] = v]
  BY <1>a, LenProperties DEF IndInv, ArrayShape, TypeOK, FitsArray, PairSetValue
<1>4. new = [copy |-> keys[p].copy, value |-> v]
  BY <1>1, <1>c
<1>5. MapOf(keys, values') = f
  <2>1. f = [k \in DOMAIN f |-> f[k]] /\ DOMAIN f = DOMAIN AbsMap
    BY <1>2, <1>d
  <2>2. \A k \in DOMAIN f : \E i \in 1..Len(keys) : k = keys[i].key
    BY <2>1, <1>2 DEF count
  <2>3. ASSUME NEW i \in 1..Len(keys)
        PROVE  /\ keys[i].key \in DOMAIN f
               /\ f[keys[i].key] = [copy |-> keys[i].copy, value |-> values'[i]]
    <3>0. i \in 1..count /\ keys[i].key \in DOMAIN AbsMap
      BY <1>2 DEF count
    <3>1. CASE i = p
      BY <3>0, <3>1, <2>1, <1>1, <1>3, <1>4, <1>d
    <3>2. CASE i # p
      <4>1. keys[i].key # found
        BY <3>0, <3>2, <1>1, <1>2 DEF Distinct, count
      <4> QED BY <3>0, <3>2, <4>1, <2>1, <1>2, <1>3, <1>d
    <3> QED BY <3>1, <3>2
  <2> QED BY <2>1, <2>2, <2>3, <1>2, MapOfIs
<1>6. AbsMap' = f /\ AbsTodo' = AbsTodo
  BY <1>0, <1>5 DEF AbsMap, AbsTodo
<1>7. freed' = Abs!FreedValue(found)
  BY <1>1, <1>a, <1>b DEF PairSetValue, FreedValue, Abs!FreedValue
<1>8. AbsMap' = [AbsMap EXCEPT ![found].value = v]
  BY <1>6, <1>b, <1>c, <1>d
<1> QED BY <1>0, <1>6, <1>7, <1>8 DEF Abs!PairSetValue

LEMMA RefClear ==
  ASSUME IndInv, NEW s, Clear(s)
  PROVE  Abs!Clear
<1>0. /\ pc = "idle" /\ req = NULL /\ keys' = <<>> /\ Len(keys') = 0
      /\ found' = NULL /\ req' = req /\ ret' = <<"none">> /\ iterating' = FALSE
  BY DEF Clear, EndIteration, IndInv, CallInv
<1>1. AbsMap' = [k \in {} |-> NULL] /\ AbsTodo' = NULL
  BY <1>0 DEF AbsMap, MapOf, AbsTodo
<1>2. /\ \A k \in DOMAIN AbsMap : \E i \in 1..count : k = keys[i].key
      /\ \A i \in 1..count : /\ keys[i].key \in DOMAIN AbsMap
                             /\ AbsMap[keys[i].key] = [copy |-> keys[i].copy, value |-> values[i]]
  BY MapNow
<1>3. ASSUME NEW i \in 1..count
      PROVE  FreedKey(i) \cup FreedValue(i) = Abs!FreedKey(keys[i].key) \cup Abs!FreedValue(keys[i].key)
  <2>1. PICK k : k = keys[i].key
    OBVIOUS
  <2>2. AbsMap[k].copy = keys[i].copy /\ AbsMap[k].value = values[i]
    <3>1. AbsMap[k] = [copy |-> keys[i].copy, value |-> values[i]]
      BY <2>1, <1>2
    <3> QED BY <3>1
  <2>3. FreedKey(i) = Abs!FreedKey(k)
    BY <2>1, <2>2 DEF FreedKey, Abs!FreedKey
  <2>4. FreedValue(i) = Abs!FreedValue(k)
    BY <2>1, <2>2 DEF FreedValue, Abs!FreedValue
  <2> QED BY <2>1, <2>3, <2>4
<1>4. UNION {FreedKey(i) \cup FreedValue(i) : i \in 1..count}
        = UNION {Abs!FreedKey(k) \cup Abs!FreedValue(k) : k \in DOMAIN AbsMap}
  <2>1. ASSUME NEW x, NEW i \in 1..count, x \in FreedKey(i) \cup FreedValue(i)
        PROVE  \E k \in DOMAIN AbsMap : x \in Abs!FreedKey(k) \cup Abs!FreedValue(k)
    <3>1. keys[i].key \in DOMAIN AbsMap
      BY <1>2
    <3>2. x \in Abs!FreedKey(keys[i].key) \cup Abs!FreedValue(keys[i].key)
      BY <2>1, <1>3
    <3> QED BY <3>1, <3>2
  <2>2. ASSUME NEW x, NEW k \in DOMAIN AbsMap, x \in Abs!FreedKey(k) \cup Abs!FreedValue(k)
        PROVE  \E i \in 1..count : x \in FreedKey(i) \cup FreedValue(i)
    <3>1. PICK i \in 1..count : k = keys[i].key
      BY <1>2
    <3>2. x \in FreedKey(i) \cup FreedValue(i)
      BY <2>2, <3>1, <1>3
    <3> QED BY <3>2
  <2> QED BY <2>1, <2>2
<1>5. freed' = UNION {Abs!FreedKey(k) \cup Abs!FreedValue(k) : k \in DOMAIN AbsMap}
  BY <1>4 DEF Clear
<1> QED BY <1>0, <1>1, <1>5 DEF Abs!Clear

\* The keys an iterator has yet to visit, element by element.
LEMMA TodoAt ==
  ASSUME NEW ks, NEW it
  PROVE  \A k : k \in TodoOf(ks, it) <=> \E i \in 1..Len(ks) : i > it + 1 /\ k = ks[i].key
BY DEF TodoOf

LEMMA RefIterInit ==
  ASSUME IndInv, IterInit
  PROVE  Abs!IterInit
<1>0. /\ pc = "idle" /\ req = NULL /\ req' = req /\ keys' = keys /\ values' = values
      /\ found' = found /\ ret' = <<"none">> /\ freed' = {} /\ iter' = -1 /\ iterating' = TRUE
  BY DEF IterInit, array, IndInv, CallInv
<1>1. AbsMap' = AbsMap
  BY <1>0 DEF AbsMap
<1>2. AbsTodo' = TodoOf(keys, -1)
  BY <1>0 DEF AbsTodo
<1>3. TodoOf(keys, -1) = DOMAIN AbsMap
  <2>1. \A i \in 1..count : i > -1 + 1
    BY <1>0, Elements DEF IndInv
  <2>2. ASSUME NEW k \in TodoOf(keys, -1) PROVE k \in DOMAIN AbsMap
    <3>1. PICK i \in 1..count : k = keys[i].key
      BY TodoAt DEF count
    <3> QED BY <3>1, MapNow
  <2>3. ASSUME NEW k \in DOMAIN AbsMap PROVE k \in TodoOf(keys, -1)
    <3>1. PICK i \in 1..count : k = keys[i].key
      BY MapNow
    <3> QED BY <3>1, <2>1, TodoAt DEF count
  <2> QED BY <2>2, <2>3
<1> QED BY <1>0, <1>1, <1>2, <1>3 DEF Abs!IterInit

LEMMA RefIterNext ==
  ASSUME IndInv, IterNext
  PROVE  Abs!IterNext
<1>0. /\ pc = "idle" /\ req = NULL /\ req' = req /\ keys' = keys /\ values' = values
      /\ found' = found /\ freed' = {} /\ iter' = iter + 1
      /\ iterating /\ iterating' = iterating
      /\ count \in Nat /\ iter \in Int /\ iter >= -1
  BY Elements DEF IterNext, array, IndInv, CallInv, ArrayShape, TypeOK
<1>1. AbsMap' = AbsMap
  BY <1>0 DEF AbsMap
<1>2. AbsTodo = TodoOf(keys, iter) /\ AbsTodo' = TodoOf(keys, iter + 1)
  BY <1>0 DEF AbsTodo
<1>3. AbsTodo # NULL
  <2>1. \A i \in 1..count : keys[i].key \in Key
    BY Elements DEF IndInv, KeyObject
  <2>2. AbsTodo \in SUBSET Key
    BY <2>1, <1>2, TodoAt DEF count
  <2> QED BY <2>2, NullAssumption
<1>4. CASE iter + 1 < count
  <2>1. PICK n : n = iter + 2
    OBVIOUS
  <2>2. n \in 1..count /\ n > iter + 1
    BY <2>1, <1>0, <1>4
  <2>3. keys[n].key \in AbsTodo
    BY <2>2, <1>2, TodoAt DEF count
  <2>4. ret' = <<"shown", keys[n].key, AbsMap[keys[n].key]>>
    BY <2>1, <2>2, <1>4, MapNow DEF IterNext, Shown
  <2>5. AbsTodo' = AbsTodo \ {keys[n].key}
    <3>1. ASSUME NEW k \in AbsTodo' PROVE k \in AbsTodo \ {keys[n].key}
      <4>1. PICK i \in 1..count : i > (iter + 1) + 1 /\ k = keys[i].key
        BY <1>2, TodoAt DEF count
      <4>2. i > iter + 1 /\ i # n
        BY <4>1, <2>1, <1>0
      <4>3. k # keys[n].key
        BY <4>1, <4>2, <2>2, MapNow DEF Distinct, count
      <4> QED BY <4>1, <4>2, <4>3, <1>2, TodoAt DEF count
    <3>2. ASSUME NEW k \in AbsTodo, k # keys[n].key PROVE k \in AbsTodo'
      <4>1. PICK i \in 1..count : i > iter + 1 /\ k = keys[i].key
        BY <1>2, TodoAt DEF count
      <4>2. i > (iter + 1) + 1
        BY <4>1, <3>2, <2>1, <1>0
      <4> QED BY <4>1, <4>2, <1>2, TodoAt DEF count
    <3> QED BY <3>1, <3>2
  <2> QED BY <2>3, <2>4, <2>5, <1>0, <1>1, <1>3 DEF Abs!IterNext
<1>5. CASE ~(iter + 1 < count)
  <2>1. AbsTodo = {} /\ AbsTodo' = {}
    <3>1. \A i \in 1..count : ~(i > iter + 1) /\ ~(i > (iter + 1) + 1)
      BY <1>0, <1>5
    <3>2. AbsTodo = {}
      BY <3>1, <1>2, TodoAt DEF count
    <3>3. AbsTodo' = {}
      BY <3>1, <1>2, TodoAt DEF count
    <3> QED BY <3>2, <3>3
  <2>2. ret' = <<"end">>
    BY <1>5 DEF IterNext
  <2> QED BY <2>1, <2>2, <1>0, <1>1, <1>3 DEF Abs!IterNext
<1> QED BY <1>4, <1>5

\* Every step of the array is a step of the map or leaves it unchanged.
LEMMA RefNext ==
  ASSUME IndInv, IndInv', [Next]_vars
  PROVE  [Abs!Next]_Abs!mvars
<1>1. ASSUME NEW r \in Request, Call(r) PROVE Abs!Next
  BY <1>1, RefCall DEF Abs!Next
<1>2. CASE SearchStep \/ SetAbort \/ UNCHANGED vars
  BY <1>2, RefSilent
<1>3. CASE SetReplace
  BY <1>3, RefReplace DEF Abs!Next
<1>4. CASE SetNew
  BY <1>4, RefNew DEF Abs!Next
<1>5. CASE Remove
  BY <1>5, RefRemove DEF Abs!Next
<1>6. CASE RemoveMissing \/ Lookup \/ Exists
  BY <1>6, RefRead DEF Abs!Next
<1>7. CASE PairGet
  BY <1>7, RefPairGet DEF Abs!Next
<1>8. ASSUME NEW e \in Offered, PairSetValue(e.value) PROVE Abs!Next
  <2>1. e.value \in Value
    OBVIOUS
  <2> QED BY <1>8, <2>1, RefPairSetValue DEF Abs!Next
<1>9. CASE Clear(size) \/ Clear(InitialSize)
  BY <1>9, RefClear DEF Abs!Next
<1>10. CASE IterInit \/ IterNext
  BY <1>10, RefIterInit, RefIterNext DEF Abs!Next
<1> QED BY <1>1, <1>2, <1>3, <1>4, <1>5, <1>6, <1>7, <1>8, <1>9, <1>10 DEF Next

\* The associative array implements the map: for any keys, any elements and
\* any limit, searching, the memmoves, the shared pair and the iterator have no
\* other effects than those of a partial function whose calls are atomic.
THEOREM ArrayImplementsMap == Spec => IsMap
<1>1. IndInv /\ IndInv' /\ [Next]_vars => [Abs!Next]_Abs!mvars
  BY RefNext
<1> QED BY <1>1, RefInit, InitInv, StepInv, PTL DEF Spec, IsMap, Abs!Spec
=============================================================================
