-------------------------- MODULE MemoryPoolProofs --------------------------
(***************************************************************************)
(* Proofs about MemoryPool for every block_size and any number of blocks.  *)
(***************************************************************************)
EXTENDS MemoryPool, FiniteSetTheorems, TLAPS

\* The free lists: sequences of sequences of addresses.
Lists == Seq(Seq(Addr))

\* The places and the addresses of a list, index by index.
LEMMA StoredIff ==
  ASSUME NEW list
  PROVE  /\ \A i \in 1..Len(list) : \A j \in 1..Len(list[i]) : /\ <<i, j>> \in Slots(list)
                                                           /\ list[i][j] \in Stored(list)
         /\ \A s \in Slots(list) : \E i \in 1..Len(list) : \E j \in 1..Len(list[i]) : s = <<i, j>>
         /\ \A a \in Stored(list) :
              \E i \in 1..Len(list) : \E j \in 1..Len(list[i]) : a = list[i][j]
<1>1. \A i \in 1..Len(list) : \A j \in 1..Len(list[i]) : <<i, j>> \in Slots(list)
  BY DEF Slots
<1>2. \A i \in 1..Len(list) : \A j \in 1..Len(list[i]) : list[i][j] \in Stored(list)
  <2> SUFFICES ASSUME NEW i \in 1..Len(list), NEW j \in 1..Len(list[i])
               PROVE  list[i][j] \in Stored(list)
    OBVIOUS
  <2> DEFINE s == <<i, j>>
  <2>1. s \in Slots(list) /\ s[1] = i /\ s[2] = j
    BY <1>1
  <2> HIDE DEF s
  <2>2. list[s[1]][s[2]] \in Stored(list)
    BY <2>1, Zenon DEF Stored
  <2> QED BY <2>1, <2>2
<1>3. \A s \in Slots(list) : \E i \in 1..Len(list) : \E j \in 1..Len(list[i]) : s = <<i, j>>
  BY DEF Slots
<1>4. \A a \in Stored(list) :
         \E i \in 1..Len(list) : \E j \in 1..Len(list[i]) : a = list[i][j]
  BY <1>3 DEF Stored
<1> QED BY <1>1, <1>2, <1>3, <1>4

\* A stored address has a place.
LEMMA StoredPlace ==
  ASSUME NEW list, NEW a \in Stored(list)
  PROVE  \E i \in 1..Len(list) : \E j \in 1..Len(list[i]) : a = list[i][j]
BY StoredIff

\* StoredOnce, index by index.
LEMMA StoredOnceIff ==
  ASSUME NEW list
  PROVE  StoredOnce(list) <=>
           \A i, k \in 1..Len(list) : \A j \in 1..Len(list[i]), l \in 1..Len(list[k]) :
              list[i][j] = list[k][l] => i = k /\ j = l
<1>1. ASSUME StoredOnce(list),
             NEW i \in 1..Len(list), NEW k \in 1..Len(list),
             NEW j \in 1..Len(list[i]), NEW l \in 1..Len(list[k]), list[i][j] = list[k][l]
      PROVE  i = k /\ j = l
  <2>1. <<i, j>> \in Slots(list) /\ <<k, l>> \in Slots(list)
    BY StoredIff
  <2>2. <<i, j>> = <<k, l>>
    BY <1>1, <2>1 DEF StoredOnce
  <2> QED BY <2>2
<1>2. ASSUME \A i, k \in 1..Len(list) : \A j \in 1..Len(list[i]), l \in 1..Len(list[k]) :
               list[i][j] = list[k][l] => i = k /\ j = l,
             NEW r \in Slots(list), NEW s \in Slots(list),
             list[r[1]][r[2]] = list[s[1]][s[2]]
      PROVE  r = s
  <2>1. PICK i \in 1..Len(list) : \E j \in 1..Len(list[i]) : r = <<i, j>>
    BY StoredIff
  <2>2. PICK j \in 1..Len(list[i]) : r = <<i, j>>
    BY <2>1
  <2>3. PICK k \in 1..Len(list) : \E l \in 1..Len(list[k]) : s = <<k, l>>
    BY StoredIff
  <2>4. PICK l \in 1..Len(list[k]) : s = <<k, l>>
    BY <2>3
  <2>5. list[i][j] = list[k][l]
    BY <1>2, <2>2, <2>4
  <2>6. i = k /\ j = l
    BY <1>2, <2>5
  <2> QED BY <2>2, <2>4, <2>6
<1> QED BY <1>1, <1>2 DEF StoredOnce

\* Address a is at place <<i, j>> of a list.
At(list, i, j, a) ==
  i \in 1..Len(list) /\ j \in 1..Len(list[i]) /\ list[i][j] = a

\* An address that is stored once has one place.
LEMMA OnePlace ==
  ASSUME NEW list, StoredOnce(list), NEW a, NEW i, NEW j, NEW k, NEW l,
         At(list, i, j, a), At(list, k, l, a)
  PROVE  i = k /\ j = l
<1>1. <<i, j>> \in Slots(list) /\ <<k, l>> \in Slots(list)
  BY StoredIff DEF At
<1>2. list[<<i, j>>[1]][<<i, j>>[2]] = a /\ list[<<k, l>>[1]][<<k, l>>[2]] = a
  BY DEF At
<1>3. <<i, j>> = <<k, l>>
  BY <1>1, <1>2, Zenon DEF StoredOnce
<1> QED BY <1>3

\* Dropping the first block, which holds one address.
LEMMA DropBlock ==
  ASSUME NEW list \in Lists, WellShaped(list), StoredOnce(list), Len(list) >= 1,
         Len(list[1]) = 1,
         NEW new \in Lists, Len(new) = Len(list) - 1,
         \A i \in 1..Len(new) : new[i] = list[i + 1]
  PROVE  /\ WellShaped(new) /\ StoredOnce(new)
         /\ Stored(new) = Stored(list) \ {list[1][1]}
<1>1. /\ Len(list) \in Nat /\ Len(new) \in Nat
      /\ \A i \in 1..Len(new) : i + 1 \in 1..Len(list) /\ i + 1 # 1
      /\ 1 \in 1..Len(list) /\ 1 \in 1..Len(list[1])
  BY DEF Lists
<1>3. WellShaped(new)
  BY <1>1 DEF WellShaped
<1>4. StoredOnce(new)
  <2>1. ASSUME NEW i \in 1..Len(new), NEW k \in 1..Len(new),
               NEW j \in 1..Len(new[i]), NEW l \in 1..Len(new[k]), new[i][j] = new[k][l]
        PROVE  i = k /\ j = l
    <3>1. At(list, i + 1, j, new[i][j]) /\ At(list, k + 1, l, new[i][j])
      BY <1>1, <2>1 DEF At
    <3>2. i + 1 = k + 1 /\ j = l
      BY <3>1, OnePlace
    <3> QED BY <3>2, <1>1
  <2> QED BY <2>1, StoredOnceIff
<1>5. ASSUME NEW a \in Stored(new) PROVE a \in Stored(list) \ {list[1][1]}
  <2>1. PICK i \in 1..Len(new) : \E j \in 1..Len(new[i]) : a = new[i][j]
    BY StoredPlace
  <2>2. PICK j \in 1..Len(new[i]) : a = new[i][j]
    BY <2>1
  <2>3. i + 1 \in 1..Len(list) /\ j \in 1..Len(list[i + 1]) /\ a = list[i + 1][j]
    BY <1>1, <2>2
  <2>4. a \in Stored(list)
    BY <2>3, StoredIff
  <2>5. a # list[1][1]
    <3>1. At(list, i + 1, j, a) /\ At(list, 1, 1, list[1][1]) /\ i + 1 # 1
      BY <1>1, <2>3 DEF At
    <3> QED BY <3>1, OnePlace
  <2> QED BY <2>4, <2>5
<1>6. ASSUME NEW a \in Stored(list), a # list[1][1] PROVE a \in Stored(new)
  <2>1. PICK i \in 1..Len(list) : \E j \in 1..Len(list[i]) : a = list[i][j]
    BY StoredPlace
  <2>2. PICK j \in 1..Len(list[i]) : a = list[i][j]
    BY <2>1
  <2>3. i # 1
    BY <1>6, <2>2
  <2>4. /\ i - 1 \in 1..Len(new) /\ (i - 1) + 1 = i
    BY <1>1, <2>3
  <2>5. j \in 1..Len(new[i - 1]) /\ a = new[i - 1][j]
    BY <2>2, <2>4
  <2> QED BY <2>4, <2>5, StoredIff
<1> QED BY <1>3, <1>4, <1>5, <1>6

\* Dropping the last address of the first block, which holds others.
LEMMA DropAddress ==
  ASSUME NEW list \in Lists, WellShaped(list), StoredOnce(list), Len(list) >= 1,
         NEW n \in Nat, Len(list[1]) = n + 1, n >= 1,
         NEW new \in Lists, Len(new) = Len(list), Len(new[1]) = n,
         \A j \in 1..n : new[1][j] = list[1][j],
         \A i \in 1..Len(new) : i # 1 => new[i] = list[i]
  PROVE  /\ WellShaped(new) /\ StoredOnce(new)
         /\ Stored(new) = Stored(list) \ {list[1][n + 1]}
<1>1. /\ Len(list) \in Nat
      /\ 1 \in 1..Len(list) /\ n + 1 \in 1..Len(list[1])
  BY DEF Lists
<1>3. WellShaped(new)
  BY <1>1, PoolAssumption DEF WellShaped
<1>4. ASSUME NEW i \in 1..Len(new), NEW j \in 1..Len(new[i])
      PROVE  /\ i \in 1..Len(list) /\ j \in 1..Len(list[i]) /\ new[i][j] = list[i][j]
             /\ i = 1 => j # n + 1
  <2>1. CASE i = 1
    BY <1>1, <2>1
  <2>2. CASE i # 1
    BY <1>1, <2>2
  <2> QED BY <2>1, <2>2
<1>5. StoredOnce(new)
  <2>1. ASSUME NEW i \in 1..Len(new), NEW k \in 1..Len(new),
               NEW j \in 1..Len(new[i]), NEW l \in 1..Len(new[k]), new[i][j] = new[k][l]
        PROVE  i = k /\ j = l
    <3>1. At(list, i, j, new[i][j]) /\ At(list, k, l, new[i][j])
      BY <1>4, <2>1 DEF At
    <3> QED BY <3>1, OnePlace
  <2> QED BY <2>1, StoredOnceIff
<1>6. ASSUME NEW a \in Stored(new) PROVE a \in Stored(list) \ {list[1][n + 1]}
  <2>1. PICK i \in 1..Len(new) : \E j \in 1..Len(new[i]) : a = new[i][j]
    BY StoredPlace
  <2>2. PICK j \in 1..Len(new[i]) : a = new[i][j]
    BY <2>1
  <2>3. a = list[i][j] /\ i \in 1..Len(list) /\ j \in 1..Len(list[i]) /\ (i = 1 => j # n + 1)
    BY <1>4, <2>2
  <2>4. a \in Stored(list)
    BY <2>3, StoredIff
  <2>5. a # list[1][n + 1]
    <3>1. At(list, i, j, a) /\ At(list, 1, n + 1, list[1][n + 1])
      BY <1>1, <2>3 DEF At
    <3> QED BY <2>3, <3>1, OnePlace
  <2> QED BY <2>4, <2>5
<1>7. ASSUME NEW a \in Stored(list), a # list[1][n + 1] PROVE a \in Stored(new)
  <2>1. PICK i \in 1..Len(list) : \E j \in 1..Len(list[i]) : a = list[i][j]
    BY StoredPlace
  <2>2. PICK j \in 1..Len(list[i]) : a = list[i][j]
    BY <2>1
  <2>3. i \in 1..Len(new) /\ j \in 1..Len(new[i]) /\ a = new[i][j]
    <3>1. CASE i = 1
      BY <1>1, <1>7, <2>2, <3>1
    <3>2. CASE i # 1
      BY <1>1, <2>2, <3>2
    <3> QED BY <3>1, <3>2
  <2> QED BY <2>3, StoredIff
<1> QED BY <1>3, <1>5, <1>6, <1>7

\* Adding an address that is not stored: a block of its own in front, or the
\* end of the first block.
LEMMA AddBlock ==
  ASSUME NEW list \in Lists, WellShaped(list), StoredOnce(list),
         Len(list) >= 1 => Len(list[1]) = block_size,
         NEW x \in Addr, x \notin Stored(list),
         NEW new \in Lists, Len(new) = Len(list) + 1, Len(new[1]) = 1, new[1][1] = x,
         \A i \in 1..Len(new) : i # 1 => new[i] = list[i - 1]
  PROVE  /\ WellShaped(new) /\ StoredOnce(new)
         /\ Stored(new) = Stored(list) \cup {x}
<1>1. /\ Len(list) \in Nat /\ Len(new) \in Nat
      /\ \A i \in 1..Len(list) : i + 1 \in 1..Len(new) /\ i + 1 # 1
      /\ 1 \in 1..Len(new) /\ 1 \in 1..Len(new[1])
  BY DEF Lists
<1>3. ASSUME NEW i \in 1..Len(new), i # 1
      PROVE  i - 1 \in 1..Len(list) /\ new[i] = list[i - 1]
  BY <1>1, <1>3
<1>4. WellShaped(new)
  <2>1. ASSUME NEW i \in 1..Len(new)
        PROVE  Len(new[i]) \in 1..block_size /\ (i > 1 => Len(new[i]) = block_size)
    <3>1. CASE i = 1
      <4>1. Len(new[i]) = 1
        BY <3>1, Zenon
      <4>2. 1 \in 1..block_size
        BY PoolAssumption
      <4>3. ~(i > 1)
        BY <3>1
      <4> QED BY <4>1, <4>2, <4>3, Zenon
    <3>2. CASE i # 1
      <4>1. Len(list[i - 1]) = block_size
        BY <1>1, <1>3, <3>2 DEF WellShaped
      <4> QED BY <1>3, <3>2, <4>1, PoolAssumption
    <3> QED BY <3>1, <3>2
  <2> QED BY <2>1 DEF WellShaped
<1>5. ASSUME NEW i \in 1..Len(new), NEW j \in 1..Len(new[i])
      PROVE  \/ i = 1 /\ j = 1 /\ new[i][j] = x
             \/ /\ i # 1 /\ i - 1 \in 1..Len(list) /\ j \in 1..Len(list[i - 1])
                /\ new[i][j] = list[i - 1][j] /\ new[i][j] \in Stored(list)
  <2>1. CASE i = 1
    <3>1. j \in 1..1
      BY <2>1, Zenon
    <3>2. j = 1
      BY <3>1
    <3> QED BY <2>1, <3>2, Zenon
  <2>2. CASE i # 1
    <3>1. i - 1 \in 1..Len(list) /\ j \in 1..Len(list[i - 1]) /\ new[i][j] = list[i - 1][j]
      BY <1>3, <2>2
    <3> QED BY <2>2, <3>1, StoredIff
  <2> QED BY <2>1, <2>2
<1>6. StoredOnce(new)
  <2>1. ASSUME NEW i \in 1..Len(new), NEW k \in 1..Len(new),
               NEW j \in 1..Len(new[i]), NEW l \in 1..Len(new[k]), new[i][j] = new[k][l]
        PROVE  i = k /\ j = l
    <3>1. CASE i = 1 \/ k = 1
      BY <1>5, <2>1, <3>1
    <3>2. CASE i # 1 /\ k # 1
      <4>1. At(list, i - 1, j, new[i][j]) /\ At(list, k - 1, l, new[i][j])
        BY <1>5, <2>1, <3>2 DEF At
      <4>2. i - 1 = k - 1 /\ j = l
        BY <4>1, OnePlace
      <4> QED BY <4>2, <1>1
    <3> QED BY <3>1, <3>2
  <2> QED BY <2>1, StoredOnceIff
<1>7. ASSUME NEW a \in Stored(new) PROVE a \in Stored(list) \cup {x}
  <2>1. PICK i \in 1..Len(new) : \E j \in 1..Len(new[i]) : a = new[i][j]
    BY StoredPlace
  <2>2. PICK j \in 1..Len(new[i]) : a = new[i][j]
    BY <2>1
  <2> QED BY <1>5, <2>2
<1>8. x \in Stored(new)
  BY <1>1, StoredIff
<1>9. ASSUME NEW a \in Stored(list) PROVE a \in Stored(new)
  <2>1. PICK i \in 1..Len(list) : \E j \in 1..Len(list[i]) : a = list[i][j]
    BY StoredPlace
  <2>2. PICK j \in 1..Len(list[i]) : a = list[i][j]
    BY <2>1
  <2>3. i + 1 \in 1..Len(new) /\ j \in 1..Len(new[i + 1]) /\ a = new[i + 1][j]
    <3>1. i + 1 \in 1..Len(new) /\ i + 1 # 1 /\ (i + 1) - 1 = i
      BY <1>1
    <3> QED BY <2>2, <3>1
  <2> QED BY <2>3, StoredIff
<1> QED BY <1>4, <1>6, <1>7, <1>8, <1>9

\* Adding an address at the end of the first block.
LEMMA AddAddress ==
  ASSUME NEW list \in Lists, WellShaped(list), StoredOnce(list), Len(list) >= 1,
         NEW n \in Nat, Len(list[1]) = n, n < block_size,
         NEW x \in Addr, x \notin Stored(list),
         NEW new \in Lists, Len(new) = Len(list), Len(new[1]) = n + 1, new[1][n + 1] = x,
         \A j \in 1..n : new[1][j] = list[1][j],
         \A i \in 1..Len(new) : i # 1 => new[i] = list[i]
  PROVE  /\ WellShaped(new) /\ StoredOnce(new)
         /\ Stored(new) = Stored(list) \cup {x}
<1>1. /\ Len(list) \in Nat
      /\ 1 \in 1..Len(list) /\ n + 1 \in 1..Len(new[1])
  BY DEF Lists
<1>3. WellShaped(new)
  <2>1. ASSUME NEW i \in 1..Len(new)
        PROVE  Len(new[i]) \in 1..block_size /\ (i > 1 => Len(new[i]) = block_size)
    <3>1. CASE i = 1
      <4>1. n + 1 \in 1..block_size /\ ~(i > 1)
        BY <3>1, PoolAssumption
      <4> QED BY <3>1, <4>1, Zenon
    <3>2. CASE i # 1
      BY <3>2 DEF WellShaped
    <3> QED BY <3>1, <3>2
  <2> QED BY <2>1 DEF WellShaped
<1>4. ASSUME NEW i \in 1..Len(new), NEW j \in 1..Len(new[i])
      PROVE  \/ i = 1 /\ j = n + 1 /\ new[i][j] = x
             \/ /\ i \in 1..Len(list) /\ j \in 1..Len(list[i])
                /\ new[i][j] = list[i][j] /\ new[i][j] \in Stored(list)
  <2>1. CASE i = 1 /\ j = n + 1
    BY <2>1, Zenon
  <2>2. CASE i = 1 /\ j # n + 1
    <3>1. j \in 1..(n + 1)
      BY <2>2, Zenon
    <3>2. j \in 1..n
      BY <2>2, <3>1
    <3>3. i \in 1..Len(list) /\ j \in 1..Len(list[i]) /\ new[i][j] = list[i][j]
      BY <2>2, <3>2, Zenon
    <3> QED BY <3>3, StoredIff
  <2>3. CASE i # 1
    <3>1. i \in 1..Len(list) /\ j \in 1..Len(list[i]) /\ new[i][j] = list[i][j]
      BY <2>3
    <3> QED BY <3>1, StoredIff
  <2> QED BY <2>1, <2>2, <2>3
<1>5. StoredOnce(new)
  <2>1. ASSUME NEW i \in 1..Len(new), NEW k \in 1..Len(new),
               NEW j \in 1..Len(new[i]), NEW l \in 1..Len(new[k]), new[i][j] = new[k][l]
        PROVE  i = k /\ j = l
    <3>1. CASE new[i][j] \in Stored(list)
      <4>1. At(list, i, j, new[i][j])
        BY <1>4, <3>1 DEF At
      <4>2. At(list, k, l, new[i][j])
        BY <1>4, <2>1, <3>1 DEF At
      <4> QED BY <4>1, <4>2, OnePlace
    <3>2. CASE new[i][j] \notin Stored(list)
      <4>1. i = 1 /\ j = n + 1
        BY <1>4, <3>2
      <4>2. k = 1 /\ l = n + 1
        BY <1>4, <2>1, <3>2
      <4> QED BY <4>1, <4>2, Zenon
    <3> QED BY <3>1, <3>2
  <2> QED BY <2>1, StoredOnceIff
<1>6. ASSUME NEW a \in Stored(new) PROVE a \in Stored(list) \cup {x}
  <2>1. PICK i \in 1..Len(new) : \E j \in 1..Len(new[i]) : a = new[i][j]
    BY ONLY <1>6, StoredPlace
  <2>2. PICK j \in 1..Len(new[i]) : a = new[i][j]
    BY <2>1
  <2> QED BY <1>4, <2>2
<1>7. x \in Stored(new)
  <2>1. 1 \in 1..Len(new) /\ n + 1 \in 1..Len(new[1])
    BY <1>1
  <2> QED BY <2>1, StoredIff
<1>8. ASSUME NEW a \in Stored(list) PROVE a \in Stored(new)
  <2>1. PICK i \in 1..Len(list) : \E j \in 1..Len(list[i]) : a = list[i][j]
    BY StoredPlace
  <2>2. PICK j \in 1..Len(list[i]) : a = list[i][j]
    BY <2>1
  <2>3. i \in 1..Len(new) /\ j \in 1..Len(new[i]) /\ a = new[i][j]
    <3>1. CASE i = 1
      <4>1. j \in 1..n
        BY <3>1, Zenon
      <4>2. j \in 1..(n + 1)
        BY <4>1
      <4> QED BY <2>2, <3>1, <4>1, <4>2, Zenon
    <3>2. CASE i # 1
      BY <2>2, <3>2
    <3> QED BY <3>1, <3>2
  <2> QED BY <2>3, StoredIff
<1> QED BY <1>3, <1>5, <1>6, <1>7, <1>8
\* What _memory_pool_try_get_detached_item does to the free list.
LEMMA PopFacts ==
  ASSUME free_block \in Lists, free_block # <<>>, FreeListShape, StoredOnce(free_block)
  PROVE  LET x == Head(free_block)[Len(Head(free_block))]
         IN  /\ PopDetached \in Lists /\ WellShaped(PopDetached) /\ StoredOnce(PopDetached)
             /\ x \in Detached
             /\ Stored(PopDetached) = Detached \ {x}
<1> DEFINE h == free_block[1]
<1>1. /\ Len(free_block) \in Nat /\ Len(free_block) >= 1
      /\ Head(free_block) = h /\ h \in Seq(Addr)
      /\ 1 \in 1..Len(free_block)
  BY DEF Lists
<1>2. WellShaped(free_block) /\ Len(h) \in Nat /\ Len(h) >= 1 /\ Len(h) \in 1..Len(h)
  BY <1>1, PoolAssumption DEF FreeListShape, WellShaped
<1>3. h[Len(h)] \in Detached
  BY <1>1, <1>2, StoredIff DEF Detached
<1>4. CASE Len(h) = 1
  <2>1. PopDetached = Tail(free_block)
    BY <1>1, <1>4 DEF PopDetached
  <2>2. /\ PopDetached \in Lists /\ Len(PopDetached) = Len(free_block) - 1
        /\ \A i \in 1..Len(PopDetached) : PopDetached[i] = free_block[i + 1]
    BY <1>1, <2>1 DEF Lists
  <2>3. /\ WellShaped(PopDetached) /\ StoredOnce(PopDetached)
        /\ Stored(PopDetached) = Stored(free_block) \ {free_block[1][1]}
    BY <1>1, <1>2, <1>4, <2>2, DropBlock
  <2> QED BY <1>1, <1>3, <1>4, <2>2, <2>3 DEF Detached
<1>5. CASE Len(h) # 1
  <2> DEFINE g == SubSeq(h, 1, Len(h) - 1)
             n == Len(h) - 1
  <2>1. PopDetached = [free_block EXCEPT ![1] = g]
    BY <1>1, <1>5 DEF PopDetached
  <2>2. /\ g \in Seq(Addr) /\ Len(g) = n /\ n \in Nat /\ n >= 1 /\ Len(h) = n + 1
        /\ \A j \in 1..n : g[j] = h[j]
    <3> HIDE DEF h
    <3>1. n \in Nat /\ n >= 1 /\ Len(h) = n + 1
      BY <1>2, <1>5
    <3> HIDE DEF n
    <3>2. h \in Seq(Addr) /\ g = SubSeq(h, 1, n)
      BY <1>1 DEF n
    <3> HIDE DEF g
    <3> QED BY ONLY <3>1, <3>2
  <2> HIDE DEF g, n
  <2>3. /\ PopDetached \in Lists /\ Len(PopDetached) = Len(free_block)
        /\ PopDetached[1] = g
        /\ \A i \in 1..Len(PopDetached) : i # 1 => PopDetached[i] = free_block[i]
    BY <1>1, <2>1, <2>2 DEF Lists
  <2>4. /\ WellShaped(PopDetached) /\ StoredOnce(PopDetached)
        /\ Stored(PopDetached) = Stored(free_block) \ {free_block[1][n + 1]}
    BY <1>1, <1>2, <2>2, <2>3, DropAddress
  <2> QED BY <1>1, <1>3, <2>2, <2>3, <2>4 DEF Detached
<1> QED BY <1>4, <1>5

\* What _memory_pool_free does to the free list.
LEMMA PushFacts ==
  ASSUME free_block \in Lists, FreeListShape, StoredOnce(free_block),
         NEW x \in Addr, x \notin Detached, Free(x)
  PROVE  /\ free_block' \in Lists /\ WellShaped(free_block') /\ StoredOnce(free_block')
         /\ Stored(free_block') = Detached \cup {x}
<1>1. WellShaped(free_block) /\ Len(free_block) \in Nat /\ x \notin Stored(free_block)
  BY DEF FreeListShape, Lists, Detached
<1>2. CASE NeedsPtrBlock
  <2>1. free_block' = <<<<x>>>> \o free_block
    BY <1>2 DEF Free
  <2>2. /\ free_block' \in Lists /\ Len(free_block') = Len(free_block) + 1
        /\ free_block'[1] = <<x>>
        /\ \A i \in 1..Len(free_block') : i # 1 => free_block'[i] = free_block[i - 1]
    BY <1>1, <2>1 DEF Lists
  <2>3. Len(free_block'[1]) = 1 /\ free_block'[1][1] = x
    BY <2>2
  <2>4. Len(free_block) >= 1 => Len(free_block[1]) = block_size
    BY <1>1, <1>2 DEF NeedsPtrBlock, Lists
  <2> QED BY <1>1, <2>2, <2>3, <2>4, AddBlock DEF Detached
<1>3. CASE ~NeedsPtrBlock
  <2> DEFINE h == free_block[1]
             g == Append(h, x)
  <2>1. /\ Len(free_block) >= 1 /\ h \in Seq(Addr) /\ Head(free_block) = h
        /\ 1 \in 1..Len(free_block) /\ Len(h) # block_size
    BY <1>1, <1>3 DEF NeedsPtrBlock, Lists
  <2>2. Len(h) \in Nat /\ Len(h) < block_size
    BY <1>1, <2>1, PoolAssumption DEF WellShaped
  <2>3. free_block' = [free_block EXCEPT ![1] = g]
    BY <1>3 DEF Free
  <2>4. /\ g \in Seq(Addr) /\ Len(g) = Len(h) + 1 /\ g[Len(h) + 1] = x
        /\ \A j \in 1..Len(h) : g[j] = h[j]
    BY <2>1
  <2> HIDE DEF g
  <2>5. /\ free_block' \in Lists /\ Len(free_block') = Len(free_block)
        /\ free_block'[1] = g
        /\ \A i \in 1..Len(free_block') : i # 1 => free_block'[i] = free_block[i]
    BY <1>1, <2>1, <2>3, <2>4 DEF Lists
  <2> QED BY <1>1, <2>1, <2>2, <2>4, <2>5, AddAddress DEF Detached
<1> QED BY <1>2, <1>3
\* live counts the items in use, and a pool has a block as long as it lives.
CountInv == /\ IsFiniteSet(Carved)
            /\ live = Cardinality(inUse)
            /\ alive => blocks >= 1
            /\ ~alive => blocks = 0 /\ offset = 0 /\ free_block = <<>>

\* The inductive invariant: the properties together, and CountInv.
IndInv == TypeOK /\ FreeListShape /\ Accounting /\ NoWaste /\ CountInv

\* An empty list.
LEMMA EmptyList ==
  <<>> \in Lists /\ Stored(<<>>) = {} /\ StoredOnce(<<>>) /\ WellShaped(<<>>)
<1>1. Slots(<<>>) = {}
  BY DEF Slots
<1> QED BY <1>1 DEF Lists, Stored, StoredOnce, WellShaped

\* Nothing has been cut from a new block list, or from none.
LEMMA NothingCarved ==
  ASSUME offset = 0, blocks \in {0, 1}
  PROVE  Carved = {}
BY PoolAssumption DEF Carved, Addr

LEMMA NothingCarvedNext ==
  ASSUME offset' = 0, blocks' \in {0, 1}
  PROVE  Carved' = {}
BY PoolAssumption DEF Carved, Addr

\* The invariant holds when the pool has been created.
LEMMA InitIndInv == Init => IndInv
<1> SUFFICES ASSUME Init PROVE IndInv
  OBVIOUS
<1>1. TypeOK
  <2>1. alive \in BOOLEAN
    BY Zenon DEF Init
  <2> QED BY <2>1, PoolAssumption, EmptyList DEF Init, TypeOK, Lists
<1>2. Carved = {} /\ Detached = {}
  BY NothingCarved, EmptyList DEF Init, Detached
<1>3. FreeListShape /\ Accounting
  BY <1>2, EmptyList DEF Init, FreeListShape, Accounting
<1>4. NoWaste /\ CountInv
  BY <1>2, FS_EmptySet DEF Init, NoWaste, CountInv
<1> QED BY <1>1, <1>3, <1>4 DEF IndInv

\* An allocation from the current or from a new block cuts one more item.
LEMMA CarveFacts ==
  ASSUME IndInv, AllocCurrent \/ AllocNewBlock
  PROVE  \E item \in Addr : /\ item \notin Carved
                            /\ Carved' = Carved \cup {item}
                            /\ HandOut(item)
<1> USE PoolAssumption DEF IndInv, TypeOK, CountInv
<1>1. CASE AllocCurrent
  <2>1. /\ blocks \in 1..MaxBlocks /\ offset \in 0..(block_size - 1)
        /\ blocks' = blocks /\ offset' = offset + 1 /\ HandOut(<<blocks, offset>>)
    BY <1>1 DEF AllocCurrent, RoomInBlock
  <2>2. <<blocks, offset>> \in Addr /\ <<blocks, offset>> \notin Carved
    BY <2>1 DEF Addr, Carved
  <2>3. Carved' = Carved \cup {<<blocks, offset>>}
    BY <2>1 DEF Carved, Addr
  <2> QED BY <2>1, <2>2, <2>3
<1>2. CASE AllocNewBlock
  <2>1. /\ blocks \in 0..(MaxBlocks - 1) /\ offset = block_size
        /\ blocks' = blocks + 1 /\ offset' = 1 /\ HandOut(<<blocks + 1, 0>>)
    BY <1>2 DEF AllocNewBlock, RoomInBlock
  <2>2. <<blocks + 1, 0>> \in Addr /\ <<blocks + 1, 0>> \notin Carved
    BY <2>1 DEF Addr, Carved
  <2>3. Carved' = Carved \cup {<<blocks + 1, 0>>}
    BY <2>1 DEF Carved, Addr
  <2> QED BY <2>1, <2>2, <2>3
<1> QED BY <1>1, <1>2
\* Everything in use has been cut from a block.
LEMMA Sizes ==
  ASSUME IndInv
  PROVE  /\ IsFiniteSet(Carved) /\ Cardinality(Carved) \in Nat
         /\ inUse \subseteq Carved /\ Detached \subseteq Carved /\ Carved \subseteq Addr
         /\ IsFiniteSet(inUse) /\ live = Cardinality(inUse) /\ live <= peak
<1>1. inUse \subseteq Carved /\ Detached \subseteq Carved /\ Carved \subseteq Addr
  BY DEF IndInv, Accounting, Carved
<1> QED BY <1>1, FS_Subset, FS_CardinalityType DEF IndInv, CountInv, NoWaste, TypeOK

\* Reusing an item.
LEMMA DetachedStep == IndInv /\ AllocDetached => IndInv'
<1> SUFFICES ASSUME IndInv, AllocDetached PROVE IndInv'
  OBVIOUS
<1> DEFINE x == Head(free_block)[Len(Head(free_block))]
<1>1. free_block \in Lists /\ free_block # <<>> /\ FreeListShape /\ StoredOnce(free_block)
  BY DEF IndInv, TypeOK, Accounting, Lists, AllocDetached
<1>2. /\ free_block' \in Lists /\ WellShaped(free_block') /\ StoredOnce(free_block')
      /\ x \in Detached
      /\ Detached' = Detached \ {x}
  BY <1>1, PopFacts DEF AllocDetached, Detached
<1>3. /\ HandOut(x) /\ alive' = alive /\ blocks' = blocks /\ offset' = offset
      /\ alive
  BY DEF AllocDetached
<1>4. Carved' = Carved
  BY <1>3 DEF Carved
<1> HIDE DEF x
<1>5. inUse' = inUse \cup {x} /\ live' = live + 1 /\ peak' = Larger(peak, live + 1)
  BY <1>3 DEF HandOut
<1>6. x \in Addr /\ x \notin inUse /\ inUse' \subseteq Carved
  BY <1>2, <1>5, Sizes DEF IndInv, Accounting
<1>7. live' = Cardinality(inUse') /\ live' \in Nat
  BY <1>5, <1>6, Sizes, FS_AddElement, FS_CardinalityType
<1>8. live' <= Cardinality(Carved)
  BY <1>6, <1>7, Sizes, FS_Subset
<1>9. peak' = peak
  BY <1>5, <1>7, <1>8 DEF Larger, IndInv, NoWaste, TypeOK
<1>10. TypeOK'
  BY <1>2, <1>3, <1>5, <1>6, <1>7, <1>9 DEF IndInv, TypeOK, Lists
<1>11. Accounting'
  BY <1>2, <1>4, <1>5 DEF IndInv, Accounting
<1>12. NoWaste' /\ CountInv'
  BY <1>3, <1>4, <1>7, <1>9 DEF IndInv, NoWaste, CountInv
<1> QED BY <1>2, <1>10, <1>11, <1>12 DEF IndInv, FreeListShape

\* Cutting a new item: nothing is detached, so everything that was cut is in use.
LEMMA CarveStep == IndInv /\ (AllocCurrent \/ AllocNewBlock) => IndInv'
<1> SUFFICES ASSUME IndInv, AllocCurrent \/ AllocNewBlock PROVE IndInv'
  OBVIOUS
<1>1. PICK item \in Addr : item \notin Carved /\ Carved' = Carved \cup {item} /\ HandOut(item)
  BY CarveFacts
<1>2. /\ free_block = <<>> /\ free_block' = <<>> /\ alive /\ alive' = alive
      /\ blocks' \in 0..MaxBlocks /\ offset' \in 0..block_size /\ blocks' >= 1
  BY PoolAssumption DEF AllocCurrent, AllocNewBlock, NothingDetached, RoomInBlock,
                        IndInv, TypeOK, CountInv
<1>3. Detached = {} /\ Detached' = {} /\ StoredOnce(free_block') /\ WellShaped(free_block')
  BY <1>2, EmptyList DEF Detached
<1>4. inUse = Carved
  BY <1>3 DEF IndInv, Accounting
<1>5. inUse' = inUse \cup {item} /\ live' = live + 1 /\ peak' = Larger(peak, live + 1)
  BY <1>1 DEF HandOut
<1>6. /\ IsFiniteSet(Carved') /\ Cardinality(Carved') = Cardinality(Carved) + 1
      /\ inUse' = Carved'
  BY <1>1, <1>4, <1>5, Sizes, FS_AddElement
<1>7. live' = Cardinality(inUse') /\ live' \in Nat /\ peak' = Cardinality(Carved')
  BY <1>4, <1>5, <1>6, Sizes DEF Larger, IndInv, NoWaste
<1>8. TypeOK'
  BY <1>1, <1>2, <1>5, <1>6, <1>7, EmptyList DEF IndInv, TypeOK, Lists
<1>9. Accounting'
  BY <1>3, <1>6 DEF Accounting
<1>10. NoWaste' /\ CountInv'
  BY <1>2, <1>6, <1>7 DEF NoWaste, CountInv
<1> QED BY <1>3, <1>8, <1>9, <1>10 DEF IndInv, FreeListShape

\* Giving an item back.
LEMMA FreeStep ==
  ASSUME IndInv, NEW item \in Addr, Free(item)
  PROVE  IndInv'
<1>1. /\ item \in inUse /\ inUse' = inUse \ {item} /\ live' = live - 1
      /\ alive' = alive /\ alive /\ blocks' = blocks /\ offset' = offset /\ peak' = peak
  BY DEF Free
<1>2. item \notin Detached
  BY <1>1 DEF IndInv, Accounting
<1>3. /\ free_block' \in Lists /\ WellShaped(free_block') /\ StoredOnce(free_block')
      /\ Detached' = Detached \cup {item}
  BY <1>2, PushFacts DEF IndInv, TypeOK, Accounting, Lists, Detached
<1>4. Carved' = Carved
  BY <1>1 DEF Carved
<1>5. live' = Cardinality(inUse') /\ live' \in Nat
  <2>1. IsFiniteSet(inUse') /\ Cardinality(inUse') = live - 1
    BY <1>1, Sizes, FS_RemoveElement
  <2> QED BY <1>1, <2>1, FS_CardinalityType
<1>6. TypeOK'
  BY <1>1, <1>3, <1>5 DEF IndInv, TypeOK, Lists
<1>7. Accounting'
  BY <1>1, <1>3, <1>4 DEF IndInv, Accounting
<1>8. NoWaste' /\ CountInv'
  BY <1>1, <1>4, <1>5 DEF IndInv, NoWaste, CountInv
<1> QED BY <1>3, <1>6, <1>7, <1>8 DEF IndInv, FreeListShape

\* A pool that is destroyed, or created again, is empty.
LEMMA EmptyStep == IndInv /\ (Destroy \/ New) => IndInv'
<1> SUFFICES ASSUME IndInv, Destroy \/ New PROVE IndInv'
  OBVIOUS
<1>1. New => Carved = {} /\ inUse = {} /\ live = 0 /\ peak = 0
  <2> SUFFICES ASSUME New PROVE Carved = {} /\ inUse = {} /\ live = 0 /\ peak = 0
    OBVIOUS
  <2>1. Carved = {}
    BY NothingCarved DEF New, IndInv, CountInv
  <2>2. inUse = {}
    BY <2>1, Sizes
  <2> QED BY <2>1, <2>2, FS_EmptySet DEF IndInv, CountInv, NoWaste
<1>2. /\ offset' = 0 /\ blocks' \in {0, 1} /\ free_block' = <<>>
      /\ inUse' = {} /\ live' = 0 /\ peak' = 0
      /\ alive' => blocks' >= 1
      /\ ~alive' => blocks' = 0
  BY <1>1 DEF Destroy, New
<1>3. alive' \in BOOLEAN
  BY Zenon DEF Destroy, New
<1>4. Carved' = {} /\ Detached' = {}
  BY <1>2, NothingCarvedNext, EmptyList DEF Detached
<1>5. TypeOK'
  BY <1>2, <1>3, EmptyList, PoolAssumption DEF TypeOK, Lists
<1>6. FreeListShape' /\ Accounting'
  BY <1>2, <1>4, EmptyList DEF FreeListShape, Accounting
<1>7. NoWaste' /\ CountInv'
  BY <1>2, <1>4, FS_EmptySet DEF NoWaste, CountInv
<1> QED BY <1>5, <1>6, <1>7 DEF IndInv

\* Every step keeps the invariant.
LEMMA NextIndInv == IndInv /\ [Next]_vars => IndInv'
<1> SUFFICES ASSUME IndInv, [Next]_vars PROVE IndInv'
  OBVIOUS
<1>1. CASE Alloc
  BY <1>1, DetachedStep, CarveStep DEF Alloc
<1>2. ASSUME NEW item \in Addr, Free(item) PROVE IndInv'
  BY <1>2, FreeStep
<1>3. CASE Destroy \/ New
  BY <1>3, EmptyStep
<1>4. CASE UNCHANGED vars
  <2>1. Carved' = Carved /\ Detached' = Detached
    BY <1>4 DEF vars, Carved, Detached
  <2> QED BY <1>4, <2>1 DEF vars, IndInv, TypeOK, FreeListShape, Accounting, NoWaste, CountInv
<1> QED BY <1>1, <1>2, <1>3, <1>4 DEF Next

\* The invariant holds in every state of the pool.
THEOREM IndInvHolds == Spec => []IndInv
BY InitIndInv, NextIndInv, PTL DEF Spec

\* Every item cut from a block is held by one client or detached in one place,
\* and the pointer blocks stay within their arrays: the reads and writes of
\* items[offset] in pool.c are in bounds and no item is lost or doubled.
THEOREM PoolIsSound == Spec => [](TypeOK /\ Accounting /\ FreeListShape)
BY IndInvHolds, PTL DEF IndInv

\* A pointer block is never read at items[-1] nor written past its end, and only
\* the first one of the list is partly filled.
THEOREM FreeListStaysInBounds == Spec => []FreeListShape
BY IndInvHolds, PTL DEF IndInv

\* The pool cuts a new item only when everything it has cut is in use.
THEOREM PoolWastesNothing == Spec => []NoWaste
BY IndInvHolds, PTL DEF IndInv

\* Every step of the pool is a step of the abstract allocator: an allocation
\* hands out an item that nobody holds.
LEMMA StepSimulation == IndInv /\ [Next]_vars => [Abs!Next]_<<inUse, live>>
<1> SUFFICES ASSUME IndInv, [Next]_vars PROVE [Abs!Next]_<<inUse, live>>
  OBVIOUS
<1> USE DEF Abs!Next
<1>1. CASE AllocDetached
  <2> DEFINE x == Head(free_block)[Len(Head(free_block))]
  <2>1. x \in Detached
    BY <1>1, PopFacts DEF AllocDetached, IndInv, TypeOK, Accounting, Lists
  <2>2. HandOut(x)
    BY <1>1 DEF AllocDetached
  <2> HIDE DEF x
  <2>3. x \in Addr \ inUse
    BY <2>1, Sizes DEF IndInv, Accounting
  <2> QED BY <2>2, <2>3 DEF HandOut, Abs!Alloc
<1>2. CASE AllocCurrent \/ AllocNewBlock
  <2>1. PICK item \in Addr : item \notin Carved /\ HandOut(item)
    BY <1>2, CarveFacts
  <2>2. item \in Addr \ inUse
    BY <2>1, Sizes
  <2> QED BY <2>1, <2>2 DEF HandOut, Abs!Alloc
<1>3. ASSUME NEW item \in Addr, Free(item) PROVE Abs!Free
  BY <1>3 DEF Free, Abs!Free
<1>4. CASE Destroy
  BY <1>4 DEF Destroy, Abs!Destroy
<1>5. CASE New \/ UNCHANGED vars
  BY <1>5 DEF New, vars
<1> QED BY <1>1, <1>2, <1>3, <1>4, <1>5 DEF Next, Alloc

\* MemoryPool implements the Pool interface, for every block_size: whatever the
\* clients allocate and give back, no item is handed out while it is held.
THEOREM PoolImplementsAllocator == Spec => IsAllocator
<1>1. Init => Abs!Init
  BY DEF Init, Abs!Init
<1> QED BY <1>1, StepSimulation, IndInvHolds, PTL DEF Spec, IsAllocator, Abs!Spec
=============================================================================
