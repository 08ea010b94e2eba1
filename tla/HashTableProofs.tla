-------------------------- MODULE HashTableProofs --------------------------
(***************************************************************************)
(* Proofs about HashTable for every set of buckets, keys and values, every *)
(* list of sizes and every limit of the count.                             *)
(*                                                                         *)
(* That buckets form chains is stated without following the chains: every  *)
(* bucket has a home (the chain it is in) and a rank, which falls from a   *)
(* bucket to the next one, and there is no bucket of the chain with a rank *)
(* in between.  Ranks need not be consecutive, so unlinking a bucket does  *)
(* not change those of the others.                                         *)
(***************************************************************************)
EXTENDS HashTable, FiniteSetTheorems, WellFoundedInduction, TLAPS

\* A nonempty set of numbers has a least one.
LEMMA LeastNumber ==
  ASSUME NEW T \in SUBSET Nat, T # {}
  PROVE  \E n \in T : \A m \in T : n <= m
<1> DEFINE R == {ss \in Nat \X Nat : ss[1] < ss[2]}
<1>1. IsWellFoundedOn(R, Nat)
  BY NatLessThanWellFounded DEF OpToRel
<1> HIDE DEF R
<1>2. PICK n \in T : \A m \in T : ~(<<m, n>> \in R)
  BY <1>1, WFMin
<1>3. \A m \in T : m < n => <<m, n>> \in R
  BY DEF R
<1>4. ASSUME NEW m \in T PROVE n <= m
  <2>1. ~(m < n)
    BY <1>2, <1>3, Zenon
  <2>2. m \in Nat /\ n \in Nat
    OBVIOUS
  <2> QED BY <2>1, <2>2
<1> QED BY <1>4

\* Induction, for a set of numbers.
LEMMA SetInduction ==
  ASSUME NEW T, 0 \in T, \A n \in Nat : n \in T => n + 1 \in T
  PROVE  \A n \in Nat : n \in T
<1> SUFFICES ASSUME Nat \ T # {} PROVE FALSE
  OBVIOUS
<1>1. PICK n \in Nat \ T : \A m \in Nat \ T : n <= m
  BY LeastNumber
<1>2. n # 0 /\ n - 1 \in Nat
  BY <1>1
<1>3. n - 1 \in T
  BY <1>1, <1>2
<1> QED BY <1>1, <1>2, <1>3

\* The first n + 1 iterates of g from a.
Iterates(a, g, S, n) ==
  {h \in [0..n -> S] : h[0] = a /\ \A m \in 0..(n - 1) : h[m + 1] = g[h[m]]}

\* f[n] is g applied n times to a.
IsIteration(f, a, g, S) ==
  f \in [Nat -> S] /\ f[0] = a /\ \A n \in Nat : f[n + 1] = g[f[n]]

\* A function can be iterated.
LEMMA IterationExists ==
  ASSUME NEW S, NEW a \in S, NEW g \in [S -> S]
  PROVE  \E f : IsIteration(f, a, g, S)
<1> DEFINE It(n) == Iterates(a, g, S, n)
<1>1. \A n \in Nat : \A h \in It(n), e \in It(n + 1) : \A j \in 0..n : h[j] = e[j]
  <2> SUFFICES ASSUME NEW n \in Nat, NEW h \in It(n), NEW e \in It(n + 1)
               PROVE  \A j \in 0..n : h[j] = e[j]
    OBVIOUS
  <2> DEFINE T == {j \in Nat : j \in 0..n => h[j] = e[j]}
  <2>1. 0 \in T
    BY DEF Iterates
  <2>2. ASSUME NEW j \in Nat, j \in T PROVE j + 1 \in T
    <3> SUFFICES ASSUME j + 1 \in 0..n PROVE h[j + 1] = e[j + 1]
      OBVIOUS
    <3>1. j \in 0..(n - 1) /\ j \in 0..((n + 1) - 1) /\ j \in 0..n
      OBVIOUS
    <3>2. h[j + 1] = g[h[j]] /\ e[j + 1] = g[e[j]]
      BY <3>1 DEF Iterates
    <3> QED BY <2>2, <3>1, <3>2
  <2> HIDE DEF T
  <2>3. \A j \in Nat : j \in T
    BY <2>1, <2>2, SetInduction
  <2> QED BY <2>3 DEF T
<1>2. \A n \in Nat : It(n) # {}
  <2> DEFINE T == {n \in Nat : It(n) # {}}
  <2>1. 0 \in T
    <3>1. [j \in 0..0 |-> a] \in It(0)
      BY DEF Iterates
    <3> QED BY <3>1
  <2>2. ASSUME NEW n \in Nat, n \in T PROVE n + 1 \in T
    <3>1. PICK h : h \in It(n)
      BY <2>2
    <3> DEFINE e == [j \in 0..(n + 1) |-> IF j = n + 1 THEN g[h[n]] ELSE h[j]]
    <3>2. h \in [0..n -> S] /\ h[n] \in S /\ h[0] = a
      BY <3>1 DEF Iterates
    <3>3. e \in [0..(n + 1) -> S] /\ e[0] = a
      BY <3>2
    <3>4. ASSUME NEW m \in 0..((n + 1) - 1) PROVE e[m + 1] = g[e[m]]
      <4>1. CASE m = n
        BY <4>1
      <4>2. CASE m # n
        <5>1. m \in 0..(n - 1) /\ m + 1 \in 0..n /\ m \in 0..n
          BY <4>2
        <5>2. h[m + 1] = g[h[m]]
          BY <3>1, <5>1 DEF Iterates
        <5> QED BY <5>1, <5>2
      <4> QED BY <4>1, <4>2
    <3> HIDE DEF e
    <3>5. e \in It(n + 1)
      BY <3>3, <3>4 DEF Iterates
    <3> QED BY <3>5
  <2> HIDE DEF T
  <2>3. \A n \in Nat : n \in T
    BY <2>1, <2>2, SetInduction
  <2> QED BY <2>3 DEF T
<1> DEFINE c(n) == CHOOSE h : h \in It(n)
<1>3. \A n \in Nat : c(n) \in It(n)
  BY <1>2
<1> HIDE DEF c
<1> DEFINE f == [n \in Nat |-> c(n)[n]]
<1>4. f \in [Nat -> S]
  <2>1. \A n \in Nat : c(n) \in [0..n -> S] /\ n \in 0..n
    BY <1>3 DEF Iterates
  <2> QED BY <2>1
<1>5. f[0] = a
  BY <1>3 DEF Iterates
<1>6. ASSUME NEW n \in Nat PROVE f[n + 1] = g[f[n]]
  <2>1. f[n] = c(n)[n] /\ f[n + 1] = c(n + 1)[n + 1]
    OBVIOUS
  <2>2. c(n) \in It(n) /\ c(n + 1) \in It(n + 1) /\ n \in 0..n
    BY <1>3
  <2>3. c(n)[n] = c(n + 1)[n]
    BY <1>1, <2>2
  <2>4. c(n + 1)[n + 1] = g[c(n + 1)[n]]
    <3>1. n \in 0..((n + 1) - 1)
      OBVIOUS
    <3> QED BY <2>2, <3>1 DEF Iterates
  <2> QED BY <2>1, <2>3, <2>4
<1> HIDE DEF f
<1>7. IsIteration(f, a, g, S)
  BY <1>4, <1>5, <1>6 DEF IsIteration
<1> QED BY <1>7

-----------------------------------------------------------------------------
(***************************************************************************)
(* Chains.  nx is the next field of the buckets, A the buckets in chains,  *)
(* head the array of chains.                                               *)
(***************************************************************************)

\* The head of a chain is in it.
Heads(A, head, home) ==
  \A j \in DOMAIN head : head[j] # NULL => head[j] \in A /\ home[head[j]] = j

\* The head of a chain has the highest rank in it.
Tops(A, head, home, rank) ==
  \A n \in A : /\ home[n] \in DOMAIN head /\ head[home[n]] # NULL
               /\ rank[n] <= rank[head[home[n]]]

\* The next bucket is in the same chain, with a lower rank.
Links(nx, A, home, rank) ==
  \A n \in A : nx[n] # NULL => /\ nx[n] \in A /\ home[nx[n]] = home[n]
                               /\ rank[nx[n]] < rank[n]

\* Every bucket of the chain with a lower rank is the next one, or below it.
Dense(nx, A, home, rank) ==
  \A m, n \in A : home[m] = home[n] /\ rank[m] < rank[n]
                    => nx[n] # NULL /\ rank[m] <= rank[nx[n]]

\* No two buckets of a chain have the same rank.
Distinct(A, home, rank) ==
  \A m, n \in A : home[m] = home[n] /\ rank[m] = rank[n] => m = n

Chained(nx, A, head, home, rank) ==
  /\ Heads(A, head, home) /\ Tops(A, head, home, rank)
  /\ Links(nx, A, home, rank) /\ Dense(nx, A, home, rank) /\ Distinct(A, home, rank)

\* The next fields, or what stands for the places of buckets.
Nexts == [Node -> Node \cup {NULL}]
Numbers == [Node -> Nat]

\* Chains without buckets.
LEMMA NoChains ==
  ASSUME NEW nx, NEW head, NEW home, NEW rank, \A j \in DOMAIN head : head[j] = NULL
  PROVE  Chained(nx, {}, head, home, rank)
BY DEF Chained, Heads, Tops, Links, Dense, Distinct

\* What happens to other buckets does not matter.
LEMMA SameChains ==
  ASSUME NEW A, NEW nx, NEW nx2, NEW head, NEW home, NEW home2, NEW rank, NEW rank2,
         Chained(nx, A, head, home, rank),
         \A n \in A : nx2[n] = nx[n] /\ home2[n] = home[n] /\ rank2[n] = rank[n]
  PROVE  Chained(nx2, A, head, home2, rank2)
<1>1. Heads(A, head, home2)
  BY DEF Chained, Heads
<1>2. Tops(A, head, home2, rank2)
  BY DEF Chained, Heads, Tops
<1>3. Links(nx2, A, home2, rank2)
  BY DEF Chained, Links
<1>4. Dense(nx2, A, home2, rank2)
  BY DEF Chained, Links, Dense
<1>5. Distinct(A, home2, rank2)
  BY DEF Chained, Distinct
<1> QED BY <1>1, <1>2, <1>3, <1>4, <1>5 DEF Chained

\* A new head of a chain, which ranks above the former one.
LEMMA PushHead ==
  ASSUME NEW A \in SUBSET Node, NEW nx, NEW nx2, NEW head, NEW j \in DOMAIN head,
         NEW home \in Numbers, NEW rank \in Numbers,
         Chained(nx, A, head, home, rank),
         NEW n \in Node \ A, NEW r \in Nat, j \in Nat,
         head[j] # NULL => rank[head[j]] < r,
         nx2[n] = head[j], \A m \in A : nx2[m] = nx[m]
  PROVE  Chained(nx2, A \cup {n}, [head EXCEPT ![j] = n],
                 [home EXCEPT ![n] = j], [rank EXCEPT ![n] = r])
<1>n. NULL \notin Node
  BY TableAssumption
<1> DEFINE A2 == A \cup {n}
           head2 == [head EXCEPT ![j] = n]
           home2 == [home EXCEPT ![n] = j]
           rank2 == [rank EXCEPT ![n] = r]
<1>a. /\ DOMAIN head2 = DOMAIN head /\ head2[j] = n
      /\ \A k \in DOMAIN head : k # j => head2[k] = head[k]
  OBVIOUS
<1>b. /\ home2[n] = j /\ rank2[n] = r
      /\ \A m \in A : home2[m] = home[m] /\ rank2[m] = rank[m] /\ rank[m] \in Nat
  BY DEF Numbers
<1> HIDE DEF A2, head2, home2, rank2
<1>c. A2 = A \cup {n} /\ n \notin A /\ n # NULL /\ A \subseteq Node
  BY <1>n DEF A2
<1>d. \A m \in A : home[m] = j => head[j] # NULL /\ rank[m] <= rank[head[j]] /\ rank[m] < r
  <2>1. ASSUME NEW m \in A, home[m] = j PROVE head[j] # NULL /\ rank[m] <= rank[head[j]] /\ rank[m] < r
    <3>1. head[j] # NULL /\ rank[m] <= rank[head[j]] /\ head[j] \in A
      BY <2>1 DEF Chained, Tops, Heads
    <3> QED BY <3>1, <1>b
  <2> QED BY <2>1
<1>1. Heads(A2, head2, home2)
  BY <1>a, <1>b, <1>c DEF Chained, Heads
<1>2. Tops(A2, head2, home2, rank2)
  <2>1. ASSUME NEW m \in A PROVE /\ home2[m] \in DOMAIN head2 /\ head2[home2[m]] # NULL
                                 /\ rank2[m] <= rank2[head2[home2[m]]]
    <3>1. CASE home[m] = j
      BY <3>1, <1>a, <1>b, <1>c, <1>d
    <3>2. CASE home[m] # j
      BY <3>2, <1>a, <1>b, <1>c DEF Chained, Tops, Heads
    <3> QED BY <3>1, <3>2
  <2> QED BY <2>1, <1>a, <1>b, <1>c DEF Tops
<1>3. Links(nx2, A2, home2, rank2)
  <2>1. ASSUME NEW m \in A, nx2[m] # NULL
        PROVE  nx2[m] \in A2 /\ home2[nx2[m]] = home2[m] /\ rank2[nx2[m]] < rank2[m]
    BY <2>1, <1>b, <1>c DEF Chained, Links
  <2>2. ASSUME nx2[n] # NULL
        PROVE  nx2[n] \in A2 /\ home2[nx2[n]] = home2[n] /\ rank2[nx2[n]] < rank2[n]
    BY <2>2, <1>b, <1>c DEF Chained, Heads
  <2> QED BY <2>1, <2>2, <1>c DEF Links
<1>4. Dense(nx2, A2, home2, rank2)
  <2>1. ASSUME NEW m \in A2, NEW k \in A2, home2[m] = home2[k], rank2[m] < rank2[k]
        PROVE  nx2[k] # NULL /\ rank2[m] <= rank2[nx2[k]]
    <3>1. CASE m \in A /\ k \in A
      <4>1. nx[k] # NULL /\ rank[m] <= rank[nx[k]] /\ nx[k] \in A
        BY <2>1, <3>1, <1>b DEF Chained, Dense, Links
      <4> QED BY <3>1, <4>1, <1>b
    <3>2. CASE m \in A /\ k = n
      <4>1. head[j] # NULL /\ rank[m] <= rank[head[j]] /\ head[j] \in A
        BY <2>1, <3>2, <1>b, <1>d DEF Chained, Heads
      <4> QED BY <3>2, <4>1, <1>b
    <3>3. CASE m = n /\ k \in A
      BY <2>1, <3>3, <1>b, <1>d
    <3>4. CASE m = n /\ k = n
      BY <2>1, <3>4, <1>b
    <3> QED BY <3>1, <3>2, <3>3, <3>4, <1>c
  <2> QED BY <2>1 DEF Dense
<1>5. Distinct(A2, home2, rank2)
  <2>1. ASSUME NEW m \in A2, NEW k \in A2, home2[m] = home2[k], rank2[m] = rank2[k] PROVE m = k
    <3>1. CASE m \in A /\ k \in A
      BY <2>1, <3>1, <1>b DEF Chained, Distinct
    <3>2. CASE m \in A /\ k = n
      BY <2>1, <3>2, <1>b, <1>d
    <3>3. CASE m = n /\ k \in A
      BY <2>1, <3>3, <1>b, <1>d
    <3> QED BY <3>1, <3>2, <3>3, <1>c
  <2> QED BY <2>1 DEF Distinct
<1> QED BY <1>1, <1>2, <1>3, <1>4, <1>5 DEF Chained, A2, head2, home2, rank2

\* The head of a chain is taken out.
LEMMA PopHead ==
  ASSUME NEW A \in SUBSET Node, NEW nx, NEW head, NEW j \in DOMAIN head,
         NEW home \in Numbers, NEW rank \in Numbers,
         Chained(nx, A, head, home, rank), head[j] # NULL
  PROVE  Chained(nx, A \ {head[j]}, [head EXCEPT ![j] = nx[head[j]]], home, rank)
<1>a. PICK n : n = head[j]
  OBVIOUS
<1>b. n \in A /\ home[n] = j /\ n # NULL
  BY <1>a DEF Chained, Heads
<1> DEFINE B == A \ {n}
           head2 == [head EXCEPT ![j] = nx[n]]
<1>c. /\ DOMAIN head2 = DOMAIN head /\ head2[j] = nx[n]
      /\ \A k \in DOMAIN head : k # j => head2[k] = head[k]
  OBVIOUS
<1> HIDE DEF B, head2
<1>d. B = A \ {n} /\ \A m \in A : rank[m] \in Nat
  BY DEF B, Numbers
<1>e. \A m \in B : home[m] = j => rank[m] < rank[n]
  <2>1. ASSUME NEW m \in B, home[m] = j PROVE rank[m] < rank[n]
    <3>1. rank[m] <= rank[n] /\ m # n /\ m \in A
      BY <2>1, <1>a, <1>d DEF Chained, Tops
    <3>2. rank[m] # rank[n]
      BY <2>1, <3>1, <1>b DEF Chained, Distinct
    <3> QED BY <3>1, <3>2, <1>b, <1>d
  <2> QED BY <2>1
<1>1. Heads(B, head2, home)
  <2>1. ASSUME NEW k \in DOMAIN head2, head2[k] # NULL PROVE head2[k] \in B /\ home[head2[k]] = k
    <3>1. CASE k = j
      <4>1. nx[n] \in A /\ home[nx[n]] = j /\ rank[nx[n]] < rank[n]
        BY <2>1, <3>1, <1>b, <1>c DEF Chained, Links
      <4> QED BY <3>1, <4>1, <1>b, <1>c, <1>d
    <3>2. CASE k # j
      BY <2>1, <3>2, <1>b, <1>c, <1>d DEF Chained, Heads
    <3> QED BY <3>1, <3>2
  <2> QED BY <2>1 DEF Heads
<1>2. Tops(B, head2, home, rank)
  <2>1. ASSUME NEW m \in B PROVE /\ home[m] \in DOMAIN head2 /\ head2[home[m]] # NULL
                                 /\ rank[m] <= rank[head2[home[m]]]
    <3>1. CASE home[m] = j
      <4>1. m \in A /\ rank[m] < rank[n]
        BY <3>1, <1>d, <1>e
      <4>2. nx[n] # NULL /\ rank[m] <= rank[nx[n]]
        BY <3>1, <4>1, <1>b DEF Chained, Dense
      <4> QED BY <3>1, <4>2, <1>c
    <3>2. CASE home[m] # j
      BY <3>2, <1>c, <1>d DEF Chained, Tops
    <3> QED BY <3>1, <3>2
  <2> QED BY <2>1 DEF Tops
<1>3. Links(nx, B, home, rank)
  <2>1. ASSUME NEW m \in B, nx[m] # NULL
        PROVE  nx[m] \in B /\ home[nx[m]] = home[m] /\ rank[nx[m]] < rank[m]
    <3>1. nx[m] \in A /\ home[nx[m]] = home[m] /\ rank[nx[m]] < rank[m] /\ m \in A
      BY <2>1, <1>d DEF Chained, Links
    <3>2. nx[m] # n
      <4>1. ASSUME nx[m] = n PROVE FALSE
        <5>1. home[m] = j /\ rank[m] < rank[n]
          BY <4>1, <3>1, <1>b, <1>e
        <5> QED BY <5>1, <4>1, <3>1, <1>b, <1>d
      <4> QED BY <4>1
    <3> QED BY <3>1, <3>2, <1>d
  <2> QED BY <2>1 DEF Links
<1>4. Dense(nx, B, home, rank) /\ Distinct(B, home, rank)
  BY <1>d DEF Chained, Dense, Distinct
<1> QED BY <1>1, <1>2, <1>3, <1>4, <1>a DEF Chained, B, head2

\* A bucket n that follows p is taken out.
LEMMA SkipNext ==
  ASSUME NEW A \in SUBSET Node, NEW nx, NEW nx2, NEW head,
         NEW home \in Numbers, NEW rank \in Numbers,
         Chained(nx, A, head, home, rank),
         NEW p \in A, NEW n \in A, nx[p] = n, nx2[p] = nx[n],
         \A m \in A \ {p, n} : nx2[m] = nx[m]
  PROVE  Chained(nx2, A \ {n}, head, home, rank)
<1>n. NULL \notin Node
  BY TableAssumption
<1> DEFINE B == A \ {n}
<1>a. home[n] = home[p] /\ rank[n] < rank[p] /\ n # NULL
  BY <1>n DEF Chained, Links
<1>b. B = A \ {n} /\ \A m \in A : rank[m] \in Nat
  BY DEF Numbers
<1> HIDE DEF B
<1>c. p \in B
  BY <1>a, <1>b
\* No other bucket has n as its next one, nor has a chain n as its head.
<1>d. \A m \in A : nx[m] = n => m = p
  <2>1. ASSUME NEW m \in A, nx[m] = n, m # p PROVE FALSE
    <3>1. home[m] = home[n] /\ rank[n] < rank[m]
      BY <2>1, <1>a DEF Chained, Links
    <3>2. rank[m] # rank[p]
      BY <2>1, <3>1, <1>a DEF Chained, Distinct
    <3>3. CASE rank[m] < rank[p]
      <4>1. rank[m] <= rank[n]
        BY <3>1, <3>3, <1>a DEF Chained, Dense
      <4> QED BY <4>1, <3>1, <1>b
    <3>4. CASE rank[p] < rank[m]
      <4>1. rank[p] <= rank[nx[m]]
        BY <3>1, <3>4, <1>a DEF Chained, Dense
      <4> QED BY <4>1, <2>1, <1>a, <1>b
    <3> QED BY <3>2, <3>3, <3>4, <1>b
  <2> QED BY <2>1
<1>e. \A j \in DOMAIN head : head[j] # n
  <2>1. ASSUME NEW j \in DOMAIN head, head[j] = n PROVE FALSE
    <3>1. home[n] = j
      BY <2>1, <1>a DEF Chained, Heads
    <3>2. rank[p] <= rank[n]
      BY <2>1, <3>1, <1>a DEF Chained, Tops
    <3> QED BY <3>2, <1>a, <1>b
  <2> QED BY <2>1
<1>f. \A m \in B : m # p => nx2[m] = nx[m]
  BY <1>b
<1>1. Heads(B, head, home)
  BY <1>b, <1>e DEF Chained, Heads
<1>2. Tops(B, head, home, rank)
  BY <1>b DEF Chained, Tops
<1>3. Links(nx2, B, home, rank)
  <2>1. ASSUME NEW m \in B, nx2[m] # NULL
        PROVE  nx2[m] \in B /\ home[nx2[m]] = home[m] /\ rank[nx2[m]] < rank[m]
    <3>1. CASE m = p
      <4>1. nx[n] \in A /\ home[nx[n]] = home[n] /\ rank[nx[n]] < rank[n]
        BY <2>1, <3>1 DEF Chained, Links
      <4> QED BY <3>1, <4>1, <1>a, <1>b
    <3>2. CASE m # p
      <4>1. nx[m] \in A /\ home[nx[m]] = home[m] /\ rank[nx[m]] < rank[m]
        BY <2>1, <3>2, <1>b, <1>f DEF Chained, Links
      <4> QED BY <3>2, <4>1, <1>b, <1>d, <1>f
    <3> QED BY <3>1, <3>2
  <2> QED BY <2>1 DEF Links
<1>4. Dense(nx2, B, home, rank)
  <2>1. ASSUME NEW m \in B, NEW k \in B, home[m] = home[k], rank[m] < rank[k]
        PROVE  nx2[k] # NULL /\ rank[m] <= rank[nx2[k]]
    <3>0. m \in A /\ k \in A /\ m # n
      BY <1>b
    <3>1. CASE k = p
      <4>1. rank[m] <= rank[n]
        BY <2>1, <3>0, <3>1 DEF Chained, Dense
      <4>2. rank[m] # rank[n]
        BY <2>1, <3>0, <3>1, <1>a DEF Chained, Distinct
      <4>3. rank[m] < rank[n]
        BY <4>1, <4>2, <3>0, <1>b
      <4>4. nx[n] # NULL /\ rank[m] <= rank[nx[n]]
        BY <2>1, <3>0, <3>1, <4>3, <1>a DEF Chained, Dense
      <4> QED BY <3>1, <4>4
    <3>2. CASE k # p
      BY <2>1, <3>0, <3>2, <1>f DEF Chained, Dense
    <3> QED BY <3>1, <3>2
  <2> QED BY <2>1 DEF Dense
<1>5. Distinct(B, home, rank)
  BY <1>b DEF Chained, Distinct
<1> QED BY <1>1, <1>2, <1>3, <1>4, <1>5 DEF Chained, B

\* The next fields of the buckets.
NextOf(nd) == [n \in Node |-> nd[n].next]

NodeType == [Node -> [key : KeyObject \cup {NULL}, data : Value \cup {NULL},
                      next : Node \cup {NULL}]]

\* The next fields are a function on the buckets.
LEMMA NextOfType ==
  ASSUME NEW nd \in NodeType
  PROVE  NextOf(nd) \in Nexts /\ \A n \in Node : NextOf(nd)[n] = nd[n].next
<1>1. \A n \in Node : nd[n].next \in Node \cup {NULL}
  BY DEF NodeType
<1> QED BY <1>1 DEF NextOf, Nexts

\* There are finitely many buckets.
LEMMA NodeCount == Cardinality(Node) \in Nat /\ IsFiniteSet(Node) /\ NULL \notin Node
BY TableAssumption, FS_CardinalityType

\* What Walk visits.
LEMMA WalkValues ==
  ASSUME NEW nd \in NodeType, NEW n \in Node \cup {NULL}
  PROVE  /\ Walk(nd, n)[0] = n
         /\ \A j \in 0..(Cardinality(Node) - 1) :
              Walk(nd, n)[j + 1] = IF Walk(nd, n)[j] = NULL THEN NULL ELSE nd[Walk(nd, n)[j]].next
<1> DEFINE S == Node \cup {NULL}
           C == Cardinality(Node)
           D == 0..C
           g == [x \in S |-> IF x = NULL THEN NULL ELSE nd[x].next]
<1>0. C \in Nat
  BY NodeCount
<1>1. \A x \in Node : nd[x].next \in S
  BY DEF NodeType
<1>2. g \in [S -> S] /\ n \in S
  BY <1>1, NodeCount
<1>g. \A x \in S : g[x] = IF x = NULL THEN NULL ELSE nd[x].next
  OBVIOUS
<1> HIDE DEF S, g, C
<1>3. PICK h : IsIteration(h, n, g, S)
  BY <1>2, IterationExists
<1>4. h \in [Nat -> S] /\ h[0] = n /\ \A k \in Nat : h[k + 1] = g[h[k]]
  BY <1>3 DEF IsIteration
<1> DEFINE f == [k \in D |-> h[k]]
           Eq(e) == e = [k \in D |-> IF k = 0 THEN n
                                     ELSE IF e[k - 1] = NULL THEN NULL ELSE nd[e[k - 1]].next]
<1>5. Eq(f)
  <2>1. ASSUME NEW k \in D
        PROVE  f[k] = IF k = 0 THEN n ELSE IF f[k - 1] = NULL THEN NULL ELSE nd[f[k - 1]].next
    <3>1. CASE k = 0
      BY <1>0, <1>4, <3>1
    <3>2. CASE k # 0
      <4>1. k - 1 \in Nat /\ k - 1 \in D /\ (k - 1) + 1 = k /\ k \in Nat
        BY <3>2, <1>0
      <4>2. h[k] = g[h[k - 1]] /\ h[k - 1] \in S
        BY <1>4, <4>1
      <4>3. f[k] = h[k] /\ f[k - 1] = h[k - 1]
        BY <4>1
      <4> QED BY <3>2, <4>2, <4>3, <1>g
    <3> QED BY <3>1, <3>2
  <2> QED BY <2>1
<1> HIDE DEF f
<1>6. Walk(nd, n) = CHOOSE e : Eq(e)
  BY DEF Walk, C
<1>7. Eq(Walk(nd, n))
  <2> HIDE DEF Eq
  <2> QED BY <1>5, <1>6, Zenon
<1> DEFINE e == Walk(nd, n)
<1> HIDE DEF e
<1>8. e = [k \in D |-> IF k = 0 THEN n ELSE IF e[k - 1] = NULL THEN NULL ELSE nd[e[k - 1]].next]
  BY <1>7 DEF e
<1>9. e[0] = n
  BY <1>8, <1>0
<1>10. ASSUME NEW k \in 0..(C - 1)
       PROVE  e[k + 1] = IF e[k] = NULL THEN NULL ELSE nd[e[k]].next
  <2>1. k + 1 \in D /\ k + 1 # 0 /\ (k + 1) - 1 = k
    BY <1>0
  <2> QED BY <1>8, <2>1
<1> QED BY <1>9, <1>10 DEF e, C

\* No bucket follows NULL.
LEMMA ChainOfNull ==
  ASSUME NEW nd \in NodeType
  PROVE  Chain(nd, NULL) = {} /\ Ends(nd, NULL)
<1> DEFINE W == Walk(nd, NULL)
           C == Cardinality(Node)
           T == {k \in Nat : k \in 0..C => W[k] = NULL}
<1>0. C \in Nat
  BY NodeCount
<1>1. W[0] = NULL /\ \A j \in 0..(C - 1) : W[j] = NULL => W[j + 1] = NULL
  BY WalkValues
<1> HIDE DEF W, C
<1>2. 0 \in T
  BY <1>1
<1>3. ASSUME NEW k \in Nat, k \in T PROVE k + 1 \in T
  <2> SUFFICES ASSUME k + 1 \in 0..C PROVE W[k + 1] = NULL
    OBVIOUS
  <2>1. k \in 0..(C - 1) /\ k \in 0..C
    BY <1>0
  <2> QED BY <1>1, <1>3, <2>1
<1> HIDE DEF T
<1>4. \A k \in Nat : k \in T
  BY <1>2, <1>3, SetInduction
<1>5. \A k \in 0..C : W[k] = NULL
  BY <1>4 DEF T
<1>6. W[C] = NULL
  BY <1>0, <1>5
<1> QED BY <1>5, <1>6 DEF Chain, Ends, W, C

\* The buckets of the chain of n with a rank not above that of n.
Below(A, home, rank, n) == {m \in A : home[m] = home[n] /\ rank[m] <= rank[n]}

\* Following the next fields from a bucket visits the buckets of its chain with
\* no higher rank, and comes to an end.
LEMMA ChainOfBucket ==
  ASSUME NEW nd \in NodeType, NEW A \in SUBSET Node, NEW head,
         NEW home \in Numbers, NEW rank \in Numbers,
         Chained(NextOf(nd), A, head, home, rank), NEW n \in A
  PROVE  Chain(nd, n) = Below(A, home, rank, n) /\ Ends(nd, n)
<1> DEFINE W == Walk(nd, n)
           C == Cardinality(Node)
           nx == NextOf(nd)
<1>0. C \in Nat /\ NULL \notin A /\ \A m \in A : rank[m] \in Nat
  BY NodeCount DEF Numbers
<1>1. W[0] = n /\ \A j \in 0..(C - 1) : W[j + 1] = IF W[j] = NULL THEN NULL ELSE nd[W[j]].next
  BY WalkValues
<1>2. \A m \in A : nx[m] = nd[m].next
  BY NextOfType
<1> HIDE DEF W, C, nx
<1>3. Links(nx, A, home, rank) /\ Dense(nx, A, home, rank) /\ Distinct(A, home, rank)
  BY DEF Chained, nx
\* Where the walk is after k steps, and that ranks fall along it.
<1> DEFINE In(k) == W[k] \in A /\ home[W[k]] = home[n] /\ rank[W[k]] <= rank[n]
           At(k) == /\ W[k] = NULL \/ In(k)
                    /\ W[k] # NULL => \A j \in 0..(k - 1) : W[j] \in A /\ rank[W[k]] < rank[W[j]]
           T == {k \in Nat : k \in 0..C => At(k)}
<1>4. 0 \in T
  BY <1>0, <1>1
<1>5. ASSUME NEW k \in Nat, k \in T PROVE k + 1 \in T
  <2> SUFFICES ASSUME k + 1 \in 0..C, W[k + 1] # NULL
               PROVE  In(k + 1) /\ \A j \in 0..k : W[j] \in A /\ rank[W[k + 1]] < rank[W[j]]
    OBVIOUS
  <2>1. k \in 0..(C - 1) /\ k \in 0..C
    BY <1>0
  <2>2. At(k)
    BY <1>5, <2>1
  <2>3. W[k] # NULL /\ W[k + 1] = nx[W[k]] /\ In(k)
    BY <2>1, <2>2, <1>1, <1>2
  <2>4. nx[W[k]] \in A /\ home[nx[W[k]]] = home[W[k]] /\ rank[nx[W[k]]] < rank[W[k]]
    BY <2>3, <1>3 DEF Links
  <2>5. In(k + 1)
    BY <2>3, <2>4, <1>0
  <2>6. ASSUME NEW j \in 0..k PROVE W[j] \in A /\ rank[W[k + 1]] < rank[W[j]]
    <3>1. CASE j = k
      BY <3>1, <2>3, <2>4
    <3>2. CASE j # k
      <4>1. W[j] \in A /\ rank[W[k]] < rank[W[j]]
        BY <3>2, <2>2, <2>3
      <4> QED BY <4>1, <2>3, <2>4, <1>0
    <3> QED BY <3>1, <3>2
  <2> QED BY <2>5, <2>6
<1> HIDE DEF T
<1>6. \A k \in Nat : k \in T
  BY <1>4, <1>5, SetInduction
<1>7. \A k \in 0..C : At(k)
  BY <1>6, <1>0 DEF T
\* Otherwise there were more buckets than addresses.
<1>8. W[C] = NULL
  <2> SUFFICES ASSUME W[C] # NULL PROVE FALSE
    OBVIOUS
  <2>1. \A k \in 0..C : W[k] \in A
    <3>1. At(C)
      BY <1>0, <1>7
    <3> QED BY <3>1, <1>0
  <2>2. \A j, k \in 0..C : W[j] = W[k] => j = k
    <3>1. ASSUME NEW k \in 0..C, NEW j \in 0..(k - 1) PROVE W[j] # W[k]
      <4>1. W[k] \in A /\ W[j] \in A /\ rank[W[k]] < rank[W[j]]
        BY <1>0, <1>7, <2>1
      <4> QED BY <4>1, <1>0
    <3>2. ASSUME NEW k \in 0..C, NEW j \in 0..C, W[j] = W[k] PROVE j = k
      <4>1. ~(j < k)
        BY <3>1, <3>2
      <4>2. ~(k < j)
        BY <3>1, <3>2
      <4> QED BY <4>1, <4>2
    <3> QED BY <3>2
  <2> DEFINE f == [k \in 0..C |-> W[k]]
  <2>3. f \in Injection(0..C, Node)
    <3>1. f \in [0..C -> Node]
      BY <2>1
    <3>2. IsInjective(f)
      BY <2>2 DEF IsInjective
    <3> QED BY <3>1, <3>2 DEF Injection
  <2> HIDE DEF f
  <2>4. Cardinality(0..C) <= C
    BY <2>3, NodeCount, FS_Injection DEF C
  <2>5. Cardinality(0..C) = C + 1
    <3>1. 0 \in Int /\ C \in Int /\ ~(0 > C)
      BY <1>0
    <3>2. Cardinality(0..C) = (C - 0) + 1
      BY <3>1, FS_Interval
    <3> QED BY <3>2, <1>0
  <2> QED BY <2>4, <2>5, <1>0
\* A bucket with a rank not above that of n has been visited, or is still below.
<1>9. ASSUME NEW m \in A, home[m] = home[n], rank[m] <= rank[n]
      PROVE  \E k \in 0..C : W[k] = m
  <2> DEFINE U == {k \in Nat : k \in 0..C => \/ \E j \in 0..C : W[j] = m
                                             \/ W[k] # NULL /\ rank[m] < rank[W[k]]}
  <2>1. 0 \in U
    <3>1. CASE m = n
      BY <3>1, <1>0, <1>1
    <3>2. CASE m # n
      <4>1. rank[m] # rank[n]
        BY <3>2, <1>9, <1>3 DEF Distinct
      <4> QED BY <4>1, <1>9, <1>0, <1>1
    <3> QED BY <3>1, <3>2
  <2>2. ASSUME NEW k \in Nat, k \in U PROVE k + 1 \in U
    <3> SUFFICES ASSUME k + 1 \in 0..C, ~\E j \in 0..C : W[j] = m
                 PROVE  W[k + 1] # NULL /\ rank[m] < rank[W[k + 1]]
      OBVIOUS
    <3>1. k \in 0..(C - 1) /\ k \in 0..C
      BY <1>0
    <3>2. W[k] # NULL /\ rank[m] < rank[W[k]] /\ In(k)
      BY <2>2, <3>1, <1>7
    <3>3. W[k + 1] = nx[W[k]]
      BY <3>1, <3>2, <1>1, <1>2
    <3>4. nx[W[k]] # NULL /\ rank[m] <= rank[nx[W[k]]]
      BY <3>2, <1>9, <1>3 DEF Dense
    <3>5. nx[W[k]] \in A /\ home[nx[W[k]]] = home[m]
      BY <3>2, <3>4, <1>9, <1>3 DEF Links
    <3>6. rank[m] # rank[nx[W[k]]]
      <4>1. m # nx[W[k]]
        BY <3>3
      <4> QED BY <4>1, <3>5, <1>3 DEF Distinct
    <3> QED BY <3>3, <3>4, <3>5, <3>6, <1>0
  <2> HIDE DEF U
  <2>3. \A k \in Nat : k \in U
    BY <2>1, <2>2, SetInduction
  <2>4. C \in U /\ C \in 0..C
    BY <2>3, <1>0
  <2> QED BY <2>4, <1>8 DEF U
<1>10. Chain(nd, n) = {W[k] : k \in 0..C} \ {NULL}
  BY DEF Chain, W, C
<1>11. ASSUME NEW m PROVE m \in Chain(nd, n) <=> m \in Below(A, home, rank, n)
  <2>1. ASSUME m \in Chain(nd, n) PROVE m \in Below(A, home, rank, n)
    <3>1. PICK k \in 0..C : m = W[k] /\ W[k] # NULL
      BY <2>1, <1>10
    <3>2. In(k)
      BY <3>1, <1>7
    <3> QED BY <3>1, <3>2 DEF Below
  <2>2. ASSUME m \in Below(A, home, rank, n) PROVE m \in Chain(nd, n)
    <3>1. m \in A /\ home[m] = home[n] /\ rank[m] <= rank[n] /\ m # NULL
      BY <2>2, <1>0 DEF Below
    <3>2. PICK k \in 0..C : W[k] = m
      BY <3>1, <1>9
    <3> QED BY <3>1, <3>2, <1>10
  <2> QED BY <2>1, <2>2
<1>12. Chain(nd, n) = Below(A, home, rank, n)
  BY <1>11
<1> QED BY <1>12, <1>8 DEF Ends, W, C

\* A whole chain: the buckets that have it as their home.
LEMMA ChainOfHead ==
  ASSUME NEW nd \in NodeType, NEW A \in SUBSET Node, NEW head,
         NEW home \in Numbers, NEW rank \in Numbers,
         Chained(NextOf(nd), A, head, home, rank), NEW j \in DOMAIN head
  PROVE  Chain(nd, head[j]) = {m \in A : home[m] = j} /\ Ends(nd, head[j])
<1>1. CASE head[j] = NULL
  <2>1. {m \in A : home[m] = j} = {}
    BY <1>1 DEF Chained, Tops
  <2> QED BY <2>1, <1>1, ChainOfNull
<1>2. CASE head[j] # NULL
  <2>1. head[j] \in A /\ home[head[j]] = j
    BY <1>2 DEF Chained, Heads
  <2>2. \A m \in A : home[m] = j => rank[m] <= rank[head[j]]
    BY DEF Chained, Tops
  <2>3. Chain(nd, head[j]) = Below(A, home, rank, head[j]) /\ Ends(nd, head[j])
    BY <2>1, ChainOfBucket
  <2> QED BY <2>1, <2>2, <2>3 DEF Below
<1> QED BY <1>1, <1>2

-----------------------------------------------------------------------------
(***************************************************************************)
(* The inductive invariant.                                                *)
(***************************************************************************)

\* The chains of the old array that a resize has still to move.
Rest == [j \in DOMAIN old |-> IF j < i THEN NULL ELSE IF j = i THEN iter ELSE old[j]]

\* How far a search has come: the bucket with the key, if there is one, is not
\* above iter; and prev is the bucket before it.
Searching(rank) ==
  /\ iter # NULL => iter \in heap /\ INDEX(node[iter].key.key) = INDEX(req.key)
  /\ \A n \in heap : node[n].key.key = req.key => iter # NULL /\ rank[n] <= rank[iter]
  /\ pc = "remove" /\ prev = NULL => iter = buckets[INDEX(req.key)]
  /\ pc = "remove" /\ prev # NULL => /\ prev \in heap /\ node[prev].next = iter
                                     /\ INDEX(node[prev].key.key) = INDEX(req.key)

\* The buckets are in chains, those of left in chains of the old array.
Structure(home, rank, left) ==
  /\ home \in Numbers /\ rank \in Numbers /\ left \in SUBSET heap
  /\ Chained(NextOf(node), heap \ left, buckets, home, rank)
  /\ pc # "resize" => left = {}
  /\ pc = "resize" => Chained(NextOf(node), left, Rest, home, rank)
  /\ \A n \in heap \ left : home[n] = INDEX(node[n].key.key)
  /\ pc \in {"find", "remove"} => Searching(rank)

Shape == \E home, rank, left : Structure(home, rank, left)

\* No two buckets have the same key.
KeysInv == /\ \A n \in heap : node[n].key \in KeyObject
           /\ \A m, n \in heap : node[m].key.key = node[n].key.key => m = n

CountInv == IsFiniteSet(heap) /\ count = Cardinality(heap)

\* Which call is in progress.
CallInv == /\ pc = "idle" => req = NULL
           /\ pc \in {"set", "resize"} => req \in SetRequest
           /\ pc = "find" => req \in Request /\ req.op # "remove"
           /\ pc = "remove" => req \in Request /\ req.op = "remove"

\* _hashtable_resize is within the old array.
ResizeInv == pc = "resize" => \E m \in Nat \ {0} : /\ old \in [0..(m - 1) -> Node \cup {NULL}]
                                                   /\ i \in 0..(m - 1)

\* Where in the list of sizes the table is.
SizeInv == grow => sizeptr \in 1..Len(PRIMES) /\ size = PRIMES[sizeptr]

\* Once hashtable_set has seen to the size there is room for another element.
Checked == pc = "resize" \/ (pc = "find" /\ req.op = "set")
Ascending == \A j \in 1..(sizeptr - 1) : PRIMES[j] < PRIMES[j + 1]
LoadInv == grow /\ Ascending => /\ count <= size + 1
                                /\ Checked => count <= size

\* Where the iterator is.
IterInv == /\ ~iterating => liter = NULL /\ offset = 0 /\ ~finished
           /\ iterating => pc \in {"idle", "find", "remove"} /\ ~Checked
           /\ liter # NULL => /\ liter \in heap /\ ~finished
                              /\ offset = INDEX(node[liter].key.key) + 1
           /\ finished => offset = size
           /\ iterating /\ liter = NULL /\ ~finished => offset = 0

IndInv == /\ TypeOK /\ Shape /\ KeysInv /\ CountInv /\ CallInv /\ ResizeInv
          /\ SizeInv /\ LoadInv /\ IterInv /\ PairRefers

\* The parts of a request.
LEMMA Requests ==
  ASSUME NEW r \in Request
  PROVE  /\ r.key \in Key
         /\ r.op \in {"set", "remove", "lookup", "exists"}
         /\ r.op = "set" <=> r \in SetRequest
         /\ r.op = "set" => r.copy \in Copy /\ r.value \in Value /\ r.over \in BOOLEAN
<1>1. CASE r \in SetRequest
  <2>1. PICK e \in Offered, o \in BOOLEAN :
          r = [op |-> "set", key |-> e.key, copy |-> e.copy, value |-> e.value, over |-> o]
    BY <1>1 DEF SetRequest
  <2>2. e \in [key : Key, copy : Copy, value : Value]
    BY TableAssumption
  <2>3. e.key \in Key /\ e.copy \in Copy /\ e.value \in Value
    BY <2>2
  <2> QED BY <1>1, <2>1, <2>3
<1>2. CASE r \in [op : {"remove", "lookup", "exists"}, key : Key]
  <2>1. r.op \in {"remove", "lookup", "exists"} /\ r.key \in Key
    BY <1>2
  <2>2. r.op # "set"
    BY <2>1
  <2>3. r \notin SetRequest
    <3>1. \A s \in SetRequest : s.op = "set"
      BY DEF SetRequest
    <3> QED BY <3>1, <2>2
  <2> QED BY <2>1, <2>2, <2>3
<1> QED BY <1>1, <1>2 DEF Request

\* The place of a key is in the array of chains.
LEMMA IndexInArray ==
  ASSUME TypeOK, NEW k \in Key
  PROVE  INDEX(k) \in 0..(size - 1) /\ INDEX(k) \in Nat /\ INDEX(k) \in DOMAIN buckets
<1>1. size \in Nat \ {0} /\ DOMAIN buckets = 0..(size - 1)
  BY DEF TypeOK
<1>2. direct_hash(k) \in Nat
  BY TableAssumption DEF direct_hash
<1>3. direct_hash(k) % size \in 0..(size - 1)
  BY <1>1, <1>2
<1> QED BY <1>1, <1>3 DEF INDEX

\* The key of a bucket that is in use.
LEMMA KeyOfBucket ==
  ASSUME KeysInv, NEW n \in heap
  PROVE  node[n].key.key \in Key /\ node[n].key.copy \in Copy
BY DEF KeysInv, KeyObject

\* The parts of TypeOK.
LEMMA Types ==
  ASSUME TypeOK
  PROVE  /\ node \in NodeType /\ heap \subseteq Node /\ NextOf(node) \in Nexts
         /\ \A n \in Node : NextOf(node)[n] = node[n].next /\ node[n].next \in Node \cup {NULL}
         /\ size \in Nat /\ size > 0 /\ count \in Nat
         /\ NULL \notin Node /\ NULL \notin heap
<1>1. node \in NodeType
  BY DEF TypeOK, NodeType
<1>2. \A n \in Node : node[n].next \in Node \cup {NULL}
  BY <1>1 DEF NodeType
<1> QED BY <1>1, <1>2, NextOfType, NodeCount, TableAssumption DEF TypeOK

\* TypeOK, variable by variable.
MemoryOK == node \in NodeType /\ heap \subseteq Node
TableOK == /\ size \in Nat \ {0} /\ sizeptr \in Nat /\ grow \in BOOLEAN
           /\ buckets \in [0..(size - 1) -> Node \cup {NULL}]
           /\ count \in 0..SIZE_MAX
LookedupOK == pair \in Node \cup {NULL} /\ found \in Key \cup {NULL}
IteratorOK == /\ liter \in Node \cup {NULL} /\ offset \in 0..size
              /\ finished \in BOOLEAN /\ iterating \in BOOLEAN
LocalsOK == /\ pc \in {"idle", "set", "resize", "find", "remove", "aborted"}
            /\ req \in Request \cup {NULL}
            /\ iter \in Node \cup {NULL} /\ prev \in Node \cup {NULL}

\* TypeOK is the conjunction of those parts.
LEMMA TypeParts ==
  /\ TypeOK <=> MemoryOK /\ TableOK /\ LookedupOK /\ IteratorOK /\ LocalsOK
  /\ TypeOK' <=> MemoryOK' /\ TableOK' /\ LookedupOK' /\ IteratorOK' /\ LocalsOK'
BY DEF TypeOK, MemoryOK, TableOK, LookedupOK, IteratorOK, LocalsOK, NodeType

\* What stays as it is keeps its type.
LEMMA UnchangedParts ==
  ASSUME TypeOK
  PROVE  /\ UNCHANGED memory => MemoryOK'
         /\ UNCHANGED table => TableOK'
         /\ UNCHANGED lookedup => LookedupOK'
         /\ UNCHANGED <<iterator, size>> => IteratorOK'
<1>1. MemoryOK /\ TableOK /\ LookedupOK /\ IteratorOK
  BY TypeParts
<1>2. UNCHANGED memory => MemoryOK'
  BY <1>1 DEF MemoryOK, memory
<1>3. UNCHANGED table => TableOK'
  BY <1>1 DEF TableOK, table
<1>4. UNCHANGED lookedup => LookedupOK'
  BY <1>1 DEF LookedupOK, lookedup
<1>5. UNCHANGED <<iterator, size>> => IteratorOK'
  BY <1>1 DEF IteratorOK, iterator
<1> QED BY <1>2, <1>3, <1>4, <1>5

\* An iterator that ends.
LEMMA EndParts ==
  ASSUME EndIteration, size' \in Nat
  PROVE  IteratorOK'
<1>1. finished' \in BOOLEAN /\ iterating' \in BOOLEAN
  BY Zenon DEF EndIteration
<1>2. offset' \in 0..(size') /\ liter' \in Node \cup {NULL}
  BY DEF EndIteration
<1> QED BY <1>1, <1>2 DEF IteratorOK

\* The initial state of the table.
LEMMA InitInv == Init => IndInv
<1> SUFFICES ASSUME Init PROVE IndInv
  OBVIOUS
<1>1. PICK s \in SizeArguments :
        LET new == InitialTable(s)
        IN  /\ size = new.size /\ sizeptr = new.sizeptr /\ grow = new.grow
            /\ buckets = NoBuckets(new.size)
  BY DEF Init
<1>2. /\ size = IF s = 0 THEN PRIMES[1] ELSE s
      /\ sizeptr = IF s = 0 THEN 1 ELSE 0
      /\ grow = (s = 0) /\ buckets = [j \in 0..(size - 1) |-> NULL]
  BY <1>1 DEF InitialTable, HASHTABLE_AUTO_RESIZE, NoBuckets
<1>3. Len(PRIMES) \in Nat \ {0} /\ PRIMES[1] \in Nat \ {0}
  BY TableAssumption
<1>4. size \in Nat \ {0} /\ sizeptr \in Nat /\ grow \in BOOLEAN
  <2>1. s = 0 \/ s \in Nat \ {0}
    BY TableAssumption DEF SizeArguments, HASHTABLE_AUTO_RESIZE
  <2> QED BY <2>1, <1>2, <1>3
<1>5. TypeOK
  <2>1. /\ node \in [Node -> [key : KeyObject \cup {NULL}, data : Value \cup {NULL},
                              next : Node \cup {NULL}]]
    BY DEF Init, Unused
  <2>2. buckets \in [0..(size - 1) -> Node \cup {NULL}]
    BY <1>2
  <2>3. count \in 0..SIZE_MAX /\ offset \in 0..size
    BY <1>4, TableAssumption DEF Init
  <2> QED BY <1>4, <2>1, <2>2, <2>3 DEF Init, TypeOK
<1>6. Shape
  <2>1. PICK z \in Numbers : z = [n \in Node |-> 0]
    BY DEF Numbers
  <2>2. Chained(NextOf(node), {}, buckets, z, z)
    BY <1>2, NoChains
  <2>3. heap = {} /\ heap \ {} = {} /\ pc = "idle"
    BY DEF Init
  <2>4. Structure(z, z, {})
    BY <2>2, <2>3 DEF Structure
  <2> QED BY <2>4 DEF Shape
<1>7. KeysInv /\ CallInv /\ ResizeInv /\ IterInv /\ PairRefers
  BY DEF Init, KeysInv, CallInv, ResizeInv, IterInv, PairRefers
<1>8. CountInv
  BY FS_EmptySet DEF Init, CountInv
<1>9. SizeInv
  <2>1. grow => s = 0
    BY <1>2, Zenon
  <2> QED BY <2>1, <1>2, <1>3 DEF SizeInv
<1>10. LoadInv
  BY <1>4 DEF Init, LoadInv, Checked
<1> QED BY <1>5, <1>6, <1>7, <1>8, <1>9, <1>10 DEF IndInv

\* Chains, keys and sizes stay as they are.
LEMMA Quiet ==
  ASSUME IndInv, UNCHANGED <<memory, table>>
  PROVE  /\ KeysInv' /\ CountInv' /\ SizeInv'
         /\ Ascending' <=> Ascending
         /\ NextOf(node)' = NextOf(node)
         /\ \A k : INDEX(k)' = INDEX(k)
BY DEF IndInv, KeysInv, CountInv, SizeInv, Ascending, memory, table, NextOf, INDEX

\* Chains stay as they are and no resize begins or goes on.
LEMMA QuietShape ==
  ASSUME IndInv, UNCHANGED <<memory, table>>, pc # "resize", pc' # "resize",
         NEW home, NEW rank, NEW left, Structure(home, rank, left),
         pc' \in {"find", "remove"} => Searching(rank)'
  PROVE  Shape'
<1>1. /\ node' = node /\ heap' = heap /\ buckets' = buckets
      /\ NextOf(node)' = NextOf(node) /\ \A k : INDEX(k)' = INDEX(k)
  BY Quiet DEF memory, table
<1>2. Structure(home, rank, left)'
  BY <1>1 DEF Structure
<1> QED BY <1>2 DEF Shape

\* The head of the key's chain: a search begins.
LEMMA SearchStart ==
  ASSUME IndInv, NEW r \in Request,
         NEW home, NEW rank, Structure(home, rank, {}),
         NEW it, it = buckets[INDEX(r.key)]
  PROVE  /\ it \in Node \cup {NULL}
         /\ it # NULL => it \in heap /\ INDEX(node[it].key.key) = INDEX(r.key)
         /\ \A n \in heap : node[n].key.key = r.key => it # NULL /\ rank[n] <= rank[it]
<1>1. INDEX(r.key) \in DOMAIN buckets /\ buckets[INDEX(r.key)] \in Node \cup {NULL}
  BY Requests, IndexInArray DEF IndInv, TypeOK
<1>2. Chained(NextOf(node), heap, buckets, home, rank)
  <2>1. heap \ {} = heap
    OBVIOUS
  <2> QED BY <2>1 DEF Structure
<1>3. \A n \in heap : home[n] = INDEX(node[n].key.key)
  BY DEF Structure
<1>4. it # NULL => it \in heap /\ home[it] = INDEX(r.key)
  BY <1>1, <1>2 DEF Chained, Heads
<1>5. \A n \in heap : home[n] = INDEX(r.key) => it # NULL /\ rank[n] <= rank[it]
  BY <1>2 DEF Chained, Tops
<1> QED BY <1>1, <1>3, <1>4, <1>5

\* Not this bucket: a search goes on.
LEMMA SearchOn ==
  ASSUME IndInv, NEW home, NEW rank, Structure(home, rank, {}),
         pc \in {"find", "remove"}, iter # NULL, ~Equal(iter), NEW it, it = node[iter].next
  PROVE  /\ iter \in heap /\ it \in Node \cup {NULL}
         /\ it # NULL => it \in heap /\ INDEX(node[it].key.key) = INDEX(req.key)
         /\ \A n \in heap : node[n].key.key = req.key => it # NULL /\ rank[n] <= rank[it]
<1>1. /\ iter \in heap /\ INDEX(node[iter].key.key) = INDEX(req.key)
      /\ \A n \in heap : node[n].key.key = req.key => rank[n] <= rank[iter]
  BY DEF Structure, Searching
<1>2. Chained(NextOf(node), heap, buckets, home, rank)
  <2>1. heap \ {} = heap
    OBVIOUS
  <2> QED BY <2>1 DEF Structure
<1>3. \A n \in heap : home[n] = INDEX(node[n].key.key) /\ rank[n] \in Nat
  BY Types DEF Structure, Numbers, IndInv
<1>4. it = NextOf(node)[iter] /\ it \in Node \cup {NULL}
  BY <1>1, Types DEF IndInv
<1>5. it # NULL => it \in heap /\ home[it] = home[iter]
  BY <1>1, <1>2, <1>4 DEF Chained, Links
<1>6. ASSUME NEW n \in heap, node[n].key.key = req.key PROVE it # NULL /\ rank[n] <= rank[it]
  <2>1. n # iter
    BY <1>6 DEF Equal
  <2>2. home[n] = home[iter]
    BY <1>1, <1>3, <1>6
  <2>3. rank[n] # rank[iter]
    BY <1>1, <1>2, <2>1, <2>2 DEF Chained, Distinct
  <2>4. rank[n] < rank[iter]
    BY <1>1, <1>3, <1>6, <2>3
  <2> QED BY <1>1, <1>2, <1>4, <2>2, <2>4 DEF Chained, Dense
<1> QED BY <1>1, <1>3, <1>4, <1>5, <1>6

\* Outside a resize no bucket is left in an old array.
LEMMA ShapeNow ==
  ASSUME IndInv, pc # "resize"
  PROVE  \E home, rank : Structure(home, rank, {})
BY DEF IndInv, Shape, Structure

\* hashtable_set begins: nothing is linked yet, an iteration ends.
LEMMA CallSetInv ==
  ASSUME IndInv, NEW r \in Request, CallSet(r)
  PROVE  IndInv'
<1>0. /\ pc = "idle" /\ pc' = "set" /\ req' = r /\ r \in SetRequest
      /\ UNCHANGED <<memory, table>> /\ pair' = pair /\ found' = found
      /\ iter' = iter /\ prev' = prev /\ old' = old /\ i' = i
      /\ iterating' = FALSE /\ liter' = NULL /\ offset' = 0 /\ finished' = FALSE
  BY Requests DEF CallSet, EndIteration, lookedup, locals
<1>1. TypeOK'
  <2>1. MemoryOK' /\ TableOK' /\ LookedupOK'
    BY <1>0, UnchangedParts DEF IndInv, lookedup
  <2>2. size' \in Nat
    BY <1>0, Types DEF IndInv, table
  <2>3. IteratorOK'
    BY <2>2, EndParts DEF CallSet
  <2>4. LocalsOK'
    BY <1>0, TypeParts DEF IndInv, LocalsOK
  <2> QED BY <2>1, <2>3, <2>4, TypeParts
<1>2. Shape'
  <2>1. PICK home, rank : Structure(home, rank, {})
    BY <1>0, ShapeNow
  <2> QED BY <1>0, <2>1, QuietShape
<1>3. KeysInv' /\ CountInv' /\ SizeInv'
  BY <1>0, Quiet
<1>4. CallInv' /\ ResizeInv' /\ IterInv'
  BY <1>0 DEF CallInv, ResizeInv, IterInv
<1>5. LoadInv' /\ PairRefers'
  BY <1>0, Quiet DEF IndInv, LoadInv, Checked, PairRefers, memory, table
<1> QED BY <1>1, <1>2, <1>3, <1>4, <1>5 DEF IndInv

\* The other calls begin at the head of the key's chain: the bucket with the key,
\* if there is one, is not above it.
LEMMA CallOtherInv ==
  ASSUME IndInv, NEW r \in Request, Call(r)
  PROVE  IndInv'
<1>0. /\ pc = "idle" /\ req' = r /\ r.op # "set" /\ r \notin SetRequest
      /\ pc' = IF r.op = "remove" THEN "remove" ELSE "find"
      /\ UNCHANGED <<memory, table>> /\ pair' = pair /\ found' = found
      /\ iter' = buckets[INDEX(r.key)] /\ prev' = NULL /\ old' = old /\ i' = i
      /\ iterating' = iterating /\ liter' = liter /\ offset' = offset /\ finished' = finished
  BY Requests DEF Call, lookedup, iterator
<1>1. PICK home, rank : Structure(home, rank, {})
  BY <1>0, ShapeNow
<1>2. /\ iter' \in Node \cup {NULL}
      /\ iter' # NULL => iter' \in heap /\ INDEX(node[iter'].key.key) = INDEX(r.key)
      /\ \A n \in heap : node[n].key.key = r.key => iter' # NULL /\ rank[n] <= rank[iter']
  <2>1. PICK it : it = iter'
    OBVIOUS
  <2> QED BY <1>0, <1>1, <2>1, SearchStart
<1>3. TypeOK'
  BY <1>0, <1>2 DEF IndInv, TypeOK, memory, table
<1>4. Shape'
  <2>1. Searching(rank)'
    BY <1>0, <1>2, Quiet DEF Searching, memory, table
  <2>2. pc' # "resize" /\ pc # "resize"
    BY <1>0
  <2> QED BY <1>0, <1>1, <2>1, <2>2, QuietShape
<1>5. KeysInv' /\ CountInv' /\ SizeInv'
  BY <1>0, Quiet
<1>6. CallInv' /\ ResizeInv'
  BY <1>0 DEF CallInv, ResizeInv
<1>7. IterInv'
  BY <1>0, Quiet DEF IndInv, IterInv, Checked, memory, table
<1>8. LoadInv' /\ PairRefers'
  BY <1>0, Quiet DEF IndInv, LoadInv, Checked, PairRefers, memory, table
<1> QED BY <1>3, <1>4, <1>5, <1>6, <1>7, <1>8 DEF IndInv

\* hashtable_set begins to search; the table has room for another element.
LEMMA SetFindInv ==
  ASSUME IndInv, SetFind
  PROVE  IndInv'
<1>0. /\ pc = "set" /\ pc' = "find" /\ req' = req /\ req \in SetRequest /\ req \in Request
      /\ UNCHANGED <<memory, table, iterator, lookedup>>
      /\ iter' = buckets[INDEX(req.key)] /\ prev' = prev
  BY DEF SetFind, IndInv, CallInv, Request
<1>1. PICK home, rank : Structure(home, rank, {})
  BY <1>0, ShapeNow
<1>2. /\ iter' \in Node \cup {NULL}
      /\ iter' # NULL => iter' \in heap /\ INDEX(node[iter'].key.key) = INDEX(req.key)
      /\ \A n \in heap : node[n].key.key = req.key => iter' # NULL /\ rank[n] <= rank[iter']
  <2>1. PICK it : it = iter'
    OBVIOUS
  <2> QED BY <1>0, <1>1, <2>1, SearchStart
<1>3. TypeOK'
  <2>1. MemoryOK' /\ TableOK' /\ LookedupOK' /\ IteratorOK'
    BY <1>0, UnchangedParts DEF IndInv, table
  <2>2. LocalsOK'
    BY <1>0, <1>2, TypeParts DEF IndInv, LocalsOK
  <2> QED BY <2>1, <2>2, TypeParts
<1>4. Shape'
  <2>1. Searching(rank)'
    BY <1>0, <1>2, Quiet DEF Searching, memory, table
  <2> QED BY <1>0, <1>1, <2>1, QuietShape
<1>5. KeysInv' /\ CountInv' /\ SizeInv'
  BY <1>0, Quiet
<1>6. CallInv' /\ ResizeInv'
  <2>1. req.op = "set"
    BY <1>0, Requests
  <2> QED BY <1>0, <2>1 DEF CallInv, ResizeInv
<1>7. IterInv'
  BY <1>0 DEF IndInv, IterInv, iterator
<1>8. LoadInv'
  <2>1. ~(grow /\ count > size)
    BY DEF SetFind, Overfull
  <2>2. count \in Nat /\ size \in Nat
    BY Types DEF IndInv
  <2> QED BY <1>0, <2>1, <2>2, Quiet DEF IndInv, LoadInv, table
<1>9. PairRefers'
  BY <1>0 DEF IndInv, PairRefers, lookedup, memory
<1> QED BY <1>3, <1>4, <1>5, <1>6, <1>7, <1>8, <1>9 DEF IndInv

\* abort() leaves the table as it is.
LEMMA ResizeAbortInv ==
  ASSUME IndInv, ResizeAbort
  PROVE  IndInv'
<1>0. /\ pc = "set" /\ pc' = "aborted" /\ req' = req
      /\ UNCHANGED <<memory, table, iterator, lookedup>> /\ iter' = iter /\ prev' = prev
  BY DEF ResizeAbort, locals
<1>3. TypeOK'
  <2>1. MemoryOK' /\ TableOK' /\ LookedupOK' /\ IteratorOK'
    BY <1>0, UnchangedParts DEF IndInv, table
  <2>2. LocalsOK'
    BY <1>0, TypeParts DEF IndInv, LocalsOK
  <2> QED BY <2>1, <2>2, TypeParts
<1>4. Shape'
  <2>1. PICK home, rank : Structure(home, rank, {})
    BY <1>0, ShapeNow
  <2> QED BY <1>0, <2>1, QuietShape
<1>5. KeysInv' /\ CountInv' /\ SizeInv'
  BY <1>0, Quiet
<1>6. CallInv' /\ ResizeInv'
  BY <1>0 DEF CallInv, ResizeInv
<1>7. IterInv'
  BY <1>0 DEF IndInv, IterInv, iterator
<1>8. LoadInv' /\ PairRefers'
  BY <1>0, Quiet DEF IndInv, LoadInv, Checked, PairRefers, lookedup, memory, table
<1> QED BY <1>3, <1>4, <1>5, <1>6, <1>7, <1>8 DEF IndInv

\* A loop along a chain takes one step.
LEMMA SearchStepInv ==
  ASSUME IndInv, FindStep \/ RemoveStep
  PROVE  IndInv'
<1>0. /\ pc' = pc /\ pc \in {"find", "remove"} /\ req' = req /\ iter # NULL /\ ~Equal(iter)
      /\ UNCHANGED <<memory, table, iterator, lookedup>>
      /\ iter' = node[iter].next /\ prev' = (IF pc = "remove" THEN iter ELSE prev)
  BY DEF FindStep, RemoveStep
<1>1. PICK home, rank : Structure(home, rank, {})
  BY <1>0, ShapeNow
<1>2. /\ iter \in heap /\ iter' \in Node \cup {NULL}
      /\ iter' # NULL => iter' \in heap /\ INDEX(node[iter'].key.key) = INDEX(req.key)
      /\ \A n \in heap : node[n].key.key = req.key => iter' # NULL /\ rank[n] <= rank[iter']
  <2>1. PICK it : it = iter'
    OBVIOUS
  <2> QED BY <1>0, <1>1, <2>1, SearchOn
<1>3. TypeOK'
  <2>1. MemoryOK' /\ TableOK' /\ LookedupOK' /\ IteratorOK'
    BY <1>0, UnchangedParts DEF IndInv, table
  <2>2. LocalsOK'
    BY <1>0, <1>2, TypeParts DEF IndInv, LocalsOK
  <2> QED BY <2>1, <2>2, TypeParts
<1>4. Shape'
  <2>1. INDEX(node[iter].key.key) = INDEX(req.key)
    BY <1>0, <1>1 DEF Structure, Searching
  <2>2. Searching(rank)'
    BY <1>0, <1>2, <2>1, Quiet DEF Searching, memory, table
  <2>3. pc # "resize" /\ pc' # "resize"
    BY <1>0
  <2> QED BY <1>0, <1>1, <2>2, <2>3, QuietShape
<1>5. KeysInv' /\ CountInv' /\ SizeInv'
  BY <1>0, Quiet
<1>6. CallInv' /\ ResizeInv'
  BY <1>0 DEF IndInv, CallInv, ResizeInv
<1>7. IterInv'
  BY <1>0, Quiet DEF IndInv, IterInv, iterator, Checked, memory, table
<1>8. LoadInv' /\ PairRefers'
  BY <1>0, Quiet DEF IndInv, LoadInv, Checked, PairRefers, lookedup, memory, table
<1> QED BY <1>3, <1>4, <1>5, <1>6, <1>7, <1>8 DEF IndInv

\* What is to be known of a call that returns and has changed nothing but the
\* pair.
LEMMA ReturnInv ==
  ASSUME IndInv, pc \in {"find", "remove"}, pc' = "idle", req' = NULL, iter' = NULL, prev' = NULL,
         UNCHANGED <<memory, table, iterator>>, LookedupOK', PairRefers'
  PROVE  IndInv'
<1>3. TypeOK'
  <2>1. MemoryOK' /\ TableOK' /\ IteratorOK'
    BY UnchangedParts DEF IndInv, table
  <2>2. LocalsOK'
    BY DEF LocalsOK
  <2> QED BY <2>1, <2>2, TypeParts
<1>4. Shape'
  <2>0. pc # "resize" /\ pc' # "resize"
    OBVIOUS
  <2>1. PICK home, rank : Structure(home, rank, {})
    BY <2>0, ShapeNow
  <2> QED BY <2>0, <2>1, QuietShape
<1>5. KeysInv' /\ CountInv' /\ SizeInv'
  BY Quiet
<1>6. CallInv' /\ ResizeInv'
  BY DEF CallInv, ResizeInv
<1>7. IterInv'
  BY Quiet DEF IndInv, IterInv, iterator, Checked, memory, table
<1>8. LoadInv'
  BY Quiet DEF IndInv, LoadInv, Checked, table
<1> QED BY <1>3, <1>4, <1>5, <1>6, <1>7, <1>8 DEF IndInv

\* A bucket that a search has come to is in use.
LEMMA IterInUse ==
  ASSUME IndInv, pc \in {"find", "remove"}, iter # NULL
  PROVE  iter \in heap
<1>1. PICK home, rank : Structure(home, rank, {})
  BY ShapeNow
<1> QED BY <1>1 DEF Structure, Searching

\* The calls that change no bucket.
LEMMA ReadInv ==
  ASSUME IndInv, SetFail \/ RemoveMissing \/ Lookup \/ Exists
  PROVE  IndInv'
<1>1. CASE SetFail \/ RemoveMissing \/ Exists
  <2>1. /\ pc \in {"find", "remove"} /\ pc' = "idle" /\ req' = NULL /\ iter' = NULL /\ prev' = NULL
        /\ UNCHANGED <<memory, table, iterator, lookedup>>
    BY <1>1 DEF SetFail, RemoveMissing, Exists, Hit, Miss, Return
  <2>2. LookedupOK'
    BY <2>1, UnchangedParts DEF IndInv
  <2>3. PairRefers'
    BY <2>1 DEF IndInv, PairRefers, lookedup, memory
  <2> QED BY <2>1, <2>2, <2>3, ReturnInv
<1>2. CASE Lookup
  <2>1. /\ pc = "find" /\ pc' = "idle" /\ req' = NULL /\ iter' = NULL /\ prev' = NULL
        /\ UNCHANGED <<memory, table, iterator>>
    BY <1>2 DEF Lookup, Hit, Miss, Return
  <2>2. CASE Miss("lookup")
    <3>1. UNCHANGED lookedup
      BY <1>2, <2>2 DEF Lookup, Hit, Miss
    <3>2. LookedupOK'
      BY <3>1, UnchangedParts DEF IndInv
    <3>3. PairRefers'
      BY <2>1, <3>1 DEF IndInv, PairRefers, lookedup, memory
    <3> QED BY <2>1, <3>2, <3>3, ReturnInv
  <2>3. CASE Hit("lookup")
    <3>1. pair' = iter /\ found' = req.key /\ iter # NULL /\ node[iter].key.key = req.key
      BY <1>2, <2>3 DEF Lookup, Hit, Miss, FoundBucket, Equal
    <3>2. iter \in heap /\ req \in Request
      BY <2>1, <3>1, IterInUse DEF IndInv, CallInv
    <3>3. LookedupOK'
      BY <3>1, <3>2, Requests, Types DEF IndInv, LookedupOK
    <3>4. PairRefers'
      BY <2>1, <3>1, <3>2 DEF PairRefers, memory
    <3> QED BY <2>1, <3>3, <3>4, ReturnInv
  <2> QED BY <1>2, <2>2, <2>3 DEF Lookup
<1> QED BY <1>1, <1>2

\* A step between calls that changes at most the iterator.
LEMMA IdleInv ==
  ASSUME IndInv, pc = "idle",
         UNCHANGED <<memory, table, lookedup, locals, pc, req>>, IteratorOK', IterInv'
  PROVE  IndInv'
<1>0. pc' = "idle" /\ req' = req /\ iter' = iter /\ prev' = prev
  BY DEF locals
<1>3. TypeOK'
  <2>1. MemoryOK' /\ TableOK' /\ LookedupOK'
    BY UnchangedParts DEF IndInv
  <2>2. LocalsOK'
    BY <1>0, TypeParts DEF IndInv, LocalsOK
  <2> QED BY <2>1, <2>2, TypeParts
<1>4. Shape'
  <2>1. PICK home, rank : Structure(home, rank, {})
    BY ShapeNow
  <2> QED BY <1>0, <2>1, QuietShape
<1>5. KeysInv' /\ CountInv' /\ SizeInv'
  BY Quiet
<1>6. CallInv' /\ ResizeInv'
  BY <1>0 DEF IndInv, CallInv, ResizeInv
<1>7. LoadInv' /\ PairRefers'
  BY <1>0, Quiet DEF IndInv, LoadInv, Checked, PairRefers, lookedup, memory, table
<1> QED BY <1>3, <1>4, <1>5, <1>6, <1>7 DEF IndInv

\* Reading the pair changes nothing.
LEMMA PairGetInv ==
  ASSUME IndInv, PairGet
  PROVE  IndInv'
<1>1. pc = "idle" /\ UNCHANGED <<memory, table, lookedup, locals, pc, req, iterator, size>>
  BY DEF PairGet, table
<1>2. IteratorOK'
  BY <1>1, UnchangedParts DEF IndInv
<1>3. IterInv'
  BY <1>1, Quiet DEF IndInv, IterInv, iterator, Checked, memory
<1> QED BY <1>1, <1>2, <1>3, IdleInv

\* A new iterator is before the first chain.
LEMMA IterInitInv ==
  ASSUME IndInv, IterInit
  PROVE  IndInv'
<1>1. /\ pc = "idle" /\ UNCHANGED <<memory, table, lookedup, locals, pc, req>>
      /\ liter' = NULL /\ offset' = 0 /\ finished' = FALSE /\ iterating' = TRUE
  BY DEF IterInit
<1>2. IteratorOK'
  <2>1. finished' \in BOOLEAN /\ iterating' \in BOOLEAN
    BY <1>1, Zenon
  <2>2. size' \in Nat
    BY <1>1, Types DEF IndInv, table
  <2> QED BY <1>1, <2>1, <2>2 DEF IteratorOK
<1>3. IterInv'
  BY <1>1 DEF IterInv, Checked
<1> QED BY <1>1, <1>2, <1>3, IdleInv

\* The next bucket of the iterator's chain, the head of the next chain that has
\* one, or the end.
LEMMA IterNextInv ==
  ASSUME IndInv, IterNext
  PROVE  IndInv'
<1>0. pc = "idle" /\ iterating /\ UNCHANGED <<memory, table, lookedup, iterating, locals, pc, req>>
  BY DEF IterNext
<1>a. /\ node' = node /\ heap' = heap /\ size' = size /\ size \in Nat /\ pc' = "idle"
      /\ iterating' = iterating /\ \A k : INDEX(k)' = INDEX(k)
  BY <1>0, Quiet, Types DEF memory, table, IndInv
<1>b. PICK home, rank : Structure(home, rank, {})
  BY <1>0, ShapeNow
<1>c. /\ Chained(NextOf(node), heap, buckets, home, rank)
      /\ \A n \in heap : home[n] = INDEX(node[n].key.key) /\ n \in Node
  <2>1. heap \ {} = heap
    OBVIOUS
  <2> QED BY <1>b, <2>1, Types DEF Structure, IndInv
<1>d. IteratorOK /\ IterInv
  BY TypeParts DEF IndInv
<1> DEFINE next == IF liter # NULL THEN node[liter].next ELSE NULL
<1>1. CASE next # NULL \/ finished
  <2>1. liter' = next /\ offset' = offset /\ finished' = finished
    BY <1>1 DEF IterNext
  <2>2. next # NULL => /\ next \in heap /\ next \in Node /\ ~finished
                       /\ INDEX(node[next].key.key) = INDEX(node[liter].key.key)
    <3> SUFFICES ASSUME next # NULL
                 PROVE  /\ next \in heap /\ next \in Node /\ ~finished
                        /\ INDEX(node[next].key.key) = INDEX(node[liter].key.key)
      OBVIOUS
    <3>1. liter # NULL /\ liter \in heap /\ ~finished
      BY <1>d DEF IterInv
    <3>2. next = NextOf(node)[liter]
      BY <3>1, Types DEF IndInv
    <3>3. next \in heap /\ home[next] = home[liter]
      BY <3>1, <3>2, <1>c DEF Chained, Links
    <3> QED BY <3>1, <3>3, <1>c
  <2>3. next # NULL => liter # NULL
    OBVIOUS
  <2> HIDE DEF next
  <2>4. IteratorOK'
    BY <2>1, <2>2, <1>a, <1>d DEF IteratorOK
  <2>5. IterInv'
    BY <2>1, <2>2, <2>3, <1>0, <1>1, <1>a, <1>d DEF IterInv, Checked
  <2> QED BY <1>0, <2>4, <2>5, IdleInv
<1>2. CASE ~(next # NULL \/ finished) /\ Ahead # {}
  <2>1. PICK o \in Ahead : liter' = buckets[o] /\ offset' = o + 1 /\ finished' = finished
    BY <1>2 DEF IterNext
  <2>2. o \in Nat /\ o \in 0..(size - 1) /\ o \in DOMAIN buckets /\ buckets[o] # NULL
    <3>1. offset \in 0..size /\ size \in Nat /\ DOMAIN buckets = 0..(size - 1)
      BY DEF IndInv, TypeOK
    <3> QED BY <3>1 DEF Ahead
  <2>3. liter' \in heap /\ home[liter'] = o
    BY <2>1, <2>2, <1>c DEF Chained, Heads
  <2>4. liter' \in Node /\ INDEX(node[liter'].key.key) = o
    BY <2>3, <1>c
  <2>5. IteratorOK'
    <3>1. offset' \in 0..(size')
      BY <2>1, <2>2, <1>a
    <3>2. finished' \in BOOLEAN /\ iterating' \in BOOLEAN
      BY <2>1, <1>a, <1>d DEF IteratorOK
    <3> QED BY <2>4, <3>1, <3>2 DEF IteratorOK
  <2>6. IterInv'
    <3>1. ~finished' /\ iterating' /\ liter' # NULL
      BY <1>0, <1>2, <2>1, <2>2, <1>a
    <3> QED BY <2>1, <2>3, <2>4, <3>1, <1>a DEF IterInv, Checked
  <2> QED BY <1>0, <2>5, <2>6, IdleInv
<1>3. CASE ~(next # NULL \/ finished) /\ Ahead = {}
  <2>1. liter' = NULL /\ offset' = size /\ finished' = TRUE
    BY <1>3 DEF IterNext
  <2>2. IteratorOK'
    <3>1. finished' \in BOOLEAN
      BY <2>1, Zenon
    <3> QED BY <2>1, <3>1, <1>a, <1>d DEF IteratorOK
  <2>3. IterInv'
    BY <2>1, <1>0, <1>a DEF IterInv, Checked
  <2> QED BY <1>0, <2>2, <2>3, IdleInv
<1> QED BY <1>1, <1>2, <1>3

\* The sizes a table can grow to.
LEMMA NextSizes ==
  ASSUME IndInv, grow, ~NoSize
  PROVE  sizeptr + 1 \in 1..Len(PRIMES) /\ NextSize \in Nat \ {0} /\ sizeptr \in Nat \ {0}
<1>1. sizeptr \in 1..Len(PRIMES) /\ size = PRIMES[sizeptr] /\ size > 0
  BY Types DEF IndInv, SizeInv
<1>2. Len(PRIMES) \in Nat /\ PRIMES[Len(PRIMES)] = 0 /\ \A j \in 1..Len(PRIMES) : PRIMES[j] \in Nat
  BY TableAssumption
<1>3. sizeptr # Len(PRIMES)
  BY <1>1, <1>2
<1>4. sizeptr + 1 \in 1..Len(PRIMES)
  BY <1>1, <1>2, <1>3
<1> QED BY <1>1, <1>2, <1>4 DEF NextSize, NoSize

\* _hashtable_resize: all buckets are in the old array's chains, which become
\* Rest, and the new array is empty.
LEMMA ResizeStartInv ==
  ASSUME IndInv, ResizeStart
  PROVE  IndInv'
<1>0. /\ pc = "set" /\ pc' = "resize" /\ req' = req /\ grow /\ grow' = grow /\ count' = count
      /\ UNCHANGED <<memory, iterator, lookedup>> /\ prev' = prev
      /\ sizeptr' = sizeptr + 1 /\ size' = NextSize
      /\ old' = buckets /\ buckets' = [j \in 0..(NextSize - 1) |-> NULL] /\ i' = 0 /\ iter' = buckets[0]
  BY DEF ResizeStart, NoBuckets
<1>a. /\ buckets \in [0..(size - 1) -> Node \cup {NULL}] /\ size \in Nat \ {0} /\ count \in 0..SIZE_MAX
      /\ grow \in BOOLEAN
  BY DEF IndInv, TypeOK
<1>b. sizeptr + 1 \in 1..Len(PRIMES) /\ NextSize \in Nat \ {0} /\ sizeptr \in Nat \ {0}
  BY NextSizes DEF ResizeStart
<1>c. node' = node /\ heap' = heap
  BY <1>0 DEF memory
<1>d. ~iterating
  BY <1>0 DEF IndInv, IterInv
<1>e. liter = NULL /\ offset = 0 /\ ~finished
  BY <1>d DEF IndInv, IterInv
<1>3. TypeOK'
  <2>1. MemoryOK' /\ LookedupOK'
    BY <1>0, UnchangedParts DEF IndInv
  <2>2. TableOK'
    <3>1. buckets' \in [0..(size' - 1) -> Node \cup {NULL}]
      BY <1>0
    <3> QED BY <1>0, <1>a, <1>b, <3>1 DEF TableOK
  <2>3. IteratorOK'
    <3>1. IteratorOK
      BY TypeParts DEF IndInv
    <3> QED BY <1>0, <1>b, <1>e, <3>1 DEF IteratorOK, iterator
  <2>4. LocalsOK'
    <3>1. iter' \in Node \cup {NULL}
      BY <1>0, <1>a
    <3> QED BY <1>0, <3>1, TypeParts DEF IndInv, LocalsOK
  <2> QED BY <2>1, <2>2, <2>3, <2>4, TypeParts
<1>4. Shape'
  <2>1. PICK home, rank : Structure(home, rank, {})
    BY <1>0, ShapeNow
  <2>2. Chained(NextOf(node), heap, buckets, home, rank)
    <3>1. heap \ {} = heap
      OBVIOUS
    <3> QED BY <2>1, <3>1 DEF Structure
  <2>3. Rest' = buckets
    <3>1. Rest' = [j \in DOMAIN buckets |-> IF j < 0 THEN NULL ELSE IF j = 0 THEN buckets[0] ELSE buckets[j]]
      BY <1>0 DEF Rest
    <3>2. \A j \in DOMAIN buckets : ~(j < 0)
      BY <1>a
    <3>3. \A j \in DOMAIN buckets :
            (IF j < 0 THEN NULL ELSE IF j = 0 THEN buckets[0] ELSE buckets[j]) = buckets[j]
      BY <3>2
    <3> QED BY <3>1, <3>3, <1>a
  <2>4. Chained(NextOf(node), {}, buckets', home, rank)
    BY <1>0, NoChains
  <2>5. NextOf(node)' = NextOf(node) /\ heap' \ heap = {} /\ heap' = heap
    BY <1>c DEF NextOf
  <2>6. PICK left : left = heap
    OBVIOUS
  <2>7. Structure(home, rank, left)'
    BY <1>0, <2>1, <2>2, <2>3, <2>4, <2>5, <2>6 DEF Structure
  <2> QED BY <2>7 DEF Shape
<1>5. KeysInv' /\ CountInv'
  BY <1>0, <1>c DEF IndInv, KeysInv, CountInv
<1>6. CallInv'
  BY <1>0 DEF IndInv, CallInv
<1>7. ResizeInv'
  BY <1>0, <1>a DEF ResizeInv
<1>8. SizeInv'
  BY <1>0, <1>b DEF SizeInv, NextSize
<1>9. LoadInv'
  <2> SUFFICES ASSUME Ascending' PROVE count <= NextSize
    BY <1>0, <1>a, <1>b DEF LoadInv
  <2>1. \A j \in 1..sizeptr : PRIMES[j] < PRIMES[j + 1]
    BY <1>0, <1>b DEF Ascending
  <2>2. Ascending
    BY <2>1, <1>b DEF Ascending
  <2>3. size < NextSize
    BY <2>1, <1>0, <1>b DEF IndInv, SizeInv, NextSize
  <2>4. count <= size + 1
    BY <1>0, <2>2 DEF IndInv, LoadInv
  <2> QED BY <2>3, <2>4, <1>a, <1>b
<1>10. IterInv'
  BY <1>0, <1>d, <1>e DEF IterInv, iterator
<1>11. PairRefers'
  BY <1>0 DEF IndInv, PairRefers, lookedup, memory
<1> QED BY <1>3, <1>4, <1>5, <1>6, <1>7, <1>8, <1>9, <1>10, <1>11 DEF IndInv

\* A bucket leaves the head of its old chain and becomes the head of its new one,
\* with a rank above all others.
LEMMA ResizeStepInv ==
  ASSUME IndInv, ResizeStep
  PROVE  IndInv'
<1>a. PICK index : index = INDEX(node[iter].key.key)
  OBVIOUS
<1>0. /\ pc = "resize" /\ pc' = "resize" /\ req' = req /\ iter # NULL
      /\ node' = [node EXCEPT ![iter].next = buckets[index]]
      /\ buckets' = [buckets EXCEPT ![index] = iter] /\ iter' = node[iter].next
      /\ UNCHANGED <<iterator, lookedup>> /\ prev' = prev /\ old' = old /\ i' = i
      /\ heap' = heap /\ size' = size /\ sizeptr' = sizeptr /\ grow' = grow /\ count' = count
  BY <1>a DEF ResizeStep, NextBucket
<1>b. PICK home, rank, left : Structure(home, rank, left)
  BY DEF IndInv, Shape
<1>c. /\ Chained(NextOf(node), heap \ left, buckets, home, rank)
      /\ Chained(NextOf(node), left, Rest, home, rank)
      /\ home \in Numbers /\ rank \in Numbers /\ left \in SUBSET heap
      /\ \A n \in heap \ left : home[n] = INDEX(node[n].key.key)
  BY <1>0, <1>b DEF Structure
<1>d. PICK m \in Nat \ {0} : old \in [0..(m - 1) -> Node \cup {NULL}] /\ i \in 0..(m - 1)
  BY <1>0 DEF IndInv, ResizeInv
<1>e. DOMAIN Rest = 0..(m - 1) /\ i \in DOMAIN Rest /\ Rest[i] = iter
  BY <1>d DEF Rest
<1>f. iter \in left /\ home[iter] = i
  BY <1>0, <1>c, <1>e DEF Chained, Heads
<1>g. iter \in heap /\ iter \in Node /\ iter \notin heap \ left /\ left \subseteq Node
      /\ heap \ left \in SUBSET Node /\ left \in SUBSET Node
  BY <1>c, <1>f, Types DEF IndInv
<1>h. index \in DOMAIN buckets /\ index \in Nat /\ buckets[index] \in Node \cup {NULL}
      /\ buckets \in [0..(size - 1) -> Node \cup {NULL}]
  BY <1>a, <1>g, KeyOfBucket, IndexInArray DEF IndInv, TypeOK
\* The bucket's next field is all that changes in memory.
<1>i. /\ \A n \in Node : node'[n].key = node[n].key /\ node'[n].data = node[n].data
      /\ \A n \in Node : n # iter => node'[n] = node[n]
      /\ node'[iter].next = buckets[index] /\ node' \in NodeType
  <2>1. node \in NodeType
    BY Types DEF IndInv
  <2> QED BY <2>1, <1>0, <1>g, <1>h DEF NodeType
<1>j. \A k : INDEX(k)' = INDEX(k)
  BY <1>0 DEF INDEX
<1>k. /\ \A n \in Node : NextOf(node)[n] = node[n].next /\ NextOf(node)'[n] = node'[n].next
  BY DEF NextOf
<1>3. TypeOK'
  <2>1. LookedupOK' /\ IteratorOK'
    BY <1>0, UnchangedParts DEF IndInv
  <2>2. MemoryOK'
    BY <1>0, <1>i, TypeParts DEF IndInv, MemoryOK
  <2>3. TableOK'
    <3>1. buckets' \in [0..(size - 1) -> Node \cup {NULL}]
      BY <1>0, <1>g, <1>h
    <3> QED BY <1>0, <3>1, TypeParts DEF IndInv, TableOK
  <2>4. LocalsOK'
    <3>1. iter' \in Node \cup {NULL}
      BY <1>0, <1>g, Types DEF IndInv
    <3> QED BY <1>0, <3>1, TypeParts DEF IndInv, LocalsOK
  <2> QED BY <2>1, <2>2, <2>3, <2>4, TypeParts
<1>4. Shape'
  <2> DEFINE r == IF buckets[index] = NULL THEN 0 ELSE rank[buckets[index]] + 1
  <2>1. r \in Nat /\ (buckets[index] # NULL => rank[buckets[index]] < r)
    <3>1. buckets[index] # NULL => rank[buckets[index]] \in Nat
      BY <1>c, <1>h DEF Numbers
    <3> QED BY <3>1
  <2> HIDE DEF r
  <2>2. PICK home2, rank2, left2 : /\ home2 = [home EXCEPT ![iter] = index]
                                   /\ rank2 = [rank EXCEPT ![iter] = r]
                                   /\ left2 = left \ {iter}
    OBVIOUS
  <2>3. /\ home2 \in Numbers /\ rank2 \in Numbers /\ left2 \in SUBSET heap
        /\ \A n \in Node : n # iter => home2[n] = home[n] /\ rank2[n] = rank[n]
        /\ home2[iter] = index
    BY <2>1, <2>2, <1>c, <1>g, <1>h DEF Numbers
  <2>4. Chained(NextOf(node)', heap \ left2, buckets', home2, rank2)
    <3>1. (heap \ left) \cup {iter} = heap \ left2
      BY <2>2, <1>g
    <3>2. PICK A, nx, nx2, hd : A = heap \ left /\ nx = NextOf(node) /\ nx2 = NextOf(node)' /\ hd = buckets
      OBVIOUS
    <3>3. nx2[iter] = hd[index] /\ \A n \in A : nx2[n] = nx[n]
      BY <3>2, <1>g, <1>i, <1>k
    <3>4. Chained(nx2, A \cup {iter}, [hd EXCEPT ![index] = iter],
                  [home EXCEPT ![iter] = index], [rank EXCEPT ![iter] = r])
      <4>1. A \in SUBSET Node /\ iter \in Node \ A /\ Chained(nx, A, hd, home, rank)
            /\ index \in DOMAIN hd /\ (hd[index] # NULL => rank[hd[index]] < r)
        BY <3>2, <2>1, <1>c, <1>g, <1>h
      <4> QED BY <4>1, <3>3, <2>1, <1>c, <1>h, PushHead
    <3> QED BY <3>1, <3>2, <3>4, <2>2, <1>0
  <2>5. Chained(NextOf(node)', left2, Rest', home2, rank2)
    <3>1. Chained(NextOf(node), left \ {Rest[i]}, [Rest EXCEPT ![i] = NextOf(node)[Rest[i]]], home, rank)
      BY <1>0, <1>c, <1>e, <1>g, PopHead
    <3>2. Rest' = [Rest EXCEPT ![i] = NextOf(node)[Rest[i]]]
      <4>1. NextOf(node)[Rest[i]] = iter'
        BY <1>0, <1>e, <1>g, <1>k
      <4>2. Rest' = [j \in DOMAIN old |-> IF j < i THEN NULL ELSE IF j = i THEN iter' ELSE old[j]]
        BY <1>0 DEF Rest
      <4>3. \A j \in DOMAIN old : Rest[j] = IF j < i THEN NULL ELSE IF j = i THEN iter ELSE old[j]
        BY DEF Rest
      <4>4. DOMAIN Rest = DOMAIN old /\ Rest = [j \in DOMAIN old |-> Rest[j]]
        BY DEF Rest
      <4>5. ASSUME NEW j \in DOMAIN old
            PROVE  (IF j < i THEN NULL ELSE IF j = i THEN iter' ELSE old[j]) = IF j = i THEN iter' ELSE Rest[j]
        <5>1. CASE j = i
          BY <5>1, <1>d
        <5>2. CASE j # i
          BY <5>2, <4>3
        <5> QED BY <5>1, <5>2
      <4>6. [Rest EXCEPT ![i] = iter'] = [j \in DOMAIN old |-> IF j = i THEN iter' ELSE Rest[j]]
        BY <4>4
      <4> QED BY <4>1, <4>2, <4>5, <4>6
    <3>3. Chained(NextOf(node), left2, Rest', home, rank)
      BY <3>1, <3>2, <2>2, <1>e
    <3>4. PICK B, nx, nx2, hd : B = left2 /\ nx = NextOf(node) /\ nx2 = NextOf(node)' /\ hd = Rest'
      OBVIOUS
    <3>5. \A n \in B : nx2[n] = nx[n] /\ home2[n] = home[n] /\ rank2[n] = rank[n]
      BY <3>4, <2>2, <2>3, <1>g, <1>i, <1>k
    <3>6. Chained(nx2, B, hd, home2, rank2)
      BY <3>3, <3>4, <3>5, SameChains
    <3> QED BY <3>4, <3>6
  <2>6. \A n \in heap \ left2 : home2[n] = INDEX(node[n].key.key) /\ node'[n].key = node[n].key
    BY <2>2, <2>3, <1>a, <1>c, <1>g, <1>i, Types DEF IndInv
  <2>7. Structure(home2, rank2, left2)'
    BY <1>0, <1>j, <2>3, <2>4, <2>5, <2>6 DEF Structure
  <2> QED BY <2>7 DEF Shape
<1>5. KeysInv' /\ CountInv'
  BY <1>0, <1>i, Types DEF IndInv, KeysInv, CountInv
<1>6. CallInv' /\ ResizeInv'
  BY <1>0 DEF IndInv, CallInv, ResizeInv
<1>7. SizeInv' /\ LoadInv'
  BY <1>0 DEF IndInv, SizeInv, LoadInv, Checked, Ascending
<1>8. IterInv'
  BY <1>0 DEF IndInv, IterInv, iterator
<1>9. PairRefers'
  BY <1>0, <1>i, Types DEF IndInv, PairRefers, lookedup
<1> QED BY <1>3, <1>4, <1>5, <1>6, <1>7, <1>8, <1>9 DEF IndInv

\* Rest does not change when the next chain of the old array is begun.
LEMMA ResizeChainInv ==
  ASSUME IndInv, ResizeChain
  PROVE  IndInv'
<1>0. /\ pc = "resize" /\ pc' = "resize" /\ req' = req /\ iter = NULL
      /\ UNCHANGED <<memory, table, iterator, lookedup>> /\ prev' = prev /\ old' = old
      /\ i + 1 \in DOMAIN old /\ i' = i + 1 /\ iter' = old[i + 1]
  BY DEF ResizeChain
<1>d. PICK m \in Nat \ {0} : old \in [0..(m - 1) -> Node \cup {NULL}] /\ i \in 0..(m - 1)
  BY <1>0 DEF IndInv, ResizeInv
<1>3. TypeOK'
  <2>1. MemoryOK' /\ TableOK' /\ LookedupOK' /\ IteratorOK'
    BY <1>0, UnchangedParts DEF IndInv, table
  <2>2. LocalsOK'
    BY <1>0, <1>d, TypeParts DEF IndInv, LocalsOK
  <2> QED BY <2>1, <2>2, TypeParts
<1>4. Shape'
  <2>1. PICK home, rank, left : Structure(home, rank, left)
    BY DEF IndInv, Shape
  <2>2. Rest' = Rest
    <3>1. Rest' = [j \in DOMAIN old |-> IF j < i + 1 THEN NULL ELSE IF j = i + 1 THEN old[i + 1] ELSE old[j]]
      BY <1>0 DEF Rest
    <3>2. ASSUME NEW j \in DOMAIN old
          PROVE  (IF j < i + 1 THEN NULL ELSE IF j = i + 1 THEN old[i + 1] ELSE old[j])
                 = IF j < i THEN NULL ELSE IF j = i THEN iter ELSE old[j]
      BY <1>0, <1>d
    <3> QED BY <3>1, <3>2 DEF Rest
  <2>3. Structure(home, rank, left)'
    BY <1>0, <2>1, <2>2, Quiet DEF Structure, memory, table
  <2> QED BY <2>3 DEF Shape
<1>5. KeysInv' /\ CountInv' /\ SizeInv'
  BY <1>0, Quiet
<1>6. CallInv'
  BY <1>0 DEF IndInv, CallInv
<1>7. ResizeInv'
  BY <1>0, <1>d DEF ResizeInv
<1>8. IterInv'
  BY <1>0 DEF IndInv, IterInv, iterator
<1>9. LoadInv' /\ PairRefers'
  BY <1>0, Quiet DEF IndInv, LoadInv, Checked, PairRefers, lookedup, memory, table
<1> QED BY <1>3, <1>4, <1>5, <1>6, <1>7, <1>8, <1>9 DEF IndInv

\* Nothing is left in the old array when it is freed.
LEMMA ResizeEndInv ==
  ASSUME IndInv, ResizeEnd
  PROVE  IndInv'
<1>0. /\ pc = "resize" /\ pc' = "find" /\ req' = req /\ iter = NULL /\ req \in SetRequest /\ req \in Request
      /\ UNCHANGED <<memory, table, iterator, lookedup>> /\ prev' = prev
      /\ i + 1 \notin DOMAIN old /\ iter' = buckets[INDEX(req.key)]
  BY DEF ResizeEnd, IndInv, CallInv, Request
<1>d. PICK m \in Nat \ {0} : old \in [0..(m - 1) -> Node \cup {NULL}] /\ i \in 0..(m - 1)
  BY <1>0 DEF IndInv, ResizeInv
<1>a. PICK home, rank, left : Structure(home, rank, left)
  BY DEF IndInv, Shape
<1>b. left = {}
  <2>1. \A j \in DOMAIN Rest : Rest[j] = NULL
    <3>1. i = m - 1
      BY <1>0, <1>d
    <3> QED BY <3>1, <1>0, <1>d DEF Rest
  <2>2. Chained(NextOf(node), left, Rest, home, rank)
    BY <1>0, <1>a DEF Structure
  <2> QED BY <2>1, <2>2 DEF Chained, Tops
<1>1. Structure(home, rank, {})
  BY <1>a, <1>b
<1>2. /\ iter' \in Node \cup {NULL}
      /\ iter' # NULL => iter' \in heap /\ INDEX(node[iter'].key.key) = INDEX(req.key)
      /\ \A n \in heap : node[n].key.key = req.key => iter' # NULL /\ rank[n] <= rank[iter']
  <2>1. PICK it : it = iter'
    OBVIOUS
  <2> QED BY <1>0, <1>1, <2>1, SearchStart
<1>3. TypeOK'
  <2>1. MemoryOK' /\ TableOK' /\ LookedupOK' /\ IteratorOK'
    BY <1>0, UnchangedParts DEF IndInv, table
  <2>2. LocalsOK'
    BY <1>0, <1>2, TypeParts DEF IndInv, LocalsOK
  <2> QED BY <2>1, <2>2, TypeParts
<1>4. Shape'
  <2>1. Searching(rank)'
    BY <1>0, <1>2, Quiet DEF Searching, memory, table
  <2>2. Structure(home, rank, {})'
    BY <1>0, <1>1, <2>1, Quiet DEF Structure, memory, table
  <2> QED BY <2>2 DEF Shape
<1>5. KeysInv' /\ CountInv' /\ SizeInv'
  BY <1>0, Quiet
<1>6. CallInv' /\ ResizeInv'
  <2>1. req.op = "set"
    BY <1>0, Requests
  <2> QED BY <1>0, <2>1 DEF CallInv, ResizeInv
<1>7. IterInv'
  BY <1>0 DEF IndInv, IterInv, iterator
<1>8. LoadInv' /\ PairRefers'
  BY <1>0, Quiet DEF IndInv, LoadInv, Checked, PairRefers, lookedup, memory, table
<1> QED BY <1>3, <1>4, <1>5, <1>6, <1>7, <1>8 DEF IndInv

\* The chains stay when only keys and data of buckets are written.
LEMMA DataShape ==
  ASSUME IndInv, pc # "resize", pc' = "idle", heap' = heap, UNCHANGED table,
         \A n \in Node : node'[n].next = node[n].next,
         \A n \in heap : node'[n].key.key = node[n].key.key
  PROVE  Shape'
<1>1. PICK home, rank : Structure(home, rank, {})
  BY ShapeNow
<1>2. NextOf(node)' = NextOf(node)
  BY DEF NextOf
<1>3. buckets' = buckets /\ \A k : INDEX(k)' = INDEX(k)
  BY DEF table, INDEX
<1>4. Structure(home, rank, {})'
  BY <1>1, <1>2, <1>3 DEF Structure
<1> QED BY <1>4 DEF Shape

\* A replaced key object or value changes no chain and no key.
LEMMA SetReplaceInv ==
  ASSUME IndInv, SetReplace
  PROVE  IndInv'
<1>0. /\ pc = "find" /\ pc' = "idle" /\ req' = NULL /\ iter # NULL /\ iter' = NULL /\ prev' = NULL
      /\ req.op = "set" /\ req \in Request /\ node[iter].key.key = req.key
      /\ node' = [node EXCEPT ![iter].key = StoredKey, ![iter].data = req.value]
      /\ UNCHANGED <<heap, table, iterator, lookedup>>
  BY DEF SetReplace, Hit, Return, Equal, IndInv, CallInv
<1>a. iter \in heap /\ iter \in Node /\ heap \subseteq Node /\ node \in NodeType
  BY <1>0, IterInUse, Types DEF IndInv
<1>b. StoredKey \in KeyObject /\ StoredKey.key = req.key /\ req.value \in Value
  <2>1. req.key \in Key /\ req.copy \in Copy /\ req.value \in Value /\ req.over \in BOOLEAN
    BY <1>0, Requests
  <2>2. node[iter].key \in KeyObject
    BY <1>a DEF IndInv, KeysInv
  <2> QED BY <1>0, <2>1, <2>2 DEF StoredKey, KeyObject
<1>c. /\ node' \in NodeType
      /\ \A n \in Node : node'[n].next = node[n].next /\ (n # iter => node'[n] = node[n])
      /\ node'[iter].key = StoredKey
  BY <1>0, <1>a, <1>b DEF NodeType
<1>d. \A n \in heap : node'[n].key.key = node[n].key.key
  BY <1>0, <1>a, <1>b, <1>c
<1>e. \A k : INDEX(k)' = INDEX(k)
  BY <1>0 DEF INDEX, table
<1>3. TypeOK'
  <2>1. TableOK' /\ LookedupOK' /\ IteratorOK'
    BY <1>0, UnchangedParts DEF IndInv, table
  <2>2. MemoryOK' /\ LocalsOK'
    BY <1>0, <1>a, <1>c DEF MemoryOK, LocalsOK
  <2> QED BY <2>1, <2>2, TypeParts
<1>4. Shape'
  BY <1>0, <1>c, <1>d, DataShape
<1>5. KeysInv'
  <2>1. \A n \in heap : node'[n].key \in KeyObject
    BY <1>a, <1>b, <1>c DEF IndInv, KeysInv
  <2>2. heap' = heap /\ \A m, n \in heap : node[m].key.key = node[n].key.key => m = n
    BY <1>0 DEF IndInv, KeysInv
  <2> QED BY <1>d, <2>1, <2>2 DEF KeysInv
<1>6. CountInv' /\ SizeInv' /\ CallInv' /\ ResizeInv'
  BY <1>0 DEF IndInv, CountInv, SizeInv, CallInv, ResizeInv, table
<1>7. LoadInv'
  BY <1>0 DEF IndInv, LoadInv, Checked, Ascending, table
<1>8. IterInv'
  BY <1>0 DEF IndInv, IterInv, iterator, Checked
<1>9. PairRefers'
  BY <1>0, <1>d DEF IndInv, PairRefers, lookedup
<1> QED BY <1>3, <1>4, <1>5, <1>6, <1>7, <1>8, <1>9 DEF IndInv

\* Nor does a value set through the pair.
LEMMA PairSetValueInv ==
  ASSUME IndInv, NEW v \in Value, PairSetValue(v)
  PROVE  IndInv'
<1>0. /\ pc = "idle" /\ pc' = "idle" /\ req' = req /\ iter' = iter /\ prev' = prev /\ found # NULL
      /\ node' = [node EXCEPT ![pair].data = v]
      /\ UNCHANGED <<heap, table, iterator, lookedup>>
  BY DEF PairSetValue, locals
<1>a. pair \in heap /\ pair \in Node /\ heap \subseteq Node /\ node \in NodeType
  BY <1>0, Types DEF IndInv, PairRefers
<1>c. /\ node' \in NodeType
      /\ \A n \in Node : node'[n].next = node[n].next /\ node'[n].key = node[n].key
  BY <1>0, <1>a DEF NodeType
<1>d. \A n \in heap : node'[n].key = node[n].key
  BY <1>a, <1>c
<1>e. \A k : INDEX(k)' = INDEX(k)
  BY <1>0 DEF INDEX, table
<1>3. TypeOK'
  <2>1. TableOK' /\ LookedupOK' /\ IteratorOK'
    BY <1>0, UnchangedParts DEF IndInv, table
  <2>2. MemoryOK'
    BY <1>0, <1>a, <1>c DEF MemoryOK
  <2>3. LocalsOK'
    BY <1>0, TypeParts DEF IndInv, LocalsOK
  <2> QED BY <2>1, <2>2, <2>3, TypeParts
<1>4. Shape'
  BY <1>0, <1>c, <1>d, DataShape
<1>5. KeysInv'
  BY <1>0, <1>d DEF IndInv, KeysInv
<1>6. CountInv' /\ SizeInv' /\ CallInv' /\ ResizeInv'
  BY <1>0 DEF IndInv, CountInv, SizeInv, CallInv, ResizeInv, table
<1>7. LoadInv'
  BY <1>0 DEF IndInv, LoadInv, Checked, Ascending, table
<1>8. IterInv'
  <2>1. /\ liter' = liter /\ offset' = offset /\ finished' = finished /\ iterating' = iterating
        /\ size' = size /\ heap' = heap /\ IterInv
    BY <1>0 DEF iterator, table, IndInv
  <2>2. liter # NULL => liter \in heap /\ INDEX(node'[liter].key.key) = INDEX(node[liter].key.key)
    BY <2>1, <1>d DEF IterInv
  <2> QED BY <1>0, <1>e, <2>1, <2>2 DEF IterInv, Checked
<1>9. PairRefers'
  BY <1>0, <1>d DEF IndInv, PairRefers, lookedup
<1> QED BY <1>3, <1>4, <1>5, <1>6, <1>7, <1>8, <1>9 DEF IndInv

\* A new bucket becomes the head of its chain; the search has shown that its key
\* is new.
LEMMA SetNewInv ==
  ASSUME IndInv, NEW n \in Node, SetNew(n)
  PROVE  IndInv'
<1>a. PICK index : index = INDEX(req.key)
  OBVIOUS
<1>b. PICK new : new = [key |-> [key |-> req.key, copy |-> req.copy], data |-> req.value,
                        next |-> buckets[index]]
  OBVIOUS
<1>0. /\ pc = "find" /\ pc' = "idle" /\ req' = NULL /\ iter = NULL /\ iter' = NULL /\ prev' = NULL
      /\ req.op = "set" /\ req \in Request /\ count < SIZE_MAX /\ n \notin heap
      /\ node' = [node EXCEPT ![n] = new] /\ buckets' = [buckets EXCEPT ![index] = n]
      /\ heap' = heap \cup {n} /\ count' = count + 1
      /\ size' = size /\ sizeptr' = sizeptr /\ grow' = grow /\ UNCHANGED <<iterator, lookedup>>
  BY <1>a, <1>b DEF SetNew, Miss, CanCount, Return, IndInv, CallInv
<1>c. req.key \in Key /\ req.copy \in Copy /\ req.value \in Value
  BY <1>0, Requests
<1>d. /\ index \in DOMAIN buckets /\ index \in Nat /\ buckets[index] \in Node \cup {NULL}
      /\ buckets \in [0..(size - 1) -> Node \cup {NULL}]
  BY <1>a, <1>c, IndexInArray DEF IndInv, TypeOK
<1>e. /\ node \in NodeType /\ heap \subseteq Node /\ count \in Nat /\ size \in Nat
      /\ \A m \in heap : m # n
  BY <1>0, Types DEF IndInv
<1>f. /\ node' \in NodeType /\ node'[n] = new /\ \A m \in Node : m # n => node'[m] = node[m]
      /\ \A m \in heap : node'[m] = node[m]
  <2>1. new \in [key : KeyObject \cup {NULL}, data : Value \cup {NULL}, next : Node \cup {NULL}]
    BY <1>b, <1>c, <1>d DEF KeyObject
  <2> QED BY <1>0, <1>e, <2>1 DEF NodeType
<1>g. new.key.key = req.key /\ new.key \in KeyObject /\ new.next = buckets[index]
  BY <1>b, <1>c DEF KeyObject
<1>h. PICK home, rank : Structure(home, rank, {})
  BY <1>0, ShapeNow
<1>i. /\ Chained(NextOf(node), heap, buckets, home, rank) /\ home \in Numbers /\ rank \in Numbers
      /\ \A m \in heap : home[m] = INDEX(node[m].key.key)
      /\ \A m \in heap : node[m].key.key # req.key
  <2>1. heap \ {} = heap
    OBVIOUS
  <2> QED BY <1>0, <1>h, <2>1 DEF Structure, Searching
<1>j. \A k : INDEX(k)' = INDEX(k)
  BY <1>0 DEF INDEX
<1>k. ~iterating
  BY <1>0 DEF IndInv, IterInv, Checked
<1>3. TypeOK'
  <2>1. LookedupOK' /\ IteratorOK'
    BY <1>0, UnchangedParts DEF IndInv
  <2>2. MemoryOK' /\ LocalsOK'
    BY <1>0, <1>e, <1>f DEF MemoryOK, LocalsOK
  <2>3. TableOK'
    <3>1. buckets' \in [0..(size - 1) -> Node \cup {NULL}]
      BY <1>0, <1>d
    <3>2. count' \in 0..SIZE_MAX
      BY <1>0, <1>e, TableAssumption
    <3> QED BY <1>0, <3>1, <3>2, TypeParts DEF IndInv, TableOK
  <2> QED BY <2>1, <2>2, <2>3, TypeParts
<1>4. Shape'
  <2> DEFINE r == IF buckets[index] = NULL THEN 0 ELSE rank[buckets[index]] + 1
  <2>1. r \in Nat /\ (buckets[index] # NULL => rank[buckets[index]] < r)
    <3>1. buckets[index] # NULL => rank[buckets[index]] \in Nat
      BY <1>d, <1>i DEF Numbers
    <3> QED BY <3>1
  <2> HIDE DEF r
  <2>2. PICK home2, rank2 : /\ home2 = [home EXCEPT ![n] = index]
                            /\ rank2 = [rank EXCEPT ![n] = r]
    OBVIOUS
  <2>3. /\ home2 \in Numbers /\ rank2 \in Numbers
        /\ \A m \in heap : home2[m] = home[m]
        /\ home2[n] = index
    BY <2>1, <2>2, <1>d, <1>e, <1>i DEF Numbers
  <2>4. Chained(NextOf(node)', heap', buckets', home2, rank2)
    <3>2. PICK A, nx, nx2, hd : A = heap /\ nx = NextOf(node) /\ nx2 = NextOf(node)' /\ hd = buckets
      OBVIOUS
    <3>3. nx2[n] = hd[index] /\ \A m \in A : nx2[m] = nx[m]
      BY <3>2, <1>e, <1>f, <1>g DEF NextOf
    <3>4. Chained(nx2, A \cup {n}, [hd EXCEPT ![index] = n],
                  [home EXCEPT ![n] = index], [rank EXCEPT ![n] = r])
      <4>1. A \in SUBSET Node /\ n \in Node \ A /\ Chained(nx, A, hd, home, rank)
            /\ index \in DOMAIN hd /\ (hd[index] # NULL => rank[hd[index]] < r)
        BY <3>2, <2>1, <1>0, <1>d, <1>e, <1>i
      <4> QED BY <4>1, <3>3, <2>1, <1>d, <1>i, PushHead
    <3> QED BY <3>2, <3>4, <2>2, <1>0
  <2>5. \A m \in heap' : home2[m] = INDEX(node'[m].key.key)
    BY <2>3, <1>0, <1>a, <1>f, <1>g, <1>i
  <2>6. heap' \ {} = heap'
    OBVIOUS
  <2>7. Structure(home2, rank2, {})'
    BY <1>0, <1>j, <2>3, <2>4, <2>5, <2>6 DEF Structure
  <2> QED BY <2>7 DEF Shape
<1>5. KeysInv'
  BY <1>0, <1>f, <1>g, <1>i DEF IndInv, KeysInv
<1>6. CountInv'
  BY <1>0, FS_AddElement DEF IndInv, CountInv
<1>7. SizeInv' /\ CallInv' /\ ResizeInv'
  BY <1>0 DEF IndInv, SizeInv, CallInv, ResizeInv
<1>8. LoadInv'
  <2> SUFFICES ASSUME grow, Ascending PROVE count + 1 <= size + 1
    BY <1>0 DEF LoadInv, Checked, Ascending
  <2>1. count <= size
    BY <1>0 DEF IndInv, LoadInv, Checked
  <2> QED BY <2>1, <1>e
<1>9. IterInv'
  BY <1>0, <1>k DEF IndInv, IterInv, iterator
<1>10. PairRefers'
  BY <1>0, <1>f DEF IndInv, PairRefers, lookedup
<1> QED BY <1>3, <1>4, <1>5, <1>6, <1>7, <1>8, <1>9, <1>10 DEF IndInv

\* The bucket is taken out of its chain, whether it is the head or prev comes
\* before it.
LEMMA RemoveInv ==
  ASSUME IndInv, Remove
  PROVE  IndInv'
<1>a. PICK index, n : index = INDEX(req.key) /\ n = iter
  OBVIOUS
<1>0. /\ pc = "remove" /\ pc' = "idle" /\ req' = NULL /\ n # NULL /\ iter' = NULL /\ prev' = NULL
      /\ req \in Request /\ node[n].key.key = req.key
      /\ heap' = heap \ {n} /\ count' = count - 1 /\ EndIteration
      /\ size' = size /\ sizeptr' = sizeptr /\ grow' = grow /\ pair' = pair
      /\ found' = IF found = req.key THEN NULL ELSE found
  BY <1>a DEF Remove, Return, Equal, IndInv, CallInv
<1>1. prev # NULL => /\ node' = [node EXCEPT ![prev].next = node[n].next, ![n] = Unused]
                     /\ buckets' = buckets
  BY <1>a DEF Remove, Unlink
<1>2. prev = NULL => /\ node' = [node EXCEPT ![n] = Unused]
                     /\ buckets' = [buckets EXCEPT ![index] = node[n].next]
  BY <1>a DEF Remove, Unlink
<1>c. req.key \in Key
  BY <1>0, Requests
<1>d. /\ index \in DOMAIN buckets /\ index \in Nat
      /\ buckets \in [0..(size - 1) -> Node \cup {NULL}]
  BY <1>a, <1>c, IndexInArray DEF IndInv, TypeOK
<1>e. /\ node \in NodeType /\ heap \subseteq Node /\ count \in Nat /\ size \in Nat
      /\ NULL \notin Node /\ n \in heap /\ n \in Node /\ node[n].next \in Node \cup {NULL}
  BY <1>0, <1>a, IterInUse, Types DEF IndInv
<1>h. PICK home, rank : Structure(home, rank, {})
  BY <1>0, ShapeNow
<1>i. /\ Chained(NextOf(node), heap, buckets, home, rank) /\ home \in Numbers /\ rank \in Numbers
      /\ \A m \in heap : home[m] = INDEX(node[m].key.key)
      /\ prev = NULL => n = buckets[index]
      /\ prev # NULL => prev \in heap /\ node[prev].next = n
  <2>1. heap \ {} = heap
    OBVIOUS
  <2> QED BY <1>0, <1>a, <1>h, <2>1 DEF Structure, Searching
<1>p. prev # NULL => prev # n /\ prev \in Node
  <2> SUFFICES ASSUME prev # NULL PROVE prev # n /\ prev \in Node
    OBVIOUS
  <2>1. prev \in heap /\ prev \in Node /\ NextOf(node)[prev] = n
    BY <1>e, <1>i DEF NextOf
  <2>2. rank[n] < rank[prev]
    BY <1>0, <1>i, <2>1 DEF Chained, Links
  <2>3. rank[n] \in Nat
    BY <1>e, <1>i DEF Numbers
  <2> QED BY <2>1, <2>2, <2>3
<1>u. Unused \in [key : KeyObject \cup {NULL}, data : Value \cup {NULL}, next : Node \cup {NULL}]
  BY DEF Unused
<1>f. /\ node' \in NodeType
      /\ \A m \in heap \ {n} : node'[m].key = node[m].key /\ node'[m].data = node[m].data
      /\ \A m \in heap \ {n} : m # prev => node'[m].next = node[m].next
      /\ prev # NULL => node'[prev].next = node[n].next
  <2>1. CASE prev = NULL
    BY <2>1, <1>2, <1>e, <1>u DEF NodeType
  <2>2. CASE prev # NULL
    <3>1. node' = [[node EXCEPT ![prev].next = node[n].next] EXCEPT ![n] = Unused]
      BY <2>2, <1>1
    <3>2. PICK nd : nd = [node EXCEPT ![prev].next = node[n].next]
      OBVIOUS
    <3>3. /\ nd \in NodeType /\ nd[prev].next = node[n].next
          /\ \A m \in Node : nd[m].key = node[m].key /\ nd[m].data = node[m].data
          /\ \A m \in Node : m # prev => nd[m].next = node[m].next
      BY <2>2, <3>2, <1>e, <1>p DEF NodeType
    <3>4. /\ [nd EXCEPT ![n] = Unused] \in NodeType
          /\ \A m \in Node : m # n => [nd EXCEPT ![n] = Unused][m] = nd[m]
      BY <3>3, <1>e, <1>u DEF NodeType
    <3>5. node' \in NodeType /\ \A m \in Node : m # n => node'[m] = nd[m]
      BY <3>1, <3>2, <3>4
    <3> QED BY <2>2, <3>3, <3>5, <1>e, <1>p
  <2> QED BY <2>1, <2>2
<1>j. \A k : INDEX(k)' = INDEX(k)
  BY <1>0 DEF INDEX
<1>3. TypeOK'
  <2>1. LookedupOK'
    BY <1>0, TypeParts DEF IndInv, LookedupOK
  <2>2. IteratorOK'
    BY <1>0, <1>e, EndParts
  <2>3. MemoryOK' /\ LocalsOK'
    BY <1>0, <1>e, <1>f DEF MemoryOK, LocalsOK
  <2>4. TableOK'
    <3>1. buckets' \in [0..(size - 1) -> Node \cup {NULL}]
      BY <1>1, <1>2, <1>d, <1>e
    <3>2. count' \in 0..SIZE_MAX
      <4>1. count # 0
        BY <1>e, FS_EmptySet DEF IndInv, CountInv
      <4>2. count \in 0..SIZE_MAX
        BY DEF IndInv, TypeOK
      <4>3. SIZE_MAX \in Nat
        BY TableAssumption
      <4> QED BY <1>0, <4>1, <4>2, <4>3
    <3> QED BY <1>0, <3>1, <3>2, TypeParts DEF IndInv, TableOK
  <2> QED BY <2>1, <2>2, <2>3, <2>4, TypeParts
<1>4. Shape'
  <2>1. PICK A, nx, nx2, hd : A = heap /\ nx = NextOf(node) /\ nx2 = NextOf(node)' /\ hd = buckets
    OBVIOUS
  <2>2. /\ A \in SUBSET Node /\ n \in A /\ index \in DOMAIN hd /\ Chained(nx, A, hd, home, rank)
        /\ nx[n] = node[n].next
        /\ \A m \in A \ {n} : m # prev => nx2[m] = nx[m]
    BY <2>1, <1>d, <1>e, <1>f, <1>i DEF NextOf
  <2>3. Chained(nx2, A \ {n}, buckets', home, rank)
    <3>1. CASE prev = NULL
      <4>1. hd[index] = n /\ buckets' = [hd EXCEPT ![index] = nx[hd[index]]]
        BY <3>1, <2>1, <2>2, <1>2, <1>i
      <4>2. Chained(nx, A \ {n}, buckets', home, rank)
        BY <4>1, <2>2, <1>0, <1>i, PopHead
      <4>3. PICK hd2 : hd2 = buckets'
        OBVIOUS
      <4>4. \A m \in A \ {n} : nx2[m] = nx[m]
        BY <3>1, <2>1, <2>2, <1>e
      <4>5. Chained(nx2, A \ {n}, hd2, home, rank)
        BY <4>2, <4>3, <4>4, SameChains
      <4> QED BY <4>3, <4>5
    <3>2. CASE prev # NULL
      <4>1. PICK p : p = prev
        OBVIOUS
      <4>2. /\ p \in A /\ nx[p] = n /\ nx2[p] = nx[n]
            /\ \A m \in A \ {p, n} : nx2[m] = nx[m]
        BY <3>2, <4>1, <2>1, <2>2, <1>f, <1>i, <1>p DEF NextOf
      <4>3. Chained(nx2, A \ {n}, hd, home, rank)
        BY <4>2, <2>2, <1>i, SkipNext
      <4> QED BY <3>2, <4>3, <2>1, <1>1
    <3> QED BY <3>1, <3>2
  <2>4. \A m \in heap' : home[m] = INDEX(node'[m].key.key)
    BY <1>0, <1>f, <1>i
  <2>5. heap' \ {} = A \ {n}
    BY <1>0, <2>1
  <2>6. Structure(home, rank, {})'
    BY <1>0, <1>i, <1>j, <2>1, <2>3, <2>4, <2>5 DEF Structure
  <2> QED BY <2>6 DEF Shape
<1>5. KeysInv'
  BY <1>0, <1>f DEF IndInv, KeysInv
<1>6. CountInv'
  BY <1>0, <1>e, FS_RemoveElement DEF IndInv, CountInv
<1>7. SizeInv' /\ CallInv' /\ ResizeInv'
  BY <1>0 DEF IndInv, SizeInv, CallInv, ResizeInv
<1>8. LoadInv'
  <2> SUFFICES ASSUME grow, Ascending PROVE count - 1 <= size + 1
    BY <1>0 DEF LoadInv, Checked, Ascending
  <2>1. count <= size + 1
    BY <1>0 DEF IndInv, LoadInv
  <2> QED BY <2>1, <1>e
<1>9. IterInv'
  BY <1>0 DEF IterInv, EndIteration
<1>10. PairRefers'
  BY <1>0, <1>f DEF IndInv, PairRefers
<1> QED BY <1>3, <1>4, <1>5, <1>6, <1>7, <1>8, <1>9, <1>10 DEF IndInv

\* An empty table with this number of chains.
LEMMA EmptyInv ==
  ASSUME IndInv, pc = "idle", FreeMemory, UNCHANGED <<locals, pc, req>>,
         size' \in Nat \ {0}, sizeptr' \in Nat, grow' \in BOOLEAN, buckets' = NoBuckets(size'),
         pair' \in Node \cup {NULL}, SizeInv'
  PROVE  IndInv'
<1>0. /\ pc' = "idle" /\ req' = req /\ iter' = iter /\ prev' = prev
      /\ heap' = {} /\ node' = [n \in Node |-> Unused] /\ count' = 0 /\ found' = NULL /\ EndIteration
  BY DEF FreeMemory, locals
<1>1. buckets' = [j \in 0..(size' - 1) |-> NULL]
  BY DEF NoBuckets
<1>3. TypeOK'
  <2>1. MemoryOK'
    BY <1>0 DEF MemoryOK, NodeType, Unused
  <2>2. TableOK'
    <3>1. buckets' \in [0..(size' - 1) -> Node \cup {NULL}]
      BY <1>1
    <3>2. count' \in 0..SIZE_MAX
      BY <1>0, TableAssumption
    <3> QED BY <3>1, <3>2 DEF TableOK
  <2>3. LookedupOK'
    BY <1>0 DEF LookedupOK
  <2>4. IteratorOK'
    BY <1>0, EndParts
  <2>5. LocalsOK'
    BY <1>0, TypeParts DEF IndInv, LocalsOK
  <2> QED BY <2>1, <2>2, <2>3, <2>4, <2>5, TypeParts
<1>4. Shape'
  <2>1. PICK z \in Numbers : z = [n \in Node |-> 0]
    BY DEF Numbers
  <2>2. Chained(NextOf(node)', {}, buckets', z, z)
    <3>1. PICK nx, hd : nx = NextOf(node)' /\ hd = buckets'
      OBVIOUS
    <3>2. \A j \in DOMAIN hd : hd[j] = NULL
      BY <3>1, <1>1
    <3>3. Chained(nx, {}, hd, z, z)
      BY <3>2, NoChains
    <3> QED BY <3>1, <3>3
  <2>3. heap' \ {} = {}
    BY <1>0
  <2>4. Structure(z, z, {})'
    BY <1>0, <2>2, <2>3 DEF Structure
  <2> QED BY <2>4 DEF Shape
<1>5. KeysInv' /\ CallInv' /\ ResizeInv' /\ PairRefers'
  BY <1>0 DEF IndInv, KeysInv, CallInv, ResizeInv, PairRefers
<1>6. CountInv'
  BY <1>0, FS_EmptySet DEF CountInv
<1>7. LoadInv'
  <2>1. ~Checked'
    BY <1>0 DEF Checked
  <2>2. PICK s \in Nat : s = size'
    OBVIOUS
  <2>3. 0 <= s + 1
    OBVIOUS
  <2> QED BY <1>0, <2>1, <2>2, <2>3 DEF LoadInv
<1>8. IterInv'
  BY <1>0 DEF IterInv, EndIteration
<1> QED BY <1>3, <1>4, <1>5, <1>6, <1>7, <1>8 DEF IndInv

\* hashtable_clear empties the table and keeps its size.
LEMMA ClearInv ==
  ASSUME IndInv, Clear
  PROVE  IndInv'
<1>1. /\ pc = "idle" /\ FreeMemory /\ UNCHANGED <<locals, pc, req>>
      /\ size' = size /\ sizeptr' = sizeptr /\ grow' = grow /\ pair' = pair /\ buckets' = NoBuckets(size')
  BY DEF Clear
<1>2. TableOK /\ LookedupOK
  BY TypeParts DEF IndInv
<1>3. /\ size' \in Nat \ {0} /\ sizeptr' \in Nat /\ grow' \in BOOLEAN /\ pair' \in Node \cup {NULL}
      /\ SizeInv'
  BY <1>1, <1>2 DEF IndInv, TableOK, LookedupOK, SizeInv
<1> QED BY <1>1, <1>3, EmptyInv

\* hashtable_free and hashtable_init empty the table and begin with a new size.
LEMMA ReinitInv ==
  ASSUME IndInv, NEW s \in SizeArguments, Reinit(s)
  PROVE  IndInv'
<1>1. /\ pc = "idle" /\ FreeMemory /\ UNCHANGED <<locals, pc, req>>
      /\ size' = (IF s = 0 THEN PRIMES[1] ELSE s) /\ sizeptr' = (IF s = 0 THEN 1 ELSE 0)
      /\ grow' = (s = 0) /\ pair' = NULL /\ buckets' = NoBuckets(size')
  BY DEF Reinit, InitialTable, HASHTABLE_AUTO_RESIZE
<1>2. Len(PRIMES) \in Nat \ {0} /\ PRIMES[1] \in Nat \ {0}
  BY TableAssumption
<1>3. s = 0 \/ s \in Nat \ {0}
  BY TableAssumption DEF SizeArguments, HASHTABLE_AUTO_RESIZE
<1>4. size' \in Nat \ {0} /\ sizeptr' \in Nat /\ pair' \in Node \cup {NULL}
  BY <1>1, <1>2, <1>3
<1>5. grow' \in BOOLEAN /\ (grow' => s = 0)
  BY <1>1, Zenon
<1>6. SizeInv'
  BY <1>1, <1>2, <1>5 DEF SizeInv
<1> QED BY <1>1, <1>4, <1>5, <1>6, EmptyInv

\* Nothing changes.
LEMMA StutterInv ==
  ASSUME IndInv, UNCHANGED vars
  PROVE  IndInv'
<1>0. UNCHANGED <<memory, table, iterator, lookedup, locals, pc, req>>
  BY DEF vars
<1>1. /\ iter' = iter /\ prev' = prev /\ old' = old /\ i' = i /\ pc' = pc /\ req' = req
      /\ node' = node /\ heap' = heap /\ buckets' = buckets /\ size' = size /\ count' = count
      /\ sizeptr' = sizeptr /\ grow' = grow
  BY <1>0 DEF locals, memory, table
<1>2. TypeOK'
  <2>1. MemoryOK' /\ TableOK' /\ LookedupOK' /\ IteratorOK'
    BY <1>0, <1>1, UnchangedParts DEF IndInv
  <2>2. LocalsOK'
    BY <1>1, TypeParts DEF IndInv, LocalsOK
  <2> QED BY <2>1, <2>2, TypeParts
<1>3. Shape'
  <2>1. PICK home, rank, left : Structure(home, rank, left)
    BY DEF IndInv, Shape
  <2>2. Rest' = Rest /\ NextOf(node)' = NextOf(node) /\ \A k : INDEX(k)' = INDEX(k)
    BY <1>1 DEF Rest, NextOf, INDEX
  <2>3. Searching(rank)' <=> Searching(rank)
    BY <1>1, <2>2 DEF Searching
  <2>4. Structure(home, rank, left)'
    BY <1>1, <2>1, <2>2, <2>3 DEF Structure
  <2> QED BY <2>4 DEF Shape
<1>4. KeysInv' /\ CountInv' /\ SizeInv'
  BY <1>0, Quiet
<1>5. CallInv' /\ ResizeInv'
  BY <1>1 DEF IndInv, CallInv, ResizeInv
<1>6. IterInv'
  BY <1>0, <1>1, Quiet DEF IndInv, IterInv, Checked, iterator
<1>7. LoadInv' /\ PairRefers'
  BY <1>0, <1>1, Quiet DEF IndInv, LoadInv, Checked, PairRefers, lookedup
<1> QED BY <1>2, <1>3, <1>4, <1>5, <1>6, <1>7 DEF IndInv

\* Every step preserves the invariant.
LEMMA StepInv ==
  ASSUME IndInv, [Next]_vars
  PROVE  IndInv'
<1>1. ASSUME NEW r \in Request, CallSet(r) \/ Call(r) PROVE IndInv'
  BY <1>1, CallSetInv, CallOtherInv
<1>2. CASE SetFind
  BY <1>2, SetFindInv
<1>3. CASE ResizeAbort
  BY <1>3, ResizeAbortInv
<1>4. CASE ResizeStart
  BY <1>4, ResizeStartInv
<1>5. CASE ResizeStep
  BY <1>5, ResizeStepInv
<1>6. CASE ResizeChain
  BY <1>6, ResizeChainInv
<1>7. CASE ResizeEnd
  BY <1>7, ResizeEndInv
<1>8. CASE FindStep \/ RemoveStep
  BY <1>8, SearchStepInv
<1>9. CASE SetReplace
  BY <1>9, SetReplaceInv
<1>10. ASSUME NEW n \in Node, SetNew(n) PROVE IndInv'
  BY <1>10, SetNewInv
<1>11. CASE SetFail \/ RemoveMissing \/ Lookup \/ Exists
  BY <1>11, ReadInv
<1>12. CASE Remove
  BY <1>12, RemoveInv
<1>13. CASE PairGet
  BY <1>13, PairGetInv
<1>14. ASSUME NEW e \in Offered, PairSetValue(e.value) PROVE IndInv'
  <2>1. e.value \in Value
    BY TableAssumption
  <2> QED BY <1>14, <2>1, PairSetValueInv
<1>15. CASE Clear
  BY <1>15, ClearInv
<1>16. ASSUME NEW s \in SizeArguments, Reinit(s) PROVE IndInv'
  BY <1>16, ReinitInv
<1>17. CASE IterInit
  BY <1>17, IterInitInv
<1>18. CASE IterNext
  BY <1>18, IterNextInv
<1>19. CASE UNCHANGED vars
  BY <1>19, StutterInv
<1> QED BY <1>1, <1>2, <1>3, <1>4, <1>5, <1>6, <1>7, <1>8, <1>9, <1>10, <1>11, <1>12, <1>13,
           <1>14, <1>15, <1>16, <1>17, <1>18, <1>19 DEF Next

\* The chains as Walk sees them.
LEMMA PlacedNow ==
  ASSUME IndInv
  PROVE  Placed
<1>a. PICK home, rank, left : Structure(home, rank, left)
  BY DEF IndInv, Shape
<1>b. /\ Chained(NextOf(node), heap \ left, buckets, home, rank)
      /\ home \in Numbers /\ rank \in Numbers /\ left \in SUBSET heap
      /\ \A n \in heap \ left : home[n] = INDEX(node[n].key.key)
      /\ pc # "resize" => left = {}
      /\ pc = "resize" => Chained(NextOf(node), left, Rest, home, rank)
  BY <1>a DEF Structure
<1>c. node \in NodeType /\ heap \ left \in SUBSET Node /\ left \in SUBSET Node
  BY <1>b, Types DEF IndInv
<1>1. \A j \in DOMAIN buckets : /\ Chain(node, buckets[j]) = {m \in heap \ left : home[m] = j}
                                /\ Ends(node, buckets[j])
  BY <1>b, <1>c, ChainOfHead
<1>2. Linked = heap \ left
  <2>1. \A m \in heap \ left : home[m] \in DOMAIN buckets
    BY <1>b DEF Chained, Tops
  <2> QED BY <1>1, <2>1 DEF Linked
<1>3. Moving = left
  <2>1. CASE pc # "resize"
    BY <2>1, <1>b DEF Moving
  <2>2. CASE pc = "resize"
    <3>1. PICK m \in Nat \ {0} : old \in [0..(m - 1) -> Node \cup {NULL}] /\ i \in 0..(m - 1)
      BY <2>2 DEF IndInv, ResizeInv
    <3>2. DOMAIN Rest = DOMAIN old /\ \A j \in DOMAIN old :
            Rest[j] = IF j < i THEN NULL ELSE IF j = i THEN iter ELSE old[j]
      BY DEF Rest
    <3>3. \A j \in DOMAIN old : Chain(node, Rest[j]) = {n \in left : home[n] = j}
      BY <2>2, <3>2, <1>b, <1>c, ChainOfHead
    <3>4. i \in DOMAIN old /\ Rest[i] = iter /\ \A j \in DOMAIN old : j > i => Rest[j] = old[j]
      BY <3>1, <3>2
    <3>5. Moving = Chain(node, iter) \cup UNION {Chain(node, old[j]) : j \in {o \in DOMAIN old : o > i}}
      BY <2>2 DEF Moving
    <3>6. ASSUME NEW n \in Moving PROVE n \in left
      BY <3>3, <3>4, <3>5
    <3>7. ASSUME NEW n \in left PROVE n \in Moving
      <4>1. home[n] \in DOMAIN old /\ Rest[home[n]] # NULL
        BY <2>2, <3>2, <1>b DEF Chained, Tops
      <4>2. n \in Chain(node, Rest[home[n]])
        BY <4>1, <3>3
      <4>3. ~(home[n] < i)
        BY <4>1, <3>2
      <4>4. CASE home[n] = i
        BY <4>4, <4>2, <3>4, <3>5
      <4>5. CASE home[n] > i
        <5>1. n \in Chain(node, old[home[n]])
          BY <4>1, <4>2, <4>5, <3>4
        <5> QED BY <4>1, <4>5, <5>1, <3>5
      <4> QED BY <4>1, <4>3, <4>4, <4>5, <3>1
    <3> QED BY <3>6, <3>7
  <2> QED BY <2>1, <2>2
<1>4. heap = Linked \cup Moving /\ Linked \cap Moving = {}
  BY <1>2, <1>3, <1>b
<1>5. \A j \in DOMAIN buckets : \A n \in Chain(node, buckets[j]) : INDEX(node[n].key.key) = j
  BY <1>1, <1>b
<1> QED BY <1>1, <1>4, <1>5 DEF Placed, IndInv, CountInv

\* The invariant holds.
THEOREM TableInvariant == Spec => []IndInv
BY InitInv, StepInv, PTL DEF Spec

\* Every bucket taken from the pool is in the chain its key hashes to and in no
\* other, the chains end, and count is their number, whatever the keys hash to
\* and whatever the sizes; while _hashtable_resize relinks the buckets none is
\* lost or linked twice.
THEOREM TableBucketsPlaced == Spec => []Placed
<1>1. IndInv => Placed
  BY PlacedNow
<1> QED BY <1>1, TableInvariant, PTL

\* The pair of hashtable_lookup stays what was found: no resize, replacement,
\* insertion or removal of another key makes it refer to another bucket, or to
\* one that went back to the pool.
THEOREM TablePairRefers == Spec => []PairRefers
<1>1. IndInv => PairRefers
  BY DEF IndInv
<1> QED BY <1>1, TableInvariant, PTL

\* A table that resizes itself, along sizes that ascend, holds at most one
\* element more than it has chains.
THEOREM TableLoadBounded == Spec => []LoadBounded
<1>1. IndInv => LoadBounded
  BY DEF IndInv, LoadInv, LoadBounded, Ascending
<1> QED BY <1>1, TableInvariant, PTL

-----------------------------------------------------------------------------
(***************************************************************************)
(* The table implements Map.                                               *)
(***************************************************************************)

\* What the map holds for a bucket.
Entry(nd, n) == [copy |-> nd[n].key.copy, value |-> nd[n].data]

\* No two buckets have the same key.
Unique(nd, hp) == \A m, n \in hp : nd[m].key.key = nd[n].key.key => m = n

\* g is the map of the buckets, bucket by bucket.
IsMapOf(g, nd, hp) ==
  /\ g = [k \in DOMAIN g |-> g[k]]
  /\ \A k \in DOMAIN g : \E n \in hp : k = nd[n].key.key
  /\ \A n \in hp : nd[n].key.key \in DOMAIN g /\ g[nd[n].key.key] = Entry(nd, n)

\* MapOf is the map of the buckets.
LEMMA MapOfAt ==
  ASSUME NEW nd, NEW hp, Unique(nd, hp)
  PROVE  IsMapOf(MapOf(nd, hp), nd, hp)
<1>a. PICK g : g = MapOf(nd, hp)
  OBVIOUS
<1>1. DOMAIN g = {nd[n].key.key : n \in hp} /\ g = [k \in DOMAIN g |-> g[k]]
  BY <1>a DEF MapOf
<1>2. \A k \in DOMAIN g : \E n \in hp : k = nd[n].key.key
  BY <1>1
<1>3. \A n \in hp : nd[n].key.key \in DOMAIN g
  BY <1>1
<1>4. ASSUME NEW n \in hp PROVE g[nd[n].key.key] = Entry(nd, n)
  <2> DEFINE c == CHOOSE m \in hp : nd[m].key.key = nd[n].key.key
  <2>1. c \in hp /\ nd[c].key.key = nd[n].key.key
    OBVIOUS
  <2>2. c = n
    BY <2>1 DEF Unique
  <2>3. g[nd[n].key.key] = [copy |-> nd[c].key.copy, value |-> nd[c].data]
    BY <1>a DEF MapOf
  <2> QED BY <2>2, <2>3 DEF Entry
<1> QED BY <1>a, <1>1, <1>2, <1>3, <1>4 DEF IsMapOf

\* There is only one map of the buckets.
LEMMA MapOfIs ==
  ASSUME NEW nd, NEW hp, Unique(nd, hp), NEW f, IsMapOf(f, nd, hp)
  PROVE  MapOf(nd, hp) = f
<1>a. PICK g : g = MapOf(nd, hp)
  OBVIOUS
<1>1. IsMapOf(g, nd, hp)
  BY <1>a, MapOfAt
<1>2. DOMAIN g = DOMAIN f
  <2>1. ASSUME NEW k \in DOMAIN f PROVE k \in DOMAIN g
    <3>1. PICK n \in hp : k = nd[n].key.key
      BY DEF IsMapOf
    <3> QED BY <3>1, <1>1 DEF IsMapOf
  <2>2. ASSUME NEW k \in DOMAIN g PROVE k \in DOMAIN f
    <3>1. PICK n \in hp : k = nd[n].key.key
      BY <1>1 DEF IsMapOf
    <3> QED BY <3>1 DEF IsMapOf
  <2> QED BY <2>1, <2>2
<1>3. ASSUME NEW k \in DOMAIN f PROVE g[k] = f[k]
  <2>1. PICK n \in hp : k = nd[n].key.key
    BY DEF IsMapOf
  <2> QED BY <2>1, <1>1 DEF IsMapOf
<1>4. g = [k \in DOMAIN g |-> g[k]] /\ f = [k \in DOMAIN f |-> f[k]]
  BY <1>1 DEF IsMapOf
<1> QED BY <1>a, <1>2, <1>3, <1>4

\* What the map of the table holds.
LEMMA MapNow ==
  ASSUME IndInv
  PROVE  /\ Unique(node, heap)
         /\ AbsMap = [k \in DOMAIN AbsMap |-> AbsMap[k]]
         /\ \A k \in DOMAIN AbsMap : \E n \in heap : k = node[n].key.key
         /\ \A n \in heap : /\ node[n].key.key \in DOMAIN AbsMap
                            /\ AbsMap[node[n].key.key] = Entry(node, n)
<1>1. Unique(node, heap)
  BY DEF IndInv, KeysInv, Unique
<1>2. IsMapOf(AbsMap, node, heap)
  BY <1>1, MapOfAt DEF AbsMap
<1> QED BY <1>1, <1>2 DEF IsMapOf

\* A key that was found is in the map, one that was not found is not.
LEMMA FoundInMap ==
  ASSUME IndInv, pc \in {"find", "remove"}
  PROVE  /\ iter # NULL /\ Equal(iter) => /\ iter \in heap /\ node[iter].key.key = req.key
                                          /\ req.key \in DOMAIN AbsMap
                                          /\ AbsMap[req.key] = Entry(node, iter)
         /\ iter = NULL => req.key \notin DOMAIN AbsMap
<1>1. ASSUME iter # NULL, Equal(iter)
      PROVE  /\ iter \in heap /\ node[iter].key.key = req.key
             /\ req.key \in DOMAIN AbsMap /\ AbsMap[req.key] = Entry(node, iter)
  <2>1. iter \in heap /\ node[iter].key.key = req.key
    BY <1>1, IterInUse DEF Equal
  <2> QED BY <2>1, MapNow
<1>2. ASSUME iter = NULL PROVE req.key \notin DOMAIN AbsMap
  <2>1. PICK home, rank : Structure(home, rank, {})
    BY ShapeNow
  <2>2. \A n \in heap : node[n].key.key # req.key
    BY <1>2, <2>1 DEF Structure, Searching
  <2> QED BY <2>2, MapNow
<1> QED BY <1>1, <1>2

\* As many keys as buckets.
LEMMA MapSize ==
  ASSUME IndInv
  PROVE  Cardinality(DOMAIN AbsMap) = count
<1> DEFINE D == DOMAIN AbsMap
           f == [n \in heap |-> node[n].key.key]
<1>1. /\ Unique(node, heap)
      /\ \A k \in D : \E n \in heap : k = node[n].key.key
      /\ \A n \in heap : node[n].key.key \in D
  BY MapNow
<1> HIDE DEF D
<1>2. f \in Injection(heap, D)
  <2>1. f \in [heap -> D]
    BY <1>1
  <2>2. IsInjective(f)
    BY <1>1 DEF IsInjective, Unique
  <2> QED BY <2>1, <2>2 DEF Injection
<1>3. f \in Surjection(heap, D)
  <2>1. f \in [heap -> D] /\ \A k \in D : \E n \in heap : f[n] = k
    BY <1>1
  <2> QED BY <2>1 DEF Surjection
<1> HIDE DEF f
<1>4. Cardinality(D) = Cardinality(heap)
  BY <1>2, <1>3, FS_Surjection DEF IndInv, CountInv
<1> QED BY <1>4 DEF D, IndInv, CountInv

\* The buckets an iterator has yet to visit.
LEMMA UnvisitedAt ==
  ASSUME NEW nd \in NodeType, NEW A \in SUBSET Node, NEW bk,
         NEW home \in Numbers, NEW rank \in Numbers,
         Chained(NextOf(nd), A, bk, home, rank), NEW it \in A \cup {NULL}, NEW o \in Nat
  PROVE  \A n : n \in Unvisited(nd, bk, it, o)
                <=> /\ n \in A
                    /\ \/ home[n] >= o
                       \/ it # NULL /\ home[n] = home[it] /\ rank[n] < rank[it]
<1>0. NULL \notin A /\ \A n \in A : rank[n] \in Nat /\ home[n] \in Nat
  BY NodeCount DEF Numbers
<1>1. \A j \in DOMAIN bk : Chain(nd, bk[j]) = {m \in A : home[m] = j}
  BY ChainOfHead
<1>2. \A n \in A : home[n] \in DOMAIN bk
  BY DEF Chained, Tops
<1>3. it # NULL => Chain(nd, it) = {m \in A : home[m] = home[it] /\ rank[m] <= rank[it]}
  <2>1. it # NULL => it \in A
    OBVIOUS
  <2> QED BY <2>1, ChainOfBucket DEF Below
<1>4. it = NULL => Chain(nd, it) = {}
  BY ChainOfNull
<1>5. \A n : n \in Chain(nd, it) \ {it}
             <=> n \in A /\ it # NULL /\ home[n] = home[it] /\ rank[n] < rank[it]
  <2>1. CASE it = NULL
    BY <2>1, <1>4
  <2>2. CASE it # NULL
    <3>1. it \in A /\ \A n \in A : home[n] = home[it] /\ rank[n] = rank[it] => n = it
      BY <2>2 DEF Chained, Distinct
    <3>2. ASSUME NEW n \in A, home[n] = home[it]
          PROVE  rank[n] <= rank[it] /\ n # it <=> rank[n] < rank[it]
      BY <3>1, <3>2, <1>0
    <3> QED BY <2>2, <3>2, <1>3
  <2> QED BY <2>1, <2>2
<1>6. \A n : n \in UNION {Chain(nd, bk[j]) : j \in {a \in DOMAIN bk : a >= o}}
             <=> n \in A /\ home[n] >= o
  BY <1>1, <1>2
<1> QED BY <1>5, <1>6 DEF Unvisited

\* The empty table is the empty map.
LEMMA RefInit == Init => Abs!Init
<1> SUFFICES ASSUME Init PROVE Abs!Init
  OBVIOUS
<1>1. heap = {}
  BY DEF Init
<1>2. AbsMap = [k \in {} |-> NULL]
  BY <1>1 DEF AbsMap, MapOf
<1>3. AbsTodo = NULL
  BY DEF Init, AbsTodo
<1> QED BY <1>2, <1>3 DEF Init, Abs!Init

\* What the map does not see.
LEMMA SameAbs ==
  /\ UNCHANGED memory => AbsMap' = AbsMap
  /\ UNCHANGED <<memory, buckets, iterator>> => AbsTodo' = AbsTodo
BY DEF AbsMap, AbsTodo, memory, iterator

\* A call begins.
LEMMA RefCall ==
  ASSUME IndInv, NEW r \in Request, CallSet(r) \/ Call(r)
  PROVE  Abs!Call
<1>1. req = NULL /\ req' = r /\ found' = found /\ UNCHANGED memory /\ ret' = <<"none">> /\ freed' = {}
  BY DEF CallSet, Call, lookedup, IndInv, CallInv
<1>2. AbsMap' = AbsMap
  BY <1>1, SameAbs
<1>3. r \in Abs!Request
  <2>1. CASE r \in SetRequest
    <3>1. PICK e \in Offered, o \in BOOLEAN :
            r = [op |-> "set", key |-> e.key, copy |-> e.copy, value |-> e.value, over |-> o]
      BY <2>1 DEF SetRequest
    <3>2. e \in [key : Key, copy : Copy, value : Value]
      BY TableAssumption
    <3>3. e.key \in Key /\ e.copy \in Copy /\ e.value \in Value
      BY <3>2
    <3> QED BY <3>1, <3>3 DEF Abs!Request
  <2>2. CASE r \in [op : {"remove", "lookup", "exists"}, key : Key]
    BY <2>2 DEF Abs!Request
  <2> QED BY <2>1, <2>2 DEF Request
<1>4. AbsTodo' = IF r.op = "set" THEN NULL ELSE AbsTodo
  <2>1. CASE r.op = "set"
    BY <2>1 DEF CallSet, Call, EndIteration, AbsTodo
  <2>2. CASE r.op # "set"
    <3>1. UNCHANGED <<memory, buckets, iterator>>
      BY <2>2 DEF CallSet, Call, table
    <3> QED BY <2>2, <3>1, SameAbs
  <2> QED BY <2>1, <2>2
<1> QED BY <1>1, <1>2, <1>3, <1>4 DEF Abs!Call

\* While a call searches or resizes, the map stays as it is.
LEMMA RefSilent ==
  ASSUME \/ SetFind \/ ResizeAbort \/ ResizeChain \/ ResizeEnd \/ FindStep \/ RemoveStep
         \/ UNCHANGED vars
  PROVE  UNCHANGED Abs!mvars
<1>1. /\ UNCHANGED <<memory, buckets, iterator>> /\ found' = found /\ req' = req
      /\ ret' = ret /\ freed' = freed
  BY DEF SetFind, ResizeAbort, ResizeChain, ResizeEnd, FindStep, RemoveStep, vars, table,
         lookedup, result
<1>2. AbsMap' = AbsMap /\ AbsTodo' = AbsTodo
  BY <1>1, SameAbs
<1> QED BY <1>1, <1>2 DEF Abs!mvars

\* While the buckets are relinked, the map stays as it is.
LEMMA RefResize ==
  ASSUME IndInv, ResizeStart \/ ResizeStep
  PROVE  UNCHANGED Abs!mvars
<1>1. /\ pc \in {"set", "resize"} /\ UNCHANGED iterator /\ heap' = heap
      /\ found' = found /\ req' = req /\ ret' = ret /\ freed' = freed
  BY DEF ResizeStart, ResizeStep, memory, lookedup, result
<1>2. ~iterating /\ ~iterating'
  BY <1>1 DEF IndInv, IterInv, iterator
<1>3. AbsTodo' = AbsTodo
  BY <1>2 DEF AbsTodo
<1>4. AbsMap' = AbsMap
  <2>1. CASE ResizeStart
    BY <2>1, SameAbs DEF ResizeStart
  <2>2. CASE ResizeStep
    <3>1. PICK x : node' = [node EXCEPT ![iter].next = x]
      BY <2>2 DEF ResizeStep
    <3>2. \A n \in heap : node'[n].key = node[n].key /\ node'[n].data = node[n].data
      BY <3>1, Types DEF IndInv, NodeType
    <3>3. Unique(node', heap) /\ IsMapOf(AbsMap, node', heap)
      BY <3>2, MapNow DEF Unique, IsMapOf, Entry
    <3> QED BY <1>1, <3>3, MapOfIs DEF AbsMap
  <2> QED BY <2>1, <2>2
<1> QED BY <1>1, <1>3, <1>4 DEF Abs!mvars

\* A call in progress is not NULL.
LEMMA InCall ==
  ASSUME IndInv, pc \in {"find", "remove"}
  PROVE  req \in Request /\ req # NULL
BY NullAssumption DEF IndInv, CallInv

\* The calls that change no bucket.
LEMMA RefRead ==
  ASSUME IndInv, RemoveMissing \/ Lookup \/ Exists
  PROVE  Abs!Remove \/ Abs!Lookup \/ Abs!Exists
<1>1. UNCHANGED <<memory, buckets, iterator>> /\ pc \in {"find", "remove"}
  BY DEF RemoveMissing, Lookup, Exists, table, Hit, Miss
<1>2. AbsMap' = AbsMap /\ AbsTodo' = AbsTodo
  BY <1>1, SameAbs
<1>3. req # NULL
  BY <1>1, InCall
<1>4. CASE RemoveMissing
  <2>1. req.key \notin DOMAIN AbsMap /\ req.op = "remove"
    BY <1>1, <1>4, FoundInMap DEF RemoveMissing, IndInv, CallInv
  <2>2. Abs!Remove
    BY <1>4, <2>1, <1>2, <1>3 DEF RemoveMissing, Return, lookedup, Abs!Remove, Abs!Effect
  <2> QED BY <2>2
<1>5. CASE Lookup
  <2>1. CASE Hit("lookup")
    <3>1. req.key \in DOMAIN AbsMap
      BY <2>1, <1>1, FoundInMap DEF Hit
    <3>2. found' = req.key /\ req' = NULL /\ ret' = <<"pair">> /\ freed' = {}
      BY <1>5, <2>1 DEF Lookup, Hit, Miss, Return
    <3>3. Abs!Lookup
      BY <2>1, <3>1, <3>2, <1>2, <1>3 DEF Hit, Abs!Lookup, Abs!Effect
    <3> QED BY <3>3
  <2>2. CASE Miss("lookup")
    <3>1. req.key \notin DOMAIN AbsMap
      BY <2>2, <1>1, FoundInMap DEF Miss
    <3>2. found' = found /\ req' = NULL /\ ret' = <<NULL>> /\ freed' = {}
      BY <1>5, <2>2 DEF Lookup, Hit, Miss, Return, lookedup
    <3>3. Abs!Lookup
      BY <2>2, <3>1, <3>2, <1>2, <1>3 DEF Miss, Abs!Lookup, Abs!Effect
    <3> QED BY <3>3
  <2> QED BY <2>1, <2>2, <1>5 DEF Lookup
<1>6. CASE Exists
  <2>1. CASE Hit("exists")
    <3>1. req.key \in DOMAIN AbsMap
      BY <2>1, <1>1, FoundInMap DEF Hit
    <3>2. found' = found /\ req' = NULL /\ ret' = <<"true">> /\ freed' = {}
      BY <1>6, <2>1 DEF Exists, Hit, Miss, Return, lookedup
    <3>3. Abs!Exists
      BY <2>1, <3>1, <3>2, <1>2, <1>3 DEF Hit, Abs!Exists, Abs!Effect
    <3> QED BY <3>3
  <2>2. CASE Miss("exists")
    <3>1. req.key \notin DOMAIN AbsMap
      BY <2>2, <1>1, FoundInMap DEF Miss
    <3>2. found' = found /\ req' = NULL /\ ret' = <<"false">> /\ freed' = {}
      BY <1>6, <2>2 DEF Exists, Hit, Miss, Return, lookedup
    <3>3. Abs!Exists
      BY <2>2, <3>1, <3>2, <1>2, <1>3 DEF Miss, Abs!Exists, Abs!Effect
    <3> QED BY <3>3
  <2> QED BY <2>1, <2>2, <1>6 DEF Exists
<1> QED BY <1>4, <1>5, <1>6

\* Map counts as FiniteSets does.
LEMMA AbsCardinality == \A S : Abs!Cardinality(S) = Cardinality(S)
BY DEF Abs!Cardinality, Cardinality

\* hashtable_set fails only when the map has as many keys as can be counted.
LEMMA RefFail ==
  ASSUME IndInv, SetFail
  PROVE  Abs!SetFail
<1>1. /\ UNCHANGED memory /\ iterating' = iterating /\ pc = "find" /\ iter = NULL /\ req.op = "set"
      /\ found' = found /\ req' = NULL /\ ret' = <<"failed">> /\ freed' = {}
  BY DEF SetFail, Miss, Return, lookedup, iterator
<1>2. AbsMap' = AbsMap /\ req.key \notin DOMAIN AbsMap /\ req # NULL
  BY <1>1, SameAbs, FoundInMap, InCall
<1>3. AbsTodo' = NULL
  <2>1. ~iterating
    BY <1>1 DEF IndInv, IterInv, Checked
  <2> QED BY <1>1, <2>1 DEF AbsTodo
<1>4. Cardinality(DOMAIN AbsMap) = SIZE_MAX
  <2>1. ~(count < SIZE_MAX) /\ count \in 0..SIZE_MAX
    BY DEF SetFail, CanCount, IndInv, TypeOK
  <2> QED BY <2>1, MapSize, TableAssumption
<1>5. Abs!Effect("set", <<"failed">>, {})
  BY <1>1, <1>2 DEF Abs!Effect
<1>6. Abs!Disturb
  BY <1>1, <1>3 DEF Abs!Disturb
<1> QED BY <1>2, <1>4, <1>5, <1>6, AbsCardinality DEF Abs!SetFail

\* hashtable_set replaces the value of the key, and the key object if it is to
\* be overwritten, and frees what is replaced.
LEMMA RefReplace ==
  ASSUME IndInv, SetReplace
  PROVE  Abs!SetReplace
<1>a. PICK p : p = iter
  OBVIOUS
<1>b. PICK was : was = AbsMap[req.key]
  OBVIOUS
<1>c. PICK new : new = [copy |-> IF req.over THEN req.copy ELSE was.copy, value |-> req.value]
  OBVIOUS
<1>d. PICK f : f = [AbsMap EXCEPT ![req.key] = new]
  OBVIOUS
<1>0. /\ pc = "find" /\ req.op = "set" /\ p # NULL /\ Equal(p) /\ heap' = heap
      /\ found' = found /\ iterating' = iterating /\ req' = NULL /\ ret' = <<"replaced">>
      /\ freed' = FreedValue(p) \cup (IF req.over THEN FreedKey(p) ELSE {})
      /\ node' = [node EXCEPT ![p].key = StoredKey, ![p].data = req.value]
  BY <1>a DEF SetReplace, Hit, Return, lookedup, iterator
<1>1. /\ p \in heap /\ node[p].key.key = req.key /\ req.key \in DOMAIN AbsMap
      /\ was = Entry(node, p) /\ req # NULL
  BY <1>0, <1>a, <1>b, FoundInMap, InCall
<1>2. /\ Unique(node, heap)
      /\ AbsMap = [k \in DOMAIN AbsMap |-> AbsMap[k]]
      /\ \A k \in DOMAIN AbsMap : \E n \in heap : k = node[n].key.key
      /\ \A n \in heap : /\ node[n].key.key \in DOMAIN AbsMap
                         /\ AbsMap[node[n].key.key] = Entry(node, n)
  BY MapNow
<1>3. StoredKey.key = req.key /\ StoredKey.copy = new.copy /\ new.value = req.value
  BY <1>1, <1>a, <1>c DEF StoredKey, Entry
<1>4. /\ \A n \in heap : n # p => node'[n] = node[n]
      /\ node'[p].key = StoredKey /\ node'[p].data = req.value
  BY <1>0, <1>1, Types DEF IndInv, NodeType
<1>5. \A n \in heap : node'[n].key.key = node[n].key.key
  BY <1>1, <1>3, <1>4
<1>6. Unique(node', heap)
  BY <1>2, <1>5 DEF Unique
<1>7. IsMapOf(f, node', heap)
  <2>1. f = [k \in DOMAIN f |-> f[k]] /\ DOMAIN f = DOMAIN AbsMap
    BY <1>2, <1>d
  <2>2. \A k \in DOMAIN f : \E n \in heap : k = node'[n].key.key
    BY <2>1, <1>2, <1>5
  <2>3. ASSUME NEW n \in heap
        PROVE  node'[n].key.key \in DOMAIN f /\ f[node'[n].key.key] = Entry(node', n)
    <3>0. node'[n].key.key = node[n].key.key /\ node[n].key.key \in DOMAIN AbsMap
      BY <1>2, <1>5
    <3>1. CASE n = p
      <4>1. f[node'[n].key.key] = new
        BY <3>0, <3>1, <1>1, <1>d
      <4>2. new = [copy |-> new.copy, value |-> new.value]
        BY <1>c
      <4> QED BY <3>0, <3>1, <4>1, <4>2, <2>1, <1>3, <1>4 DEF Entry
    <3>2. CASE n # p
      <4>1. node[n].key.key # req.key
        BY <3>2, <1>1, <1>2 DEF Unique
      <4>2. f[node'[n].key.key] = AbsMap[node[n].key.key]
        BY <3>0, <4>1, <1>d
      <4> QED BY <3>0, <3>2, <4>2, <2>1, <1>2, <1>4 DEF Entry
    <3> QED BY <3>1, <3>2
  <2> QED BY <2>1, <2>2, <2>3 DEF IsMapOf
<1>8. AbsMap' = f
  BY <1>0, <1>6, <1>7, MapOfIs DEF AbsMap
<1>9. AbsTodo' = NULL
  <2>1. ~iterating
    BY <1>0 DEF IndInv, IterInv, Checked
  <2> QED BY <1>0, <2>1 DEF AbsTodo
<1>10. freed' = Abs!FreedValue(req.key) \cup (IF req.over THEN Abs!FreedKey(req.key) ELSE {})
  <2>1. was.copy = node[p].key.copy /\ was.value = node[p].data
    BY <1>1 DEF Entry
  <2>2. FreedValue(p) = Abs!FreedValue(req.key)
    BY <2>1, <1>1, <1>b DEF FreedValue, Abs!FreedValue
  <2>3. FreedKey(p) = Abs!FreedKey(req.key)
    BY <2>1, <1>1, <1>b DEF FreedKey, Abs!FreedKey
  <2> QED BY <1>0, <2>2, <2>3
<1>11. AbsMap' = [AbsMap EXCEPT ![req.key] = [copy |-> IF req.over THEN req.copy ELSE @.copy,
                                              value |-> req.value]]
  BY <1>8, <1>b, <1>c, <1>d
<1> QED BY <1>0, <1>1, <1>9, <1>10, <1>11 DEF Abs!SetReplace, Abs!Effect, Abs!Disturb

\* hashtable_set adds the key.
LEMMA RefNew ==
  ASSUME IndInv, NEW n \in Node, SetNew(n)
  PROVE  Abs!SetNew
<1>a. PICK e : e = [key |-> [key |-> req.key, copy |-> req.copy], data |-> req.value,
                    next |-> buckets[INDEX(req.key)]]
  OBVIOUS
<1>b. PICK new : new = [copy |-> req.copy, value |-> req.value]
  OBVIOUS
<1>c. PICK f : f = [k \in DOMAIN AbsMap \cup {req.key} |-> IF k = req.key THEN new ELSE AbsMap[k]]
  OBVIOUS
<1>0. /\ pc = "find" /\ iter = NULL /\ req.op = "set" /\ n \notin heap /\ heap' = heap \cup {n}
      /\ found' = found /\ iterating' = iterating /\ req' = NULL /\ ret' = <<"new">> /\ freed' = {}
      /\ node' = [node EXCEPT ![n] = e]
  BY <1>a DEF SetNew, Miss, Return, lookedup, iterator
<1>1. req.key \notin DOMAIN AbsMap /\ req # NULL
  BY <1>0, FoundInMap, InCall
<1>2. /\ Unique(node, heap)
      /\ \A k \in DOMAIN AbsMap : \E m \in heap : k = node[m].key.key
      /\ \A m \in heap : /\ node[m].key.key \in DOMAIN AbsMap
                         /\ AbsMap[node[m].key.key] = Entry(node, m)
  BY MapNow
<1>3. node'[n] = e /\ \A m \in heap : node'[m] = node[m]
  BY <1>0, Types DEF IndInv, NodeType
<1>4. e.key.key = req.key /\ Entry(node', n) = new
  BY <1>3, <1>a, <1>b DEF Entry
<1>5. \A m \in heap : node[m].key.key # req.key
  BY <1>1, <1>2
<1>6. Unique(node', heap')
  BY <1>0, <1>2, <1>3, <1>4, <1>5 DEF Unique
<1>7. IsMapOf(f, node', heap')
  <2>1. f = [k \in DOMAIN f |-> f[k]] /\ DOMAIN f = DOMAIN AbsMap \cup {req.key}
    BY <1>c
  <2>2. \A k \in DOMAIN f : \E m \in heap' : k = node'[m].key.key
    BY <2>1, <1>0, <1>2, <1>3, <1>4
  <2>3. ASSUME NEW m \in heap'
        PROVE  node'[m].key.key \in DOMAIN f /\ f[node'[m].key.key] = Entry(node', m)
    <3>1. CASE m = n
      BY <3>1, <2>1, <1>3, <1>4, <1>c
    <3>2. CASE m # n
      <4>1. m \in heap /\ node'[m] = node[m] /\ node[m].key.key # req.key
        BY <3>2, <1>0, <1>3, <1>5
      <4>2. f[node[m].key.key] = AbsMap[node[m].key.key] /\ node[m].key.key \in DOMAIN f
        BY <4>1, <1>2, <1>c
      <4> QED BY <4>1, <4>2, <1>2 DEF Entry
    <3> QED BY <3>1, <3>2
  <2> QED BY <2>1, <2>2, <2>3 DEF IsMapOf
<1>8. AbsMap' = f
  BY <1>6, <1>7, MapOfIs DEF AbsMap
<1>9. AbsTodo' = NULL
  <2>1. ~iterating
    BY <1>0 DEF IndInv, IterInv, Checked
  <2> QED BY <1>0, <2>1 DEF AbsTodo
<1> QED BY <1>0, <1>1, <1>8, <1>9, <1>b, <1>c DEF Abs!SetNew, Abs!Effect, Abs!Disturb

\* hashtable_remove takes the key away and frees its bucket's key and value.
LEMMA RefRemove ==
  ASSUME IndInv, Remove
  PROVE  Abs!Remove
<1>a. PICK p : p = iter
  OBVIOUS
<1>b. PICK f : f = [k \in DOMAIN AbsMap \ {req.key} |-> AbsMap[k]]
  OBVIOUS
<1>0. /\ pc = "remove" /\ req.op = "remove" /\ p # NULL /\ Equal(p) /\ heap' = heap \ {p}
      /\ found' \in {found, NULL} /\ iterating' = FALSE /\ req' = NULL /\ ret' = <<"none">>
      /\ freed' = FreedKey(p) \cup FreedValue(p)
  BY <1>a DEF Remove, Return, EndIteration, IndInv, CallInv
<1>1. /\ p \in heap /\ node[p].key.key = req.key /\ req.key \in DOMAIN AbsMap
      /\ AbsMap[req.key] = Entry(node, p) /\ req # NULL
  BY <1>0, <1>a, FoundInMap, InCall
<1>2. /\ Unique(node, heap)
      /\ \A k \in DOMAIN AbsMap : \E m \in heap : k = node[m].key.key
      /\ \A m \in heap : /\ node[m].key.key \in DOMAIN AbsMap
                         /\ AbsMap[node[m].key.key] = Entry(node, m)
  BY MapNow
<1>3. \A m \in heap \ {p} : node'[m].key = node[m].key /\ node'[m].data = node[m].data
  <2>0. node \in NodeType /\ heap \subseteq Node
    BY Types DEF IndInv
  <2>1. CASE prev = NULL
    <3>1. node' = [node EXCEPT ![p] = Unused]
      BY <2>1, <1>a DEF Remove, Unlink
    <3> QED BY <3>1, <2>0 DEF NodeType
  <2>2. CASE prev # NULL
    <3>1. PICK nd : nd = [node EXCEPT ![prev].next = node[p].next]
      OBVIOUS
    <3>2. node' = [nd EXCEPT ![p] = Unused]
      BY <2>2, <3>1, <1>a DEF Remove, Unlink
    <3>3. \A m \in Node : nd[m].key = node[m].key /\ nd[m].data = node[m].data
      BY <3>1, <2>0 DEF NodeType
    <3>4. DOMAIN nd = Node
      BY <3>1, <2>0 DEF NodeType
    <3>5. \A m \in heap \ {p} : node'[m] = nd[m]
      BY <3>2, <3>4, <2>0
    <3> QED BY <3>3, <3>5, <2>0
  <2> QED BY <2>1, <2>2
<1>4. \A m \in heap \ {p} : node[m].key.key # req.key
  BY <1>1, <1>2 DEF Unique
<1>6. Unique(node', heap')
  BY <1>0, <1>2, <1>3 DEF Unique
<1>7. IsMapOf(f, node', heap')
  <2>1. f = [k \in DOMAIN f |-> f[k]] /\ DOMAIN f = DOMAIN AbsMap \ {req.key}
    BY <1>b
  <2>2. ASSUME NEW k \in DOMAIN f PROVE \E m \in heap' : k = node'[m].key.key
    <3>1. PICK m \in heap : k = node[m].key.key
      BY <2>1, <1>2
    <3>2. m # p
      BY <3>1, <2>1, <1>1
    <3> QED BY <3>1, <3>2, <1>0, <1>3
  <2>3. ASSUME NEW m \in heap'
        PROVE  node'[m].key.key \in DOMAIN f /\ f[node'[m].key.key] = Entry(node', m)
    <3>1. m \in heap /\ m \in heap \ {p} /\ node[m].key.key # req.key /\ node'[m].key = node[m].key
      BY <1>0, <1>3, <1>4
    <3>2. f[node[m].key.key] = AbsMap[node[m].key.key] /\ node[m].key.key \in DOMAIN f
      BY <3>1, <1>2, <1>b
    <3> QED BY <3>1, <3>2, <1>2, <1>3 DEF Entry
  <2> QED BY <2>1, <2>2, <2>3 DEF IsMapOf
<1>8. AbsMap' = f
  BY <1>6, <1>7, MapOfIs DEF AbsMap
<1>9. AbsTodo' = NULL
  BY <1>0 DEF AbsTodo
<1>10. freed' = Abs!FreedKey(req.key) \cup Abs!FreedValue(req.key)
  <2>1. AbsMap[req.key].copy = node[p].key.copy /\ AbsMap[req.key].value = node[p].data
    BY <1>1 DEF Entry
  <2>2. FreedValue(p) = Abs!FreedValue(req.key)
    BY <2>1, <1>1 DEF FreedValue, Abs!FreedValue
  <2>3. FreedKey(p) = Abs!FreedKey(req.key)
    BY <2>1, <1>1 DEF FreedKey, Abs!FreedKey
  <2> QED BY <1>0, <2>2, <2>3
<1> QED BY <1>0, <1>1, <1>8, <1>9, <1>10, <1>b DEF Abs!Remove, Abs!Effect, Abs!Disturb

\* The pair is the bucket of its key.
LEMMA PairNow ==
  ASSUME IndInv, found # NULL
  PROVE  /\ pair \in heap /\ node[pair].key.key = found
         /\ found \in DOMAIN AbsMap /\ AbsMap[found] = Entry(node, pair)
<1>1. pair \in heap /\ node[pair].key.key = found
  BY DEF IndInv, PairRefers
<1> QED BY <1>1, MapNow

\* The pair shows what the map has for its key.
LEMMA RefPairGet ==
  ASSUME IndInv, PairGet
  PROVE  Abs!PairGet
<1>0. /\ pc = "idle" /\ found # NULL /\ req = NULL /\ req' = req /\ found' = found /\ freed' = {}
      /\ UNCHANGED <<memory, buckets, iterator>> /\ ret' = Shown(pair)
  BY DEF PairGet, lookedup, table, IndInv, CallInv
<1>1. ret' = <<"shown", found, AbsMap[found]>>
  BY <1>0, PairNow DEF Shown, Entry
<1>2. AbsMap' = AbsMap /\ AbsTodo' = AbsTodo
  BY <1>0, SameAbs
<1> QED BY <1>0, <1>1, <1>2 DEF Abs!PairGet

\* Where the iterator of an idle table is, and its chains.
LEMMA IteratorNow ==
  ASSUME IndInv, pc = "idle"
  PROVE  /\ node \in NodeType /\ heap \in SUBSET Node /\ liter \in heap \cup {NULL} /\ offset \in Nat
         /\ \E home \in Numbers, rank \in Numbers :
              /\ Chained(NextOf(node), heap, buckets, home, rank)
              /\ \A n \in heap : home[n] = INDEX(node[n].key.key)
<1>1. node \in NodeType /\ heap \in SUBSET Node
  BY Types DEF IndInv
<1>2. liter \in heap \cup {NULL}
  BY DEF IndInv, IterInv
<1>3. offset \in Nat
  BY Types DEF IndInv, TypeOK
<1>4. PICK home, rank : Structure(home, rank, {})
  BY ShapeNow
<1>5. heap \ {} = heap
  OBVIOUS
<1> QED BY <1>1, <1>2, <1>3, <1>4, <1>5 DEF Structure

\* A value set through the pair is the map's value of its key; the iterator is not
\* affected.
LEMMA RefPairSetValue ==
  ASSUME IndInv, NEW v \in Value, PairSetValue(v)
  PROVE  Abs!PairSetValue
<1>a. PICK p : p = pair
  OBVIOUS
<1>b. PICK was : was = AbsMap[found]
  OBVIOUS
<1>c. PICK new : new = [was EXCEPT !.value = v]
  OBVIOUS
<1>d. PICK f : f = [AbsMap EXCEPT ![found] = new]
  OBVIOUS
<1>0. /\ pc = "idle" /\ found # NULL /\ req = NULL /\ heap' = heap
      /\ found' = found /\ req' = req /\ ret' = <<"none">> /\ freed' = FreedValue(p)
      /\ node' = [node EXCEPT ![p].data = v]
      /\ iterating' = iterating /\ liter' = liter /\ offset' = offset /\ buckets' = buckets
  BY <1>a DEF PairSetValue, lookedup, iterator, table, IndInv, CallInv
<1>1. /\ p \in heap /\ node[p].key.key = found /\ found \in DOMAIN AbsMap /\ was = Entry(node, p)
  BY <1>0, <1>a, <1>b, PairNow
<1>2. /\ Unique(node, heap)
      /\ AbsMap = [k \in DOMAIN AbsMap |-> AbsMap[k]]
      /\ \A k \in DOMAIN AbsMap : \E n \in heap : k = node[n].key.key
      /\ \A n \in heap : /\ node[n].key.key \in DOMAIN AbsMap
                         /\ AbsMap[node[n].key.key] = Entry(node, n)
  BY MapNow
<1>3. /\ node' \in NodeType /\ \A n \in Node : node'[n].next = node[n].next /\ node'[n].key = node[n].key
      /\ \A n \in Node : n # p => node'[n].data = node[n].data
      /\ node'[p].data = v /\ heap \subseteq Node
  BY <1>0, <1>1, Types DEF IndInv, NodeType
<1>4. new = [copy |-> node[p].key.copy, value |-> v]
  BY <1>1, <1>c DEF Entry
<1>5. Unique(node', heap)
  BY <1>2, <1>3 DEF Unique
<1>6. IsMapOf(f, node', heap)
  <2>1. f = [k \in DOMAIN f |-> f[k]] /\ DOMAIN f = DOMAIN AbsMap
    BY <1>2, <1>d
  <2>2. \A k \in DOMAIN f : \E n \in heap : k = node'[n].key.key
    BY <2>1, <1>2, <1>3
  <2>3. ASSUME NEW n \in heap
        PROVE  node'[n].key.key \in DOMAIN f /\ f[node'[n].key.key] = Entry(node', n)
    <3>0. node'[n].key = node[n].key /\ node[n].key.key \in DOMAIN AbsMap
      BY <1>2, <1>3
    <3>1. CASE n = p
      <4>1. f[node'[n].key.key] = new
        BY <3>0, <3>1, <1>1, <1>d
      <4> QED BY <3>0, <3>1, <4>1, <2>1, <1>3, <1>4 DEF Entry
    <3>2. CASE n # p
      <4>1. node[n].key.key # found /\ node'[n].data = node[n].data
        BY <3>2, <1>1, <1>2, <1>3 DEF Unique
      <4>2. f[node'[n].key.key] = AbsMap[node[n].key.key]
        BY <3>0, <4>1, <1>d
      <4> QED BY <3>0, <4>1, <4>2, <2>1, <1>2 DEF Entry
    <3> QED BY <3>1, <3>2
  <2> QED BY <2>1, <2>2, <2>3 DEF IsMapOf
<1>7. AbsMap' = f
  BY <1>0, <1>5, <1>6, MapOfIs DEF AbsMap
<1>8. AbsTodo' = AbsTodo
  <2>1. /\ node \in NodeType /\ heap \in SUBSET Node /\ liter \in heap \cup {NULL} /\ offset \in Nat
    BY <1>0, IteratorNow
  <2>2. PICK home \in Numbers, rank \in Numbers : Chained(NextOf(node), heap, buckets, home, rank)
    BY <1>0, IteratorNow
  <2>3. NextOf(node') = NextOf(node)
    BY <1>3 DEF NextOf
  <2>4. PICK nd, bk, it, o : nd = node' /\ bk = buckets /\ it = liter /\ o = offset
    OBVIOUS
  <2>5. \A n : n \in Unvisited(nd, bk, it, o)
               <=> /\ n \in heap
                   /\ \/ home[n] >= o
                      \/ it # NULL /\ home[n] = home[it] /\ rank[n] < rank[it]
    BY <2>1, <2>2, <2>3, <2>4, <1>3, UnvisitedAt
  <2>6. \A n : n \in Unvisited(node, bk, it, o)
               <=> /\ n \in heap
                   /\ \/ home[n] >= o
                      \/ it # NULL /\ home[n] = home[it] /\ rank[n] < rank[it]
    BY <2>1, <2>2, <2>4, UnvisitedAt
  <2>7. Unvisited(nd, bk, it, o) = Unvisited(node, bk, it, o)
    BY <2>5, <2>6
  <2>8. \A n \in Unvisited(node, bk, it, o) : node'[n].key.key = node[n].key.key
    BY <2>6, <1>3
  <2>9. PICK U : U = Unvisited(node, bk, it, o)
    OBVIOUS
  <2>10. {node'[n].key.key : n \in U} = {node[n].key.key : n \in U}
    BY <2>8, <2>9
  <2>11. CASE iterating
    <3>1. AbsTodo = {node[n].key.key : n \in U}
      BY <2>11, <2>4, <2>9 DEF AbsTodo
    <3>2. AbsTodo' = {node'[n].key.key : n \in Unvisited(node', buckets', liter', offset')}
      BY <2>11, <1>0 DEF AbsTodo
    <3>3. Unvisited(node', buckets', liter', offset') = U
      BY <2>4, <2>7, <2>9, <1>0
    <3> QED BY <3>1, <3>2, <3>3, <2>10
  <2>12. CASE ~iterating
    BY <2>12, <1>0 DEF AbsTodo
  <2> QED BY <2>11, <2>12
<1>9. freed' = Abs!FreedValue(found)
  <2>1. was.value = node[p].data
    BY <1>1 DEF Entry
  <2> QED BY <2>1, <1>0, <1>1, <1>b DEF FreedValue, Abs!FreedValue
<1>10. AbsMap' = [AbsMap EXCEPT ![found].value = v]
  BY <1>7, <1>b, <1>c, <1>d
<1> QED BY <1>0, <1>8, <1>9, <1>10 DEF Abs!PairSetValue

\* hashtable_clear and hashtable_free free every key and every value.
LEMMA RefClear ==
  ASSUME IndInv, pc = "idle", FreeMemory, req' = req
  PROVE  Abs!Clear
<1>0. /\ req = NULL /\ heap' = {} /\ found' = NULL /\ ret' = <<"none">> /\ iterating' = FALSE
      /\ freed' = UNION {FreedKey(n) \cup FreedValue(n) : n \in heap}
  BY DEF FreeMemory, EndIteration, IndInv, CallInv
<1>1. AbsMap' = [k \in {} |-> NULL] /\ AbsTodo' = NULL
  BY <1>0 DEF AbsMap, MapOf, AbsTodo
<1>2. /\ \A k \in DOMAIN AbsMap : \E n \in heap : k = node[n].key.key
      /\ \A n \in heap : /\ node[n].key.key \in DOMAIN AbsMap
                         /\ AbsMap[node[n].key.key] = Entry(node, n)
  BY MapNow
<1>3. ASSUME NEW n \in heap
      PROVE  FreedKey(n) \cup FreedValue(n)
             = Abs!FreedKey(node[n].key.key) \cup Abs!FreedValue(node[n].key.key)
  <2>1. PICK k : k = node[n].key.key
    OBVIOUS
  <2>2. AbsMap[k].copy = node[n].key.copy /\ AbsMap[k].value = node[n].data
    <3>1. AbsMap[k] = Entry(node, n)
      BY <2>1, <1>2
    <3> QED BY <3>1 DEF Entry
  <2>3. FreedKey(n) = Abs!FreedKey(k)
    BY <2>1, <2>2 DEF FreedKey, Abs!FreedKey
  <2>4. FreedValue(n) = Abs!FreedValue(k)
    BY <2>1, <2>2 DEF FreedValue, Abs!FreedValue
  <2> QED BY <2>1, <2>3, <2>4
<1>4. UNION {FreedKey(n) \cup FreedValue(n) : n \in heap}
        = UNION {Abs!FreedKey(k) \cup Abs!FreedValue(k) : k \in DOMAIN AbsMap}
  <2>1. ASSUME NEW x, NEW n \in heap, x \in FreedKey(n) \cup FreedValue(n)
        PROVE  \E k \in DOMAIN AbsMap : x \in Abs!FreedKey(k) \cup Abs!FreedValue(k)
    <3>1. node[n].key.key \in DOMAIN AbsMap
      BY <1>2
    <3>2. x \in Abs!FreedKey(node[n].key.key) \cup Abs!FreedValue(node[n].key.key)
      BY <2>1, <1>3
    <3> QED BY <3>1, <3>2
  <2>2. ASSUME NEW x, NEW k \in DOMAIN AbsMap, x \in Abs!FreedKey(k) \cup Abs!FreedValue(k)
        PROVE  \E n \in heap : x \in FreedKey(n) \cup FreedValue(n)
    <3>1. PICK n \in heap : k = node[n].key.key
      BY <1>2
    <3>2. x \in FreedKey(n) \cup FreedValue(n)
      BY <2>2, <3>1, <1>3
    <3> QED BY <3>2
  <2> QED BY <2>1, <2>2
<1> QED BY <1>0, <1>1, <1>4 DEF Abs!Clear

\* A new iterator has all keys to visit.
LEMMA RefIterInit ==
  ASSUME IndInv, IterInit
  PROVE  Abs!IterInit
<1>0. /\ pc = "idle" /\ req = NULL /\ req' = req /\ UNCHANGED memory /\ buckets' = buckets
      /\ found' = found /\ ret' = <<"none">> /\ freed' = {}
      /\ liter' = NULL /\ offset' = 0 /\ iterating' = TRUE
  BY DEF IterInit, table, lookedup, IndInv, CallInv
<1>1. AbsMap' = AbsMap
  BY <1>0, SameAbs
<1>2. AbsTodo' = {node[n].key.key : n \in Unvisited(node, buckets, NULL, 0)}
  BY <1>0 DEF AbsTodo, memory
<1>3. PICK home \in Numbers, rank \in Numbers : Chained(NextOf(node), heap, buckets, home, rank)
  BY <1>0, IteratorNow
<1>4. \A n : n \in Unvisited(node, buckets, NULL, 0) <=> n \in heap
  <2>1. node \in NodeType /\ heap \in SUBSET Node
    BY <1>0, IteratorNow
  <2>2. \A n : n \in Unvisited(node, buckets, NULL, 0)
               <=> /\ n \in heap
                   /\ \/ home[n] >= 0
                      \/ NULL # NULL /\ home[n] = home[NULL] /\ rank[n] < rank[NULL]
    <3>1. NULL \in heap \cup {NULL} /\ 0 \in Nat
      OBVIOUS
    <3> QED BY <2>1, <3>1, <1>3, UnvisitedAt
  <2>3. \A n \in heap : home[n] >= 0
    BY <2>1 DEF Numbers
  <2> QED BY <2>2, <2>3
<1>5. AbsTodo' = DOMAIN AbsMap
  <2>1. \A k \in DOMAIN AbsMap : \E n \in heap : k = node[n].key.key
    BY MapNow
  <2>2. \A n \in heap : node[n].key.key \in DOMAIN AbsMap
    BY MapNow
  <2> QED BY <2>1, <2>2, <1>2, <1>4
<1> QED BY <1>0, <1>1, <1>5 DEF Abs!IterInit

\* The iterator comes to the bucket n and has one less to visit.
LEMMA RefVisit ==
  ASSUME IndInv, pc = "idle", iterating, freed' = {}, NEW n \in heap, ret' = Shown(n),
         UNCHANGED <<memory, table, lookedup, iterating, locals, pc, req>>,
         n \in Unvisited(node, buckets, liter, offset),
         \A m : m \in Unvisited(node, buckets, liter', offset')
                <=> m \in Unvisited(node, buckets, liter, offset) /\ m # n,
         \A m \in Unvisited(node, buckets, liter, offset) : m \in heap
  PROVE  Abs!IterNext
<1>a. PICK k : k = node[n].key.key
  OBVIOUS
<1>b. PICK U, V : /\ U = Unvisited(node, buckets, liter, offset)
                  /\ V = Unvisited(node, buckets, liter', offset')
  OBVIOUS
<1>0. req = NULL /\ req' = req /\ found' = found /\ UNCHANGED memory
  BY DEF lookedup, IndInv, CallInv
<1>1. AbsMap' = AbsMap
  BY <1>0, SameAbs
<1>2. AbsTodo = {node[m].key.key : m \in U}
  BY <1>b DEF AbsTodo
<1>3. AbsTodo' = {node[m].key.key : m \in V}
  BY <1>b DEF AbsTodo, memory, table
<1>4. V = U \ {n} /\ n \in U /\ \A m \in U : m \in heap
  BY <1>b
<1>5. k \in AbsTodo /\ AbsTodo' = AbsTodo \ {k}
  <2>1. \A m \in heap : node[m].key.key = k => m = n
    BY <1>a, MapNow DEF Unique
  <2> QED BY <2>1, <1>a, <1>2, <1>3, <1>4
<1>6. AbsTodo # NULL
  <2>1. AbsTodo \in SUBSET Key
    BY <1>2, <1>4 DEF IndInv, KeysInv, KeyObject
  <2> QED BY <2>1, NullAssumption
<1>7. ret' = <<"shown", k, AbsMap[k]>>
  <2>1. AbsMap[k] = Entry(node, n)
    BY <1>a, MapNow
  <2> QED BY <2>1, <1>a DEF Shown, Entry
<1> QED BY <1>0, <1>1, <1>5, <1>6, <1>7 DEF Abs!IterNext

\* The iterator has visited all buckets.
LEMMA RefFinish ==
  ASSUME IndInv, pc = "idle", iterating, freed' = {}, ret' = <<"end">>,
         UNCHANGED <<memory, table, lookedup, iterating, locals, pc, req>>,
         \A m : m \notin Unvisited(node, buckets, liter, offset),
         \A m : m \notin Unvisited(node, buckets, liter', offset')
  PROVE  Abs!IterNext
<1>0. req = NULL /\ req' = req /\ found' = found /\ UNCHANGED memory
  BY DEF lookedup, IndInv, CallInv
<1>1. AbsMap' = AbsMap
  BY <1>0, SameAbs
<1>2. AbsTodo = {}
  BY DEF AbsTodo
<1>3. AbsTodo' = {}
  BY DEF AbsTodo, memory, table
<1>4. AbsTodo # NULL
  BY <1>2, NullAssumption
<1> QED BY <1>0, <1>1, <1>2, <1>3, <1>4 DEF Abs!IterNext

\* hashtable_iter_next visits a key that is left, and says that it is at the
\* end when there is none.
LEMMA RefIterNext ==
  ASSUME IndInv, IterNext
  PROVE  Abs!IterNext
<1>0. /\ pc = "idle" /\ iterating /\ freed' = {}
      /\ UNCHANGED <<memory, table, lookedup, iterating, locals, pc, req>>
      /\ ret' = IF liter' # NULL THEN Shown(liter') ELSE <<"end">>
  BY DEF IterNext
<1>a. PICK home \in Numbers, rank \in Numbers :
        /\ Chained(NextOf(node), heap, buckets, home, rank)
        /\ \A n \in heap : home[n] = INDEX(node[n].key.key)
  BY <1>0, IteratorNow
<1>b. PICK nx, bk, it, o : nx = NextOf(node) /\ bk = buckets /\ it = liter /\ o = offset
  OBVIOUS
<1>c. PICK it2, o2 : it2 = liter' /\ o2 = offset'
  OBVIOUS
<1>d. PICK U, V : U = Unvisited(node, bk, it, o) /\ V = Unvisited(node, bk, it2, o2)
  OBVIOUS
<1>1. /\ node \in NodeType /\ heap \in SUBSET Node /\ it \in heap \cup {NULL} /\ o \in Nat
      /\ NULL \notin heap /\ \A n \in heap : home[n] \in Nat /\ rank[n] \in Nat
  BY <1>0, <1>b, IteratorNow, NodeCount DEF Numbers
<1>2. /\ Heads(heap, bk, home) /\ Tops(heap, bk, home, rank) /\ Links(nx, heap, home, rank)
      /\ Dense(nx, heap, home, rank) /\ Distinct(heap, home, rank)
  BY <1>a, <1>b DEF Chained
<1>3. \A n : n \in U <=> /\ n \in heap
                         /\ \/ home[n] >= o
                            \/ it # NULL /\ home[n] = home[it] /\ rank[n] < rank[it]
  BY <1>1, <1>a, <1>b, <1>d, UnvisitedAt
<1>4. PICK s \in Nat : /\ s = size /\ DOMAIN bk = 0..(s - 1) /\ \A n \in heap : home[n] < s
  <2>1. size \in Nat /\ DOMAIN buckets = 0..(size - 1)
    BY DEF IndInv, TypeOK
  <2>2. \A n \in heap : home[n] \in 0..(size - 1)
    BY <2>1, <1>2, <1>b DEF Tops
  <2> QED BY <2>1, <2>2, <1>b
<1>5. IndInv' /\ it2 \in heap \cup {NULL} /\ o2 \in Nat
  <2>1. IndInv'
    BY IterNextInv
  <2>2. liter' \in heap' \cup {NULL} /\ offset' \in 0..(size')
    BY <2>1 DEF IndInv, IterInv, TypeOK
  <2>3. heap' = heap /\ size' = size
    BY <1>0 DEF memory, table
  <2> QED BY <2>1, <2>2, <2>3, <1>c, <1>4
<1>6. \A n : n \in V <=> /\ n \in heap
                         /\ \/ home[n] >= o2
                            \/ it2 # NULL /\ home[n] = home[it2] /\ rank[n] < rank[it2]
  BY <1>1, <1>5, <1>a, <1>b, <1>d, UnvisitedAt
<1>7. ASSUME it2 # NULL, it2 \in U, \A m : m \in V <=> m \in U /\ m # it2
      PROVE  Abs!IterNext
  BY <1>0, <1>7, <1>3, <1>5, <1>b, <1>c, <1>d, RefVisit
<1>8. ASSUME it2 = NULL, \A n : n \notin U, \A n : n \notin V
      PROVE  Abs!IterNext
  BY <1>0, <1>8, <1>b, <1>c, <1>d, RefFinish
<1>9. /\ it # NULL => it \in heap /\ ~finished /\ o = home[it] + 1
      /\ finished => o = s
  BY <1>a, <1>b, <1>4 DEF IndInv, IterInv
<1>e. PICK next : next = IF it # NULL THEN nx[it] ELSE NULL
  OBVIOUS
<1>10. next = IF liter # NULL THEN node[liter].next ELSE NULL
  <2>1. liter # NULL => nx[liter] = node[liter].next
    BY <1>1, <1>b, NextOfType
  <2> QED BY <2>1, <1>b, <1>e
<1>11. CASE next # NULL
  <2>1. it2 = next /\ o2 = o
    BY <1>11, <1>10, <1>b, <1>c DEF IterNext
  <2>2. /\ it # NULL /\ it \in heap /\ next \in heap /\ home[next] = home[it]
        /\ rank[next] < rank[it] /\ o = home[it] + 1
    BY <1>2, <1>9, <1>11, <1>e DEF Links
  <2>3. next \in U
    BY <2>2, <1>3
  <2>4. ASSUME NEW m \in heap, home[m] = home[it], rank[m] < rank[it], m # next
        PROVE  rank[m] < rank[next]
    <3>1. rank[m] <= rank[next]
      BY <2>4, <2>2, <1>2, <1>e DEF Dense
    <3>2. rank[m] # rank[next]
      BY <2>4, <2>2, <1>2 DEF Distinct
    <3> QED BY <3>1, <3>2, <2>2, <1>1
  <2>5. \A m \in heap : m \in V <=> m \in U /\ m # next
    <3> TAKE m \in heap
    <3>0. home[m] \in Nat /\ home[it] \in Nat /\ rank[m] \in Nat /\ rank[it] \in Nat
          /\ rank[next] \in Nat
      BY <1>1, <2>2
    <3>1. m \in V => m \in U /\ m # next
      BY <3>0, <2>1, <2>2, <1>3, <1>6
    <3>2. m \in U /\ m # next => m \in V
      BY <3>0, <2>1, <2>2, <2>4, <1>3, <1>6, <1>11
    <3> QED BY <3>1, <3>2
  <2>6. \A m : m \in V <=> m \in U /\ m # next
    BY <2>5, <1>3, <1>6
  <2> QED BY <2>1, <2>3, <2>6, <1>7, <1>11
<1>12. CASE next = NULL /\ finished
  <2>1. it2 = NULL /\ o2 = o /\ it = NULL /\ o = s
    BY <1>12, <1>10, <1>9, <1>b, <1>c DEF IterNext
  <2>2. \A n \in heap : ~(home[n] >= o)
    BY <2>1, <1>1, <1>4
  <2>3. \A n : n \notin U /\ n \notin V
    BY <2>1, <2>2, <1>3, <1>6
  <2> QED BY <2>1, <2>3, <1>8
<1>13. ASSUME next = NULL
       PROVE  \A n : n \in U <=> n \in heap /\ home[n] >= o
  <2>1. ASSUME NEW n \in heap, it # NULL, home[n] = home[it], rank[n] < rank[it]
        PROVE  FALSE
    BY <2>1, <1>13, <1>1, <1>2, <1>9, <1>e DEF Dense
  <2> QED BY <2>1, <1>3
<1>14. CASE next = NULL /\ ~finished /\ Ahead # {}
  <2>1. PICK a \in Ahead : /\ \A c \in Ahead : a <= c
                           /\ liter' = buckets[a] /\ offset' = a + 1
    BY <1>14, <1>10 DEF IterNext
  <2>2. \A c : c \in Ahead <=> c \in o..(s - 1) /\ bk[c] # NULL
    BY <1>4, <1>b DEF Ahead
  <2>3. a \in Nat /\ a >= o /\ a < s /\ bk[a] # NULL /\ a \in DOMAIN bk
    BY <2>1, <2>2, <1>1, <1>4
  <2>4. it2 = bk[a] /\ o2 = a + 1
    BY <2>1, <1>b, <1>c
  <2>5. it2 # NULL /\ it2 \in heap /\ home[it2] = a
    BY <2>3, <2>4, <1>2 DEF Heads
  <2>6. ASSUME NEW n \in heap, home[n] >= o PROVE home[n] >= a
    <3>1. home[n] \in Nat /\ home[n] < s /\ bk[home[n]] # NULL
      BY <1>1, <1>2, <1>4 DEF Tops
    <3>2. home[n] \in Ahead
      BY <3>1, <2>2, <2>6, <1>1
    <3>3. a <= home[n]
      BY <3>2, <2>1
    <3> QED BY <3>1, <3>3, <2>3
  <2>7. ASSUME NEW n \in heap, home[n] = a, n # it2 PROVE rank[n] < rank[it2]
    <3>1. rank[n] <= rank[it2]
      BY <2>7, <2>4, <1>2 DEF Tops
    <3>2. rank[n] # rank[it2]
      BY <2>7, <2>5, <1>2 DEF Distinct
    <3> QED BY <3>1, <3>2, <2>5, <1>1
  <2>8. it2 \in U
    BY <2>3, <2>5, <1>13, <1>14
  <2>9. ASSUME NEW m \in heap PROVE m \in V <=> m \in U /\ m # it2
    <3>0. home[m] \in Nat /\ rank[m] \in Nat /\ rank[it2] \in Nat
      BY <1>1, <2>5
    <3>1. m \in U <=> home[m] >= o
      BY <1>13, <1>14
    <3>2. m \in V <=> \/ home[m] >= o2
                      \/ home[m] = home[it2] /\ rank[m] < rank[it2]
      BY <1>6, <2>5
    <3>3. CASE m = it2
      <4>1. ~(home[m] >= o2) /\ ~(rank[m] < rank[it2])
        BY <3>0, <3>3, <2>3, <2>4, <2>5
      <4> QED BY <3>2, <3>3, <4>1
    <3>4. CASE m # it2 /\ home[m] = a
      <4>1. rank[m] < rank[it2] /\ home[m] >= o
        BY <3>4, <2>3, <2>7
      <4> QED BY <3>1, <3>2, <3>4, <4>1, <2>5
    <3>5. CASE m # it2 /\ home[m] # a
      <4>1. home[m] >= o2 <=> home[m] > a
        BY <3>0, <2>3, <2>4
      <4>2. home[m] >= o <=> home[m] > a
        <5>1. home[m] >= o => home[m] >= a
          BY <2>6
        <5> QED BY <5>1, <3>0, <3>5, <2>3, <1>1
      <4> QED BY <3>1, <3>2, <3>5, <4>1, <4>2, <2>5
    <3> QED BY <3>3, <3>4, <3>5
  <2>10. \A m : m \in V <=> m \in U /\ m # it2
    BY <2>9, <1>3, <1>6
  <2> QED BY <2>5, <2>8, <2>10, <1>7
<1>15. CASE next = NULL /\ ~finished /\ Ahead = {}
  <2>1. it2 = NULL /\ o2 = s
    BY <1>15, <1>10, <1>4, <1>c DEF IterNext
  <2>2. ASSUME NEW n \in heap PROVE ~(home[n] >= o) /\ ~(home[n] >= s)
    <3>1. home[n] \in Nat /\ home[n] < s /\ bk[home[n]] # NULL
      BY <1>1, <1>2, <1>4 DEF Tops
    <3>2. home[n] >= o => home[n] \in Ahead
      BY <3>1, <1>1, <1>4, <1>b DEF Ahead
    <3> QED BY <3>1, <3>2, <1>15, <1>4
  <2>3. \A n : n \notin U
    BY <2>2, <1>13, <1>15
  <2>4. \A n : n \notin V
    BY <2>1, <2>2, <1>6
  <2> QED BY <2>1, <2>3, <2>4, <1>8
<1> QED BY <1>11, <1>12, <1>14, <1>15

\* Every step of the table is a step of the map or leaves it unchanged.
LEMMA RefNext ==
  ASSUME IndInv, [Next]_vars
  PROVE  [Abs!Next]_Abs!mvars
<1>1. ASSUME NEW r \in Request, CallSet(r) \/ Call(r) PROVE Abs!Next
  BY <1>1, RefCall DEF Abs!Next
<1>2. CASE \/ SetFind \/ ResizeAbort \/ ResizeChain \/ ResizeEnd \/ FindStep \/ RemoveStep
           \/ UNCHANGED vars
  BY <1>2, RefSilent
<1>3. CASE ResizeStart \/ ResizeStep
  BY <1>3, RefResize
<1>4. CASE SetReplace
  BY <1>4, RefReplace DEF Abs!Next
<1>5. ASSUME NEW n \in Node, SetNew(n) PROVE Abs!Next
  BY <1>5, RefNew DEF Abs!Next
<1>6. CASE SetFail
  BY <1>6, RefFail DEF Abs!Next
<1>7. CASE Remove
  BY <1>7, RefRemove DEF Abs!Next
<1>8. CASE RemoveMissing \/ Lookup \/ Exists
  BY <1>8, RefRead DEF Abs!Next
<1>9. CASE PairGet
  BY <1>9, RefPairGet DEF Abs!Next
<1>10. ASSUME NEW e \in Offered, PairSetValue(e.value) PROVE Abs!Next
  <2>1. e.value \in Value
    BY TableAssumption
  <2> QED BY <1>10, <2>1, RefPairSetValue DEF Abs!Next
<1>11. CASE Clear
  <2>1. pc = "idle" /\ FreeMemory /\ req' = req
    BY <1>11 DEF Clear
  <2> QED BY <2>1, RefClear DEF Abs!Next
<1>12. ASSUME NEW s \in SizeArguments, Reinit(s) PROVE Abs!Next
  <2>1. pc = "idle" /\ FreeMemory /\ req' = req
    BY <1>12 DEF Reinit
  <2> QED BY <2>1, RefClear DEF Abs!Next
<1>13. CASE IterInit \/ IterNext
  BY <1>13, RefIterInit, RefIterNext DEF Abs!Next
<1> QED BY <1>1, <1>2, <1>3, <1>4, <1>5, <1>6, <1>7, <1>8, <1>9, <1>10, <1>11, <1>12, <1>13
        DEF Next

\* The hash table implements the map: for any keys, any hash collisions and any
\* list of sizes, the chains, the search along them, a resize in many steps, the
\* shared pair and the iterator have no other effects than those of a partial
\* function whose calls are atomic.
THEOREM TableImplementsMap == Spec => IsMap
<1>1. IndInv /\ [Next]_vars => [Abs!Next]_Abs!mvars
  BY RefNext
<1> QED BY <1>1, RefInit, InitInv, StepInv, PTL DEF Spec, IsMap, Abs!Spec
=============================================================================
