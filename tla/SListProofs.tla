---------------------------- MODULE SListProofs ----------------------------
(***************************************************************************)
(* Proofs about SList for every set of items and keys, every limit of the  *)
(* count and whatever functions of slist.c are called.                     *)
(*                                                                         *)
(* The inductive invariant has one part for each loop of the code: it says *)
(* how far ptr (or iter) has come, what is known of the items it has       *)
(* passed, and that the expected contents follow from what is still to be  *)
(* done.  Below it are lemmas on sequences, which say what inserting and   *)
(* removing an item does to the items, to their links, to the data and to  *)
(* the owners of the data.                                                 *)
(***************************************************************************)
EXTENDS SList, SequenceTheorems, WellFoundedInduction, TLAPS

\* A nonempty set of numbers has a least one.
LEMMA LeastNumber ==
  ASSUME NEW T \in SUBSET Nat, T # {}
  PROVE  \E n \in T : \A m \in T : n <= m
<1> DEFINE R == {ss \in Nat \X Nat : ss[1] < ss[2]}
<1>1. IsWellFoundedOn(R, Nat)
  BY NatLessThanWellFounded DEF OpToRel
<1> HIDE DEF R
<1>2. PICK n \in T : \A m \in T : ~(<<m, n>> \in R)
  BY <1>1, WFMin
<1>3. \A m \in T : m < n => <<m, n>> \in R
  BY DEF R
<1>4. ASSUME NEW m \in T PROVE n <= m
  <2>1. ~(m < n)
    BY <1>2, <1>3, Zenon
  <2>2. m \in Nat /\ n \in Nat
    OBVIOUS
  <2> QED BY <2>1, <2>2
<1> QED BY <1>4

\* Induction, for a set of numbers.
LEMMA SetInduction ==
  ASSUME NEW T, 0 \in T, \A n \in Nat : n \in T => n + 1 \in T
  PROVE  \A n \in Nat : n \in T
<1> SUFFICES ASSUME Nat \ T # {} PROVE FALSE
  OBVIOUS
<1>1. PICK n \in Nat \ T : \A m \in Nat \ T : n <= m
  BY LeastNumber
<1>2. n # 0 /\ n - 1 \in Nat
  BY <1>1
<1>3. n - 1 \in T
  BY <1>1, <1>2
<1> QED BY <1>1, <1>2, <1>3

\* The items of a part of a sequence.
LEMMA PartItems ==
  ASSUME NEW S, NEW s \in Seq(S), NEW m \in 1..(Len(s) + 1), NEW n \in (m - 1)..Len(s)
  PROVE  /\ SubSeq(s, m, n) \in Seq(S) /\ Len(SubSeq(s, m, n)) = (n - m) + 1
         /\ \A i \in 1..((n - m) + 1) : SubSeq(s, m, n)[i] = s[(m + i) - 1]
<1>1. m \in Int /\ n \in Int /\ \A i \in m..n : s[i] \in S
  OBVIOUS
<1>2. /\ SubSeq(s, m, n) \in Seq(S) /\ Len(SubSeq(s, m, n)) = IF m <= n THEN (n - m) + 1 ELSE 0
      /\ \A i \in 1..((n - m) + 1) : SubSeq(s, m, n)[i] = s[(m + i) - 1]
  BY ONLY <1>1, SubSeqProperties
<1> QED BY <1>1, <1>2

\* The items of two sequences one after the other.
LEMMA JoinItems ==
  ASSUME NEW S, NEW a \in Seq(S), NEW b \in Seq(S)
  PROVE  /\ a \o b \in Seq(S) /\ Len(a \o b) = Len(a) + Len(b)
         /\ \A i \in 1..Len(a) : (a \o b)[i] = a[i]
         /\ \A i \in (Len(a) + 1)..(Len(a) + Len(b)) : (a \o b)[i] = b[i - Len(a)]
<1>1. /\ a \o b \in Seq(S) /\ Len(a \o b) = Len(a) + Len(b)
      /\ \A i \in 1..(Len(a) + Len(b)) : (a \o b)[i] = IF i <= Len(a) THEN a[i] ELSE b[i - Len(a)]
  BY ConcatProperties
<1> QED BY <1>1

\* b is what follows the first q items of s.
IsRest(b, s, q) == Len(b) = Len(s) - q /\ \A i \in 1..(Len(s) - q) : b[i] = s[q + i]

\* w is a, and then what follows the first q items of s.
IsGlued(w, a, s, q) ==
  /\ Len(w) = Len(a) + (Len(s) - q)
  /\ \A i \in 1..Len(a) : w[i] = a[i]
  /\ \A i \in (Len(a) + 1)..(Len(a) + (Len(s) - q)) : w[i] = s[q + (i - Len(a))]

\* A sequence, and the items of s behind a place, in one sequence.
LEMMA GlueItems ==
  ASSUME NEW S, NEW s \in Seq(S), NEW a \in Seq(S), NEW b \in Seq(S),
         NEW q \in 0..Len(s), IsRest(b, s, q)
  PROVE  a \o b \in Seq(S) /\ IsGlued(a \o b, a, s, q)
<1>1. /\ a \o b \in Seq(S) /\ Len(a \o b) = Len(a) + Len(b)
      /\ \A i \in 1..Len(a) : (a \o b)[i] = a[i]
      /\ \A i \in (Len(a) + 1)..(Len(a) + Len(b)) : (a \o b)[i] = b[i - Len(a)]
  BY JoinItems
<1>2. Len(a \o b) = Len(a) + (Len(s) - q)
  BY <1>1 DEF IsRest
<1>3. ASSUME NEW i \in (Len(a) + 1)..(Len(a) + (Len(s) - q))
      PROVE  (a \o b)[i] = s[q + (i - Len(a))]
  <2>1. i \in (Len(a) + 1)..(Len(a) + Len(b)) /\ i - Len(a) \in 1..(Len(s) - q)
    BY DEF IsRest
  <2>2. (a \o b)[i] = b[i - Len(a)]
    BY ONLY <1>1, <2>1
  <2> QED BY ONLY <2>1, <2>2, IsRest(b, s, q) DEF IsRest
<1> QED BY <1>1, <1>2, <1>3 DEF IsGlued

\* The first items of a sequence.
LEMMA FirstItems ==
  ASSUME NEW S, NEW s \in Seq(S), NEW n \in 0..Len(s)
  PROVE  /\ SubSeq(s, 1, n) \in Seq(S) /\ Len(SubSeq(s, 1, n)) = n
         /\ \A i \in 1..n : SubSeq(s, 1, n)[i] = s[i]
<1>1. 1 \in 1..(Len(s) + 1) /\ n \in (1 - 1)..Len(s)
  OBVIOUS
<1>2. /\ SubSeq(s, 1, n) \in Seq(S) /\ Len(SubSeq(s, 1, n)) = (n - 1) + 1
      /\ \A i \in 1..((n - 1) + 1) : SubSeq(s, 1, n)[i] = s[(1 + i) - 1]
  BY <1>1, PartItems
<1> QED BY <1>2

\* The last items of a sequence.
LEMMA LastItems ==
  ASSUME NEW S, NEW s \in Seq(S), NEW q \in 0..Len(s)
  PROVE  /\ SubSeq(s, q + 1, Len(s)) \in Seq(S) /\ Len(SubSeq(s, q + 1, Len(s))) = Len(s) - q
         /\ \A i \in 1..(Len(s) - q) : SubSeq(s, q + 1, Len(s))[i] = s[q + i]
<1>1. q + 1 \in 1..(Len(s) + 1) /\ Len(s) \in ((q + 1) - 1)..Len(s)
  OBVIOUS
<1>2. /\ SubSeq(s, q + 1, Len(s)) \in Seq(S)
      /\ Len(SubSeq(s, q + 1, Len(s))) = (Len(s) - (q + 1)) + 1
      /\ \A i \in 1..((Len(s) - (q + 1)) + 1) : SubSeq(s, q + 1, Len(s))[i] = s[((q + 1) + i) - 1]
  BY <1>1, PartItems
<1> QED BY <1>2

\* w is s without the item at p: those behind it move up.
IsWithout(w, s, p) == /\ Len(w) = Len(s) - 1
                      /\ \A i \in 1..(p - 1) : w[i] = s[i]
                      /\ \A i \in p..(Len(s) - 1) : w[i] = s[i + 1]

\* w is s with e at p: the items from p on move back.
IsInsert(w, s, p, e) == /\ Len(w) = Len(s) + 1
                        /\ \A i \in 1..(p - 1) : w[i] = s[i]
                        /\ w[p] = e
                        /\ \A i \in (p + 1)..(Len(s) + 1) : w[i] = s[i - 1]

\* What Without computes.
LEMMA WithoutItems ==
  ASSUME NEW S, NEW s \in Seq(S), NEW p \in 1..Len(s)
  PROVE  Without(s, p) \in Seq(S) /\ IsWithout(Without(s, p), s, p)
<1> DEFINE a == SubSeq(s, 1, p - 1)
           b == SubSeq(s, p + 1, Len(s))
<1>1. a \in Seq(S) /\ Len(a) = p - 1 /\ \A i \in 1..(p - 1) : a[i] = s[i]
  <2>1. p - 1 \in 0..Len(s)
    OBVIOUS
  <2> QED BY <2>1, FirstItems
<1>2. b \in Seq(S) /\ Len(b) = Len(s) - p /\ \A i \in 1..(Len(s) - p) : b[i] = s[p + i]
  <2>1. p \in 0..Len(s)
    OBVIOUS
  <2> QED BY <2>1, LastItems
<1>3. Without(s, p) = a \o b
  BY DEF Without, Ext!RemoveAt
<1> HIDE DEF a, b, Without
<1> DEFINE w == Without(s, p)
<1>4. /\ w \in Seq(S) /\ Len(w) = Len(a) + (Len(s) - p)
      /\ \A i \in 1..Len(a) : w[i] = a[i]
      /\ \A i \in (Len(a) + 1)..(Len(a) + (Len(s) - p)) : w[i] = s[p + (i - Len(a))]
  <2> DEFINE q == p
  <2>1. a \in Seq(S) /\ b \in Seq(S) /\ q \in 0..Len(s) /\ IsRest(b, s, q)
    BY <1>1, <1>2 DEF IsRest
  <2> HIDE DEF q
  <2>2. a \o b \in Seq(S) /\ IsGlued(a \o b, a, s, q)
    BY ONLY s \in Seq(S), <2>1, GlueItems
  <2>3. w \in Seq(S) /\ IsGlued(w, a, s, q)
    BY <1>3, <2>2
  <2> QED BY ONLY <2>3 DEF q, IsGlued
<1> HIDE DEF w
<1>5. Len(w) = Len(s) - 1
  BY <1>1, <1>4
<1>6. \A i \in 1..(p - 1) : w[i] = s[i]
  BY <1>1, <1>4
<1>7. \A i \in p..(Len(s) - 1) : w[i] = s[i + 1]
  <2> TAKE i \in p..(Len(s) - 1)
  <2>1. i \in (Len(a) + 1)..(Len(a) + (Len(s) - p)) /\ p + (i - Len(a)) = i + 1
    BY <1>1
  <2> QED BY ONLY <1>4, <2>1
<1> QED BY <1>4, <1>5, <1>6, <1>7 DEF w, IsWithout

\* What InsertBefore computes.
LEMMA InsertItems ==
  ASSUME NEW S, NEW s \in Seq(S), NEW p \in 1..(Len(s) + 1), NEW e \in S
  PROVE  InsertBefore(s, p, e) \in Seq(S) /\ IsInsert(InsertBefore(s, p, e), s, p, e)
<1> DEFINE a == SubSeq(s, 1, p - 1)
           b == SubSeq(s, p, Len(s))
           o == <<e>>
           c == a \o o
<1>1. a \in Seq(S) /\ Len(a) = p - 1 /\ \A i \in 1..(p - 1) : a[i] = s[i]
  <2>1. p - 1 \in 0..Len(s)
    OBVIOUS
  <2> QED BY <2>1, FirstItems
<1>2. /\ b \in Seq(S) /\ Len(b) = Len(s) - (p - 1)
      /\ \A i \in 1..(Len(s) - (p - 1)) : b[i] = s[(p - 1) + i]
  <2>1. p - 1 \in 0..Len(s) /\ (p - 1) + 1 = p
    OBVIOUS
  <2>2. /\ SubSeq(s, (p - 1) + 1, Len(s)) \in Seq(S)
        /\ Len(SubSeq(s, (p - 1) + 1, Len(s))) = Len(s) - (p - 1)
        /\ \A i \in 1..(Len(s) - (p - 1)) : SubSeq(s, (p - 1) + 1, Len(s))[i] = s[(p - 1) + i]
    BY <2>1, LastItems
  <2> QED BY <2>1, <2>2
<1>3. InsertBefore(s, p, e) = c \o b
  BY DEF InsertBefore, Ext!InsertAt
<1>4. o \in Seq(S) /\ Len(o) = 1 /\ o[1] = e
  OBVIOUS
<1> HIDE DEF a, b, o, InsertBefore
<1>5. /\ c \in Seq(S) /\ Len(c) = Len(a) + Len(o)
      /\ \A i \in 1..Len(a) : c[i] = a[i]
      /\ \A i \in (Len(a) + 1)..(Len(a) + Len(o)) : c[i] = o[i - Len(a)]
  BY <1>1, <1>4, JoinItems
<1> HIDE DEF c
<1>6. Len(c) = p /\ (\A i \in 1..(p - 1) : c[i] = s[i]) /\ c[p] = e
  <2>1. Len(c) = p /\ p \in (Len(a) + 1)..(Len(a) + Len(o)) /\ p - Len(a) = 1
    BY <1>1, <1>4, <1>5
  <2>2. c[p] = e
    BY ONLY <1>4, <1>5, <2>1
  <2> QED BY <1>1, <1>5, <2>1, <2>2
<1> DEFINE w == InsertBefore(s, p, e)
<1>7. /\ w \in Seq(S) /\ Len(w) = Len(c) + (Len(s) - (p - 1))
      /\ \A i \in 1..Len(c) : w[i] = c[i]
      /\ \A i \in (Len(c) + 1)..(Len(c) + (Len(s) - (p - 1))) : w[i] = s[(p - 1) + (i - Len(c))]
  <2>1. p - 1 \in 0..Len(s)
    OBVIOUS
  <2> DEFINE q == p - 1
  <2>2. /\ c \in Seq(S) /\ b \in Seq(S) /\ q \in 0..Len(s) /\ IsRest(b, s, q)
    BY <1>2, <1>5, <2>1 DEF IsRest
  <2> HIDE DEF q
  <2>3. c \o b \in Seq(S) /\ IsGlued(c \o b, c, s, q)
    BY ONLY s \in Seq(S), <2>2, GlueItems
  <2>4. w \in Seq(S) /\ IsGlued(w, c, s, q)
    BY <1>3, <2>3
  <2> QED BY ONLY <2>4 DEF q, IsGlued
<1> HIDE DEF w
<1>8. Len(w) = Len(s) + 1
  BY <1>6, <1>7
<1>9. (\A i \in 1..(p - 1) : w[i] = s[i]) /\ w[p] = e
  BY <1>6, <1>7
<1>10. \A i \in (p + 1)..(Len(s) + 1) : w[i] = s[i - 1]
  <2> TAKE i \in (p + 1)..(Len(s) + 1)
  <2>1. i \in (Len(c) + 1)..(Len(c) + (Len(s) - (p - 1))) /\ (p - 1) + (i - Len(c)) = i - 1
    BY <1>6
  <2> QED BY ONLY <1>7, <2>1
<1> QED BY <1>7, <1>8, <1>9, <1>10 DEF w, IsInsert

\* IsInsert determines the sequence.
LEMMA InsertUnique ==
  ASSUME NEW S, NEW s \in Seq(S), NEW p \in 1..(Len(s) + 1), NEW e,
         NEW v \in Seq(S), NEW w \in Seq(S), IsInsert(v, s, p, e), IsInsert(w, s, p, e)
  PROVE  v = w
<1>1. Len(v) = Len(w)
  BY DEF IsInsert
<1>2. ASSUME NEW i \in 1..Len(v) PROVE v[i] = w[i]
  <2>1. i \in 1..(p - 1) \/ i = p \/ i \in (p + 1)..(Len(s) + 1)
    BY DEF IsInsert
  <2> QED BY <2>1 DEF IsInsert
<1> QED BY <1>1, <1>2, SeqEqual

\* IsWithout determines the sequence.
LEMMA WithoutUnique ==
  ASSUME NEW S, NEW s \in Seq(S), NEW p \in 1..Len(s),
         NEW v \in Seq(S), NEW w \in Seq(S), IsWithout(v, s, p), IsWithout(w, s, p)
  PROVE  v = w
<1>1. Len(v) = Len(w)
  BY DEF IsWithout
<1>2. ASSUME NEW i \in 1..Len(v) PROVE v[i] = w[i]
  <2>1. i \in 1..(p - 1) \/ i \in p..(Len(s) - 1)
    BY DEF IsWithout
  <2> QED BY <2>1 DEF IsWithout
<1> QED BY <1>1, <1>2, SeqEqual

\* Append inserts at the end.
LEMMA AppendIsInsert ==
  ASSUME NEW S, NEW s \in Seq(S), NEW e \in S
  PROVE  Append(s, e) \in Seq(S) /\ IsInsert(Append(s, e), s, Len(s) + 1, e)
BY DEF IsInsert

\* Concatenation with a single item inserts it at the front.
LEMMA PrependIsInsert ==
  ASSUME NEW S, NEW s \in Seq(S), NEW e \in S
  PROVE  <<e>> \o s \in Seq(S) /\ IsInsert(<<e>> \o s, s, 1, e)
<1> DEFINE o == <<e>>
<1>1. o \in Seq(S) /\ Len(o) = 1 /\ o[1] = e
  OBVIOUS
<1> HIDE DEF o
<1> DEFINE w == o \o s
<1>2. /\ w \in Seq(S) /\ Len(w) = Len(o) + Len(s)
      /\ \A i \in 1..Len(o) : w[i] = o[i]
      /\ \A i \in (Len(o) + 1)..(Len(o) + Len(s)) : w[i] = s[i - Len(o)]
  BY <1>1, JoinItems
<1> HIDE DEF w
<1>3. w \in Seq(S) /\ IsInsert(w, s, 1, e)
  BY <1>1, <1>2 DEF IsInsert
<1> QED BY <1>3 DEF w, o

\* Tail removes the first item.
LEMMA TailIsWithout ==
  ASSUME NEW S, NEW s \in Seq(S), s # <<>>
  PROVE  Tail(s) \in Seq(S) /\ IsWithout(Tail(s), s, 1)
BY HeadTailProperties DEF IsWithout
-----------------------------------------------------------------------------
(***************************************************************************)
(* Links.                                                                  *)
(***************************************************************************)

\* The items of s.
Items(s) == {s[i] : i \in 1..Len(s)}

\* Every item is there once.
Distinct(s) == \A i, j \in 1..Len(s) : s[i] = s[j] => i = j

\* The item at place i, or NULL behind the last one.
ItemAt(s, i) == IF i = Len(s) + 1 THEN NULL ELSE s[i]

\* The items of s are linked in this order.
Linked(nx, s) == \A i \in 1..Len(s) : nx[s[i]] = ItemAt(s, i + 1)

\* The fields of the SList describe the sequence s.
Describes(h, t, c, s) == /\ c = Len(s)
                         /\ h = IF s = <<>> THEN NULL ELSE s[1]
                         /\ t = IF s = <<>> THEN NULL ELSE s[Len(s)]

\* nx2 is nx with the item n linked in at p.
LinksIn(nx2, nx, s, p, n) ==
  /\ nx2[n] = ItemAt(s, p)
  /\ p > 1 => nx2[s[p - 1]] = n
  /\ \A i \in 1..Len(s) : i # p - 1 => nx2[s[i]] = nx[s[i]]

\* nx2 is nx with the item at p skipped.
LinksOut(nx2, nx, s, p) ==
  /\ p > 1 => nx2[s[p - 1]] = ItemAt(s, p + 1)
  /\ \A i \in 1..Len(s) : i # p - 1 /\ i # p => nx2[s[i]] = nx[s[i]]

\* A new item at p: still every item is there once.
LEMMA InsertDistinct ==
  ASSUME NEW s \in Seq(Node), NEW w \in Seq(Node), NEW p \in 1..(Len(s) + 1), NEW n \in Node \ Items(s),
         IsInsert(w, s, p, n), Distinct(s)
  PROVE  Distinct(w) /\ Items(w) = Items(s) \cup {n}
<1>1. \A i \in 1..Len(w) : \/ i \in 1..(p - 1) /\ i \in 1..Len(s) /\ w[i] = s[i]
                           \/ i = p /\ w[i] = n
                           \/ i \in (p + 1)..Len(w) /\ i - 1 \in 1..Len(s) /\ w[i] = s[i - 1]
  BY DEF IsInsert
<1>2. \A i \in 1..Len(s) : s[i] # n
  BY DEF Items
<1>3. Distinct(w)
  <2> SUFFICES ASSUME NEW i \in 1..Len(w), NEW j \in 1..Len(w), w[i] = w[j] PROVE i = j
    BY DEF Distinct
  <2> DEFINE f(k) == IF k < p THEN k ELSE k - 1
  <2>1. \A k \in 1..Len(w) : k # p => f(k) \in 1..Len(s) /\ w[k] = s[f(k)]
    BY <1>1
  <2>2. CASE i = p
    BY <1>1, <1>2, <2>2
  <2>3. CASE j = p
    BY <1>1, <1>2, <2>3
  <2>4. CASE i # p /\ j # p
    <3>1. f(i) \in 1..Len(s) /\ f(j) \in 1..Len(s) /\ s[f(i)] = s[f(j)]
      BY <2>1, <2>4
    <3>2. f(i) = f(j)
      BY ONLY <3>1, Distinct(s) DEF Distinct
    <3> QED BY <2>4, <3>2
  <2> QED BY <2>2, <2>3, <2>4
<1>4. ASSUME NEW x \in Items(w) PROVE x \in Items(s) \cup {n}
  BY <1>1 DEF Items
<1>5. n \in Items(w)
  BY DEF Items, IsInsert
<1>6. ASSUME NEW i \in 1..Len(s) PROVE s[i] \in Items(w)
  <2>1. CASE i < p
    BY <2>1 DEF Items, IsInsert
  <2>2. CASE i >= p
    <3>1. i + 1 \in (p + 1)..(Len(s) + 1) /\ i + 1 \in 1..Len(w) /\ (i + 1) - 1 = i
      BY <2>2 DEF IsInsert
    <3>2. w[i + 1] = s[i]
      BY <3>1 DEF IsInsert
    <3> QED BY <3>1, <3>2 DEF Items
  <2> QED BY <2>1, <2>2
<1> QED BY <1>3, <1>4, <1>5, <1>6 DEF Items

\* The next fields around the new item lead through it.
LEMMA InsertLinked ==
  ASSUME NEW s \in Seq(Node), NEW w \in Seq(Node), NEW p \in 1..(Len(s) + 1), NEW n \in Node,
         IsInsert(w, s, p, n), NEW nx, NEW nx2, Linked(nx, s), LinksIn(nx2, nx, s, p, n)
  PROVE  Linked(nx2, w)
<1> SUFFICES ASSUME NEW i \in 1..Len(w) PROVE nx2[w[i]] = ItemAt(w, i + 1)
  BY DEF Linked
<1>1. Len(w) = Len(s) + 1 /\ Len(s) \in Nat
  BY DEF IsInsert
<1>2. CASE i < p - 1
  <2>1. i \in 1..Len(s) /\ w[i] = s[i] /\ w[i + 1] = s[i + 1] /\ i # p - 1 /\ i + 1 # Len(s) + 1
    BY <1>1, <1>2 DEF IsInsert
  <2>2. nx2[s[i]] = s[i + 1]
    BY <2>1 DEF LinksIn, Linked, ItemAt
  <2> QED BY <1>1, <1>2, <2>1, <2>2 DEF ItemAt
<1>3. CASE i = p - 1
  <2>1. w[i] = s[i] /\ w[i + 1] = n /\ i + 1 # Len(w) + 1 /\ p > 1
    BY <1>1, <1>3 DEF IsInsert
  <2> QED BY <1>3, <2>1 DEF ItemAt, LinksIn
<1>4. CASE i = p
  <2>1. w[i] = n /\ nx2[n] = ItemAt(s, p)
    BY <1>4 DEF IsInsert, LinksIn
  <2>2. ItemAt(s, p) = ItemAt(w, i + 1)
    BY <1>1, <1>4 DEF ItemAt, IsInsert
  <2> QED BY <2>1, <2>2
<1>5. CASE i > p
  <2>1. i - 1 \in 1..Len(s) /\ w[i] = s[i - 1] /\ i - 1 # p - 1
    BY <1>1, <1>5 DEF IsInsert
  <2>2. nx2[s[i - 1]] = ItemAt(s, (i - 1) + 1)
    BY <2>1 DEF LinksIn, Linked
  <2>3. ItemAt(s, (i - 1) + 1) = ItemAt(w, i + 1)
    <3>1. (i - 1) + 1 = i /\ (i + 1) - 1 = i
      OBVIOUS
    <3>2. CASE i = Len(s) + 1
      BY <1>1, <3>1, <3>2 DEF ItemAt
    <3>3. CASE i # Len(s) + 1
      <4>1. i + 1 \in (p + 1)..(Len(s) + 1)
        BY <1>1, <1>5, <3>3
      <4>2. w[i + 1] = s[i]
        BY <3>1, <4>1 DEF IsInsert
      <4> QED BY <1>1, <3>1, <3>3, <4>2 DEF ItemAt
    <3> QED BY <3>2, <3>3
  <2> QED BY <2>1, <2>2, <2>3
<1> QED BY <1>1, <1>2, <1>3, <1>4, <1>5

\* head changes for a new first item, tail for a new last one.
LEMMA InsertDescribes ==
  ASSUME NEW s \in Seq(Node), NEW w \in Seq(Node), NEW p \in 1..(Len(s) + 1), NEW n \in Node,
         IsInsert(w, s, p, n), NEW h, NEW t, NEW c, Describes(h, t, c, s)
  PROVE  Describes(IF p = 1 THEN n ELSE h, IF p = Len(s) + 1 THEN n ELSE t, c + 1, w)
<1>1. Len(w) = Len(s) + 1 /\ Len(s) \in Nat /\ w # <<>>
  BY DEF IsInsert
<1>2. CASE s = <<>>
  BY <1>1, <1>2 DEF Describes, IsInsert
<1>3. CASE s # <<>>
  <2>1. Len(s) >= 1
    BY <1>3
  <2>2. w[1] = IF p = 1 THEN n ELSE s[1]
    BY <2>1 DEF IsInsert
  <2>3. w[Len(w)] = IF p = Len(s) + 1 THEN n ELSE s[Len(s)]
    BY <1>1, <2>1 DEF IsInsert
  <2> QED BY <1>1, <1>3, <2>2, <2>3 DEF Describes
<1> QED BY <1>2, <1>3

\* The item at p is gone.
LEMMA WithoutDistinct ==
  ASSUME NEW s \in Seq(Node), NEW w \in Seq(Node), NEW p \in 1..Len(s), IsWithout(w, s, p), Distinct(s)
  PROVE  Distinct(w) /\ Items(w) = Items(s) \ {s[p]}
<1>1. \A i \in 1..Len(w) : \/ i \in 1..(p - 1) /\ i \in 1..Len(s) /\ w[i] = s[i]
                           \/ i \in p..Len(w) /\ i + 1 \in 1..Len(s) /\ w[i] = s[i + 1]
  BY DEF IsWithout
<1>3. Distinct(w)
  <2> SUFFICES ASSUME NEW i \in 1..Len(w), NEW j \in 1..Len(w), w[i] = w[j] PROVE i = j
    BY DEF Distinct
  <2> QED BY <1>1 DEF Distinct
<1>4. ASSUME NEW i \in 1..Len(w) PROVE w[i] \in Items(s) \ {s[p]}
  BY <1>1 DEF Items, Distinct
<1>6. ASSUME NEW i \in 1..Len(s), i # p PROVE s[i] \in Items(w)
  <2>1. CASE i < p
    BY <2>1 DEF Items, IsWithout
  <2>2. CASE i > p
    <3>1. i - 1 \in p..(Len(s) - 1) /\ i - 1 \in 1..Len(w) /\ (i - 1) + 1 = i
      BY <2>2 DEF IsWithout
    <3>2. w[i - 1] = s[i]
      BY <3>1 DEF IsWithout
    <3> QED BY <3>1, <3>2 DEF Items
  <2> QED BY <1>6, <2>1, <2>2
<1> QED BY <1>3, <1>4, <1>6 DEF Items

\* The next field before the item at p skips it.
LEMMA WithoutLinked ==
  ASSUME NEW s \in Seq(Node), NEW w \in Seq(Node), NEW p \in 1..Len(s), IsWithout(w, s, p),
         NEW nx, NEW nx2, Linked(nx, s), LinksOut(nx2, nx, s, p)
  PROVE  Linked(nx2, w)
<1> SUFFICES ASSUME NEW i \in 1..Len(w) PROVE nx2[w[i]] = ItemAt(w, i + 1)
  BY DEF Linked
<1>1. Len(w) = Len(s) - 1 /\ Len(s) \in Nat
  BY DEF IsWithout
<1>2. CASE i < p - 1
  <2>1. i \in 1..Len(s) /\ w[i] = s[i] /\ w[i + 1] = s[i + 1] /\ i # p - 1 /\ i # p /\ i + 1 # Len(s) + 1
    BY <1>1, <1>2 DEF IsWithout
  <2>2. nx2[s[i]] = s[i + 1]
    BY <2>1 DEF LinksOut, Linked, ItemAt
  <2> QED BY <1>1, <1>2, <2>1, <2>2 DEF ItemAt
<1>3. CASE i = p - 1
  <2>1. w[i] = s[i] /\ p > 1
    BY <1>1, <1>3 DEF IsWithout
  <2>2. nx2[s[i]] = ItemAt(s, p + 1)
    BY <1>3, <2>1 DEF LinksOut
  <2>3. ItemAt(s, p + 1) = ItemAt(w, i + 1)
    BY <1>1, <1>3 DEF ItemAt, IsWithout
  <2> QED BY <2>1, <2>2, <2>3
<1>4. CASE i >= p
  <2>1. i + 1 \in 1..Len(s) /\ w[i] = s[i + 1] /\ i + 1 # p - 1 /\ i + 1 # p
    BY <1>1, <1>4 DEF IsWithout
  <2>2. nx2[s[i + 1]] = ItemAt(s, (i + 1) + 1)
    BY <2>1 DEF LinksOut, Linked
  <2>3. ItemAt(s, (i + 1) + 1) = ItemAt(w, i + 1)
    BY <1>1, <1>4 DEF ItemAt, IsWithout
  <2> QED BY <2>1, <2>2, <2>3
<1> QED BY <1>1, <1>2, <1>3, <1>4

\* head changes when the first item goes, tail when the last one does.
LEMMA WithoutDescribes ==
  ASSUME NEW s \in Seq(Node), NEW w \in Seq(Node), NEW p \in 1..Len(s), IsWithout(w, s, p),
         NEW h, NEW t, NEW c, Describes(h, t, c, s)
  PROVE  Describes(IF p = 1 THEN ItemAt(s, 2) ELSE h,
                   IF p = Len(s) THEN IF p = 1 THEN NULL ELSE s[p - 1] ELSE t, c - 1, w)
<1>1. Len(w) = Len(s) - 1 /\ Len(s) \in Nat /\ s # <<>>
  BY DEF IsWithout
<1>2. CASE Len(s) = 1
  BY <1>1, <1>2 DEF Describes, IsWithout, ItemAt
<1>3. CASE Len(s) # 1
  <2>1. w # <<>>
    BY <1>1, <1>3
  <2>2. w[1] = IF p = 1 THEN s[2] ELSE s[1]
    BY <1>1, <1>3 DEF IsWithout
  <2>3. w[Len(w)] = IF p = Len(s) THEN s[p - 1] ELSE s[Len(s)]
    BY <1>1, <1>3 DEF IsWithout
  <2> QED BY <1>1, <1>3, <2>1, <2>2, <2>3 DEF Describes, ItemAt
<1> QED BY <1>2, <1>3
-----------------------------------------------------------------------------
(***************************************************************************)
(* Places.                                                                 *)
(***************************************************************************)

\* The place of an item that is there once.
LEMMA PlaceOf ==
  ASSUME NEW s \in Seq(Node), Distinct(s), NEW i \in 1..Len(s)
  PROVE  IndexOf(s, s[i]) = i
<1> DEFINE e == s[i]
           P(j) == s[j] = e
<1>1. \A j \in 1..Len(s) : P(j) => j = i
  BY DEF Distinct
<1>2. P(i)
  OBVIOUS
<1>3. IndexOf(s, e) = CHOOSE j \in 1..Len(s) : P(j)
  BY DEF IndexOf
<1> HIDE DEF P
<1>4. IndexOf(s, e) \in 1..Len(s) /\ P(IndexOf(s, e))
  BY <1>2, <1>3
<1> QED BY <1>1, <1>4

\* Least is the least.
LEMMA LeastOf ==
  ASSUME NEW I \in SUBSET Nat, NEW m \in I, \A j \in I : m <= j
  PROVE  Least(I) = m
<1> DEFINE P(i) == \A j \in I : i <= j
<1>1. P(m)
  OBVIOUS
<1>2. Least(I) = CHOOSE i \in I : P(i)
  BY DEF Least
<1>3. \A i \in I : P(i) => i = m
  OBVIOUS
<1> HIDE DEF P
<1>4. Least(I) \in I /\ P(Least(I))
  BY <1>1, <1>2
<1> QED BY <1>3, <1>4

\* A search from a place that does not match, that does, and behind the end.
LEMMA MatchesFrom ==
  ASSUME NEW s \in Seq(Datum), NEW k, NEW p \in 1..(Len(s) + 1)
  PROVE  /\ p = Len(s) + 1 => Matches(s, p, k) = {}
         /\ p <= Len(s) /\ KeyOf(s[p]) # k => Matches(s, p, k) = Matches(s, p + 1, k)
         /\ p <= Len(s) /\ KeyOf(s[p]) = k => Matches(s, p, k) # {} /\ Least(Matches(s, p, k)) = p
<1>1. p = Len(s) + 1 => Matches(s, p, k) = {}
  BY DEF Matches
<1>2. ASSUME p <= Len(s), KeyOf(s[p]) # k PROVE Matches(s, p, k) = Matches(s, p + 1, k)
  BY <1>2 DEF Matches
<1>3. ASSUME p <= Len(s), KeyOf(s[p]) = k
      PROVE  Matches(s, p, k) # {} /\ Least(Matches(s, p, k)) = p
  <2> DEFINE M == Matches(s, p, k)
  <2>1. M \in SUBSET Nat /\ p \in M /\ \A j \in M : p <= j
    BY <1>3 DEF Matches
  <2> HIDE DEF M
  <2>2. Least(M) = p
    BY ONLY <2>1, LeastOf
  <2> QED BY <2>1, <2>2 DEF M
<1> QED BY <1>1, <1>2, <1>3
-----------------------------------------------------------------------------
(***************************************************************************)
(* Removing all matches.                                                   *)
(***************************************************************************)

\* One step of Kept.
KeepNext(t, d, k) == IF KeyOf(d) = k THEN t ELSE Append(t, d)

\* Kept satisfies its recursion.
LEMMA KeptValues ==
  ASSUME NEW s \in Seq(Datum), NEW k
  PROVE  /\ Kept(s, k)[0] = <<>>
         /\ \A i \in 0..(Len(s) - 1) : Kept(s, k)[i + 1] = KeepNext(Kept(s, k)[i], s[i + 1], k)
<1> DEFINE Good(f, n) == f[0] = <<>> /\ \A i \in 0..(n - 1) : f[i + 1] = KeepNext(f[i], s[i + 1], k)
           T == {n \in Nat : \E f : Good(f, n)}
<1>1. 0 \in T
  <2>1. Good([i \in 0..0 |-> <<>>], 0)
    OBVIOUS
  <2> HIDE DEF Good
  <2> QED BY <2>1
<1>2. ASSUME NEW n \in Nat, n \in T PROVE n + 1 \in T
  <2>1. PICK f : Good(f, n)
    BY <1>2
  <2> DEFINE v == KeepNext(f[n], s[n + 1], k)
             h == [i \in 0..(n + 1) |-> IF i = n + 1 THEN v ELSE f[i]]
  <2>2. h[0] = <<>>
    BY <2>1
  <2>3. ASSUME NEW i \in 0..((n + 1) - 1) PROVE h[i + 1] = KeepNext(h[i], s[i + 1], k)
    <3>1. i \in 0..(n + 1) /\ i + 1 \in 0..(n + 1) /\ i # n + 1 /\ h[i] = f[i]
      OBVIOUS
    <3>2. CASE i = n
      <4>1. h[i + 1] = v
        BY <3>1, <3>2
      <4> QED BY <3>1, <3>2, <4>1
    <3>3. CASE i # n
      <4>1. h[i + 1] = f[i + 1] /\ i \in 0..(n - 1)
        BY <3>1, <3>3
      <4>2. f[i + 1] = KeepNext(f[i], s[i + 1], k)
        BY <2>1, <4>1
      <4> QED BY <3>1, <4>1, <4>2
    <3> QED BY <3>2, <3>3
  <2> HIDE DEF h
  <2>4. Good(h, n + 1)
    BY <2>2, <2>3
  <2> HIDE DEF Good
  <2> QED BY <2>4
<1> HIDE DEF T
<1>3. Len(s) \in T
  <2>1. \A n \in Nat : n \in T
    BY <1>1, <1>2, SetInduction
  <2> QED BY <2>1
<1>4. PICK f : Good(f, Len(s))
  BY <1>3 DEF T
<1> DEFINE D == 0..Len(s)
           Eq(e) == e = [i \in D |-> IF i = 0 THEN <<>> ELSE KeepNext(e[i - 1], s[i], k)]
           h == [i \in D |-> f[i]]
<1>5. Eq(h)
  <2>1. ASSUME NEW i \in D PROVE h[i] = IF i = 0 THEN <<>> ELSE KeepNext(h[i - 1], s[i], k)
    <3>1. CASE i = 0
      BY <1>4, <3>1
    <3>2. CASE i # 0
      <4>1. i - 1 \in 0..(Len(s) - 1) /\ i - 1 \in D /\ (i - 1) + 1 = i
        BY <3>2
      <4>2. f[(i - 1) + 1] = KeepNext(f[i - 1], s[(i - 1) + 1], k)
        BY <1>4, <4>1
      <4>3. h[i] = f[i] /\ h[i - 1] = f[i - 1]
        BY <4>1
      <4> QED BY <3>2, <4>1, <4>2, <4>3
    <3> QED BY <3>1, <3>2
  <2> QED BY <2>1
<1> HIDE DEF h
<1>6. Kept(s, k) = CHOOSE e : Eq(e)
  BY DEF Kept, KeepNext
<1>7. Eq(Kept(s, k))
  <2> HIDE DEF Eq
  <2> QED BY <1>5, <1>6, Zenon
<1> DEFINE e == Kept(s, k)
<1> HIDE DEF e
<1>8. e = [i \in D |-> IF i = 0 THEN <<>> ELSE KeepNext(e[i - 1], s[i], k)]
  BY <1>7 DEF e
<1>9. e[0] = <<>>
  BY <1>8
<1>10. ASSUME NEW i \in 0..(Len(s) - 1) PROVE e[i + 1] = KeepNext(e[i], s[i + 1], k)
  <2>1. i + 1 \in D /\ i + 1 # 0 /\ (i + 1) - 1 = i
    OBVIOUS
  <2> QED BY <1>8, <2>1
<1> QED BY <1>9, <1>10 DEF e

\* Removing a match beforehand makes no difference.
LEMMA RemoveEveryMatch ==
  ASSUME NEW s \in Seq(Datum), NEW w \in Seq(Datum), NEW p \in 1..Len(s), IsWithout(w, s, p),
         NEW k, KeyOf(s[p]) = k
  PROVE  RemoveEvery(w, k) = RemoveEvery(s, k)
<1> DEFINE e == Kept(s, k)
           d == Kept(w, k)
<1>1. e[0] = <<>> /\ \A i \in 0..(Len(s) - 1) : e[i + 1] = KeepNext(e[i], s[i + 1], k)
  BY KeptValues
<1>2. d[0] = <<>> /\ \A i \in 0..(Len(w) - 1) : d[i + 1] = KeepNext(d[i], w[i + 1], k)
  BY KeptValues
<1>3. RemoveEvery(w, k) = d[Len(w)] /\ RemoveEvery(s, k) = e[Len(s)]
  BY DEF RemoveEvery
<1> HIDE DEF e, d
<1>4. Len(w) = Len(s) - 1 /\ Len(s) \in Nat /\ Len(w) \in Nat
  BY DEF IsWithout
<1>5. e[p] = e[p - 1]
  <2>1. p - 1 \in 0..(Len(s) - 1) /\ (p - 1) + 1 = p
    OBVIOUS
  <2>2. e[p] = KeepNext(e[p - 1], s[p], k)
    BY <1>1, <2>1
  <2> QED BY <2>2 DEF KeepNext
<1> DEFINE T == {i \in Nat : i <= Len(w) => /\ i <= p - 1 => d[i] = e[i]
                                            /\ i >= p - 1 => d[i] = e[i + 1]}
<1>6. 0 \in T
  <2>1. 0 >= p - 1 => p = 1
    OBVIOUS
  <2> QED BY <1>1, <1>2, <1>5, <2>1
<1>7. ASSUME NEW i \in Nat, i \in T PROVE i + 1 \in T
  <2> SUFFICES ASSUME i + 1 <= Len(w)
               PROVE  /\ i + 1 <= p - 1 => d[i + 1] = e[i + 1]
                      /\ i + 1 >= p - 1 => d[i + 1] = e[(i + 1) + 1]
    OBVIOUS
  <2>1. i \in 0..(Len(w) - 1) /\ i \in 0..(Len(s) - 1) /\ i + 1 \in 0..(Len(s) - 1)
    BY <1>4
  <2>2. d[i + 1] = KeepNext(d[i], w[i + 1], k)
    BY <1>2, <2>1
  <2>3. /\ e[i + 1] = KeepNext(e[i], s[i + 1], k)
        /\ e[(i + 1) + 1] = KeepNext(e[i + 1], s[(i + 1) + 1], k)
    BY <1>1, <2>1
  <2>4. CASE i + 1 <= p - 1
    <3>1. w[i + 1] = s[i + 1] /\ d[i] = e[i]
      BY <1>4, <1>7, <2>1, <2>4 DEF IsWithout
    <3>2. d[i + 1] = e[i + 1]
      BY <2>2, <2>3, <3>1
    <3>3. i + 1 >= p - 1 => i + 1 = p - 1 /\ (i + 1) + 1 = p
      BY <2>4
    <3> QED BY <1>5, <3>2, <3>3
  <2>5. CASE i + 1 > p - 1
    <3>1. i + 1 \in p..(Len(s) - 1) /\ i >= p - 1 /\ i <= Len(w)
      BY <1>4, <2>1, <2>5
    <3>2. w[i + 1] = s[(i + 1) + 1] /\ d[i] = e[i + 1]
      BY <1>7, <3>1 DEF IsWithout
    <3> QED BY <2>2, <2>3, <2>5, <3>2
  <2> QED BY <2>4, <2>5
<1> HIDE DEF T
<1>8. Len(w) \in T
  <2>1. \A i \in Nat : i \in T
    BY <1>6, <1>7, SetInduction
  <2> QED BY <1>4, <2>1
<1>9. d[Len(w)] = e[Len(w) + 1]
  BY <1>4, <1>8 DEF T
<1> QED BY <1>3, <1>4, <1>9

\* Without a match nothing is removed.
LEMMA RemoveEveryNone ==
  ASSUME NEW s \in Seq(Datum), NEW k, \A i \in 1..Len(s) : KeyOf(s[i]) # k
  PROVE  RemoveEvery(s, k) = s
<1> DEFINE e == Kept(s, k)
<1>1. e[0] = <<>> /\ \A i \in 0..(Len(s) - 1) : e[i + 1] = KeepNext(e[i], s[i + 1], k)
  BY KeptValues
<1>2. RemoveEvery(s, k) = e[Len(s)]
  BY DEF RemoveEvery
<1> HIDE DEF e
<1> DEFINE T == {i \in Nat : i <= Len(s) => /\ e[i] \in Seq(Datum) /\ Len(e[i]) = i
                                            /\ \A j \in 1..i : e[i][j] = s[j]}
<1>3. 0 \in T
  <2>1. e[0] \in Seq(Datum) /\ Len(e[0]) = 0
    BY <1>1, EmptySeq
  <2> QED BY <2>1
<1>4. ASSUME NEW i \in Nat, i \in T PROVE i + 1 \in T
  <2> SUFFICES ASSUME i + 1 <= Len(s)
               PROVE  /\ e[i + 1] \in Seq(Datum) /\ Len(e[i + 1]) = i + 1
                      /\ \A j \in 1..(i + 1) : e[i + 1][j] = s[j]
    OBVIOUS
  <2>1. i \in 0..(Len(s) - 1) /\ i + 1 \in 1..Len(s) /\ i <= Len(s)
    OBVIOUS
  <2>2. e[i + 1] = Append(e[i], s[i + 1])
    BY <1>1, <2>1 DEF KeepNext
  <2>3. e[i] \in Seq(Datum) /\ Len(e[i]) = i /\ \A j \in 1..i : e[i][j] = s[j]
    BY <1>4, <2>1
  <2>4. s[i + 1] \in Datum
    BY <2>1
  <2> QED BY <2>2, <2>3, <2>4
<1> HIDE DEF T
<1>5. Len(s) \in T
  <2>1. \A i \in Nat : i \in T
    BY <1>3, <1>4, SetInduction
  <2> QED BY <2>1
<1>6. /\ e[Len(s)] \in Seq(Datum) /\ Len(e[Len(s)]) = Len(s)
      /\ \A j \in 1..Len(s) : e[Len(s)][j] = s[j]
  BY <1>5 DEF T
<1>7. e[Len(s)] = s
  BY <1>6, SeqEqual
<1> QED BY <1>2, <1>7
-----------------------------------------------------------------------------
(***************************************************************************)
(* Data.                                                                   *)
(***************************************************************************)

\* The data of the items of s.
DataOf(dt, s) == [i \in 1..Len(s) |-> dt[s[i]]]

\* They are a sequence of data.
LEMMA DataItems ==
  ASSUME NEW s \in Seq(Node), NEW dt, \A n \in Items(s) : dt[n] \in Datum
  PROVE  /\ DataOf(dt, s) \in Seq(Datum) /\ Len(DataOf(dt, s)) = Len(s)
         /\ \A i \in 1..Len(s) : DataOf(dt, s)[i] = dt[s[i]]
<1>1. \A i \in 1..Len(s) : dt[s[i]] \in Datum
  BY DEF Items
<1> QED BY <1>1 DEF DataOf

\* A new item brings its datum.
LEMMA DataInsert ==
  ASSUME NEW s \in Seq(Node), NEW w \in Seq(Node), NEW p \in 1..(Len(s) + 1), NEW n \in Node,
         IsInsert(w, s, p, n), NEW dt, NEW dt2, \A m \in Items(s) : dt2[m] = dt[m],
         \A m \in Items(s) : dt[m] \in Datum, \A m \in Items(w) : dt2[m] \in Datum
  PROVE  IsInsert(DataOf(dt2, w), DataOf(dt, s), p, dt2[n])
<1> DEFINE a == DataOf(dt, s)
           b == DataOf(dt2, w)
<1>1. Len(a) = Len(s) /\ \A i \in 1..Len(s) : a[i] = dt[s[i]]
  BY DataItems
<1>2. Len(b) = Len(w) /\ \A i \in 1..Len(w) : b[i] = dt2[w[i]]
  BY DataItems
<1> HIDE DEF a, b
<1>3. Len(w) = Len(s) + 1 /\ Len(s) \in Nat
  BY DEF IsInsert
<1>4. \A i \in 1..Len(s) : dt2[s[i]] = dt[s[i]]
  BY DEF Items
<1>5. ASSUME NEW i \in 1..(p - 1) PROVE b[i] = a[i]
  <2>1. i \in 1..Len(s) /\ i \in 1..Len(w) /\ w[i] = s[i]
    BY <1>3 DEF IsInsert
  <2> QED BY <1>1, <1>2, <1>4, <2>1
<1>6. b[p] = dt2[n]
  BY <1>2, <1>3 DEF IsInsert
<1>7. ASSUME NEW i \in (p + 1)..(Len(s) + 1) PROVE b[i] = a[i - 1]
  <2>1. i - 1 \in 1..Len(s) /\ i \in 1..Len(w) /\ w[i] = s[i - 1]
    BY <1>3 DEF IsInsert
  <2> QED BY <1>1, <1>2, <1>4, <2>1
<1>8. IsInsert(b, a, p, dt2[n])
  BY <1>1, <1>2, <1>3, <1>5, <1>6, <1>7 DEF IsInsert
<1> QED BY <1>8 DEF a, b

\* An item takes its datum with it.
LEMMA DataWithout ==
  ASSUME NEW s \in Seq(Node), NEW w \in Seq(Node), NEW p \in 1..Len(s), IsWithout(w, s, p),
         NEW dt, NEW dt2, \A m \in Items(w) : dt2[m] = dt[m],
         \A m \in Items(s) : dt[m] \in Datum, \A m \in Items(w) : dt2[m] \in Datum
  PROVE  IsWithout(DataOf(dt2, w), DataOf(dt, s), p)
<1> DEFINE a == DataOf(dt, s)
           b == DataOf(dt2, w)
<1>1. Len(a) = Len(s) /\ \A i \in 1..Len(s) : a[i] = dt[s[i]]
  BY DataItems
<1>2. Len(b) = Len(w) /\ \A i \in 1..Len(w) : b[i] = dt2[w[i]]
  BY DataItems
<1> HIDE DEF a, b
<1>3. Len(w) = Len(s) - 1 /\ Len(s) \in Nat
  BY DEF IsWithout
<1>4. \A i \in 1..Len(w) : dt2[w[i]] = dt[w[i]]
  BY DEF Items
<1>5. ASSUME NEW i \in 1..(p - 1) PROVE b[i] = a[i]
  <2>1. i \in 1..Len(s) /\ i \in 1..Len(w) /\ w[i] = s[i]
    BY <1>3 DEF IsWithout
  <2> QED BY <1>1, <1>2, <1>4, <2>1
<1>6. ASSUME NEW i \in p..(Len(s) - 1) PROVE b[i] = a[i + 1]
  <2>1. i + 1 \in 1..Len(s) /\ i \in 1..Len(w) /\ w[i] = s[i + 1]
    BY <1>3 DEF IsWithout
  <2> QED BY <1>1, <1>2, <1>4, <2>1
<1>7. IsWithout(b, a, p)
  BY <1>1, <1>2, <1>3, <1>5, <1>6 DEF IsWithout
<1> QED BY <1>7 DEF a, b
-----------------------------------------------------------------------------
(***************************************************************************)
(* Owners.                                                                 *)
(***************************************************************************)

\* The object x is held by an item of H.
HeldIn(x, dt, H) == \E n \in H : x \in Id(dt[n])

\* The objects up to g are in the items H, freed or handed back: each is in one
\* place.
Owned(dt, H, g, fr, po) ==
  /\ \A n \in H : dt[n] \in Datum
  /\ \A m, n \in H : m # n => Id(dt[m]) \cap Id(dt[n]) = {}
  /\ \A x : x \in 1..g <=> x \in fr \/ x \in po \/ HeldIn(x, dt, H)
  /\ \A n \in H : Id(dt[n]) \cap (fr \cup po) = {}
  /\ fr \cap po = {}

\* The next object comes with a new item.
LEMMA OwnedNew ==
  ASSUME NEW dt, NEW dt2, NEW H, NEW g \in Nat, NEW fr, NEW po, Owned(dt, H, g, fr, po),
         NEW n, n \notin H, NEW k \in Keys,
         dt2[n] = <<g + 1, k>>, \A m \in H : dt2[m] = dt[m]
  PROVE  Owned(dt2, H \cup {n}, g + 1, fr, po)
<1>1. Id(dt2[n]) = {g + 1} /\ dt2[n] \in Datum
  BY SListAssumption DEF Id, Datum
<1>2. \A m \in H : Id(dt2[m]) = Id(dt[m]) /\ dt2[m] \in Datum
  BY DEF Owned
<1>3. g + 1 \notin fr /\ g + 1 \notin po /\ \A m \in H : g + 1 \notin Id(dt[m])
  <2>1. ~(g + 1 \in 1..g)
    OBVIOUS
  <2> QED BY <2>1 DEF Owned, HeldIn
<1>4. \A x : x \in 1..(g + 1) <=> x \in 1..g \/ x = g + 1
  OBVIOUS
<1>5. \A x : HeldIn(x, dt2, H \cup {n}) <=> HeldIn(x, dt, H) \/ x = g + 1
  BY <1>1, <1>2 DEF HeldIn
<1>6. \A x : x \in 1..(g + 1) <=> x \in fr \/ x \in po \/ HeldIn(x, dt2, H \cup {n})
  BY <1>4, <1>5 DEF Owned
<1>7. ASSUME NEW l \in H \cup {n}, NEW m \in H \cup {n}, l # m
      PROVE  Id(dt2[l]) \cap Id(dt2[m]) = {}
  <2>1. CASE l = n
    BY <1>1, <1>2, <1>3, <1>7, <2>1
  <2>2. CASE m = n
    BY <1>1, <1>2, <1>3, <1>7, <2>2
  <2>3. CASE l # n /\ m # n
    BY <1>2, <1>7, <2>3 DEF Owned
  <2> QED BY <2>1, <2>2, <2>3
<1>8. ASSUME NEW m \in H \cup {n} PROVE Id(dt2[m]) \cap (fr \cup po) = {}
  BY <1>1, <1>2, <1>3 DEF Owned
<1> QED BY <1>1, <1>2, <1>6, <1>7, <1>8 DEF Owned

\* The objects in G are freed, or go back to the caller.
Leave(G, fr, po, fr2, po2) == \/ fr2 = fr \cup G /\ po2 = po
                              \/ fr2 = fr /\ po2 = po \cup G

\* The item n is given back, or loses its datum.
Drops(n, dt, H, dt2, H2) == /\ H2 = H \ {n} \/ (H2 = H /\ dt2[n] = NULL)
                            /\ \A m \in H : m # n => dt2[m] = dt[m]

\* The object of the item n leaves the list, with or without the item.
LEMMA OwnedGone ==
  ASSUME NEW dt, NEW dt2, NEW H, NEW g, NEW fr, NEW po, Owned(dt, H, g, fr, po),
         NEW n \in H, NEW H2, NEW fr2, NEW po2,
         Leave(Id(dt[n]), fr, po, fr2, po2), Drops(n, dt, H, dt2, H2)
  PROVE  Owned(dt2, H2, g, fr2, po2)
<1> USE DEF Leave, Drops
<1>1. \A m \in H2 : (m = n /\ Id(dt2[m]) = {} /\ dt2[m] \in Datum) \/ (m \in H /\ m # n /\ dt2[m] = dt[m])
  BY DEF Id, Datum
<1>2. \A m \in H : m # n => m \in H2
  OBVIOUS
<1>3. \A x : HeldIn(x, dt, H) <=> HeldIn(x, dt2, H2) \/ x \in Id(dt[n])
  <2>1. ASSUME NEW x, HeldIn(x, dt, H) PROVE HeldIn(x, dt2, H2) \/ x \in Id(dt[n])
    BY <1>2, <2>1 DEF HeldIn
  <2>2. ASSUME NEW x, HeldIn(x, dt2, H2) PROVE HeldIn(x, dt, H)
    BY <1>1, <2>2 DEF HeldIn
  <2>3. ASSUME NEW x, x \in Id(dt[n]) PROVE HeldIn(x, dt, H)
    BY <2>3 DEF HeldIn
  <2> QED BY <2>1, <2>2, <2>3
<1>4. \A x : x \in fr2 \/ x \in po2 <=> x \in fr \/ x \in po \/ x \in Id(dt[n])
  OBVIOUS
<1>5. \A x : x \in 1..g <=> x \in fr2 \/ x \in po2 \/ HeldIn(x, dt2, H2)
  BY <1>3, <1>4 DEF Owned
<1>6. \A m \in H2 : dt2[m] \in Datum
  BY <1>1 DEF Owned
<1>7. ASSUME NEW l \in H2, NEW m \in H2, l # m PROVE Id(dt2[l]) \cap Id(dt2[m]) = {}
  BY <1>1, <1>7 DEF Owned
<1>8. ASSUME NEW m \in H2 PROVE Id(dt2[m]) \cap (fr2 \cup po2) = {}
  <2>1. CASE m = n
    BY <1>1, <2>1
  <2>2. CASE m # n
    <3>1. m \in H /\ dt2[m] = dt[m]
      BY <1>1, <2>2
    <3>2. Id(dt[m]) \cap Id(dt[n]) = {} /\ Id(dt[m]) \cap (fr \cup po) = {}
      BY <2>2, <3>1 DEF Owned
    <3> QED BY <1>4, <3>1, <3>2
  <2> QED BY <2>1, <2>2
<1>9. fr2 \cap po2 = {}
  BY DEF Owned
<1> QED BY <1>5, <1>6, <1>7, <1>8, <1>9 DEF Owned
-----------------------------------------------------------------------------
(***************************************************************************)
(* The invariant: what holds between the calls, and at every iteration of  *)
(* their loops.                                                            *)
(***************************************************************************)

\* head, tail and count describe seq, which has every item once and is linked,
\* except while the items are freed one by one; a freed list has no items.
Shape == /\ Distinct(seq)
         /\ alive => Describes(head, tail, count, seq)
         /\ ~alive => pc = "idle" /\ seq = <<>>
         /\ pc # "free" => Linked(next, seq)
         /\ pc \notin {"sorted", "free"} => heap = InList

\* ptr, and the code's tail, are p items behind &list->head.
PtrAt(p) == ptr = IF p = 0 THEN HEAD ELSE seq[p]
PrevAt(p) == prev = IF p = 0 THEN NULL ELSE seq[p]

\* _slist_prepend_new_sorted: the items up to ptr are smaller, the last is greater.
InSorted ==
  pc = "sorted" =>
    /\ item \in Node \ InList /\ heap = InList \cup {item}
    /\ seq # <<>> /\ count < SIZE_MAX
    /\ data[item] \in Nat \X Keys /\ KeyOf(data[item]) = key
    /\ KeyOf(data[seq[Len(seq)]]) > key
    /\ want = SortedInsert(Contents, data[item]) /\ wantRet = item
    /\ \E p \in 0..Len(seq) : PtrAt(p) /\ \A i \in 1..p : KeyOf(data[seq[i]]) < key

\* slist_remove: the item is behind ptr.
InRemove ==
  pc = "remove" =>
    /\ wantRet = NULL
    /\ \E q \in 1..Len(seq) : /\ item = seq[q] /\ want = Without(Contents, q)
                              /\ \E p \in 0..(q - 1) : PtrAt(p) /\ PrevAt(p)

\* slist_remove_by_data: the items up to ptr are not equal.
InRemoveByData ==
  pc = "remove_by_data" =>
    /\ wantRet = NULL
    /\ want = IF op = "remove_all" THEN RemoveEvery(Contents, key) ELSE RemoveFirst(Contents, key)
    /\ \E p \in 0..Len(seq) : PtrAt(p) /\ PrevAt(p) /\ \A i \in 1..p : KeyOf(data[seq[i]]) # key

\* The result of a search for k in c, the data of the items s, from place p on.
FoundFrom(c, s, p, k) == LET match == Matches(c, p, k)
                         IN  IF match = {} THEN NULL ELSE s[Least(match)]

\* _slist_find: the result is at iter or behind it.
InFind ==
  pc = "find" =>
    /\ want = Contents
    /\ \E p \in 1..(Len(seq) + 1) : prev = ItemAt(seq, p) /\ wantRet = FoundFrom(want, seq, p, key)

\* slist_free: the items from iter on are still there and linked.
InFree ==
  pc = "free" =>
    /\ want = <<>> /\ wantRet = NULL
    /\ \E p \in 1..(Len(seq) + 1) :
         /\ prev = ItemAt(seq, p) /\ heap = {seq[i] : i \in p..Len(seq)}
         /\ \A i \in p..Len(seq) : next[seq[i]] = ItemAt(seq, i + 1)

IndInv == /\ TypeOK /\ Shape
          /\ Owned(data, heap, given, freed, popped)
          /\ InSorted /\ InRemove /\ InRemoveByData /\ InFind /\ InFree
          /\ MatchesReference

\* What the invariant says of the items and their data outside slist_free.
LEMMA Basics ==
  ASSUME IndInv, pc # "free"
  PROVE  /\ seq \in Seq(Node) /\ Len(seq) \in Nat /\ Distinct(seq) /\ Linked(next, seq)
         /\ InList = Items(seq) /\ Items(seq) \subseteq heap /\ Items(seq) \subseteq Node
         /\ \A n \in Items(seq) : data[n] \in Datum
         /\ Contents = DataOf(data, seq) /\ Contents \in Seq(Datum) /\ Len(Contents) = Len(seq)
         /\ \A i \in 1..Len(seq) : /\ Contents[i] = data[seq[i]] /\ seq[i] \in Items(seq)
                                   /\ seq[i] \in Node /\ seq[i] # NULL /\ seq[i] # HEAD
<1>1. seq \in Seq(Node) /\ Len(seq) \in Nat /\ Distinct(seq) /\ Linked(next, seq)
  BY DEF IndInv, TypeOK, Shape
<1>2. InList = Items(seq)
  BY DEF InList, Items
<1>3. Items(seq) \subseteq heap
  BY <1>2 DEF IndInv, Shape, InSorted
<1>4. \A n \in Items(seq) : data[n] \in Datum
  BY <1>3 DEF IndInv, Owned
<1>5. Contents = DataOf(data, seq)
  BY DEF Contents, DataOf
<1>6. /\ Contents \in Seq(Datum) /\ Len(Contents) = Len(seq)
      /\ \A i \in 1..Len(seq) : Contents[i] = data[seq[i]]
  BY <1>1, <1>4, <1>5, DataItems
<1>7. \A i \in 1..Len(seq) : seq[i] \in Node /\ seq[i] # NULL /\ seq[i] # HEAD /\ seq[i] \in Items(seq)
  BY <1>1, SListAssumption DEF Items
<1>8. Items(seq) \subseteq Node
  BY <1>1 DEF Items
<1> QED BY <1>1, <1>2, <1>3, <1>4, <1>5, <1>6, <1>7, <1>8

\* A key is a number; an object's is its second part.
LEMMA KeyOfDatum ==
  /\ \A d \in Datum : KeyOf(d) \in Nat
  /\ \A g \in Nat, k \in Keys : KeyOf(<<g, k>>) = k /\ <<g, k>> \in Datum /\ <<g, k>> # NULL
<1>1. ASSUME NEW d \in Datum PROVE KeyOf(d) \in Nat
  <2>1. CASE d = NULL
    BY <2>1 DEF KeyOf
  <2>2. CASE d \in Nat \X Keys
    <3>1. d[2] \in Nat /\ d # NULL
      BY <2>2, SListAssumption
    <3> QED BY <3>1 DEF KeyOf
  <2> QED BY <2>1, <2>2 DEF Datum
<1>2. ASSUME NEW g \in Nat, NEW k \in Keys
      PROVE  KeyOf(<<g, k>>) = k /\ <<g, k>> \in Datum /\ <<g, k>> # NULL
  <2>1. <<g, k>> \in Nat \X Keys
    OBVIOUS
  <2>2. <<g, k>> # NULL
    BY <2>1, SListAssumption
  <2> QED BY <2>1, <2>2 DEF KeyOf, Datum
<1> QED BY <1>1, <1>2

\* A call has returned.
LEMMA AfterCall ==
  ASSUME TypeOK', Shape', Owned(data', heap', given', freed', popped'),
         pc' = "idle", Contents' = want', ret' = wantRet'
  PROVE  IndInv'
BY DEF IndInv, InSorted, InRemove, InRemoveByData, InFind, InFree, MatchesReference

\* The item n has been linked in at p.
LEMMA Inserted ==
  ASSUME IndInv, pc # "free", alive, alive', pc' = "idle",
         NEW n \in Node \ Items(seq), NEW p \in 1..(Len(seq) + 1),
         seq' \in Seq(Node), IsInsert(seq', seq, p, n), LinksIn(next', next, seq, p, n),
         head' = IF p = 1 THEN n ELSE head, tail' = IF p = Len(seq) + 1 THEN n ELSE tail,
         count' = count + 1, heap' = Items(seq) \cup {n},
         \A m \in Items(seq) : data'[m] = data[m], data'[n] \in Datum
  PROVE  /\ Shape' /\ Contents' \in Seq(Datum)
         /\ IsInsert(Contents', Contents, p, data'[n])
<1>1. /\ seq \in Seq(Node) /\ Distinct(seq) /\ Linked(next, seq)
      /\ \A m \in Items(seq) : data[m] \in Datum
      /\ Contents = DataOf(data, seq)
  BY Basics
<1>2. Distinct(seq)' /\ Items(seq)' = Items(seq) \cup {n}
  <2>1. Distinct(seq') /\ Items(seq') = Items(seq) \cup {n}
    BY <1>1, InsertDistinct
  <2> QED BY <2>1 DEF Distinct, Items
<1>3. Linked(next', seq')
  BY <1>1, InsertLinked
<1>4. Describes(head', tail', count', seq')
  <2>1. Describes(head, tail, count, seq)
    BY DEF IndInv, Shape
  <2> QED BY <1>1, <2>1, InsertDescribes
<1>5. heap' = InList'
  BY <1>2 DEF InList, Items
<1>6. Shape'
  BY <1>2, <1>3, <1>4, <1>5 DEF Shape, Linked, Describes, ItemAt
<1>7. \A m \in Items(seq') : data'[m] \in Datum
  BY <1>1, <1>2 DEF Items
<1>8. Contents' = DataOf(data', seq')
  BY DEF Contents, DataOf
<1>9. Contents' \in Seq(Datum)
  BY <1>7, <1>8, DataItems
<1>10. IsInsert(DataOf(data', seq'), DataOf(data, seq), p, data'[n])
  BY <1>1, <1>7, DataInsert
<1> QED BY <1>1, <1>6, <1>8, <1>9, <1>10

\* The item at p has been unlinked and given back.
LEMMA Removed ==
  ASSUME IndInv, pc \notin {"sorted", "free"}, alive, alive', pc' \notin {"sorted", "free"},
         NEW p \in 1..Len(seq), seq' \in Seq(Node), IsWithout(seq', seq, p),
         LinksOut(next', next, seq, p),
         head' = IF p = 1 THEN ItemAt(seq, 2) ELSE head,
         tail' = IF p = Len(seq) THEN IF p = 1 THEN NULL ELSE seq[p - 1] ELSE tail,
         count' = count - 1, heap' = heap \ {seq[p]}, data' = [data EXCEPT ![seq[p]] = FREED],
         given' = given,
         Leave(Id(data[seq[p]]), freed, popped, freed', popped')
  PROVE  /\ Shape' /\ Owned(data', heap', given', freed', popped')
         /\ Contents' \in Seq(Datum) /\ IsWithout(Contents', Contents, p)
         /\ \A i \in 1..(p - 1) : seq'[i] = seq[i] /\ data'[seq'[i]] = data[seq[i]]
<1>1. /\ seq \in Seq(Node) /\ Distinct(seq) /\ Linked(next, seq)
      /\ \A m \in Items(seq) : data[m] \in Datum
      /\ Contents = DataOf(data, seq) /\ seq[p] \in Items(seq)
  BY Basics
<1>2. Distinct(seq') /\ Items(seq') = Items(seq) \ {seq[p]}
  BY <1>1, WithoutDistinct
<1>3. Linked(next', seq')
  BY <1>1, WithoutLinked
<1>4. Describes(head', tail', count', seq')
  <2>1. Describes(head, tail, count, seq)
    BY DEF IndInv, Shape
  <2> QED BY <1>1, <2>1, WithoutDescribes
<1>5. heap = Items(seq) /\ heap' = InList'
  <2>1. heap = Items(seq)
    BY DEF IndInv, Shape, InList, Items
  <2> QED BY <1>2, <2>1 DEF InList, Items
<1>6. Shape'
  BY <1>2, <1>3, <1>4, <1>5 DEF Shape, Linked, Describes, ItemAt, Distinct
<1>7. data \in [Node -> Datum \cup {FREED}]
  BY DEF IndInv, TypeOK
<1>8. \A m \in Items(seq) : m # seq[p] => data'[m] = data[m]
  BY <1>1, <1>7 DEF Items
<1>9. \A m \in Items(seq') : data'[m] = data[m] /\ data'[m] \in Datum
  BY <1>1, <1>2, <1>8
<1>10. Owned(data', heap', given', freed', popped')
  <2>1. seq[p] \in heap /\ Drops(seq[p], data, heap, data', heap')
    BY <1>1, <1>5, <1>8 DEF Drops
  <2>2. Owned(data, heap, given, freed, popped)
    BY DEF IndInv
  <2>3. Owned(data', heap', given, freed', popped')
    BY <2>1, <2>2, OwnedGone
  <2> QED BY <2>3
<1>11. Contents' = DataOf(data', seq')
  BY DEF Contents, DataOf
<1>12. Contents' \in Seq(Datum)
  BY <1>9, <1>11, DataItems
<1>13. IsWithout(DataOf(data', seq'), DataOf(data, seq), p)
  BY <1>1, <1>9, DataWithout
<1>14. ASSUME NEW i \in 1..(p - 1) PROVE seq'[i] = seq[i] /\ data'[seq'[i]] = data[seq[i]]
  <2>1. i \in 1..Len(seq') /\ seq'[i] = seq[i] /\ Len(seq') \in Nat
    BY <1>1 DEF IsWithout
  <2>2. seq'[i] \in Items(seq')
    BY <2>1 DEF Items
  <2> QED BY <1>9, <2>1, <2>2
<1> QED BY <1>1, <1>6, <1>10, <1>11, <1>12, <1>13, <1>14

\* Where ptr points to when it is p items behind &list->head.
LEMMA AtPtr ==
  ASSUME IndInv, alive, pc # "free", NEW p \in 0..Len(seq), PtrAt(p)
  PROVE  /\ Cur = ItemAt(seq, p + 1) /\ Place = p + 1 /\ head = ItemAt(seq, 1)
         /\ p = Len(seq) => Cur = NULL
         /\ p < Len(seq) => p + 1 \in 1..Len(seq) /\ Cur = seq[p + 1] /\ Cur \in Node
<1>1. /\ seq \in Seq(Node) /\ Len(seq) \in Nat /\ Distinct(seq) /\ Linked(next, seq)
      /\ \A i \in 1..Len(seq) : seq[i] \in Node /\ seq[i] # NULL /\ seq[i] # HEAD
  BY Basics
<1>2. head = ItemAt(seq, 1)
  <2>1. Describes(head, tail, count, seq)
    BY DEF IndInv, Shape
  <2> QED BY <1>1, <2>1 DEF Describes, ItemAt
<1>3. Cur = ItemAt(seq, p + 1) /\ Place = p + 1
  <2>1. CASE p = 0
    BY <1>2, <2>1 DEF PtrAt, Cur, Place
  <2>2. CASE p # 0
    <3>1. p \in 1..Len(seq) /\ ptr = seq[p] /\ ptr # HEAD
      BY <1>1, <2>2 DEF PtrAt
    <3>2. IndexOf(seq, ptr) = p
      BY <1>1, <3>1, PlaceOf
    <3>3. next[seq[p]] = ItemAt(seq, p + 1)
      BY <1>1, <3>1 DEF Linked
    <3> QED BY <3>1, <3>2, <3>3 DEF Cur, Place
  <2> QED BY <2>1, <2>2
<1>4. p < Len(seq) => p + 1 \in 1..Len(seq) /\ ItemAt(seq, p + 1) = seq[p + 1]
  BY <1>1 DEF ItemAt
<1>5. p = Len(seq) => ItemAt(seq, p + 1) = NULL
  BY <1>1 DEF ItemAt
<1> QED BY <1>1, <1>2, <1>3, <1>4, <1>5

\* What the list is between the calls.
LEMMA Idle ==
  ASSUME IndInv, pc = "idle"
  PROVE  /\ heap = Items(seq) /\ want = Contents /\ ret = wantRet
         /\ alive => Describes(head, tail, count, seq)
         /\ Owned(data, Items(seq), given, freed, popped)
<1>1. heap = Items(seq)
  BY DEF IndInv, Shape, InList, Items
<1> QED BY <1>1 DEF IndInv, Shape, MatchesReference

\* A new item for the next object.
LEMMA NewItem ==
  ASSUME IndInv, pc = "idle", NEW n \in Node, NEW k \in Keys, ItemNew(n, Object(k)), Accept
  PROVE  /\ n \notin Items(seq) /\ heap' = Items(seq) \cup {n}
         /\ data' \in [Node -> Datum \cup {FREED}] /\ heap' \in SUBSET Node /\ given' \in 0..MaxInserts
         /\ data'[n] = Object(k) /\ data'[n] \in Datum /\ data'[n] \in Nat \X Keys
         /\ KeyOf(Object(k)) = k
         /\ \A m \in Items(seq) : data'[m] = data[m]
         /\ Owned(data', heap', given', freed', popped')
<1>1. /\ data \in [Node -> Datum \cup {FREED}] /\ heap \in SUBSET Node
      /\ given \in Nat /\ MaxInserts \in Nat /\ given \in 0..MaxInserts
  BY SListAssumption DEF IndInv, TypeOK
<1>2. heap = Items(seq) /\ Owned(data, Items(seq), given, freed, popped)
  BY Idle
<1>3. n \notin Items(seq) /\ heap' = Items(seq) \cup {n} /\ heap' \in SUBSET Node
  BY <1>1, <1>2 DEF ItemNew
<1>4. /\ Object(k) \in Datum /\ Object(k) \in Nat \X Keys /\ KeyOf(Object(k)) = k
      /\ Object(k) = <<given + 1, k>>
  <2>1. given + 1 \in Nat /\ <<given + 1, k>> \in Nat \X Keys
    BY <1>1
  <2> QED BY <2>1, KeyOfDatum DEF Object
<1> HIDE DEF Object
<1>5. data' = [data EXCEPT ![n] = Object(k)]
  BY DEF ItemNew
<1>6. data' \in [Node -> Datum \cup {FREED}] /\ data'[n] = Object(k) /\ \A m \in Items(seq) : data'[m] = data[m]
  BY <1>1, <1>2, <1>3, <1>4, <1>5
<1>7. given' = given + 1 /\ freed' = freed /\ popped' = popped /\ given' \in 0..MaxInserts
  BY <1>1 DEF Accept
<1>8. Owned(data', Items(seq) \cup {n}, given + 1, freed, popped)
  BY <1>1, <1>2, <1>3, <1>4, <1>6, OwnedNew
<1>9. Owned(data', heap', given', freed', popped')
  BY <1>3, <1>7, <1>8
<1> QED BY <1>3, <1>4, <1>6, <1>7, <1>9

\* slist_append and the first case of slist_insert_sorted.
LEMMA Appended ==
  ASSUME IndInv, NEW n \in Node, NEW k \in Keys, AtOnce(n), HasRoom, AppendItem(n, Object(k)), Accept,
         alive' = alive
  PROVE  /\ TypeOK' /\ Shape' /\ pc' = "idle" /\ ret' = n
         /\ Owned(data', heap', given', freed', popped')
         /\ Contents' = Append(Contents, Object(k))
<1>1. alive /\ pc = "idle" /\ pc' = "idle" /\ ret' = n /\ UNCHANGED locals
  BY DEF AtOnce, locals
<1>2. /\ n \notin Items(seq) /\ heap' = Items(seq) \cup {n}
      /\ data' \in [Node -> Datum \cup {FREED}] /\ heap' \in SUBSET Node /\ given' \in 0..MaxInserts
      /\ data'[n] = Object(k) /\ data'[n] \in Datum
      /\ \A m \in Items(seq) : data'[m] = data[m]
      /\ Owned(data', heap', given', freed', popped')
  BY <1>1, NewItem DEF AppendItem
<1>3. /\ seq \in Seq(Node) /\ Len(seq) \in Nat /\ Distinct(seq) /\ Contents \in Seq(Datum)
      /\ Len(Contents) = Len(seq)
      /\ \A i \in 1..Len(seq) : seq[i] \in Items(seq) /\ seq[i] \in Node /\ seq[i] # NULL
  BY <1>1, Basics
<1>4. /\ count = Len(seq) /\ head = (IF seq = <<>> THEN NULL ELSE seq[1])
      /\ tail = (IF seq = <<>> THEN NULL ELSE seq[Len(seq)])
  BY <1>1, Idle DEF Describes
<1>5. seq' = Append(seq, n) /\ seq' \in Seq(Node) /\ IsInsert(seq', seq, Len(seq) + 1, n)
  BY <1>3, AppendIsInsert DEF AppendItem
<1>6. next \in [Node -> Node \cup {NULL, FREED}]
  BY DEF IndInv, TypeOK
<1>7. /\ next' \in [Node -> Node \cup {NULL, FREED}] /\ LinksIn(next', next, seq, Len(seq) + 1, n)
      /\ head' = IF Len(seq) + 1 = 1 THEN n ELSE head
  <2>1. CASE seq = <<>>
    BY <1>2, <1>3, <1>4, <1>6, <2>1 DEF AppendItem, LinksIn, ItemAt
  <2>2. CASE seq # <<>>
    <3>1. Len(seq) \in 1..Len(seq) /\ head # NULL /\ tail = seq[Len(seq)] /\ tail # n
      BY <1>2, <1>3, <1>4, <2>2
    <3>2. next' = [next EXCEPT ![n] = NULL, ![tail] = n] /\ head' = head
      BY <3>1 DEF AppendItem
    <3>3. \A i \in 1..Len(seq) : i # Len(seq) => seq[i] # tail /\ seq[i] # n
      BY <1>2, <1>3, <3>1 DEF Distinct
    <3> QED BY <1>3, <1>6, <3>1, <3>2, <3>3 DEF LinksIn, ItemAt
  <2> QED BY <2>1, <2>2
<1>8. tail' = n /\ count' = count + 1
  BY DEF AppendItem
<1> DEFINE p == Len(seq) + 1
<1>9. /\ p \in 1..(Len(seq) + 1) /\ IsInsert(seq', seq, p, n) /\ LinksIn(next', next, seq, p, n)
      /\ head' = (IF p = 1 THEN n ELSE head) /\ tail' = (IF p = Len(seq) + 1 THEN n ELSE tail)
      /\ p = Len(Contents) + 1
  BY <1>3, <1>5, <1>7, <1>8
<1> HIDE DEF p
<1>10. Shape' /\ Contents' \in Seq(Datum) /\ IsInsert(Contents', Contents, p, data'[n])
  BY <1>1, <1>2, <1>5, <1>8, <1>9, Inserted
<1>11. Contents' = Append(Contents, Object(k))
  <2>1. /\ Append(Contents, Object(k)) \in Seq(Datum)
        /\ IsInsert(Append(Contents, Object(k)), Contents, p, Object(k))
    BY <1>2, <1>3, <1>9, AppendIsInsert
  <2>2. p \in 1..(Len(Contents) + 1)
    BY <1>3, <1>9
  <2>3. IsInsert(Contents', Contents, p, Object(k)) /\ Contents' \in Seq(Datum)
    BY <1>2, <1>10
  <2> QED BY ONLY <1>3, <2>1, <2>2, <2>3, InsertUnique
<1>12. TypeOK'
  <2>1. head' \in Node \cup {NULL} /\ tail' \in Node \cup {NULL} /\ count' \in 0..SIZE_MAX
    BY <1>7, <1>8, SListAssumption DEF IndInv, TypeOK, HasRoom
  <2> QED BY <1>1, <1>2, <1>5, <1>7, <2>1 DEF IndInv, TypeOK, locals
<1> QED BY <1>1, <1>2, <1>10, <1>11, <1>12

\* slist_append: want' = Append(want, ...).
LEMMA Append1Step ==
  ASSUME IndInv, NEW n \in Node, NEW k \in Keys, Append1(n, k)
  PROVE  IndInv'
<1>1. /\ TypeOK' /\ Shape' /\ pc' = "idle" /\ ret' = n
      /\ Owned(data', heap', given', freed', popped')
      /\ Contents' = Append(Contents, Object(k))
  BY Appended DEF Append1
<1>2. want = Contents /\ want' = Append(want, Object(k)) /\ wantRet' = n
  BY Idle DEF Append1, AtOnce
<1> QED BY <1>1, <1>2, AfterCall

\* slist_insert_sorted behind the last item: that is where the reference puts it.
LEMMA InsertSortedLastStep ==
  ASSUME IndInv, NEW n \in Node, NEW k \in Keys, InsertSortedLast(n, k)
  PROVE  IndInv'
<1>1. /\ TypeOK' /\ Shape' /\ pc' = "idle" /\ ret' = n
      /\ Owned(data', heap', given', freed', popped')
      /\ Contents' = Append(Contents, Object(k))
  BY Appended DEF InsertSortedLast
<1>2. want = Contents /\ want' = SortedInsert(want, Object(k)) /\ wantRet' = n /\ pc = "idle" /\ alive
  BY Idle DEF InsertSortedLast, AtOnce
<1>3. KeyOf(Object(k)) = k
  BY <1>2, NewItem DEF InsertSortedLast, AppendItem
<1>4. Contents = <<>> \/ KeyOf(Contents[Len(Contents)]) <= k
  <2>1. /\ Len(seq) \in Nat /\ Contents \in Seq(Datum) /\ Len(Contents) = Len(seq)
        /\ \A i \in 1..Len(seq) : Contents[i] = data[seq[i]]
    BY <1>2, Basics
  <2>2. count = Len(seq) /\ tail = (IF seq = <<>> THEN NULL ELSE seq[Len(seq)])
    BY <1>2, Idle DEF Describes
  <2>3. CASE Len(seq) = 0
    BY <2>1, <2>3
  <2>4. CASE Len(seq) # 0
    <3>1. Len(seq) \in 1..Len(seq) /\ seq # <<>> /\ tail = seq[Len(seq)] /\ count # 0
      BY <2>1, <2>2, <2>4
    <3>2. KeyOf(data[tail]) <= k
      BY <3>1 DEF InsertSortedLast, BecomesLast
    <3> QED BY <2>1, <3>1, <3>2
  <2> QED BY <2>3, <2>4
<1>5. want' = Append(Contents, Object(k))
  BY <1>2, <1>3, <1>4 DEF SortedInsert
<1> QED BY <1>1, <1>2, <1>5, AfterCall

\* slist_prepend: head takes the new item, and tail too if it is the only one.
LEMMA PrependStep ==
  ASSUME IndInv, NEW n \in Node, NEW k \in Keys, Prepend(n, k)
  PROVE  IndInv'
<1>1. alive /\ alive' /\ pc = "idle" /\ pc' = "idle" /\ ret' = n /\ UNCHANGED locals
  BY DEF Prepend, AtOnce, locals
<1>2. /\ n \notin Items(seq) /\ heap' = Items(seq) \cup {n}
      /\ data' \in [Node -> Datum \cup {FREED}] /\ heap' \in SUBSET Node /\ given' \in 0..MaxInserts
      /\ data'[n] = Object(k) /\ data'[n] \in Datum
      /\ \A m \in Items(seq) : data'[m] = data[m]
      /\ Owned(data', heap', given', freed', popped')
  BY <1>1, NewItem DEF Prepend
<1>3. /\ seq \in Seq(Node) /\ Len(seq) \in Nat /\ Contents \in Seq(Datum)
      /\ \A i \in 1..Len(seq) : seq[i] \in Items(seq) /\ seq[i] \in Node /\ seq[i] # NULL
  BY <1>1, Basics
<1>4. /\ count = Len(seq) /\ head = (IF seq = <<>> THEN NULL ELSE seq[1])
      /\ tail = (IF seq = <<>> THEN NULL ELSE seq[Len(seq)]) /\ want = Contents
  BY <1>1, Idle DEF Describes
<1>5. seq' \in Seq(Node) /\ IsInsert(seq', seq, 1, n)
  BY <1>3, PrependIsInsert DEF Prepend
<1>6. next \in [Node -> Node \cup {NULL, FREED}] /\ head \in Node \cup {NULL}
  BY DEF IndInv, TypeOK
<1>7. head' = n /\ count' = count + 1 /\ next' = [next EXCEPT ![n] = head]
  BY DEF Prepend
<1>8. next' \in [Node -> Node \cup {NULL, FREED}] /\ LinksIn(next', next, seq, 1, n)
  <2>1. \A i \in 1..Len(seq) : seq[i] # n
    BY <1>2, <1>3
  <2>2. head = ItemAt(seq, 1)
    BY <1>3, <1>4 DEF ItemAt
  <2> QED BY <1>3, <1>6, <1>7, <2>1, <2>2 DEF LinksIn
<1>9. tail' = IF 1 = Len(seq) + 1 THEN n ELSE tail
  <2>1. CASE seq = <<>>
    BY <1>4, <2>1 DEF Prepend
  <2>2. CASE seq # <<>>
    BY <1>3, <1>4, <2>2 DEF Prepend
  <2> QED BY <2>1, <2>2
<1> DEFINE p == 1
<1>10. /\ p \in 1..(Len(seq) + 1) /\ IsInsert(seq', seq, p, n) /\ LinksIn(next', next, seq, p, n)
       /\ head' = (IF p = 1 THEN n ELSE head) /\ tail' = (IF p = Len(seq) + 1 THEN n ELSE tail)
       /\ p \in 1..(Len(Contents) + 1)
  BY <1>3, <1>5, <1>7, <1>8, <1>9
<1>11. /\ <<Object(k)>> \o Contents \in Seq(Datum)
       /\ IsInsert(<<Object(k)>> \o Contents, Contents, p, Object(k))
  BY <1>2, <1>3, PrependIsInsert
<1> HIDE DEF p
<1>12. Shape' /\ Contents' \in Seq(Datum) /\ IsInsert(Contents', Contents, p, data'[n])
  BY <1>1, <1>2, <1>5, <1>7, <1>10, Inserted
<1>13. Contents' = want'
  <2>1. IsInsert(Contents', Contents, p, Object(k)) /\ Contents' \in Seq(Datum)
    BY <1>2, <1>12
  <2>2. Contents' = <<Object(k)>> \o Contents
    BY ONLY <1>3, <1>10, <1>11, <2>1, InsertUnique
  <2> QED BY <1>4, <2>2 DEF Prepend
<1>14. TypeOK'
  <2>1. head' \in Node \cup {NULL} /\ tail' \in Node \cup {NULL} /\ count' \in 0..SIZE_MAX
    BY <1>7, <1>9, SListAssumption DEF IndInv, TypeOK, HasRoom, Prepend
  <2> QED BY <1>1, <1>2, <1>5, <1>8, <2>1 DEF IndInv, TypeOK, locals
<1> QED BY <1>1, <1>2, <1>12, <1>13, <1>14, AfterCall DEF Prepend

\* A step that leaves the items alone.
LEMMA SameList ==
  ASSUME IndInv, UNCHANGED <<alive, nodes, list, seq, owners>>,
         pc \notin {"sorted", "free"}, pc' \notin {"sorted", "free"}, alive \/ pc' = "idle"
  PROVE  /\ Shape' /\ Owned(data', heap', given', freed', popped') /\ Contents' = Contents
         /\ next' = next /\ data' = data /\ heap' = heap /\ head' = head /\ tail' = tail
         /\ count' = count /\ seq' = seq /\ given' = given /\ alive' = alive
<1>1. /\ next' = next /\ data' = data /\ heap' = heap /\ head' = head /\ tail' = tail
      /\ count' = count /\ seq' = seq /\ given' = given /\ alive' = alive /\ freed' = freed /\ popped' = popped
  BY DEF nodes, list, owners
<1>2. Owned(data', heap', given', freed', popped')
  BY <1>1 DEF IndInv
<1>3. Contents' = Contents /\ InList' = InList
  BY <1>1 DEF Contents, InList
<1>4. Shape'
  BY <1>1, <1>3 DEF IndInv, Shape, Distinct, Linked, Describes, ItemAt
<1> QED BY <1>1, <1>2, <1>3, <1>4

\* A call that changes nothing and returns at once.
LEMMA OnlyReturns ==
  ASSUME IndInv, pc = "idle", UNCHANGED <<alive, nodes, list, seq, owners, locals>>,
         want' = want, ret' = wantRet'
  PROVE  IndInv'
<1>1. pc' = "idle" /\ key' = key /\ item' = item /\ ptr' = ptr /\ prev' = prev
  BY DEF locals
<1>2. /\ Shape' /\ Owned(data', heap', given', freed', popped') /\ Contents' = Contents
      /\ next' = next /\ data' = data /\ heap' = heap /\ head' = head /\ tail' = tail
      /\ count' = count /\ seq' = seq /\ given' = given /\ alive' = alive
  BY <1>1, SameList
<1>3. TypeOK'
  BY <1>1, <1>2 DEF IndInv, TypeOK
<1>4. Contents' = want'
  BY <1>2, Idle
<1> QED BY <1>1, <1>2, <1>3, <1>4, AfterCall

\* The inserting functions on a full list.
LEMMA RefuseStep ==
  ASSUME IndInv, Refuse
  PROVE  IndInv'
BY OnlyReturns DEF Refuse, AtOnce

\* stack_pop on an empty list.
LEMMA PopEmptyStep ==
  ASSUME IndInv, PopEmpty
  PROVE  IndInv'
<1>1. pc = "idle" /\ alive /\ count = 0
  BY DEF PopEmpty, AtOnce
<1>2. want = <<>>
  <2>1. count = Len(seq) /\ want = Contents /\ Len(Contents) = Len(seq) /\ Contents \in Seq(Datum)
    BY <1>1, Idle, Basics DEF Describes
  <2>2. \A s \in Seq(Datum) : Len(s) = 0 => s = <<>>
    BY EmptySeq
  <2> QED BY <1>1, <2>1, <2>2
<1> QED BY <1>1, <1>2, OnlyReturns DEF PopEmpty, AtOnce

\* stack_head: the datum of the first item is the first datum.
LEMMA StackHeadStep ==
  ASSUME IndInv, StackHead
  PROVE  IndInv'
<1>1. pc = "idle" /\ alive /\ ret' = (IF head = NULL THEN NULL ELSE data[head])
  BY DEF StackHead, AtOnce
<1>2. /\ want = Contents /\ Len(Contents) = Len(seq) /\ Contents \in Seq(Datum) /\ Len(seq) \in Nat
      /\ head = (IF seq = <<>> THEN NULL ELSE seq[1]) /\ seq \in Seq(Node)
      /\ \A i \in 1..Len(seq) : Contents[i] = data[seq[i]] /\ seq[i] # NULL
  BY <1>1, Idle, Basics DEF Describes
<1>3. ret' = IF want = <<>> THEN NULL ELSE Head(want)
  <2>1. CASE seq = <<>>
    BY <1>1, <1>2, <2>1
  <2>2. CASE seq # <<>>
    BY <1>1, <1>2, <2>2
  <2> QED BY <2>1, <2>2
<1>4. ret' = wantRet'
  BY <1>3 DEF StackHead
<1> QED BY <1>1, <1>4, OnlyReturns DEF StackHead, AtOnce

\* slist_insert_sorted before the last item: the search starts at &list->head.
LEMMA InsertSortedSearchStep ==
  ASSUME IndInv, NEW n \in Node, NEW k \in Keys, InsertSortedSearch(n, k)
  PROVE  IndInv'
<1>1. /\ alive /\ pc = "idle" /\ pc' = "sorted" /\ key' = k /\ item' = n /\ ptr' = HEAD /\ prev' = NULL
      /\ alive' = alive /\ head' = head /\ tail' = tail /\ count' = count /\ seq' = seq
      /\ count < SIZE_MAX /\ next' = [next EXCEPT ![n] = NULL]
      /\ want' = SortedInsert(want, Object(k)) /\ wantRet' = n
  BY DEF InsertSortedSearch, Enter, list, HasRoom
<1>2. /\ n \notin Items(seq) /\ heap' = Items(seq) \cup {n}
      /\ data' \in [Node -> Datum \cup {FREED}] /\ heap' \in SUBSET Node /\ given' \in 0..MaxInserts
      /\ data'[n] = Object(k) /\ data'[n] \in Nat \X Keys /\ KeyOf(Object(k)) = k
      /\ \A m \in Items(seq) : data'[m] = data[m]
      /\ Owned(data', heap', given', freed', popped')
  BY <1>1, NewItem DEF InsertSortedSearch
<1>3. /\ seq \in Seq(Node) /\ Len(seq) \in Nat /\ Distinct(seq) /\ Linked(next, seq) /\ InList = Items(seq)
      /\ \A i \in 1..Len(seq) : seq[i] \in Items(seq) /\ data[seq[i]] \in Datum
  BY <1>1, Basics
<1>4. /\ count = Len(seq) /\ tail = (IF seq = <<>> THEN NULL ELSE seq[Len(seq)])
      /\ want = Contents /\ Describes(head, tail, count, seq)
  BY <1>1, Idle DEF Describes
<1>5. next' \in [Node -> Node \cup {NULL, FREED}] /\ \A i \in 1..Len(seq) : next'[seq[i]] = next[seq[i]]
  <2>1. next \in [Node -> Node \cup {NULL, FREED}]
    BY DEF IndInv, TypeOK
  <2> QED BY <1>1, <1>2, <1>3, <2>1
<1>6. TypeOK'
  BY <1>1, <1>2, <1>5 DEF IndInv, TypeOK
<1>7. Shape'
  <2>1. Linked(next', seq)
    BY <1>3, <1>5 DEF Linked
  <2> QED BY <1>1, <1>3, <1>4, <2>1 DEF Shape, Linked, Describes, Distinct, ItemAt
<1>8. seq # <<>> /\ KeyOf(data[seq[Len(seq)]]) > k
  <2>1. count # 0 /\ ~(KeyOf(data[tail]) <= k)
    BY DEF InsertSortedSearch, BecomesLast
  <2>2. seq # <<>> /\ Len(seq) \in 1..Len(seq) /\ tail = seq[Len(seq)]
    BY <1>3, <1>4, <2>1
  <2>3. KeyOf(data[tail]) \in Nat /\ k \in Nat
    BY <1>3, <2>2, KeyOfDatum, SListAssumption
  <2> QED BY <2>1, <2>2, <2>3
<1>9. Contents' = Contents
  BY <1>1, <1>2, <1>3 DEF Contents
<1>10. InSorted'
  <2>1. item' \in Node \ InList' /\ heap' = InList' \cup {item'}
    BY <1>1, <1>2, <1>3 DEF InList, Items
  <2>2. Len(seq) \in 1..Len(seq) /\ data'[seq[Len(seq)]] = data[seq[Len(seq)]]
    BY <1>2, <1>3, <1>8
  <2>3. want' = SortedInsert(Contents', data'[item'])
    BY <1>1, <1>2, <1>4, <1>9
  <2>4. PtrAt(0)' /\ \A i \in 1..0 : KeyOf(data[seq[i]])' < key'
    BY <1>1 DEF PtrAt
  <2> QED BY <1>1, <1>2, <1>3, <1>8, <2>1, <2>2, <2>3, <2>4 DEF InSorted
<1> QED BY <1>1, <1>2, <1>6, <1>7, <1>10 DEF IndInv, InRemove, InRemoveByData, InFind, InFree, MatchesReference

\* Where the reference puts a datum that is smaller than the last one.
LEMMA SortedPlace ==
  ASSUME NEW s \in Seq(Datum), NEW d \in Datum, s # <<>>, KeyOf(s[Len(s)]) > KeyOf(d),
         NEW p \in 1..Len(s), KeyOf(s[p]) >= KeyOf(d), \A i \in 1..(p - 1) : KeyOf(s[i]) < KeyOf(d)
  PROVE  SortedInsert(s, d) = InsertBefore(s, p, d)
<1>1. KeyOf(d) \in Nat /\ \A i \in 1..Len(s) : KeyOf(s[i]) \in Nat
  BY KeyOfDatum
<1> DEFINE I == {i \in 1..Len(s) : KeyOf(s[i]) >= KeyOf(d)}
<1>2. I \in SUBSET Nat /\ p \in I /\ \A j \in I : p <= j
  BY <1>1
<1>3. SortedInsert(s, d) = InsertBefore(s, Least(I), d)
  <2>1. Len(s) \in 1..Len(s)
    OBVIOUS
  <2>2. ~(KeyOf(s[Len(s)]) <= KeyOf(d))
    BY <1>1, <2>1
  <2> QED BY <2>2 DEF SortedInsert
<1> HIDE DEF I
<1>4. Least(I) = p
  BY <1>2, LeastOf
<1> QED BY <1>3, <1>4

\* One iteration of _slist_prepend_new_sorted: the loop does not run off the
\* end, and stops where the reference puts the item.
LEMMA SortedStepStep ==
  ASSUME IndInv, SortedStep
  PROVE  IndInv'
<1>1. pc = "sorted" /\ alive /\ pc # "free"
  BY DEF SortedStep, IndInv, Shape
<1>2. /\ item \in Node \ InList /\ heap = InList \cup {item}
      /\ seq # <<>> /\ count < SIZE_MAX
      /\ data[item] \in Nat \X Keys /\ KeyOf(data[item]) = key
      /\ KeyOf(data[seq[Len(seq)]]) > key
      /\ want = SortedInsert(Contents, data[item]) /\ wantRet = item
  BY <1>1 DEF IndInv, InSorted
<1>3. PICK p \in 0..Len(seq) : PtrAt(p) /\ \A i \in 1..p : KeyOf(data[seq[i]]) < key
  BY <1>1 DEF IndInv, InSorted
<1>4. /\ seq \in Seq(Node) /\ Len(seq) \in Nat /\ Distinct(seq) /\ Linked(next, seq) /\ InList = Items(seq)
      /\ Contents \in Seq(Datum) /\ Len(Contents) = Len(seq)
      /\ \A i \in 1..Len(seq) : /\ Contents[i] = data[seq[i]] /\ seq[i] \in Items(seq)
                                /\ seq[i] \in Node /\ seq[i] # NULL /\ seq[i] # HEAD
  BY <1>1, Basics
<1>5. \A i \in 1..Len(seq) : data[seq[i]] \in Datum /\ KeyOf(data[seq[i]]) \in Nat
  BY <1>1, Basics, KeyOfDatum
<1>6. key \in Nat
  BY SListAssumption DEF IndInv, TypeOK
<1>7. p # Len(seq)
  <2>1. Len(seq) \in 1..Len(seq)
    BY <1>2, <1>4
  <2>2. ~(KeyOf(data[seq[Len(seq)]]) < key)
    BY <1>2, <1>5, <1>6, <2>1
  <2> QED BY <1>3, <2>1, <2>2
<1>8. /\ p + 1 \in 1..Len(seq) /\ Cur = seq[p + 1] /\ Cur \in Node /\ Place = p + 1
      /\ Cur = ItemAt(seq, p + 1)
  BY <1>1, <1>3, <1>4, <1>7, AtPtr
<1>9. Cur # NULL
  BY <1>4, <1>8
<1>10. alive' /\ data' = data /\ heap' = heap /\ tail' = tail /\ given' = given /\ freed' = freed /\ popped' = popped
       /\ want' = want /\ wantRet' = wantRet
  BY <1>1 DEF SortedStep, spec, owners
<1>11. Owned(data', heap', given', freed', popped')
  BY <1>10 DEF IndInv
<1>12. CASE SortedHere
  <2>1. /\ Store(item, item, Cur) /\ count' = count + 1
        /\ seq' = InsertBefore(seq, Place, item) /\ Done(item)
    BY <1>9, <1>12 DEF SortedStep
  <2>2. pc' = "idle" /\ ret' = item /\ key' = 0 /\ item' = NULL /\ ptr' = HEAD /\ prev' = NULL
    BY <2>1 DEF Done
  <2> DEFINE q == p + 1
  <2>3. q \in 1..Len(seq) /\ q \in 1..(Len(seq) + 1) /\ q # Len(seq) + 1 /\ Place = q
    BY <1>4, <1>8
  <2>4. seq' \in Seq(Node) /\ IsInsert(seq', seq, q, item)
    BY <1>2, <1>4, <2>1, <2>3, InsertItems
  <2>5. /\ next' \in [Node -> Node \cup {NULL, FREED}] /\ LinksIn(next', next, seq, q, item)
        /\ head' = IF q = 1 THEN item ELSE head
    <3>1. next \in [Node -> Node \cup {NULL, FREED}]
      BY DEF IndInv, TypeOK
    <3>2. \A i \in 1..Len(seq) : seq[i] # item
      BY <1>2, <1>4
    <3>3. CASE p = 0
      <4>1. ptr = HEAD
        BY <1>3, <3>3 DEF PtrAt
      <4>2. head' = item /\ next' = [next EXCEPT ![item] = Cur]
        BY <2>1, <4>1 DEF Store
      <4> QED BY <1>2, <1>4, <1>8, <3>1, <3>2, <3>3, <4>2 DEF LinksIn
    <3>4. CASE p # 0
      <4>1. p \in 1..Len(seq) /\ ptr = seq[p] /\ ptr # HEAD /\ ptr \in Node /\ ptr # item
        BY <1>3, <1>4, <3>2, <3>4 DEF PtrAt
      <4>2. head' = head /\ next' = [next EXCEPT ![item] = Cur, ![ptr] = item]
        BY <2>1, <4>1 DEF Store
      <4>3. \A i \in 1..Len(seq) : i # p => seq[i] # ptr
        BY <1>4, <4>1 DEF Distinct
      <4>4. /\ next' \in [Node -> Node \cup {NULL, FREED}]
            /\ next'[item] = Cur /\ next'[ptr] = item
            /\ \A i \in 1..Len(seq) : i # p => next'[seq[i]] = next[seq[i]]
        BY <1>2, <1>4, <1>8, <3>1, <3>2, <4>1, <4>2, <4>3
      <4>5. q - 1 = p
        BY <1>4
      <4>6. LinksIn(next', next, seq, q, item)
        BY <1>8, <4>1, <4>4, <4>5 DEF LinksIn
      <4> QED BY <1>4, <3>4, <4>2, <4>4, <4>6
    <3> QED BY <3>3, <3>4
  <2>6. Contents \in Seq(Datum) /\ data[item] \in Datum
    BY <1>2, <1>4 DEF Datum
  <2>7. want = InsertBefore(Contents, q, data[item])
    <3>1. Contents # <<>> /\ Len(Contents) \in 1..Len(seq)
      BY <1>2, <1>4
    <3>2. KeyOf(Contents[Len(Contents)]) > KeyOf(data[item])
      BY <1>2, <1>4, <3>1
    <3>3. q \in 1..Len(Contents) /\ KeyOf(Contents[q]) >= KeyOf(data[item])
      BY <1>2, <1>4, <1>8, <1>12, <2>3 DEF SortedHere
    <3>4. \A i \in 1..(q - 1) : KeyOf(Contents[i]) < KeyOf(data[item])
      BY <1>2, <1>3, <1>4
    <3> HIDE DEF q
    <3>5. SortedInsert(Contents, data[item]) = InsertBefore(Contents, q, data[item])
      BY <2>6, <3>1, <3>2, <3>3, <3>4, SortedPlace
    <3> QED BY <1>2, <3>5
  <2> HIDE DEF q
  <2>8. Shape' /\ Contents' \in Seq(Datum) /\ IsInsert(Contents', Contents, q, data'[item])
    <3>1. tail' = (IF q = Len(seq) + 1 THEN item ELSE tail) /\ heap' = Items(seq) \cup {item}
      BY <1>2, <1>4, <1>10, <2>3
    <3>2. item \in Node \ Items(seq) /\ data'[item] \in Datum /\ \A m \in Items(seq) : data'[m] = data[m]
      BY <1>2, <1>4, <1>10, <2>6
    <3> QED BY <1>1, <1>10, <2>1, <2>2, <2>3, <2>4, <2>5, <3>1, <3>2, Inserted
  <2>9. Contents' = want'
    <3>1. q \in 1..(Len(Contents) + 1)
      BY <1>4, <2>3
    <3>2. want \in Seq(Datum) /\ IsInsert(want, Contents, q, data[item])
      BY <2>6, <2>7, <3>1, InsertItems
    <3>3. IsInsert(Contents', Contents, q, data[item]) /\ Contents' \in Seq(Datum)
      BY <1>10, <2>8
    <3>4. Contents' = want
      BY ONLY <2>6, <3>1, <3>2, <3>3, InsertUnique
    <3> QED BY <1>10, <3>4
  <2>10. TypeOK'
    <3>1. head' \in Node \cup {NULL} /\ count' \in 0..SIZE_MAX
      BY <1>2, <2>1, <2>5, SListAssumption DEF IndInv, TypeOK
    <3> QED BY <1>10, <2>2, <2>4, <2>5, <3>1 DEF IndInv, TypeOK
  <2> QED BY <1>2, <1>10, <1>11, <2>2, <2>8, <2>9, <2>10, AfterCall
<1>13. CASE ~SortedHere
  <2>1. /\ ptr' = Cur /\ next' = next /\ head' = head /\ count' = count /\ seq' = seq /\ ret' = ret
        /\ pc' = pc /\ op' = op /\ key' = key /\ item' = item /\ prev' = prev
    BY <1>9, <1>13 DEF SortedStep
  <2>2. TypeOK'
    BY <1>1, <1>8, <1>10, <2>1 DEF IndInv, TypeOK
  <2>3. Shape'
    BY <1>1, <1>10, <2>1 DEF IndInv, Shape, Distinct, Linked, Describes, ItemAt, InList
  <2>4. InSorted'
    <3>1. InList' = InList /\ Contents' = Contents
      BY <1>10, <2>1 DEF InList, Contents
    <3> DEFINE q == p + 1
    <3>2. PtrAt(q)'
      <4>1. q # 0
        BY <1>4
      <4>2. ptr' = seq'[q]
        BY <1>8, <2>1
      <4> HIDE DEF q
      <4> QED BY <4>1, <4>2 DEF PtrAt
    <3>3. KeyOf(data[seq[p + 1]]) < key
      <4>1. KeyOf(data[Cur]) \in Nat
        BY <1>5, <1>8
      <4>2. KeyOf(data[Cur]) < key
        BY <1>6, <1>13, <4>1 DEF SortedHere
      <4> QED BY <1>8, <4>2
    <3>4. \A i \in 1..(p + 1) : KeyOf(data[seq[i]]) < key
      BY <1>3, <3>3
    <3>5. p + 1 \in 0..Len(seq)
      BY <1>8
    <3> QED BY <1>1, <1>2, <1>10, <2>1, <3>1, <3>2, <3>4, <3>5 DEF InSorted
  <2> QED BY <1>1, <1>11, <2>1, <2>2, <2>3, <2>4
          DEF IndInv, InRemove, InRemoveByData, InFind, InFree, MatchesReference
<1> QED BY <1>12, <1>13

\* The types of the fields that unlinking an item changes.
ListTypes == /\ next \in [Node -> Node \cup {NULL, FREED}]
             /\ data \in [Node -> Datum \cup {FREED}]
             /\ heap \in SUBSET Node /\ seq \in Seq(Node)
             /\ head \in Node \cup {NULL} /\ tail \in Node \cup {NULL}
             /\ count \in 0..SIZE_MAX

\* An item fewer: the types of count, head and tail.
LEMMA OneLess ==
  ASSUME IndInv, alive, NEW p \in 1..Len(seq),
         head' = IF p = 1 THEN ItemAt(seq, 2) ELSE head,
         tail' = IF p = Len(seq) THEN IF p = 1 THEN NULL ELSE seq[p - 1] ELSE tail,
         count' = count - 1
  PROVE  head' \in Node \cup {NULL} /\ tail' \in Node \cup {NULL} /\ count' \in 0..SIZE_MAX
<1>1. seq \in Seq(Node) /\ Len(seq) \in Nat /\ head \in Node \cup {NULL} /\ tail \in Node \cup {NULL}
      /\ count \in 0..SIZE_MAX /\ SIZE_MAX \in Nat
  BY SListAssumption DEF IndInv, TypeOK
<1>2. count = Len(seq)
  BY DEF IndInv, Shape, Describes
<1>3. head' \in Node \cup {NULL}
  BY <1>1 DEF ItemAt
<1>4. tail' \in Node \cup {NULL}
  <2>1. p # 1 => p - 1 \in 1..Len(seq)
    BY <1>1
  <2> QED BY <1>1, <2>1
<1>5. count' \in 0..SIZE_MAX
  BY <1>1, <1>2
<1> QED BY <1>3, <1>4, <1>5

\* slist_remove and slist_remove_by_data unlink the item that *ptr points to;
\* the tail falls back on the item before it.
LEMMA Unlinked ==
  ASSUME IndInv, pc \in {"remove", "remove_by_data"}, pc' \notin {"sorted", "free"},
         NEW p \in 0..Len(seq), p # Len(seq), PtrAt(p), PrevAt(p),
         UnlinkCur, alive' = alive, given' = given, popped' = popped
  PROVE  /\ Shape' /\ Owned(data', heap', given', freed', popped') /\ ListTypes'
         /\ Contents' \in Seq(Datum) /\ IsWithout(Contents', Contents, p + 1)
         /\ IsWithout(seq', seq, p + 1)
         /\ \A i \in 1..p : seq'[i] = seq[i] /\ data'[seq'[i]] = data[seq[i]]
<1>1. alive /\ alive' /\ pc # "free" /\ pc \notin {"sorted", "free"}
  BY DEF IndInv, Shape
<1>2. /\ seq \in Seq(Node) /\ Len(seq) \in Nat /\ Distinct(seq) /\ Linked(next, seq)
      /\ \A i \in 1..Len(seq) : seq[i] \in Node /\ seq[i] # NULL /\ seq[i] # HEAD
  BY <1>1, Basics
<1> DEFINE q == p + 1
<1>3. q \in 1..Len(seq) /\ Cur = seq[q] /\ Cur \in Node /\ Place = q
  BY <1>1, <1>2, AtPtr
<1>4. next[Cur] = ItemAt(seq, q + 1)
  BY <1>2, <1>3 DEF Linked
<1>5. q = Len(seq) <=> next[Cur] = NULL
  <2>1. q # Len(seq) => q + 1 \in 1..Len(seq) /\ next[Cur] = seq[q + 1]
    BY <1>2, <1>3, <1>4 DEF ItemAt
  <2>2. q = Len(seq) => next[Cur] = NULL
    BY <1>2, <1>4 DEF ItemAt
  <2> QED BY <1>2, <2>1, <2>2
<1>6. next[Cur] \in Node \cup {NULL}
  BY <1>2, <1>3, <1>4 DEF ItemAt
<1>7. /\ next \in [Node -> Node \cup {NULL, FREED}] /\ data \in [Node -> Datum \cup {FREED}]
      /\ heap \in SUBSET Node
  BY DEF IndInv, TypeOK
<1>8. /\ tail' = (IF next[Cur] = NULL THEN prev ELSE tail)
      /\ head' = (IF ptr = HEAD THEN next[Cur] ELSE head)
      /\ next' = (IF ptr = HEAD THEN [next EXCEPT ![Cur] = FREED]
                                ELSE [next EXCEPT ![Cur] = FREED, ![ptr] = next[Cur]])
      /\ heap' = heap \ {Cur} /\ data' = [data EXCEPT ![Cur] = FREED]
      /\ freed' = freed \cup Id(data[Cur])
      /\ count' = count - 1 /\ seq' = Without(seq, q)
  BY <1>3 DEF UnlinkCur, ItemFree, Release
<1>9. q - 1 = p /\ (p = 0 <=> q = 1)
  BY <1>2
<1>10. /\ next' \in [Node -> Node \cup {NULL, FREED}] /\ LinksOut(next', next, seq, q)
       /\ head' = IF q = 1 THEN ItemAt(seq, 2) ELSE head
  <2>1. \A i \in 1..Len(seq) : i # q => seq[i] # Cur
    BY <1>2, <1>3 DEF Distinct
  <2>2. CASE p = 0
    <3>1. ptr = HEAD
      BY <2>2 DEF PtrAt
    <3>2. next' = [next EXCEPT ![Cur] = FREED] /\ head' = next[Cur]
      BY <1>8, <3>1
    <3>3. /\ next' \in [Node -> Node \cup {NULL, FREED}]
          /\ \A i \in 1..Len(seq) : i # q => next'[seq[i]] = next[seq[i]]
      BY <1>2, <1>3, <1>7, <2>1, <3>2
    <3>4. q = 1 /\ q + 1 = 2
      BY <2>2
    <3> QED BY <1>4, <3>2, <3>3, <3>4 DEF LinksOut
  <2>3. CASE p # 0
    <3>1. p \in 1..Len(seq) /\ ptr = seq[p] /\ ptr # HEAD /\ ptr \in Node /\ ptr # Cur /\ p # q
      BY <1>2, <2>1, <2>3 DEF PtrAt
    <3>2. next' = [next EXCEPT ![Cur] = FREED, ![ptr] = next[Cur]] /\ head' = head
      BY <1>8, <3>1
    <3>3. \A i \in 1..Len(seq) : i # p => seq[i] # ptr
      BY <1>2, <3>1 DEF Distinct
    <3>4. /\ next' \in [Node -> Node \cup {NULL, FREED}] /\ next'[seq[p]] = next[Cur]
          /\ \A i \in 1..Len(seq) : i # p /\ i # q => next'[seq[i]] = next[seq[i]]
      BY <1>2, <1>3, <1>6, <1>7, <2>1, <3>1, <3>2, <3>3
    <3>5. LinksOut(next', next, seq, q)
      BY <1>4, <1>9, <3>4 DEF LinksOut
    <3> QED BY <1>9, <2>3, <3>2, <3>4, <3>5
  <2> QED BY <2>2, <2>3
<1>11. tail' = IF q = Len(seq) THEN IF q = 1 THEN NULL ELSE seq[q - 1] ELSE tail
  BY <1>5, <1>8, <1>9 DEF PrevAt
<1>12. seq' \in Seq(Node) /\ IsWithout(seq', seq, q)
  BY <1>2, <1>3, <1>8, WithoutItems
<1> HIDE DEF q
<1>13. Leave(Id(data[seq[q]]), freed, popped, freed', popped')
  BY <1>3, <1>8 DEF Leave
<1>14. /\ Shape' /\ Owned(data', heap', given', freed', popped')
       /\ Contents' \in Seq(Datum) /\ IsWithout(Contents', Contents, q)
       /\ \A i \in 1..(q - 1) : seq'[i] = seq[i] /\ data'[seq'[i]] = data[seq[i]]
  <2>1. /\ count' = count - 1 /\ heap' = heap \ {seq[q]} /\ data' = [data EXCEPT ![seq[q]] = FREED]
        /\ given' = given
    BY <1>3, <1>8
  <2> QED BY <1>1, <1>3, <1>10, <1>11, <1>12, <1>13, <2>1, Removed
<1>15. ListTypes'
  <2>1. head' \in Node \cup {NULL} /\ tail' \in Node \cup {NULL} /\ count' \in 0..SIZE_MAX
    BY <1>1, <1>3, <1>8, <1>10, <1>11, OneLess
  <2>2. data' \in [Node -> Datum \cup {FREED}] /\ heap' \in SUBSET Node
    BY <1>3, <1>7, <1>8
  <2> QED BY <1>10, <1>12, <2>1, <2>2 DEF ListTypes
<1> QED BY <1>9, <1>12, <1>14, <1>15 DEF q

\* tail = *ptr; ptr = &(*ptr)->next: both move on together.
LEMMA MovedOn ==
  ASSUME IndInv, pc \in {"remove", "remove_by_data"},
         NEW p \in 0..Len(seq), p # Len(seq), PtrAt(p),
         MoveOn, alive' = alive, given' = given, popped' = popped
  PROVE  /\ TypeOK' /\ Shape' /\ Owned(data', heap', given', freed', popped')
         /\ Contents' = Contents /\ seq' = seq /\ data' = data
         /\ p + 1 \in 1..Len(seq) /\ PtrAt(p + 1)' /\ PrevAt(p + 1)'
         /\ pc' = pc /\ op' = op /\ key' = key /\ item' = item
<1>1. alive /\ pc # "free" /\ pc \notin {"sorted", "free"}
  BY DEF IndInv, Shape
<1>2. Len(seq) \in Nat
  BY <1>1, Basics
<1> DEFINE q == p + 1
<1>3. q \in 1..Len(seq) /\ Cur = seq[q] /\ Cur \in Node
  BY <1>1, <1>2, AtPtr
<1>4. UNCHANGED <<alive, nodes, list, seq, owners>> /\ pc' = pc /\ op' = op /\ key' = key /\ item' = item
      /\ prev' = Cur /\ ptr' = Cur
  BY DEF MoveOn, owners
<1>5. /\ Shape' /\ Owned(data', heap', given', freed', popped') /\ Contents' = Contents
      /\ next' = next /\ data' = data /\ heap' = heap /\ head' = head /\ tail' = tail
      /\ count' = count /\ seq' = seq /\ given' = given /\ alive' = alive
  BY <1>1, <1>4, SameList
<1>6. TypeOK'
  BY <1>3, <1>4, <1>5 DEF IndInv, TypeOK
<1>7. PtrAt(q)' /\ PrevAt(q)'
  <2>1. q # 0
    BY <1>3
  <2>2. ptr' = seq'[q] /\ prev' = seq'[q]
    BY <1>3, <1>4, <1>5
  <2> HIDE DEF q
  <2> QED BY <2>1, <2>2 DEF PtrAt, PrevAt
<1> QED BY <1>3, <1>4, <1>5, <1>6, <1>7

\* A call that enters a loop at &list->head.
LEMMA Entered ==
  ASSUME IndInv, NEW l \in {"remove", "remove_by_data", "find"}, NEW o, NEW k \in Keys \cup {0},
         NEW n \in Node \cup {NULL}, NEW p \in Node \cup {NULL}, Enter(l, o, k, n, p),
         UNCHANGED <<alive, nodes, list, seq, owners>>
  PROVE  /\ alive /\ pc = "idle" /\ TypeOK' /\ Shape' /\ Owned(data', heap', given', freed', popped')
         /\ Contents' = Contents /\ seq' = seq /\ data' = data /\ want = Contents
         /\ pc' = l /\ op' = o /\ key' = k /\ item' = n /\ prev' = p /\ PtrAt(0)'
<1>1. alive /\ pc = "idle" /\ pc' = l /\ op' = o /\ key' = k /\ item' = n /\ ptr' = HEAD /\ prev' = p
  BY DEF Enter
<1>2. /\ Shape' /\ Owned(data', heap', given', freed', popped') /\ Contents' = Contents
      /\ next' = next /\ data' = data /\ heap' = heap /\ head' = head /\ tail' = tail
      /\ count' = count /\ seq' = seq /\ given' = given /\ alive' = alive
  BY <1>1, SameList
<1>3. TypeOK'
  BY <1>1, <1>2 DEF IndInv, TypeOK
<1>4. PtrAt(0)'
  BY <1>1 DEF PtrAt
<1> QED BY <1>1, <1>2, <1>3, <1>4, Idle

\* slist_remove begins.
LEMMA RemoveCall ==
  ASSUME IndInv, NEW n \in Node, Remove(n)
  PROVE  IndInv'
<1>1. /\ alive /\ pc = "idle" /\ TypeOK' /\ Shape' /\ Owned(data', heap', given', freed', popped')
      /\ Contents' = Contents /\ seq' = seq /\ data' = data /\ want = Contents
      /\ pc' = "remove" /\ item' = n /\ prev' = NULL /\ PtrAt(0)'
  BY Entered DEF Remove
<1>2. seq \in Seq(Node) /\ Distinct(seq) /\ InList = Items(seq) /\ Len(seq) \in Nat
  BY <1>1, Basics
<1>3. PICK q \in 1..Len(seq) : n = seq[q]
  BY <1>2 DEF Remove, Items
<1>4. want' = Without(Contents, q) /\ wantRet' = NULL
  BY <1>1, <1>2, <1>3, PlaceOf DEF Remove
<1>5. PrevAt(0)'
  BY <1>1 DEF PrevAt
<1>6. InRemove'
  <2>1. 0 \in 0..(q - 1) /\ q \in 1..Len(seq')
    BY <1>1, <1>2
  <2> QED BY <1>1, <1>3, <1>4, <1>5, <2>1 DEF InRemove
<1> QED BY <1>1, <1>6 DEF IndInv, InSorted, InRemoveByData, InFind, InFree, MatchesReference

\* One iteration of slist_remove: it unlinks the item it was given, which
\* cannot be behind ptr.
LEMMA RemoveStepStep ==
  ASSUME IndInv, RemoveStep
  PROVE  IndInv'
<1>1. /\ pc = "remove" /\ alive /\ alive' = alive /\ given' = given /\ popped' = popped
      /\ want' = want /\ wantRet' = wantRet
  BY DEF RemoveStep, IndInv, Shape, spec
<1>2. wantRet = NULL
  BY <1>1 DEF IndInv, InRemove
<1>3. PICK q \in 1..Len(seq) : /\ item = seq[q] /\ want = Without(Contents, q)
                               /\ \E p \in 0..(q - 1) : PtrAt(p) /\ PrevAt(p)
  BY <1>1 DEF IndInv, InRemove
<1>4. PICK p \in 0..(q - 1) : PtrAt(p) /\ PrevAt(p)
  BY <1>3
<1>5. /\ seq \in Seq(Node) /\ Len(seq) \in Nat /\ Distinct(seq) /\ Contents \in Seq(Datum)
      /\ Len(Contents) = Len(seq)
  BY <1>1, Basics
<1>6. p \in 0..Len(seq) /\ p # Len(seq)
  BY <1>5
<1>7. p + 1 \in 1..Len(seq) /\ Cur = seq[p + 1]
  BY <1>1, <1>4, <1>5, <1>6, AtPtr
<1>8. CASE Cur = item
  <2>1. UnlinkCur /\ Done(NULL)
    BY <1>8 DEF RemoveStep
  <2>2. pc' = "idle" /\ ret' = NULL /\ key' = 0 /\ item' = NULL /\ ptr' = HEAD /\ prev' = NULL
    BY <2>1 DEF Done
  <2>3. /\ Shape' /\ Owned(data', heap', given', freed', popped') /\ ListTypes'
        /\ Contents' \in Seq(Datum) /\ IsWithout(Contents', Contents, p + 1)
    BY <1>1, <1>4, <1>6, <2>1, <2>2, Unlinked
  <2>4. q = p + 1
    BY <1>3, <1>5, <1>7, <1>8 DEF Distinct
  <2>5. q \in 1..Len(Contents) /\ IsWithout(Contents', Contents, q)
    BY <1>5, <2>3, <2>4
  <2>6. want \in Seq(Datum) /\ IsWithout(want, Contents, q)
    BY <1>3, <1>5, <2>5, WithoutItems
  <2>7. Contents' = want
    BY ONLY <1>5, <2>3, <2>5, <2>6, WithoutUnique
  <2>8. TypeOK'
    BY <1>1, <2>2, <2>3 DEF IndInv, TypeOK, ListTypes
  <2> QED BY <1>1, <1>2, <2>2, <2>3, <2>7, <2>8, AfterCall
<1>9. CASE Cur # item
  <2>1. MoveOn
    BY <1>9 DEF RemoveStep
  <2>2. /\ TypeOK' /\ Shape' /\ Owned(data', heap', given', freed', popped')
        /\ Contents' = Contents /\ seq' = seq /\ data' = data
        /\ PtrAt(p + 1)' /\ PrevAt(p + 1)' /\ pc' = pc /\ item' = item
    BY <1>1, <1>4, <1>6, <2>1, MovedOn
  <2>3. p + 1 # q
    BY <1>3, <1>7, <1>9
  <2>4. p + 1 \in 0..(q - 1)
    BY <1>5, <2>3
  <2>5. InRemove'
    BY <1>1, <1>2, <1>3, <2>2, <2>4 DEF InRemove
  <2> QED BY <1>1, <2>2, <2>5 DEF IndInv, InSorted, InRemoveByData, InFind, InFree, MatchesReference
<1> QED BY <1>8, <1>9

\* RemoveFirst removes the first match, if there is one.
LEMMA RemoveFirstMatch ==
  ASSUME NEW s \in Seq(Datum), NEW k
  PROVE  /\ \A p \in 1..Len(s) : KeyOf(s[p]) = k /\ (\A i \in 1..(p - 1) : KeyOf(s[i]) # k)
                                  => RemoveFirst(s, k) = Without(s, p)
         /\ (\A i \in 1..Len(s) : KeyOf(s[i]) # k) => RemoveFirst(s, k) = s
<1>1. ASSUME NEW p \in 1..Len(s), KeyOf(s[p]) = k, \A i \in 1..(p - 1) : KeyOf(s[i]) # k
      PROVE  RemoveFirst(s, k) = Without(s, p)
  <2> DEFINE M == Matches(s, 1, k)
  <2>1. M \in SUBSET Nat /\ p \in M /\ \A j \in M : p <= j
    BY <1>1 DEF Matches
  <2>2. RemoveFirst(s, k) = IF M = {} THEN s ELSE Without(s, Least(M))
    BY DEF RemoveFirst
  <2> HIDE DEF M
  <2>3. Least(M) = p
    BY ONLY <2>1, LeastOf
  <2> QED BY <2>1, <2>2, <2>3
<1>2. ASSUME \A i \in 1..Len(s) : KeyOf(s[i]) # k PROVE RemoveFirst(s, k) = s
  <2>1. Matches(s, 1, k) = {}
    BY <1>2 DEF Matches
  <2> QED BY <2>1 DEF RemoveFirst
<1> QED BY <1>1, <1>2

\* slist_remove_by_data begins.
LEMMA RemoveByDataCall ==
  ASSUME IndInv, NEW o, NEW k \in Keys, RemoveByData(o, k)
  PROVE  IndInv'
<1>1. /\ alive /\ pc = "idle" /\ TypeOK' /\ Shape' /\ Owned(data', heap', given', freed', popped')
      /\ Contents' = Contents /\ seq' = seq /\ data' = data /\ want = Contents
      /\ pc' = "remove_by_data" /\ op' = o /\ key' = k /\ prev' = NULL /\ PtrAt(0)'
  BY Entered DEF RemoveByData
<1>2. Len(seq) \in Nat
  BY <1>1, Basics
<1>3. PrevAt(0)'
  BY <1>1 DEF PrevAt
<1>4. InRemoveByData'
  <2>1. 0 \in 0..Len(seq') /\ \A i \in 1..0 : KeyOf(data'[seq'[i]]) # key'
    BY <1>1, <1>2
  <2>2. /\ wantRet' = NULL
        /\ want' = IF op' = "remove_all" THEN RemoveEvery(Contents', key') ELSE RemoveFirst(Contents', key')
    BY <1>1 DEF RemoveByData
  <2> QED BY <1>1, <1>3, <2>1, <2>2 DEF InRemoveByData
<1> QED BY <1>1, <1>4 DEF IndInv, InSorted, InRemove, InFind, InFree, MatchesReference

\* One iteration of slist_remove_by_data: after an unlink ptr stays, and the
\* item that has moved up is looked at next.
LEMMA RemoveByDataStepStep ==
  ASSUME IndInv, RemoveByDataStep
  PROVE  IndInv'
<1>1. /\ pc = "remove_by_data" /\ alive /\ alive' = alive /\ given' = given /\ popped' = popped
      /\ want' = want /\ wantRet' = wantRet
  BY DEF RemoveByDataStep, IndInv, Shape, spec
<1>2. /\ wantRet = NULL
      /\ want = IF op = "remove_all" THEN RemoveEvery(Contents, key) ELSE RemoveFirst(Contents, key)
  BY <1>1 DEF IndInv, InRemoveByData
<1>3. PICK p \in 0..Len(seq) : PtrAt(p) /\ PrevAt(p) /\ \A i \in 1..p : KeyOf(data[seq[i]]) # key
  BY <1>1 DEF IndInv, InRemoveByData
<1>4. /\ seq \in Seq(Node) /\ Len(seq) \in Nat /\ Distinct(seq) /\ Contents \in Seq(Datum)
      /\ Len(Contents) = Len(seq)
      /\ \A i \in 1..Len(seq) : Contents[i] = data[seq[i]] /\ seq[i] # NULL
  BY <1>1, Basics
<1>5. /\ p = Len(seq) => Cur = NULL
      /\ p # Len(seq) => p + 1 \in 1..Len(seq) /\ Cur = seq[p + 1]
  BY <1>1, <1>3, <1>4, AtPtr
<1>6. \A i \in 1..p : i \in 1..Len(seq) /\ KeyOf(Contents[i]) # key
  BY <1>3, <1>4
<1>7. CASE Cur = NULL
  <2>1. p = Len(seq)
    BY <1>4, <1>5, <1>7
  <2>2. Done(NULL) /\ UNCHANGED <<alive, nodes, list, seq, owners>>
    BY <1>1, <1>7 DEF RemoveByDataStep, owners
  <2>3. pc' = "idle" /\ ret' = NULL /\ key' = 0 /\ item' = NULL /\ ptr' = HEAD /\ prev' = NULL
    BY <2>2 DEF Done
  <2>4. /\ Shape' /\ Owned(data', heap', given', freed', popped') /\ Contents' = Contents
        /\ next' = next /\ data' = data /\ heap' = heap /\ head' = head /\ tail' = tail
        /\ count' = count /\ seq' = seq /\ given' = given /\ alive' = alive
    BY <1>1, <2>2, <2>3, SameList
  <2>5. \A i \in 1..Len(Contents) : KeyOf(Contents[i]) # key
    BY <1>4, <1>6, <2>1
  <2>6. RemoveEvery(Contents, key) = Contents /\ RemoveFirst(Contents, key) = Contents
    BY <1>4, <2>5, RemoveEveryNone, RemoveFirstMatch
  <2>7. TypeOK'
    BY <1>1, <2>3, <2>4 DEF IndInv, TypeOK
  <2> QED BY <1>1, <1>2, <2>3, <2>4, <2>6, <2>7, AfterCall
<1>8. CASE Cur # NULL /\ KeyOf(data[Cur]) = key
  <2>1. UnlinkCur /\ IF op = "remove_all" THEN UNCHANGED <<locals, ret>> ELSE Done(NULL)
    BY <1>8 DEF RemoveByDataStep
  <2>2. p # Len(seq) /\ p + 1 \in 1..Len(seq) /\ p + 1 \in 1..Len(Contents) /\ KeyOf(Contents[p + 1]) = key
    BY <1>4, <1>5, <1>8
  <2>3. pc' \notin {"sorted", "free"}
    BY <1>1, <2>1 DEF locals, Done
  <2>4. /\ Shape' /\ Owned(data', heap', given', freed', popped') /\ ListTypes'
        /\ Contents' \in Seq(Datum) /\ IsWithout(Contents', Contents, p + 1)
        /\ IsWithout(seq', seq, p + 1)
        /\ \A i \in 1..p : seq'[i] = seq[i] /\ data'[seq'[i]] = data[seq[i]]
    BY <1>1, <1>3, <2>1, <2>2, <2>3, Unlinked
  <2>5. CASE op = "remove_all"
    <3>1. pc' = pc /\ op' = op /\ key' = key /\ item' = item /\ ptr' = ptr /\ prev' = prev
      BY <2>1, <2>5 DEF locals
    <3>2. TypeOK'
      BY <1>1, <2>4, <3>1 DEF IndInv, TypeOK, ListTypes
    <3>3. RemoveEvery(Contents', key) = RemoveEvery(Contents, key)
      BY <1>4, <2>2, <2>4, RemoveEveryMatch
    <3>4. p \in 0..Len(seq')
      BY <1>4, <2>2, <2>4 DEF IsWithout
    <3>5. PtrAt(p)' /\ PrevAt(p)'
      <4>1. p # 0 => seq'[p] = seq[p]
        BY <1>4, <2>4
      <4> QED BY <1>3, <3>1, <4>1 DEF PtrAt, PrevAt
    <3>6. \A i \in 1..p : KeyOf(data'[seq'[i]]) # key
      BY <1>3, <2>4
    <3>7. InRemoveByData'
      BY <1>1, <1>2, <2>5, <3>1, <3>3, <3>4, <3>5, <3>6 DEF InRemoveByData
    <3> QED BY <1>1, <2>4, <3>1, <3>2, <3>7 DEF IndInv, InSorted, InRemove, InFind, InFree, MatchesReference
  <2>6. CASE op # "remove_all"
    <3>1. pc' = "idle" /\ ret' = NULL /\ key' = 0 /\ item' = NULL /\ ptr' = HEAD /\ prev' = NULL
      BY <2>1, <2>6 DEF Done
    <3> DEFINE q == p + 1
    <3>2. q \in 1..Len(Contents) /\ KeyOf(Contents[q]) = key /\ \A i \in 1..(q - 1) : KeyOf(Contents[i]) # key
      BY <1>4, <1>6, <2>2
    <3>3. IsWithout(Contents', Contents, q)
      BY <2>4
    <3> HIDE DEF q
    <3>4. want = Without(Contents, q)
      BY <1>2, <1>4, <2>6, <3>2, RemoveFirstMatch
    <3>5. want \in Seq(Datum) /\ IsWithout(want, Contents, q)
      BY <1>4, <3>2, <3>4, WithoutItems
    <3>6. Contents' = want
      BY ONLY <1>4, <2>4, <3>2, <3>3, <3>5, WithoutUnique
    <3>7. TypeOK'
      BY <1>1, <2>4, <3>1 DEF IndInv, TypeOK, ListTypes
    <3> QED BY <1>1, <1>2, <2>4, <3>1, <3>6, <3>7, AfterCall
  <2> QED BY <2>5, <2>6
<1>9. CASE Cur # NULL /\ KeyOf(data[Cur]) # key
  <2>1. MoveOn
    BY <1>9 DEF RemoveByDataStep
  <2>2. p # Len(seq) /\ p + 1 \in 1..Len(seq) /\ KeyOf(data[seq[p + 1]]) # key
    BY <1>5, <1>9
  <2>3. /\ TypeOK' /\ Shape' /\ Owned(data', heap', given', freed', popped')
        /\ Contents' = Contents /\ seq' = seq /\ data' = data
        /\ PtrAt(p + 1)' /\ PrevAt(p + 1)' /\ pc' = pc /\ op' = op /\ key' = key
    BY <1>1, <1>3, <2>1, <2>2, MovedOn
  <2>4. p + 1 \in 0..Len(seq) /\ \A i \in 1..(p + 1) : KeyOf(data[seq[i]]) # key
    BY <1>3, <1>4, <2>2
  <2>5. InRemoveByData'
    BY <1>1, <1>2, <2>3, <2>4 DEF InRemoveByData
  <2> QED BY <1>1, <2>3, <2>5 DEF IndInv, InSorted, InRemove, InFind, InFree, MatchesReference
<1> QED BY <1>7, <1>8, <1>9

\* slist_pop: the datum of the first item goes back to the caller.
LEMMA PopStep ==
  ASSUME IndInv, Pop
  PROVE  IndInv'
<1>1. /\ alive /\ alive' /\ pc = "idle" /\ pc' = "idle" /\ ret' = data[head] /\ UNCHANGED locals
      /\ count # 0 /\ given' = given /\ freed' = freed /\ popped' = popped \cup Id(data[head])
      /\ want' = Tail(want) /\ wantRet' = Head(want) /\ seq' = Tail(seq) /\ count' = count - 1
      /\ heap' = heap \ {head} /\ data' = [data EXCEPT ![head] = FREED]
      /\ next' = [next EXCEPT ![head] = FREED] /\ head' = next[head]
      /\ tail' = IF next[head] = NULL THEN NULL ELSE tail
  BY DEF Pop, AtOnce, locals, Release
<1>2. /\ seq \in Seq(Node) /\ Len(seq) \in Nat /\ Distinct(seq) /\ Linked(next, seq)
      /\ Contents \in Seq(Datum) /\ Len(Contents) = Len(seq)
      /\ \A i \in 1..Len(seq) : Contents[i] = data[seq[i]] /\ seq[i] \in Node /\ seq[i] # NULL
  BY <1>1, Basics
<1>3. count = Len(seq) /\ want = Contents /\ head = IF seq = <<>> THEN NULL ELSE seq[1]
  BY <1>1, Idle DEF Describes
<1>4. seq # <<>> /\ Contents # <<>> /\ 1 \in 1..Len(seq) /\ head = seq[1] /\ head \in Node
  BY <1>1, <1>2, <1>3
<1>5. next[head] = ItemAt(seq, 2)
  BY <1>2, <1>4 DEF Linked
<1>6. next[head] = NULL <=> Len(seq) = 1
  BY <1>2, <1>4, <1>5 DEF ItemAt
<1>7. ret' = wantRet'
  BY <1>1, <1>2, <1>3, <1>4
<1>8. /\ next \in [Node -> Node \cup {NULL, FREED}] /\ data \in [Node -> Datum \cup {FREED}]
      /\ heap \in SUBSET Node
  BY DEF IndInv, TypeOK
<1> DEFINE p == 1
<1>9. p \in 1..Len(seq) /\ seq' \in Seq(Node) /\ IsWithout(seq', seq, p)
  BY <1>1, <1>2, <1>4, TailIsWithout
<1>10. p \in 1..Len(Contents) /\ want' \in Seq(Datum) /\ IsWithout(want', Contents, p)
  BY <1>1, <1>2, <1>3, <1>4, TailIsWithout
<1>11. LinksOut(next', next, seq, p)
  BY <1>1, <1>2, <1>4, <1>8 DEF LinksOut, Distinct
<1>12. /\ head' = (IF p = 1 THEN ItemAt(seq, 2) ELSE head)
       /\ tail' = IF p = Len(seq) THEN IF p = 1 THEN NULL ELSE seq[p - 1] ELSE tail
  BY <1>1, <1>5, <1>6
<1>13. /\ heap' = heap \ {seq[p]} /\ data' = [data EXCEPT ![seq[p]] = FREED]
       /\ Leave(Id(data[seq[p]]), freed, popped, freed', popped')
  BY <1>1, <1>4 DEF Leave
<1> HIDE DEF p
<1>14. /\ Shape' /\ Owned(data', heap', given', freed', popped')
       /\ Contents' \in Seq(Datum) /\ IsWithout(Contents', Contents, p)
  BY <1>1, <1>9, <1>11, <1>12, <1>13, Removed
<1>15. Contents' = want'
  BY ONLY <1>2, <1>10, <1>14, WithoutUnique
<1>16. TypeOK'
  <2>1. head' \in Node \cup {NULL} /\ tail' \in Node \cup {NULL} /\ count' \in 0..SIZE_MAX
    BY <1>1, <1>9, <1>12, OneLess
  <2>2. /\ next' \in [Node -> Node \cup {NULL, FREED}] /\ data' \in [Node -> Datum \cup {FREED}]
        /\ heap' \in SUBSET Node
    BY <1>1, <1>4, <1>8
  <2> QED BY <1>1, <1>9, <2>1, <2>2 DEF IndInv, TypeOK, locals
<1> QED BY <1>1, <1>7, <1>14, <1>15, <1>16, AfterCall

\* A search begins at the head or at an item of the list.
LEMMA FindCall ==
  ASSUME IndInv, NEW offset \in Node \cup {NULL}, NEW k \in Keys, Find(offset, k)
  PROVE  IndInv'
<1> DEFINE from == IF offset = NULL THEN 1 ELSE IndexOf(seq, offset)
           f == IF offset # NULL THEN offset ELSE head
<1>1. Enter("find", "find", k, NULL, f) /\ UNCHANGED <<alive, nodes, list, seq, want, owners>>
  BY DEF Find
<1>2. f \in Node \cup {NULL}
  BY DEF IndInv, TypeOK
<1> HIDE DEF f
<1>3. /\ alive /\ pc = "idle" /\ TypeOK' /\ Shape' /\ Owned(data', heap', given', freed', popped')
      /\ Contents' = Contents /\ seq' = seq /\ data' = data /\ want = Contents
      /\ pc' = "find" /\ key' = k /\ prev' = f
  BY <1>1, <1>2, Entered
<1>4. /\ seq \in Seq(Node) /\ Len(seq) \in Nat /\ Distinct(seq) /\ InList = Items(seq)
      /\ \A i \in 1..Len(seq) : seq[i] # NULL
  BY <1>3, Basics
<1>5. from \in 1..(Len(seq) + 1) /\ f = ItemAt(seq, from)
  <2>1. CASE offset = NULL
    <3>1. head = ItemAt(seq, 1)
      BY <1>3, <1>4, Idle DEF Describes, ItemAt
    <3> QED BY <1>4, <2>1, <3>1 DEF f
  <2>2. CASE offset # NULL
    <3>1. PICK i \in 1..Len(seq) : offset = seq[i]
      BY <1>4, <2>2 DEF Find, Items
    <3>2. from = i
      BY <1>4, <2>2, <3>1, PlaceOf
    <3> QED BY <1>4, <2>2, <3>1, <3>2 DEF f, ItemAt
  <2> QED BY <2>1, <2>2
<1>6. wantRet' = FoundFrom(want, seq, from, k)
  BY DEF Find, FoundFrom
<1> HIDE DEF from
<1>7. PICK p \in 1..(Len(seq) + 1) : p = from
  BY <1>5
<1>8. InFind'
  <2>1. /\ want' = Contents' /\ prev' = ItemAt(seq', p) /\ wantRet' = FoundFrom(want', seq', p, key')
        /\ p \in 1..(Len(seq') + 1)
    BY <1>1, <1>3, <1>5, <1>6, <1>7
  <2> QED BY <2>1 DEF InFind, ItemAt, FoundFrom
<1> QED BY <1>3, <1>8 DEF IndInv, InSorted, InRemove, InRemoveByData, InFree, MatchesReference

\* One iteration of _slist_find: it ends at the first match behind the place
\* it began at, or behind the last item.
LEMMA FindStepStep ==
  ASSUME IndInv, FindStep
  PROVE  IndInv'
<1>1. pc = "find" /\ alive /\ UNCHANGED <<alive, nodes, list, seq, owners>> /\ want' = want /\ wantRet' = wantRet
  BY DEF FindStep, IndInv, Shape, spec
<1>2. want = Contents
  BY <1>1 DEF IndInv, InFind
<1>3. PICK p \in 1..(Len(seq) + 1) : prev = ItemAt(seq, p) /\ wantRet = FoundFrom(want, seq, p, key)
  BY <1>1 DEF IndInv, InFind
<1>4. /\ seq \in Seq(Node) /\ Len(seq) \in Nat /\ Linked(next, seq)
      /\ Contents \in Seq(Datum) /\ Len(Contents) = Len(seq)
      /\ \A i \in 1..Len(seq) : Contents[i] = data[seq[i]] /\ seq[i] \in Node /\ seq[i] # NULL
  BY <1>1, Basics
<1>5. p \in 1..(Len(Contents) + 1)
  BY <1>4
<1>6. prev = NULL => p = Len(seq) + 1
  BY <1>3, <1>4 DEF ItemAt
<1>7. p # Len(seq) + 1 => p \in 1..Len(seq) /\ prev = seq[p] /\ KeyOf(data[prev]) = KeyOf(Contents[p]) /\ p <= Len(Contents)
  BY <1>3, <1>4 DEF ItemAt
<1>8. CASE FindOver
  <2>1. Done(prev)
    BY <1>8 DEF FindStep
  <2>2. pc' = "idle" /\ ret' = prev /\ key' = 0 /\ item' = NULL /\ ptr' = HEAD /\ prev' = NULL
    BY <2>1 DEF Done
  <2>3. /\ Shape' /\ Owned(data', heap', given', freed', popped') /\ Contents' = Contents
        /\ next' = next /\ data' = data /\ heap' = heap /\ head' = head /\ tail' = tail
        /\ count' = count /\ seq' = seq /\ given' = given /\ alive' = alive
    BY <1>1, <2>2, SameList
  <2>4. wantRet = prev
    <3>1. CASE p = Len(seq) + 1
      <4>1. Matches(Contents, p, key) = {}
        BY <1>4, <1>5, <3>1, MatchesFrom
      <4> QED BY <1>2, <1>3, <3>1, <4>1 DEF FoundFrom, ItemAt
    <3>2. CASE p # Len(seq) + 1
      <4>1. prev # NULL /\ p <= Len(Contents) /\ KeyOf(Contents[p]) = key
        BY <1>6, <1>7, <1>8, <3>2 DEF FindOver
      <4>2. Matches(Contents, p, key) # {} /\ Least(Matches(Contents, p, key)) = p
        BY <1>4, <1>5, <4>1, MatchesFrom
      <4> QED BY <1>2, <1>3, <1>7, <3>2, <4>2 DEF FoundFrom
    <3> QED BY <3>1, <3>2
  <2>5. TypeOK'
    BY <2>2, <2>3 DEF IndInv, TypeOK
  <2> QED BY <1>1, <1>2, <2>2, <2>3, <2>4, <2>5, AfterCall
<1>9. CASE ~FindOver
  <2>1. /\ prev' = next[prev] /\ pc' = pc /\ op' = op /\ key' = key /\ item' = item /\ ptr' = ptr /\ ret' = ret
        /\ prev # NULL /\ KeyOf(data[prev]) # key
    BY <1>9 DEF FindStep, FindNext, FindOver
  <2>2. p # Len(seq) + 1
    BY <1>3, <2>1 DEF ItemAt
  <2>3. p \in 1..Len(seq) /\ prev' = ItemAt(seq, p + 1)
    BY <1>4, <1>7, <2>1, <2>2 DEF Linked
  <2>4. /\ Shape' /\ Owned(data', heap', given', freed', popped') /\ Contents' = Contents
        /\ next' = next /\ data' = data /\ heap' = heap /\ head' = head /\ tail' = tail
        /\ count' = count /\ seq' = seq /\ given' = given /\ alive' = alive
    BY <1>1, <2>1, SameList
  <2>5. prev' \in Node \cup {NULL}
    BY <1>4, <2>3 DEF ItemAt
  <2>6. TypeOK'
    BY <2>1, <2>4, <2>5 DEF IndInv, TypeOK
  <2>7. wantRet = FoundFrom(want, seq, p + 1, key)
    <3>1. Matches(Contents, p, key) = Matches(Contents, p + 1, key)
      BY <1>4, <1>5, <1>7, <2>1, <2>2, MatchesFrom
    <3> QED BY <1>2, <1>3, <3>1 DEF FoundFrom
  <2>8. InFind'
    <3> DEFINE q == p + 1
    <3>1. /\ q \in 1..(Len(seq') + 1) /\ prev' = ItemAt(seq', q)
          /\ wantRet' = FoundFrom(want', seq', q, key') /\ want' = Contents'
      BY <1>1, <1>2, <1>4, <2>1, <2>3, <2>4, <2>7
    <3> HIDE DEF q
    <3> QED BY <3>1 DEF InFind, ItemAt, FoundFrom
  <2> QED BY <1>1, <2>1, <2>4, <2>6, <2>8
          DEF IndInv, InSorted, InRemove, InRemoveByData, InFree, MatchesReference
<1> QED BY <1>8, <1>9

\* A new object takes the place of one that goes back to the caller.
LEMMA OwnedReplace ==
  ASSUME NEW dt, NEW dt2, NEW H, NEW g \in Nat, NEW fr, NEW po, Owned(dt, H, g, fr, po),
         NEW n \in H, NEW k \in Keys, dt2[n] = <<g + 1, k>>, \A m \in H : m # n => dt2[m] = dt[m]
  PROVE  Owned(dt2, H, g + 1, fr, po \cup Id(dt[n]))
<1> DEFINE G == H \ {n}
           po2 == po \cup Id(dt[n])
<1>1. Leave(Id(dt[n]), fr, po, fr, po2) /\ Drops(n, dt, H, dt, G)
  BY DEF Leave, Drops
<1> HIDE DEF po2
<1>2. Owned(dt, G, g, fr, po2)
  BY <1>1, OwnedGone
<1>3. n \notin G /\ \A m \in G : dt2[m] = dt[m]
  OBVIOUS
<1>4. G \cup {n} = H
  OBVIOUS
<1> HIDE DEF G
<1>5. Owned(dt2, G \cup {n}, g + 1, fr, po2)
  BY <1>2, <1>3, OwnedNew
<1> QED BY <1>4, <1>5 DEF po2

\* The datum of an item of the list is replaced by d.
LEMMA Replaced ==
  ASSUME IndInv, pc = "idle", alive, UNCHANGED <<alive, next, heap, list, seq>>, UNCHANGED locals,
         NEW n \in InList, NEW d \in Datum, data' = [data EXCEPT ![n] = d], given' \in 0..MaxInserts,
         want' = [want EXCEPT ![IndexOf(seq, n)] = d], ret' = wantRet',
         Owned(data', heap', given', freed', popped')
  PROVE  IndInv'
<1>1. /\ seq \in Seq(Node) /\ Len(seq) \in Nat /\ Distinct(seq) /\ InList = Items(seq)
      /\ Items(seq) \subseteq Node
      /\ Contents = DataOf(data, seq) /\ \A m \in Items(seq) : data[m] \in Datum
  BY Basics
<1>2. PICK p \in 1..Len(seq) : n = seq[p]
  BY <1>1 DEF Items
<1>3. want = Contents /\ IndexOf(seq, n) = p
  BY <1>1, <1>2, Idle, PlaceOf
<1>4. data \in [Node -> Datum \cup {FREED}]
  BY DEF IndInv, TypeOK
<1>5. data'[seq[p]] = d /\ data' \in [Node -> Datum \cup {FREED}]
      /\ \A m \in Items(seq) : m # seq[p] => data'[m] = data[m]
  BY <1>1, <1>2, <1>4
<1>6. DataOf(data', seq) = [DataOf(data, seq) EXCEPT ![p] = d]
  <2>1. \A i \in 1..Len(seq) : seq[i] \in Items(seq) /\ (i # p => seq[i] # seq[p])
    BY <1>1 DEF Distinct, Items
  <2>2. \A i \in 1..Len(seq) : data'[seq[i]] = IF i = p THEN d ELSE data[seq[i]]
    BY <1>5, <2>1
  <2> QED BY <2>2 DEF DataOf
<1>7. Contents' = DataOf(data', seq)
  BY DEF Contents, DataOf
<1>8. Contents' = want'
  BY <1>1, <1>3, <1>6, <1>7
<1>9. TypeOK'
  BY <1>5 DEF IndInv, TypeOK, locals, list
<1>10. Shape'
  BY DEF IndInv, Shape, Distinct, Linked, Describes, ItemAt, InList, list, locals
<1> QED BY <1>8, <1>9, <1>10, AfterCall DEF locals

\* slist_item_free_data: the datum is freed and the pointer reset.
LEMMA ItemFreeDataStep ==
  ASSUME IndInv, NEW n \in Node, ItemFreeData(n)
  PROVE  IndInv'
<1>1. /\ pc = "idle" /\ alive /\ UNCHANGED <<alive, next, heap, list, seq>> /\ UNCHANGED locals
      /\ n \in InList /\ data' = [data EXCEPT ![n] = NULL] /\ given' = given /\ popped' = popped
      /\ freed' = freed \cup Id(data[n]) /\ want' = [want EXCEPT ![IndexOf(seq, n)] = NULL]
      /\ ret' = wantRet'
  BY DEF ItemFreeData, AtOnce, ResetDatum
<1>2. n \in heap /\ heap \subseteq Node /\ data \in [Node -> Datum \cup {FREED}] /\ given' \in 0..MaxInserts
  BY <1>1 DEF IndInv, TypeOK, Shape
<1>3. Leave(Id(data[n]), freed, popped, freed', popped') /\ Drops(n, data, heap, data', heap)
  BY <1>1, <1>2 DEF Leave, Drops
<1>4. Owned(data, heap, given, freed, popped)
  BY DEF IndInv
<1>5. Owned(data', heap, given, freed', popped')
  BY <1>2, <1>3, <1>4, OwnedGone
<1>6. Owned(data', heap', given', freed', popped')
  BY <1>1, <1>5
<1>7. NULL \in Datum
  BY DEF Datum
<1> QED BY <1>1, <1>2, <1>6, <1>7, Replaced

\* slist_item_set_data: the old datum stays with the caller.
LEMMA ItemSetDataStep ==
  ASSUME IndInv, NEW n \in Node, NEW k \in Keys, ItemSetData(n, k)
  PROVE  IndInv'
<1>1. /\ pc = "idle" /\ alive /\ UNCHANGED <<alive, next, heap, list, seq>> /\ UNCHANGED locals
      /\ n \in InList /\ data' = [data EXCEPT ![n] = Object(k)] /\ given' = given + 1 /\ freed' = freed
      /\ popped' = popped \cup Id(data[n]) /\ want' = [want EXCEPT ![IndexOf(seq, n)] = Object(k)]
      /\ ret' = wantRet' /\ given < MaxInserts
  BY DEF ItemSetData, AtOnce
<1>2. /\ n \in heap /\ heap \subseteq Node /\ data \in [Node -> Datum \cup {FREED}]
      /\ given \in Nat /\ given' \in 0..MaxInserts
  BY <1>1, SListAssumption DEF IndInv, TypeOK, Shape
<1>3. Object(k) = <<given + 1, k>> /\ Object(k) \in Datum
  BY <1>2, KeyOfDatum DEF Object
<1> HIDE DEF Object
<1>4. Owned(data, heap, given, freed, popped)
  BY DEF IndInv
<1>5. data'[n] = <<given + 1, k>> /\ \A m \in heap : m # n => data'[m] = data[m]
  BY <1>1, <1>2, <1>3
<1>6. Owned(data', heap, given + 1, freed, popped \cup Id(data[n]))
  BY <1>2, <1>4, <1>5, OwnedReplace
<1>7. Owned(data', heap', given', freed', popped')
  BY <1>1, <1>6
<1> QED BY <1>1, <1>2, <1>3, <1>7, Replaced

\* slist_clear and slist_free begin at the first item.
LEMMA FreeAllCall ==
  ASSUME IndInv, NEW o, FreeAll(o)
  PROVE  IndInv'
<1>1. /\ alive /\ pc = "idle" /\ pc' = "free" /\ key' = 0 /\ item' = NULL /\ ptr' = HEAD /\ prev' = head
      /\ next' = next /\ data' = data /\ heap' = heap /\ head' = head /\ tail' = tail /\ count' = count
      /\ alive' = alive /\ seq' = seq /\ given' = given /\ freed' = freed /\ popped' = popped
      /\ want' = <<>> /\ wantRet' = NULL
  BY DEF FreeAll, Enter, nodes, list, owners
<1>2. seq \in Seq(Node) /\ Len(seq) \in Nat /\ Distinct(seq) /\ Linked(next, seq)
  BY <1>1, Basics
<1>3. heap = Items(seq) /\ Describes(head, tail, count, seq)
  BY <1>1, Idle
<1>4. TypeOK'
  BY <1>1 DEF IndInv, TypeOK
<1>5. Shape'
  BY <1>1, <1>2, <1>3 DEF Shape, Distinct, Describes
<1>6. InFree'
  <2>1. head = ItemAt(seq, 1)
    BY <1>2, <1>3 DEF Describes, ItemAt
  <2>2. heap = {seq[i] : i \in 1..Len(seq)}
    BY <1>3 DEF Items
  <2>3. 1 \in 1..(Len(seq) + 1) /\ \A i \in 1..Len(seq) : next[seq[i]] = ItemAt(seq, i + 1)
    BY <1>2 DEF Linked
  <2> QED BY <1>1, <2>1, <2>2, <2>3 DEF InFree, ItemAt
<1>7. Owned(data', heap', given', freed', popped')
  BY <1>1 DEF IndInv
<1> QED BY <1>1, <1>4, <1>5, <1>6, <1>7 DEF IndInv, InSorted, InRemove, InRemoveByData, InFind, MatchesReference

\* One iteration of slist_free: the next item is read before this one is
\* given back, and is still allocated.
LEMMA FreeStepStep ==
  ASSUME IndInv, FreeStep
  PROVE  IndInv'
<1>1. /\ pc = "free" /\ pc' = pc /\ key' = key /\ item' = item /\ ptr' = ptr /\ prev # NULL /\ alive /\ alive' = alive
      /\ prev' = next[prev] /\ heap' = heap \ {prev} /\ data' = [data EXCEPT ![prev] = FREED]
      /\ freed' = freed \cup Id(data[prev]) /\ next' = [next EXCEPT ![prev] = FREED]
      /\ head' = head /\ tail' = tail /\ count' = count /\ seq' = seq
      /\ given' = given /\ popped' = popped /\ want' = want /\ wantRet' = wantRet
  BY DEF FreeStep, ItemFree, Release, list, spec, IndInv, Shape
<1>2. want = <<>> /\ wantRet = NULL
  BY <1>1 DEF IndInv, InFree
<1>3. PICK p \in 1..(Len(seq) + 1) :
        /\ prev = ItemAt(seq, p) /\ heap = {seq[i] : i \in p..Len(seq)}
        /\ \A i \in p..Len(seq) : next[seq[i]] = ItemAt(seq, i + 1)
  BY <1>1 DEF IndInv, InFree
<1>4. /\ seq \in Seq(Node) /\ Len(seq) \in Nat /\ Distinct(seq)
      /\ next \in [Node -> Node \cup {NULL, FREED}] /\ data \in [Node -> Datum \cup {FREED}]
      /\ heap \in SUBSET Node
  BY DEF IndInv, TypeOK, Shape
<1>5. p # Len(seq) + 1
  BY <1>1, <1>3 DEF ItemAt
<1>6. p \in 1..Len(seq) /\ p \in p..Len(seq) /\ prev = seq[p] /\ prev \in Node /\ prev \in heap
  BY <1>3, <1>4, <1>5 DEF ItemAt
<1>7. \A i \in (p + 1)..Len(seq) : i \in p..Len(seq) /\ i \in 1..Len(seq) /\ seq[i] \in Node /\ seq[i] # prev
  BY <1>4, <1>6 DEF Distinct
<1>8. prev' = ItemAt(seq, p + 1) /\ prev' \in Node \cup {NULL}
  <2>1. prev' = ItemAt(seq, p + 1)
    BY <1>1, <1>3, <1>6
  <2> QED BY <1>4, <1>6, <2>1 DEF ItemAt
<1>9. heap' = {seq[i] : i \in (p + 1)..Len(seq)}
  <2>1. \A i \in p..Len(seq) : i = p \/ i \in (p + 1)..Len(seq)
    BY <1>4
  <2> QED BY <1>1, <1>3, <1>6, <1>7, <2>1
<1>10. \A i \in (p + 1)..Len(seq) : next'[seq[i]] = ItemAt(seq, i + 1)
  BY <1>1, <1>3, <1>4, <1>7
<1>11. /\ next' \in [Node -> Node \cup {NULL, FREED}] /\ data' \in [Node -> Datum \cup {FREED}]
       /\ heap' \in SUBSET Node
  BY <1>1, <1>4, <1>6
<1>12. TypeOK'
  BY <1>1, <1>8, <1>11 DEF IndInv, TypeOK
<1>13. Shape'
  BY <1>1 DEF IndInv, Shape, Distinct, Describes
<1>14. Owned(data', heap', given', freed', popped')
  <2>1. Leave(Id(data[prev]), freed, popped, freed', popped') /\ Drops(prev, data, heap, data', heap')
    BY <1>1, <1>4 DEF Leave, Drops
  <2>2. Owned(data, heap, given, freed, popped)
    BY DEF IndInv
  <2>3. Owned(data', heap', given, freed', popped')
    BY <1>6, <2>1, <2>2, OwnedGone
  <2> QED BY <1>1, <2>3
<1>15. InFree'
  <2> DEFINE q == p + 1
  <2>1. /\ q \in 1..(Len(seq') + 1) /\ prev' = ItemAt(seq', q) /\ heap' = {seq'[i] : i \in q..Len(seq')}
        /\ \A i \in q..Len(seq') : next'[seq'[i]] = ItemAt(seq', i + 1)
    BY <1>1, <1>4, <1>6, <1>8, <1>9, <1>10
  <2> HIDE DEF q
  <2> QED BY <1>1, <1>2, <2>1 DEF InFree, ItemAt
<1> QED BY <1>1, <1>12, <1>13, <1>14, <1>15
        DEF IndInv, InSorted, InRemove, InRemoveByData, InFind, MatchesReference

\* The end of slist_clear and slist_free: every item has been given back.
LEMMA FreeEndStep ==
  ASSUME IndInv, FreeEnd
  PROVE  IndInv'
<1>1. /\ pc = "free" /\ prev = NULL /\ pc' = "idle" /\ key' = 0 /\ item' = NULL /\ ptr' = HEAD /\ prev' = NULL
      /\ ret' = NULL /\ seq' = <<>> /\ next' = next /\ data' = data /\ heap' = heap
      /\ given' = given /\ freed' = freed /\ popped' = popped /\ want' = want /\ wantRet' = wantRet
  BY DEF FreeEnd, Done, nodes, owners, spec
<1>2. want = <<>> /\ wantRet = NULL
  BY <1>1 DEF IndInv, InFree
<1>3. PICK p \in 1..(Len(seq) + 1) : prev = ItemAt(seq, p) /\ heap = {seq[i] : i \in p..Len(seq)}
  BY <1>1 DEF IndInv, InFree
<1>4. seq \in Seq(Node) /\ Len(seq) \in Nat /\ \A i \in 1..Len(seq) : seq[i] # NULL
  BY SListAssumption DEF IndInv, TypeOK
<1>5. p = Len(seq) + 1
  BY <1>1, <1>3, <1>4 DEF ItemAt
<1>6. heap' = {}
  BY <1>1, <1>3, <1>4, <1>5
<1>7. Contents' = <<>> /\ InList' = {} /\ Len(seq') = 0 /\ seq' \in Seq(Node)
  BY <1>1 DEF Contents, InList
<1>8. /\ alive' \in BOOLEAN /\ head' \in Node \cup {NULL} /\ tail' \in Node \cup {NULL} /\ count' \in 0..SIZE_MAX
      /\ alive' => head' = NULL /\ tail' = NULL /\ count' = 0
  <2>1. CASE op = "clear"
    <3>1. head' = NULL /\ tail' = NULL /\ count' = 0 /\ alive' = TRUE
      BY <2>1 DEF FreeEnd
    <3> QED BY <3>1, SListAssumption
  <2>2. CASE op # "clear"
    <3>1. alive' = FALSE /\ head' = head /\ tail' = tail /\ count' = count
      BY <2>2 DEF FreeEnd, list
    <3> QED BY <3>1 DEF IndInv, TypeOK
  <2> QED BY <2>1, <2>2
<1>9. TypeOK'
  BY <1>1, <1>7, <1>8 DEF IndInv, TypeOK
<1>10. Shape'
  BY <1>1, <1>6, <1>7, <1>8 DEF Shape, Distinct, Describes, Linked
<1>11. Owned(data', heap', given', freed', popped')
  BY <1>1 DEF IndInv
<1> QED BY <1>1, <1>2, <1>7, <1>9, <1>10, <1>11, AfterCall

\* slist_init of a freed list.
LEMMA ReinitStep ==
  ASSUME IndInv, Reinit
  PROVE  IndInv'
<1>1. /\ ~alive /\ alive' /\ head' = NULL /\ tail' = NULL /\ count' = 0
      /\ next' = next /\ data' = data /\ heap' = heap /\ seq' = seq
      /\ pc' = pc /\ key' = key /\ item' = item /\ ptr' = ptr /\ prev' = prev /\ ret' = ret
      /\ given' = given /\ freed' = freed /\ popped' = popped /\ want' = want /\ wantRet' = wantRet
      /\ alive' \in BOOLEAN
  BY DEF Reinit, nodes, locals, spec, owners
<1>2. pc = "idle" /\ seq = <<>> /\ heap = InList /\ want = Contents /\ ret = wantRet
  BY <1>1, Idle DEF IndInv, Shape
<1>3. TypeOK'
  BY <1>1, SListAssumption DEF IndInv, TypeOK
<1>4. Contents' = Contents /\ InList' = InList
  BY <1>1 DEF Contents, InList
<1>5. Shape'
  BY <1>1, <1>2, <1>4 DEF Shape, Distinct, Describes, Linked
<1>6. Owned(data', heap', given', freed', popped')
  BY <1>1 DEF IndInv
<1> QED BY <1>1, <1>2, <1>3, <1>4, <1>5, <1>6, AfterCall

\* A stuttering step.
LEMMA StutterStep ==
  ASSUME IndInv, UNCHANGED vars
  PROVE  IndInv'
<1>1. /\ alive' = alive /\ next' = next /\ data' = data /\ heap' = heap /\ head' = head /\ tail' = tail
      /\ count' = count /\ pc' = pc /\ op' = op /\ key' = key /\ item' = item /\ ptr' = ptr /\ prev' = prev
      /\ ret' = ret /\ seq' = seq /\ want' = want /\ wantRet' = wantRet
      /\ given' = given /\ freed' = freed /\ popped' = popped
  BY DEF vars, nodes, list, locals, spec, owners
<1>2. InList' = InList /\ Contents' = Contents
  BY <1>1 DEF InList, Contents
<1>3. TypeOK'
  BY <1>1 DEF IndInv, TypeOK
<1>4. Shape'
  BY <1>1, <1>2 DEF IndInv, Shape, Distinct, Linked, Describes, ItemAt
<1>5. InSorted'
  BY <1>1, <1>2 DEF IndInv, InSorted, PtrAt
<1>6. InRemove' /\ InRemoveByData'
  BY <1>1, <1>2 DEF IndInv, InRemove, InRemoveByData, PtrAt, PrevAt
<1>7. InFind'
  BY <1>1, <1>2 DEF IndInv, InFind, ItemAt, FoundFrom
<1>8. InFree'
  BY <1>1 DEF IndInv, InFree, ItemAt
<1>9. Owned(data', heap', given', freed', popped') /\ MatchesReference'
  BY <1>1, <1>2 DEF IndInv, MatchesReference
<1> QED BY <1>3, <1>4, <1>5, <1>6, <1>7, <1>8, <1>9 DEF IndInv

\* An empty list satisfies the invariant.
LEMMA InitIndInv ==
  ASSUME Init
  PROVE  IndInv
<1>1. seq = <<>> /\ Len(seq) = 0 /\ seq \in Seq(Node) /\ pc = "idle" /\ heap = {} /\ alive
  BY DEF Init
<1>2. TypeOK
  BY SListAssumption DEF Init, TypeOK
<1>3. Shape
  BY <1>1 DEF Init, Shape, Distinct, Describes, Linked, InList
<1>4. Owned(data, heap, given, freed, popped)
  <2>1. given = 0 /\ freed = {} /\ popped = {}
    BY DEF Init
  <2>2. 1..0 = {}
    OBVIOUS
  <2> QED BY <1>1, <2>1, <2>2 DEF Owned, HeldIn
<1>5. MatchesReference
  BY <1>1 DEF Init, MatchesReference, Contents
<1> QED BY <1>1, <1>2, <1>3, <1>4, <1>5 DEF IndInv, InSorted, InRemove, InRemoveByData, InFind, InFree

\* Every call and every iteration preserves the invariant.
LEMMA IndInvStep ==
  ASSUME IndInv, [Next]_vars
  PROVE  IndInv'
<1>1. CASE UNCHANGED vars
  BY <1>1, StutterStep
<1>2. CASE Call
  <2>1. ASSUME NEW k \in Keys, NEW n \in Node, Append1(n, k) PROVE IndInv'
    BY <2>1, Append1Step
  <2>2. ASSUME NEW k \in Keys, NEW n \in Node, Prepend(n, k) PROVE IndInv'
    BY <2>2, PrependStep
  <2>3. ASSUME NEW k \in Keys, NEW n \in Node, InsertSortedLast(n, k) PROVE IndInv'
    BY <2>3, InsertSortedLastStep
  <2>4. ASSUME NEW k \in Keys, NEW n \in Node, InsertSortedSearch(n, k) PROVE IndInv'
    BY <2>4, InsertSortedSearchStep
  <2>5. ASSUME NEW k \in Keys, NEW n \in Node \cup {NULL}, Find(n, k) PROVE IndInv'
    BY <2>5, FindCall
  <2>6. ASSUME NEW k \in Keys, NEW n \in Node, ItemSetData(n, k) PROVE IndInv'
    BY <2>6, ItemSetDataStep
  <2>7. ASSUME NEW k \in Keys, NEW o, RemoveByData(o, k) PROVE IndInv'
    BY <2>7, RemoveByDataCall
  <2>8. ASSUME NEW n \in Node, Remove(n) PROVE IndInv'
    BY <2>8, RemoveCall
  <2>9. ASSUME NEW n \in Node, ItemFreeData(n) PROVE IndInv'
    BY <2>9, ItemFreeDataStep
  <2>10. ASSUME NEW o, FreeAll(o) PROVE IndInv'
    BY <2>10, FreeAllCall
  <2>11. Refuse \/ Pop \/ PopEmpty \/ StackHead \/ Reinit => IndInv'
    BY RefuseStep, PopStep, PopEmptyStep, StackHeadStep, ReinitStep
  <2> QED BY <1>2, <2>1, <2>2, <2>3, <2>4, <2>5, <2>6, <2>7, <2>8, <2>9, <2>10, <2>11 DEF Call
<1>3. CASE LoopStep
  BY <1>3, SortedStepStep, RemoveStepStep, RemoveByDataStepStep, FindStepStep, FreeStepStep, FreeEndStep
     DEF LoopStep
<1> QED BY <1>1, <1>2, <1>3 DEF Next

\* At every point of every call the list satisfies IndInv: each loop of
\* slist.c keeps to the part of the list that its invariant describes.
THEOREM SListInvariant == Spec => []IndInv
<1>1. Init => IndInv
  BY InitIndInv
<1>2. IndInv /\ [Next]_vars => IndInv'
  BY IndInvStep
<1> QED BY <1>1, <1>2, PTL DEF Spec

\* head, tail, count and the next fields describe one sequence of distinct
\* items, whatever functions of slist.c were called before (slist_append,
\* slist_remove, slist_pop and the others), for every SIZE_MAX.
THEOREM SListWellLinked == Spec => []WellLinked
<1>1. IndInv => WellLinked
  <2> SUFFICES ASSUME IndInv PROVE WellLinked
    OBVIOUS
  <2>1. TypeOK /\ Distinct(seq) /\ seq \in Seq(Node) /\ Len(seq) \in Nat
    BY DEF IndInv, Shape, TypeOK
  <2>2. alive => /\ count = Len(seq)
                 /\ head = IF seq = <<>> THEN NULL ELSE seq[1]
                 /\ tail = IF seq = <<>> THEN NULL ELSE seq[Len(seq)]
    BY DEF IndInv, Shape, Describes
  <2>3. ASSUME pc # "free", NEW i \in 1..Len(seq)
        PROVE  next[seq[i]] = IF i = Len(seq) THEN NULL ELSE seq[i + 1]
    <3>1. next[seq[i]] = ItemAt(seq, i + 1)
      BY <2>3 DEF IndInv, Shape, Linked
    <3>2. i = Len(seq) <=> i + 1 = Len(seq) + 1
      BY <2>1
    <3> QED BY <3>1, <3>2 DEF ItemAt
  <2>4. \A i, j \in 1..Len(seq) : seq[i] = seq[j] => i = j
    BY <2>1 DEF Distinct
  <2> QED BY <2>1, <2>2, <2>3, <2>4 DEF WellLinked
<1> QED BY <1>1, SListInvariant, PTL

\* Between the calls the list holds the data a plain sequence would hold after
\* the same calls, and every call returned what it would return.
THEOREM SListMatchesReference == Spec => []MatchesReference
<1>1. IndInv => MatchesReference
  BY DEF IndInv
<1> QED BY <1>1, SListInvariant, PTL

\* Between the calls the allocated items are those of the list, and each
\* object is in the list, freed, or back with the caller, never two of these:
\* nothing leaks and nothing is freed twice.
THEOREM SListOwnership == Spec => []Ownership
<1>1. IndInv => Ownership
  <2> SUFFICES ASSUME IndInv, pc = "idle"
               PROVE  /\ heap = InList /\ Held \cup freed \cup popped = 1..given
                      /\ Held \cap (freed \cup popped) = {} /\ freed \cap popped = {}
    BY DEF Ownership
  <2>1. heap = InList /\ Owned(data, heap, given, freed, popped)
    BY DEF IndInv, Shape
  <2>2. \A x : x \in Held <=> HeldIn(x, data, heap)
    BY <2>1 DEF Held, HeldIn
  <2>3. \A x : x \in 1..given <=> x \in freed \/ x \in popped \/ x \in Held
    BY <2>1, <2>2 DEF Owned
  <2>4. \A x : x \in Held => x \notin freed /\ x \notin popped
    BY <2>1, <2>2 DEF Owned, HeldIn
  <2>5. freed \cap popped = {}
    BY <2>1 DEF Owned
  <2> QED BY <2>1, <2>3, <2>4, <2>5
<1> QED BY <1>1, SListInvariant, PTL
=============================================================================
