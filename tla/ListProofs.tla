----------------------------- MODULE ListProofs -----------------------------
(***************************************************************************)
(* Proofs about List for every set of items and keys, every limit of the   *)
(* count and whatever functions of list.c are called.                      *)
(*                                                                         *)
(* The argument is that of SListProofs, with a second chain along the prev *)
(* fields and a search that runs from both ends.  The lemmas on sequences  *)
(* are those of SListProofs, stated for this list's items and data.        *)
(***************************************************************************)
EXTENDS List, SequenceTheorems, WellFoundedInduction, TLAPS

\* A nonempty set of numbers has a least one.
LEMMA LeastNumber ==
  ASSUME NEW T \in SUBSET Nat, T # {}
  PROVE  \E n \in T : \A m \in T : n <= m
<1> DEFINE R == {ss \in Nat \X Nat : ss[1] < ss[2]}
<1>1. IsWellFoundedOn(R, Nat)
  BY NatLessThanWellFounded DEF OpToRel
<1> HIDE DEF R
<1>2. PICK n \in T : \A m \in T : ~(<<m, n>> \in R)
  BY <1>1, WFMin
<1>3. \A m \in T : m < n => <<m, n>> \in R
  BY DEF R
<1>4. ASSUME NEW m \in T PROVE n <= m
  <2>1. ~(m < n)
    BY <1>2, <1>3, Zenon
  <2>2. m \in Nat /\ n \in Nat
    OBVIOUS
  <2> QED BY <2>1, <2>2
<1> QED BY <1>4

\* Induction, for a set of numbers.
LEMMA SetInduction ==
  ASSUME NEW T, 0 \in T, \A n \in Nat : n \in T => n + 1 \in T
  PROVE  \A n \in Nat : n \in T
<1> SUFFICES ASSUME Nat \ T # {} PROVE FALSE
  OBVIOUS
<1>1. PICK n \in Nat \ T : \A m \in Nat \ T : n <= m
  BY LeastNumber
<1>2. n # 0 /\ n - 1 \in Nat
  BY <1>1
<1>3. n - 1 \in T
  BY <1>1, <1>2
<1> QED BY <1>1, <1>2, <1>3

\* The items of a part of a sequence.
LEMMA PartItems ==
  ASSUME NEW S, NEW s \in Seq(S), NEW m \in 1..(Len(s) + 1), NEW n \in (m - 1)..Len(s)
  PROVE  /\ SubSeq(s, m, n) \in Seq(S) /\ Len(SubSeq(s, m, n)) = (n - m) + 1
         /\ \A i \in 1..((n - m) + 1) : SubSeq(s, m, n)[i] = s[(m + i) - 1]
<1>1. m \in Int /\ n \in Int /\ \A i \in m..n : s[i] \in S
  OBVIOUS
<1>2. /\ SubSeq(s, m, n) \in Seq(S) /\ Len(SubSeq(s, m, n)) = IF m <= n THEN (n - m) + 1 ELSE 0
      /\ \A i \in 1..((n - m) + 1) : SubSeq(s, m, n)[i] = s[(m + i) - 1]
  BY ONLY <1>1, SubSeqProperties
<1> QED BY <1>1, <1>2

\* The items of two sequences one after the other.
LEMMA JoinItems ==
  ASSUME NEW S, NEW a \in Seq(S), NEW b \in Seq(S)
  PROVE  /\ a \o b \in Seq(S) /\ Len(a \o b) = Len(a) + Len(b)
         /\ \A i \in 1..Len(a) : (a \o b)[i] = a[i]
         /\ \A i \in (Len(a) + 1)..(Len(a) + Len(b)) : (a \o b)[i] = b[i - Len(a)]
<1>1. /\ a \o b \in Seq(S) /\ Len(a \o b) = Len(a) + Len(b)
      /\ \A i \in 1..(Len(a) + Len(b)) : (a \o b)[i] = IF i <= Len(a) THEN a[i] ELSE b[i - Len(a)]
  BY ConcatProperties
<1> QED BY <1>1

\* b is what follows the first q items of s.
IsRest(b, s, q) == Len(b) = Len(s) - q /\ \A i \in 1..(Len(s) - q) : b[i] = s[q + i]

\* w is a, and then what follows the first q items of s.
IsGlued(w, a, s, q) ==
  /\ Len(w) = Len(a) + (Len(s) - q)
  /\ \A i \in 1..Len(a) : w[i] = a[i]
  /\ \A i \in (Len(a) + 1)..(Len(a) + (Len(s) - q)) : w[i] = s[q + (i - Len(a))]

\* A sequence, and the items of s behind a place, in one sequence.
LEMMA GlueItems ==
  ASSUME NEW S, NEW s \in Seq(S), NEW a \in Seq(S), NEW b \in Seq(S),
         NEW q \in 0..Len(s), IsRest(b, s, q)
  PROVE  a \o b \in Seq(S) /\ IsGlued(a \o b, a, s, q)
<1>1. /\ a \o b \in Seq(S) /\ Len(a \o b) = Len(a) + Len(b)
      /\ \A i \in 1..Len(a) : (a \o b)[i] = a[i]
      /\ \A i \in (Len(a) + 1)..(Len(a) + Len(b)) : (a \o b)[i] = b[i - Len(a)]
  BY JoinItems
<1>2. Len(a \o b) = Len(a) + (Len(s) - q)
  BY <1>1 DEF IsRest
<1>3. ASSUME NEW i \in (Len(a) + 1)..(Len(a) + (Len(s) - q))
      PROVE  (a \o b)[i] = s[q + (i - Len(a))]
  <2>1. i \in (Len(a) + 1)..(Len(a) + Len(b)) /\ i - Len(a) \in 1..(Len(s) - q)
    BY DEF IsRest
  <2>2. (a \o b)[i] = b[i - Len(a)]
    BY ONLY <1>1, <2>1
  <2> QED BY ONLY <2>1, <2>2, IsRest(b, s, q) DEF IsRest
<1> QED BY <1>1, <1>2, <1>3 DEF IsGlued

\* The first items of a sequence.
LEMMA FirstItems ==
  ASSUME NEW S, NEW s \in Seq(S), NEW n \in 0..Len(s)
  PROVE  /\ SubSeq(s, 1, n) \in Seq(S) /\ Len(SubSeq(s, 1, n)) = n
         /\ \A i \in 1..n : SubSeq(s, 1, n)[i] = s[i]
<1>1. 1 \in 1..(Len(s) + 1) /\ n \in (1 - 1)..Len(s)
  OBVIOUS
<1>2. /\ SubSeq(s, 1, n) \in Seq(S) /\ Len(SubSeq(s, 1, n)) = (n - 1) + 1
      /\ \A i \in 1..((n - 1) + 1) : SubSeq(s, 1, n)[i] = s[(1 + i) - 1]
  BY <1>1, PartItems
<1> QED BY <1>2

\* The last items of a sequence.
LEMMA LastItems ==
  ASSUME NEW S, NEW s \in Seq(S), NEW q \in 0..Len(s)
  PROVE  /\ SubSeq(s, q + 1, Len(s)) \in Seq(S) /\ Len(SubSeq(s, q + 1, Len(s))) = Len(s) - q
         /\ \A i \in 1..(Len(s) - q) : SubSeq(s, q + 1, Len(s))[i] = s[q + i]
<1>1. q + 1 \in 1..(Len(s) + 1) /\ Len(s) \in ((q + 1) - 1)..Len(s)
  OBVIOUS
<1>2. /\ SubSeq(s, q + 1, Len(s)) \in Seq(S)
      /\ Len(SubSeq(s, q + 1, Len(s))) = (Len(s) - (q + 1)) + 1
      /\ \A i \in 1..((Len(s) - (q + 1)) + 1) : SubSeq(s, q + 1, Len(s))[i] = s[((q + 1) + i) - 1]
  BY <1>1, PartItems
<1> QED BY <1>2

\* w is s without the item at p: those behind it move up.
IsWithout(w, s, p) == /\ Len(w) = Len(s) - 1
                      /\ \A i \in 1..(p - 1) : w[i] = s[i]
                      /\ \A i \in p..(Len(s) - 1) : w[i] = s[i + 1]

\* w is s with e at p: the items from p on move back.
IsInsert(w, s, p, e) == /\ Len(w) = Len(s) + 1
                        /\ \A i \in 1..(p - 1) : w[i] = s[i]
                        /\ w[p] = e
                        /\ \A i \in (p + 1)..(Len(s) + 1) : w[i] = s[i - 1]

\* What Without computes.
LEMMA WithoutItems ==
  ASSUME NEW S, NEW s \in Seq(S), NEW p \in 1..Len(s)
  PROVE  Without(s, p) \in Seq(S) /\ IsWithout(Without(s, p), s, p)
<1> DEFINE a == SubSeq(s, 1, p - 1)
           b == SubSeq(s, p + 1, Len(s))
<1>1. a \in Seq(S) /\ Len(a) = p - 1 /\ \A i \in 1..(p - 1) : a[i] = s[i]
  <2>1. p - 1 \in 0..Len(s)
    OBVIOUS
  <2> QED BY <2>1, FirstItems
<1>2. b \in Seq(S) /\ Len(b) = Len(s) - p /\ \A i \in 1..(Len(s) - p) : b[i] = s[p + i]
  <2>1. p \in 0..Len(s)
    OBVIOUS
  <2> QED BY <2>1, LastItems
<1>3. Without(s, p) = a \o b
  BY DEF Without, Ext!RemoveAt
<1> HIDE DEF a, b, Without
<1> DEFINE w == Without(s, p)
<1>4. /\ w \in Seq(S) /\ Len(w) = Len(a) + (Len(s) - p)
      /\ \A i \in 1..Len(a) : w[i] = a[i]
      /\ \A i \in (Len(a) + 1)..(Len(a) + (Len(s) - p)) : w[i] = s[p + (i - Len(a))]
  <2> DEFINE q == p
  <2>1. a \in Seq(S) /\ b \in Seq(S) /\ q \in 0..Len(s) /\ IsRest(b, s, q)
    BY <1>1, <1>2 DEF IsRest
  <2> HIDE DEF q
  <2>2. a \o b \in Seq(S) /\ IsGlued(a \o b, a, s, q)
    BY ONLY s \in Seq(S), <2>1, GlueItems
  <2>3. w \in Seq(S) /\ IsGlued(w, a, s, q)
    BY <1>3, <2>2
  <2> QED BY ONLY <2>3 DEF q, IsGlued
<1> HIDE DEF w
<1>5. Len(w) = Len(s) - 1
  BY <1>1, <1>4
<1>6. \A i \in 1..(p - 1) : w[i] = s[i]
  BY <1>1, <1>4
<1>7. \A i \in p..(Len(s) - 1) : w[i] = s[i + 1]
  <2> TAKE i \in p..(Len(s) - 1)
  <2>1. i \in (Len(a) + 1)..(Len(a) + (Len(s) - p)) /\ p + (i - Len(a)) = i + 1
    BY <1>1
  <2> QED BY ONLY <1>4, <2>1
<1> QED BY <1>4, <1>5, <1>6, <1>7 DEF w, IsWithout

\* What InsertBefore computes.
LEMMA InsertItems ==
  ASSUME NEW S, NEW s \in Seq(S), NEW p \in 1..(Len(s) + 1), NEW e \in S
  PROVE  InsertBefore(s, p, e) \in Seq(S) /\ IsInsert(InsertBefore(s, p, e), s, p, e)
<1> DEFINE a == SubSeq(s, 1, p - 1)
           b == SubSeq(s, p, Len(s))
           o == <<e>>
           c == a \o o
<1>1. a \in Seq(S) /\ Len(a) = p - 1 /\ \A i \in 1..(p - 1) : a[i] = s[i]
  <2>1. p - 1 \in 0..Len(s)
    OBVIOUS
  <2> QED BY <2>1, FirstItems
<1>2. /\ b \in Seq(S) /\ Len(b) = Len(s) - (p - 1)
      /\ \A i \in 1..(Len(s) - (p - 1)) : b[i] = s[(p - 1) + i]
  <2>1. p - 1 \in 0..Len(s) /\ (p - 1) + 1 = p
    OBVIOUS
  <2>2. /\ SubSeq(s, (p - 1) + 1, Len(s)) \in Seq(S)
        /\ Len(SubSeq(s, (p - 1) + 1, Len(s))) = Len(s) - (p - 1)
        /\ \A i \in 1..(Len(s) - (p - 1)) : SubSeq(s, (p - 1) + 1, Len(s))[i] = s[(p - 1) + i]
    BY <2>1, LastItems
  <2> QED BY <2>1, <2>2
<1>3. InsertBefore(s, p, e) = c \o b
  BY DEF InsertBefore, Ext!InsertAt
<1>4. o \in Seq(S) /\ Len(o) = 1 /\ o[1] = e
  OBVIOUS
<1> HIDE DEF a, b, o, InsertBefore
<1>5. /\ c \in Seq(S) /\ Len(c) = Len(a) + Len(o)
      /\ \A i \in 1..Len(a) : c[i] = a[i]
      /\ \A i \in (Len(a) + 1)..(Len(a) + Len(o)) : c[i] = o[i - Len(a)]
  BY <1>1, <1>4, JoinItems
<1> HIDE DEF c
<1>6. Len(c) = p /\ (\A i \in 1..(p - 1) : c[i] = s[i]) /\ c[p] = e
  <2>1. Len(c) = p /\ p \in (Len(a) + 1)..(Len(a) + Len(o)) /\ p - Len(a) = 1
    BY <1>1, <1>4, <1>5
  <2>2. c[p] = e
    BY ONLY <1>4, <1>5, <2>1
  <2> QED BY <1>1, <1>5, <2>1, <2>2
<1> DEFINE w == InsertBefore(s, p, e)
<1>7. /\ w \in Seq(S) /\ Len(w) = Len(c) + (Len(s) - (p - 1))
      /\ \A i \in 1..Len(c) : w[i] = c[i]
      /\ \A i \in (Len(c) + 1)..(Len(c) + (Len(s) - (p - 1))) : w[i] = s[(p - 1) + (i - Len(c))]
  <2>1. p - 1 \in 0..Len(s)
    OBVIOUS
  <2> DEFINE q == p - 1
  <2>2. /\ c \in Seq(S) /\ b \in Seq(S) /\ q \in 0..Len(s) /\ IsRest(b, s, q)
    BY <1>2, <1>5, <2>1 DEF IsRest
  <2> HIDE DEF q
  <2>3. c \o b \in Seq(S) /\ IsGlued(c \o b, c, s, q)
    BY ONLY s \in Seq(S), <2>2, GlueItems
  <2>4. w \in Seq(S) /\ IsGlued(w, c, s, q)
    BY <1>3, <2>3
  <2> QED BY ONLY <2>4 DEF q, IsGlued
<1> HIDE DEF w
<1>8. Len(w) = Len(s) + 1
  BY <1>6, <1>7
<1>9. (\A i \in 1..(p - 1) : w[i] = s[i]) /\ w[p] = e
  BY <1>6, <1>7
<1>10. \A i \in (p + 1)..(Len(s) + 1) : w[i] = s[i - 1]
  <2> TAKE i \in (p + 1)..(Len(s) + 1)
  <2>1. i \in (Len(c) + 1)..(Len(c) + (Len(s) - (p - 1))) /\ (p - 1) + (i - Len(c)) = i - 1
    BY <1>6
  <2> QED BY ONLY <1>7, <2>1
<1> QED BY <1>7, <1>8, <1>9, <1>10 DEF w, IsInsert

\* IsInsert determines the sequence.
LEMMA InsertUnique ==
  ASSUME NEW S, NEW s \in Seq(S), NEW p \in 1..(Len(s) + 1), NEW e,
         NEW v \in Seq(S), NEW w \in Seq(S), IsInsert(v, s, p, e), IsInsert(w, s, p, e)
  PROVE  v = w
<1>1. Len(v) = Len(w)
  BY DEF IsInsert
<1>2. ASSUME NEW i \in 1..Len(v) PROVE v[i] = w[i]
  <2>1. i \in 1..(p - 1) \/ i = p \/ i \in (p + 1)..(Len(s) + 1)
    BY DEF IsInsert
  <2> QED BY <2>1 DEF IsInsert
<1> QED BY <1>1, <1>2, SeqEqual

\* IsWithout determines the sequence.
LEMMA WithoutUnique ==
  ASSUME NEW S, NEW s \in Seq(S), NEW p \in 1..Len(s),
         NEW v \in Seq(S), NEW w \in Seq(S), IsWithout(v, s, p), IsWithout(w, s, p)
  PROVE  v = w
<1>1. Len(v) = Len(w)
  BY DEF IsWithout
<1>2. ASSUME NEW i \in 1..Len(v) PROVE v[i] = w[i]
  <2>1. i \in 1..(p - 1) \/ i \in p..(Len(s) - 1)
    BY DEF IsWithout
  <2> QED BY <2>1 DEF IsWithout
<1> QED BY <1>1, <1>2, SeqEqual

\* Append inserts at the end.
LEMMA AppendIsInsert ==
  ASSUME NEW S, NEW s \in Seq(S), NEW e \in S
  PROVE  Append(s, e) \in Seq(S) /\ IsInsert(Append(s, e), s, Len(s) + 1, e)
BY DEF IsInsert

\* Concatenation with a single item inserts it at the front.
LEMMA PrependIsInsert ==
  ASSUME NEW S, NEW s \in Seq(S), NEW e \in S
  PROVE  <<e>> \o s \in Seq(S) /\ IsInsert(<<e>> \o s, s, 1, e)
<1> DEFINE o == <<e>>
<1>1. o \in Seq(S) /\ Len(o) = 1 /\ o[1] = e
  OBVIOUS
<1> HIDE DEF o
<1> DEFINE w == o \o s
<1>2. /\ w \in Seq(S) /\ Len(w) = Len(o) + Len(s)
      /\ \A i \in 1..Len(o) : w[i] = o[i]
      /\ \A i \in (Len(o) + 1)..(Len(o) + Len(s)) : w[i] = s[i - Len(o)]
  BY <1>1, JoinItems
<1> HIDE DEF w
<1>3. w \in Seq(S) /\ IsInsert(w, s, 1, e)
  BY <1>1, <1>2 DEF IsInsert
<1> QED BY <1>3 DEF w, o

\* Tail removes the first item.
LEMMA TailIsWithout ==
  ASSUME NEW S, NEW s \in Seq(S), s # <<>>
  PROVE  Tail(s) \in Seq(S) /\ IsWithout(Tail(s), s, 1)
BY HeadTailProperties DEF IsWithout
-----------------------------------------------------------------------------
(***************************************************************************)
(* Links.                                                                  *)
(***************************************************************************)

\* The items of s.
Items(s) == {s[i] : i \in 1..Len(s)}

\* Every item is there once.
Distinct(s) == \A i, j \in 1..Len(s) : s[i] = s[j] => i = j

\* The item at place i, or NULL behind the last one.
ItemAt(s, i) == IF i = Len(s) + 1 THEN NULL ELSE s[i]

\* The items of s are linked in this order.
Linked(nx, s) == \A i \in 1..Len(s) : nx[s[i]] = ItemAt(s, i + 1)

\* The item in front of place i, or NULL in front of the first one.
ItemBefore(s, i) == IF i = 1 THEN NULL ELSE s[i - 1]

\* The items of s are linked backwards.
LinkedBack(pv, s) == \A i \in 1..Len(s) : pv[s[i]] = ItemBefore(s, i)

\* The fields of the List describe the sequence s.
Describes(h, t, c, s) == /\ c = Len(s)
                         /\ h = IF s = <<>> THEN NULL ELSE s[1]
                         /\ t = IF s = <<>> THEN NULL ELSE s[Len(s)]

\* nx2 is nx with the item n linked in at p.
LinksIn(nx2, nx, s, p, n) ==
  /\ nx2[n] = ItemAt(s, p)
  /\ p > 1 => nx2[s[p - 1]] = n
  /\ \A i \in 1..Len(s) : i # p - 1 => nx2[s[i]] = nx[s[i]]

\* nx2 is nx with the item at p skipped.
LinksOut(nx2, nx, s, p) ==
  /\ p > 1 => nx2[s[p - 1]] = ItemAt(s, p + 1)
  /\ \A i \in 1..Len(s) : i # p - 1 /\ i # p => nx2[s[i]] = nx[s[i]]

\* pv2 is pv with the item n linked in at p, backwards.
LinksInBack(pv2, pv, s, p, n) ==
  /\ pv2[n] = ItemBefore(s, p)
  /\ p <= Len(s) => pv2[s[p]] = n
  /\ \A i \in 1..Len(s) : i # p => pv2[s[i]] = pv[s[i]]

\* pv2 is pv with the item at p skipped.
LinksOutBack(pv2, pv, s, p) ==
  /\ p < Len(s) => pv2[s[p + 1]] = ItemBefore(s, p)
  /\ \A i \in 1..Len(s) : i # p /\ i # p + 1 => pv2[s[i]] = pv[s[i]]

\* A new item at p: still every item is there once.
LEMMA InsertDistinct ==
  ASSUME NEW s \in Seq(Node), NEW w \in Seq(Node), NEW p \in 1..(Len(s) + 1), NEW n \in Node \ Items(s),
         IsInsert(w, s, p, n), Distinct(s)
  PROVE  Distinct(w) /\ Items(w) = Items(s) \cup {n}
<1>1. \A i \in 1..Len(w) : \/ i \in 1..(p - 1) /\ i \in 1..Len(s) /\ w[i] = s[i]
                           \/ i = p /\ w[i] = n
                           \/ i \in (p + 1)..Len(w) /\ i - 1 \in 1..Len(s) /\ w[i] = s[i - 1]
  BY DEF IsInsert
<1>2. \A i \in 1..Len(s) : s[i] # n
  BY DEF Items
<1>3. Distinct(w)
  <2> SUFFICES ASSUME NEW i \in 1..Len(w), NEW j \in 1..Len(w), w[i] = w[j] PROVE i = j
    BY DEF Distinct
  <2> DEFINE f(k) == IF k < p THEN k ELSE k - 1
  <2>1. \A k \in 1..Len(w) : k # p => f(k) \in 1..Len(s) /\ w[k] = s[f(k)]
    BY <1>1
  <2>2. CASE i = p
    BY <1>1, <1>2, <2>2
  <2>3. CASE j = p
    BY <1>1, <1>2, <2>3
  <2>4. CASE i # p /\ j # p
    <3>1. f(i) \in 1..Len(s) /\ f(j) \in 1..Len(s) /\ s[f(i)] = s[f(j)]
      BY <2>1, <2>4
    <3>2. f(i) = f(j)
      BY ONLY <3>1, Distinct(s) DEF Distinct
    <3> QED BY <2>4, <3>2
  <2> QED BY <2>2, <2>3, <2>4
<1>4. ASSUME NEW x \in Items(w) PROVE x \in Items(s) \cup {n}
  BY <1>1 DEF Items
<1>5. n \in Items(w)
  BY DEF Items, IsInsert
<1>6. ASSUME NEW i \in 1..Len(s) PROVE s[i] \in Items(w)
  <2>1. CASE i < p
    BY <2>1 DEF Items, IsInsert
  <2>2. CASE i >= p
    <3>1. i + 1 \in (p + 1)..(Len(s) + 1) /\ i + 1 \in 1..Len(w) /\ (i + 1) - 1 = i
      BY <2>2 DEF IsInsert
    <3>2. w[i + 1] = s[i]
      BY <3>1 DEF IsInsert
    <3> QED BY <3>1, <3>2 DEF Items
  <2> QED BY <2>1, <2>2
<1> QED BY <1>3, <1>4, <1>5, <1>6 DEF Items

\* The next fields around the new item lead through it.
LEMMA InsertLinked ==
  ASSUME NEW s \in Seq(Node), NEW w \in Seq(Node), NEW p \in 1..(Len(s) + 1), NEW n \in Node,
         IsInsert(w, s, p, n), NEW nx, NEW nx2, Linked(nx, s), LinksIn(nx2, nx, s, p, n)
  PROVE  Linked(nx2, w)
<1> SUFFICES ASSUME NEW i \in 1..Len(w) PROVE nx2[w[i]] = ItemAt(w, i + 1)
  BY DEF Linked
<1>1. Len(w) = Len(s) + 1 /\ Len(s) \in Nat
  BY DEF IsInsert
<1>2. CASE i < p - 1
  <2>1. i \in 1..Len(s) /\ w[i] = s[i] /\ w[i + 1] = s[i + 1] /\ i # p - 1 /\ i + 1 # Len(s) + 1
    BY <1>1, <1>2 DEF IsInsert
  <2>2. nx2[s[i]] = s[i + 1]
    BY <2>1 DEF LinksIn, Linked, ItemAt
  <2> QED BY <1>1, <1>2, <2>1, <2>2 DEF ItemAt
<1>3. CASE i = p - 1
  <2>1. w[i] = s[i] /\ w[i + 1] = n /\ i + 1 # Len(w) + 1 /\ p > 1
    BY <1>1, <1>3 DEF IsInsert
  <2> QED BY <1>3, <2>1 DEF ItemAt, LinksIn
<1>4. CASE i = p
  <2>1. w[i] = n /\ nx2[n] = ItemAt(s, p)
    BY <1>4 DEF IsInsert, LinksIn
  <2>2. ItemAt(s, p) = ItemAt(w, i + 1)
    BY <1>1, <1>4 DEF ItemAt, IsInsert
  <2> QED BY <2>1, <2>2
<1>5. CASE i > p
  <2>1. i - 1 \in 1..Len(s) /\ w[i] = s[i - 1] /\ i - 1 # p - 1
    BY <1>1, <1>5 DEF IsInsert
  <2>2. nx2[s[i - 1]] = ItemAt(s, (i - 1) + 1)
    BY <2>1 DEF LinksIn, Linked
  <2>3. ItemAt(s, (i - 1) + 1) = ItemAt(w, i + 1)
    <3>1. (i - 1) + 1 = i /\ (i + 1) - 1 = i
      OBVIOUS
    <3>2. CASE i = Len(s) + 1
      BY <1>1, <3>1, <3>2 DEF ItemAt
    <3>3. CASE i # Len(s) + 1
      <4>1. i + 1 \in (p + 1)..(Len(s) + 1)
        BY <1>1, <1>5, <3>3
      <4>2. w[i + 1] = s[i]
        BY <3>1, <4>1 DEF IsInsert
      <4> QED BY <1>1, <3>1, <3>3, <4>2 DEF ItemAt
    <3> QED BY <3>2, <3>3
  <2> QED BY <2>1, <2>2, <2>3
<1> QED BY <1>1, <1>2, <1>3, <1>4, <1>5

\* The prev fields around the new item lead through it.
LEMMA InsertLinkedBack ==
  ASSUME NEW s \in Seq(Node), NEW w \in Seq(Node), NEW p \in 1..(Len(s) + 1), NEW n \in Node,
         IsInsert(w, s, p, n), NEW pv, NEW pv2, LinkedBack(pv, s), LinksInBack(pv2, pv, s, p, n)
  PROVE  LinkedBack(pv2, w)
<1> SUFFICES ASSUME NEW i \in 1..Len(w) PROVE pv2[w[i]] = ItemBefore(w, i)
  BY DEF LinkedBack
<1>1. Len(w) = Len(s) + 1 /\ Len(s) \in Nat
  BY DEF IsInsert
<1>2. CASE i < p
  <2>1. i \in 1..Len(s) /\ w[i] = s[i] /\ i # p /\ (i # 1 => w[i - 1] = s[i - 1])
    BY <1>1, <1>2 DEF IsInsert
  <2>2. pv2[s[i]] = ItemBefore(s, i)
    BY <2>1 DEF LinksInBack, LinkedBack
  <2> QED BY <2>1, <2>2 DEF ItemBefore
<1>3. CASE i = p
  <2>1. w[i] = n /\ pv2[n] = ItemBefore(s, p) /\ (p # 1 => w[p - 1] = s[p - 1])
    BY <1>1, <1>3 DEF IsInsert, LinksInBack
  <2> QED BY <1>3, <2>1 DEF ItemBefore
<1>4. CASE i = p + 1
  <2>1. p <= Len(s) /\ i \in (p + 1)..(Len(s) + 1) /\ i - 1 = p /\ i # 1
    BY <1>1, <1>4
  <2>2. w[i] = s[p] /\ w[p] = n
    BY <2>1 DEF IsInsert
  <2> QED BY <2>1, <2>2 DEF ItemBefore, LinksInBack
<1>5. CASE i > p + 1
  <2>1. /\ i \in (p + 1)..(Len(s) + 1) /\ i - 1 \in (p + 1)..(Len(s) + 1) /\ i # 1 /\ i - 1 # 1
        /\ i - 1 \in 1..Len(s) /\ i - 1 # p
    BY <1>1, <1>5
  <2>2. w[i] = s[i - 1] /\ w[i - 1] = s[(i - 1) - 1]
    BY <2>1 DEF IsInsert
  <2>3. pv2[s[i - 1]] = ItemBefore(s, i - 1)
    BY <2>1 DEF LinksInBack, LinkedBack
  <2> QED BY <2>1, <2>2, <2>3 DEF ItemBefore
<1> QED BY <1>1, <1>2, <1>3, <1>4, <1>5

\* head changes for a new first item, tail for a new last one.
LEMMA InsertDescribes ==
  ASSUME NEW s \in Seq(Node), NEW w \in Seq(Node), NEW p \in 1..(Len(s) + 1), NEW n \in Node,
         IsInsert(w, s, p, n), NEW h, NEW t, NEW c, Describes(h, t, c, s)
  PROVE  Describes(IF p = 1 THEN n ELSE h, IF p = Len(s) + 1 THEN n ELSE t, c + 1, w)
<1>1. Len(w) = Len(s) + 1 /\ Len(s) \in Nat /\ w # <<>>
  BY DEF IsInsert
<1>2. CASE s = <<>>
  BY <1>1, <1>2 DEF Describes, IsInsert
<1>3. CASE s # <<>>
  <2>1. Len(s) >= 1
    BY <1>3
  <2>2. w[1] = IF p = 1 THEN n ELSE s[1]
    BY <2>1 DEF IsInsert
  <2>3. w[Len(w)] = IF p = Len(s) + 1 THEN n ELSE s[Len(s)]
    BY <1>1, <2>1 DEF IsInsert
  <2> QED BY <1>1, <1>3, <2>2, <2>3 DEF Describes
<1> QED BY <1>2, <1>3

\* The item at p is gone.
LEMMA WithoutDistinct ==
  ASSUME NEW s \in Seq(Node), NEW w \in Seq(Node), NEW p \in 1..Len(s), IsWithout(w, s, p), Distinct(s)
  PROVE  Distinct(w) /\ Items(w) = Items(s) \ {s[p]}
<1>1. \A i \in 1..Len(w) : \/ i \in 1..(p - 1) /\ i \in 1..Len(s) /\ w[i] = s[i]
                           \/ i \in p..Len(w) /\ i + 1 \in 1..Len(s) /\ w[i] = s[i + 1]
  BY DEF IsWithout
<1>3. Distinct(w)
  <2> SUFFICES ASSUME NEW i \in 1..Len(w), NEW j \in 1..Len(w), w[i] = w[j] PROVE i = j
    BY DEF Distinct
  <2> QED BY <1>1 DEF Distinct
<1>4. ASSUME NEW i \in 1..Len(w) PROVE w[i] \in Items(s) \ {s[p]}
  BY <1>1 DEF Items, Distinct
<1>6. ASSUME NEW i \in 1..Len(s), i # p PROVE s[i] \in Items(w)
  <2>1. CASE i < p
    BY <2>1 DEF Items, IsWithout
  <2>2. CASE i > p
    <3>1. i - 1 \in p..(Len(s) - 1) /\ i - 1 \in 1..Len(w) /\ (i - 1) + 1 = i
      BY <2>2 DEF IsWithout
    <3>2. w[i - 1] = s[i]
      BY <3>1 DEF IsWithout
    <3> QED BY <3>1, <3>2 DEF Items
  <2> QED BY <1>6, <2>1, <2>2
<1> QED BY <1>3, <1>4, <1>6 DEF Items

\* The next field before the item at p skips it.
LEMMA WithoutLinked ==
  ASSUME NEW s \in Seq(Node), NEW w \in Seq(Node), NEW p \in 1..Len(s), IsWithout(w, s, p),
         NEW nx, NEW nx2, Linked(nx, s), LinksOut(nx2, nx, s, p)
  PROVE  Linked(nx2, w)
<1> SUFFICES ASSUME NEW i \in 1..Len(w) PROVE nx2[w[i]] = ItemAt(w, i + 1)
  BY DEF Linked
<1>1. Len(w) = Len(s) - 1 /\ Len(s) \in Nat
  BY DEF IsWithout
<1>2. CASE i < p - 1
  <2>1. i \in 1..Len(s) /\ w[i] = s[i] /\ w[i + 1] = s[i + 1] /\ i # p - 1 /\ i # p /\ i + 1 # Len(s) + 1
    BY <1>1, <1>2 DEF IsWithout
  <2>2. nx2[s[i]] = s[i + 1]
    BY <2>1 DEF LinksOut, Linked, ItemAt
  <2> QED BY <1>1, <1>2, <2>1, <2>2 DEF ItemAt
<1>3. CASE i = p - 1
  <2>1. w[i] = s[i] /\ p > 1
    BY <1>1, <1>3 DEF IsWithout
  <2>2. nx2[s[i]] = ItemAt(s, p + 1)
    BY <1>3, <2>1 DEF LinksOut
  <2>3. ItemAt(s, p + 1) = ItemAt(w, i + 1)
    BY <1>1, <1>3 DEF ItemAt, IsWithout
  <2> QED BY <2>1, <2>2, <2>3
<1>4. CASE i >= p
  <2>1. i + 1 \in 1..Len(s) /\ w[i] = s[i + 1] /\ i + 1 # p - 1 /\ i + 1 # p
    BY <1>1, <1>4 DEF IsWithout
  <2>2. nx2[s[i + 1]] = ItemAt(s, (i + 1) + 1)
    BY <2>1 DEF LinksOut, Linked
  <2>3. ItemAt(s, (i + 1) + 1) = ItemAt(w, i + 1)
    BY <1>1, <1>4 DEF ItemAt, IsWithout
  <2> QED BY <2>1, <2>2, <2>3
<1> QED BY <1>1, <1>2, <1>3, <1>4

\* The prev field behind the item at p skips it.
LEMMA WithoutLinkedBack ==
  ASSUME NEW s \in Seq(Node), NEW w \in Seq(Node), NEW p \in 1..Len(s), IsWithout(w, s, p),
         NEW pv, NEW pv2, LinkedBack(pv, s), LinksOutBack(pv2, pv, s, p)
  PROVE  LinkedBack(pv2, w)
<1> SUFFICES ASSUME NEW i \in 1..Len(w) PROVE pv2[w[i]] = ItemBefore(w, i)
  BY DEF LinkedBack
<1>1. Len(w) = Len(s) - 1 /\ Len(s) \in Nat
  BY DEF IsWithout
<1>2. CASE i < p
  <2>1. i \in 1..Len(s) /\ w[i] = s[i] /\ i # p /\ i # p + 1 /\ (i # 1 => w[i - 1] = s[i - 1])
    BY <1>1, <1>2 DEF IsWithout
  <2>2. pv2[s[i]] = ItemBefore(s, i)
    BY <2>1 DEF LinksOutBack, LinkedBack
  <2> QED BY <2>1, <2>2 DEF ItemBefore
<1>3. CASE i = p
  <2>1. p < Len(s) /\ p \in p..(Len(s) - 1) /\ (p # 1 => p - 1 \in 1..(p - 1))
    BY <1>1, <1>3
  <2>2. w[i] = s[p + 1] /\ (p # 1 => w[p - 1] = s[p - 1])
    BY <1>3, <2>1 DEF IsWithout
  <2> QED BY <1>3, <2>1, <2>2 DEF ItemBefore, LinksOutBack
<1>4. CASE i > p
  <2>1. /\ i + 1 \in 1..Len(s) /\ i + 1 # p /\ i + 1 # p + 1 /\ i - 1 \in p..(Len(s) - 1) /\ i # 1 /\ i + 1 # 1
        /\ (i + 1) - 1 = i /\ (i - 1) + 1 = i /\ i \in p..(Len(s) - 1)
    BY <1>1, <1>4
  <2>2. w[i] = s[i + 1] /\ w[i - 1] = s[i]
    BY <2>1 DEF IsWithout
  <2>3. pv2[s[i + 1]] = ItemBefore(s, i + 1)
    BY <2>1 DEF LinksOutBack, LinkedBack
  <2> QED BY <2>1, <2>2, <2>3 DEF ItemBefore
<1> QED BY <1>1, <1>2, <1>3, <1>4

\* head changes when the first item goes, tail when the last one does.
LEMMA WithoutDescribes ==
  ASSUME NEW s \in Seq(Node), NEW w \in Seq(Node), NEW p \in 1..Len(s), IsWithout(w, s, p),
         NEW h, NEW t, NEW c, Describes(h, t, c, s)
  PROVE  Describes(IF p = 1 THEN ItemAt(s, 2) ELSE h,
                   IF p = Len(s) THEN IF p = 1 THEN NULL ELSE s[p - 1] ELSE t, c - 1, w)
<1>1. Len(w) = Len(s) - 1 /\ Len(s) \in Nat /\ s # <<>>
  BY DEF IsWithout
<1>2. CASE Len(s) = 1
  BY <1>1, <1>2 DEF Describes, IsWithout, ItemAt
<1>3. CASE Len(s) # 1
  <2>1. w # <<>>
    BY <1>1, <1>3
  <2>2. w[1] = IF p = 1 THEN s[2] ELSE s[1]
    BY <1>1, <1>3 DEF IsWithout
  <2>3. w[Len(w)] = IF p = Len(s) THEN s[p - 1] ELSE s[Len(s)]
    BY <1>1, <1>3 DEF IsWithout
  <2> QED BY <1>1, <1>3, <2>1, <2>2, <2>3 DEF Describes, ItemAt
<1> QED BY <1>2, <1>3
-----------------------------------------------------------------------------
(***************************************************************************)
(* Places.                                                                 *)
(***************************************************************************)

\* The place of an item that is there once.
LEMMA PlaceOf ==
  ASSUME NEW s \in Seq(Node), Distinct(s), NEW i \in 1..Len(s)
  PROVE  IndexOf(s, s[i]) = i
<1> DEFINE e == s[i]
           P(j) == s[j] = e
<1>1. \A j \in 1..Len(s) : P(j) => j = i
  BY DEF Distinct
<1>2. P(i)
  OBVIOUS
<1>3. IndexOf(s, e) = CHOOSE j \in 1..Len(s) : P(j)
  BY DEF IndexOf
<1> HIDE DEF P
<1>4. IndexOf(s, e) \in 1..Len(s) /\ P(IndexOf(s, e))
  BY <1>2, <1>3
<1> QED BY <1>1, <1>4

\* Least is the least.
LEMMA LeastOf ==
  ASSUME NEW I \in SUBSET Nat, NEW m \in I, \A j \in I : m <= j
  PROVE  Least(I) = m
<1> DEFINE P(i) == \A j \in I : i <= j
<1>1. P(m)
  OBVIOUS
<1>2. Least(I) = CHOOSE i \in I : P(i)
  BY DEF Least
<1>3. \A i \in I : P(i) => i = m
  OBVIOUS
<1> HIDE DEF P
<1>4. Least(I) \in I /\ P(Least(I))
  BY <1>1, <1>2
<1> QED BY <1>3, <1>4
-----------------------------------------------------------------------------
(***************************************************************************)
(* Removing all matches.                                                   *)
(***************************************************************************)

\* One step of Kept.
KeepNext(t, d, k) == IF KeyOf(d) = k THEN t ELSE Append(t, d)

\* Kept satisfies its recursion.
LEMMA KeptValues ==
  ASSUME NEW s \in Seq(Datum), NEW k
  PROVE  /\ Kept(s, k)[0] = <<>>
         /\ \A i \in 0..(Len(s) - 1) : Kept(s, k)[i + 1] = KeepNext(Kept(s, k)[i], s[i + 1], k)
<1> DEFINE Good(f, n) == f[0] = <<>> /\ \A i \in 0..(n - 1) : f[i + 1] = KeepNext(f[i], s[i + 1], k)
           T == {n \in Nat : \E f : Good(f, n)}
<1>1. 0 \in T
  <2>1. Good([i \in 0..0 |-> <<>>], 0)
    OBVIOUS
  <2> HIDE DEF Good
  <2> QED BY <2>1
<1>2. ASSUME NEW n \in Nat, n \in T PROVE n + 1 \in T
  <2>1. PICK f : Good(f, n)
    BY <1>2
  <2> DEFINE v == KeepNext(f[n], s[n + 1], k)
             h == [i \in 0..(n + 1) |-> IF i = n + 1 THEN v ELSE f[i]]
  <2>2. h[0] = <<>>
    BY <2>1
  <2>3. ASSUME NEW i \in 0..((n + 1) - 1) PROVE h[i + 1] = KeepNext(h[i], s[i + 1], k)
    <3>1. i \in 0..(n + 1) /\ i + 1 \in 0..(n + 1) /\ i # n + 1 /\ h[i] = f[i]
      OBVIOUS
    <3>2. CASE i = n
      <4>1. h[i + 1] = v
        BY <3>1, <3>2
      <4> QED BY <3>1, <3>2, <4>1
    <3>3. CASE i # n
      <4>1. h[i + 1] = f[i + 1] /\ i \in 0..(n - 1)
        BY <3>1, <3>3
      <4>2. f[i + 1] = KeepNext(f[i], s[i + 1], k)
        BY <2>1, <4>1
      <4> QED BY <3>1, <4>1, <4>2
    <3> QED BY <3>2, <3>3
  <2> HIDE DEF h
  <2>4. Good(h, n + 1)
    BY <2>2, <2>3
  <2> HIDE DEF Good
  <2> QED BY <2>4
<1> HIDE DEF T
<1>3. Len(s) \in T
  <2>1. \A n \in Nat : n \in T
    BY <1>1, <1>2, SetInduction
  <2> QED BY <2>1
<1>4. PICK f : Good(f, Len(s))
  BY <1>3 DEF T
<1> DEFINE D == 0..Len(s)
           Eq(e) == e = [i \in D |-> IF i = 0 THEN <<>> ELSE KeepNext(e[i - 1], s[i], k)]
           h == [i \in D |-> f[i]]
<1>5. Eq(h)
  <2>1. ASSUME NEW i \in D PROVE h[i] = IF i = 0 THEN <<>> ELSE KeepNext(h[i - 1], s[i], k)
    <3>1. CASE i = 0
      BY <1>4, <3>1
    <3>2. CASE i # 0
      <4>1. i - 1 \in 0..(Len(s) - 1) /\ i - 1 \in D /\ (i - 1) + 1 = i
        BY <3>2
      <4>2. f[(i - 1) + 1] = KeepNext(f[i - 1], s[(i - 1) + 1], k)
        BY <1>4, <4>1
      <4>3. h[i] = f[i] /\ h[i - 1] = f[i - 1]
        BY <4>1
      <4> QED BY <3>2, <4>1, <4>2, <4>3
    <3> QED BY <3>1, <3>2
  <2> QED BY <2>1
<1> HIDE DEF h
<1>6. Kept(s, k) = CHOOSE e : Eq(e)
  BY DEF Kept, KeepNext
<1>7. Eq(Kept(s, k))
  <2> HIDE DEF Eq
  <2> QED BY <1>5, <1>6, Zenon
<1> DEFINE e == Kept(s, k)
<1> HIDE DEF e
<1>8. e = [i \in D |-> IF i = 0 THEN <<>> ELSE KeepNext(e[i - 1], s[i], k)]
  BY <1>7 DEF e
<1>9. e[0] = <<>>
  BY <1>8
<1>10. ASSUME NEW i \in 0..(Len(s) - 1) PROVE e[i + 1] = KeepNext(e[i], s[i + 1], k)
  <2>1. i + 1 \in D /\ i + 1 # 0 /\ (i + 1) - 1 = i
    OBVIOUS
  <2> QED BY <1>8, <2>1
<1> QED BY <1>9, <1>10 DEF e

\* Removing a match beforehand makes no difference.
LEMMA RemoveEveryMatch ==
  ASSUME NEW s \in Seq(Datum), NEW w \in Seq(Datum), NEW p \in 1..Len(s), IsWithout(w, s, p),
         NEW k, KeyOf(s[p]) = k
  PROVE  RemoveEvery(w, k) = RemoveEvery(s, k)
<1> DEFINE e == Kept(s, k)
           d == Kept(w, k)
<1>1. e[0] = <<>> /\ \A i \in 0..(Len(s) - 1) : e[i + 1] = KeepNext(e[i], s[i + 1], k)
  BY KeptValues
<1>2. d[0] = <<>> /\ \A i \in 0..(Len(w) - 1) : d[i + 1] = KeepNext(d[i], w[i + 1], k)
  BY KeptValues
<1>3. RemoveEvery(w, k) = d[Len(w)] /\ RemoveEvery(s, k) = e[Len(s)]
  BY DEF RemoveEvery
<1> HIDE DEF e, d
<1>4. Len(w) = Len(s) - 1 /\ Len(s) \in Nat /\ Len(w) \in Nat
  BY DEF IsWithout
<1>5. e[p] = e[p - 1]
  <2>1. p - 1 \in 0..(Len(s) - 1) /\ (p - 1) + 1 = p
    OBVIOUS
  <2>2. e[p] = KeepNext(e[p - 1], s[p], k)
    BY <1>1, <2>1
  <2> QED BY <2>2 DEF KeepNext
<1> DEFINE T == {i \in Nat : i <= Len(w) => /\ i <= p - 1 => d[i] = e[i]
                                            /\ i >= p - 1 => d[i] = e[i + 1]}
<1>6. 0 \in T
  <2>1. 0 >= p - 1 => p = 1
    OBVIOUS
  <2> QED BY <1>1, <1>2, <1>5, <2>1
<1>7. ASSUME NEW i \in Nat, i \in T PROVE i + 1 \in T
  <2> SUFFICES ASSUME i + 1 <= Len(w)
               PROVE  /\ i + 1 <= p - 1 => d[i + 1] = e[i + 1]
                      /\ i + 1 >= p - 1 => d[i + 1] = e[(i + 1) + 1]
    OBVIOUS
  <2>1. i \in 0..(Len(w) - 1) /\ i \in 0..(Len(s) - 1) /\ i + 1 \in 0..(Len(s) - 1)
    BY <1>4
  <2>2. d[i + 1] = KeepNext(d[i], w[i + 1], k)
    BY <1>2, <2>1
  <2>3. /\ e[i + 1] = KeepNext(e[i], s[i + 1], k)
        /\ e[(i + 1) + 1] = KeepNext(e[i + 1], s[(i + 1) + 1], k)
    BY <1>1, <2>1
  <2>4. CASE i + 1 <= p - 1
    <3>1. w[i + 1] = s[i + 1] /\ d[i] = e[i]
      BY <1>4, <1>7, <2>1, <2>4 DEF IsWithout
    <3>2. d[i + 1] = e[i + 1]
      BY <2>2, <2>3, <3>1
    <3>3. i + 1 >= p - 1 => i + 1 = p - 1 /\ (i + 1) + 1 = p
      BY <2>4
    <3> QED BY <1>5, <3>2, <3>3
  <2>5. CASE i + 1 > p - 1
    <3>1. i + 1 \in p..(Len(s) - 1) /\ i >= p - 1 /\ i <= Len(w)
      BY <1>4, <2>1, <2>5
    <3>2. w[i + 1] = s[(i + 1) + 1] /\ d[i] = e[i + 1]
      BY <1>7, <3>1 DEF IsWithout
    <3> QED BY <2>2, <2>3, <2>5, <3>2
  <2> QED BY <2>4, <2>5
<1> HIDE DEF T
<1>8. Len(w) \in T
  <2>1. \A i \in Nat : i \in T
    BY <1>6, <1>7, SetInduction
  <2> QED BY <1>4, <2>1
<1>9. d[Len(w)] = e[Len(w) + 1]
  BY <1>4, <1>8 DEF T
<1> QED BY <1>3, <1>4, <1>9

\* Without a match nothing is removed.
LEMMA RemoveEveryNone ==
  ASSUME NEW s \in Seq(Datum), NEW k, \A i \in 1..Len(s) : KeyOf(s[i]) # k
  PROVE  RemoveEvery(s, k) = s
<1> DEFINE e == Kept(s, k)
<1>1. e[0] = <<>> /\ \A i \in 0..(Len(s) - 1) : e[i + 1] = KeepNext(e[i], s[i + 1], k)
  BY KeptValues
<1>2. RemoveEvery(s, k) = e[Len(s)]
  BY DEF RemoveEvery
<1> HIDE DEF e
<1> DEFINE T == {i \in Nat : i <= Len(s) => /\ e[i] \in Seq(Datum) /\ Len(e[i]) = i
                                            /\ \A j \in 1..i : e[i][j] = s[j]}
<1>3. 0 \in T
  <2>1. e[0] \in Seq(Datum) /\ Len(e[0]) = 0
    BY <1>1, EmptySeq
  <2> QED BY <2>1
<1>4. ASSUME NEW i \in Nat, i \in T PROVE i + 1 \in T
  <2> SUFFICES ASSUME i + 1 <= Len(s)
               PROVE  /\ e[i + 1] \in Seq(Datum) /\ Len(e[i + 1]) = i + 1
                      /\ \A j \in 1..(i + 1) : e[i + 1][j] = s[j]
    OBVIOUS
  <2>1. i \in 0..(Len(s) - 1) /\ i + 1 \in 1..Len(s) /\ i <= Len(s)
    OBVIOUS
  <2>2. e[i + 1] = Append(e[i], s[i + 1])
    BY <1>1, <2>1 DEF KeepNext
  <2>3. e[i] \in Seq(Datum) /\ Len(e[i]) = i /\ \A j \in 1..i : e[i][j] = s[j]
    BY <1>4, <2>1
  <2>4. s[i + 1] \in Datum
    BY <2>1
  <2> QED BY <2>2, <2>3, <2>4
<1> HIDE DEF T
<1>5. Len(s) \in T
  <2>1. \A i \in Nat : i \in T
    BY <1>3, <1>4, SetInduction
  <2> QED BY <2>1
<1>6. /\ e[Len(s)] \in Seq(Datum) /\ Len(e[Len(s)]) = Len(s)
      /\ \A j \in 1..Len(s) : e[Len(s)][j] = s[j]
  BY <1>5 DEF T
<1>7. e[Len(s)] = s
  BY <1>6, SeqEqual
<1> QED BY <1>2, <1>7
-----------------------------------------------------------------------------
(***************************************************************************)
(* Data.                                                                   *)
(***************************************************************************)

\* The data of the items of s.
DataOf(dt, s) == [i \in 1..Len(s) |-> dt[s[i]]]

\* They are a sequence of data.
LEMMA DataItems ==
  ASSUME NEW s \in Seq(Node), NEW dt, \A n \in Items(s) : dt[n] \in Datum
  PROVE  /\ DataOf(dt, s) \in Seq(Datum) /\ Len(DataOf(dt, s)) = Len(s)
         /\ \A i \in 1..Len(s) : DataOf(dt, s)[i] = dt[s[i]]
<1>1. \A i \in 1..Len(s) : dt[s[i]] \in Datum
  BY DEF Items
<1> QED BY <1>1 DEF DataOf

\* A new item brings its datum.
LEMMA DataInsert ==
  ASSUME NEW s \in Seq(Node), NEW w \in Seq(Node), NEW p \in 1..(Len(s) + 1), NEW n \in Node,
         IsInsert(w, s, p, n), NEW dt, NEW dt2, \A m \in Items(s) : dt2[m] = dt[m],
         \A m \in Items(s) : dt[m] \in Datum, \A m \in Items(w) : dt2[m] \in Datum
  PROVE  IsInsert(DataOf(dt2, w), DataOf(dt, s), p, dt2[n])
<1> DEFINE a == DataOf(dt, s)
           b == DataOf(dt2, w)
<1>1. Len(a) = Len(s) /\ \A i \in 1..Len(s) : a[i] = dt[s[i]]
  BY DataItems
<1>2. Len(b) = Len(w) /\ \A i \in 1..Len(w) : b[i] = dt2[w[i]]
  BY DataItems
<1> HIDE DEF a, b
<1>3. Len(w) = Len(s) + 1 /\ Len(s) \in Nat
  BY DEF IsInsert
<1>4. \A i \in 1..Len(s) : dt2[s[i]] = dt[s[i]]
  BY DEF Items
<1>5. ASSUME NEW i \in 1..(p - 1) PROVE b[i] = a[i]
  <2>1. i \in 1..Len(s) /\ i \in 1..Len(w) /\ w[i] = s[i]
    BY <1>3 DEF IsInsert
  <2> QED BY <1>1, <1>2, <1>4, <2>1
<1>6. b[p] = dt2[n]
  BY <1>2, <1>3 DEF IsInsert
<1>7. ASSUME NEW i \in (p + 1)..(Len(s) + 1) PROVE b[i] = a[i - 1]
  <2>1. i - 1 \in 1..Len(s) /\ i \in 1..Len(w) /\ w[i] = s[i - 1]
    BY <1>3 DEF IsInsert
  <2> QED BY <1>1, <1>2, <1>4, <2>1
<1>8. IsInsert(b, a, p, dt2[n])
  BY <1>1, <1>2, <1>3, <1>5, <1>6, <1>7 DEF IsInsert
<1> QED BY <1>8 DEF a, b

\* An item takes its datum with it.
LEMMA DataWithout ==
  ASSUME NEW s \in Seq(Node), NEW w \in Seq(Node), NEW p \in 1..Len(s), IsWithout(w, s, p),
         NEW dt, NEW dt2, \A m \in Items(w) : dt2[m] = dt[m],
         \A m \in Items(s) : dt[m] \in Datum, \A m \in Items(w) : dt2[m] \in Datum
  PROVE  IsWithout(DataOf(dt2, w), DataOf(dt, s), p)
<1> DEFINE a == DataOf(dt, s)
           b == DataOf(dt2, w)
<1>1. Len(a) = Len(s) /\ \A i \in 1..Len(s) : a[i] = dt[s[i]]
  BY DataItems
<1>2. Len(b) = Len(w) /\ \A i \in 1..Len(w) : b[i] = dt2[w[i]]
  BY DataItems
<1> HIDE DEF a, b
<1>3. Len(w) = Len(s) - 1 /\ Len(s) \in Nat
  BY DEF IsWithout
<1>4. \A i \in 1..Len(w) : dt2[w[i]] = dt[w[i]]
  BY DEF Items
<1>5. ASSUME NEW i \in 1..(p - 1) PROVE b[i] = a[i]
  <2>1. i \in 1..Len(s) /\ i \in 1..Len(w) /\ w[i] = s[i]
    BY <1>3 DEF IsWithout
  <2> QED BY <1>1, <1>2, <1>4, <2>1
<1>6. ASSUME NEW i \in p..(Len(s) - 1) PROVE b[i] = a[i + 1]
  <2>1. i + 1 \in 1..Len(s) /\ i \in 1..Len(w) /\ w[i] = s[i + 1]
    BY <1>3 DEF IsWithout
  <2> QED BY <1>1, <1>2, <1>4, <2>1
<1>7. IsWithout(b, a, p)
  BY <1>1, <1>2, <1>3, <1>5, <1>6 DEF IsWithout
<1> QED BY <1>7 DEF a, b
-----------------------------------------------------------------------------
(***************************************************************************)
(* Owners.                                                                 *)
(***************************************************************************)

\* The object x is held by an item of H.
HeldIn(x, dt, H) == \E n \in H : x \in Id(dt[n])

\* The objects up to g are in the items H, freed or handed back: each is in one
\* place.
Owned(dt, H, g, fr, po) ==
  /\ \A n \in H : dt[n] \in Datum
  /\ \A m, n \in H : m # n => Id(dt[m]) \cap Id(dt[n]) = {}
  /\ \A x : x \in 1..g <=> x \in fr \/ x \in po \/ HeldIn(x, dt, H)
  /\ \A n \in H : Id(dt[n]) \cap (fr \cup po) = {}
  /\ fr \cap po = {}

\* The next object comes with a new item.
LEMMA OwnedNew ==
  ASSUME NEW dt, NEW dt2, NEW H, NEW g \in Nat, NEW fr, NEW po, Owned(dt, H, g, fr, po),
         NEW n, n \notin H, NEW k \in Keys,
         dt2[n] = <<g + 1, k>>, \A m \in H : dt2[m] = dt[m]
  PROVE  Owned(dt2, H \cup {n}, g + 1, fr, po)
<1>1. Id(dt2[n]) = {g + 1} /\ dt2[n] \in Datum
  BY ListAssumption DEF Id, Datum
<1>2. \A m \in H : Id(dt2[m]) = Id(dt[m]) /\ dt2[m] \in Datum
  BY DEF Owned
<1>3. g + 1 \notin fr /\ g + 1 \notin po /\ \A m \in H : g + 1 \notin Id(dt[m])
  <2>1. ~(g + 1 \in 1..g)
    OBVIOUS
  <2> QED BY <2>1 DEF Owned, HeldIn
<1>4. \A x : x \in 1..(g + 1) <=> x \in 1..g \/ x = g + 1
  OBVIOUS
<1>5. \A x : HeldIn(x, dt2, H \cup {n}) <=> HeldIn(x, dt, H) \/ x = g + 1
  BY <1>1, <1>2 DEF HeldIn
<1>6. \A x : x \in 1..(g + 1) <=> x \in fr \/ x \in po \/ HeldIn(x, dt2, H \cup {n})
  BY <1>4, <1>5 DEF Owned
<1>7. ASSUME NEW l \in H \cup {n}, NEW m \in H \cup {n}, l # m
      PROVE  Id(dt2[l]) \cap Id(dt2[m]) = {}
  <2>1. CASE l = n
    BY <1>1, <1>2, <1>3, <1>7, <2>1
  <2>2. CASE m = n
    BY <1>1, <1>2, <1>3, <1>7, <2>2
  <2>3. CASE l # n /\ m # n
    BY <1>2, <1>7, <2>3 DEF Owned
  <2> QED BY <2>1, <2>2, <2>3
<1>8. ASSUME NEW m \in H \cup {n} PROVE Id(dt2[m]) \cap (fr \cup po) = {}
  BY <1>1, <1>2, <1>3 DEF Owned
<1> QED BY <1>1, <1>2, <1>6, <1>7, <1>8 DEF Owned

\* The objects in G are freed, or go back to the caller.
Leave(G, fr, po, fr2, po2) == \/ fr2 = fr \cup G /\ po2 = po
                              \/ fr2 = fr /\ po2 = po \cup G

\* The item n is given back, or loses its datum.
Drops(n, dt, H, dt2, H2) == /\ H2 = H \ {n} \/ (H2 = H /\ dt2[n] = NULL)
                            /\ \A m \in H : m # n => dt2[m] = dt[m]

\* The object of the item n leaves the list, with or without the item.
LEMMA OwnedGone ==
  ASSUME NEW dt, NEW dt2, NEW H, NEW g, NEW fr, NEW po, Owned(dt, H, g, fr, po),
         NEW n \in H, NEW H2, NEW fr2, NEW po2,
         Leave(Id(dt[n]), fr, po, fr2, po2), Drops(n, dt, H, dt2, H2)
  PROVE  Owned(dt2, H2, g, fr2, po2)
<1> USE DEF Leave, Drops
<1>1. \A m \in H2 : (m = n /\ Id(dt2[m]) = {} /\ dt2[m] \in Datum) \/ (m \in H /\ m # n /\ dt2[m] = dt[m])
  BY DEF Id, Datum
<1>2. \A m \in H : m # n => m \in H2
  OBVIOUS
<1>3. \A x : HeldIn(x, dt, H) <=> HeldIn(x, dt2, H2) \/ x \in Id(dt[n])
  <2>1. ASSUME NEW x, HeldIn(x, dt, H) PROVE HeldIn(x, dt2, H2) \/ x \in Id(dt[n])
    BY <1>2, <2>1 DEF HeldIn
  <2>2. ASSUME NEW x, HeldIn(x, dt2, H2) PROVE HeldIn(x, dt, H)
    BY <1>1, <2>2 DEF HeldIn
  <2>3. ASSUME NEW x, x \in Id(dt[n]) PROVE HeldIn(x, dt, H)
    BY <2>3 DEF HeldIn
  <2> QED BY <2>1, <2>2, <2>3
<1>4. \A x : x \in fr2 \/ x \in po2 <=> x \in fr \/ x \in po \/ x \in Id(dt[n])
  OBVIOUS
<1>5. \A x : x \in 1..g <=> x \in fr2 \/ x \in po2 \/ HeldIn(x, dt2, H2)
  BY <1>3, <1>4 DEF Owned
<1>6. \A m \in H2 : dt2[m] \in Datum
  BY <1>1 DEF Owned
<1>7. ASSUME NEW l \in H2, NEW m \in H2, l # m PROVE Id(dt2[l]) \cap Id(dt2[m]) = {}
  BY <1>1, <1>7 DEF Owned
<1>8. ASSUME NEW m \in H2 PROVE Id(dt2[m]) \cap (fr2 \cup po2) = {}
  <2>1. CASE m = n
    BY <1>1, <2>1
  <2>2. CASE m # n
    <3>1. m \in H /\ dt2[m] = dt[m]
      BY <1>1, <2>2
    <3>2. Id(dt[m]) \cap Id(dt[n]) = {} /\ Id(dt[m]) \cap (fr \cup po) = {}
      BY <2>2, <3>1 DEF Owned
    <3> QED BY <1>4, <3>1, <3>2
  <2> QED BY <2>1, <2>2
<1>9. fr2 \cap po2 = {}
  BY DEF Owned
<1> QED BY <1>5, <1>6, <1>7, <1>8, <1>9 DEF Owned
-----------------------------------------------------------------------------
(***************************************************************************)
(* The invariant: what holds between the calls, and at every iteration of  *)
(* their loops.                                                            *)
(***************************************************************************)

\* head, tail and count describe seq, which has every item once and is linked
\* both ways, except while the items are freed one by one; a freed list has no
\* items.
Shape == /\ Distinct(seq)
         /\ alive => Describes(head, tail, count, seq)
         /\ ~alive => pc = "idle" /\ seq = <<>>
         /\ pc # "free" => Linked(next, seq) /\ LinkedBack(prev, seq)
         /\ pc \notin {"free", "crashed"} => heap = InList
         /\ pc = "crashed" => InList \subseteq heap

\* list_remove_by_data: the items in front of iter are not equal.
InRemoveByData ==
  pc = "remove_by_data" =>
    /\ allowed = {NULL}
    /\ want = IF op = "remove_all" THEN RemoveEvery(Contents, key) ELSE RemoveFirst(Contents, key)
    /\ \E p \in 1..(Len(seq) + 1) : iter = ItemAt(seq, p) /\ \A i \in 1..(p - 1) : KeyOf(data[seq[i]]) # key

\* The right results of a search for k in c, the data of the items s, from p on.
FoundFrom(c, s, p, k) == LET match == Matches(c, p, k)
                         IN  IF match = {} THEN {NULL} ELSE {s[i] : i \in match}

\* The search from f on has taken t steps from both ends.
Searched(f, t) ==
  /\ iter = ItemAt(seq, f + t) /\ end = ItemBefore(seq, (Len(seq) + 1) - t)
  /\ \A i \in f..Len(seq) : i < f + t \/ i > Len(seq) - t => KeyOf(data[seq[i]]) # key

\* _list_find: the items it has passed at both ends are not equal.
InFind ==
  pc = "find" =>
    /\ want = Contents
    /\ \E f \in 1..(Len(seq) + 1) : /\ allowed = FoundFrom(want, seq, f, key)
                                    /\ \E t \in 0..((Len(seq) + 1) - f) : Searched(f, t)

\* list_free: the items from iter on are still there and linked.
InFree ==
  pc = "free" =>
    /\ want = <<>> /\ allowed = {NULL}
    /\ \E p \in 1..(Len(seq) + 1) :
         /\ iter = ItemAt(seq, p) /\ heap = {seq[i] : i \in p..Len(seq)}
         /\ \A i \in p..Len(seq) : next[seq[i]] = ItemAt(seq, i + 1)

IndInv == /\ TypeOK /\ Shape
          /\ Owned(data, heap, given, freed, popped)
          /\ InRemoveByData /\ InFind /\ InFree
          /\ MatchesReference

\* What the invariant says of the items and their data outside list_free.
LEMMA Basics ==
  ASSUME IndInv, pc # "free"
  PROVE  /\ seq \in Seq(Node) /\ Len(seq) \in Nat /\ Distinct(seq)
         /\ Linked(next, seq) /\ LinkedBack(prev, seq)
         /\ InList = Items(seq) /\ Items(seq) \subseteq heap /\ Items(seq) \subseteq Node
         /\ \A n \in Items(seq) : data[n] \in Datum
         /\ Contents = DataOf(data, seq) /\ Contents \in Seq(Datum) /\ Len(Contents) = Len(seq)
         /\ \A i \in 1..Len(seq) : /\ Contents[i] = data[seq[i]] /\ seq[i] \in Items(seq)
                                   /\ seq[i] \in Node /\ seq[i] # NULL
<1>1. seq \in Seq(Node) /\ Len(seq) \in Nat /\ Distinct(seq) /\ Linked(next, seq) /\ LinkedBack(prev, seq)
  BY DEF IndInv, TypeOK, Shape
<1>2. InList = Items(seq)
  BY DEF InList, Items
<1>3. Items(seq) \subseteq heap
  BY <1>2 DEF IndInv, Shape, TypeOK
<1>4. \A n \in Items(seq) : data[n] \in Datum
  BY <1>3 DEF IndInv, Owned
<1>5. Contents = DataOf(data, seq)
  BY DEF Contents, DataOf
<1>6. /\ Contents \in Seq(Datum) /\ Len(Contents) = Len(seq)
      /\ \A i \in 1..Len(seq) : Contents[i] = data[seq[i]]
  BY <1>1, <1>4, <1>5, DataItems
<1>7. \A i \in 1..Len(seq) : seq[i] \in Node /\ seq[i] # NULL /\ seq[i] \in Items(seq)
  BY <1>1, ListAssumption DEF Items
<1>8. Items(seq) \subseteq Node
  BY <1>1 DEF Items
<1> QED BY <1>1, <1>2, <1>3, <1>4, <1>5, <1>6, <1>7, <1>8

\* A key is a number; an object's is its second part.
LEMMA KeyOfDatum ==
  /\ \A d \in Datum : KeyOf(d) \in Nat
  /\ \A g \in Nat, k \in Keys : KeyOf(<<g, k>>) = k /\ <<g, k>> \in Datum /\ <<g, k>> # NULL
<1>1. ASSUME NEW d \in Datum PROVE KeyOf(d) \in Nat
  <2>1. CASE d = NULL
    BY <2>1 DEF KeyOf
  <2>2. CASE d \in Nat \X Keys
    <3>1. d[2] \in Nat /\ d # NULL
      BY <2>2, ListAssumption
    <3> QED BY <3>1 DEF KeyOf
  <2> QED BY <2>1, <2>2 DEF Datum
<1>2. ASSUME NEW g \in Nat, NEW k \in Keys
      PROVE  KeyOf(<<g, k>>) = k /\ <<g, k>> \in Datum /\ <<g, k>> # NULL
  <2>1. <<g, k>> \in Nat \X Keys
    OBVIOUS
  <2>2. <<g, k>> # NULL
    BY <2>1, ListAssumption
  <2> QED BY <2>1, <2>2 DEF KeyOf, Datum
<1> QED BY <1>1, <1>2

\* A call has returned.
LEMMA AfterCall ==
  ASSUME TypeOK', Shape', Owned(data', heap', given', freed', popped'),
         pc' = "idle", Contents' = want', ret' \in allowed'
  PROVE  IndInv'
BY DEF IndInv, InRemoveByData, InFind, InFree, MatchesReference

\* The item n has been linked in at p.
LEMMA Inserted ==
  ASSUME IndInv, pc # "free", alive, alive', pc' = "idle",
         NEW n \in Node \ Items(seq), NEW p \in 1..(Len(seq) + 1),
         seq' \in Seq(Node), IsInsert(seq', seq, p, n),
         LinksIn(next', next, seq, p, n), LinksInBack(prev', prev, seq, p, n),
         head' = IF p = 1 THEN n ELSE head, tail' = IF p = Len(seq) + 1 THEN n ELSE tail,
         count' = count + 1, heap' = Items(seq) \cup {n},
         \A m \in Items(seq) : data'[m] = data[m], data'[n] \in Datum
  PROVE  /\ Shape' /\ Contents' \in Seq(Datum)
         /\ IsInsert(Contents', Contents, p, data'[n])
<1>1. /\ seq \in Seq(Node) /\ Distinct(seq) /\ Linked(next, seq) /\ LinkedBack(prev, seq)
      /\ \A m \in Items(seq) : data[m] \in Datum
      /\ Contents = DataOf(data, seq)
  BY Basics
<1>2. Distinct(seq)' /\ Items(seq)' = Items(seq) \cup {n}
  <2>1. Distinct(seq') /\ Items(seq') = Items(seq) \cup {n}
    BY <1>1, InsertDistinct
  <2> QED BY <2>1 DEF Distinct, Items
<1>3. Linked(next', seq') /\ LinkedBack(prev', seq')
  BY <1>1, InsertLinked, InsertLinkedBack
<1>4. Describes(head', tail', count', seq')
  <2>1. Describes(head, tail, count, seq)
    BY DEF IndInv, Shape
  <2> QED BY <1>1, <2>1, InsertDescribes
<1>5. heap' = InList'
  BY <1>2 DEF InList, Items
<1>6. Shape'
  BY <1>2, <1>3, <1>4, <1>5 DEF Shape, Linked, LinkedBack, Describes, ItemAt, ItemBefore
<1>7. \A m \in Items(seq') : data'[m] \in Datum
  BY <1>1, <1>2 DEF Items
<1>8. Contents' = DataOf(data', seq')
  BY DEF Contents, DataOf
<1>9. Contents' \in Seq(Datum)
  BY <1>7, <1>8, DataItems
<1>10. IsInsert(DataOf(data', seq'), DataOf(data, seq), p, data'[n])
  BY <1>1, <1>7, DataInsert
<1> QED BY <1>1, <1>6, <1>8, <1>9, <1>10

\* The item at p has been unlinked and given back.
LEMMA Removed ==
  ASSUME IndInv, pc \notin {"free", "crashed"}, alive, alive', pc' \notin {"free", "crashed"},
         NEW p \in 1..Len(seq), seq' \in Seq(Node), IsWithout(seq', seq, p),
         LinksOut(next', next, seq, p), LinksOutBack(prev', prev, seq, p),
         head' = IF p = 1 THEN ItemAt(seq, 2) ELSE head,
         tail' = IF p = Len(seq) THEN IF p = 1 THEN NULL ELSE seq[p - 1] ELSE tail,
         count' = count - 1, heap' = heap \ {seq[p]}, data' = [data EXCEPT ![seq[p]] = FREED],
         given' = given,
         Leave(Id(data[seq[p]]), freed, popped, freed', popped')
  PROVE  /\ Shape' /\ Owned(data', heap', given', freed', popped')
         /\ Contents' \in Seq(Datum) /\ IsWithout(Contents', Contents, p)
         /\ \A i \in 1..(p - 1) : seq'[i] = seq[i] /\ data'[seq'[i]] = data[seq[i]]
<1>1. /\ seq \in Seq(Node) /\ Distinct(seq) /\ Linked(next, seq) /\ LinkedBack(prev, seq)
      /\ \A m \in Items(seq) : data[m] \in Datum
      /\ Contents = DataOf(data, seq) /\ seq[p] \in Items(seq)
  BY Basics
<1>2. Distinct(seq') /\ Items(seq') = Items(seq) \ {seq[p]}
  BY <1>1, WithoutDistinct
<1>3. Linked(next', seq') /\ LinkedBack(prev', seq')
  BY <1>1, WithoutLinked, WithoutLinkedBack
<1>4. Describes(head', tail', count', seq')
  <2>1. Describes(head, tail, count, seq)
    BY DEF IndInv, Shape
  <2> QED BY <1>1, <2>1, WithoutDescribes
<1>5. heap = Items(seq) /\ heap' = InList'
  <2>1. heap = Items(seq)
    BY DEF IndInv, Shape, InList, Items
  <2> QED BY <1>2, <2>1 DEF InList, Items
<1>6. Shape'
  BY <1>2, <1>3, <1>4, <1>5 DEF Shape, Linked, LinkedBack, Describes, ItemAt, ItemBefore, Distinct
<1>7. data \in [Node -> Datum \cup {FREED}]
  BY DEF IndInv, TypeOK
<1>8. \A m \in Items(seq) : m # seq[p] => data'[m] = data[m]
  BY <1>1, <1>7 DEF Items
<1>9. \A m \in Items(seq') : data'[m] = data[m] /\ data'[m] \in Datum
  BY <1>1, <1>2, <1>8
<1>10. Owned(data', heap', given', freed', popped')
  <2>1. seq[p] \in heap /\ Drops(seq[p], data, heap, data', heap')
    BY <1>1, <1>5, <1>8 DEF Drops
  <2>2. Owned(data, heap, given, freed, popped)
    BY DEF IndInv
  <2>3. Owned(data', heap', given, freed', popped')
    BY <2>1, <2>2, OwnedGone
  <2> QED BY <2>3
<1>11. Contents' = DataOf(data', seq')
  BY DEF Contents, DataOf
<1>12. Contents' \in Seq(Datum)
  BY <1>9, <1>11, DataItems
<1>13. IsWithout(DataOf(data', seq'), DataOf(data, seq), p)
  BY <1>1, <1>9, DataWithout
<1>14. ASSUME NEW i \in 1..(p - 1) PROVE seq'[i] = seq[i] /\ data'[seq'[i]] = data[seq[i]]
  <2>1. i \in 1..Len(seq') /\ seq'[i] = seq[i] /\ Len(seq') \in Nat
    BY <1>1 DEF IsWithout
  <2>2. seq'[i] \in Items(seq')
    BY <2>1 DEF Items
  <2> QED BY <1>9, <2>1, <2>2
<1> QED BY <1>1, <1>6, <1>10, <1>11, <1>12, <1>13, <1>14

\* What the list is between the calls.
LEMMA Idle ==
  ASSUME IndInv, pc = "idle"
  PROVE  /\ heap = Items(seq) /\ want = Contents /\ ret \in allowed
         /\ alive => Describes(head, tail, count, seq)
         /\ Owned(data, Items(seq), given, freed, popped)
<1>1. heap = Items(seq)
  BY DEF IndInv, Shape, InList, Items
<1> QED BY <1>1 DEF IndInv, Shape, MatchesReference

\* A new item for the next object.
LEMMA NewItem ==
  ASSUME IndInv, pc = "idle", NEW n \in Node, NEW k \in Keys, ItemNew(n, Object(k)), Accept
  PROVE  /\ n \notin Items(seq) /\ heap' = Items(seq) \cup {n}
         /\ data' \in [Node -> Datum \cup {FREED}] /\ heap' \in SUBSET Node /\ given' \in 0..MaxInserts
         /\ data'[n] = Object(k) /\ data'[n] \in Datum /\ data'[n] \in Nat \X Keys
         /\ KeyOf(Object(k)) = k
         /\ \A m \in Items(seq) : data'[m] = data[m]
         /\ Owned(data', heap', given', freed', popped')
<1>1. /\ data \in [Node -> Datum \cup {FREED}] /\ heap \in SUBSET Node
      /\ given \in Nat /\ MaxInserts \in Nat /\ given \in 0..MaxInserts
  BY ListAssumption DEF IndInv, TypeOK
<1>2. heap = Items(seq) /\ Owned(data, Items(seq), given, freed, popped)
  BY Idle
<1>3. n \notin Items(seq) /\ heap' = Items(seq) \cup {n} /\ heap' \in SUBSET Node
  BY <1>1, <1>2 DEF ItemNew
<1>4. /\ Object(k) \in Datum /\ Object(k) \in Nat \X Keys /\ KeyOf(Object(k)) = k
      /\ Object(k) = <<given + 1, k>>
  <2>1. given + 1 \in Nat /\ <<given + 1, k>> \in Nat \X Keys
    BY <1>1
  <2> QED BY <2>1, KeyOfDatum DEF Object
<1> HIDE DEF Object
<1>5. data' = [data EXCEPT ![n] = Object(k)]
  BY DEF ItemNew
<1>6. data' \in [Node -> Datum \cup {FREED}] /\ data'[n] = Object(k) /\ \A m \in Items(seq) : data'[m] = data[m]
  BY <1>1, <1>2, <1>3, <1>4, <1>5
<1>7. given' = given + 1 /\ freed' = freed /\ popped' = popped /\ given' \in 0..MaxInserts
  BY <1>1 DEF Accept
<1>8. Owned(data', Items(seq) \cup {n}, given + 1, freed, popped)
  BY <1>1, <1>2, <1>3, <1>4, <1>6, OwnedNew
<1>9. Owned(data', heap', given', freed', popped')
  BY <1>3, <1>7, <1>8
<1> QED BY <1>3, <1>4, <1>6, <1>7, <1>9

\* list_append and the first case of list_insert_sorted.
LEMMA Appended ==
  ASSUME IndInv, NEW n \in Node, NEW k \in Keys, AtOnce(n), HasRoom, AppendItem(n, Object(k)), Accept,
         alive' = alive
  PROVE  /\ TypeOK' /\ Shape' /\ pc' = "idle" /\ ret' = n
         /\ Owned(data', heap', given', freed', popped')
         /\ Contents' = Append(Contents, Object(k))
<1>1. alive /\ pc = "idle" /\ pc' = "idle" /\ ret' = n /\ UNCHANGED locals
  BY DEF AtOnce, locals
<1>2. /\ n \notin Items(seq) /\ heap' = Items(seq) \cup {n}
      /\ data' \in [Node -> Datum \cup {FREED}] /\ heap' \in SUBSET Node /\ given' \in 0..MaxInserts
      /\ data'[n] = Object(k) /\ data'[n] \in Datum
      /\ \A m \in Items(seq) : data'[m] = data[m]
      /\ Owned(data', heap', given', freed', popped')
  BY <1>1, NewItem DEF AppendItem
<1>3. /\ seq \in Seq(Node) /\ Len(seq) \in Nat /\ Distinct(seq) /\ Contents \in Seq(Datum)
      /\ Len(Contents) = Len(seq)
      /\ \A i \in 1..Len(seq) : seq[i] \in Items(seq) /\ seq[i] \in Node /\ seq[i] # NULL
  BY <1>1, Basics
<1>4. /\ count = Len(seq) /\ head = (IF seq = <<>> THEN NULL ELSE seq[1])
      /\ tail = (IF seq = <<>> THEN NULL ELSE seq[Len(seq)])
  BY <1>1, Idle DEF Describes
<1>5. seq' = Append(seq, n) /\ seq' \in Seq(Node) /\ IsInsert(seq', seq, Len(seq) + 1, n)
  BY <1>3, AppendIsInsert DEF AppendItem
<1>6. next \in [Node -> Node \cup {NULL, FREED}] /\ prev \in [Node -> Node \cup {NULL, FREED}]
      /\ tail \in Node \cup {NULL}
  BY DEF IndInv, TypeOK
<1>7. /\ next' \in [Node -> Node \cup {NULL, FREED}] /\ LinksIn(next', next, seq, Len(seq) + 1, n)
      /\ head' = IF Len(seq) + 1 = 1 THEN n ELSE head
  <2>1. CASE seq = <<>>
    <3>1. next' = [next EXCEPT ![n] = NULL] /\ head' = n
      BY <1>4, <2>1 DEF AppendItem, Set
    <3> QED BY <1>6, <2>1, <3>1 DEF LinksIn, ItemAt
  <2>2. CASE seq # <<>>
    <3>1. Len(seq) \in 1..Len(seq) /\ head # NULL /\ tail = seq[Len(seq)] /\ tail # n /\ tail # NULL /\ tail \in Node
      BY <1>2, <1>3, <1>4, <2>2
    <3>2. next' = [[next EXCEPT ![tail] = n] EXCEPT ![n] = NULL] /\ head' = head
      BY <3>1 DEF AppendItem, Set
    <3>3. \A i \in 1..Len(seq) : i # Len(seq) => seq[i] # tail /\ seq[i] # n
      BY <1>2, <1>3, <3>1 DEF Distinct
    <3>4. /\ next' \in [Node -> Node \cup {NULL, FREED}] /\ next'[n] = NULL /\ next'[tail] = n
          /\ \A i \in 1..Len(seq) : i # Len(seq) => next'[seq[i]] = next[seq[i]]
      BY <1>3, <1>6, <3>1, <3>2, <3>3
    <3> QED BY <1>3, <3>1, <3>2, <3>4 DEF LinksIn, ItemAt
  <2> QED BY <2>1, <2>2
<1>8. tail' = n /\ count' = count + 1 /\ prev' = [prev EXCEPT ![n] = tail]
  BY DEF AppendItem
<1>9. prev' \in [Node -> Node \cup {NULL, FREED}] /\ LinksInBack(prev', prev, seq, Len(seq) + 1, n)
  <2>1. \A i \in 1..Len(seq) : seq[i] # n
    BY <1>2, <1>3
  <2>2. tail = ItemBefore(seq, Len(seq) + 1)
    <3>1. CASE seq = <<>>
      BY <1>4, <3>1 DEF ItemBefore
    <3>2. CASE seq # <<>>
      BY <1>3, <1>4, <3>2 DEF ItemBefore
    <3> QED BY <3>1, <3>2
  <2> QED BY <1>3, <1>6, <1>8, <2>1, <2>2 DEF LinksInBack
<1> DEFINE p == Len(seq) + 1
<1>10. /\ p \in 1..(Len(seq) + 1) /\ IsInsert(seq', seq, p, n)
       /\ LinksIn(next', next, seq, p, n) /\ LinksInBack(prev', prev, seq, p, n)
       /\ head' = (IF p = 1 THEN n ELSE head) /\ tail' = (IF p = Len(seq) + 1 THEN n ELSE tail)
       /\ p = Len(Contents) + 1
  BY <1>3, <1>5, <1>7, <1>8, <1>9
<1> HIDE DEF p
<1>11. Shape' /\ Contents' \in Seq(Datum) /\ IsInsert(Contents', Contents, p, data'[n])
  BY <1>1, <1>2, <1>5, <1>8, <1>10, Inserted
<1>12. Contents' = Append(Contents, Object(k))
  <2>1. /\ Append(Contents, Object(k)) \in Seq(Datum)
        /\ IsInsert(Append(Contents, Object(k)), Contents, p, Object(k))
    BY <1>2, <1>3, <1>10, AppendIsInsert
  <2>2. p \in 1..(Len(Contents) + 1)
    BY <1>3, <1>10
  <2>3. IsInsert(Contents', Contents, p, Object(k)) /\ Contents' \in Seq(Datum)
    BY <1>2, <1>11
  <2> QED BY ONLY <1>3, <2>1, <2>2, <2>3, InsertUnique
<1>13. TypeOK'
  <2>1. head' \in Node \cup {NULL} /\ tail' \in Node \cup {NULL} /\ count' \in 0..SIZE_MAX
    BY <1>7, <1>8, ListAssumption DEF IndInv, TypeOK, HasRoom
  <2> QED BY <1>1, <1>2, <1>5, <1>7, <1>9, <2>1 DEF IndInv, TypeOK, locals
<1> QED BY <1>1, <1>2, <1>11, <1>12, <1>13

\* A new item in front of the others.
LEMMA Prepended ==
  ASSUME IndInv, NEW n \in Node, NEW k \in Keys, AtOnce(n), HasRoom, ItemNew(n, Object(k)), Accept,
         alive' = alive, next' = [next EXCEPT ![n] = head], head' = n, count' = count + 1,
         seq' = <<n>> \o seq, tail' = IF seq = <<>> THEN n ELSE tail,
         prev' \in [Node -> Node \cup {NULL, FREED}], LinksInBack(prev', prev, seq, 1, n)
  PROVE  /\ TypeOK' /\ Shape' /\ pc' = "idle" /\ ret' = n
         /\ Owned(data', heap', given', freed', popped')
         /\ Contents' = <<Object(k)>> \o Contents
<1>1. alive /\ alive' /\ pc = "idle" /\ pc' = "idle" /\ ret' = n /\ UNCHANGED locals
  BY DEF AtOnce, locals
<1>2. /\ n \notin Items(seq) /\ heap' = Items(seq) \cup {n}
      /\ data' \in [Node -> Datum \cup {FREED}] /\ heap' \in SUBSET Node /\ given' \in 0..MaxInserts
      /\ data'[n] = Object(k) /\ data'[n] \in Datum
      /\ \A m \in Items(seq) : data'[m] = data[m]
      /\ Owned(data', heap', given', freed', popped')
  BY <1>1, NewItem
<1>3. /\ seq \in Seq(Node) /\ Len(seq) \in Nat /\ Contents \in Seq(Datum)
      /\ \A i \in 1..Len(seq) : seq[i] \in Items(seq) /\ seq[i] \in Node /\ seq[i] # NULL
  BY <1>1, Basics
<1>4. count = Len(seq) /\ head = (IF seq = <<>> THEN NULL ELSE seq[1])
  BY <1>1, Idle DEF Describes
<1>5. seq' \in Seq(Node) /\ IsInsert(seq', seq, 1, n)
  BY <1>3, PrependIsInsert
<1>6. next \in [Node -> Node \cup {NULL, FREED}] /\ head \in Node \cup {NULL}
  BY DEF IndInv, TypeOK
<1>7. next' \in [Node -> Node \cup {NULL, FREED}] /\ LinksIn(next', next, seq, 1, n)
  <2>1. \A i \in 1..Len(seq) : seq[i] # n
    BY <1>2, <1>3
  <2>2. head = ItemAt(seq, 1)
    BY <1>3, <1>4 DEF ItemAt
  <2> QED BY <1>3, <1>6, <2>1, <2>2 DEF LinksIn
<1>8. tail' = IF 1 = Len(seq) + 1 THEN n ELSE tail
  BY <1>3
<1> DEFINE p == 1
<1>9. /\ p \in 1..(Len(seq) + 1) /\ IsInsert(seq', seq, p, n)
      /\ LinksIn(next', next, seq, p, n) /\ LinksInBack(prev', prev, seq, p, n)
      /\ head' = (IF p = 1 THEN n ELSE head) /\ tail' = (IF p = Len(seq) + 1 THEN n ELSE tail)
      /\ p \in 1..(Len(Contents) + 1)
  BY <1>3, <1>5, <1>7, <1>8
<1>10. /\ <<Object(k)>> \o Contents \in Seq(Datum)
       /\ IsInsert(<<Object(k)>> \o Contents, Contents, p, Object(k))
  BY <1>2, <1>3, PrependIsInsert
<1> HIDE DEF p
<1>11. Shape' /\ Contents' \in Seq(Datum) /\ IsInsert(Contents', Contents, p, data'[n])
  BY <1>1, <1>2, <1>5, <1>9, Inserted
<1>12. Contents' = <<Object(k)>> \o Contents
  <2>1. IsInsert(Contents', Contents, p, Object(k)) /\ Contents' \in Seq(Datum)
    BY <1>2, <1>11
  <2> QED BY ONLY <1>3, <1>9, <1>10, <2>1, InsertUnique
<1>13. TypeOK'
  <2>1. head' \in Node \cup {NULL} /\ tail' \in Node \cup {NULL} /\ count' \in 0..SIZE_MAX
    BY ListAssumption DEF IndInv, TypeOK, HasRoom
  <2> QED BY <1>1, <1>2, <1>5, <1>7, <2>1 DEF IndInv, TypeOK, locals
<1> QED BY <1>1, <1>2, <1>11, <1>12, <1>13

\* list_append: want' = Append(want, ...).
LEMMA AppendCallStep ==
  ASSUME IndInv, NEW n \in Node, NEW k \in Keys, AppendCall(n, k)
  PROVE  IndInv'
<1>1. /\ TypeOK' /\ Shape' /\ pc' = "idle" /\ ret' = n
      /\ Owned(data', heap', given', freed', popped')
      /\ Contents' = Append(Contents, Object(k))
  BY Appended DEF AppendCall
<1>2. want = Contents /\ want' = Append(want, Object(k)) /\ allowed' = {n}
  BY Idle DEF AppendCall, AtOnce
<1> QED BY <1>1, <1>2, AfterCall

\* list_prepend: the former first item points back to the new one.
LEMMA PrependStep ==
  ASSUME IndInv, NEW n \in Node, NEW k \in Keys, Prepend(n, k)
  PROVE  IndInv'
<1>1. /\ AtOnce(n) /\ HasRoom /\ ItemNew(n, Object(k)) /\ Accept /\ alive' = alive
      /\ next' = [next EXCEPT ![n] = head] /\ head' = n /\ count' = count + 1 /\ seq' = <<n>> \o seq
      /\ prev' = [Set(prev, head, n) EXCEPT ![n] = NULL] /\ tail' = (IF head = NULL THEN n ELSE tail)
      /\ want' = <<Object(k)>> \o want /\ allowed' = {n} /\ pc = "idle" /\ alive
  BY DEF Prepend, PrependItem, AtOnce
<1>2. /\ seq \in Seq(Node) /\ Len(seq) \in Nat /\ Distinct(seq) /\ Items(seq) \subseteq heap
      /\ \A i \in 1..Len(seq) : seq[i] \in Items(seq) /\ seq[i] \in Node /\ seq[i] # NULL
  BY <1>1, Basics
<1>3. want = Contents /\ head = IF seq = <<>> THEN NULL ELSE seq[1]
  BY <1>1, Idle DEF Describes
<1>4. prev \in [Node -> Node \cup {NULL, FREED}]
  BY DEF IndInv, TypeOK
<1>5. \A i \in 1..Len(seq) : seq[i] # n
  BY <1>1, <1>2 DEF ItemNew
<1>6. /\ prev' \in [Node -> Node \cup {NULL, FREED}] /\ LinksInBack(prev', prev, seq, 1, n)
      /\ tail' = IF seq = <<>> THEN n ELSE tail
  <2>1. CASE seq = <<>>
    <3>1. prev' = [prev EXCEPT ![n] = NULL] /\ tail' = n
      BY <1>1, <1>3, <2>1 DEF Set
    <3> QED BY <1>4, <2>1, <3>1 DEF LinksInBack, ItemBefore
  <2>2. CASE seq # <<>>
    <3>1. 1 \in 1..Len(seq) /\ head = seq[1] /\ head # NULL /\ head \in Node /\ head # n
      BY <1>2, <1>3, <1>5, <2>2
    <3>2. prev' = [[prev EXCEPT ![head] = n] EXCEPT ![n] = NULL] /\ tail' = tail
      BY <1>1, <3>1 DEF Set
    <3>3. \A i \in 1..Len(seq) : i # 1 => seq[i] # head
      BY <1>2, <3>1 DEF Distinct
    <3>4. /\ prev' \in [Node -> Node \cup {NULL, FREED}] /\ prev'[n] = NULL /\ prev'[seq[1]] = n
          /\ \A i \in 1..Len(seq) : i # 1 => prev'[seq[i]] = prev[seq[i]]
      BY <1>2, <1>4, <1>5, <3>1, <3>2, <3>3
    <3> QED BY <2>2, <3>2, <3>4 DEF LinksInBack, ItemBefore
  <2> QED BY <2>1, <2>2
<1>7. /\ TypeOK' /\ Shape' /\ pc' = "idle" /\ ret' = n
      /\ Owned(data', heap', given', freed', popped')
      /\ Contents' = <<Object(k)>> \o Contents
  BY <1>1, <1>6, Prepended
<1> QED BY <1>1, <1>3, <1>7, AfterCall

\* Where the reference puts a datum that is smaller than the last one.
LEMMA SortedPlace ==
  ASSUME NEW s \in Seq(Datum), NEW d \in Datum, s # <<>>, KeyOf(s[Len(s)]) > KeyOf(d),
         NEW p \in 1..Len(s), KeyOf(s[p]) >= KeyOf(d), \A i \in 1..(p - 1) : KeyOf(s[i]) < KeyOf(d)
  PROVE  SortedInsert(s, d) = InsertBefore(s, p, d)
<1>1. KeyOf(d) \in Nat /\ \A i \in 1..Len(s) : KeyOf(s[i]) \in Nat
  BY KeyOfDatum
<1> DEFINE I == {i \in 1..Len(s) : KeyOf(s[i]) >= KeyOf(d)}
<1>2. I \in SUBSET Nat /\ p \in I /\ \A j \in I : p <= j
  BY <1>1
<1>3. SortedInsert(s, d) = InsertBefore(s, Least(I), d)
  <2>1. Len(s) \in 1..Len(s)
    OBVIOUS
  <2>2. ~(KeyOf(s[Len(s)]) <= KeyOf(d))
    BY <1>1, <2>1
  <2> QED BY <2>2 DEF SortedInsert
<1> HIDE DEF I
<1>4. Least(I) = p
  BY <1>2, LeastOf
<1> QED BY <1>3, <1>4

\* What list_insert_sorted compares: the keys of the first and the last item.
LEMMA EndKeys ==
  ASSUME IndInv, pc = "idle", alive, NEW k \in Keys
  PROVE  /\ BecomesLast(k) => Contents = <<>> \/ KeyOf(Contents[Len(Contents)]) <= k
         /\ ~BecomesLast(k) => /\ seq # <<>> /\ Contents # <<>> /\ 1 \in 1..Len(seq) /\ head = seq[1]
                               /\ Len(Contents) \in 1..Len(seq) /\ KeyOf(Contents[Len(Contents)]) > k
                               /\ KeyOf(Contents[1]) = KeyOf(data[head])
<1>1. /\ seq \in Seq(Node) /\ Len(seq) \in Nat /\ Contents \in Seq(Datum) /\ Len(Contents) = Len(seq)
      /\ \A i \in 1..Len(seq) : Contents[i] = data[seq[i]] /\ data[seq[i]] \in Datum
  BY Basics
<1>2. /\ count = Len(seq) /\ tail = (IF seq = <<>> THEN NULL ELSE seq[Len(seq)])
      /\ head = IF seq = <<>> THEN NULL ELSE seq[1]
  BY Idle DEF Describes
<1>3. CASE Len(seq) = 0
  BY <1>1, <1>2, <1>3 DEF BecomesLast
<1>4. CASE Len(seq) # 0
  <2>1. Len(seq) \in 1..Len(seq) /\ 1 \in 1..Len(seq) /\ seq # <<>> /\ Contents # <<>> /\ tail = seq[Len(seq)]
        /\ count # 0 /\ head = seq[1]
    BY <1>1, <1>2, <1>4
  <2>2. KeyOf(data[tail]) = KeyOf(Contents[Len(Contents)]) /\ KeyOf(data[tail]) \in Nat /\ k \in Nat
    BY <1>1, <2>1, KeyOfDatum, ListAssumption
  <2>3. ~BecomesLast(k) => KeyOf(data[tail]) > k
    BY <2>1, <2>2 DEF BecomesLast
  <2>4. BecomesLast(k) => KeyOf(data[tail]) <= k
    BY <2>1 DEF BecomesLast
  <2> QED BY <1>1, <2>1, <2>2, <2>3, <2>4
<1> QED BY <1>3, <1>4

\* list_insert_sorted at one of the ends: that is where the reference puts the
\* datum.
LEMMA InsertSortedStep ==
  ASSUME IndInv, NEW n \in Node, NEW k \in Keys, InsertSorted(n, k)
  PROVE  IndInv'
<1>1. /\ pc = "idle" /\ alive /\ AtOnce(n) /\ HasRoom /\ Accept /\ alive' = alive
      /\ want' = SortedInsert(want, Object(k)) /\ allowed' = {n}
  BY DEF InsertSorted, AtOnce
<1>2. want = Contents /\ Contents \in Seq(Datum)
  BY <1>1, Idle, Basics
<1>3. CASE BecomesLast(k) /\ AppendItem(n, Object(k))
  <2>1. /\ TypeOK' /\ Shape' /\ pc' = "idle" /\ ret' = n
        /\ Owned(data', heap', given', freed', popped')
        /\ Contents' = Append(Contents, Object(k))
    BY <1>1, <1>3, Appended
  <2>2. KeyOf(Object(k)) = k
    BY <1>1, <1>3, NewItem DEF AppendItem
  <2>3. want' = Append(Contents, Object(k))
    BY <1>1, <1>2, <1>3, <2>2, EndKeys DEF SortedInsert
  <2> QED BY <1>1, <2>1, <2>3, AfterCall
<1>4. CASE BecomesFirst(k) /\ LinkFirst(n, Object(k))
  <2>1. /\ ItemNew(n, Object(k)) /\ next' = [next EXCEPT ![n] = head]
        /\ prev' = [prev EXCEPT ![n] = prev[head], ![head] = n]
        /\ head' = n /\ count' = count + 1 /\ seq' = <<n>> \o seq /\ tail' = tail
    BY <1>4 DEF LinkFirst
  <2>2. ~BecomesLast(k) /\ KeyOf(data[head]) >= k
    BY <1>4 DEF BecomesFirst
  <2>3. /\ seq # <<>> /\ Contents # <<>> /\ 1 \in 1..Len(seq) /\ head = seq[1]
        /\ Len(Contents) \in 1..Len(seq) /\ KeyOf(Contents[Len(Contents)]) > k
        /\ KeyOf(Contents[1]) >= k
    BY <1>1, <2>2, EndKeys
  <2>4. /\ seq \in Seq(Node) /\ Len(seq) \in Nat /\ Distinct(seq) /\ Items(seq) \subseteq heap /\ LinkedBack(prev, seq)
        /\ \A i \in 1..Len(seq) : seq[i] \in Items(seq) /\ seq[i] \in Node /\ seq[i] # NULL
    BY <1>1, Basics
  <2>5. \A i \in 1..Len(seq) : seq[i] # n /\ (i # 1 => seq[i] # head)
    BY <2>1, <2>3, <2>4 DEF ItemNew, Distinct
  <2>6. prev[head] = NULL
    BY <2>3, <2>4 DEF LinkedBack, ItemBefore
  <2>7. prev' \in [Node -> Node \cup {NULL, FREED}] /\ LinksInBack(prev', prev, seq, 1, n)
    <3>1. prev \in [Node -> Node \cup {NULL, FREED}]
      BY DEF IndInv, TypeOK
    <3>2. /\ prev' \in [Node -> Node \cup {NULL, FREED}] /\ prev'[n] = NULL /\ prev'[seq[1]] = n
          /\ \A i \in 1..Len(seq) : i # 1 => prev'[seq[i]] = prev[seq[i]]
      BY <2>1, <2>3, <2>4, <2>5, <2>6, <3>1
    <3> QED BY <3>2 DEF LinksInBack, ItemBefore
  <2>8. /\ TypeOK' /\ Shape' /\ pc' = "idle" /\ ret' = n
        /\ Owned(data', heap', given', freed', popped')
        /\ Contents' = <<Object(k)>> \o Contents
    <3>1. tail' = IF seq = <<>> THEN n ELSE tail
      BY <2>1, <2>3
    <3> QED BY <1>1, <2>1, <2>7, <3>1, Prepended
  <2>9. KeyOf(Object(k)) = k /\ Object(k) \in Datum
    BY <1>1, <2>1, NewItem
  <2> DEFINE p == 1
  <2>10. p \in 1..Len(Contents) /\ KeyOf(Contents[p]) >= KeyOf(Object(k)) /\ p \in 1..(Len(Contents) + 1)
         /\ \A i \in 1..(p - 1) : KeyOf(Contents[i]) < KeyOf(Object(k))
    BY <1>2, <2>3, <2>9
  <2>11. /\ <<Object(k)>> \o Contents \in Seq(Datum)
         /\ IsInsert(<<Object(k)>> \o Contents, Contents, p, Object(k))
    BY <1>2, <2>9, PrependIsInsert
  <2> HIDE DEF p
  <2>12. KeyOf(Contents[Len(Contents)]) > KeyOf(Object(k))
    BY <2>3, <2>9
  <2>13. SortedInsert(Contents, Object(k)) = InsertBefore(Contents, p, Object(k))
    BY <1>2, <2>3, <2>9, <2>10, <2>12, SortedPlace
  <2>14. /\ InsertBefore(Contents, p, Object(k)) \in Seq(Datum)
         /\ IsInsert(InsertBefore(Contents, p, Object(k)), Contents, p, Object(k))
    BY <1>2, <2>9, <2>10, InsertItems
  <2>15. InsertBefore(Contents, p, Object(k)) = <<Object(k)>> \o Contents
    BY ONLY <1>2, <2>10, <2>11, <2>14, InsertUnique
  <2> QED BY <1>1, <1>2, <2>8, <2>13, <2>15, AfterCall
<1> QED BY <1>3, <1>4 DEF InsertSorted

\* list_insert_sorted between two items: the process ends with a new item that
\* is not linked.
LEMMA InsertSortedMiddleStep ==
  ASSUME IndInv, NEW n \in Node, NEW k \in Keys, InsertSortedMiddle(n, k)
  PROVE  IndInv'
<1>1. /\ alive /\ pc = "idle" /\ pc' = "crashed" /\ alive' = alive /\ head' = head /\ tail' = tail
      /\ count' = count /\ seq' = seq /\ key' = key /\ iter' = iter /\ end' = end
      /\ next' = [next EXCEPT ![n] = NULL] /\ prev' = [prev EXCEPT ![n] = NULL]
      /\ ItemNew(n, Object(k)) /\ Accept
  BY DEF InsertSortedMiddle, list
<1>2. /\ n \notin Items(seq) /\ heap' = Items(seq) \cup {n}
      /\ data' \in [Node -> Datum \cup {FREED}] /\ heap' \in SUBSET Node /\ given' \in 0..MaxInserts
      /\ Owned(data', heap', given', freed', popped')
  BY <1>1, NewItem
<1>3. /\ seq \in Seq(Node) /\ Distinct(seq) /\ InList = Items(seq)
      /\ Linked(next, seq) /\ LinkedBack(prev, seq)
      /\ \A i \in 1..Len(seq) : seq[i] \in Items(seq) /\ seq[i] \in Node
  BY <1>1, Basics
<1>4. next \in [Node -> Node \cup {NULL, FREED}] /\ prev \in [Node -> Node \cup {NULL, FREED}]
  BY DEF IndInv, TypeOK
<1>5. /\ next' \in [Node -> Node \cup {NULL, FREED}] /\ prev' \in [Node -> Node \cup {NULL, FREED}]
      /\ \A i \in 1..Len(seq) : next'[seq[i]] = next[seq[i]] /\ prev'[seq[i]] = prev[seq[i]]
  BY <1>1, <1>2, <1>3, <1>4
<1>6. TypeOK'
  BY <1>1, <1>2, <1>5 DEF IndInv, TypeOK
<1>7. Shape'
  <2>1. Linked(next', seq) /\ LinkedBack(prev', seq)
    BY <1>3, <1>5 DEF Linked, LinkedBack
  <2>2. InList' \subseteq heap'
    BY <1>1, <1>2, <1>3 DEF InList, Items
  <2>3. Describes(head, tail, count, seq)
    BY <1>1, Idle
  <2> QED BY <1>1, <1>3, <2>1, <2>2, <2>3
          DEF Shape, Linked, LinkedBack, Describes, Distinct, ItemAt, ItemBefore
<1> QED BY <1>1, <1>2, <1>6, <1>7 DEF IndInv, InRemoveByData, InFind, InFree, MatchesReference

\* A step that leaves the items alone.
LEMMA SameList ==
  ASSUME IndInv, UNCHANGED <<alive, nodes, list, seq, owners>>,
         pc \notin {"free", "crashed"}, pc' \notin {"free", "crashed"}, alive \/ pc' = "idle"
  PROVE  /\ Shape' /\ Owned(data', heap', given', freed', popped') /\ Contents' = Contents
         /\ next' = next /\ prev' = prev /\ data' = data /\ heap' = heap /\ head' = head /\ tail' = tail
         /\ count' = count /\ seq' = seq /\ given' = given /\ alive' = alive
<1>1. /\ next' = next /\ prev' = prev /\ data' = data /\ heap' = heap /\ head' = head /\ tail' = tail
      /\ count' = count /\ seq' = seq /\ given' = given /\ alive' = alive /\ freed' = freed /\ popped' = popped
  BY DEF nodes, list, owners
<1>2. Owned(data', heap', given', freed', popped')
  BY <1>1 DEF IndInv
<1>3. Contents' = Contents /\ InList' = InList
  BY <1>1 DEF Contents, InList
<1>4. Shape'
  BY <1>1, <1>3 DEF IndInv, Shape, Distinct, Linked, LinkedBack, Describes, ItemAt, ItemBefore
<1> QED BY <1>1, <1>2, <1>3, <1>4

\* A call that changes nothing and returns at once.
LEMMA OnlyReturns ==
  ASSUME IndInv, pc = "idle", UNCHANGED <<alive, nodes, list, seq, owners, locals>>,
         want' = want, ret' \in allowed'
  PROVE  IndInv'
<1>1. pc' = "idle" /\ key' = key /\ iter' = iter /\ end' = end
  BY DEF locals
<1>2. /\ Shape' /\ Owned(data', heap', given', freed', popped') /\ Contents' = Contents
      /\ next' = next /\ prev' = prev /\ data' = data /\ heap' = heap /\ head' = head /\ tail' = tail
      /\ count' = count /\ seq' = seq /\ given' = given /\ alive' = alive
  BY <1>1, SameList
<1>3. TypeOK'
  BY <1>1, <1>2 DEF IndInv, TypeOK
<1>4. Contents' = want'
  BY <1>2, Idle
<1> QED BY <1>1, <1>2, <1>3, <1>4, AfterCall

\* The inserting functions on a full list.
LEMMA RefuseStep ==
  ASSUME IndInv, Refuse
  PROVE  IndInv'
<1>1. /\ pc = "idle" /\ UNCHANGED <<alive, nodes, list, seq, owners, locals>>
      /\ want' = want /\ ret' = NULL /\ allowed' = {NULL}
  BY DEF Refuse, AtOnce
<1> QED BY <1>1, OnlyReturns

\* list_pop on an empty list.
LEMMA PopEmptyStep ==
  ASSUME IndInv, PopEmpty
  PROVE  IndInv'
<1>1. /\ pc = "idle" /\ alive /\ head = NULL /\ UNCHANGED <<alive, nodes, list, seq, owners, locals>>
      /\ want' = want /\ ret' = NULL /\ allowed' = {IF want = <<>> THEN NULL ELSE Head(want)}
  BY DEF PopEmpty, AtOnce
<1>2. want = <<>>
  <2>1. /\ head = (IF seq = <<>> THEN NULL ELSE seq[1]) /\ want = Contents
        /\ Len(Contents) = Len(seq) /\ Contents \in Seq(Datum) /\ seq \in Seq(Node)
        /\ \A i \in 1..Len(seq) : seq[i] # NULL
    BY <1>1, Idle, Basics DEF Describes
  <2>2. Len(seq) = 0
    BY <1>1, <2>1
  <2>3. \A s \in Seq(Datum) : Len(s) = 0 => s = <<>>
    BY EmptySeq
  <2> QED BY <2>1, <2>2, <2>3
<1> QED BY <1>1, <1>2, OnlyReturns

\* The types of the fields that unlinking an item changes.
ListTypes == /\ next \in [Node -> Node \cup {NULL, FREED}]
             /\ prev \in [Node -> Node \cup {NULL, FREED}]
             /\ data \in [Node -> Datum \cup {FREED}]
             /\ heap \in SUBSET Node /\ seq \in Seq(Node)
             /\ head \in Node \cup {NULL} /\ tail \in Node \cup {NULL}
             /\ count \in 0..SIZE_MAX

\* An item fewer: the types of count, head and tail.
LEMMA OneLess ==
  ASSUME IndInv, alive, NEW p \in 1..Len(seq),
         head' = IF p = 1 THEN ItemAt(seq, 2) ELSE head,
         tail' = IF p = Len(seq) THEN IF p = 1 THEN NULL ELSE seq[p - 1] ELSE tail,
         count' = count - 1
  PROVE  head' \in Node \cup {NULL} /\ tail' \in Node \cup {NULL} /\ count' \in 0..SIZE_MAX
<1>1. seq \in Seq(Node) /\ Len(seq) \in Nat /\ head \in Node \cup {NULL} /\ tail \in Node \cup {NULL}
      /\ count \in 0..SIZE_MAX /\ SIZE_MAX \in Nat
  BY ListAssumption DEF IndInv, TypeOK
<1>2. count = Len(seq)
  BY DEF IndInv, Shape, Describes
<1>3. head' \in Node \cup {NULL}
  BY <1>1 DEF ItemAt
<1>4. tail' \in Node \cup {NULL}
  <2>1. p # 1 => p - 1 \in 1..Len(seq)
    BY <1>1
  <2> QED BY <1>1, <2>1
<1>5. count' \in 0..SIZE_MAX
  BY <1>1, <1>2
<1> QED BY <1>3, <1>4, <1>5

\* _list_detach of the item at p: both neighbours, where there are any, are
\* linked to each other.
LEMMA Detached ==
  ASSUME NEW s \in Seq(Node), Distinct(s), NEW p \in 1..Len(s), Linked(next, s), LinkedBack(prev, s),
         next \in [Node -> Node \cup {NULL, FREED}], prev \in [Node -> Node \cup {NULL, FREED}],
         \A i \in 1..Len(s) : s[i] # NULL,
         next' = [Set(next, prev[s[p]], next[s[p]]) EXCEPT ![s[p]] = FREED],
         prev' = [Set(prev, next[s[p]], prev[s[p]]) EXCEPT ![s[p]] = FREED]
  PROVE  /\ next' \in [Node -> Node \cup {NULL, FREED}] /\ LinksOut(next', next, s, p)
         /\ prev' \in [Node -> Node \cup {NULL, FREED}] /\ LinksOutBack(prev', prev, s, p)
         /\ prev[s[p]] = ItemBefore(s, p) /\ next[s[p]] = ItemAt(s, p + 1)
         /\ prev[s[p]] = NULL <=> p = 1
         /\ next[s[p]] = NULL <=> p = Len(s)
<1>1. prev[s[p]] = ItemBefore(s, p) /\ next[s[p]] = ItemAt(s, p + 1)
  BY DEF Linked, LinkedBack
<1>2. Len(s) \in Nat /\ s[p] \in Node /\ \A i \in 1..Len(s) : s[i] \in Node
  OBVIOUS
<1>3. prev[s[p]] = NULL <=> p = 1
  <2>1. p # 1 => p - 1 \in 1..Len(s) /\ prev[s[p]] = s[p - 1]
    BY <1>1, <1>2 DEF ItemBefore
  <2> QED BY <1>1, <2>1 DEF ItemBefore
<1>4. next[s[p]] = NULL <=> p = Len(s)
  <2>1. p # Len(s) => p + 1 \in 1..Len(s) /\ next[s[p]] = s[p + 1]
    BY <1>1, <1>2 DEF ItemAt
  <2>2. p = Len(s) => next[s[p]] = NULL
    BY <1>1, <1>2 DEF ItemAt
  <2> QED BY <2>1, <2>2
<1>5. \A i \in 1..Len(s) : i # p => s[i] # s[p]
  BY DEF Distinct
<1>6. next' \in [Node -> Node \cup {NULL, FREED}] /\ LinksOut(next', next, s, p)
  <2>1. CASE p = 1
    <3>1. next' = [next EXCEPT ![s[p]] = FREED]
      BY <1>3, <2>1 DEF Set
    <3>2. /\ next' \in [Node -> Node \cup {NULL, FREED}]
          /\ \A i \in 1..Len(s) : i # p => next'[s[i]] = next[s[i]]
      BY <1>2, <1>5, <3>1
    <3> QED BY <2>1, <3>2 DEF LinksOut
  <2>2. CASE p # 1
    <3> DEFINE m == s[p - 1]
    <3>1. p - 1 \in 1..Len(s) /\ p - 1 # p /\ prev[s[p]] = m /\ m # NULL
      BY <1>1, <1>2, <2>2 DEF ItemBefore
    <3>2. next' = [[next EXCEPT ![m] = next[s[p]]] EXCEPT ![s[p]] = FREED]
      BY <3>1 DEF Set
    <3>3. m \in Node /\ m # s[p] /\ \A i \in 1..Len(s) : i # p - 1 => s[i] # m
      BY <1>2, <1>5, <3>1 DEF Distinct
    <3>4. next[s[p]] \in Node \cup {NULL, FREED}
      BY <1>2
    <3>5. /\ next' \in [Node -> Node \cup {NULL, FREED}] /\ next'[m] = next[s[p]]
          /\ \A i \in 1..Len(s) : i # p - 1 /\ i # p => next'[s[i]] = next[s[i]]
      BY <1>2, <1>5, <3>2, <3>3, <3>4
    <3> QED BY <1>1, <3>5 DEF LinksOut
  <2> QED BY <2>1, <2>2
<1>7. prev' \in [Node -> Node \cup {NULL, FREED}] /\ LinksOutBack(prev', prev, s, p)
  <2>1. CASE p = Len(s)
    <3>1. prev' = [prev EXCEPT ![s[p]] = FREED]
      BY <1>4, <2>1 DEF Set
    <3>2. /\ prev' \in [Node -> Node \cup {NULL, FREED}]
          /\ \A i \in 1..Len(s) : i # p => prev'[s[i]] = prev[s[i]]
      BY <1>2, <1>5, <3>1
    <3> QED BY <1>2, <2>1, <3>2 DEF LinksOutBack
  <2>2. CASE p # Len(s)
    <3> DEFINE m == s[p + 1]
    <3>1. p + 1 \in 1..Len(s) /\ p + 1 # p /\ next[s[p]] = m /\ m # NULL
      BY <1>1, <1>2, <2>2 DEF ItemAt
    <3>2. prev' = [[prev EXCEPT ![m] = prev[s[p]]] EXCEPT ![s[p]] = FREED]
      BY <3>1 DEF Set
    <3>3. m \in Node /\ m # s[p] /\ \A i \in 1..Len(s) : i # p + 1 => s[i] # m
      BY <1>2, <1>5, <3>1 DEF Distinct
    <3>4. prev[s[p]] \in Node \cup {NULL, FREED}
      BY <1>2
    <3>5. /\ prev' \in [Node -> Node \cup {NULL, FREED}] /\ prev'[m] = prev[s[p]]
          /\ \A i \in 1..Len(s) : i # p /\ i # p + 1 => prev'[s[i]] = prev[s[i]]
      BY <1>2, <1>5, <3>2, <3>3, <3>4
    <3> QED BY <1>1, <3>5 DEF LinksOutBack
  <2> QED BY <2>1, <2>2
<1> QED BY <1>1, <1>3, <1>4, <1>6, <1>7

\* list_remove of the item at p.
LEMMA Unlinked ==
  ASSUME IndInv, pc \notin {"free", "crashed"}, alive, pc' \notin {"free", "crashed"},
         NEW p \in 1..Len(seq), RemoveItem(seq[p]), alive' = alive, given' = given, popped' = popped
  PROVE  /\ Shape' /\ Owned(data', heap', given', freed', popped') /\ ListTypes'
         /\ Contents' \in Seq(Datum) /\ IsWithout(Contents', Contents, p)
         /\ seq' \in Seq(Node) /\ IsWithout(seq', seq, p) /\ next[seq[p]] = ItemAt(seq, p + 1)
         /\ \A i \in 1..(p - 1) : seq'[i] = seq[i] /\ data'[seq'[i]] = data[seq[i]]
<1>1. /\ seq \in Seq(Node) /\ Len(seq) \in Nat /\ Distinct(seq) /\ Linked(next, seq) /\ LinkedBack(prev, seq)
      /\ \A i \in 1..Len(seq) : seq[i] \in Node /\ seq[i] # NULL
  BY Basics
<1>2. /\ next \in [Node -> Node \cup {NULL, FREED}] /\ prev \in [Node -> Node \cup {NULL, FREED}]
      /\ data \in [Node -> Datum \cup {FREED}] /\ heap \in SUBSET Node
  BY DEF IndInv, TypeOK
<1>3. IndexOf(seq, seq[p]) = p
  BY <1>1, PlaceOf
<1>4. /\ head' = (IF prev[seq[p]] = NULL THEN next[seq[p]] ELSE head)
      /\ tail' = (IF next[seq[p]] = NULL THEN prev[seq[p]] ELSE tail)
      /\ next' = [Set(next, prev[seq[p]], next[seq[p]]) EXCEPT ![seq[p]] = FREED]
      /\ prev' = [Set(prev, next[seq[p]], prev[seq[p]]) EXCEPT ![seq[p]] = FREED]
      /\ heap' = heap \ {seq[p]} /\ data' = [data EXCEPT ![seq[p]] = FREED]
      /\ freed' = freed \cup Id(data[seq[p]])
      /\ count' = count - 1 /\ seq' = Without(seq, p)
  BY <1>3 DEF RemoveItem, Unlink, Release
<1>5. /\ next' \in [Node -> Node \cup {NULL, FREED}] /\ LinksOut(next', next, seq, p)
      /\ prev' \in [Node -> Node \cup {NULL, FREED}] /\ LinksOutBack(prev', prev, seq, p)
      /\ prev[seq[p]] = ItemBefore(seq, p) /\ next[seq[p]] = ItemAt(seq, p + 1)
      /\ prev[seq[p]] = NULL <=> p = 1
      /\ next[seq[p]] = NULL <=> p = Len(seq)
  BY <1>1, <1>2, <1>4, Detached
<1>6. /\ head' = IF p = 1 THEN ItemAt(seq, 2) ELSE head
      /\ tail' = IF p = Len(seq) THEN IF p = 1 THEN NULL ELSE seq[p - 1] ELSE tail
  <2>1. p = 1 => p + 1 = 2
    OBVIOUS
  <2> QED BY <1>4, <1>5, <2>1 DEF ItemBefore
<1>7. seq' \in Seq(Node) /\ IsWithout(seq', seq, p)
  BY <1>1, <1>4, WithoutItems
<1>8. Leave(Id(data[seq[p]]), freed, popped, freed', popped')
  BY <1>4 DEF Leave
<1>9. /\ Shape' /\ Owned(data', heap', given', freed', popped')
      /\ Contents' \in Seq(Datum) /\ IsWithout(Contents', Contents, p)
      /\ \A i \in 1..(p - 1) : seq'[i] = seq[i] /\ data'[seq'[i]] = data[seq[i]]
  BY <1>4, <1>5, <1>6, <1>7, <1>8, Removed
<1>10. ListTypes'
  <2>1. head' \in Node \cup {NULL} /\ tail' \in Node \cup {NULL} /\ count' \in 0..SIZE_MAX
    BY <1>4, <1>6, OneLess
  <2>2. data' \in [Node -> Datum \cup {FREED}] /\ heap' \in SUBSET Node
    BY <1>1, <1>2, <1>4
  <2> QED BY <1>5, <1>7, <2>1, <2>2 DEF ListTypes
<1> QED BY <1>5, <1>7, <1>9, <1>10

\* list_remove: the item the caller names.
LEMMA RemoveStep ==
  ASSUME IndInv, NEW n \in Node, Remove(n)
  PROVE  IndInv'
<1>1. /\ alive /\ pc = "idle" /\ pc' = "idle" /\ UNCHANGED locals /\ ret' = NULL /\ n \in InList
      /\ RemoveItem(n) /\ want' = Without(want, IndexOf(seq, n)) /\ allowed' = {NULL}
      /\ alive' = alive /\ given' = given /\ popped' = popped
  BY DEF Remove, AtOnce, locals
<1>2. seq \in Seq(Node) /\ Len(seq) \in Nat /\ Distinct(seq) /\ InList = Items(seq) /\ Contents \in Seq(Datum)
      /\ Len(Contents) = Len(seq)
  BY <1>1, Basics
<1>3. PICK p \in 1..Len(seq) : n = seq[p]
  BY <1>1, <1>2 DEF Items
<1>4. /\ Shape' /\ Owned(data', heap', given', freed', popped') /\ ListTypes'
      /\ Contents' \in Seq(Datum) /\ IsWithout(Contents', Contents, p)
  BY <1>1, <1>3, Unlinked
<1>5. want' = Without(Contents, p) /\ p \in 1..Len(Contents)
  BY <1>1, <1>2, <1>3, Idle, PlaceOf
<1>6. want' \in Seq(Datum) /\ IsWithout(want', Contents, p)
  BY <1>2, <1>5, WithoutItems
<1>7. Contents' = want'
  BY ONLY <1>2, <1>4, <1>5, <1>6, WithoutUnique
<1>8. TypeOK'
  BY <1>1, <1>4 DEF IndInv, TypeOK, ListTypes, locals
<1> QED BY <1>1, <1>4, <1>7, <1>8, AfterCall

\* RemoveFirst removes the first match, if there is one.
LEMMA RemoveFirstMatch ==
  ASSUME NEW s \in Seq(Datum), NEW k
  PROVE  /\ \A p \in 1..Len(s) : KeyOf(s[p]) = k /\ (\A i \in 1..(p - 1) : KeyOf(s[i]) # k)
                                  => RemoveFirst(s, k) = Without(s, p)
         /\ (\A i \in 1..Len(s) : KeyOf(s[i]) # k) => RemoveFirst(s, k) = s
<1>1. ASSUME NEW p \in 1..Len(s), KeyOf(s[p]) = k, \A i \in 1..(p - 1) : KeyOf(s[i]) # k
      PROVE  RemoveFirst(s, k) = Without(s, p)
  <2> DEFINE M == Matches(s, 1, k)
  <2>1. M \in SUBSET Nat /\ p \in M /\ \A j \in M : p <= j
    BY <1>1 DEF Matches
  <2>2. RemoveFirst(s, k) = IF M = {} THEN s ELSE Without(s, Least(M))
    BY DEF RemoveFirst
  <2> HIDE DEF M
  <2>3. Least(M) = p
    BY ONLY <2>1, LeastOf
  <2> QED BY <2>1, <2>2, <2>3
<1>2. ASSUME \A i \in 1..Len(s) : KeyOf(s[i]) # k PROVE RemoveFirst(s, k) = s
  <2>1. Matches(s, 1, k) = {}
    BY <1>2 DEF Matches
  <2> QED BY <2>1 DEF RemoveFirst
<1> QED BY <1>1, <1>2

\* A call that enters a loop.
LEMMA Entered ==
  ASSUME IndInv, NEW l \in {"remove_by_data", "find"}, NEW o, NEW k \in Keys,
         NEW n \in Node \cup {NULL}, NEW e \in Node \cup {NULL}, Enter(l, o, k, n, e),
         UNCHANGED <<alive, nodes, list, seq, owners>>
  PROVE  /\ alive /\ pc = "idle" /\ TypeOK' /\ Shape' /\ Owned(data', heap', given', freed', popped')
         /\ Contents' = Contents /\ seq' = seq /\ data' = data /\ want = Contents
         /\ pc' = l /\ op' = o /\ key' = k /\ iter' = n /\ end' = e
<1>1. alive /\ pc = "idle" /\ pc' = l /\ op' = o /\ key' = k /\ iter' = n /\ end' = e
  BY DEF Enter
<1>2. /\ Shape' /\ Owned(data', heap', given', freed', popped') /\ Contents' = Contents
      /\ next' = next /\ prev' = prev /\ data' = data /\ heap' = heap /\ head' = head /\ tail' = tail
      /\ count' = count /\ seq' = seq /\ given' = given /\ alive' = alive
  BY <1>1, SameList
<1>3. TypeOK'
  BY <1>1, <1>2 DEF IndInv, TypeOK
<1> QED BY <1>1, <1>2, <1>3, Idle

\* list_remove_by_data begins at the head.
LEMMA RemoveByDataCall ==
  ASSUME IndInv, NEW o, NEW k \in Keys, RemoveByData(o, k)
  PROVE  IndInv'
<1>1. /\ Enter("remove_by_data", o, k, head, NULL) /\ UNCHANGED <<alive, nodes, list, seq, owners>>
      /\ head \in Node \cup {NULL}
  BY DEF RemoveByData, IndInv, TypeOK
<1>2. /\ alive /\ pc = "idle" /\ TypeOK' /\ Shape' /\ Owned(data', heap', given', freed', popped')
      /\ Contents' = Contents /\ seq' = seq /\ data' = data /\ want = Contents
      /\ pc' = "remove_by_data" /\ op' = o /\ key' = k /\ iter' = head
  BY <1>1, Entered
<1>3. seq \in Seq(Node) /\ Len(seq) \in Nat
  BY <1>2, Basics
<1>4. head = ItemAt(seq, 1)
  BY <1>2, <1>3, Idle DEF Describes, ItemAt
<1>5. InRemoveByData'
  <2>1. 1 \in 1..(Len(seq') + 1) /\ \A i \in 1..(1 - 1) : KeyOf(data'[seq'[i]]) # key'
    BY <1>2, <1>3
  <2>2. iter' = ItemAt(seq', 1)
    BY <1>2, <1>4
  <2>3. /\ allowed' = {NULL}
        /\ want' = IF op' = "remove_all" THEN RemoveEvery(Contents', key') ELSE RemoveFirst(Contents', key')
    BY <1>2 DEF RemoveByData
  <2> QED BY <2>1, <2>2, <2>3 DEF InRemoveByData, ItemAt
<1> QED BY <1>2, <1>5 DEF IndInv, InFind, InFree, MatchesReference

\* One iteration of list_remove_by_data: the successor, read before the item
\* is freed, is the item that moves up to its place.
LEMMA RemoveByDataStepStep ==
  ASSUME IndInv, RemoveByDataStep
  PROVE  IndInv'
<1>1. /\ pc = "remove_by_data" /\ alive /\ alive' = alive /\ given' = given /\ popped' = popped
      /\ want' = want /\ allowed' = allowed
  BY DEF RemoveByDataStep, IndInv, Shape, spec
<1>2. /\ allowed = {NULL}
      /\ want = IF op = "remove_all" THEN RemoveEvery(Contents, key) ELSE RemoveFirst(Contents, key)
  BY <1>1 DEF IndInv, InRemoveByData
<1>3. PICK p \in 1..(Len(seq) + 1) :
        iter = ItemAt(seq, p) /\ \A i \in 1..(p - 1) : KeyOf(data[seq[i]]) # key
  BY <1>1 DEF IndInv, InRemoveByData
<1>4. /\ seq \in Seq(Node) /\ Len(seq) \in Nat /\ Linked(next, seq)
      /\ Contents \in Seq(Datum) /\ Len(Contents) = Len(seq)
      /\ \A i \in 1..Len(seq) : Contents[i] = data[seq[i]] /\ seq[i] \in Node /\ seq[i] # NULL
  BY <1>1, Basics
<1>5. /\ p = Len(seq) + 1 => iter = NULL
      /\ p # Len(seq) + 1 => p \in 1..Len(seq) /\ iter = seq[p] /\ iter # NULL
  BY <1>3, <1>4 DEF ItemAt
<1>6. \A i \in 1..(p - 1) : i \in 1..Len(seq) /\ KeyOf(Contents[i]) # key
  BY <1>3, <1>4
<1>7. CASE iter = NULL
  <2>1. p = Len(seq) + 1
    BY <1>5, <1>7
  <2>2. Done(NULL) /\ UNCHANGED <<alive, nodes, list, seq, owners>>
    BY <1>1, <1>7 DEF RemoveByDataStep, owners
  <2>3. pc' = "idle" /\ ret' = NULL /\ key' = 0 /\ iter' = NULL /\ end' = NULL
    BY <2>2 DEF Done
  <2>4. /\ Shape' /\ Owned(data', heap', given', freed', popped') /\ Contents' = Contents
        /\ next' = next /\ prev' = prev /\ data' = data /\ heap' = heap /\ head' = head /\ tail' = tail
        /\ count' = count /\ seq' = seq /\ given' = given /\ alive' = alive
    BY <1>1, <2>2, <2>3, SameList
  <2>5. \A i \in 1..Len(Contents) : KeyOf(Contents[i]) # key
    BY <1>4, <1>6, <2>1
  <2>6. RemoveEvery(Contents, key) = Contents /\ RemoveFirst(Contents, key) = Contents
    BY <1>4, <2>5, RemoveEveryNone, RemoveFirstMatch
  <2>7. TypeOK'
    BY <1>1, <2>3, <2>4 DEF IndInv, TypeOK
  <2> QED BY <1>1, <1>2, <2>3, <2>4, <2>6, <2>7, AfterCall
<1>8. CASE iter # NULL /\ KeyOf(data[iter]) = key
  <2>1. RemoveItem(iter)
    BY <1>8 DEF RemoveByDataStep
  <2>2. p \in 1..Len(seq) /\ iter = seq[p] /\ p \in 1..Len(Contents) /\ KeyOf(Contents[p]) = key
    BY <1>4, <1>5, <1>8
  <2>3. pc' \notin {"free", "crashed"}
    BY <1>1, <1>8 DEF RemoveByDataStep, Done
  <2>4. /\ Shape' /\ Owned(data', heap', given', freed', popped') /\ ListTypes'
        /\ Contents' \in Seq(Datum) /\ IsWithout(Contents', Contents, p)
        /\ seq' \in Seq(Node) /\ IsWithout(seq', seq, p) /\ next[seq[p]] = ItemAt(seq, p + 1)
        /\ \A i \in 1..(p - 1) : seq'[i] = seq[i] /\ data'[seq'[i]] = data[seq[i]]
    <3>1. RemoveItem(seq[p])
      BY <2>1, <2>2
    <3> QED BY <1>1, <2>2, <2>3, <3>1, Unlinked
  <2>5. CASE op = "remove_all"
    <3>1. pc' = pc /\ op' = op /\ key' = key /\ end' = end /\ iter' = next[iter]
      BY <1>8, <2>5 DEF RemoveByDataStep
    <3>2. p \in 1..(Len(seq') + 1) /\ iter' = ItemAt(seq', p)
      <4>1. Len(seq') = Len(seq) - 1 /\ iter' = ItemAt(seq, p + 1)
        BY <2>2, <2>4, <3>1 DEF IsWithout
      <4>2. CASE p = Len(seq)
        BY <1>4, <4>1, <4>2 DEF ItemAt
      <4>3. CASE p # Len(seq)
        <5>1. p \in p..(Len(seq) - 1) /\ iter' = seq[p + 1] /\ p # Len(seq') + 1
          BY <1>4, <2>2, <4>1, <4>3 DEF ItemAt
        <5>2. seq'[p] = seq[p + 1]
          BY <2>4, <5>1 DEF IsWithout
        <5> QED BY <1>4, <2>2, <4>1, <5>1, <5>2 DEF ItemAt
      <4> QED BY <4>2, <4>3
    <3>3. iter' \in Node \cup {NULL}
      BY <1>4, <2>2, <2>4, <3>1 DEF ItemAt
    <3>4. TypeOK'
      BY <1>1, <2>4, <3>1, <3>3 DEF IndInv, TypeOK, ListTypes
    <3>5. RemoveEvery(Contents', key) = RemoveEvery(Contents, key)
      BY <1>4, <2>2, <2>4, RemoveEveryMatch
    <3>6. \A i \in 1..(p - 1) : KeyOf(data'[seq'[i]]) # key
      BY <1>3, <2>4
    <3>7. InRemoveByData'
      BY <1>1, <1>2, <2>5, <3>1, <3>2, <3>5, <3>6 DEF InRemoveByData, ItemAt
    <3> QED BY <1>1, <2>4, <3>1, <3>4, <3>7 DEF IndInv, InFind, InFree, MatchesReference
  <2>6. CASE op # "remove_all"
    <3>1. pc' = "idle" /\ ret' = NULL /\ key' = 0 /\ iter' = NULL /\ end' = NULL
      BY <1>8, <2>6 DEF RemoveByDataStep, Done
    <3>2. want = Without(Contents, p)
      BY <1>2, <1>4, <1>6, <2>2, <2>6, RemoveFirstMatch
    <3>3. want \in Seq(Datum) /\ IsWithout(want, Contents, p)
      BY <1>4, <2>2, <3>2, WithoutItems
    <3>4. Contents' = want
      BY ONLY <1>4, <2>2, <2>4, <3>3, WithoutUnique
    <3>5. TypeOK'
      BY <1>1, <2>4, <3>1 DEF IndInv, TypeOK, ListTypes
    <3> QED BY <1>1, <1>2, <2>4, <3>1, <3>4, <3>5, AfterCall
  <2> QED BY <2>5, <2>6
<1>9. CASE iter # NULL /\ KeyOf(data[iter]) # key
  <2>1. /\ iter' = next[iter] /\ pc' = pc /\ op' = op /\ key' = key /\ end' = end
        /\ UNCHANGED <<alive, nodes, list, seq, owners>>
    BY <1>1, <1>9 DEF RemoveByDataStep, owners
  <2>2. p \in 1..Len(seq) /\ iter = seq[p] /\ KeyOf(data[seq[p]]) # key
    BY <1>5, <1>9
  <2>3. iter' = ItemAt(seq, p + 1) /\ iter' \in Node \cup {NULL}
    <3>1. iter' = ItemAt(seq, p + 1)
      BY <1>4, <2>1, <2>2 DEF Linked
    <3> QED BY <1>4, <2>2, <3>1 DEF ItemAt
  <2>4. /\ Shape' /\ Owned(data', heap', given', freed', popped') /\ Contents' = Contents
        /\ next' = next /\ prev' = prev /\ data' = data /\ heap' = heap /\ head' = head /\ tail' = tail
        /\ count' = count /\ seq' = seq /\ given' = given /\ alive' = alive
    BY <1>1, <2>1, SameList
  <2>5. TypeOK'
    BY <2>1, <2>3, <2>4 DEF IndInv, TypeOK
  <2>6. InRemoveByData'
    <3> DEFINE q == p + 1
    <3>1. q \in 1..(Len(seq') + 1) /\ iter' = ItemAt(seq', q)
      BY <1>4, <2>2, <2>3, <2>4
    <3>2. \A i \in 1..(q - 1) : KeyOf(data'[seq'[i]]) # key'
      BY <1>3, <1>4, <2>1, <2>2, <2>4
    <3> HIDE DEF q
    <3> QED BY <1>1, <1>2, <2>1, <2>4, <3>1, <3>2 DEF InRemoveByData, ItemAt
  <2> QED BY <1>1, <2>1, <2>4, <2>5, <2>6 DEF IndInv, InFind, InFree, MatchesReference
<1> QED BY <1>7, <1>8, <1>9

\* list_pop: the datum of the first item goes back to the caller.
LEMMA PopStep ==
  ASSUME IndInv, Pop
  PROVE  IndInv'
<1>1. /\ alive /\ alive' /\ pc = "idle" /\ pc' = "idle" /\ ret' = data[head] /\ UNCHANGED locals
      /\ head # NULL /\ given' = given /\ freed' = freed /\ popped' = popped \cup Id(data[head])
      /\ want' = Tail(want) /\ allowed' = {Head(want)} /\ seq' = Tail(seq) /\ count' = count - 1
      /\ heap' = heap \ {head} /\ data' = [data EXCEPT ![head] = FREED]
      /\ next' = [next EXCEPT ![head] = FREED] /\ head' = next[head]
      /\ prev' = [Set(prev, next[head], NULL) EXCEPT ![head] = FREED]
      /\ tail' = IF next[head] = NULL THEN NULL ELSE tail
  BY DEF Pop, AtOnce, locals, Release
<1>2. /\ seq \in Seq(Node) /\ Len(seq) \in Nat /\ Distinct(seq) /\ Linked(next, seq) /\ LinkedBack(prev, seq)
      /\ Contents \in Seq(Datum) /\ Len(Contents) = Len(seq)
      /\ \A i \in 1..Len(seq) : Contents[i] = data[seq[i]] /\ seq[i] \in Node /\ seq[i] # NULL
  BY <1>1, Basics
<1>3. count = Len(seq) /\ want = Contents /\ head = IF seq = <<>> THEN NULL ELSE seq[1]
  BY <1>1, Idle DEF Describes
<1>4. seq # <<>> /\ Contents # <<>> /\ 1 \in 1..Len(seq) /\ head = seq[1] /\ head \in Node
  BY <1>1, <1>2, <1>3
<1>5. ret' \in allowed'
  BY <1>1, <1>2, <1>3, <1>4
<1>6. /\ next \in [Node -> Node \cup {NULL, FREED}] /\ prev \in [Node -> Node \cup {NULL, FREED}]
      /\ data \in [Node -> Datum \cup {FREED}] /\ heap \in SUBSET Node
  BY DEF IndInv, TypeOK
<1> DEFINE p == 1
<1>7. p \in 1..Len(seq) /\ seq' \in Seq(Node) /\ IsWithout(seq', seq, p)
  BY <1>1, <1>2, <1>4, TailIsWithout
<1>8. p \in 1..Len(Contents) /\ want' \in Seq(Datum) /\ IsWithout(want', Contents, p)
  BY <1>1, <1>2, <1>3, <1>4, TailIsWithout
<1>9. head = seq[p] /\ prev[head] = NULL
  BY <1>2, <1>4 DEF LinkedBack, ItemBefore
<1>10. /\ next' = [Set(next, prev[seq[p]], next[seq[p]]) EXCEPT ![seq[p]] = FREED]
       /\ prev' = [Set(prev, next[seq[p]], prev[seq[p]]) EXCEPT ![seq[p]] = FREED]
  BY <1>1, <1>9 DEF Set
<1> HIDE DEF p
<1>11. /\ next' \in [Node -> Node \cup {NULL, FREED}] /\ LinksOut(next', next, seq, p)
       /\ prev' \in [Node -> Node \cup {NULL, FREED}] /\ LinksOutBack(prev', prev, seq, p)
       /\ next[seq[p]] = ItemAt(seq, p + 1)
       /\ next[seq[p]] = NULL <=> p = Len(seq)
  <2>1. \A i \in 1..Len(seq) : seq[i] # NULL
    BY <1>2
  <2>2. seq \in Seq(Node) /\ Distinct(seq) /\ Linked(next, seq) /\ LinkedBack(prev, seq) /\ p \in 1..Len(seq)
    BY <1>2, <1>7
  <2> QED BY ONLY <1>6, <1>10, <2>1, <2>2, Detached
<1>12. /\ head' = (IF p = 1 THEN ItemAt(seq, 2) ELSE head)
       /\ tail' = IF p = Len(seq) THEN IF p = 1 THEN NULL ELSE seq[p - 1] ELSE tail
  BY <1>1, <1>9, <1>11 DEF p
<1>13. /\ heap' = heap \ {seq[p]} /\ data' = [data EXCEPT ![seq[p]] = FREED]
       /\ Leave(Id(data[seq[p]]), freed, popped, freed', popped')
  BY <1>1, <1>9 DEF Leave
<1>14. /\ Shape' /\ Owned(data', heap', given', freed', popped')
       /\ Contents' \in Seq(Datum) /\ IsWithout(Contents', Contents, p)
  BY <1>1, <1>7, <1>11, <1>12, <1>13, Removed
<1>15. Contents' = want'
  BY ONLY <1>2, <1>8, <1>14, WithoutUnique
<1>16. TypeOK'
  <2>1. head' \in Node \cup {NULL} /\ tail' \in Node \cup {NULL} /\ count' \in 0..SIZE_MAX
    BY <1>1, <1>7, <1>12, OneLess
  <2>2. data' \in [Node -> Datum \cup {FREED}] /\ heap' \in SUBSET Node
    BY <1>1, <1>4, <1>6
  <2> QED BY <1>1, <1>7, <1>11, <2>1, <2>2 DEF IndInv, TypeOK, locals
<1> QED BY <1>1, <1>5, <1>14, <1>15, <1>16, AfterCall

\* An equal item from f on is a right result of a search, NULL without one.
LEMMA FoundRight ==
  ASSUME NEW c, NEW s, NEW f, NEW k
  PROVE  /\ \A i \in f..Len(c) : KeyOf(c[i]) = k => s[i] \in FoundFrom(c, s, f, k)
         /\ (\A i \in f..Len(c) : KeyOf(c[i]) # k) => FoundFrom(c, s, f, k) = {NULL}
<1> DEFINE M == Matches(c, f, k)
<1>1. FoundFrom(c, s, f, k) = IF M = {} THEN {NULL} ELSE {s[i] : i \in M}
  BY DEF FoundFrom
<1>2. \A i \in f..Len(c) : i \in M <=> KeyOf(c[i]) = k
  BY DEF Matches
<1>3. \A i \in M : i \in f..Len(c)
  BY DEF Matches
<1> HIDE DEF M
<1>4. ASSUME NEW i \in f..Len(c), KeyOf(c[i]) = k PROVE s[i] \in FoundFrom(c, s, f, k)
  <2>1. i \in M /\ M # {}
    BY <1>2, <1>4
  <2> QED BY <1>1, <2>1
<1>5. ASSUME \A i \in f..Len(c) : KeyOf(c[i]) # k PROVE FoundFrom(c, s, f, k) = {NULL}
  <2>1. M = {}
    BY <1>2, <1>3, <1>5
  <2> QED BY <1>1, <2>1
<1> QED BY <1>4, <1>5

\* A search begins at the head or at an item of the list, and at the tail.
LEMMA FindCall ==
  ASSUME IndInv, NEW offset \in Node \cup {NULL}, NEW k \in Keys, Find(offset, k)
  PROVE  IndInv'
<1> DEFINE from == IF offset = NULL THEN 1 ELSE IndexOf(seq, offset)
           b == IF offset # NULL THEN offset ELSE head
<1>1. Enter("find", "find", k, b, tail) /\ UNCHANGED <<alive, nodes, list, seq, want, owners>>
  BY DEF Find
<1>2. b \in Node \cup {NULL} /\ tail \in Node \cup {NULL}
  BY DEF IndInv, TypeOK
<1> HIDE DEF b
<1>3. /\ alive /\ pc = "idle" /\ TypeOK' /\ Shape' /\ Owned(data', heap', given', freed', popped')
      /\ Contents' = Contents /\ seq' = seq /\ data' = data /\ want = Contents
      /\ pc' = "find" /\ key' = k /\ iter' = b /\ end' = tail
  BY <1>1, <1>2, Entered
<1>4. /\ seq \in Seq(Node) /\ Len(seq) \in Nat /\ Distinct(seq) /\ InList = Items(seq)
      /\ \A i \in 1..Len(seq) : seq[i] # NULL
  BY <1>3, Basics
<1>5. Describes(head, tail, count, seq)
  BY <1>3, Idle
<1>6. from \in 1..(Len(seq) + 1) /\ b = ItemAt(seq, from)
  <2>1. CASE offset = NULL
    <3>1. head = ItemAt(seq, 1)
      BY <1>4, <1>5 DEF Describes, ItemAt
    <3> QED BY <1>4, <2>1, <3>1 DEF b
  <2>2. CASE offset # NULL
    <3>1. PICK i \in 1..Len(seq) : offset = seq[i]
      BY <1>4, <2>2 DEF Find, Items
    <3>2. from = i
      BY <1>4, <2>2, <3>1, PlaceOf
    <3> QED BY <1>4, <2>2, <3>1, <3>2 DEF b, ItemAt
  <2> QED BY <2>1, <2>2
<1>7. allowed' = FoundFrom(want, seq, from, k)
  BY DEF Find, FoundFrom
<1> HIDE DEF from
<1>8. PICK f \in 1..(Len(seq) + 1) : f = from
  BY <1>6
<1>9. tail = ItemBefore(seq, Len(seq) + 1)
  <2>1. CASE seq = <<>>
    BY <1>5, <2>1 DEF ItemBefore, Describes
  <2>2. CASE seq # <<>>
    BY <1>4, <1>5, <2>2 DEF ItemBefore, Describes
  <2> QED BY <2>1, <2>2
<1> DEFINE t == 0
<1>10. /\ f \in 1..(Len(seq') + 1) /\ t \in 0..((Len(seq') + 1) - f)
       /\ f + t = f /\ (Len(seq') + 1) - t = Len(seq) + 1
       /\ \A i \in f..Len(seq') : ~(i < f + t) /\ ~(i > Len(seq') - t)
  BY <1>3, <1>4
<1> HIDE DEF t
<1>11. Searched(f, t)'
  <2>1. iter' = ItemAt(seq', f + t)
    BY <1>3, <1>6, <1>8, <1>10
  <2>2. end' = ItemBefore(seq', (Len(seq') + 1) - t)
    BY <1>3, <1>9, <1>10
  <2> QED BY <1>10, <2>1, <2>2 DEF Searched, ItemAt, ItemBefore
<1>12. InFind'
  <2>1. want' = Contents' /\ allowed' = FoundFrom(want', seq', f, key')
    BY <1>1, <1>3, <1>7, <1>8
  <2> QED BY <1>10, <1>11, <2>1 DEF InFind, FoundFrom
<1> QED BY <1>3, <1>12 DEF IndInv, InRemoveByData, InFree, MatchesReference

\* One iteration of _list_find: while the two ends have not passed everything
\* from f on, end is at or behind f; when begin->next is end nothing is left
\* between them.
LEMMA FindStepStep ==
  ASSUME IndInv, FindStep
  PROVE  IndInv'
<1>1. pc = "find" /\ alive /\ UNCHANGED <<alive, nodes, list, seq, owners>> /\ want' = want /\ allowed' = allowed
  BY DEF FindStep, IndInv, Shape, spec
<1>2. want = Contents
  BY <1>1 DEF IndInv, InFind
<1>3. PICK f \in 1..(Len(seq) + 1) : /\ allowed = FoundFrom(want, seq, f, key)
                                     /\ \E t \in 0..((Len(seq) + 1) - f) : Searched(f, t)
  BY <1>1 DEF IndInv, InFind
<1>4. PICK t \in 0..((Len(seq) + 1) - f) : Searched(f, t)
  BY <1>3
<1>5. /\ seq \in Seq(Node) /\ Len(seq) \in Nat /\ Linked(next, seq) /\ LinkedBack(prev, seq) /\ Distinct(seq)
      /\ Len(Contents) = Len(seq)
      /\ \A i \in 1..Len(seq) : Contents[i] = data[seq[i]] /\ seq[i] \in Node /\ seq[i] # NULL
  BY <1>1, Basics
<1> DEFINE p == f + t
           e == Len(seq) - t
<1>6. /\ p \in f..(Len(seq) + 1) /\ p \in 1..(Len(seq) + 1) /\ (p # Len(seq) + 1 => p \in f..Len(seq) /\ p \in 1..Len(seq))
      /\ (p # Len(seq) + 1 => e \in f..Len(seq) /\ e \in 1..Len(seq) /\ (Len(seq) + 1) - t # 1)
      /\ ((Len(seq) + 1) - t) - 1 = e
  BY <1>5
<1>7. /\ iter = ItemAt(seq, p) /\ end = ItemBefore(seq, (Len(seq) + 1) - t)
      /\ \A i \in f..Len(seq) : i < p \/ i > e => KeyOf(data[seq[i]]) # key
  BY <1>4 DEF Searched
<1>8. /\ p = Len(seq) + 1 <=> iter = NULL
      /\ iter # NULL => iter = seq[p] /\ end = seq[e] /\ end # NULL
  BY <1>5, <1>6, <1>7 DEF ItemAt, ItemBefore
<1>9. \A i \in f..Len(seq) : i \in 1..Len(seq) /\ i \in f..Len(Contents) /\ Contents[i] = data[seq[i]]
  BY <1>5
<1>10. /\ \A i \in f..Len(seq) : KeyOf(data[seq[i]]) = key => seq[i] \in allowed
       /\ (\A i \in f..Len(seq) : KeyOf(data[seq[i]]) # key) => allowed = {NULL}
  <2>1. /\ \A i \in f..Len(Contents) : KeyOf(Contents[i]) = key => seq[i] \in FoundFrom(Contents, seq, f, key)
        /\ (\A i \in f..Len(Contents) : KeyOf(Contents[i]) # key) => FoundFrom(Contents, seq, f, key) = {NULL}
    BY FoundRight
  <2> QED BY <1>2, <1>3, <1>5, <1>9, <2>1
<1> HIDE DEF p, e
<1>11. ASSUME NEW r \in allowed, Done(r) PROVE IndInv'
  <2>1. pc' = "idle" /\ ret' = r /\ key' = 0 /\ iter' = NULL /\ end' = NULL
    BY <1>11 DEF Done
  <2>2. /\ Shape' /\ Owned(data', heap', given', freed', popped') /\ Contents' = Contents
        /\ next' = next /\ prev' = prev /\ data' = data /\ heap' = heap /\ head' = head /\ tail' = tail
        /\ count' = count /\ seq' = seq /\ given' = given /\ alive' = alive
    BY <1>1, <2>1, SameList
  <2>3. TypeOK'
    BY <2>1, <2>2 DEF IndInv, TypeOK
  <2> QED BY <1>1, <1>2, <2>1, <2>2, <2>3, AfterCall
<1>12. CASE iter = NULL
  <2>1. \A i \in f..Len(seq) : i < p
    BY <1>5, <1>8, <1>12
  <2>2. NULL \in allowed
    BY <1>7, <1>10, <2>1
  <2>3. Done(NULL)
    BY <1>12 DEF FindStep
  <2> QED BY <1>11, <2>2, <2>3
<1>13. CASE iter # NULL /\ KeyOf(data[iter]) = key
  <2>1. iter \in allowed
    BY <1>6, <1>8, <1>10, <1>13
  <2>2. Done(iter)
    BY <1>13 DEF FindStep
  <2> QED BY <1>11, <2>1, <2>2
<1>14. CASE iter # NULL /\ KeyOf(data[iter]) # key /\ KeyOf(data[end]) = key
  <2>1. end \in allowed
    BY <1>6, <1>8, <1>10, <1>14
  <2>2. Done(end)
    BY <1>14 DEF FindStep
  <2> QED BY <1>11, <2>1, <2>2
<1>15. CASE iter # NULL /\ KeyOf(data[iter]) # key /\ KeyOf(data[end]) # key
  <2>1. /\ p \in f..Len(seq) /\ p \in 1..Len(seq) /\ e \in f..Len(seq) /\ e \in 1..Len(seq)
        /\ iter = seq[p] /\ end = seq[e] /\ end # NULL
    BY <1>6, <1>8, <1>15
  <2>2. next[iter] = ItemAt(seq, p + 1) /\ prev[end] = ItemBefore(seq, e)
    BY <1>5, <2>1 DEF Linked, LinkedBack
  <2>3. \A i \in f..Len(seq) : i <= p \/ i >= e => KeyOf(data[seq[i]]) # key
    <3> TAKE i \in f..Len(seq)
    <3>1. i <= p \/ i >= e => i = p \/ i = e \/ i < p \/ i > e
      BY <1>5, <2>1
    <3>2. i = p \/ i = e => KeyOf(data[seq[i]]) # key
      BY <1>15, <2>1
    <3> QED BY <1>7, <3>1, <3>2
  <2>4. CASE Meet
    <3>1. p + 1 # Len(seq) + 1 /\ seq[p + 1] = seq[e]
      BY <2>1, <2>2, <2>4 DEF Meet, ItemAt
    <3>2. p + 1 \in 1..Len(seq)
      BY <1>5, <2>1, <3>1
    <3>3. p + 1 = e
      BY ONLY <1>5, <2>1, <3>1, <3>2 DEF Distinct
    <3>4. \A i \in f..Len(seq) : i <= p \/ i >= e
      BY <1>5, <2>1, <3>3
    <3>5. NULL \in allowed
      BY <1>10, <2>3, <3>4
    <3>6. Done(NULL)
      BY <1>15, <2>4 DEF FindStep
    <3> QED BY <1>11, <3>5, <3>6
  <2>5. CASE ~Meet
    <3>1. iter' = next[iter] /\ end' = prev[end] /\ pc' = pc /\ key' = key
      BY <1>15, <2>5 DEF FindStep
    <3>2. /\ Shape' /\ Owned(data', heap', given', freed', popped') /\ Contents' = Contents
          /\ next' = next /\ prev' = prev /\ data' = data /\ heap' = heap /\ head' = head /\ tail' = tail
          /\ count' = count /\ seq' = seq /\ given' = given /\ alive' = alive
      BY <1>1, <3>1, SameList
    <3>3. iter' \in Node \cup {NULL}
      BY <1>5, <2>1, <2>2, <3>1 DEF ItemAt
    <3>4. end' \in Node \cup {NULL}
      <4>1. e # 1 => e - 1 \in 1..Len(seq)
        BY <1>5, <2>1
      <4> QED BY <1>5, <2>2, <3>1, <4>1 DEF ItemBefore
    <3>5. TypeOK'
      BY <3>1, <3>2, <3>3, <3>4 DEF IndInv, TypeOK
    <3> DEFINE u == t + 1
    <3>6. /\ f \in 1..(Len(seq') + 1) /\ u \in 0..((Len(seq') + 1) - f)
          /\ f + u = p + 1 /\ (Len(seq') + 1) - u = e
          /\ \A i \in f..Len(seq') : i < f + u \/ i > Len(seq') - u => i <= p \/ i >= e
      <4>1. f \in Nat /\ t \in Nat /\ p = f + t /\ e = Len(seq) - t /\ Len(seq) \in Nat /\ p <= Len(seq)
            /\ Len(seq') = Len(seq) /\ f >= 1
        BY <1>5, <2>1, <3>2 DEF p, e
      <4>2. u \in 0..((Len(seq') + 1) - f) /\ f \in 1..(Len(seq') + 1)
        BY ONLY <4>1
      <4>3. f + u = p + 1 /\ (Len(seq') + 1) - u = e
        BY ONLY <4>1
      <4>4. \A i \in f..Len(seq') : i < f + u \/ i > Len(seq') - u => i <= p \/ i >= e
        BY ONLY <4>1
      <4> QED BY <4>2, <4>3, <4>4
    <3> HIDE DEF u
    <3>7. Searched(f, u)'
      <4>1. iter' = ItemAt(seq', f + u) /\ end' = ItemBefore(seq', (Len(seq') + 1) - u)
        BY <2>2, <3>1, <3>2, <3>6
      <4>2. \A i \in f..Len(seq') : i < f + u \/ i > Len(seq') - u => KeyOf(data'[seq'[i]]) # key'
        BY <2>3, <3>1, <3>2, <3>6
      <4> QED BY <4>1, <4>2 DEF Searched, ItemAt, ItemBefore
    <3>8. InFind'
      <4>1. want' = Contents' /\ allowed' = FoundFrom(want', seq', f, key')
        BY <1>1, <1>2, <1>3, <3>1, <3>2
      <4> QED BY <3>6, <3>7, <4>1 DEF InFind, FoundFrom
    <3> QED BY <1>1, <3>1, <3>2, <3>5, <3>8 DEF IndInv, InRemoveByData, InFree, MatchesReference
  <2> QED BY <2>4, <2>5
<1> QED BY <1>12, <1>13, <1>14, <1>15

\* A new object takes the place of one that goes back to the caller.
LEMMA OwnedReplace ==
  ASSUME NEW dt, NEW dt2, NEW H, NEW g \in Nat, NEW fr, NEW po, Owned(dt, H, g, fr, po),
         NEW n \in H, NEW k \in Keys, dt2[n] = <<g + 1, k>>, \A m \in H : m # n => dt2[m] = dt[m]
  PROVE  Owned(dt2, H, g + 1, fr, po \cup Id(dt[n]))
<1> DEFINE G == H \ {n}
           po2 == po \cup Id(dt[n])
<1>1. Leave(Id(dt[n]), fr, po, fr, po2) /\ Drops(n, dt, H, dt, G)
  BY DEF Leave, Drops
<1> HIDE DEF po2
<1>2. Owned(dt, G, g, fr, po2)
  BY <1>1, OwnedGone
<1>3. n \notin G /\ \A m \in G : dt2[m] = dt[m]
  OBVIOUS
<1>4. G \cup {n} = H
  OBVIOUS
<1> HIDE DEF G
<1>5. Owned(dt2, G \cup {n}, g + 1, fr, po2)
  BY <1>2, <1>3, OwnedNew
<1> QED BY <1>4, <1>5 DEF po2

\* The datum of an item of the list is replaced by d.
LEMMA Replaced ==
  ASSUME IndInv, pc = "idle", alive, UNCHANGED <<alive, next, prev, heap, list, seq>>, UNCHANGED locals,
         NEW n \in InList, NEW d \in Datum, data' = [data EXCEPT ![n] = d], given' \in 0..MaxInserts,
         want' = [want EXCEPT ![IndexOf(seq, n)] = d], ret' \in allowed',
         Owned(data', heap', given', freed', popped')
  PROVE  IndInv'
<1>1. /\ seq \in Seq(Node) /\ Len(seq) \in Nat /\ Distinct(seq) /\ InList = Items(seq)
      /\ Items(seq) \subseteq Node
      /\ Contents = DataOf(data, seq) /\ \A m \in Items(seq) : data[m] \in Datum
  BY Basics
<1>2. PICK p \in 1..Len(seq) : n = seq[p]
  BY <1>1 DEF Items
<1>3. want = Contents /\ IndexOf(seq, n) = p
  BY <1>1, <1>2, Idle, PlaceOf
<1>4. data \in [Node -> Datum \cup {FREED}]
  BY DEF IndInv, TypeOK
<1>5. data'[seq[p]] = d /\ data' \in [Node -> Datum \cup {FREED}]
      /\ \A m \in Items(seq) : m # seq[p] => data'[m] = data[m]
  BY <1>1, <1>2, <1>4
<1>6. DataOf(data', seq) = [DataOf(data, seq) EXCEPT ![p] = d]
  <2>1. \A i \in 1..Len(seq) : seq[i] \in Items(seq) /\ (i # p => seq[i] # seq[p])
    BY <1>1 DEF Distinct, Items
  <2>2. \A i \in 1..Len(seq) : data'[seq[i]] = IF i = p THEN d ELSE data[seq[i]]
    BY <1>5, <2>1
  <2> QED BY <2>2 DEF DataOf
<1>7. Contents' = DataOf(data', seq)
  BY DEF Contents, DataOf
<1>8. Contents' = want'
  BY <1>1, <1>3, <1>6, <1>7
<1>9. TypeOK'
  BY <1>5 DEF IndInv, TypeOK, locals, list
<1>10. Shape'
  BY DEF IndInv, Shape, Distinct, Linked, LinkedBack, Describes, ItemAt, ItemBefore, InList, list, locals
<1> QED BY <1>8, <1>9, <1>10, AfterCall DEF locals

\* list_item_free_data: the datum is freed and the pointer reset.
LEMMA ItemFreeDataStep ==
  ASSUME IndInv, NEW n \in Node, ItemFreeData(n)
  PROVE  IndInv'
<1>1. /\ pc = "idle" /\ alive /\ UNCHANGED <<alive, next, prev, heap, list, seq>> /\ UNCHANGED locals
      /\ n \in InList /\ data' = [data EXCEPT ![n] = NULL] /\ given' = given /\ popped' = popped
      /\ freed' = freed \cup Id(data[n]) /\ want' = [want EXCEPT ![IndexOf(seq, n)] = NULL]
      /\ ret' \in allowed'
  BY DEF ItemFreeData, AtOnce, ResetDatum
<1>2. n \in heap /\ heap \subseteq Node /\ data \in [Node -> Datum \cup {FREED}] /\ given' \in 0..MaxInserts
  BY <1>1 DEF IndInv, TypeOK, Shape
<1>3. Leave(Id(data[n]), freed, popped, freed', popped') /\ Drops(n, data, heap, data', heap)
  BY <1>1, <1>2 DEF Leave, Drops
<1>4. Owned(data, heap, given, freed, popped)
  BY DEF IndInv
<1>5. Owned(data', heap, given, freed', popped')
  BY <1>2, <1>3, <1>4, OwnedGone
<1>6. Owned(data', heap', given', freed', popped')
  BY <1>1, <1>5
<1>7. NULL \in Datum
  BY DEF Datum
<1> QED BY <1>1, <1>2, <1>6, <1>7, Replaced

\* list_item_set_data: the old datum stays with the caller.
LEMMA ItemSetDataStep ==
  ASSUME IndInv, NEW n \in Node, NEW k \in Keys, ItemSetData(n, k)
  PROVE  IndInv'
<1>1. /\ pc = "idle" /\ alive /\ UNCHANGED <<alive, next, prev, heap, list, seq>> /\ UNCHANGED locals
      /\ n \in InList /\ data' = [data EXCEPT ![n] = Object(k)] /\ given' = given + 1 /\ freed' = freed
      /\ popped' = popped \cup Id(data[n]) /\ want' = [want EXCEPT ![IndexOf(seq, n)] = Object(k)]
      /\ ret' \in allowed' /\ given < MaxInserts
  BY DEF ItemSetData, AtOnce
<1>2. /\ n \in heap /\ heap \subseteq Node /\ data \in [Node -> Datum \cup {FREED}]
      /\ given \in Nat /\ given' \in 0..MaxInserts
  BY <1>1, ListAssumption DEF IndInv, TypeOK, Shape
<1>3. Object(k) = <<given + 1, k>> /\ Object(k) \in Datum
  BY <1>2, KeyOfDatum DEF Object
<1> HIDE DEF Object
<1>4. Owned(data, heap, given, freed, popped)
  BY DEF IndInv
<1>5. data'[n] = <<given + 1, k>> /\ \A m \in heap : m # n => data'[m] = data[m]
  BY <1>1, <1>2, <1>3
<1>6. Owned(data', heap, given + 1, freed, popped \cup Id(data[n]))
  BY <1>2, <1>4, <1>5, OwnedReplace
<1>7. Owned(data', heap', given', freed', popped')
  BY <1>1, <1>6
<1> QED BY <1>1, <1>2, <1>3, <1>7, Replaced

\* list_clear and list_free begin at the first item.
LEMMA FreeAllCall ==
  ASSUME IndInv, NEW o, FreeAll(o)
  PROVE  IndInv'
<1>1. /\ alive /\ pc = "idle" /\ pc' = "free" /\ key' = 0 /\ iter' = head /\ end' = NULL
      /\ next' = next /\ prev' = prev /\ data' = data /\ heap' = heap /\ head' = head /\ tail' = tail /\ count' = count
      /\ alive' = alive /\ seq' = seq /\ given' = given /\ freed' = freed /\ popped' = popped
      /\ want' = <<>> /\ allowed' = {NULL}
  BY DEF FreeAll, Enter, nodes, list, owners
<1>2. seq \in Seq(Node) /\ Len(seq) \in Nat /\ Distinct(seq) /\ Linked(next, seq)
  BY <1>1, Basics
<1>3. heap = Items(seq) /\ Describes(head, tail, count, seq)
  BY <1>1, Idle
<1>4. TypeOK'
  BY <1>1 DEF IndInv, TypeOK
<1>5. Shape'
  BY <1>1, <1>2, <1>3 DEF Shape, Distinct, Describes
<1>6. InFree'
  <2>1. head = ItemAt(seq, 1)
    BY <1>2, <1>3 DEF Describes, ItemAt
  <2>2. heap = {seq[i] : i \in 1..Len(seq)}
    BY <1>3 DEF Items
  <2>3. 1 \in 1..(Len(seq) + 1) /\ \A i \in 1..Len(seq) : next[seq[i]] = ItemAt(seq, i + 1)
    BY <1>2 DEF Linked
  <2> QED BY <1>1, <2>1, <2>2, <2>3 DEF InFree, ItemAt
<1>7. Owned(data', heap', given', freed', popped')
  BY <1>1 DEF IndInv
<1> QED BY <1>1, <1>4, <1>5, <1>6, <1>7 DEF IndInv, InRemoveByData, InFind, MatchesReference

\* One iteration of list_free: the next item is read before this one is
\* given back, and is still allocated.
LEMMA FreeStepStep ==
  ASSUME IndInv, FreeStep
  PROVE  IndInv'
<1>1. /\ pc = "free" /\ pc' = pc /\ key' = key /\ end' = end /\ iter # NULL /\ alive /\ alive' = alive
      /\ iter' = next[iter] /\ heap' = heap \ {iter} /\ data' = [data EXCEPT ![iter] = FREED]
      /\ freed' = freed \cup Id(data[iter]) /\ next' = [next EXCEPT ![iter] = FREED]
      /\ prev' = [prev EXCEPT ![iter] = FREED]
      /\ head' = head /\ tail' = tail /\ count' = count /\ seq' = seq
      /\ given' = given /\ popped' = popped /\ want' = want /\ allowed' = allowed
  BY DEF FreeStep, Release, list, spec, IndInv, Shape
<1>2. want = <<>> /\ allowed = {NULL}
  BY <1>1 DEF IndInv, InFree
<1>3. PICK p \in 1..(Len(seq) + 1) :
        /\ iter = ItemAt(seq, p) /\ heap = {seq[i] : i \in p..Len(seq)}
        /\ \A i \in p..Len(seq) : next[seq[i]] = ItemAt(seq, i + 1)
  BY <1>1 DEF IndInv, InFree
<1>4. /\ seq \in Seq(Node) /\ Len(seq) \in Nat /\ Distinct(seq)
      /\ next \in [Node -> Node \cup {NULL, FREED}] /\ prev \in [Node -> Node \cup {NULL, FREED}]
      /\ data \in [Node -> Datum \cup {FREED}]
      /\ heap \in SUBSET Node
  BY DEF IndInv, TypeOK, Shape
<1>5. p # Len(seq) + 1
  BY <1>1, <1>3 DEF ItemAt
<1>6. p \in 1..Len(seq) /\ p \in p..Len(seq) /\ iter = seq[p] /\ iter \in Node /\ iter \in heap
  BY <1>3, <1>4, <1>5 DEF ItemAt
<1>7. \A i \in (p + 1)..Len(seq) : i \in p..Len(seq) /\ i \in 1..Len(seq) /\ seq[i] \in Node /\ seq[i] # iter
  BY <1>4, <1>6 DEF Distinct
<1>8. iter' = ItemAt(seq, p + 1) /\ iter' \in Node \cup {NULL}
  <2>1. iter' = ItemAt(seq, p + 1)
    BY <1>1, <1>3, <1>6
  <2> QED BY <1>4, <1>6, <2>1 DEF ItemAt
<1>9. heap' = {seq[i] : i \in (p + 1)..Len(seq)}
  <2>1. \A i \in p..Len(seq) : i = p \/ i \in (p + 1)..Len(seq)
    BY <1>4
  <2> QED BY <1>1, <1>3, <1>6, <1>7, <2>1
<1>10. \A i \in (p + 1)..Len(seq) : next'[seq[i]] = ItemAt(seq, i + 1)
  BY <1>1, <1>3, <1>4, <1>7
<1>11. /\ next' \in [Node -> Node \cup {NULL, FREED}] /\ prev' \in [Node -> Node \cup {NULL, FREED}]
       /\ data' \in [Node -> Datum \cup {FREED}]
       /\ heap' \in SUBSET Node
  BY <1>1, <1>4, <1>6
<1>12. TypeOK'
  BY <1>1, <1>8, <1>11 DEF IndInv, TypeOK
<1>13. Shape'
  BY <1>1 DEF IndInv, Shape, Distinct, Describes
<1>14. Owned(data', heap', given', freed', popped')
  <2>1. Leave(Id(data[iter]), freed, popped, freed', popped') /\ Drops(iter, data, heap, data', heap')
    BY <1>1, <1>4 DEF Leave, Drops
  <2>2. Owned(data, heap, given, freed, popped)
    BY DEF IndInv
  <2>3. Owned(data', heap', given, freed', popped')
    BY <1>6, <2>1, <2>2, OwnedGone
  <2> QED BY <1>1, <2>3
<1>15. InFree'
  <2> DEFINE q == p + 1
  <2>1. /\ q \in 1..(Len(seq') + 1) /\ iter' = ItemAt(seq', q) /\ heap' = {seq'[i] : i \in q..Len(seq')}
        /\ \A i \in q..Len(seq') : next'[seq'[i]] = ItemAt(seq', i + 1)
    BY <1>1, <1>4, <1>6, <1>8, <1>9, <1>10
  <2> HIDE DEF q
  <2> QED BY <1>1, <1>2, <2>1 DEF InFree, ItemAt
<1> QED BY <1>1, <1>12, <1>13, <1>14, <1>15
        DEF IndInv, InRemoveByData, InFind, MatchesReference

\* The end of list_clear and list_free: every item has been given back.
LEMMA FreeEndStep ==
  ASSUME IndInv, FreeEnd
  PROVE  IndInv'
<1>1. /\ pc = "free" /\ iter = NULL /\ pc' = "idle" /\ key' = 0 /\ iter' = NULL /\ end' = NULL
      /\ ret' = NULL /\ seq' = <<>> /\ next' = next /\ prev' = prev /\ data' = data /\ heap' = heap
      /\ given' = given /\ freed' = freed /\ popped' = popped /\ want' = want /\ allowed' = allowed
  BY DEF FreeEnd, Done, nodes, owners, spec
<1>2. want = <<>> /\ allowed = {NULL}
  BY <1>1 DEF IndInv, InFree
<1>3. PICK p \in 1..(Len(seq) + 1) : iter = ItemAt(seq, p) /\ heap = {seq[i] : i \in p..Len(seq)}
  BY <1>1 DEF IndInv, InFree
<1>4. seq \in Seq(Node) /\ Len(seq) \in Nat /\ \A i \in 1..Len(seq) : seq[i] # NULL
  BY ListAssumption DEF IndInv, TypeOK
<1>5. p = Len(seq) + 1
  BY <1>1, <1>3, <1>4 DEF ItemAt
<1>6. heap' = {}
  BY <1>1, <1>3, <1>4, <1>5
<1>7. Contents' = <<>> /\ InList' = {} /\ Len(seq') = 0 /\ seq' \in Seq(Node)
  BY <1>1 DEF Contents, InList
<1>8. /\ alive' \in BOOLEAN /\ head' \in Node \cup {NULL} /\ tail' \in Node \cup {NULL} /\ count' \in 0..SIZE_MAX
      /\ alive' => head' = NULL /\ tail' = NULL /\ count' = 0
  <2>1. CASE op = "clear"
    <3>1. head' = NULL /\ tail' = NULL /\ count' = 0 /\ alive' = TRUE
      BY <2>1 DEF FreeEnd
    <3> QED BY <3>1, ListAssumption
  <2>2. CASE op # "clear"
    <3>1. alive' = FALSE /\ head' = head /\ tail' = tail /\ count' = count
      BY <2>2 DEF FreeEnd, list
    <3> QED BY <3>1 DEF IndInv, TypeOK
  <2> QED BY <2>1, <2>2
<1>9. TypeOK'
  BY <1>1, <1>7, <1>8 DEF IndInv, TypeOK
<1>10. Shape'
  BY <1>1, <1>6, <1>7, <1>8 DEF Shape, Distinct, Describes, Linked, LinkedBack
<1>11. Owned(data', heap', given', freed', popped')
  BY <1>1 DEF IndInv
<1> QED BY <1>1, <1>2, <1>7, <1>9, <1>10, <1>11, AfterCall

\* list_init of a freed list.
LEMMA ReinitStep ==
  ASSUME IndInv, Reinit
  PROVE  IndInv'
<1>1. /\ ~alive /\ alive' /\ head' = NULL /\ tail' = NULL /\ count' = 0
      /\ next' = next /\ prev' = prev /\ data' = data /\ heap' = heap /\ seq' = seq
      /\ pc' = pc /\ key' = key /\ iter' = iter /\ end' = end /\ ret' = ret
      /\ given' = given /\ freed' = freed /\ popped' = popped /\ want' = want /\ allowed' = allowed
      /\ alive' \in BOOLEAN
  BY DEF Reinit, nodes, locals, spec, owners
<1>2. pc = "idle" /\ seq = <<>> /\ heap = InList /\ want = Contents /\ ret \in allowed
  BY <1>1, Idle DEF IndInv, Shape
<1>3. TypeOK'
  BY <1>1, ListAssumption DEF IndInv, TypeOK
<1>4. Contents' = Contents /\ InList' = InList
  BY <1>1 DEF Contents, InList
<1>5. Shape'
  BY <1>1, <1>2, <1>4 DEF Shape, Distinct, Describes, Linked, LinkedBack
<1>6. Owned(data', heap', given', freed', popped')
  BY <1>1 DEF IndInv
<1> QED BY <1>1, <1>2, <1>3, <1>4, <1>5, <1>6, AfterCall

\* A stuttering step.
LEMMA StutterStep ==
  ASSUME IndInv, UNCHANGED vars
  PROVE  IndInv'
<1>1. /\ alive' = alive /\ next' = next /\ prev' = prev /\ data' = data /\ heap' = heap /\ head' = head /\ tail' = tail
      /\ count' = count /\ pc' = pc /\ op' = op /\ key' = key /\ iter' = iter /\ end' = end
      /\ ret' = ret /\ seq' = seq /\ want' = want /\ allowed' = allowed
      /\ given' = given /\ freed' = freed /\ popped' = popped
  BY DEF vars, nodes, list, locals, spec, owners
<1>2. InList' = InList /\ Contents' = Contents
  BY <1>1 DEF InList, Contents
<1>3. TypeOK'
  BY <1>1 DEF IndInv, TypeOK
<1>4. Shape'
  BY <1>1, <1>2 DEF IndInv, Shape, Distinct, Linked, LinkedBack, Describes, ItemAt, ItemBefore
<1>5. InRemoveByData'
  BY <1>1, <1>2 DEF IndInv, InRemoveByData, ItemAt
<1>6. InFind'
  BY <1>1, <1>2 DEF IndInv, InFind, Searched, ItemAt, ItemBefore, FoundFrom
<1>7. InFree'
  BY <1>1 DEF IndInv, InFree, ItemAt
<1>8. Owned(data', heap', given', freed', popped') /\ MatchesReference'
  BY <1>1, <1>2 DEF IndInv, MatchesReference
<1> QED BY <1>3, <1>4, <1>5, <1>6, <1>7, <1>8 DEF IndInv

\* An empty list satisfies the invariant.
LEMMA InitIndInv ==
  ASSUME Init
  PROVE  IndInv
<1>1. seq = <<>> /\ Len(seq) = 0 /\ seq \in Seq(Node) /\ pc = "idle" /\ heap = {} /\ alive
  BY DEF Init
<1>2. TypeOK
  BY ListAssumption DEF Init, TypeOK
<1>3. Shape
  BY <1>1 DEF Init, Shape, Distinct, Describes, Linked, LinkedBack, InList
<1>4. Owned(data, heap, given, freed, popped)
  <2>1. given = 0 /\ freed = {} /\ popped = {}
    BY DEF Init
  <2>2. 1..0 = {}
    OBVIOUS
  <2> QED BY <1>1, <2>1, <2>2 DEF Owned, HeldIn
<1>5. MatchesReference
  BY <1>1 DEF Init, MatchesReference, Contents
<1> QED BY <1>1, <1>2, <1>3, <1>4, <1>5 DEF IndInv, InRemoveByData, InFind, InFree


\* Every call and every iteration preserves the invariant.
LEMMA IndInvStep ==
  ASSUME IndInv, [Next]_vars
  PROVE  IndInv'
<1>1. CASE UNCHANGED vars
  BY <1>1, StutterStep
<1>2. CASE Call
  <2>1. ASSUME NEW k \in Keys, NEW n \in Node, AppendCall(n, k) PROVE IndInv'
    BY <2>1, AppendCallStep
  <2>2. ASSUME NEW k \in Keys, NEW n \in Node, Prepend(n, k) PROVE IndInv'
    BY <2>2, PrependStep
  <2>3. ASSUME NEW k \in Keys, NEW n \in Node, InsertSorted(n, k) PROVE IndInv'
    BY <2>3, InsertSortedStep
  <2>4. ASSUME NEW k \in Keys, NEW n \in Node, InsertSortedMiddle(n, k) PROVE IndInv'
    BY <2>4, InsertSortedMiddleStep
  <2>5. ASSUME NEW k \in Keys, NEW n \in Node \cup {NULL}, Find(n, k) PROVE IndInv'
    BY <2>5, FindCall
  <2>6. ASSUME NEW k \in Keys, NEW n \in Node, ItemSetData(n, k) PROVE IndInv'
    BY <2>6, ItemSetDataStep
  <2>7. ASSUME NEW k \in Keys, NEW o, RemoveByData(o, k) PROVE IndInv'
    BY <2>7, RemoveByDataCall
  <2>8. ASSUME NEW n \in Node, Remove(n) PROVE IndInv'
    BY <2>8, RemoveStep
  <2>9. ASSUME NEW n \in Node, ItemFreeData(n) PROVE IndInv'
    BY <2>9, ItemFreeDataStep
  <2>10. ASSUME NEW o, FreeAll(o) PROVE IndInv'
    BY <2>10, FreeAllCall
  <2>11. Refuse \/ Pop \/ PopEmpty \/ Reinit => IndInv'
    BY RefuseStep, PopStep, PopEmptyStep, ReinitStep
  <2> QED BY <1>2, <2>1, <2>2, <2>3, <2>4, <2>5, <2>6, <2>7, <2>8, <2>9, <2>10, <2>11 DEF Call
<1>3. CASE LoopStep
  BY <1>3, RemoveByDataStepStep, FindStepStep, FreeStepStep, FreeEndStep DEF LoopStep
<1> QED BY <1>1, <1>2, <1>3 DEF Next

\* At every point of every call the list satisfies IndInv: each loop of list.c
\* keeps to the part of the list that its invariant describes.
THEOREM ListInvariant == Spec => []IndInv
<1>1. Init => IndInv
  BY InitIndInv
<1>2. IndInv /\ [Next]_vars => IndInv'
  BY IndInvStep
<1> QED BY <1>1, <1>2, PTL DEF Spec

\* head, tail, count and both chains of the items describe one sequence of
\* distinct items, whatever functions of list.c were called before (all four
\* cases of _list_detach, list_pop, list_prepend and the others), for every
\* SIZE_MAX.
THEOREM ListWellLinked == Spec => []WellLinked
<1>1. IndInv => WellLinked
  <2> SUFFICES ASSUME IndInv PROVE WellLinked
    OBVIOUS
  <2>1. TypeOK /\ Distinct(seq) /\ seq \in Seq(Node) /\ Len(seq) \in Nat
    BY DEF IndInv, Shape, TypeOK
  <2>2. alive => /\ count = Len(seq)
                 /\ head = IF seq = <<>> THEN NULL ELSE seq[1]
                 /\ tail = IF seq = <<>> THEN NULL ELSE seq[Len(seq)]
    BY DEF IndInv, Shape, Describes
  <2>3. ASSUME pc # "free", NEW i \in 1..Len(seq)
        PROVE  /\ next[seq[i]] = IF i = Len(seq) THEN NULL ELSE seq[i + 1]
               /\ prev[seq[i]] = IF i = 1 THEN NULL ELSE seq[i - 1]
    <3>1. next[seq[i]] = ItemAt(seq, i + 1) /\ prev[seq[i]] = ItemBefore(seq, i)
      BY <2>3 DEF IndInv, Shape, Linked, LinkedBack
    <3>2. i = Len(seq) <=> i + 1 = Len(seq) + 1
      BY <2>1
    <3> QED BY <3>1, <3>2 DEF ItemAt, ItemBefore
  <2>4. Ext!IsInjective(seq)
    <3>1. DOMAIN seq = 1..Len(seq)
      BY <2>1
    <3> QED BY <2>1, <3>1 DEF Distinct, Ext!IsInjective
  <2> QED BY <2>1, <2>2, <2>3, <2>4 DEF WellLinked
<1> QED BY <1>1, ListInvariant, PTL

\* Between the calls the list holds the data a plain sequence would hold after
\* the same calls, and every call returned a right result: the search from
\* both ends misses no item and returns none in front of the offset.
THEOREM ListMatchesReference == Spec => []MatchesReference
<1>1. IndInv => MatchesReference
  BY DEF IndInv
<1> QED BY <1>1, ListInvariant, PTL

\* Between the calls the allocated items are those of the list, and each
\* object is in the list, freed, or back with the caller, never two of these:
\* nothing leaks and nothing is freed twice.
THEOREM ListOwnership == Spec => []Ownership
<1>1. IndInv => Ownership
  <2> SUFFICES ASSUME IndInv, pc = "idle"
               PROVE  /\ heap = InList /\ Held \cup freed \cup popped = 1..given
                      /\ Held \cap (freed \cup popped) = {} /\ freed \cap popped = {}
    BY DEF Ownership
  <2>1. heap = InList /\ Owned(data, heap, given, freed, popped)
    BY DEF IndInv, Shape
  <2>2. \A x : x \in Held <=> HeldIn(x, data, heap)
    BY <2>1 DEF Held, HeldIn
  <2>3. \A x : x \in 1..given <=> x \in freed \/ x \in popped \/ x \in Held
    BY <2>1, <2>2 DEF Owned
  <2>4. \A x : x \in Held => x \notin freed /\ x \notin popped
    BY <2>1, <2>2 DEF Owned, HeldIn
  <2>5. freed \cap popped = {}
    BY <2>1 DEF Owned
  <2> QED BY <2>1, <2>3, <2>4, <2>5
<1> QED BY <1>1, ListInvariant, PTL
=============================================================================
