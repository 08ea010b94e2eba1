--------------------------- MODULE ListReference ---------------------------
(***************************************************************************)
(* What the functions of slist.c and list.c should do, stated on plain     *)
(* sequences of data.  A datum is NULL or <<id, key>>: id tells the objects *)
(* apart, compare looks at the key.                                        *)
(***************************************************************************)
EXTENDS Naturals, Sequences

CONSTANT NULL          \* the null pointer

Ext == INSTANCE SequencesExt

\* compare on the data of an item; slist_item_free_data and
\* list_item_free_data leave a null datum, which direct_compare puts first.
KeyOf(d) == IF d = NULL THEN 0 ELSE d[2]

\* The object a datum is, if it is one.
Id(d) == IF d = NULL THEN {} ELSE {d[1]}

IsSorted(s) == \A i, j \in 1..Len(s) : i < j => KeyOf(s[i]) <= KeyOf(s[j])

InsertBefore(s, i, d) == Ext!InsertAt(s, i, d)
Without(s, i) == Ext!RemoveAt(s, i)
IndexOf(s, e) == CHOOSE i \in 1..Len(s) : s[i] = e

\* All the places from an index on that hold the key.
Matches(s, from, k) == {i \in from..Len(s) : KeyOf(s[i]) = k}

Least(I) == CHOOSE i \in I : \A j \in I : i <= j

\* In front of the first item that is not smaller, but behind a last item
\* that is not greater.
SortedInsert(s, d) ==
  IF s = <<>> \/ KeyOf(s[Len(s)]) <= KeyOf(d)
    THEN Append(s, d)
    ELSE InsertBefore(s, Least({i \in 1..Len(s) : KeyOf(s[i]) >= KeyOf(d)}), d)

RemoveFirst(s, k) ==
  IF Matches(s, 1, k) = {} THEN s ELSE Without(s, Least(Matches(s, 1, k)))

\* What is left of the first i items without those that hold the key.
Kept(s, k) ==
  LET kept[i \in 0..Len(s)] ==
        IF i = 0 THEN <<>>
        ELSE IF KeyOf(s[i]) = k THEN kept[i - 1] ELSE Append(kept[i - 1], s[i])
  IN  kept
RemoveEvery(s, k) == Kept(s, k)[Len(s)]
=============================================================================
