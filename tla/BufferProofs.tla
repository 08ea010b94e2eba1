---------------------------- MODULE BufferProofs ----------------------------
(***************************************************************************)
(* Proofs about Buffer for every width of size_t, every maximum size and   *)
(* whatever is written and read.                                           *)
(*                                                                         *)
(* Pow2 and the loop of _buffer_new_realloc_size are recursive functions.  *)
(* What they compute is proved by induction over a set of numbers, from    *)
(* the fact that a nonempty set of numbers has a least element.            *)
(***************************************************************************)
EXTENDS Buffer, SequenceTheorems, WellFoundedInduction, TLAPS

\* A nonempty set of numbers has a least one.
LEMMA LeastNumber ==
  ASSUME NEW T \in SUBSET Nat, T # {}
  PROVE  \E n \in T : \A m \in T : n <= m
<1> DEFINE R == {ss \in Nat \X Nat : ss[1] < ss[2]}
<1>1. IsWellFoundedOn(R, Nat)
  BY NatLessThanWellFounded DEF OpToRel
<1> HIDE DEF R
<1>2. PICK n \in T : \A m \in T : ~(<<m, n>> \in R)
  BY <1>1, WFMin
<1>3. \A m \in T : m < n => <<m, n>> \in R
  BY DEF R
<1>4. ASSUME NEW m \in T PROVE n <= m
  <2>1. ~(m < n)
    BY <1>2, <1>3, Zenon
  <2>2. m \in Nat /\ n \in Nat
    OBVIOUS
  <2> QED BY <2>1, <2>2
<1> QED BY <1>4

\* Induction, for a set of numbers.
LEMMA SetInduction ==
  ASSUME NEW T, 0 \in T, \A n \in Nat : n \in T => n + 1 \in T
  PROVE  \A n \in Nat : n \in T
<1> SUFFICES ASSUME Nat \ T # {} PROVE FALSE
  OBVIOUS
<1>1. PICK n \in Nat \ T : \A m \in Nat \ T : n <= m
  BY LeastNumber
<1>2. n # 0 /\ n - 1 \in Nat
  BY <1>1
<1>3. n - 1 \in T
  BY <1>1, <1>2
<1> QED BY <1>1, <1>2, <1>3

\* The first n + 1 iterates of g from a.
Iterates(a, g, S, n) ==
  {h \in [0..n -> S] : h[0] = a /\ \A m \in 0..(n - 1) : h[m + 1] = g[h[m]]}

\* f[n] is g applied n times to a.
IsIteration(f, a, g, S) ==
  f \in [Nat -> S] /\ f[0] = a /\ \A n \in Nat : f[n + 1] = g[f[n]]

\* A function can be iterated.
LEMMA IterationExists ==
  ASSUME NEW S, NEW a \in S, NEW g \in [S -> S]
  PROVE  \E f : IsIteration(f, a, g, S)
<1> DEFINE It(n) == Iterates(a, g, S, n)
<1>1. \A n \in Nat : \A h \in It(n), e \in It(n + 1) : \A i \in 0..n : h[i] = e[i]
  <2> SUFFICES ASSUME NEW n \in Nat, NEW h \in It(n), NEW e \in It(n + 1)
               PROVE  \A i \in 0..n : h[i] = e[i]
    OBVIOUS
  <2> DEFINE T == {i \in Nat : i \in 0..n => h[i] = e[i]}
  <2>1. 0 \in T
    BY DEF Iterates
  <2>2. ASSUME NEW i \in Nat, i \in T PROVE i + 1 \in T
    <3> SUFFICES ASSUME i + 1 \in 0..n PROVE h[i + 1] = e[i + 1]
      OBVIOUS
    <3>1. i \in 0..(n - 1) /\ i \in 0..((n + 1) - 1) /\ i \in 0..n
      OBVIOUS
    <3>2. h[i + 1] = g[h[i]] /\ e[i + 1] = g[e[i]]
      BY <3>1 DEF Iterates
    <3> QED BY <2>2, <3>1, <3>2
  <2> HIDE DEF T
  <2>3. \A i \in Nat : i \in T
    BY <2>1, <2>2, SetInduction
  <2> QED BY <2>3 DEF T
<1>2. \A n \in Nat : It(n) # {}
  <2> DEFINE T == {n \in Nat : It(n) # {}}
  <2>1. 0 \in T
    <3>1. [i \in 0..0 |-> a] \in It(0)
      BY DEF Iterates
    <3> QED BY <3>1
  <2>2. ASSUME NEW n \in Nat, n \in T PROVE n + 1 \in T
    <3>1. PICK h : h \in It(n)
      BY <2>2
    <3> DEFINE e == [i \in 0..(n + 1) |-> IF i = n + 1 THEN g[h[n]] ELSE h[i]]
    <3>2. h \in [0..n -> S] /\ h[n] \in S /\ h[0] = a
      BY <3>1 DEF Iterates
    <3>3. e \in [0..(n + 1) -> S] /\ e[0] = a
      BY <3>2
    <3>4. ASSUME NEW m \in 0..((n + 1) - 1) PROVE e[m + 1] = g[e[m]]
      <4>1. CASE m = n
        BY <4>1
      <4>2. CASE m # n
        <5>1. m \in 0..(n - 1) /\ m + 1 \in 0..n /\ m \in 0..n
          BY <4>2
        <5>2. h[m + 1] = g[h[m]]
          BY <3>1, <5>1 DEF Iterates
        <5> QED BY <5>1, <5>2
      <4> QED BY <4>1, <4>2
    <3> HIDE DEF e
    <3>5. e \in It(n + 1)
      BY <3>3, <3>4 DEF Iterates
    <3> QED BY <3>5
  <2> HIDE DEF T
  <2>3. \A n \in Nat : n \in T
    BY <2>1, <2>2, SetInduction
  <2> QED BY <2>3 DEF T
<1> DEFINE c(n) == CHOOSE h : h \in It(n)
<1>3. \A n \in Nat : c(n) \in It(n)
  BY <1>2
<1> HIDE DEF c
<1> DEFINE f == [n \in Nat |-> c(n)[n]]
<1>4. f \in [Nat -> S]
  <2>1. \A n \in Nat : c(n) \in [0..n -> S] /\ n \in 0..n
    BY <1>3 DEF Iterates
  <2> QED BY <2>1
<1>5. f[0] = a
  BY <1>3 DEF Iterates
<1>6. ASSUME NEW n \in Nat PROVE f[n + 1] = g[f[n]]
  <2>1. f[n] = c(n)[n] /\ f[n + 1] = c(n + 1)[n + 1]
    OBVIOUS
  <2>2. c(n) \in It(n) /\ c(n + 1) \in It(n + 1) /\ n \in 0..n
    BY <1>3
  <2>3. c(n)[n] = c(n + 1)[n]
    BY <1>1, <2>2
  <2>4. c(n + 1)[n + 1] = g[c(n + 1)[n]]
    <3>1. n \in 0..((n + 1) - 1)
      OBVIOUS
    <3> QED BY <2>2, <3>1 DEF Iterates
  <2> QED BY <2>1, <2>3, <2>4
<1> HIDE DEF f
<1>7. IsIteration(f, a, g, S)
  BY <1>4, <1>5, <1>6 DEF IsIteration
<1> QED BY <1>7

\* Powers of two.
LEMMA Pow2Values ==
  /\ Pow2 \in [Nat -> Nat \ {0}]
  /\ Pow2[0] = 1
  /\ \A n \in Nat : Pow2[n + 1] = 2 * Pow2[n]
<1> DEFINE S == Nat \ {0}
           g == [x \in S |-> 2 * x]
<1>1. g \in [S -> S] /\ 1 \in S
  OBVIOUS
<1> HIDE DEF S, g
<1>a. PICK f : IsIteration(f, 1, g, S)
  BY <1>1, IterationExists
<1>2. f \in [Nat -> S] /\ f[0] = 1 /\ \A n \in Nat : f[n + 1] = g[f[n]]
  BY <1>a DEF IsIteration
<1>3. f = [n \in Nat |-> IF n = 0 THEN 1 ELSE 2 * f[n - 1]]
  <2>1. ASSUME NEW n \in Nat PROVE f[n] = IF n = 0 THEN 1 ELSE 2 * f[n - 1]
    <3>1. CASE n = 0
      BY <1>2, <3>1
    <3>2. CASE n # 0
      <4>1. n - 1 \in Nat /\ (n - 1) + 1 = n
        BY <3>2
      <4>2. f[n] = g[f[n - 1]] /\ f[n - 1] \in S
        BY <1>2, <4>1
      <4> QED BY <3>2, <4>2 DEF g
    <3> QED BY <3>1, <3>2
  <2> QED BY <1>2, <2>1
<1>4. Pow2 = [n \in Nat |-> IF n = 0 THEN 1 ELSE 2 * Pow2[n - 1]]
  BY <1>3, Zenon DEF Pow2
<1> DEFINE T == {n \in Nat : Pow2[n] \in S}
<1>5. Pow2[0] = 1
  BY <1>4
<1>6. ASSUME NEW n \in Nat PROVE Pow2[n + 1] = 2 * Pow2[n]
  <2>1. n + 1 \in Nat /\ n + 1 # 0 /\ (n + 1) - 1 = n
    OBVIOUS
  <2> QED BY <1>4, <2>1
<1>7. 0 \in T
  BY <1>5 DEF S
<1>8. ASSUME NEW n \in Nat, n \in T PROVE n + 1 \in T
  BY <1>6, <1>8 DEF S
<1> HIDE DEF T
<1>9. \A n \in Nat : n \in T
  BY <1>7, <1>8, SetInduction
<1>10. \A n \in Nat : Pow2[n] \in S
  BY <1>9 DEF T
<1>11. Pow2 \in [Nat -> S]
  BY <1>4, <1>10
<1> QED BY <1>5, <1>6, <1>11 DEF S

\* The modulus is an even number, and buffer sizes are below half of it.
LEMMA ModulusFacts ==
  /\ Modulus \in Nat /\ Modulus = 2 * (BUFFER_LIMIT + 2) /\ BUFFER_LIMIT \in Int
  /\ SIZE_MAX = Modulus - 1 /\ Modulus = Pow2[SIZE_BITS]
<1>1. SIZE_BITS - 1 \in Nat /\ (SIZE_BITS - 1) + 1 = SIZE_BITS
  BY BufferAssumption
<1>2. Pow2[SIZE_BITS] = 2 * Pow2[SIZE_BITS - 1] /\ Pow2[SIZE_BITS - 1] \in Nat
  BY <1>1, Pow2Values
<1> QED BY <1>2 DEF Modulus, SIZE_MAX, BUFFER_LIMIT

\* Reducing a number below 2 * m.
LEMMA ModuloOnce ==
  ASSUME NEW m \in Nat \ {0}, NEW x \in Nat, x < 2 * m
  PROVE  x % m = IF x < m THEN x ELSE x - m
<1>1. /\ x = m * (x \div m) + (x % m) /\ x % m \in 0..(m - 1)
      /\ x \div m \in Int
  OBVIOUS
<1>2. x \div m \in {0, 1}
  <2>1. CASE x \div m >= 2
    <3>1. m * (x \div m) >= m * 2
      BY <1>1, <2>1
    <3> QED BY <1>1, <3>1
  <2>2. CASE x \div m <= -1
    <3>1. m * (x \div m) <= m * (-1)
      BY <1>1, <2>2
    <3> QED BY <1>1, <3>1
  <2> QED BY <1>1, <2>1, <2>2
<1> QED BY <1>1, <1>2

\* One iteration of the loop of _buffer_new_realloc_size.
Step(x, from, to) == IF (2 * x) % Modulus < from THEN to ELSE (2 * x) % Modulus

\* The loop's sizes.
LEMMA SizesValues ==
  ASSUME NEW from \in 0..SIZE_MAX, NEW to \in 0..SIZE_MAX
  PROVE  /\ Sizes(from, to) \in [0..SIZE_BITS -> 0..SIZE_MAX]
         /\ Sizes(from, to)[0] = from
         /\ \A k \in 0..(SIZE_BITS - 1) :
              Sizes(from, to)[k + 1] = Step(Sizes(from, to)[k], from, to)
<1> DEFINE S == 0..SIZE_MAX
           D == 0..SIZE_BITS
           g == [x \in S |-> Step(x, from, to)]
<1>1. \A x \in S : (2 * x) % Modulus \in S
  <2> SUFFICES ASSUME NEW x \in S PROVE (2 * x) % Modulus \in 0..(Modulus - 1)
    BY ModulusFacts
  <2> QED BY ModulusFacts, ModuloOnce
<1>2. g \in [S -> S] /\ from \in S
  BY <1>1 DEF Step
<1> HIDE DEF S, g
<1>3. PICK h : IsIteration(h, from, g, S)
  BY <1>2, IterationExists
<1>4. h \in [Nat -> S] /\ h[0] = from /\ \A n \in Nat : h[n + 1] = g[h[n]]
  BY <1>3 DEF IsIteration
<1> DEFINE f == [k \in D |-> h[k]]
           Eq(e) == e = [k \in D |-> IF k = 0 THEN from ELSE Step(e[k - 1], from, to)]
<1>5. Eq(f)
  <2>1. ASSUME NEW k \in D PROVE f[k] = IF k = 0 THEN from ELSE Step(f[k - 1], from, to)
    <3>1. CASE k = 0
      BY <1>4, <3>1
    <3>2. CASE k # 0
      <4>1. k - 1 \in Nat /\ k - 1 \in D /\ (k - 1) + 1 = k /\ k \in Nat
        BY <3>2, BufferAssumption
      <4>2. h[k] = g[h[k - 1]] /\ h[k - 1] \in S
        BY <1>4, <4>1
      <4>3. f[k] = h[k] /\ f[k - 1] = h[k - 1]
        BY <4>1
      <4> QED BY <3>2, <4>2, <4>3 DEF g
    <3> QED BY <3>1, <3>2
  <2> QED BY <2>1
<1> HIDE DEF f
<1>6. Sizes(from, to) = CHOOSE e : Eq(e)
  BY DEF Sizes, Step
<1>7. Eq(Sizes(from, to))
  <2> HIDE DEF Eq
  <2> QED BY <1>5, <1>6, Zenon
<1> DEFINE e == Sizes(from, to)
<1> HIDE DEF e
<1>8. e = [k \in D |-> IF k = 0 THEN from ELSE Step(e[k - 1], from, to)]
  BY <1>7 DEF e
<1>9. e[0] = from
  BY <1>8, BufferAssumption
<1>10. \A k \in 0..(SIZE_BITS - 1) : e[k + 1] = Step(e[k], from, to)
  <2> SUFFICES ASSUME NEW k \in 0..(SIZE_BITS - 1) PROVE e[k + 1] = Step(e[k], from, to)
    OBVIOUS
  <2>1. k + 1 \in D /\ k + 1 # 0 /\ (k + 1) - 1 = k
    BY BufferAssumption
  <2> QED BY <1>8, <2>1
<1> DEFINE T == {n \in Nat : n \in D => e[n] \in S}
<1>11. 0 \in T
  BY <1>2, <1>9
<1>12. ASSUME NEW n \in Nat, n \in T PROVE n + 1 \in T
  <2> SUFFICES ASSUME n + 1 \in D PROVE e[n + 1] \in S
    OBVIOUS
  <2>1. n \in 0..(SIZE_BITS - 1) /\ n \in D
    BY BufferAssumption
  <2>2. e[n] \in S
    BY <1>12, <2>1
  <2>3. Step(e[n], from, to) = g[e[n]]
    BY <2>2 DEF g
  <2> QED BY <1>2, <1>10, <2>1, <2>2, <2>3
<1> HIDE DEF T
<1>13. \A n \in Nat : n \in T
  BY <1>11, <1>12, SetInduction
<1>14. \A k \in D : e[k] \in S
  BY <1>13, BufferAssumption DEF T
<1>15. e \in [D -> S]
  BY <1>8, <1>14
<1> QED BY <1>9, <1>10, <1>15 DEF e, S

\* The loop ends: one of its sizes is enough.  If none were, no overflow would
\* have been noticed, the last size would be the first one times Modulus, which
\* is 0 modulo Modulus, and 0 is below the first size.
LEMMA LoopEnds ==
  ASSUME NEW from \in 1..SIZE_MAX, NEW to \in 1..SIZE_MAX, from < to
  PROVE  \E k \in 0..SIZE_BITS : Sizes(from, to)[k] >= to
<1> DEFINE size == Sizes(from, to)
<1>1. /\ size \in [0..SIZE_BITS -> 0..SIZE_MAX] /\ size[0] = from
      /\ \A k \in 0..(SIZE_BITS - 1) : size[k + 1] = Step(size[k], from, to)
  BY SizesValues, ModulusFacts
<1> HIDE DEF size
<1> SUFFICES ASSUME \A k \in 0..SIZE_BITS : ~(size[k] >= to) PROVE FALSE
  BY DEF size
<1>2. \A k \in 0..SIZE_BITS : size[k] \in 0..SIZE_MAX /\ size[k] < to
  BY <1>1, ModulusFacts
<1> DEFINE T == {n \in Nat : n \in 0..SIZE_BITS =>
                   size[n] >= from /\ \E q \in Int : from * Pow2[n] = Modulus * q + size[n]}
<1>3. 0 \in T
  <2>1. from * Pow2[0] = Modulus * 0 + size[0]
    BY <1>1, Pow2Values, ModulusFacts
  <2> QED BY <1>1, <2>1
<1>4. ASSUME NEW n \in Nat, n \in T PROVE n + 1 \in T
  <2> SUFFICES ASSUME n + 1 \in 0..SIZE_BITS
               PROVE  /\ size[n + 1] >= from
                      /\ \E q \in Int : from * Pow2[n + 1] = Modulus * q + size[n + 1]
    OBVIOUS
  <2>1. n \in 0..SIZE_BITS /\ n \in 0..(SIZE_BITS - 1)
    BY BufferAssumption
  <2>2. PICK q \in Int : from * Pow2[n] = Modulus * q + size[n]
    BY <1>4, <2>1
  <2> DEFINE twice == (2 * size[n]) % Modulus
  <2>3. size[n + 1] = twice /\ twice >= from
    <3>1. size[n + 1] = Step(size[n], from, to)
      BY <1>1, <2>1
    <3>2. size[n + 1] < to /\ size[n + 1] \in Nat
      BY <1>2
    <3>3. twice \in Nat
      BY <1>2, <2>1, ModulusFacts, ModuloOnce
    <3> QED BY <3>1, <3>2, <3>3 DEF Step
  <2>4. size[n] \in 0..(Modulus - 1)
    BY <1>2, <2>1, ModulusFacts
  <2>5. twice = IF 2 * size[n] < Modulus THEN 2 * size[n] ELSE 2 * size[n] - Modulus
    <3>1. Modulus \in Nat \ {0} /\ 2 * size[n] \in Nat /\ 2 * size[n] < 2 * Modulus
      BY <2>4, ModulusFacts
    <3> QED BY <3>1, ModuloOnce
  <2> HIDE DEF twice
  <2>6. from * Pow2[n + 1] = 2 * (from * Pow2[n])
    <3>1. Pow2[n + 1] = 2 * Pow2[n] /\ Pow2[n] \in Nat /\ from \in Nat
      BY Pow2Values, ModulusFacts
    <3> QED BY <3>1
  <2>7. from * Pow2[n + 1] = 2 * (Modulus * q) + 2 * size[n]
    BY <2>2, <2>4, <2>6, ModulusFacts
  <2>8. CASE 2 * size[n] < Modulus
    <3>1. Modulus * (2 * q) = 2 * (Modulus * q)
      BY ModulusFacts
    <3>2. from * Pow2[n + 1] = Modulus * (2 * q) + twice
      BY <2>5, <2>7, <2>8, <3>1
    <3> QED BY <2>3, <3>2
  <2>9. CASE ~(2 * size[n] < Modulus)
    <3>1. Modulus * (2 * q + 1) = 2 * (Modulus * q) + Modulus
      BY ModulusFacts
    <3>2. from * Pow2[n + 1] = Modulus * (2 * q + 1) + twice
      BY <2>4, <2>5, <2>7, <2>9, <3>1, ModulusFacts
    <3> QED BY <2>3, <3>2
  <2> QED BY <2>8, <2>9
<1> HIDE DEF T
<1>5. SIZE_BITS \in T
  <2>1. \A n \in Nat : n \in T
    BY <1>3, <1>4, SetInduction
  <2> QED BY <2>1, BufferAssumption
<1>6. PICK q \in Int : from * Modulus = Modulus * q + size[SIZE_BITS]
  <2>1. SIZE_BITS \in 0..SIZE_BITS
    BY BufferAssumption
  <2>2. PICK q \in Int : from * Pow2[SIZE_BITS] = Modulus * q + size[SIZE_BITS]
    BY <1>5, <2>1 DEF T
  <2> QED BY <2>2, ModulusFacts
<1>7. size[SIZE_BITS] \in 1..(Modulus - 1)
  BY <1>2, <1>5, BufferAssumption, ModulusFacts DEF T
<1>8. Modulus * (from - q) = size[SIZE_BITS]
  BY <1>6, <1>7, ModulusFacts
<1>9. CASE from - q >= 1
  <2>1. Modulus * (from - q) >= Modulus * 1
    BY <1>9, ModulusFacts
  <2> QED BY <1>7, <1>8, <2>1, ModulusFacts
<1>10. CASE from - q <= 0
  <2>1. Modulus * (from - q) <= Modulus * 0
    BY <1>10, ModulusFacts
  <2> QED BY <1>7, <1>8, <2>1, ModulusFacts
<1> QED BY <1>9, <1>10, ModulusFacts

\* What _buffer_new_realloc_size returns: enough, no overflow, less than twice
\* what is needed.
LEMMA NewReallocSizeBounds ==
  ASSUME NEW from \in 1..SIZE_MAX, NEW to \in 1..SIZE_MAX, from < to
  PROVE  /\ NewReallocSize(from, to) \in to..SIZE_MAX
         /\ NewReallocSize(from, to) < 2 * to
<1> DEFINE size == Sizes(from, to)
<1>1. /\ size \in [0..SIZE_BITS -> 0..SIZE_MAX] /\ size[0] = from
      /\ \A k \in 0..(SIZE_BITS - 1) : size[k + 1] = Step(size[k], from, to)
  BY SizesValues, ModulusFacts
<1> DEFINE Enough == {k \in 0..SIZE_BITS : size[k] >= to}
<1>2. Enough # {} /\ Enough \in SUBSET Nat
  BY LoopEnds
<1> HIDE DEF Enough
<1>3. PICK l \in Enough : \A m \in Enough : l <= m
  BY <1>2, LeastNumber
<1> DEFINE Last(k) == size[k] >= to /\ \A j \in 0..(k - 1) : size[j] < to
<1> HIDE DEF size
<1>4. l \in 0..SIZE_BITS /\ Last(l)
  <2>1. l \in 0..SIZE_BITS /\ size[l] >= to
    BY DEF Enough, size
  <2>2. ASSUME NEW j \in 0..(l - 1) PROVE size[j] < to
    <3>1. j \in 0..SIZE_BITS /\ j < l
      BY <2>1, BufferAssumption
    <3>2. ~(j \in Enough)
      BY <1>3, <2>1, <3>1
    <3>3. ~(size[j] >= to)
      BY <3>1, <3>2 DEF Enough, size
    <3> QED BY <1>1, <3>1, <3>3, ModulusFacts
  <2> QED BY <2>1, <2>2
<1> DEFINE last == CHOOSE k \in 0..SIZE_BITS : Last(k)
<1>5. last \in 0..SIZE_BITS /\ Last(last)
  <2> HIDE DEF Last
  <2> QED BY <1>4
<1>6. NewReallocSize(from, to) = size[last]
  BY DEF NewReallocSize, size
<1> HIDE DEF last
<1>7. size[last] \in to..SIZE_MAX
  BY <1>1, <1>5, ModulusFacts
<1>8. last # 0
  BY <1>1, <1>5, ModulusFacts
<1> DEFINE p == size[last - 1]
<1>9. /\ last - 1 \in 0..(SIZE_BITS - 1) /\ last - 1 \in 0..SIZE_BITS
      /\ last - 1 \in 0..(last - 1) /\ (last - 1) + 1 = last
  BY <1>5, <1>8, BufferAssumption
<1>10. p \in 0..SIZE_MAX /\ p < to /\ size[last] = Step(p, from, to)
  BY <1>1, <1>5, <1>9
<1> HIDE DEF p
<1>11. (2 * p) % Modulus \in Nat /\ (2 * p) % Modulus <= 2 * p
  <2>1. Modulus \in Nat \ {0} /\ 2 * p \in Nat /\ 2 * p < 2 * Modulus
    BY <1>10, ModulusFacts
  <2>2. (2 * p) % Modulus = IF 2 * p < Modulus THEN 2 * p ELSE 2 * p - Modulus
    BY <2>1, ModuloOnce
  <2> QED BY <2>1, <2>2
<1>12. size[last] < 2 * to
  BY <1>10, <1>11, ModulusFacts DEF Step
<1> QED BY <1>6, <1>7, <1>12
-----------------------------------------------------------------------------
(***************************************************************************)
(* The invariant.                                                          *)
(***************************************************************************)

IndInv == FitsMemory /\ StringTerminated /\ NothingLost

\* A string of the caller before a buffer function has filled it.
LEMMA EmptyStringsType ==
  ASSUME NEW d \in EmptyStrings
  PROVE  d \in [str : Seq(Byte), mem : Nat, len : Nat] /\ d.len <= d.mem /\ d.str = <<>>
<1>1. PICK n \in DstSizes : d = [str |-> <<>>, mem |-> n, len |-> n]
  BY DEF EmptyStrings
<1>2. n \in Nat /\ <<>> \in Seq(Byte)
  BY BufferAssumption, EmptySeq
<1>3. d.len = n /\ d.mem = n /\ d.str = <<>>
  BY <1>1
<1> QED BY <1>1, <1>2, <1>3

\* max_size leaves room for twice its value in a size_t.
LEMMA MaxSizeBounds ==
  ASSUME NEW m \in MaxSizes
  PROVE  m \in Nat /\ 1 <= m /\ 2 * m < SIZE_MAX
BY BufferAssumption, ModulusFacts

\* The invariant holds in the initial state.
LEMMA InitIndInv == Init => IndInv
<1> SUFFICES ASSUME Init PROVE IndInv
  OBVIOUS
<1>1. dst \in [str : Seq(Byte), mem : Nat, len : Nat] /\ dst.len <= dst.mem /\ dst.str = <<>>
  BY EmptyStringsType DEF Init
<1>2. <<>> \in Seq(Byte) /\ Len(<<>>) = 0 /\ <<>> \o <<>> = <<>>
  BY EmptySeq, ConcatEmptySeq
<1>3. TypeOK
  BY <1>1, <1>2, MaxSizeBounds, BufferAssumption DEF Init, TypeOK
<1>4. FitsMemory
  BY <1>2, <1>3, BufferAssumption, ModulusFacts DEF Init, FitsMemory
<1>5. StringTerminated
  BY <1>1 DEF StringTerminated, Init
<1>6. NothingLost
  BY <1>2 DEF Init, NothingLost
<1> QED BY <1>4, <1>5, <1>6 DEF IndInv

\* buffer_fill: the bytes fit, also if doubling the memory overflows.
LEMMA StoreStep ==
  ASSUME IndInv, NEW d \in Chunks(max_size), Store(d)
  PROVE  IndInv'
<1> USE DEF IndInv
<1>1. d \in Seq(Byte) /\ Len(d) \in Nat
  BY BufferAssumption DEF FitsMemory, TypeOK
<1>2. /\ bytes \in Seq(Byte) /\ Len(bytes) \in Nat
      /\ written \in Seq(Byte) /\ out \in Seq(Byte)
  BY DEF FitsMemory, TypeOK
<1>3. /\ bytes' \in Seq(Byte) /\ Len(bytes') = Len(bytes) + Len(d)
      /\ written' \in Seq(Byte)
  BY <1>1, <1>2, ConcatProperties DEF Store
<1>4. /\ max_size \in Nat /\ 2 * max_size < SIZE_MAX /\ SIZE_MAX \in Nat
      /\ msize \in 1..SIZE_MAX
  BY MaxSizeBounds, ModulusFacts DEF FitsMemory, TypeOK
<1>5. Len(bytes) + Len(d) <= max_size
  BY <1>1, <1>2, <1>4 DEF Store, Exceeds
<1>6. Len(bytes') <= msize' /\ msize' \in 1..SIZE_MAX /\ (msize' = InitialSize \/ msize' < 4 * max_size)
  <2>1. CASE ~NeedsMemory(Len(d))
    <3>1. msize' = msize
      BY <2>1 DEF Store
    <3>2. Len(bytes) + Len(d) <= msize
      BY <1>1, <1>2, <1>4, <2>1 DEF NeedsMemory
    <3> QED BY <1>3, <1>4, <3>1, <3>2 DEF FitsMemory
  <2>2. CASE NeedsMemory(Len(d))
    <3> DEFINE to == (msize + Len(d)) % Modulus
    <3>1. msize < Len(bytes) + Len(d) /\ Len(bytes) <= msize
      BY <1>1, <1>2, <1>4, <2>2 DEF NeedsMemory, FitsMemory
    <3>2. msize + Len(d) \in Nat /\ msize + Len(d) < 2 * max_size /\ Len(d) >= 1
      BY <1>1, <1>2, <1>4, <1>5, <3>1
    <3>3. to = msize + Len(d)
      <4>1. Modulus \in Nat \ {0} /\ msize + Len(d) < Modulus
        BY <1>4, <3>2, ModulusFacts
      <4> QED BY <3>2, <4>1, ModuloOnce
    <3> HIDE DEF to
    <3>4. to \in 1..SIZE_MAX /\ msize < to
      BY <1>1, <1>4, <3>2, <3>3
    <3>5. msize' = NewReallocSize(msize, to)
      BY <2>2 DEF Store, to
    <3>6. msize' \in to..SIZE_MAX /\ msize' < 2 * to
      BY <1>4, <3>4, <3>5, NewReallocSizeBounds
    <3> QED BY <1>1, <1>2, <1>3, <1>4, <3>1, <3>2, <3>3, <3>4, <3>6
  <2> QED BY <2>1, <2>2
<1>7. TypeOK'
  BY <1>3, <1>5, <1>6 DEF FitsMemory, TypeOK, Store
<1>8. FitsMemory'
  BY <1>6, <1>7 DEF FitsMemory, Store
<1>9. StringTerminated'
  BY DEF StringTerminated, Store
<1>10. NothingLost'
  <2>1. written' = (out \o bytes) \o d /\ bytes' = bytes \o d /\ out' = out
    BY DEF NothingLost, Store
  <2>2. (out \o bytes) \o d = out \o (bytes \o d)
    BY <1>1, <1>2, ConcatAssociative
  <2> QED BY <2>1, <2>2 DEF NothingLost
<1> QED BY <1>8, <1>9, <1>10

\* A step that leaves the buffer and the caller's string alone.
LEMMA QuietStep ==
  ASSUME IndInv, valid' \in BOOLEAN, UNCHANGED <<max_size, bytes, msize, dst, written, out>>
  PROVE  IndInv'
BY DEF IndInv, FitsMemory, TypeOK, StringTerminated, NothingLost

\* _buffer_copy_to_string: the string is terminated within its memory.
LEMMA CopiedString ==
  ASSUME TypeOK, StringTerminated, NEW n \in 0..Len(bytes)
  PROVE  /\ Copied(n) \in [str : Seq(Byte), mem : Nat, len : Nat]
         /\ Copied(n).str = SubSeq(bytes, 1, n)
         /\ Copied(n).len <= Copied(n).mem
         /\ Len(Copied(n).str) < Copied(n).mem
<1>1. /\ bytes \in Seq(Byte) /\ Len(bytes) \in Nat
      /\ dst \in [str : Seq(Byte), mem : Nat, len : Nat] /\ dst.len <= dst.mem
  BY DEF TypeOK, StringTerminated
<1> DEFINE s == SubSeq(bytes, 1, n)
<1>2. s \in Seq(Byte) /\ Len(s) = n
  <2>1. \A i \in 1..n : bytes[i] \in Byte
    BY <1>1
  <2> QED BY <2>1, SubSeqProperties
<1> HIDE DEF s
<1> DEFINE l == IF n + 1 > dst.len THEN n ELSE dst.len
           m == IF n + 1 > dst.len THEN n + 1 ELSE dst.mem
<1>3. l \in Nat /\ m \in Nat /\ l <= m /\ n < m
  BY <1>1
<1>4. Copied(n) = [dst EXCEPT !.str = s, !.len = l, !.mem = m]
  BY DEF Copied, s
<1> HIDE DEF l, m
<1>5. Copied(n) = [str |-> s, mem |-> m, len |-> l]
  BY <1>1, <1>4
<1>6. Copied(n).str = s /\ Copied(n).len = l /\ Copied(n).mem = m
  BY <1>5
<1>7. Copied(n) \in [str : Seq(Byte), mem : Nat, len : Nat]
  BY <1>2, <1>3, <1>5
<1> QED BY <1>2, <1>3, <1>6, <1>7 DEF s

\* A line, its newline and the rest make up the bytes.
LEMMA LineSplit ==
  ASSUME NEW b \in Seq(Byte), NEW i \in 1..Len(b), b[i] = NL
  PROVE  /\ SubSeq(b, 1, i - 1) \in Seq(Byte) /\ Len(SubSeq(b, 1, i - 1)) = i - 1
         /\ SubSeq(b, i + 1, Len(b)) \in Seq(Byte)
         /\ Len(SubSeq(b, i + 1, Len(b))) = Len(b) - i
         /\ SubSeq(b, 1, i - 1) \o <<NL>> = SubSeq(b, 1, i)
         /\ (SubSeq(b, 1, i - 1) \o <<NL>>) \o SubSeq(b, i + 1, Len(b)) = b
<1>1. Len(b) \in Nat /\ \A j \in 1..Len(b) : b[j] \in Byte
  OBVIOUS
<1>2. SubSeq(b, 1, i - 1) \in Seq(Byte) /\ Len(SubSeq(b, 1, i - 1)) = i - 1
  <2>1. 1 \in Int /\ i - 1 \in Int /\ \A j \in 1..(i - 1) : b[j] \in Byte
    BY <1>1
  <2> QED BY <2>1, SubSeqProperties
<1>3. /\ SubSeq(b, i + 1, Len(b)) \in Seq(Byte)
      /\ Len(SubSeq(b, i + 1, Len(b))) = Len(b) - i
  <2>1. i + 1 \in Int /\ Len(b) \in Int /\ \A j \in (i + 1)..Len(b) : b[j] \in Byte
    BY <1>1
  <2> QED BY <2>1, SubSeqProperties
<1>4. SubSeq(b, 1, i - 1) \o <<NL>> = SubSeq(b, 1, i)
  <2>1. 1 \in 1..Len(b) /\ i \in 1..Len(b)
    BY <1>1
  <2>2. SubSeq(b, 1, i) = SubSeq(b, 1, i - 1) \o <<b[i]>>
    BY <2>1, SubSeqRecursiveSecond
  <2> QED BY <2>2
<1>5. SubSeq(b, 1, i) \o SubSeq(b, i + 1, Len(b)) = SubSeq(b, 1, Len(b))
  <2>1. 1 \in 1..(Len(b) + 1) /\ i \in (1 - 1)..Len(b) /\ Len(b) \in i..Len(b)
    BY <1>1
  <2> QED BY <2>1, ConcatAdjacentSubSeq
<1>6. SubSeq(b, 1, Len(b)) = b
  BY SubSeqFull
<1> QED BY <1>2, <1>3, <1>4, <1>5, <1>6

\* Strings one after the other.
LEMMA Joined ==
  \A o, l \in Seq(Byte) : o \o l \in Seq(Byte) /\ Len(o \o l) = Len(o) + Len(l)
BY ConcatProperties

\* Three strings, however they are grouped.
LEMMA Regroup == \A o, l, r \in Seq(Byte) : (o \o l) \o r = o \o (l \o r)
BY ConcatAssociative

\* Four strings, however they are grouped.
LEMMA RegroupFour ==
  \A o, l, n, r \in Seq(Byte) : ((o \o l) \o n) \o r = o \o ((l \o n) \o r)
<1> TAKE o, l, n, r \in Seq(Byte)
<1>1. l \o n \in Seq(Byte)
  BY Joined, Zenon
<1>2. (o \o l) \o n = o \o (l \o n)
  BY ONLY o \in Seq(Byte), l \in Seq(Byte), n \in Seq(Byte), Regroup, Zenon
<1>3. \A s \in Seq(Byte) : (o \o s) \o r = o \o (s \o r)
  <2>1. \A s, t \in Seq(Byte) : (o \o s) \o t = o \o (s \o t)
    BY ONLY o \in Seq(Byte), Regroup, Zenon
  <2> QED BY ONLY r \in Seq(Byte), <2>1, Zenon
<1>4. (o \o (l \o n)) \o r = o \o ((l \o n) \o r)
  BY ONLY <1>1, <1>3, Zenon
<1> QED BY <1>2, <1>4, Zenon

\* The length of three strings.
LEMMA JoinedThree ==
  \A o, l, n \in Seq(Byte) : /\ (o \o l) \o n \in Seq(Byte)
                             /\ Len((o \o l) \o n) = (Len(o) + Len(l)) + Len(n)
<1> TAKE o, l, n \in Seq(Byte)
<1>1. o \o l \in Seq(Byte) /\ Len(o \o l) = Len(o) + Len(l)
  BY Joined, Zenon
<1>2. (o \o l) \o n \in Seq(Byte) /\ Len((o \o l) \o n) = Len(o \o l) + Len(n)
  BY <1>1, Joined, Zenon
<1> QED BY <1>1, <1>2, Zenon

\* buffer_read_line: the line leaves the buffer with its newline, and what is
\* handed out and what stays are still what was written.
LEMMA ReadLineStep == ASSUME IndInv, ReadLine PROVE IndInv'
<1>1. PICK i \in FirstNL : /\ dst' = Copied(i - 1)
                           /\ bytes' = AfterLine(i)
                           /\ out' = out \o dst'.str \o <<NL>>
  BY DEF ReadLine
<1>2. /\ bytes \in Seq(Byte) /\ out \in Seq(Byte) /\ Len(bytes) \in Nat
      /\ i \in 1..Len(bytes) /\ bytes[i] = NL /\ NL \in Byte
  BY BufferAssumption DEF IndInv, FitsMemory, TypeOK, FirstNL
<1> DEFINE line == SubSeq(bytes, 1, i - 1)
           rest == SubSeq(bytes, i + 1, Len(bytes))
<1>3. /\ line \in Seq(Byte) /\ rest \in Seq(Byte) /\ Len(rest) = Len(bytes) - i
      /\ (line \o <<NL>>) \o rest = bytes
  BY <1>2, LineSplit
<1>4. /\ dst' \in [str : Seq(Byte), mem : Nat, len : Nat] /\ dst'.str = line
      /\ dst'.len <= dst'.mem /\ Len(dst'.str) < dst'.mem
  <2>1. i - 1 \in 0..Len(bytes)
    BY <1>2
  <2> QED BY <1>1, <2>1, CopiedString DEF IndInv, FitsMemory
<1>5. bytes' = rest
  BY <1>1 DEF AfterLine
<1> HIDE DEF line, rest
<1>6. <<NL>> \in Seq(Byte)
  BY <1>2
<1>7. out' = (out \o line) \o <<NL>> /\ out' \in Seq(Byte)
  <2>1. (out \o line) \o <<NL>> \in Seq(Byte)
    BY <1>2, <1>3, <1>6, JoinedThree
  <2> QED BY <1>1, <1>4, <2>1
<1>8. TypeOK' /\ Len(bytes') <= Len(bytes)
  <2>1. Len(bytes') <= Len(bytes)
    BY <1>2, <1>3, <1>5
  <2>2. max_size' \in MaxSizes /\ max_size' = max_size /\ Len(bytes) <= max_size
    BY DEF IndInv, FitsMemory, TypeOK, ReadLine
  <2>3. Len(bytes') <= max_size'
    BY <1>2, <1>3, <1>5, <2>1, <2>2, MaxSizeBounds
  <2> QED BY <1>3, <1>4, <1>5, <1>7, <2>1, <2>2, <2>3
          DEF IndInv, FitsMemory, TypeOK, ReadLine
<1>9. FitsMemory'
  <2>1. Len(bytes') \in Nat /\ msize \in Nat /\ Len(bytes) <= msize
    BY <1>3, <1>5, ModulusFacts DEF IndInv, FitsMemory, TypeOK
  <2> QED BY <1>2, <1>8, <2>1 DEF IndInv, FitsMemory, ReadLine
<1>10. StringTerminated'
  BY <1>4 DEF StringTerminated
<1>11. NothingLost'
  <2>1. out \o bytes = out \o ((line \o <<NL>>) \o rest)
    BY <1>3
  <2>2. ((out \o line) \o <<NL>>) \o rest = out \o ((line \o <<NL>>) \o rest)
    <3>1. out \in Seq(Byte) /\ line \in Seq(Byte) /\ rest \in Seq(Byte)
      BY <1>2, <1>3
    <3>2. \A n, r \in Seq(Byte) : ((out \o line) \o n) \o r = out \o ((line \o n) \o r)
      BY ONLY <3>1, RegroupFour, Zenon
    <3>3. \A n \in Seq(Byte) : ((out \o line) \o n) \o rest = out \o ((line \o n) \o rest)
      BY ONLY <3>1, <3>2, Zenon
    <3> QED BY ONLY <1>6, <3>3, Zenon
  <2>3. written' = written /\ written = out \o bytes
    BY DEF IndInv, NothingLost, ReadLine
  <2> QED BY <1>5, <1>7, <2>1, <2>2, <2>3 DEF NothingLost
<1> QED BY <1>9, <1>10, <1>11 DEF IndInv

\* buffer_flush: the whole content is copied and stays in the buffer.
LEMMA FlushStep == ASSUME IndInv, Flush PROVE IndInv'
<1>1. CASE bytes = <<>>
  <2>1. UNCHANGED <<max_size, bytes, msize, dst, written, out>> /\ valid' \in BOOLEAN
    BY <1>1 DEF Flush, IndInv, FitsMemory, TypeOK
  <2> QED BY <2>1, QuietStep
<1>2. CASE bytes # <<>>
  <2>1. Len(bytes) \in 0..Len(bytes) /\ dst' = Copied(Len(bytes))
    BY <1>2 DEF Flush, IndInv, FitsMemory, TypeOK
  <2>2. /\ dst' \in [str : Seq(Byte), mem : Nat, len : Nat]
        /\ dst'.len <= dst'.mem /\ Len(dst'.str) < dst'.mem
    BY <2>1, CopiedString DEF IndInv, FitsMemory
  <2>3. TypeOK'
    BY <2>2 DEF IndInv, FitsMemory, TypeOK, Flush
  <2>4. FitsMemory' /\ NothingLost'
    BY <2>3 DEF IndInv, FitsMemory, NothingLost, Flush
  <2> QED BY <2>2, <2>4 DEF IndInv, StringTerminated
<1> QED BY <1>1, <1>2

\* buffer_clear forgets the bytes and keeps the memory.
LEMMA ClearStep == ASSUME IndInv, Clear PROVE IndInv'
<1>1. <<>> \in Seq(Byte) /\ Len(<<>>) = 0 /\ <<>> \o <<>> = <<>>
  BY EmptySeq, ConcatEmptySeq
<1>2. max_size \in Nat /\ 1 <= max_size /\ msize \in Nat /\ 1 <= msize
  BY MaxSizeBounds, ModulusFacts DEF IndInv, FitsMemory, TypeOK
<1>3. TypeOK'
  BY <1>1, <1>2 DEF IndInv, FitsMemory, TypeOK, Clear
<1>4. FitsMemory'
  BY <1>1, <1>2, <1>3 DEF IndInv, FitsMemory, Clear
<1>5. StringTerminated' /\ NothingLost'
  BY <1>1 DEF IndInv, StringTerminated, NothingLost, Clear
<1> QED BY <1>4, <1>5 DEF IndInv

\* buffer_free and buffer_init lead to an initial state.
LEMMA ReinitStep == ASSUME Reinit PROVE IndInv'
<1>1. dst' \in [str : Seq(Byte), mem : Nat, len : Nat] /\ dst'.len <= dst'.mem /\ dst'.str = <<>>
  BY EmptyStringsType DEF Reinit
<1>2. <<>> \in Seq(Byte) /\ Len(<<>>) = 0 /\ <<>> \o <<>> = <<>>
  BY EmptySeq, ConcatEmptySeq
<1>3. TypeOK'
  BY <1>1, <1>2, MaxSizeBounds, BufferAssumption DEF Reinit, TypeOK
<1>4. FitsMemory'
  BY <1>2, <1>3, BufferAssumption, ModulusFacts DEF Reinit, FitsMemory
<1>5. StringTerminated'
  BY <1>1 DEF StringTerminated, Reinit
<1>6. NothingLost'
  BY <1>2 DEF Reinit, NothingLost
<1> QED BY <1>4, <1>5, <1>6 DEF IndInv

\* Every function of buffer.c keeps the invariant.
LEMMA IndInvStep == IndInv /\ [Next]_vars => IndInv'
<1> SUFFICES ASSUME IndInv, [Next]_vars PROVE IndInv'
  OBVIOUS
<1> USE DEF IndInv, FitsMemory, TypeOK
<1>1. ASSUME NEW d \in Chunks(max_size), Store(d) PROVE IndInv'
  BY <1>1, StoreStep
<1>2. ASSUME NEW d \in Chunks(max_size), Overflow(d) PROVE IndInv'
  BY <1>2, QuietStep DEF Overflow
<1>3. CASE \E d \in Chunks(max_size) : Fill(d) \/ (d # <<>> /\ FillFromFd(d))
  BY <1>1, <1>2, <1>3 DEF Fill, FillFromFd
<1>4. CASE FillFromFdNothing
  BY <1>4, QuietStep DEF FillFromFdNothing
<1>5. CASE FillFromFdInvalid
  BY <1>5, QuietStep DEF FillFromFdInvalid, Rejected
<1>6. CASE ReadLine
  BY <1>6, ReadLineStep
<1>7. CASE ReadLineNone
  BY <1>7, QuietStep DEF ReadLineNone
<1>8. CASE Flush
  BY <1>8, FlushStep
<1>9. CASE ToString
  BY <1>9, QuietStep DEF ToString
<1>10. CASE CallInvalid
  BY <1>10, QuietStep DEF CallInvalid, Rejected
<1>11. CASE Clear
  BY <1>11, ClearStep
<1>12. CASE Reinit
  BY <1>12, ReinitStep
<1>13. CASE UNCHANGED vars
  BY <1>13, QuietStep DEF vars
<1> QED BY <1>3, <1>4, <1>5, <1>6, <1>7, <1>8, <1>9, <1>10, <1>11, <1>12, <1>13 DEF Next
-----------------------------------------------------------------------------
(***************************************************************************)
(* The theorems, for every width of size_t, every maximum size up to       *)
(* BUFFER_LIMIT, and data and strings of any length.                       *)
(***************************************************************************)

\* The invariant holds in every reachable state.
THEOREM BufferInvariant == Spec => []IndInv
BY InitIndInv, IndInvStep, PTL DEF Spec

\* buffer_fill: whatever is written, and wherever doubling the size overflows,
\* the bytes fit into buf->msize, and the memory is less than four times
\* max_size.
THEOREM BufferFitsMemory == Spec => []FitsMemory
<1>1. IndInv => FitsMemory
  BY DEF IndInv
<1> QED BY <1>1, BufferInvariant, PTL

\* _buffer_copy_to_string: the caller's string has room for its terminating zero.
THEOREM BufferStringTerminated == Spec => []StringTerminated
<1>1. IndInv => StringTerminated
  BY DEF IndInv
<1> QED BY <1>1, BufferInvariant, PTL

\* buffer_fill, buffer_read_line: lines handed out and bytes stored are together
\* what was written since the last buffer_clear.
THEOREM BufferNothingLost == Spec => []NothingLost
<1>1. IndInv => NothingLost
  BY DEF IndInv
<1> QED BY <1>1, BufferInvariant, PTL

\* buffer_read_line: the next line of what was written, its newline last and
\* no other newline in it.
THEOREM BufferOneLineAtATime == Spec => OneLineAtATime
<1> DEFINE Line == out' # out /\ out' # <<>> =>
                     /\ written[Len(out')] = NL
                     /\ \A i \in (Len(out) + 1)..(Len(out') - 1) : written[i] # NL
<1>1. ASSUME IndInv, [Next]_vars PROVE [Line]_vars
  <2> SUFFICES ASSUME Next, out' # out, out' # <<>>
               PROVE  /\ written[Len(out')] = NL
                      /\ \A i \in (Len(out) + 1)..(Len(out') - 1) : written[i] # NL
    BY <1>1
  <2>1. ReadLine
    BY <1>1 DEF Next, Fill, FillFromFd, Store, Overflow, FillFromFdNothing, FillFromFdInvalid,
                Rejected, ReadLineNone, Flush, ToString, CallInvalid, Clear, Reinit
  <2>2. PICK i \in FirstNL : dst' = Copied(i - 1) /\ out' = out \o dst'.str \o <<NL>>
    BY <2>1 DEF ReadLine
  <2>3. /\ bytes \in Seq(Byte) /\ out \in Seq(Byte) /\ Len(bytes) \in Nat /\ Len(out) \in Nat
        /\ i \in 1..Len(bytes) /\ bytes[i] = NL /\ NL \in Byte
        /\ \A j \in 1..(i - 1) : bytes[j] # NL
    BY <1>1, BufferAssumption DEF IndInv, FitsMemory, TypeOK, FirstNL
  <2>4. /\ SubSeq(bytes, 1, i - 1) \in Seq(Byte) /\ Len(SubSeq(bytes, 1, i - 1)) = i - 1
    BY <2>3, LineSplit
  <2>5. dst'.str = SubSeq(bytes, 1, i - 1)
    <3>1. i - 1 \in 0..Len(bytes)
      BY <2>3
    <3> QED BY <1>1, <2>2, <3>1, CopiedString DEF IndInv, FitsMemory
  <2>6. Len(out') = Len(out) + i
    <3>1. <<NL>> \in Seq(Byte) /\ Len(<<NL>>) = 1
      BY <2>3
    <3>2. \A l, n \in Seq(Byte) : Len((out \o l) \o n) = (Len(out) + Len(l)) + Len(n)
      BY <2>3, JoinedThree
    <3>3. Len(out') = (Len(out) + Len(dst'.str)) + Len(<<NL>>)
      BY <2>2, <2>4, <2>5, <3>1, <3>2
    <3> QED BY <2>3, <2>4, <2>5, <3>1, <3>3
  <2>7. \A j \in 1..Len(bytes) : written[Len(out) + j] = bytes[j]
    BY <1>1, <2>3 DEF IndInv, NothingLost
  <2>8. written[Len(out')] = NL
    BY <2>3, <2>6, <2>7
  <2>9. ASSUME NEW k \in (Len(out) + 1)..(Len(out') - 1) PROVE written[k] # NL
    <3>1. k - Len(out) \in 1..(i - 1) /\ k = Len(out) + (k - Len(out)) /\ k - Len(out) \in 1..Len(bytes)
      BY <2>3, <2>6
    <3>2. written[k] = bytes[k - Len(out)]
      BY <2>7, <3>1
    <3> QED BY <2>3, <3>1, <3>2
  <2> QED BY <2>8, <2>9
<1> QED BY <1>1, BufferInvariant, PTL DEF Spec, OneLineAtATime

\* RETURN_VAL_IF_INVALID: while the buffer stays invalid, no function changes it
\* or hands something out; each returns that it refuses.
THEOREM BufferInvalidIsSilent == Spec => InvalidIsSilent
<1> DEFINE Silent == ~valid /\ ~valid' => ret' \in Refusals /\ UNCHANGED <<bytes, msize, dst, out>>
<1>1. ASSUME [Next]_vars PROVE [Silent]_vars
  <2> SUFFICES ASSUME Next, ~valid, ~valid' PROVE Silent
    BY <1>1
  <2>1. FillFromFdInvalid \/ CallInvalid
    BY DEF Next, Fill, FillFromFd, FillFromFdNothing, ReadLine, ReadLineNone, Flush, ToString,
           MayCopy, Clear, Reinit
  <2>2. CASE FillFromFdInvalid
    BY <2>2 DEF FillFromFdInvalid, Rejected, Refusals
  <2>3. CASE CallInvalid
    BY <2>3 DEF CallInvalid, Rejected, Refusals
  <2> QED BY <2>1, <2>2, <2>3
<1> QED BY <1>1, PTL DEF Spec, InvalidIsSilent
=============================================================================
