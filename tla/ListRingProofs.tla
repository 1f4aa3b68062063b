-------------------------- MODULE ListRingProofs --------------------------
(***************************************************************************)
(* What the list operations do to the set of items, for lists of any       *)
(* length: the facts about list.c that the proofs about the scheduler      *)
(* rest on.                                                                *)
(***************************************************************************)
EXTENDS ListRing, SequenceTheorems, FiniteSetTheorems, WellFoundedInduction,
        TLAPS

\* A list whose items are among T: its marker and every item occur once.
IsRing(r, T) ==
  /\ r \in Seq(T \cup {ListEnd})
  /\ IsInjective(r)
  /\ ListEnd \in ToSet(r)

\* A nonempty set of naturals has a minimum.
LEMMA MinIsLeast ==
  ASSUME NEW S, S \subseteq Nat, S # {}
  PROVE  Min(S) \in S /\ \A n \in S : Min(S) <= n
<1>1. IsWellFoundedOn(OpToRel(<, Nat), Nat)
  BY NatLessThanWellFounded
<1>2. PICK m \in S : \A n \in S : ~(<< n, m >> \in OpToRel(<, Nat))
  BY <1>1, WFMin
<1>3. \A n \in S : ~(n < m)
  BY <1>2 DEF OpToRel
<1>4. \A n \in S : m <= n
  BY <1>3
<1> QED BY <1>4 DEF Min

\* A nonempty set of naturals with an upper bound has a maximum.
LEMMA MaxIsGreatest ==
  ASSUME NEW N \in Nat, NEW S, S \subseteq 0..N, S # {}
  PROVE  Max(S) \in S /\ \A n \in S : n <= Max(S)
<1> DEFINE T == {N - i : i \in S}
<1>1. T \subseteq Nat /\ T # {}
  <2>1. \A i \in S : N - i \in Nat
    OBVIOUS
  <2> QED BY <2>1
<1>2. Min(T) \in T /\ \A n \in T : Min(T) <= n
  <2> HIDE DEF T
  <2> QED BY <1>1, MinIsLeast
<1>3. PICK i \in S : Min(T) = N - i
  BY <1>2
<1>4. \A n \in S : N - n \in T
  OBVIOUS
<1>5. \A n \in S : N - i <= N - n
  BY <1>2, <1>3, <1>4
<1>6. \A n \in S : n <= i
  BY <1>5
<1> QED BY <1>6 DEF Max

\* What is in a sequence is at one of its indices.
LEMMA InToSet ==
  \A s, y : y \in ToSet(s) <=> \E i \in DOMAIN s : y = s[i]
BY DEF ToSet

\* The elements of a contiguous part of a sequence.
LEMMA Slice ==
  ASSUME NEW S, NEW r \in Seq(S), NEW i \in Nat, NEW j \in Nat,
         1 <= i, i <= j + 1, j <= Len(r)
  PROVE  /\ SubSeq(r, i, j) \in Seq(S)
         /\ Len(SubSeq(r, i, j)) = (j + 1) - i
         /\ \A k \in 1..((j + 1) - i) : SubSeq(r, i, j)[k] = r[(i - 1) + k]
<1>1. \A k \in i..j : r[k] \in S
  OBVIOUS
<1>2. i \in Int /\ j \in Int
  OBVIOUS
<1>3. /\ SubSeq(r, i, j) \in Seq(S)
      /\ Len(SubSeq(r, i, j)) = IF i <= j THEN j - i + 1 ELSE 0
      /\ \A k \in 1..(j - i + 1) : SubSeq(r, i, j)[k] = r[i + k - 1]
  BY <1>1, <1>2, SubSeqProperties
<1> DEFINE a == SubSeq(r, i, j)
<1> HIDE DEF a
<1>4. /\ a \in Seq(S)
      /\ Len(a) = IF i <= j THEN j - i + 1 ELSE 0
      /\ \A k \in 1..(j - i + 1) : a[k] = r[i + k - 1]
  BY <1>3 DEF a
<1>5. \A k \in 1..((j + 1) - i) : k \in 1..(j - i + 1) /\ i + k - 1 = (i - 1) + k
  OBVIOUS
<1>6. Len(a) = (j + 1) - i
  BY <1>4
<1>7. \A k \in 1..((j + 1) - i) : a[k] = r[(i - 1) + k]
  BY <1>4, <1>5
<1> QED BY <1>4, <1>6, <1>7 DEF a

\* What InsertAt puts where.
LEMMA InsertSeq ==
  ASSUME NEW S, NEW s \in Seq(S), NEW x \in S, NEW k \in Nat,
         1 <= k, k <= Len(s) + 1
  PROVE  /\ InsertAt(s, k, x) \in Seq(S)
         /\ Len(InsertAt(s, k, x)) = Len(s) + 1
         /\ \A i \in 1..(Len(s) + 1) :
              InsertAt(s, k, x)[i] = IF i < k THEN s[i]
                                     ELSE IF i = k THEN x ELSE s[i - 1]
<1> DEFINE n == Len(s)
           a == SubSeq(s, 1, k - 1)
           b == << x >>
           c == SubSeq(s, k, n)
<1>0. n \in Nat
  OBVIOUS
<1>1. /\ 1 \in Nat /\ k - 1 \in Nat /\ 1 <= 1 /\ 1 <= (k - 1) + 1 /\ k - 1 <= n
      /\ n \in Nat /\ k <= n + 1 /\ n <= n /\ ((k - 1) + 1) - 1 = k - 1
  BY <1>0
<1>2. /\ a \in Seq(S) /\ Len(a) = k - 1
      /\ \A i \in 1..(k - 1) : a[i] = s[i]
  <2>1. /\ a \in Seq(S) /\ Len(a) = ((k - 1) + 1) - 1
        /\ \A i \in 1..(((k - 1) + 1) - 1) : a[i] = s[(1 - 1) + i]
    BY ONLY <1>1, Slice, s \in Seq(S)
  <2> HIDE DEF a
  <2>2. \A i \in 1..(k - 1) : (1 - 1) + i = i
    OBVIOUS
  <2> QED BY ONLY <1>1, <2>1, <2>2
<1>3. /\ c \in Seq(S) /\ Len(c) = (n + 1) - k
      /\ \A i \in 1..((n + 1) - k) : c[i] = s[(k - 1) + i]
  BY ONLY <1>1, Slice, s \in Seq(S), k \in Nat, 1 <= k
<1>4. b \in Seq(S) /\ Len(b) = 1 /\ b[1] = x
  OBVIOUS
<1>5. InsertAt(s, k, x) = (a \o b) \o c
  BY DEF InsertAt
<1> HIDE DEF a, b, c, n
<1> DEFINE d == a \o b
<1>6. /\ d \in Seq(S) /\ Len(d) = k
      /\ \A i \in 1..k : d[i] = IF i < k THEN s[i] ELSE x
  <2>1. /\ d \in Seq(S) /\ Len(d) = Len(a) + Len(b)
        /\ \A i \in 1..(Len(a) + Len(b)) :
             d[i] = IF i <= Len(a) THEN a[i] ELSE b[i - Len(a)]
    BY ONLY <1>2, <1>4, ConcatProperties
  <2> HIDE DEF d
  <2>2. (k - 1) + 1 = k /\ k - (k - 1) = 1
    OBVIOUS
  <2>3. Len(d) = k
    BY <2>1, <2>2, <1>2, <1>4
  <2>4. ASSUME NEW i \in 1..k PROVE d[i] = IF i < k THEN s[i] ELSE x
    <3>1. d[i] = IF i <= k - 1 THEN a[i] ELSE b[i - (k - 1)]
      BY <2>1, <2>2, <1>2, <1>4
    <3>2. CASE i < k
      BY <3>1, <3>2, <1>2
    <3>3. CASE i = k
      BY <3>1, <3>3, <2>2, <1>4
    <3> QED BY <3>2, <3>3
  <2> QED BY <2>1, <2>3, <2>4
<1> HIDE DEF d
<1>7. /\ d \o c \in Seq(S) /\ Len(d \o c) = Len(d) + Len(c)
      /\ \A i \in 1..(Len(d) + Len(c)) :
           (d \o c)[i] = IF i <= Len(d) THEN d[i] ELSE c[i - Len(d)]
  BY ONLY <1>3, <1>6, ConcatProperties
<1> DEFINE e == d \o c
<1>8. InsertAt(s, k, x) = e
  BY <1>5 DEF d
<1>9. k + ((n + 1) - k) = n + 1
  BY <1>0
<1>10. /\ e \in Seq(S) /\ Len(e) = n + 1
       /\ \A i \in 1..(n + 1) : e[i] = IF i <= k THEN d[i] ELSE c[i - k]
  BY ONLY <1>3, <1>6, <1>7, <1>9
<1> HIDE DEF e
<1>11. ASSUME NEW i \in 1..(n + 1)
       PROVE  e[i] = IF i < k THEN s[i] ELSE IF i = k THEN x ELSE s[i - 1]
  <2>1. CASE i <= k
    BY <2>1, <1>0, <1>6, <1>10
  <2>2. CASE ~(i <= k)
    <3>1. /\ i - k \in 1..((n + 1) - k) /\ (k - 1) + (i - k) = i - 1
          /\ ~(i < k) /\ i # k
      BY <2>2, <1>0
    <3>2. e[i] = c[i - k]
      BY <2>2, <1>10
    <3> QED BY <3>1, <3>2, <1>3
  <2> QED BY <2>1, <2>2
<1> QED BY <1>8, <1>10, <1>11 DEF n

\* Inserting a new element keeps the elements distinct.
LEMMA InsertElement ==
  ASSUME NEW S, NEW s \in Seq(S), NEW x \in S, NEW k \in Nat,
         1 <= k, k <= Len(s) + 1, IsInjective(s), x \notin ToSet(s)
  PROVE  /\ InsertAt(s, k, x) \in Seq(S)
         /\ Len(InsertAt(s, k, x)) = Len(s) + 1
         /\ IsInjective(InsertAt(s, k, x))
         /\ ToSet(InsertAt(s, k, x)) = ToSet(s) \cup {x}
<1> DEFINE n == Len(s)
           e == InsertAt(s, k, x)
<1>1. /\ e \in Seq(S) /\ Len(e) = n + 1
      /\ \A i \in 1..(n + 1) : e[i] = IF i < k THEN s[i]
                                     ELSE IF i = k THEN x ELSE s[i - 1]
  BY ONLY InsertSeq, SMTT(60), 1 <= k, k <= Len(s) + 1
<1>2. /\ n \in Nat /\ DOMAIN s = 1..n /\ DOMAIN e = 1..(n + 1)
      /\ k \in 1..(n + 1)
  BY <1>1
<1> HIDE DEF e, n
<1>3. \A i \in 1..(n + 1) : i < k => i \in 1..n
  BY <1>2
<1>4. \A i \in 1..(n + 1) : i > k => i - 1 \in 1..n
  BY <1>2
<1>5. \A i \in 1..n : s[i] # x
  BY <1>2 DEF ToSet
<1>6. \A i, j \in 1..n : s[i] = s[j] => i = j
  BY <1>2 DEF IsInjective
<1>7. ASSUME NEW i \in 1..(n + 1), NEW j \in 1..(n + 1), e[i] = e[j]
      PROVE  i = j
  BY <1>1, <1>2, <1>3, <1>4, <1>5, <1>6, <1>7
<1>8. \A i \in 1..(n + 1) : e[i] = x \/ \E j \in 1..n : e[i] = s[j]
  BY <1>1, <1>2, <1>3, <1>4
<1>9. ASSUME NEW j \in 1..n PROVE \E i \in 1..(n + 1) : e[i] = s[j]
  <2>1. CASE j < k
    BY <2>1, <1>1, <1>2
  <2>2. CASE ~(j < k)
    <3>1. j + 1 \in 1..(n + 1) /\ ~(j + 1 < k) /\ j + 1 # k /\ (j + 1) - 1 = j
      BY <2>2, <1>2
    <3> QED BY <3>1, <1>1
  <2> QED BY <2>1, <2>2
<1>10. e[k] = x
  BY <1>1, <1>2
<1>11. IsInjective(e)
  BY <1>2, <1>7 DEF IsInjective
<1>12. ToSet(e) = ToSet(s) \cup {x}
  <2>1. \A y : y \in ToSet(s) => y \in ToSet(e)
    BY ONLY <1>2, <1>9, InToSet
  <2>2. \A y : y \in ToSet(e) => y \in ToSet(s) \cup {x}
    BY ONLY <1>2, <1>8, InToSet
  <2>3. x \in ToSet(e)
    BY ONLY <1>2, <1>10, InToSet
  <2> QED BY ONLY <2>1, <2>2, <2>3
<1> QED BY <1>1, <1>11, <1>12 DEF e, n

\* What uxListRemove leaves where.
LEMMA RemoveSeq ==
  ASSUME NEW S, NEW s \in Seq(S), NEW x \in ToSet(s)
  PROVE  /\ uxListRemove(s, x) \in Seq(S)
         /\ Len(uxListRemove(s, x)) = Len(s) - 1
         /\ \E k \in 1..Len(s) :
              /\ s[k] = x
              /\ \A i \in 1..(Len(s) - 1) :
                   uxListRemove(s, x)[i] = IF i < k THEN s[i] ELSE s[i + 1]
<1> DEFINE n == Len(s)
           k == CHOOSE i \in 1..n : s[i] = x
           a == SubSeq(s, 1, k - 1)
           b == SubSeq(s, k + 1, n)
           e == a \o b
<1>1. n \in Nat /\ DOMAIN s = 1..n /\ n <= Len(s)
  OBVIOUS
<1>2. k \in 1..n /\ s[k] = x
  <2>1. \E i \in 1..n : s[i] = x
    BY <1>1 DEF ToSet
  <2> QED BY ONLY <2>1
<1>3. uxListRemove(s, x) = e
  BY DEF uxListRemove, RemoveAt
<1> HIDE DEF k, e, n
<1>4. /\ 1 \in Nat /\ k - 1 \in Nat /\ k + 1 \in Nat /\ 1 <= k + 1
      /\ 1 <= 1 /\ 1 <= (k - 1) + 1 /\ k - 1 <= n /\ k - 1 <= Len(s) /\ k + 1 <= n + 1
      /\ ((k - 1) + 1) - 1 = k - 1 /\ (k + 1) - 1 = k
      /\ (n + 1) - (k + 1) = n - k /\ (k - 1) + (n - k) = n - 1
  BY <1>1, <1>2
<1>5. /\ a \in Seq(S) /\ Len(a) = k - 1
      /\ \A i \in 1..(k - 1) : a[i] = s[i]
  <2>1. /\ a \in Seq(S) /\ Len(a) = ((k - 1) + 1) - 1
        /\ \A i \in 1..(((k - 1) + 1) - 1) : a[i] = s[(1 - 1) + i]
    BY ONLY <1>1, <1>4, Slice, SMTT(30), s \in Seq(S)
  <2> HIDE DEF a
  <2>2. \A i \in 1..(k - 1) : (1 - 1) + i = i
    BY <1>4
  <2> QED BY ONLY <1>4, <2>1, <2>2
<1>6. /\ b \in Seq(S) /\ Len(b) = n - k
      /\ \A i \in 1..(n - k) : b[i] = s[k + i]
  <2> DEFINE m == k + 1
  <2>1. /\ m \in Nat /\ 1 <= m /\ m <= n + 1
        /\ (n + 1) - m = n - k /\ m - 1 = k
    BY <1>4
  <2>2. b = SubSeq(s, m, n)
    OBVIOUS
  <2> HIDE DEF b, m
  <2>3. /\ SubSeq(s, m, n) \in Seq(S) /\ Len(SubSeq(s, m, n)) = (n + 1) - m
        /\ \A i \in 1..((n + 1) - m) : SubSeq(s, m, n)[i] = s[(m - 1) + i]
    BY ONLY <1>1, <2>1, Slice, s \in Seq(S)
  <2> QED BY ONLY <2>1, <2>2, <2>3
<1>7. /\ e \in Seq(S) /\ Len(e) = Len(a) + Len(b)
      /\ \A i \in 1..(Len(a) + Len(b)) :
           e[i] = IF i <= Len(a) THEN a[i] ELSE b[i - Len(a)]
  BY ONLY <1>5, <1>6, ConcatProperties DEF e
<1>8. /\ Len(e) = n - 1 /\ DOMAIN e = 1..(n - 1)
      /\ \A i \in 1..(n - 1) : e[i] = IF i <= k - 1 THEN a[i] ELSE b[i - (k - 1)]
  <2>1. Len(a) + Len(b) = n - 1
    BY ONLY <1>4, <1>5, <1>6
  <2>2. Len(e) = n - 1 /\ DOMAIN e = 1..(n - 1)
    BY ONLY <1>7, <2>1, LenProperties
  <2> QED BY ONLY <1>5, <1>7, <2>1, <2>2
<1>9. ASSUME NEW i \in 1..(n - 1)
      PROVE  e[i] = IF i < k THEN s[i] ELSE s[i + 1]
  <2>1. CASE i < k
    <3>1. i <= k - 1 /\ i \in 1..(k - 1)
      BY <2>1, <1>1, <1>2
    <3> QED BY <2>1, <3>1, <1>5, <1>8
  <2>2. CASE ~(i < k)
    <3>1. ~(i <= k - 1) /\ i - (k - 1) \in 1..(n - k) /\ k + (i - (k - 1)) = i + 1
      BY <2>2, <1>1, <1>2
    <3> QED BY <2>2, <3>1, <1>6, <1>8
  <2> QED BY <2>1, <2>2
<1> QED BY <1>2, <1>3, <1>7, <1>8, <1>9 DEF n

\* Removing an element that occurs once.
LEMMA RemoveElement ==
  ASSUME NEW S, NEW s \in Seq(S), NEW x \in ToSet(s), IsInjective(s)
  PROVE  /\ uxListRemove(s, x) \in Seq(S)
         /\ Len(uxListRemove(s, x)) = Len(s) - 1
         /\ IsInjective(uxListRemove(s, x))
         /\ ToSet(uxListRemove(s, x)) = ToSet(s) \ {x}
<1> DEFINE n == Len(s)
           e == uxListRemove(s, x)
<1>1. n \in Nat /\ DOMAIN s = 1..n
  OBVIOUS
<1>2. /\ e \in Seq(S) /\ Len(e) = n - 1
      /\ \E i \in 1..n :
           /\ s[i] = x
           /\ \A j \in 1..(n - 1) : e[j] = IF j < i THEN s[j] ELSE s[j + 1]
  BY RemoveSeq
<1>3. PICK k \in 1..n :
        /\ s[k] = x
        /\ \A i \in 1..(n - 1) : e[i] = IF i < k THEN s[i] ELSE s[i + 1]
  BY <1>2
<1> HIDE DEF e, n
<1>4. DOMAIN e = 1..(n - 1)
  BY <1>1, <1>2
<1>5. \A i \in 1..(n - 1) : i \in 1..n /\ i + 1 \in 1..n /\ (i < k => i # k)
                              /\ (~(i < k) => i + 1 # k)
  BY <1>1
<1>6. \A i, j \in 1..n : s[i] = s[j] => i = j
  BY <1>1 DEF IsInjective
<1>7. ASSUME NEW i \in 1..(n - 1), NEW j \in 1..(n - 1), e[i] = e[j]
       PROVE  i = j
  BY <1>1, <1>3, <1>5, <1>6, <1>7
<1>8. \A j \in 1..(n - 1) : \E i \in 1..n : i # k /\ e[j] = s[i]
  BY <1>3, <1>5
<1>9. ASSUME NEW i \in 1..n, i # k PROVE \E j \in 1..(n - 1) : e[j] = s[i]
  <2>1. CASE i < k
    <3>1. i \in 1..(n - 1)
      BY <2>1, <1>1
    <3> QED BY <2>1, <3>1, <1>3
  <2>2. CASE ~(i < k)
    <3>1. i - 1 \in 1..(n - 1) /\ ~(i - 1 < k) /\ (i - 1) + 1 = i
      BY <2>2, <1>1, <1>9
    <3> QED BY <3>1, <1>3
  <2> QED BY <2>1, <2>2
<1>10. \A i \in 1..n : i # k => s[i] # x
  BY <1>3, <1>6
<1>11. IsInjective(e)
  BY <1>4, <1>7 DEF IsInjective
<1>12. ToSet(e) = ToSet(s) \ {x}
  <2>1. \A y : y \in ToSet(s) /\ y # x => y \in ToSet(e)
    BY ONLY <1>1, <1>3, <1>4, <1>9, InToSet
  <2>2. \A y : y \in ToSet(e) => y \in ToSet(s) /\ y # x
    BY ONLY <1>1, <1>4, <1>8, <1>10, InToSet
  <2> QED BY ONLY <2>1, <2>2
<1> QED BY <1>2, <1>11, <1>12 DEF n, e

\* A list without repetitions is as long as the set of its elements.
LEMMA ListCardinality ==
  ASSUME NEW S, NEW s \in Seq(S), IsInjective(s)
  PROVE  IsFiniteSet(ToSet(s)) /\ Cardinality(ToSet(s)) = Len(s)
<1> DEFINE n == Len(s)
<1>1. n \in Nat /\ DOMAIN s = 1..n /\ s \in [1..n -> S]
  OBVIOUS
<1>2. IsFiniteSet(1..n) /\ Cardinality(1..n) = n
  BY <1>1, FS_Interval
<1>3. s \in [1..n -> ToSet(s)]
  BY <1>1 DEF ToSet
<1>4. \A i, j \in 1..n : s[i] = s[j] => i = j
  BY <1>1 DEF IsInjective
<1>5. \A y \in ToSet(s) : \E i \in 1..n : s[i] = y
  BY <1>1 DEF ToSet
<1> HIDE DEF n
<1>6. s \in Bijection(1..n, ToSet(s))
  BY ONLY <1>3, <1>4, <1>5 DEF Bijection, Injection, Surjection, IsInjective
<1>7. ExistsBijection(1..n, ToSet(s))
  BY <1>6 DEF ExistsBijection
<1> QED BY <1>2, <1>7, FS_Bijection DEF n

\* The list that is left when its first k elements are taken off.
LEMMA DropFirst ==
  ASSUME NEW S, NEW s \in Seq(S), IsInjective(s), NEW k \in 0..Len(s)
  PROVE  /\ SubSeq(s, k + 1, Len(s)) \in Seq(S)
         /\ Len(SubSeq(s, k + 1, Len(s))) = Len(s) - k
         /\ IsInjective(SubSeq(s, k + 1, Len(s)))
         /\ ToSet(SubSeq(s, k + 1, Len(s))) \subseteq ToSet(s)
         /\ \A i \in 1..k : s[i] \notin ToSet(SubSeq(s, k + 1, Len(s)))
<1> DEFINE n == Len(s)
           m == k + 1
           e == SubSeq(s, m, n)
<1>1. /\ n \in Nat /\ DOMAIN s = 1..n /\ n <= Len(s) /\ k \in Nat /\ k <= n
      /\ m \in Nat /\ 1 <= m /\ m <= n + 1 /\ (n + 1) - m = n - k /\ m - 1 = k
  OBVIOUS
<1>2. /\ e \in Seq(S) /\ Len(e) = n - k
      /\ \A i \in 1..(n - k) : e[i] = s[k + i]
  <2>1. /\ SubSeq(s, m, n) \in Seq(S) /\ Len(SubSeq(s, m, n)) = (n + 1) - m
        /\ \A i \in 1..((n + 1) - m) : SubSeq(s, m, n)[i] = s[(m - 1) + i]
    <3> HIDE DEF m, n
    <3> QED BY ONLY <1>1, Slice, s \in Seq(S)
  <2> HIDE DEF m, n
  <2> QED BY ONLY <1>1, <2>1 DEF e
<1>3. DOMAIN e = 1..(n - k)
  BY <1>2
<1> HIDE DEF e, n, m
<1>4. \A i, j \in 1..n : s[i] = s[j] => i = j
  BY <1>1 DEF IsInjective
<1>5. \A i \in 1..(n - k) : k + i \in 1..n /\ k + i > k
  BY <1>1
<1>6. IsInjective(e)
  BY <1>1, <1>2, <1>3, <1>4, <1>5 DEF IsInjective
<1>7. ToSet(e) \subseteq ToSet(s)
  BY <1>1, <1>2, <1>3, <1>5 DEF ToSet
<1>8. ASSUME NEW i \in 1..k, s[i] \in ToSet(e) PROVE FALSE
  <2>1. PICK j \in 1..(n - k) : e[j] = s[i]
    BY <1>3, <1>8 DEF ToSet
  <2>2. s[k + j] = s[i] /\ i \in 1..n /\ k + j \in 1..n /\ k + j > i
    BY <2>1, <1>1, <1>2, <1>5
  <2> QED BY <2>2, <1>4
<1> QED BY <1>2, <1>6, <1>7, <1>8 DEF e, n, m

\* The number of those taken off.
LEMMA DropCardinality ==
  ASSUME NEW S, NEW s \in Seq(S), NEW e \in Seq(S), IsInjective(s),
         IsInjective(e), ToSet(e) \subseteq ToSet(s)
  PROVE  /\ IsFiniteSet(ToSet(s) \ ToSet(e))
         /\ Cardinality(ToSet(s) \ ToSet(e)) = Len(s) - Len(e)
<1>1. /\ IsFiniteSet(ToSet(s)) /\ Cardinality(ToSet(s)) = Len(s)
      /\ IsFiniteSet(ToSet(e)) /\ Cardinality(ToSet(e)) = Len(e)
  BY ListCardinality
<1> DEFINE A == ToSet(s)
           B == ToSet(e)
<1>2. A \cap B = B
  OBVIOUS
<1> HIDE DEF A, B
<1>3. IsFiniteSet(A \ B) /\ Cardinality(A \ B) = Cardinality(A) - Cardinality(A \cap B)
  BY ONLY <1>1, FS_Difference DEF A, B
<1> QED BY ONLY <1>1, <1>2, <1>3 DEF A, B

\* A list of some of the elements of a finite set is no longer than that.
LEMMA ListBound ==
  ASSUME NEW S, IsFiniteSet(S), NEW s \in Seq(S), IsInjective(s)
  PROVE  Len(s) <= Cardinality(S)
<1>1. ToSet(s) \in SUBSET S
  BY DEF ToSet
<1> QED BY <1>1, ListCardinality, FS_Subset

\* A set that holds two disjoint ones has at least as many elements as both.
LEMMA DisjointParts ==
  ASSUME NEW C, IsFiniteSet(C), NEW A, NEW B, A \cup B \subseteq C,
         A \cap B = {}
  PROVE  /\ Cardinality(A) \in Nat /\ Cardinality(B) \in Nat
         /\ Cardinality(C) \in Nat
         /\ Cardinality(A) + Cardinality(B) <= Cardinality(C)
<1>1. /\ IsFiniteSet(A) /\ IsFiniteSet(B)
      /\ IsFiniteSet(A \cup B) /\ Cardinality(A \cup B) <= Cardinality(C)
  BY FS_Subset, A \in SUBSET C, B \in SUBSET C, A \cup B \in SUBSET C
<1>2. Cardinality(A \cup B)
        = Cardinality(A) + Cardinality(B) - Cardinality(A \cap B)
  BY <1>1, FS_Union
<1>3. Cardinality(A \cap B) = 0
  BY FS_EmptySet
<1>4. /\ Cardinality(A) \in Nat /\ Cardinality(B) \in Nat
      /\ Cardinality(C) \in Nat
  BY <1>1, FS_CardinalityType
<1> QED BY <1>1, <1>2, <1>3, <1>4

\* One element more or less.
LEMMA WithoutOne ==
  ASSUME NEW C, IsFiniteSet(C), NEW A, IsFiniteSet(A), NEW x, A \ {x} \subseteq C
  PROVE  Cardinality(A) - 1 <= Cardinality(C)
<1>1. IsFiniteSet(A \ {x}) /\ Cardinality(A \ {x}) <= Cardinality(C)
  BY FS_Subset, A \ {x} \in SUBSET C
<1>2. Cardinality(A \ {x})
        = IF x \in A THEN Cardinality(A) - 1 ELSE Cardinality(A)
  BY FS_RemoveElement
<1>3. Cardinality(A) \in Nat /\ Cardinality(C) \in Nat
  BY FS_CardinalityType
<1> QED BY <1>1, <1>2, <1>3

\* A list without its head.
LEMMA DropHead ==
  ASSUME NEW S, NEW s \in Seq(S), IsInjective(s), s # << >>
  PROVE  /\ Tail(s) \in Seq(S) /\ Len(Tail(s)) = Len(s) - 1
         /\ IsInjective(Tail(s))
         /\ Head(s) \in ToSet(s)
         /\ ToSet(Tail(s)) = ToSet(s) \ {Head(s)}
<1> DEFINE n == Len(s)
           e == Tail(s)
<1>1. /\ n \in Nat \ {0} /\ DOMAIN s = 1..n /\ Head(s) = s[1]
      /\ e \in Seq(S) /\ Len(e) = n - 1 /\ DOMAIN e = 1..(n - 1)
      /\ \A i \in 1..(n - 1) : e[i] = s[i + 1]
  OBVIOUS
<1> HIDE DEF n, e
<1>2. \A i, j \in 1..n : s[i] = s[j] => i = j
  BY <1>1 DEF IsInjective
<1>3. /\ \A i \in 1..(n - 1) : i + 1 \in 1..n /\ i + 1 # 1
      /\ \A i \in 1..n : i # 1 => i - 1 \in 1..(n - 1) /\ (i - 1) + 1 = i
      /\ 1 \in 1..n
  BY <1>1
<1>4. IsInjective(e)
  <2>1. ASSUME NEW i \in 1..(n - 1), NEW j \in 1..(n - 1), e[i] = e[j]
        PROVE  i = j
    <3>1. s[i + 1] = s[j + 1]
      BY <2>1, <1>1
    <3>2. i + 1 = j + 1
      BY <3>1, <1>2, <1>3
    <3> QED BY <3>2
  <2> QED BY <2>1, <1>1 DEF IsInjective
<1>5. ToSet(e) = ToSet(s) \ {s[1]}
  <2>1. ASSUME NEW y \in ToSet(e) PROVE y \in ToSet(s) /\ y # s[1]
    <3>1. PICK i \in 1..(n - 1) : y = s[i + 1]
      BY <1>1, InToSet
    <3> QED BY <3>1, <1>1, <1>2, <1>3, InToSet
  <2>2. ASSUME NEW y \in ToSet(s), y # s[1] PROVE y \in ToSet(e)
    <3>1. PICK i \in 1..n : y = s[i]
      BY <1>1, InToSet
    <3>2. i # 1
      BY <3>1, <2>2
    <3>3. i - 1 \in 1..(n - 1) /\ e[i - 1] = y
      BY <3>1, <3>2, <1>1, <1>3
    <3> QED BY <3>3, <1>1, InToSet
  <2> QED BY <2>1, <2>2
<1>6. Head(s) \in ToSet(s)
  BY <1>1, <1>3, InToSet
<1> QED BY <1>1, <1>4, <1>5, <1>6 DEF n, e
-----------------------------------------------------------------------------
\* Lists in the order of a rank.

Descending(s, rank) ==
  \A i, j \in DOMAIN s : i < j => rank[s[i]] >= rank[s[j]]

\* vListInsert before the first element of a lower rank.
LEMMA DescendingInsert ==
  ASSUME NEW S, NEW rank \in [S -> Int], NEW s \in Seq(S), NEW x \in S,
         Descending(s, rank), NEW k \in Nat, 1 <= k, k <= Len(s) + 1,
         \A i \in 1..Len(s) : i < k => rank[s[i]] >= rank[x],
         k \in 1..Len(s) => rank[s[k]] <= rank[x]
  PROVE  Descending(InsertAt(s, k, x), rank)
<1> DEFINE n == Len(s)
           e == InsertAt(s, k, x)
<1>1. /\ e \in Seq(S) /\ Len(e) = n + 1
      /\ \A i \in 1..(n + 1) : e[i] = IF i < k THEN s[i]
                                     ELSE IF i = k THEN x ELSE s[i - 1]
  BY ONLY InsertSeq, SMTT(60), 1 <= k, k <= Len(s) + 1
<1>2. /\ n \in Nat /\ DOMAIN s = 1..n /\ DOMAIN e = 1..(n + 1) /\ k \in 1..(n + 1)
      /\ \A i \in 1..n : s[i] \in S
  BY <1>1
<1>3. /\ \A i \in 1..n : i < k => rank[s[i]] >= rank[x]
      /\ k \in 1..n => rank[s[k]] <= rank[x]
      /\ \A i, j \in 1..n : i < j => rank[s[i]] >= rank[s[j]]
      /\ \A i \in 1..n : rank[s[i]] \in Int
      /\ rank[x] \in Int
  BY <1>2 DEF Descending
<1> HIDE DEF e, n
<1>4. ASSUME NEW i \in 1..(n + 1), NEW j \in 1..(n + 1), i < j
      PROVE  rank[e[i]] >= rank[e[j]]
  <2>1. CASE j < k
    <3>1. i \in 1..n /\ j \in 1..n /\ i < k
      BY <1>2, <1>4, <2>1
    <3> QED BY <1>1, <1>3, <1>4, <2>1, <3>1
  <2>2. CASE j = k
    <3>1. i \in 1..n /\ i < k
      BY <1>2, <1>4, <2>2
    <3> QED BY <1>1, <1>3, <1>4, <2>2, <3>1, SMTT(30)
  <2>3. CASE j > k
    <3>1. j - 1 \in 1..n /\ ~(j < k) /\ j # k /\ k \in 1..n
      BY <1>2, <1>4, <2>3
    <3>2. e[j] = s[j - 1]
      BY <1>1, <3>1
    <3>3. CASE i < k
      <4>1. i \in 1..n /\ i < j - 1
        BY <1>2, <1>4, <2>3, <3>3
      <4>2. e[i] = s[i]
        BY <1>1, <3>3, <1>4
      <4> QED BY <1>3, <3>1, <3>2, <4>1, <4>2
    <3>4. CASE i = k
      <4>1. e[i] = x
        BY <1>1, <3>4, <1>4, SMTT(30)
      <4>2. rank[s[k]] >= rank[s[j - 1]]
        BY <1>3, <2>3, <3>1
      <4> QED BY <1>3, <3>1, <3>2, <4>1, <4>2
    <3>5. CASE i > k
      <4>1. i - 1 \in 1..n /\ i - 1 < j - 1 /\ ~(i < k) /\ i # k
        BY <1>2, <1>4, <3>5
      <4>2. e[i] = s[i - 1]
        BY <1>1, <4>1, <1>4
      <4> QED BY <1>3, <3>1, <3>2, <4>1, <4>2
    <3> QED BY <1>2, <3>3, <3>4, <3>5
  <2> QED BY <1>2, <2>1, <2>2, <2>3
<1> QED BY <1>2, <1>4 DEF Descending, e, n

\* uxListRemove
LEMMA DescendingRemove ==
  ASSUME NEW S, NEW rank, NEW s \in Seq(S), NEW x \in ToSet(s), Descending(s, rank)
  PROVE  Descending(uxListRemove(s, x), rank)
<1> DEFINE n == Len(s)
           e == uxListRemove(s, x)
<1>1. /\ e \in Seq(S) /\ Len(e) = n - 1
      /\ \E k \in 1..n :
           \A i \in 1..(n - 1) : e[i] = IF i < k THEN s[i] ELSE s[i + 1]
  BY RemoveSeq
<1>2. n \in Nat /\ DOMAIN s = 1..n /\ DOMAIN e = 1..(n - 1)
  BY <1>1
<1>3. \A i, j \in 1..n : i < j => rank[s[i]] >= rank[s[j]]
  BY <1>2 DEF Descending
<1>4. PICK k \in 1..n : \A i \in 1..(n - 1) : e[i] = IF i < k THEN s[i] ELSE s[i + 1]
  BY <1>1
<1> HIDE DEF e, n
<1>5. ASSUME NEW i \in 1..(n - 1), NEW j \in 1..(n - 1), i < j
      PROVE  rank[e[i]] >= rank[e[j]]
  <2> DEFINE a == IF i < k THEN i ELSE i + 1
             b == IF j < k THEN j ELSE j + 1
  <2>1. a \in 1..n /\ b \in 1..n /\ a < b
    BY <1>2, <1>5
  <2>2. e[i] = s[a] /\ e[j] = s[b]
    BY <1>4
  <2> HIDE DEF a, b
  <2> QED BY <1>3, <2>1, <2>2
<1> QED BY <1>2, <1>5 DEF Descending, e

\* The first element has the highest rank, and leaves the others in order.
LEMMA DescendingHead ==
  ASSUME NEW S, NEW rank \in [S -> Int], NEW s \in Seq(S), s # << >>, Descending(s, rank)
  PROVE  /\ \A x \in ToSet(s) : rank[Head(s)] >= rank[x]
         /\ Descending(Tail(s), rank)
<1> DEFINE n == Len(s)
<1>1. /\ n \in Nat \ {0} /\ DOMAIN s = 1..n /\ Head(s) = s[1]
      /\ DOMAIN Tail(s) = 1..(n - 1)
      /\ \A i \in 1..(n - 1) : Tail(s)[i] = s[i + 1]
      /\ \A i \in 1..n : s[i] \in S
  OBVIOUS
<1> HIDE DEF n
<1>2. \A i, j \in 1..n : i < j => rank[s[i]] >= rank[s[j]]
  BY <1>1 DEF Descending
<1>3. ASSUME NEW x \in ToSet(s) PROVE rank[Head(s)] >= rank[x]
  <2>1. PICK i \in 1..n : x = s[i]
    BY <1>1, InToSet
  <2>2. CASE i = 1
    BY <1>1, <2>1, <2>2
  <2>3. CASE i # 1
    BY <1>1, <1>2, <2>1, <2>3
  <2> QED BY <2>2, <2>3
<1>4. ASSUME NEW i \in 1..(n - 1), NEW j \in 1..(n - 1), i < j
      PROVE  rank[Tail(s)[i]] >= rank[Tail(s)[j]]
  <2>1. i + 1 \in 1..n /\ j + 1 \in 1..n /\ i + 1 < j + 1
    BY <1>1, <1>4
  <2> QED BY <1>1, <1>2, <2>1
<1> QED BY <1>1, <1>3, <1>4 DEF Descending
-----------------------------------------------------------------------------
\* An initialised list is empty.
LEMMA InitRing ==
  ASSUME NEW T
  PROVE  /\ IsRing(vListInitialise, T)
         /\ Items(vListInitialise) = {}
         /\ ListLength(vListInitialise) = 0
<1> DEFINE r == vListInitialise
<1>1. r \in Seq(T \cup {ListEnd}) /\ Len(r) = 1 /\ DOMAIN r = {1} /\ r[1] = ListEnd
  BY DEF vListInitialise
<1> HIDE DEF r
<1> QED BY <1>1 DEF IsRing, Items, ListLength, IsInjective, ToSet, r

\* vListInsertEnd adds one item.
LEMMA InsertEndRing ==
  ASSUME NEW T, NEW r, IsRing(r, T), NEW x \in T, x # ListEnd, x \notin Items(r)
  PROVE  /\ IsRing(vListInsertEnd(r, x), T)
         /\ Items(vListInsertEnd(r, x)) = Items(r) \cup {x}
         /\ ListLength(vListInsertEnd(r, x)) = ListLength(r) + 1
<1> DEFINE e == vListInsertEnd(r, x)
<1>1. r \in Seq(T \cup {ListEnd}) /\ Len(r) \in Nat /\ 1 <= Len(r) /\ x \notin ToSet(r)
  BY DEF IsRing, ToSet, Items
<1>2. Len(r) <= Len(r) + 1 /\ x \in T \cup {ListEnd}
  BY <1>1
<1>3. /\ e \in Seq(T \cup {ListEnd}) /\ Len(e) = Len(r) + 1
      /\ IsInjective(e) /\ ToSet(e) = ToSet(r) \cup {x}
  BY <1>1, <1>2, InsertElement DEF IsRing, vListInsertEnd
<1> HIDE DEF e
<1>4. IsRing(e, T) /\ Items(e) = Items(r) \cup {x}
  BY <1>3 DEF IsRing, Items
<1>5. ListLength(e) = ListLength(r) + 1
  BY <1>1, <1>3 DEF ListLength
<1> QED BY <1>4, <1>5 DEF e

\* uxListRemove takes one item out.
LEMMA RemoveRing ==
  ASSUME NEW T, NEW r, IsRing(r, T), NEW x, x \in Items(r)
  PROVE  /\ IsRing(uxListRemove(r, x), T)
         /\ Items(uxListRemove(r, x)) = Items(r) \ {x}
         /\ ListLength(uxListRemove(r, x)) = ListLength(r) - 1
<1> DEFINE e == uxListRemove(r, x)
<1>1. r \in Seq(T \cup {ListEnd}) /\ Len(r) \in Nat /\ x \in ToSet(r) /\ x # ListEnd
  BY DEF IsRing, Items
<1>2. /\ e \in Seq(T \cup {ListEnd}) /\ Len(e) = Len(r) - 1
      /\ IsInjective(e) /\ ToSet(e) = ToSet(r) \ {x}
  BY <1>1, RemoveElement DEF IsRing
<1> HIDE DEF e
<1> QED BY <1>1, <1>2 DEF IsRing, Items, ListLength, e

\* A list has items when its length says so.
LEMMA RingLength ==
  ASSUME NEW T, NEW r, IsRing(r, T)
  PROVE  ListLength(r) \in Nat /\ (ListLength(r) > 0 <=> Items(r) # {})
<1>1. r \in Seq(T \cup {ListEnd}) /\ Len(r) \in Nat /\ DOMAIN r = 1..Len(r)
  BY DEF IsRing
<1>2. PICK e \in 1..Len(r) : r[e] = ListEnd
  BY <1>1 DEF IsRing, ToSet
<1>3. ASSUME Len(r) > 1 PROVE Items(r) # {}
  <2> DEFINE i == IF e = 1 THEN 2 ELSE 1
  <2>1. i \in 1..Len(r) /\ i # e
    BY <1>1, <1>2, <1>3
  <2>2. r[i] # ListEnd
    BY <2>1, <1>1, <1>2 DEF IsRing, IsInjective
  <2>3. r[i] \in ToSet(r)
    BY ONLY <2>1, <1>1, InToSet
  <2> QED BY <2>2, <2>3 DEF Items
<1>4. ASSUME Items(r) # {} PROVE Len(r) > 1
  <2>1. PICK i \in 1..Len(r) : r[i] # ListEnd
    BY <1>1, <1>4 DEF Items, ToSet
  <2> QED BY <2>1, <1>1, <1>2
<1> QED BY <1>1, <1>2, <1>3, <1>4 DEF ListLength

\* Moving pxIndex on keeps the items.
LEMMA RotateRing ==
  ASSUME NEW T, NEW r, IsRing(r, T)
  PROVE  /\ IsRing(Rotate(r), T)
         /\ Items(Rotate(r)) = Items(r)
         /\ Len(Rotate(r)) = Len(r)
         /\ Rotate(r)[Len(r)] = Head(r)
         /\ Len(r) > 1 => Head(Rotate(r)) = r[2]
<1> DEFINE n == Len(r)
           s == Rotate(r)
<1>1. r \in Seq(T \cup {ListEnd}) /\ n \in Nat /\ n > 0 /\ DOMAIN r = 1..n
  BY DEF IsRing, ToSet
<1>2. s \in Seq(T \cup {ListEnd}) /\ Len(s) = n /\ DOMAIN s = 1..n
  BY <1>1 DEF Rotate
<1>3. \A i \in 1..(n - 1) : s[i] = r[i + 1]
  <2> DEFINE q == Tail(r)
  <2>1. q \in Seq(T \cup {ListEnd}) /\ Len(q) = n - 1
    BY <1>1
  <2>2. \A i \in 1..(n - 1) : q[i] = r[i + 1]
    BY <1>1
  <2>3. s = Append(q, Head(r))
    BY DEF Rotate
  <2> HIDE DEF q, s
  <2>4. \A i \in 1..(n - 1) : s[i] = q[i]
    BY <2>1, <2>3
  <2> QED BY <2>2, <2>4
<1>4. s[n] = r[1] /\ Head(r) = r[1]
  BY <1>1 DEF Rotate
<1>5. n > 1 => Head(s) = r[2]
  BY <1>1, <1>2, <1>3
<1> HIDE DEF n, s
<1>6. \A i \in 1..n : (i \in 1..(n - 1) /\ i + 1 \in 1..n /\ i + 1 # 1) \/ i = n
  BY <1>1
<1>7. \A i, j \in 1..n : r[i] = r[j] => i = j
  BY <1>1 DEF IsRing, IsInjective
<1>8. ASSUME NEW i \in 1..n, NEW j \in 1..n, s[i] = s[j] PROVE i = j
  BY <1>1, <1>3, <1>4, <1>6, <1>7, <1>8
<1>9. ASSUME NEW i \in 1..n PROVE \E j \in 1..n : s[j] = r[i]
  <2>1. CASE i = 1
    BY <2>1, <1>1, <1>4
  <2>2. CASE i # 1
    <3>1. i - 1 \in 1..(n - 1) /\ i - 1 \in 1..n /\ (i - 1) + 1 = i
      BY <2>2, <1>1
    <3> QED BY <3>1, <1>3
  <2> QED BY <2>1, <2>2
<1>10. \A j \in 1..n : \E i \in 1..n : s[j] = r[i]
  BY <1>1, <1>3, <1>4, <1>6
<1>11. ToSet(s) = ToSet(r)
  <2>1. \A y : y \in ToSet(r) => y \in ToSet(s)
    BY ONLY <1>1, <1>2, <1>9, InToSet
  <2>2. \A y : y \in ToSet(s) => y \in ToSet(r)
    BY ONLY <1>1, <1>2, <1>10, InToSet
  <2> QED BY ONLY <2>1, <2>2
<1>12. IsInjective(s)
  BY <1>2, <1>8 DEF IsInjective
<1> QED
  BY <1>1, <1>2, <1>4, <1>5, <1>11, <1>12 DEF IsRing, Items, n, s

\* listGET_OWNER_OF_NEXT_ENTRY keeps the items and returns one of them.
THEOREM NextEntryRing ==
  ASSUME NEW T, NEW r, IsRing(r, T), ListLength(r) > 0
  PROVE  /\ IsRing(NextEntry(r), T)
         /\ Items(NextEntry(r)) = Items(r)
         /\ ListLength(NextEntry(r)) = ListLength(r)
         /\ EntryAtIndex(NextEntry(r)) \in Items(r)
<1> DEFINE q == Rotate(r)
<1>1. r \in Seq(T \cup {ListEnd}) /\ Len(r) \in Nat /\ Len(r) > 1 /\ DOMAIN r = 1..Len(r)
  BY DEF IsRing, ListLength
<1>2. /\ IsRing(q, T) /\ Items(q) = Items(r) /\ Len(q) = Len(r)
      /\ q[Len(r)] = Head(r) /\ Head(q) = r[2]
  BY <1>1, RotateRing
<1>3. Head(r) = r[1]
  BY <1>1
<1>4. CASE Head(r) = ListEnd
  <2>1. /\ IsRing(Rotate(q), T) /\ Items(Rotate(q)) = Items(r)
        /\ Len(Rotate(q)) = Len(r) /\ Rotate(q)[Len(r)] = r[2]
    BY <1>2, RotateRing
  <2>2. r[2] # ListEnd
    BY <1>1, <1>3, <1>4 DEF IsRing, IsInjective
  <2>3. r[2] \in Items(r)
    BY <1>1, <2>2 DEF Items, ToSet
  <2> QED
    BY <1>4, <2>1, <2>3 DEF NextEntry, EntryAtIndex, ListLength
<1>5. CASE Head(r) # ListEnd
  <2>1. r[1] \in Items(r)
    BY <1>1, <1>3, <1>5 DEF Items, ToSet
  <2> QED
    BY <1>2, <1>3, <1>5, <2>1 DEF NextEntry, EntryAtIndex, ListLength
<1> QED BY <1>4, <1>5
=============================================================================
