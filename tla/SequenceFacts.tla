----------------------------- MODULE SequenceFacts -----------------------------
(***************************************************************************)
(* Facts about sequences and finite sets of numbers that the proofs about  *)
(* the registry and about mount paths share.                               *)
(***************************************************************************)
EXTENDS SequencesExt, Sublists, FiniteSetTheorems, SequenceTheorems, TLAPS

\* What RemoveAt leaves of a sequence: the elements before and after.
LEMMA RemoveAtElements ==
  ASSUME NEW S, NEW s \in Seq(S), NEW i \in 1..Len(s)
  PROVE  /\ RemoveAt(s, i) \in Seq(S)
         /\ Len(RemoveAt(s, i)) = Len(s) - 1
         /\ \A j \in 1..(Len(s) - 1) :
              RemoveAt(s, i)[j] = IF j < i THEN s[j] ELSE s[j + 1]
<1> DEFINE head == SubSeq(s, 1, i - 1)
           tail == SubSeq(s, i + 1, Len(s))
<1>0. Len(s) \in Nat /\ \A j \in 1..Len(s) : s[j] \in S
  BY LenProperties, ElementOfSeq
<1>1. /\ head \in Seq(S) /\ Len(head) = i - 1
      /\ \A j \in 1..(i - 1) : head[j] = s[j]
  <2>1. \A j \in 1..(i - 1) : s[j] \in S
    BY <1>0
  <2> QED  BY <1>0, <2>1, SubSeqProperties
<1>2. /\ tail \in Seq(S) /\ Len(tail) = Len(s) - i
      /\ \A j \in 1..(Len(s) - i) : tail[j] = s[i + 1 + j - 1]
  <2> DEFINE m == i + 1
             n == Len(s)
  <2>1. /\ m \in Int /\ n \in Int /\ \A j \in m..n : s[j] \in S
        /\ n - m + 1 = n - i
        /\ n - i = IF m <= n THEN n - m + 1 ELSE 0
    BY <1>0
  <2> HIDE DEF m, n
  <2>2. /\ SubSeq(s, m, n) \in Seq(S)
        /\ Len(SubSeq(s, m, n)) = IF m <= n THEN n - m + 1 ELSE 0
        /\ \A j \in 1..(n - m + 1) : SubSeq(s, m, n)[j] = s[m + j - 1]
    BY <2>1, SubSeqProperties
  <2>3. tail = SubSeq(s, m, n)
    BY DEF m, n
  <2>4. /\ SubSeq(s, m, n) \in Seq(S) /\ Len(SubSeq(s, m, n)) = n - i
        /\ \A j \in 1..(n - i) : SubSeq(s, m, n)[j] = s[m + j - 1]
    BY <2>1, <2>2
  <2> QED  BY <2>3, <2>4 DEF m, n
<1> HIDE DEF head, tail
<1>3. /\ head \o tail \in Seq(S)
      /\ Len(head \o tail) = Len(head) + Len(tail)
      /\ \A j \in 1..(Len(head) + Len(tail)) :
           (head \o tail)[j] = IF j <= Len(head) THEN head[j] ELSE tail[j - Len(head)]
  BY <1>1, <1>2, ConcatProperties
<1>4. \A j \in 1..(Len(s) - 1) :
        (head \o tail)[j] = IF j < i THEN s[j] ELSE s[j + 1]
  <2> TAKE j \in 1..(Len(s) - 1)
  <2>1. CASE j < i
    BY <2>1, <1>0, <1>1, <1>2, <1>3
  <2>2. CASE ~(j < i)
    <3>1. (head \o tail)[j] = tail[j - (i - 1)]
      <4>1. /\ j \in 1..(Len(head) + Len(tail)) /\ ~(j <= Len(head))
            /\ j - Len(head) = j - (i - 1)
        BY <2>2, <1>0, <1>1, <1>2
      <4>2. (head \o tail)[j] = tail[j - Len(head)]
        BY <1>3, <4>1
      <4> QED  BY <4>1, <4>2
    <3>2. tail[j - (i - 1)] = s[i + 1 + (j - (i - 1)) - 1]
      <4>1. j - (i - 1) \in 1..(Len(s) - i)
        BY <2>2, <1>0
      <4> QED  BY <4>1, <1>2
    <3>3. i + 1 + (j - (i - 1)) - 1 = j + 1
      BY <1>0
    <3> QED  BY <2>2, <3>1, <3>2, <3>3
  <2> QED  BY <2>1, <2>2
<1>5. RemoveAt(s, i) = head \o tail
  BY DEF RemoveAt, head, tail
<1>6. Len(head \o tail) = Len(s) - 1
  <2>1. (i - 1) + (Len(s) - i) = Len(s) - 1
    BY <1>0
  <2> QED  BY <2>1, <1>1, <1>2, <1>3
<1> QED  BY <1>3, <1>4, <1>5, <1>6

\* Front drops the last element.
LEMMA FrontElements ==
  ASSUME NEW S, NEW s \in Seq(S), s # <<>>
  PROVE  /\ Front(s) \in Seq(S)
         /\ Len(Front(s)) = Len(s) - 1
         /\ \A j \in 1..(Len(s) - 1) : Front(s)[j] = s[j]
         /\ Len(s) \in 1..Len(s)
         /\ Last(s) = s[Len(s)] /\ Last(s) \in S
<1>0. Len(s) \in Nat /\ 1 <= Len(s)
  BY EmptySeq
<1>1. \A j \in 1..Len(s) : s[j] \in S
  BY ElementOfSeq
<1>2. \A j \in 1..(Len(s) - 1) : s[j] \in S
  BY <1>0, <1>1
<1>3. /\ SubSeq(s, 1, Len(s) - 1) \in Seq(S)
      /\ Len(SubSeq(s, 1, Len(s) - 1))
           = IF 1 <= Len(s) - 1 THEN Len(s) - 1 - 1 + 1 ELSE 0
      /\ \A j \in 1..(Len(s) - 1 - 1 + 1) :
           SubSeq(s, 1, Len(s) - 1)[j] = s[1 + j - 1]
  BY <1>0, <1>2, SubSeqProperties
<1>4. Len(SubSeq(s, 1, Len(s) - 1)) = Len(s) - 1
  <2>1. CASE Len(s) = 1
    BY <1>0, <1>3, <2>1
  <2>2. CASE Len(s) # 1
    <3>0. \A n \in Nat : 1 <= n /\ n # 1 => 1 <= n - 1 /\ n - 1 - 1 + 1 = n - 1
      OBVIOUS
    <3>1. 1 <= Len(s) - 1 /\ Len(s) - 1 - 1 + 1 = Len(s) - 1
      BY <1>0, <2>2, <3>0
    <3> QED  BY <1>3, <3>1
  <2> QED  BY <2>1, <2>2
<1>5. \A j \in 1..(Len(s) - 1) : SubSeq(s, 1, Len(s) - 1)[j] = s[j]
  <2> TAKE j \in 1..(Len(s) - 1)
  <2>1. j \in 1..(Len(s) - 1 - 1 + 1) /\ 1 + j - 1 = j
    BY <1>0
  <2> QED  BY <1>3, <2>1
<1>6. Len(s) \in 1..Len(s) /\ s[Len(s)] \in S
  BY <1>0, <1>1
<1> QED  BY <1>3, <1>4, <1>5, <1>6 DEF Front, Last

\* Tail leaves something of a sequence that has more than one element.
LEMMA TailElements ==
  ASSUME NEW S, NEW s \in Seq(S), s # <<>>
  PROVE  /\ Head(s) \in S
         /\ Tail(s) \in Seq(S)
         /\ Len(s) # 1 => Tail(s) # <<>>
<1>1. Head(s) \in S /\ Tail(s) \in Seq(S) /\ Len(Tail(s)) = Len(s) - 1
  BY HeadTailProperties
<1>2. Len(s) \in Nat
  BY LenProperties
<1>3. Tail(s) = <<>> => Len(Tail(s)) = 0
  BY EmptySeq
<1>4. Len(Tail(s)) = 0 => Len(s) = 1
  <2>1. \A n \in Nat : n - 1 = 0 => n = 1
    OBVIOUS
  <2> QED  BY <1>1, <1>2, <2>1
<1> QED  BY <1>1, <1>3, <1>4

\* An element put before a sequence is its head.
LEMMA PrependedElements ==
  ASSUME NEW S, NEW s \in Seq(S), NEW e \in S
  PROVE  /\ <<e>> \o s \in Seq(S) /\ <<e>> \o s # <<>>
         /\ Len(<<e>> \o s) = Len(s) + 1
         /\ Head(<<e>> \o s) = e /\ Tail(<<e>> \o s) = s
         /\ (<<e>> \o s)[1] = e
         /\ \A k \in 2..(Len(s) + 1) : (<<e>> \o s)[k] = s[k - 1]
<1> DEFINE one == <<e>>
           u == one \o s
           n == Len(s)
<1>1. one \in Seq(S) /\ Len(one) = 1 /\ one[1] = e /\ n \in Nat
  BY LenProperties
<1> HIDE DEF one
<1>2. /\ u \in Seq(S) /\ Len(u) = n + 1 /\ u[1] = e
      /\ \A k \in 2..(n + 1) : u[k] = s[k - 1]
  BY <1>1, ConcatProperties
<1> HIDE DEF u
<1>3. u # <<>>
  BY <1>1, <1>2, EmptySeq
<1>4. /\ Head(u) = e /\ Tail(u) \in Seq(S) /\ Len(Tail(u)) = n
      /\ \A k \in 1..n : Tail(u)[k] = u[k + 1]
  BY <1>1, <1>2, <1>3, HeadTailProperties
<1>5. \A k \in 1..n : Tail(u)[k] = s[k]
  BY <1>1, <1>2, <1>4
<1>6. Tail(u) = s
  BY <1>1, <1>4, <1>5, SeqEqual
<1> QED  BY <1>2, <1>3, <1>4, <1>6 DEF u, one

\* The ids in a sequence are those at its head and in its tail.
LEMMA RangeOfTail ==
  ASSUME NEW S, NEW s \in Seq(S), s # <<>>, NEW x \in Range(s)
  PROVE  x = Head(s) \/ x \in Range(Tail(s))
<1>1. PICK i \in DOMAIN s : s[i] = x
  BY DEF Range
<1> DEFINE n == Len(s)
<1>2. n \in Nat /\ DOMAIN s = 1..n /\ Head(s) = s[1]
  BY LenProperties
<1>3. /\ Tail(s) \in Seq(S) /\ Len(Tail(s)) = n - 1
      /\ \A j \in 1..(n - 1) : Tail(s)[j] = s[j + 1]
  BY HeadTailProperties
<1>4. DOMAIN Tail(s) = 1..(n - 1)
  BY <1>3, LenProperties
<1> HIDE DEF n
<1>5. i \in 1..n
  BY <1>1, <1>2
<1>6. CASE i = 1
  BY <1>1, <1>2, <1>6
<1>7. CASE i # 1
  <2>1. i - 1 \in 1..(n - 1) /\ i - 1 + 1 = i
    BY <1>2, <1>5, <1>7
  <2>2. Tail(s)[i - 1] = x
    BY <1>1, <1>3, <2>1
  <2> QED  BY <1>4, <2>1, <2>2 DEF Range
<1> QED  BY <1>6, <1>7

\* A set of indexes has a least element: among the sets of smaller elements one
\* has no strict subset.
LEMMA Least ==
  ASSUME NEW n \in Nat, NEW V, V \subseteq 1..n, V # {}
  PROVE  \E m \in V : \A k \in V : m <= k
<1> DEFINE below(m) == {k \in V : k < m}
           Belows == {below(m) : m \in V}
<1>1. IsFiniteSet(V)
  <2>1. IsFiniteSet(1..n)
    BY FS_Interval
  <2> QED  BY <2>1, FS_Subset
<1>2. Belows \subseteq FiniteSubsetsOf(V) /\ Belows # {}
  <2>1. \A T \in SUBSET V : IsFiniteSet(T)
    BY <1>1, FS_Subset
  <2>2. \A k \in V : below(k) \in SUBSET V
    OBVIOUS
  <2> HIDE DEF below
  <2> QED  BY <2>1, <2>2 DEF FiniteSubsetsOf
<1>3. PICK m \in V : \A k \in V : <<below(k), below(m)>> \notin StrictSubsetOrdering(V)
  <2>1. IsWellFoundedOn(StrictSubsetOrdering(V), FiniteSubsetsOf(V))
    BY FS_StrictSubsetOrderingWellFounded
  <2>2. \E x \in Belows : \A y \in Belows : <<y, x>> \notin StrictSubsetOrdering(V)
    BY <1>2, <2>1, WFMin
  <2> QED  BY <2>2
<1>4. \A k \in V : k \in Nat
  OBVIOUS
<1>5. ASSUME NEW k \in V, k < m
      PROVE  FALSE
  <2>1. \A j \in V : j < k => j < m
    BY <1>4, <1>5
  <2>2. k \in below(m) /\ k \notin below(k) /\ below(k) \subseteq below(m)
    <3>1. k \in V /\ k < m /\ ~(k < k)
      BY <1>4, <1>5
    <3> QED  BY <2>1, <3>1, Zenon
  <2>3. below(k) \subseteq V /\ below(m) \subseteq V
    OBVIOUS
  <2> HIDE DEF below
  <2>4. <<below(k), below(m)>> \in StrictSubsetOrdering(V)
    BY <2>2, <2>3 DEF StrictSubsetOrdering
  <2> QED  BY <1>3, <2>4
<1>6. \A k \in V : m <= k
  BY <1>4, <1>5
<1> QED  BY <1>6

\* And a greatest: the least, counted from the end.
LEMMA Greatest ==
  ASSUME NEW n \in Nat, NEW V, V \subseteq 1..n, V # {}
  PROVE  \E m \in V : \A k \in V : k <= m
<1> DEFINE W == {n + 1 - k : k \in V}
<1>1. W \subseteq 1..n /\ W # {}
  <2>1. \A k \in V : n + 1 - k \in 1..n
    OBVIOUS
  <2> QED  BY <2>1
<1>2. \E w \in W : \A k \in W : w <= k
  <2> HIDE DEF W
  <2> QED  BY <1>1, Least
<1>3. PICK m \in V : \A k \in V : n + 1 - m <= n + 1 - k
  BY <1>2
<1>4. \A k \in V : k \in Nat
  OBVIOUS
<1>5. \A k \in V : k <= m
  BY <1>3, <1>4
<1> QED  BY <1>5

\* A prefix, symbol by symbol.
LEMMA PrefixPoints ==
  ASSUME NEW S, NEW s \in Seq(S), NEW t \in Seq(S)
  PROVE  IsPrefix(s, t) <=>
           Len(s) <= Len(t) /\ \A k \in 1..Len(s) : s[k] = t[k]
<1> DEFINE n == Len(s)
           m == Len(t)
<1>1. n \in Nat /\ m \in Nat /\ SubSeq(s, 1, n) = s
  BY LenProperties, SubSeqFull
<1> SUFFICES ASSUME n <= m
             PROVE  s = SubSeq(t, 1, n) <=> \A k \in 1..n : s[k] = t[k]
  BY <1>1 DEF IsPrefix
<1>2. \A i \in 1..m : t[i] \in S
  BY ElementOfSeq
<1>3. \A i \in 1..n : t[i] \in S
  BY <1>1, <1>2
<1> DEFINE u == SubSeq(t, 1, n)
<1>4. u \in Seq(S) /\ Len(u) = n /\ \A k \in 1..n : u[k] = t[k]
  <2>1. /\ u \in Seq(S)
        /\ Len(u) = IF 1 <= n THEN n - 1 + 1 ELSE 0
        /\ \A k \in 1..(n - 1 + 1) : u[k] = t[1 + k - 1]
    BY <1>1, <1>3, SubSeqProperties
  <2> HIDE DEF u, n, m
  <2> QED  BY <1>1, <2>1
<1> HIDE DEF u
<1> QED  BY <1>4, SeqEqual

\* A sequence with one more symbol begins another.
LEMMA LongerPrefix ==
  ASSUME NEW S, NEW s \in Seq(S), NEW t \in Seq(S), NEW e \in S
  PROVE  IsPrefix(s \o <<e>>, t) <=>
           /\ Len(s) < Len(t) /\ t[Len(s) + 1] = e
           /\ \A k \in 1..Len(s) : s[k] = t[k]
<1> DEFINE n == Len(s)
           m == Len(t)
           one == <<e>>
           u == s \o one
<1>1. n \in Nat /\ m \in Nat
  BY LenProperties
<1>2. one \in Seq(S) /\ Len(one) = 1 /\ one[1] = e
  OBVIOUS
<1>3. /\ u \in Seq(S) /\ Len(u) = Len(s) + Len(one)
      /\ \A k \in 1..(Len(s) + Len(one)) :
           u[k] = IF k <= Len(s) THEN s[k] ELSE one[k - Len(s)]
  BY <1>2, ConcatProperties
<1> HIDE DEF u, one
<1>4. IsPrefix(u, t) <=> Len(u) <= m /\ \A k \in 1..Len(u) : u[k] = t[k]
  BY <1>3, PrefixPoints
<1>5. Len(u) = n + 1 /\ \A k \in 1..(n + 1) : u[k] = IF k <= n THEN s[k] ELSE one[k - n]
  BY <1>2, <1>3
<1> HIDE DEF n, m
<1>6. (\A k \in 1..n : u[k] = s[k]) /\ u[n + 1] = e
  <2>1. \A k \in 1..n : k \in 1..(n + 1) /\ k <= n
    BY <1>1
  <2>2. n + 1 \in 1..(n + 1) /\ ~(n + 1 <= n) /\ n + 1 - n = 1
    BY <1>1
  <2>3. \A k \in 1..n : u[k] = s[k]
    BY <1>5, <2>1
  <2>4. u[n + 1] = one[n + 1 - n]
    <3>1. u[n + 1] = IF n + 1 <= n THEN s[n + 1] ELSE one[n + 1 - n]
      BY <1>1, <1>5, <2>2
    <3> QED  BY <2>2, <3>1
  <2> QED  BY <1>2, <2>2, <2>3, <2>4
<1>7. n + 1 <= m <=> n < m
  BY <1>1
<1>8. (\A k \in 1..(n + 1) : u[k] = t[k])
        <=> (\A k \in 1..n : u[k] = t[k]) /\ u[n + 1] = t[n + 1]
  <2>1. /\ \A k \in 1..(n + 1) : k \in 1..n \/ k = n + 1
        /\ n + 1 \in 1..(n + 1) /\ \A k \in 1..n : k \in 1..(n + 1)
    BY <1>1
  <2> QED  BY <2>1
<1>9. (\A k \in 1..n : u[k] = t[k]) <=> (\A k \in 1..n : s[k] = t[k])
  BY <1>6
<1> QED  BY <1>4, <1>5, <1>6, <1>7, <1>8, <1>9 DEF n, m, u, one

-----------------------------------------------------------------------------
(***************************************************************************)
(* Sublists.                                                               *)
(***************************************************************************)

\* The numbers of a set can be counted off: each has one rank, and a greater
\* number a greater rank.
LEMMA Ranks ==
  ASSUME NEW n \in Nat, NEW I, I \subseteq 1..n
  PROVE  /\ IsFiniteSet(I) /\ Cardinality(I) \in Nat
         /\ \A k \in 1..Cardinality(I) : Nth(I, k) \in I
         /\ \A j, k \in 1..Cardinality(I) : j < k => Nth(I, j) < Nth(I, k)
         /\ \A i \in I : \E k \in 1..Cardinality(I) : Nth(I, k) = i
<1> DEFINE upto(i) == {j \in I : j <= i}
           rank == [i \in I |-> Cardinality(upto(i))]
           m == Cardinality(I)
<1>1. IsFiniteSet(I) /\ m \in Nat /\ \A i \in I : i \in Nat
  <2>1. IsFiniteSet(1..n)
    BY FS_Interval
  <2>2. IsFiniteSet(I)
    BY <2>1, FS_Subset
  <2> QED  BY <2>2, FS_CardinalityType
<1>2. \A i \in I : /\ upto(i) \subseteq I /\ i \in upto(i)
                   /\ IsFiniteSet(upto(i))
                   /\ Cardinality(upto(i)) \in 1..m
  <2> TAKE i \in I
  <2>1. upto(i) \subseteq I /\ i \in upto(i)
    BY <1>1
  <2> HIDE DEF upto
  <2>2. IsFiniteSet(upto(i)) /\ Cardinality(upto(i)) <= m
    BY <1>1, <2>1, FS_Subset
  <2>3. Cardinality(upto(i)) \in Nat /\ Cardinality(upto(i)) # 0
    BY <2>1, <2>2, FS_CardinalityType, FS_EmptySet
  <2> QED  BY <1>1, <2>1, <2>2, <2>3
<1>3. \A i, j \in I : i < j => rank[i] < rank[j]
  <2> SUFFICES ASSUME NEW i \in I, NEW j \in I, i < j
               PROVE  Cardinality(upto(i)) < Cardinality(upto(j))
    OBVIOUS
  <2>1. upto(i) \subseteq upto(j) /\ j \notin upto(i) /\ j \in upto(j)
    <3>1. \A k \in I : k <= i => k <= j
      BY <1>1
    <3>2. j \in I /\ ~(j <= i) /\ j <= j
      BY <1>1
    <3> QED  BY <3>1, <3>2, Zenon
  <2>2. /\ IsFiniteSet(upto(i)) /\ IsFiniteSet(upto(j))
        /\ Cardinality(upto(i)) \in Nat /\ Cardinality(upto(j)) \in Nat
    <3>1. i \in I /\ j \in I
      OBVIOUS
    <3>2. IsFiniteSet(upto(i)) /\ IsFiniteSet(upto(j))
      BY <1>2, <3>1
    <3> HIDE DEF upto
    <3> QED  BY <3>2, FS_CardinalityType
  <2> HIDE DEF upto
  <2>3. /\ Cardinality(upto(i)) <= Cardinality(upto(j))
        /\ Cardinality(upto(j)) # Cardinality(upto(i))
    BY <2>1, <2>2, FS_Subset
  <2> QED  BY <2>2, <2>3
<1>4. rank \in [I -> 1..m]
  BY <1>2
<1> HIDE DEF rank, m
<1>5. \A i, j \in I : rank[i] = rank[j] => i = j
  <2> SUFFICES ASSUME NEW i \in I, NEW j \in I, rank[i] = rank[j], i # j
               PROVE  FALSE
    OBVIOUS
  <2>1. i < j \/ j < i
    BY <1>1
  <2>2. rank[i] < rank[j] \/ rank[j] < rank[i]
    BY <1>3, <2>1
  <2>3. rank[i] \in Nat /\ rank[j] \in Nat
    BY <1>4
  <2> QED  BY <2>2, <2>3
<1>6. rank \in Surjection(I, 1..m)
  <2>1. rank \in Injection(I, 1..m)
    BY <1>4, <1>5 DEF Injection, IsInjective
  <2>2. IsFiniteSet(1..m) /\ Cardinality(1..m) = m
    <3>1. IsFiniteSet(1..m) /\ Cardinality(1..m) = IF 1 > m THEN 0 ELSE m - 1 + 1
      BY <1>1, FS_Interval
    <3> QED  BY <1>1, <3>1
  <2> QED  BY <2>1, <2>2, FS_Injection DEF m
<1>7. \A k \in 1..m : \E i \in I : rank[i] = k
  BY <1>6 DEF Surjection
<1>8. \A k \in 1..m : Nth(I, k) \in I /\ rank[Nth(I, k)] = k
  <2> TAKE k \in 1..m
  <2>1. \E i \in I : Cardinality({j \in I : j <= i}) = k
    BY <1>7 DEF rank
  <2> QED  BY <2>1 DEF Nth, rank
<1>9. \A j, k \in 1..m : j < k => Nth(I, j) < Nth(I, k)
  <2> SUFFICES ASSUME NEW j \in 1..m, NEW k \in 1..m, j < k, ~(Nth(I, j) < Nth(I, k))
               PROVE  FALSE
    OBVIOUS
  <2>1. PICK a \in I : a = Nth(I, j) /\ rank[a] = j
    BY <1>8
  <2>2. PICK b \in I : b = Nth(I, k) /\ rank[b] = k
    BY <1>8
  <2>3. b < a \/ a = b
    BY <1>1, <2>1, <2>2
  <2>4. k < j \/ j = k
    BY <1>3, <2>1, <2>2, <2>3
  <2> QED  BY <1>1, <2>4
<1>10. \A i \in I : \E k \in 1..m : Nth(I, k) = i
  <2> TAKE i \in I
  <2>1. rank[i] \in 1..m
    BY <1>4
  <2>2. Nth(I, rank[i]) = i
    BY <1>5, <1>8, <2>1
  <2> QED  BY <2>1, <2>2
<1> QED  BY <1>1, <1>8, <1>9, <1>10 DEF m

\* A sublist has the elements at the places it is given and no others, each
\* place once and in the order of the sequence.
LEMMA SublistElements ==
  ASSUME NEW S, NEW s \in Seq(S), NEW I, I \subseteq DOMAIN s
  PROVE  /\ Sublist(s, I) \in Seq(S)
         /\ Range(Sublist(s, I)) = {s[i] : i \in I}
         /\ \A k \in DOMAIN Sublist(s, I) :
              Nth(I, k) \in I /\ Sublist(s, I)[k] = s[Nth(I, k)]
         /\ \A j, k \in DOMAIN Sublist(s, I) : j < k => Nth(I, j) < Nth(I, k)
<1> DEFINE m == Cardinality(I)
           n == Len(s)
<1>1. n \in Nat /\ DOMAIN s = 1..n /\ \A i \in 1..n : s[i] \in S
  BY LenProperties, ElementOfSeq
<1>2. /\ m \in Nat
      /\ \A k \in 1..m : Nth(I, k) \in I
      /\ \A j, k \in 1..m : j < k => Nth(I, j) < Nth(I, k)
      /\ \A i \in I : \E k \in 1..m : Nth(I, k) = i
  BY <1>1, Ranks
<1> HIDE DEF m, n
<1>3. Sublist(s, I) = [k \in 1..m |-> s[Nth(I, k)]]
  BY DEF Sublist, m
<1>4. \A k \in 1..m : s[Nth(I, k)] \in S
  BY <1>1, <1>2
<1>5. Sublist(s, I) \in [1..m -> S]
  BY <1>3, <1>4
<1>6. Sublist(s, I) \in Seq(S)
  BY <1>2, <1>5, SeqDef
<1>7. Range(Sublist(s, I)) = {s[i] : i \in I}
  <2>1. Range(Sublist(s, I)) = {s[Nth(I, k)] : k \in 1..m}
    BY <1>3 DEF Range
  <2> QED  BY <1>2, <2>1
<1> QED  BY <1>2, <1>3, <1>6, <1>7

\* At every place there is, it is the sequence; at none, it is empty.
LEMMA SublistEnds ==
  ASSUME NEW S, NEW s \in Seq(S)
  PROVE  /\ Sublist(s, DOMAIN s) = s
         /\ Sublist(s, {}) = <<>>
<1> DEFINE n == Len(s)
<1>1. n \in Nat /\ DOMAIN s = 1..n
  BY LenProperties
<1>2. Sublist(s, {}) = <<>>
  BY FS_EmptySet DEF Sublist
<1>3. \A k \in 1..n : Nth(1..n, k) = k
  <2> TAKE k \in 1..n
  <2>1. \A i \in 1..n : Cardinality({j \in 1..n : j <= i}) = i
    <3> TAKE i \in 1..n
    <3>1. {j \in 1..n : j <= i} = 1..i
      BY <1>1
    <3>2. Cardinality(1..i) = i
      <4>1. Cardinality(1..i) = IF 1 > i THEN 0 ELSE i - 1 + 1
        BY <1>1, FS_Interval
      <4> QED  BY <1>1, <4>1
    <3> QED  BY <3>1, <3>2, Zenon
  <2>2. \A i \in 1..n : Cardinality({j \in 1..n : j <= i}) = k <=> i = k
    BY <2>1
  <2>3. Nth(1..n, k) = CHOOSE i \in 1..n : i = k
    BY <2>2 DEF Nth
  <2> QED  BY <2>3
<1>4. Cardinality(1..n) = n
  <2>1. Cardinality(1..n) = IF 1 > n THEN 0 ELSE n - 1 + 1
    BY <1>1, FS_Interval
  <2> QED  BY <1>1, <2>1
<1>5. Sublist(s, 1..n) = s
  <2> HIDE DEF n
  <2>1. Sublist(s, 1..n) = [k \in 1..n |-> s[k]]
    BY <1>3, <1>4 DEF Sublist
  <2>2. s = [k \in DOMAIN s |-> s[k]]
    <3>1. s \in [1..n -> S]
      BY <1>1, SeqDef, LenProperties DEF n
    <3> QED  BY <1>1, <3>1
  <2> QED  BY <1>1, <2>1, <2>2
<1> QED  BY <1>1, <1>2, <1>5

\* Reverse turns a sequence round.
LEMMA ReverseElements ==
  ASSUME NEW S, NEW s \in Seq(S)
  PROVE  /\ Reverse(s) \in Seq(S)
         /\ Len(Reverse(s)) = Len(s) /\ DOMAIN Reverse(s) = DOMAIN s
         /\ \A i \in DOMAIN s : /\ Reverse(s)[i] = s[Len(s) - i + 1]
                                /\ Len(s) - i + 1 \in DOMAIN s
         /\ Range(Reverse(s)) = Range(s)
<1> DEFINE n == Len(s)
<1>1. n \in Nat /\ DOMAIN s = 1..n /\ \A i \in 1..n : s[i] \in S
  BY LenProperties, ElementOfSeq
<1> HIDE DEF n
<1>2. Reverse(s) = [i \in 1..n |-> s[n - i + 1]]
  BY DEF Reverse, n
<1>3. \A i \in 1..n : n - i + 1 \in 1..n /\ n - (n - i + 1) + 1 = i
  BY <1>1
<1>4. Reverse(s) \in [1..n -> S]
  BY <1>1, <1>2, <1>3
<1>5. Reverse(s) \in Seq(S)
  BY <1>1, <1>4, SeqDef
<1>6. DOMAIN Reverse(s) = 1..n /\ Len(Reverse(s)) = n
  BY <1>1, <1>4, <1>5, LenProperties
<1>7. Range(Reverse(s)) = Range(s)
  <2>1. Range(Reverse(s)) = {s[n - i + 1] : i \in 1..n} /\ Range(s) = {s[i] : i \in 1..n}
    BY <1>1, <1>2 DEF Range
  <2> QED  BY <1>3, <2>1
<1> QED  BY <1>1, <1>2, <1>3, <1>5, <1>6, <1>7 DEF n
===============================================================================
