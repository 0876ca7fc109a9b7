------------------------------ MODULE Positions ------------------------------
(***************************************************************************)
(* Lemmas about positions in sequences: the first and the last of a set,   *)
(* the n-th of a set, what is left when an element is removed, what a      *)
(* concatenation holds.                                                    *)
(***************************************************************************)
EXTENDS Integers, SequencesExt, FiniteSetTheorems, SequenceTheorems, TLAPS

\* A set of natural numbers that is not empty has a least element: the least
\* of the intervals from 0 to its elements, which are finite sets.
LEMMA LeastNumber ==
  ASSUME NEW S \in SUBSET Nat, S # {}
  PROVE  Min(S) \in S /\ \A n \in S : Min(S) <= n
<1>. DEFINE UpToNumber(n) == 0 .. n
            Intervals == {UpToNumber(n) : n \in S}
<1>1. Intervals \subseteq FiniteSubsetsOf(Nat)
  <2>. SUFFICES ASSUME NEW n \in S
                PROVE  UpToNumber(n) \in FiniteSubsetsOf(Nat)
    OBVIOUS
  <2>1. IsFiniteSet(UpToNumber(n))
    BY FS_Interval
  <2>. QED
    BY <2>1 DEF FiniteSubsetsOf
<1>2. PICK x \in Intervals : \A y \in Intervals : ~(<<y, x>> \in StrictSubsetOrdering(Nat))
  <2>1. Intervals # {}
    OBVIOUS
  <2>2. IsWellFoundedOn(StrictSubsetOrdering(Nat), FiniteSubsetsOf(Nat))
    BY FS_StrictSubsetOrderingWellFounded
  <2>. HIDE DEF Intervals
  <2>. QED
    BY <1>1, <2>1, <2>2, WFMin
<1>3. PICK m \in S : x = UpToNumber(m)
  OBVIOUS
<1>4. ASSUME NEW n \in S PROVE m <= n
  <2>1. SUFFICES ASSUME n < m PROVE FALSE
    OBVIOUS
  <2>2. /\ UpToNumber(n) \in SUBSET Nat /\ UpToNumber(m) \in SUBSET Nat
        /\ UpToNumber(n) \subseteq UpToNumber(m)
        /\ m \in UpToNumber(m) /\ m \notin UpToNumber(n)
    BY <2>1
  <2>3. <<UpToNumber(n), UpToNumber(m)>> \in StrictSubsetOrdering(Nat)
    BY <2>2 DEF StrictSubsetOrdering
  <2>. QED
    BY <1>2, <1>3, <2>3
<1>. QED
  BY <1>4 DEF Min

\* Every position of a set has a rank, no two the same, and every number up
\* to the set's size is one.
LEMMA RankedPositions ==
  ASSUME NEW N \in Nat, NEW K \in SUBSET (1 .. N)
  PROVE  /\ Cardinality(K) \in Nat
         /\ \A n \in 1 .. Cardinality(K) :
              \E k \in K : Cardinality({j \in K : j <= k}) = n
<1>. DEFINE UpTo(m) == {j \in K : j <= m}
            Count(m) == Cardinality(UpTo(m))
<1>0. \A j \in K : j \in Nat /\ 1 <= j /\ j <= N
  OBVIOUS
<1>1. IsFiniteSet(K) /\ Cardinality(K) \in Nat
  <2>1. IsFiniteSet(1 .. N)
    BY FS_Interval
  <2>2. IsFiniteSet(K)
    BY <2>1, FS_Subset
  <2>. QED
    BY <2>2, FS_CardinalityType
<1>2. \A m \in Nat : IsFiniteSet(UpTo(m)) /\ Count(m) \in Nat
  BY <1>1, FS_Subset, FS_CardinalityType
<1>3. Count(0) = 0
  <2>0. \A j \in K : ~(j <= 0)
    BY <1>0
  <2>1. UpTo(0) = {}
    BY <2>0
  <2>. QED
    BY <2>1, FS_EmptySet
<1>4. Count(N) = Cardinality(K)
  <2>1. UpTo(N) = K
    BY <1>0
  <2>. QED
    BY <2>1
<1>5. ASSUME NEW m \in Nat, m + 1 \in K PROVE Count(m + 1) = Count(m) + 1
  <2>0. \A j \in K : j <= m + 1 <=> (j <= m \/ j = m + 1)
    <3>. SUFFICES ASSUME NEW j \in K PROVE j <= m + 1 <=> (j <= m \/ j = m + 1)
      OBVIOUS
    <3>. QED
      BY <1>0
  <2>1. UpTo(m + 1) = UpTo(m) \cup {m + 1}
    <3>1. \A j : j \in UpTo(m + 1) <=> j \in UpTo(m) \/ j = m + 1
      BY <1>5, <2>0
    <3>. QED
      BY <3>1
  <2>2. m + 1 \notin UpTo(m)
    OBVIOUS
  <2>. HIDE DEF UpTo
  <2>. QED
    BY <1>2, <2>1, <2>2, FS_AddElement
<1>6. ASSUME NEW m \in Nat, m + 1 \notin K PROVE Count(m + 1) = Count(m)
  <2>0. \A j \in K : j <= m + 1 <=> j <= m
    <3>. SUFFICES ASSUME NEW j \in K PROVE j <= m + 1 <=> j <= m
      OBVIOUS
    <3>. QED
      BY <1>0, <1>6
  <2>1. UpTo(m + 1) = UpTo(m)
    BY <2>0
  <2>. QED
    BY <2>1
<1>7. ASSUME NEW n \in 1 .. Cardinality(K)
      PROVE  \E k \in K : Count(k) = n
  <2>. DEFINE Enough == {m \in Nat : Count(m) >= n}
  <2>1. Enough \in SUBSET Nat /\ N \in Enough
    BY <1>1, <1>4
  <2>2. Min(Enough) \in Enough /\ \A m \in Enough : Min(Enough) <= m
    <3>. HIDE DEF Enough
    <3>. QED
      BY <2>1, LeastNumber
  <2>. DEFINE k == Min(Enough)
  <2>. HIDE DEF UpTo, Count
  <2>3. k \in Nat /\ Count(k) >= n /\ k # 0
    BY <1>1, <1>3, <2>2
  <2>4. k - 1 \in Nat /\ (k - 1) + 1 = k /\ k - 1 \notin Enough
    BY <2>2, <2>3
  <2>. HIDE DEF k
  <2>5. Count(k - 1) < n
    BY <1>1, <1>2, <2>4
  <2>6. k \in K
    BY <1>1, <1>2, <1>6, <2>3, <2>4, <2>5
  <2>7. Count(k) = Count(k - 1) + 1
    BY <1>5, <2>4, <2>6
  <2>8. Count(k) = n
    BY <1>1, <1>2, <2>3, <2>4, <2>5, <2>7
  <2>. QED
    BY <2>6, <2>8
<1>. QED
  BY <1>1, <1>7

\* The rank of a position is one of the numbers that the positions have, and no
\* two have the same.
LEMMA RankOfPosition ==
  ASSUME NEW N \in Nat, NEW K \in SUBSET (1 .. N), NEW k \in K
  PROVE  /\ Cardinality({j \in K : j <= k}) \in 1 .. Cardinality(K)
         /\ \A m \in K :
              Cardinality({j \in K : j <= m}) = Cardinality({j \in K : j <= k}) => m = k
<1>. DEFINE UpTo(m) == {j \in K : j <= m}
<1>0. \A j \in K : j \in Nat
  OBVIOUS
<1>1. IsFiniteSet(K)
  <2>1. IsFiniteSet(1 .. N)
    BY FS_Interval
  <2>. QED
    BY <2>1, FS_Subset
<1>2. \A m : UpTo(m) \in SUBSET K
  OBVIOUS
<1>3. \A m : IsFiniteSet(UpTo(m)) /\ Cardinality(UpTo(m)) \in Nat
             /\ Cardinality(UpTo(m)) <= Cardinality(K)
  BY <1>1, <1>2, FS_Subset, FS_CardinalityType
<1>4. k \in UpTo(k)
  BY <1>0
<1>5. Cardinality(UpTo(k)) # 0
  BY <1>3, <1>4, FS_EmptySet
<1>6. ASSUME NEW l \in K, NEW m \in K, l < m PROVE Cardinality(UpTo(l)) # Cardinality(UpTo(m))
  <2>0. l \in Nat /\ m \in Nat /\ l <= m
    BY <1>0, <1>6
  <2>1. UpTo(l) \in SUBSET UpTo(m)
    <3>1. \A j \in K : j <= l => j <= m
      <4>. SUFFICES ASSUME NEW j \in K, j <= l PROVE j <= m
        OBVIOUS
      <4>. QED
        BY <1>0, <2>0
    <3>. QED
      BY <3>1
  <2>2. m \in UpTo(m) /\ m \notin UpTo(l)
    BY <1>0, <1>6
  <2>3. UpTo(l) # UpTo(m)
    BY <2>2
  <2>. HIDE DEF UpTo
  <2>. QED
    BY <1>3, <2>1, <2>3, FS_Subset
<1>7. \A m \in K : m = k \/ m < k \/ k < m
  BY <1>0
<1>8. Cardinality(UpTo(k)) \in 1 .. Cardinality(K)
  <2>1. Cardinality(K) \in Nat
    BY <1>1, FS_CardinalityType
  <2>. HIDE DEF UpTo
  <2>. QED
    BY <1>3, <1>5, <2>1
<1>9. \A m \in K : Cardinality(UpTo(m)) = Cardinality(UpTo(k)) => m = k
  <2>. HIDE DEF UpTo
  <2>. QED
    BY <1>6, <1>7
<1>. QED
  BY <1>8, <1>9

\* A concatenation holds what its parts hold.
LEMMA ElementsOfConcat ==
  ASSUME NEW S, NEW s \in Seq(S), NEW t \in Seq(S)
  PROVE  s \o t \in Seq(S) /\ ToSet(s \o t) = ToSet(s) \cup ToSet(t)
<1>1. /\ s \o t \in Seq(S) /\ Len(s \o t) = Len(s) + Len(t)
      /\ \A i \in 1 .. Len(s) + Len(t) :
           (s \o t)[i] = IF i <= Len(s) THEN s[i] ELSE t[i - Len(s)]
  BY ConcatProperties
<1>2. /\ Len(s) \in Nat /\ DOMAIN s = 1 .. Len(s)
      /\ Len(t) \in Nat /\ DOMAIN t = 1 .. Len(t)
  OBVIOUS
<1>. DEFINE u == s \o t
<1>3. DOMAIN u = 1 .. Len(s) + Len(t)
  <2>1. DOMAIN u = 1 .. Len(u)
    BY <1>1, LenProperties
  <2>. QED
    BY <1>1, <2>1
<1>. HIDE DEF u
<1>4. ASSUME NEW i \in DOMAIN u PROVE u[i] \in ToSet(s) \cup ToSet(t)
  <2>1. CASE i <= Len(s)
    <3>1. i \in DOMAIN s /\ u[i] = s[i]
      BY <1>1, <1>2, <1>3, <2>1 DEF u
    <3>. QED
      BY <3>1 DEF ToSet
  <2>2. CASE i > Len(s)
    <3>1. i - Len(s) \in DOMAIN t /\ u[i] = t[i - Len(s)]
      BY <1>1, <1>2, <1>3, <2>2 DEF u
    <3>. QED
      BY <3>1 DEF ToSet
  <2>. QED
    BY <1>2, <1>3, <2>1, <2>2
<1>5. ASSUME NEW i \in DOMAIN s PROVE s[i] \in ToSet(u)
  <2>1. i \in DOMAIN u /\ u[i] = s[i]
    BY <1>1, <1>2, <1>3 DEF u
  <2>. QED
    BY <2>1 DEF ToSet
<1>6. ASSUME NEW i \in DOMAIN t PROVE t[i] \in ToSet(u)
  <2>1. i + Len(s) \in DOMAIN u /\ u[i + Len(s)] = t[i]
    BY <1>1, <1>2, <1>3 DEF u
  <2>. QED
    BY <2>1 DEF ToSet
<1>7. ToSet(u) = ToSet(s) \cup ToSet(t)
  BY <1>4, <1>5, <1>6 DEF ToSet
<1>. QED
  BY <1>1, <1>7 DEF u

\* RemoveFirst() closes the gap that the first occurrence leaves.
LEMMA RemoveFirstElement ==
  ASSUME NEW S, NEW s \in Seq(S), NEW e, \E n \in DOMAIN s : s[n] = e
  PROVE  \E n \in DOMAIN s :
           /\ s[n] = e
           /\ \A m \in 1 .. n - 1 : s[m] # e
           /\ RemoveFirst(s, e) = [m \in 1 .. Len(s) - 1 |-> IF m < n THEN s[m] ELSE s[m + 1]]
<1>. DEFINE I == {i \in 1 .. Len(s) : s[i] = e}
            n == Min(I)
            closed == [m \in 1 .. Len(s) - 1 |-> IF m < n THEN s[m] ELSE s[m + 1]]
<1>1. n \in I /\ \A m \in I : n <= m
  <2>1. I \in SUBSET Nat /\ I # {}
    OBVIOUS
  <2>. HIDE DEF I
  <2>. QED
    BY <2>1, LeastNumber
<1>2. RemoveFirst(s, e) = RemoveAt(s, n)
  BY <1>1 DEF RemoveFirst, SelectInSeq
<1>3. n \in 1 .. Len(s) /\ s[n] = e
  BY <1>1
<1>4. \A m \in 1 .. n - 1 : s[m] # e
  BY <1>1, <1>3
<1>. HIDE DEF I, n
<1>5. RemoveAt(s, n) = closed
  <2>. DEFINE front == SubSeq(s, 1, n - 1)
              back == SubSeq(s, n + 1, Len(s))
  <2>0. n \in Nat /\ Len(s) \in Nat /\ 1 <= n /\ n <= Len(s)
    BY <1>3
  <2>1. /\ front \in Seq(S) /\ Len(front) = n - 1
        /\ \A m \in 1 .. n - 1 : front[m] = s[m]
    BY <1>3
  <2>2. /\ back \in Seq(S) /\ Len(back) = Len(s) - n
        /\ \A m \in 1 .. Len(s) - n : back[m] = s[n + m]
    BY <1>3
  <2>. HIDE DEF front, back
  <2>3. /\ front \o back \in Seq(S)
        /\ Len(front \o back) = Len(front) + Len(back)
        /\ \A m \in 1 .. Len(front) + Len(back) :
             (front \o back)[m] = IF m <= Len(front) THEN front[m] ELSE back[m - Len(front)]
    BY <2>1, <2>2, ConcatProperties
  <2>4. ASSUME NEW m \in 1 .. Len(s) - 1 PROVE (front \o back)[m] = closed[m]
    <3>1. (front \o back)[m] = IF m <= n - 1 THEN front[m] ELSE back[m - (n - 1)]
      BY <2>0, <2>1, <2>2, <2>3
    <3>2. CASE m < n
      BY <2>0, <2>1, <3>1, <3>2
    <3>3. CASE m >= n
      <4>1. back[m - (n - 1)] = s[m + 1]
        BY <2>0, <2>2, <3>3
      <4>. QED
        BY <2>0, <3>1, <3>3, <4>1
    <3>4. m < n \/ m >= n
      BY <2>0
    <3>. HIDE DEF closed
    <3>. QED
      BY <3>2, <3>3, <3>4
  <2>5. closed \in Seq(S) /\ Len(closed) = Len(s) - 1
    BY <1>3
  <2>. HIDE DEF closed
  <2>6. front \o back = closed
    <3>1. Len(front \o back) = Len(s) - 1
      BY <2>0, <2>1, <2>2, <2>3
    <3>. QED
      BY <2>3, <2>4, <2>5, <3>1, SeqEqual
  <2>. QED
    BY <2>6 DEF RemoveAt, front, back
<1>. QED
  BY <1>2, <1>3, <1>4, <1>5

\* Removing an element keeps the others, in their order and as often as before.
LEMMA RemoveFirstProperties ==
  ASSUME NEW S, NEW s \in Seq(S), NEW e, \E n \in DOMAIN s : s[n] = e
  PROVE  LET t == RemoveFirst(s, e)
         IN /\ t \in Seq(S) /\ Len(t) = Len(s) - 1
            /\ s[1] # e => t # <<>> /\ t[1] = s[1]
            /\ \A m \in DOMAIN t : \E n \in DOMAIN s : t[m] = s[n]
            /\ \A n \in DOMAIN s : s[n] # e => \E m \in DOMAIN t : t[m] = s[n]
            /\ (\A m, n \in DOMAIN s : s[m] = s[n] => m = n)
                 => /\ \A m, n \in DOMAIN t : t[m] = t[n] => m = n
                    /\ \A m \in DOMAIN t : t[m] # e
<1>. DEFINE t == RemoveFirst(s, e)
<1>1. PICK g \in DOMAIN s :
        /\ s[g] = e
        /\ t = [m \in 1 .. Len(s) - 1 |-> IF m < g THEN s[m] ELSE s[m + 1]]
  BY RemoveFirstElement
<1>. DEFINE old(m) == IF m < g THEN m ELSE m + 1
<1>2. g \in Nat /\ Len(s) \in Nat /\ 1 <= g /\ g <= Len(s)
  BY <1>1
<1>3. DOMAIN t = 1 .. Len(s) - 1 /\ DOMAIN s = 1 .. Len(s)
  BY <1>1
<1>4. \A m \in DOMAIN t : old(m) \in DOMAIN s /\ t[m] = s[old(m)]
  BY <1>1, <1>2, <1>3
<1>5. t \in Seq(S)
  <2>1. \A m \in 1 .. Len(s) - 1 : t[m] \in S
    BY <1>3, <1>4
  <2>2. t \in [1 .. Len(s) - 1 -> S]
    BY <1>1, <2>1
  <2>. QED
    BY <1>2, <2>2
<1>6. ASSUME NEW n \in DOMAIN s, s[n] # e
      PROVE  \E m \in DOMAIN t : t[m] = s[n]
  <2>1. CASE n < g
    <3>1. n \in DOMAIN t /\ old(n) = n
      BY <1>2, <1>3, <2>1
    <3>. QED
      BY <1>4, <3>1
  <2>2. CASE n > g
    <3>1. n - 1 \in DOMAIN t /\ old(n - 1) = n
      BY <1>2, <1>3, <2>2
    <3>. QED
      BY <1>4, <3>1
  <2>. QED
    BY <1>1, <1>2, <1>3, <1>6, <2>1, <2>2
<1>7. ASSUME \A m, n \in DOMAIN s : s[m] = s[n] => m = n, NEW m \in DOMAIN t, NEW n \in DOMAIN t, t[m] = t[n]
      PROVE  m = n
  <2>1. old(m) = old(n)
    BY <1>4, <1>7
  <2>. QED
    BY <1>2, <1>3, <2>1
<1>8. ASSUME \A m, n \in DOMAIN s : s[m] = s[n] => m = n, NEW m \in DOMAIN t
      PROVE  t[m] # e
  <2>1. old(m) # g
    BY <1>2, <1>3
  <2>. QED
    BY <1>1, <1>4, <1>8, <2>1
<1>9. Len(t) = Len(s) - 1
  <2>. HIDE DEF t
  <2>1. DOMAIN t = 1 .. Len(t) /\ Len(t) \in Nat
    BY <1>5
  <2>2. ASSUME NEW m \in Nat, NEW n \in Nat, 1 .. m = 1 .. n PROVE m = n
    <3>1. m \in 1 .. m \/ m = 0
      OBVIOUS
    <3>2. n \in 1 .. n \/ n = 0
      OBVIOUS
    <3>. QED
      BY <2>2, <3>1, <3>2
  <2>3. 1 .. Len(t) = 1 .. (Len(s) - 1) /\ Len(s) - 1 \in Nat
    <3>1. 1 .. Len(t) = 1 .. (Len(s) - 1)
      BY <1>3, <2>1, Zenon
    <3>2. Len(s) - 1 \in Nat
      BY <1>2
    <3>. QED
      BY <3>1, <3>2
  <2>. QED
    BY <2>1, <2>2, <2>3
<1>10. ASSUME s[1] # e PROVE t # <<>> /\ t[1] = s[1]
  <2>1. g # 1 /\ 1 \in DOMAIN t /\ old(1) = 1
    BY <1>1, <1>2, <1>3, <1>10
  <2>2. t[1] = s[1]
    BY <1>4, <2>1
  <2>. HIDE DEF t
  <2>. QED
    BY <2>1, <2>2
<1>. QED
  BY <1>4, <1>5, <1>6, <1>7, <1>8, <1>9, <1>10

\* A sequence with an element put in front.
LEMMA PrependProperties ==
  ASSUME NEW S, NEW s \in Seq(S), NEW e \in S
  PROVE  LET t == <<e>> \o s
         IN /\ t \in Seq(S) /\ Len(t) = Len(s) + 1
            /\ DOMAIN t = 1 .. Len(s) + 1
            /\ t[1] = e
            /\ \A n \in DOMAIN s : t[n + 1] = s[n]
            /\ \A m \in DOMAIN t : m # 1 => m - 1 \in DOMAIN s /\ t[m] = s[m - 1]
<1>. DEFINE t == <<e>> \o s
<1>1. <<e>> \in Seq(S) /\ Len(<<e>>) = 1 /\ <<e>>[1] = e
  OBVIOUS
<1>2. /\ t \in Seq(S) /\ Len(t) = 1 + Len(s)
      /\ \A i \in 1 .. 1 + Len(s) : t[i] = IF i <= 1 THEN <<e>>[i] ELSE s[i - 1]
  BY <1>1, ConcatProperties
<1>3. Len(s) \in Nat /\ DOMAIN s = 1 .. Len(s)
  OBVIOUS
<1>4. DOMAIN t = 1 .. Len(s) + 1
  <2>1. DOMAIN t = 1 .. Len(t)
    BY <1>2
  <2>. HIDE DEF t
  <2>. QED
    BY <1>2, <1>3, <2>1
<1>. HIDE DEF t
<1>. QED
  BY <1>1, <1>2, <1>3, <1>4 DEF t
=============================================================================
