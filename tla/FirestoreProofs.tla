--------------------------- MODULE FirestoreProofs ---------------------------
(***************************************************************************)
(* What the components rely on when they hand writes and reads to          *)
(* Firestore and its completion blocks run: facts about its queues, for    *)
(* every set of devices and whatever is queued.  A queue is described by   *)
(* the set Range(q) of what is in it.                                      *)
(***************************************************************************)
EXTENDS Firestore, TLAPS, SequenceTheorems, FiniteSetTheorems, WellFoundedInduction

-----------------------------------------------------------------------------
(* Numbers and sequences.                                                  *)

\* The order of the naturals is well founded, as a set of pairs.
LEMMA LessThanWellFounded ==
    IsWellFoundedOn({ss \in Nat \X Nat : ss[1] < ss[2]}, Nat)
  BY NatLessThanWellFounded DEF OpToRel

\* A nonempty set of naturals has a least element.
LEMMA LeastNat ==
    ASSUME NEW T \in SUBSET Nat, T # {}
    PROVE  \E x \in T : \A y \in T : ~(y < x)
  <1> DEFINE R == {ss \in Nat \X Nat : ss[1] < ss[2]}
  <1>1. PICK x \in T : \A y \in T : ~(<<y, x>> \in R)
    <2> QED BY LessThanWellFounded, WFMin
  <1>2. ASSUME NEW y \in T PROVE ~(y < x)
    <2>1. ~(<<y, x>> \in R)
      BY <1>1
    <2> QED BY <2>1
  <1> QED BY <1>2

\* The last of a nonempty set of indices, which View looks for, is one of them.
LEMMA LastIndex ==
    ASSUME NEW n \in Nat, NEW S \in SUBSET (1..n), S # {}
    PROVE  Max(S) \in S /\ \A i \in S : i <= Max(S)
  <1> DEFINE T == {n - i : i \in S}
  <1>1. T \in SUBSET Nat
    OBVIOUS
  <1>2. T # {}
    <2>1. PICK i \in S : TRUE
      OBVIOUS
    <2>2. n - i \in T
      OBVIOUS
    <2> QED BY <2>2
  <1>3. PICK x \in T : \A y \in T : ~(y < x)
    <2> HIDE DEF T
    <2> QED BY <1>1, <1>2, LeastNat
  <1>4. PICK i \in S : x = n - i
    OBVIOUS
  <1>5. ASSUME NEW j \in S PROVE i >= j
    <2>1. n - j \in T
      OBVIOUS
    <2>2. ~(n - j < n - i)
      BY <2>1, <1>3, <1>4
    <2> QED BY <2>2
  <1> QED BY <1>5 DEF Max

\* The elements of a sequence at its head and in its tail.
LEMMA RangeOfTail ==
    ASSUME NEW S, NEW s \in Seq(S), s # <<>>
    PROVE  /\ Head(s) \in S /\ Tail(s) \in Seq(S)
           /\ Range(s) = {Head(s)} \cup Range(Tail(s))
  <1>1. Len(s) \in Nat /\ Len(s) > 0 /\ DOMAIN s = 1..Len(s)
    BY EmptySeq
  <1>2. /\ Tail(s) \in Seq(S) /\ Len(Tail(s)) = Len(s) - 1
        /\ \A i \in 1..Len(Tail(s)) : Tail(s)[i] = s[i + 1]
    BY HeadTailProperties
  <1>3. DOMAIN Tail(s) = 1..(Len(s) - 1)
    BY <1>2
  <1>4. Head(s) = s[1] /\ 1 \in DOMAIN s
    BY <1>1
  <1>5. ASSUME NEW x \in Range(s) PROVE x \in {Head(s)} \cup Range(Tail(s))
    <2>1. PICK i \in DOMAIN s : x = s[i]
      BY DEF Range
    <2>2. CASE i = 1
      BY <2>1, <2>2, <1>4
    <2>3. CASE i # 1
      <3>1. i - 1 \in DOMAIN Tail(s)
        BY <2>3, <1>1, <1>3
      <3>2. Tail(s)[i - 1] = x
        BY <3>1, <2>1, <1>1, <1>2, <1>3
      <3> QED BY <3>1, <3>2 DEF Range
    <2> QED BY <2>2, <2>3
  <1>6. ASSUME NEW x \in Range(Tail(s)) PROVE x \in Range(s)
    <2>1. PICK i \in DOMAIN Tail(s) : x = Tail(s)[i]
      BY DEF Range
    <2>2. i + 1 \in DOMAIN s /\ x = s[i + 1]
      BY <2>1, <1>1, <1>2, <1>3
    <2> QED BY <2>2 DEF Range
  <1>7. Head(s) \in Range(s)
    BY <1>4 DEF Range
  <1> QED BY <1>2, <1>5, <1>6, <1>7, HeadTailProperties

\* Adding one element, or several, at the end.
LEMMA RangeOfAppend ==
    ASSUME NEW S, NEW s \in Seq(S), NEW x \in S
    PROVE  Append(s, x) \in Seq(S) /\ Range(Append(s, x)) = Range(s) \cup {x}
  <1>1. Append(s, x) = s \o <<x>>
    BY AppendIsConcat
  <1>2. <<x>> \in Seq(S) /\ Range(<<x>>) = {x}
    BY DEF Range
  <1>3. Range(s \o <<x>>) = Range(s) \cup Range(<<x>>)
    BY <1>2, RangeConcatenation, Zenon
  <1>4. s \o <<x>> \in Seq(S)
    BY <1>2, ConcatProperties
  <1> QED BY <1>1, <1>2, <1>3, <1>4, Zenon

LEMMA RangeOfEmpty == Range(<<>>) = {}
  BY DEF Range

LEMMA RangeOfOne ==
    ASSUME NEW x
    PROVE  Range(<<x>>) = {x}
  BY DEF Range

\* Taking one element out.
LEMMA RangeOfRemoveAt ==
    ASSUME NEW S, NEW s \in Seq(S), NEW k \in DOMAIN s
    PROVE  /\ s[k] \in S /\ RemoveAt(s, k) \in Seq(S)
           /\ Range(s) = {s[k]} \cup Range(RemoveAt(s, k))
           /\ Len(RemoveAt(s, k)) = Len(s) - 1
  <1> DEFINE n == Len(s)
             a == SubSeq(s, 1, k - 1)
             b == SubSeq(s, k + 1, n)
  <1>1. n \in Nat /\ DOMAIN s = 1..n /\ k \in 1..n
    OBVIOUS
  <1>2. \A i \in 1..n : s[i] \in S
    OBVIOUS
  <1>3. /\ a \in Seq(S) /\ Len(a) = k - 1
        /\ \A i \in 1..(k - 1) : a[i] = s[i]
    <2>1. \A i \in 1..(k - 1) : s[i] \in S
      BY <1>1, <1>2
    <2>2. /\ a \in Seq(S)
          /\ Len(a) = IF 1 <= k - 1 THEN (k - 1) - 1 + 1 ELSE 0
          /\ \A i \in 1..((k - 1) - 1 + 1) : a[i] = s[1 + i - 1]
      BY <2>1, <1>1, SubSeqProperties
    <2> HIDE DEF a
    <2> QED BY <2>2, <1>1
  <1>4. /\ b \in Seq(S) /\ Len(b) = n - k
        /\ \A i \in 1..(n - k) : b[i] = s[k + i]
    <2>1. \A i \in (k + 1)..n : s[i] \in S
      BY <1>1, <1>2
    <2>2. /\ b \in Seq(S)
          /\ Len(b) = IF k + 1 <= n THEN n - (k + 1) + 1 ELSE 0
          /\ \A i \in 1..(n - (k + 1) + 1) : b[i] = s[(k + 1) + i - 1]
      <3>1. k + 1 \in Int /\ n \in Int
        BY <1>1
      <3> HIDE DEF n
      <3> QED BY <2>1, <3>1, SubSeqProperties
    <2> HIDE DEF b, n
    <2>3. Len(b) = n - k
      BY <2>2, <1>1
    <2>4. ASSUME NEW i \in 1..(n - k) PROVE b[i] = s[k + i]
      <3>1. i \in 1..(n - (k + 1) + 1) /\ (k + 1) + i - 1 = k + i
        BY <1>1
      <3> QED BY <3>1, <2>2
    <2> QED BY <2>2, <2>3, <2>4
  <1>5. RemoveAt(s, k) = a \o b
    BY DEF RemoveAt
  <1>6. RemoveAt(s, k) \in Seq(S) /\ Range(RemoveAt(s, k)) = Range(a) \cup Range(b)
    <2> HIDE DEF a, b
    <2> QED BY <1>3, <1>4, <1>5, RangeConcatenation, ConcatProperties
  <1>7. ASSUME NEW x \in Range(s) PROVE x \in {s[k]} \cup Range(a) \cup Range(b)
    <2>1. PICK i \in 1..n : x = s[i]
      BY <1>1 DEF Range
    <2> HIDE DEF n, a, b
    <2>2. CASE i < k
      <3>1. i \in 1..(k - 1) /\ DOMAIN a = 1..(k - 1)
        BY <2>2, <1>1, <1>3
      <3> QED BY <3>1, <2>1, <1>3 DEF Range
    <2>3. CASE i = k
      BY <2>1, <2>3
    <2>4. CASE i > k
      <3>1. i - k \in 1..(n - k) /\ DOMAIN b = 1..(n - k)
        BY <2>4, <1>1, <1>4
      <3>2. b[i - k] = s[k + (i - k)] /\ k + (i - k) = i
        BY <3>1, <1>1, <1>4
      <3> QED BY <3>1, <3>2, <2>1 DEF Range
    <2> QED BY <2>2, <2>3, <2>4, <1>1
  <1>8. ASSUME NEW x \in Range(a) \cup Range(b) PROVE x \in Range(s)
    <2> HIDE DEF n, a, b
    <2>1. CASE x \in Range(a)
      <3>1. PICK i \in DOMAIN a : x = a[i]
        BY <2>1 DEF Range
      <3>2. i \in 1..(k - 1)
        BY <1>1, <1>3
      <3>3. i \in 1..n /\ x = s[i]
        BY <3>1, <3>2, <1>1, <1>3
      <3> QED BY <3>3, <1>1 DEF Range
    <2>2. CASE x \in Range(b)
      <3>1. PICK i \in DOMAIN b : x = b[i]
        BY <2>2 DEF Range
      <3>2. i \in 1..(n - k)
        BY <1>1, <1>4
      <3>3. k + i \in 1..n /\ x = s[k + i]
        BY <3>1, <3>2, <1>1, <1>4
      <3> QED BY <3>3, <1>1 DEF Range
    <2> QED BY <2>1, <2>2
  <1>9. s[k] \in Range(s)
    BY <1>1 DEF Range
  <1>10. Len(RemoveAt(s, k)) = n - 1
    <2>1. Len(a \o b) = Len(a) + Len(b)
      <3> HIDE DEF a, b
      <3> QED BY <1>3, <1>4, ConcatProperties
    <2>2. Len(RemoveAt(s, k)) = (k - 1) + (n - k)
      <3> HIDE DEF a, b, n
      <3> QED BY <2>1, <1>3, <1>4, <1>5
    <2>3. n \in Int /\ k \in Int
      BY <1>1
    <2> HIDE DEF n
    <2>4. (k - 1) + (n - k) = n - 1
      BY <2>3
    <2> QED BY <2>2, <2>4
  <1> HIDE DEF a, b
  <1> QED BY <1>1, <1>2, <1>6, <1>7, <1>8, <1>9, <1>10

\* s lists the numbers in S from the greatest to the least.
Falling(s, S) ==
    s \in [1..Cardinality(S) -> S] /\ \A i, j \in 1..Cardinality(S) : i < j => s[i] > s[j]

\* Numbers up to a bound can be listed so.
LEMMA FallingExists ==
    ASSUME NEW n \in Nat, NEW S \in SUBSET (1..n)
    PROVE  \E s : Falling(s, S)
  <1> DEFINE T == {m \in Nat : \E U \in SUBSET (1..m) : ~\E s : Falling(s, U)}
  <1>1. ASSUME T # {} PROVE FALSE
    <2>1. PICK m \in T : \A y \in T : ~(y < m)
      <3>1. T \in SUBSET Nat
        OBVIOUS
      <3> HIDE DEF T
      <3> QED BY <3>1, <1>1, LeastNat
    <2>2. m \in Nat
      OBVIOUS
    <2>3. PICK U \in SUBSET (1..m) : ~\E s : Falling(s, U)
      OBVIOUS
    <2>4. IsFiniteSet(U) /\ Cardinality(U) \in Nat
      <3>1. IsFiniteSet(1..m)
        BY <2>2, FS_Interval
      <3>2. IsFiniteSet(U)
        BY <3>1, FS_Subset
      <3> QED BY <3>2, FS_CardinalityType
    <2>5. CASE m = 0
      <3>1. U = {}
        BY <2>5
      <3>2. Cardinality(U) = 0
        BY <3>1, FS_EmptySet
      <3>3. Falling([i \in 1..0 |-> i], U)
        BY <3>1, <3>2 DEF Falling
      <3> QED BY <3>3, <2>3
    <2>6. CASE m # 0
      <3>1. m - 1 \in Nat /\ m - 1 < m
        BY <2>2, <2>6
      <3>2. m - 1 \notin T
        BY <2>1, <3>1
      <3>3. \A V \in SUBSET (1..(m - 1)) : \E s : Falling(s, V)
        BY <3>1, <3>2
      <3>4. m \in U
        <4>1. m \notin U => U \in SUBSET (1..(m - 1))
          BY <2>2
        <4> HIDE DEF T
        <4> QED BY <4>1, <3>3, <2>3
      <3>5. PICK V : V = U \ {m}
        OBVIOUS
      <3>6. V \in SUBSET (1..(m - 1)) /\ V \subseteq U
        BY <3>5, <2>2
      <3>7. Cardinality(V) = Cardinality(U) - 1
        BY <3>4, <3>5, <2>4, FS_RemoveElement
      <3>8. PICK s : Falling(s, V)
        BY <3>3, <3>6
      <3>9. PICK k : k = Cardinality(U)
        OBVIOUS
      <3>10. /\ k \in Nat /\ s \in [1..(k - 1) -> V]
             /\ \A i, j \in 1..(k - 1) : i < j => s[i] > s[j]
        BY <3>7, <3>8, <3>9, <2>4 DEF Falling
      <3> DEFINE t == [i \in 1..k |-> IF i = 1 THEN m ELSE s[i - 1]]
      <3> HIDE DEF T
      <3>11. \A i \in 1..k : i # 1 => i - 1 \in 1..(k - 1) /\ s[i - 1] \in V
        BY <3>10
      <3>12. t \in [1..k -> U]
        BY <3>4, <3>6, <3>11
      <3>13. ASSUME NEW i \in 1..k, NEW j \in 1..k, i < j PROVE t[i] > t[j]
        <4>1. t[j] = s[j - 1] /\ s[j - 1] \in V /\ j - 1 \in 1..(k - 1)
          BY <3>11, <3>13, <3>10
        <4>2. CASE i = 1
          <5>1. t[i] = m
            BY <4>2
          <5>2. PICK v \in V : v = s[j - 1]
            BY <4>1
          <5>3. v \in Nat /\ v < m
            BY <3>6, <2>2
          <5> QED BY <5>1, <5>2, <5>3, <4>1, <2>2
        <4>3. CASE i # 1
          <5>1. t[i] = s[i - 1] /\ i - 1 \in 1..(k - 1) /\ i - 1 < j - 1
            BY <4>3, <3>11, <3>13, <3>10
          <5> QED BY <5>1, <4>1, <3>10
        <4> QED BY <4>2, <4>3
      <3> HIDE DEF t
      <3>14. Falling(t, U)
        BY <3>9, <3>12, <3>13 DEF Falling
      <3> QED BY <3>14, <2>3
    <2> QED BY <2>5, <2>6
  <1>2. n \notin T
    BY <1>1
  <1> QED BY <1>2

\* A list of numbers in order is a sequence without repetition.
LEMMA FallingIsSeq ==
    ASSUME NEW n \in Nat, NEW S \in SUBSET (1..n), NEW s, Falling(s, S)
    PROVE  s \in Seq(S) /\ IsInjective(s)
  <1>1. Cardinality(S) \in Nat
    <2>1. IsFiniteSet(1..n)
      BY FS_Interval
    <2>2. IsFiniteSet(S)
      BY <2>1, FS_Subset
    <2> QED BY <2>2, FS_CardinalityType
  <1>2. PICK k \in Nat : k = Cardinality(S)
    BY <1>1
  <1>3. s \in [1..k -> S] /\ \A i, j \in 1..k : i < j => s[i] > s[j]
    BY <1>2 DEF Falling
  <1>4. s \in Seq(S)
    BY <1>3
  <1>5. \A i \in 1..k : s[i] \in Nat
    <2>1. S \subseteq Nat
      OBVIOUS
    <2> QED BY <2>1, <1>3
  <1>6. IsInjective(s)
    <2> SUFFICES ASSUME NEW i \in 1..k, NEW j \in 1..k, s[i] = s[j] PROVE i = j
      BY <1>3 DEF IsInjective
    <2>1. ~(i < j) /\ ~(j < i)
      BY <1>3, <1>5
    <2> QED BY <2>1
  <1> QED BY <1>4, <1>6

\* The same from the least to the greatest.
Rising(s, S) ==
    s \in [1..Cardinality(S) -> S] /\ \A i, j \in 1..Cardinality(S) : i < j => s[i] < s[j]

LEMMA RisingExists ==
    ASSUME NEW n \in Nat, NEW S \in SUBSET (1..n)
    PROVE  \E s : Rising(s, S)
  <1>1. Cardinality(S) \in Nat
    <2>1. IsFiniteSet(1..n)
      BY FS_Interval
    <2>2. IsFiniteSet(S)
      BY <2>1, FS_Subset
    <2> QED BY <2>2, FS_CardinalityType
  <1>2. PICK k \in Nat : k = Cardinality(S)
    BY <1>1
  <1>3. PICK s : Falling(s, S)
    BY FallingExists
  <1>4. s \in [1..k -> S] /\ \A i, j \in 1..k : i < j => s[i] > s[j]
    BY <1>2, <1>3 DEF Falling
  <1>5. PICK t : t = [i \in 1..k |-> s[k + 1 - i]]
    OBVIOUS
  <1>6. \A i \in 1..k : k + 1 - i \in 1..k /\ t[i] = s[k + 1 - i]
    BY <1>5
  <1>7. t \in [1..k -> S]
    BY <1>4, <1>5, <1>6
  <1>8. S \subseteq Nat
    OBVIOUS
  <1>9. ASSUME NEW i \in 1..k, NEW j \in 1..k, i < j PROVE t[i] < t[j]
    <2>1. k + 1 - j < k + 1 - i
      BY <1>9
    <2>2. s[k + 1 - j] > s[k + 1 - i] /\ s[k + 1 - j] \in Nat /\ s[k + 1 - i] \in Nat
      BY <2>1, <1>4, <1>6, <1>8
    <2> QED BY <2>2, <1>6
  <1>10. Rising(t, S)
    BY <1>2, <1>7, <1>9 DEF Rising
  <1> QED BY <1>10

LEMMA RisingIsSeq ==
    ASSUME NEW n \in Nat, NEW S \in SUBSET (1..n), NEW s, Rising(s, S)
    PROVE  s \in Seq(S) /\ IsInjective(s)
  <1>1. Cardinality(S) \in Nat
    <2>1. IsFiniteSet(1..n)
      BY FS_Interval
    <2>2. IsFiniteSet(S)
      BY <2>1, FS_Subset
    <2> QED BY <2>2, FS_CardinalityType
  <1>2. PICK k \in Nat : k = Cardinality(S)
    BY <1>1
  <1>3. s \in [1..k -> S] /\ \A i, j \in 1..k : i < j => s[i] < s[j]
    BY <1>2 DEF Rising
  <1>4. s \in Seq(S)
    BY <1>3
  <1>5. \A i \in 1..k : s[i] \in Nat
    <2>1. S \subseteq Nat
      OBVIOUS
    <2> QED BY <2>1, <1>3
  <1>6. IsInjective(s)
    <2> SUFFICES ASSUME NEW i \in 1..k, NEW j \in 1..k, s[i] = s[j] PROVE i = j
      BY <1>3 DEF IsInjective
    <2>1. ~(i < j) /\ ~(j < i)
      BY <1>3, <1>5
    <2> QED BY <2>1
  <1> QED BY <1>4, <1>6

\* Two lists without repetition and with nothing in common.
LEMMA InjectiveConcat ==
    ASSUME NEW S, NEW s \in Seq(S), NEW t \in Seq(S), IsInjective(s), IsInjective(t),
           Range(s) \cap Range(t) = {}
    PROVE  IsInjective(s \o t)
  <1> DEFINE m == Len(s)
             k == Len(t)
             c == s \o t
  <1>1. /\ m \in Nat /\ k \in Nat /\ DOMAIN s = 1..m /\ DOMAIN t = 1..k
        /\ DOMAIN c = 1..(m + k)
        /\ \A i \in 1..(m + k) : c[i] = IF i <= m THEN s[i] ELSE t[i - m]
    BY ConcatProperties
  <1> HIDE DEF m, k, c
  <1>2. \A i \in 1..m, j \in 1..k : s[i] # t[j]
    BY <1>1 DEF Range
  <1> SUFFICES ASSUME NEW i \in 1..(m + k), NEW j \in 1..(m + k), c[i] = c[j] PROVE i = j
    BY <1>1 DEF IsInjective, c
  <1>3. CASE i <= m /\ j <= m
    <2>1. i \in 1..m /\ j \in 1..m /\ s[i] = s[j]
      BY <1>1, <1>3
    <2> QED BY <2>1, <1>1 DEF IsInjective
  <1>4. CASE i > m /\ j > m
    <2>1. i - m \in 1..k /\ j - m \in 1..k /\ t[i - m] = t[j - m]
      BY <1>1, <1>4
    <2>2. i - m = j - m
      BY <2>1, <1>1 DEF IsInjective
    <2> QED BY <2>2, <1>1
  <1>5. CASE i <= m /\ j > m
    <2>1. i \in 1..m /\ j - m \in 1..k /\ s[i] = t[j - m]
      BY <1>1, <1>5
    <2> QED BY <2>1, <1>2
  <1>6. CASE i > m /\ j <= m
    <2>1. j \in 1..m /\ i - m \in 1..k /\ s[j] = t[i - m]
      BY <1>1, <1>6
    <2> QED BY <2>1, <1>2
  <1> QED BY <1>1, <1>3, <1>4, <1>5, <1>6

-----------------------------------------------------------------------------
(* The queues of the devices.                                              *)

QueuesOf(S) == [Devices -> Seq(S)]

\* What is in the queue of a device.
LEMMA InQueue ==
    ASSUME NEW S, NEW f \in QueuesOf(S), NEW d \in Devices
    PROVE  f[d] \in Seq(S) /\ Range(f[d]) \subseteq S
  <1>1. f[d] \in Seq(S)
    BY DEF QueuesOf
  <1> QED BY <1>1, RangeOfSeq

(* The cache.                                                              *)

\* What a device sees at a path is the server's document or comes from one of
\* the writes it has queued there.
LEMMA ViewFrom ==
    ASSUME NEW WS, NEW d \in Devices, queue \in QueuesOf(WS), NEW path
    PROVE  \/ View(d, path) = docs[path]
           \/ \E w \in Range(queue[d]) : path \in w.paths /\ View(d, path) = w.data
  <1> USE DEF QueuesOf
  <1> DEFINE q == queue[d]
             W == {i \in DOMAIN q : path \in q[i].paths}
             S == {i \in W : ~q[i].upd}
             base == IF S = {} THEN docs[path] ELSE q[Max(S)].data
  <1>1. View(d, path) = IF W = {} \/ base = NoDoc THEN base ELSE q[Max(W)].data
    BY DEF View
  <1>2. q \in Seq(WS) /\ Len(q) \in Nat /\ DOMAIN q = 1..Len(q)
    OBVIOUS
  <1>3. W # {} => Max(W) \in W
    <2>1. W \in SUBSET (1..Len(q))
      BY <1>2
    <2> HIDE DEF W, q
    <2> QED BY <2>1, <1>2, LastIndex
  <1>4. S # {} => Max(S) \in S
    <2>1. S \in SUBSET (1..Len(q))
      BY <1>2
    <2> HIDE DEF S, q, W
    <2> QED BY <2>1, <1>2, LastIndex
  <1>5. \A i \in W : q[i] \in Range(q) /\ path \in q[i].paths
    BY DEF Range
  <1>6. S \subseteq W
    OBVIOUS
  <1>7. base = docs[path] \/ \E w \in Range(q) : path \in w.paths /\ base = w.data
    <2>1. CASE S = {}
      BY <2>1
    <2>2. CASE S # {}
      <3>1. base = q[Max(S)].data /\ Max(S) \in W
        BY <2>2, <1>4, <1>6
      <3> HIDE DEF base, S, W
      <3> QED BY <3>1, <1>5
    <2> QED BY <2>1, <2>2
  <1>8. CASE W = {} \/ base = NoDoc
    <2> HIDE DEF base, S, W
    <2> QED BY <1>1, <1>7, <1>8
  <1>9. CASE ~(W = {} \/ base = NoDoc)
    <2> HIDE DEF base, S, W
    <2> QED BY <1>1, <1>3, <1>5, <1>9
  <1> QED BY <1>8, <1>9

\* With neither deletes nor updates queued, a device sees a document where the
\* server has one or a write is queued.
LEMMA ViewOfSets ==
    ASSUME NEW WS, NEW d \in Devices, queue \in QueuesOf(WS), NEW path,
           \A w \in WS : w.data # NoDoc /\ ~w.upd
    PROVE  View(d, path) # NoDoc <=>
             docs[path] # NoDoc \/ \E w \in Range(queue[d]) : path \in w.paths
  <1> USE DEF QueuesOf
  <1> DEFINE q == queue[d]
             W == {i \in DOMAIN q : path \in q[i].paths}
             S == {i \in W : ~q[i].upd}
  <1>1. q \in Seq(WS) /\ Len(q) \in Nat /\ DOMAIN q = 1..Len(q)
    OBVIOUS
  <1>2. \A i \in DOMAIN q : q[i].data # NoDoc /\ ~q[i].upd
    BY <1>1
  <1>3. S = W
    BY <1>2
  <1>4. CASE W = {}
    <2>1. View(d, path) = docs[path]
      BY <1>4, <1>3 DEF View
    <2>2. ~\E w \in Range(queue[d]) : path \in w.paths
      BY <1>4 DEF Range
    <2> QED BY <2>1, <2>2
  <1>5. CASE W # {}
    <2>1. Max(W) \in W
      <3>1. W \in SUBSET (1..Len(q))
        BY <1>1
      <3> HIDE DEF W, q
      <3> QED BY <3>1, <1>1, <1>5, LastIndex
    <2>2. q[Max(W)].data # NoDoc
      <3>1. Max(W) \in DOMAIN q
        BY <2>1
      <3> HIDE DEF W, q
      <3> QED BY <3>1, <1>2
    <2>3. View(d, path) = q[Max(W)].data
      <3>1. View(d, path) =
              LET base == IF S = {} THEN docs[path] ELSE q[Max(S)].data
              IN  IF W = {} \/ base = NoDoc THEN base ELSE q[Max(W)].data
        BY DEF View
      <3> HIDE DEF W, S, q
      <3> QED BY <3>1, <1>3, <1>5, <2>2
    <2>4. \E w \in Range(queue[d]) : path \in w.paths
      <3>1. q[Max(W)] \in Range(q) /\ path \in q[Max(W)].paths
        BY <2>1 DEF Range
      <3> HIDE DEF W
      <3> QED BY <3>1
    <2> HIDE DEF W, q
    <2> QED BY <2>2, <2>3, <2>4
  <1> QED BY <1>4, <1>5

\* Where the server has no document and only deletes and updates are queued, a
\* device sees none.
LEMMA ViewGone ==
    ASSUME NEW WS, NEW d \in Devices, queue \in QueuesOf(WS), NEW path, docs[path] = NoDoc,
           \A w \in Range(queue[d]) : path \in w.paths /\ ~w.upd => w.data = NoDoc
    PROVE  View(d, path) = NoDoc
  <1> USE DEF QueuesOf
  <1> DEFINE q == queue[d]
             W == {i \in DOMAIN q : path \in q[i].paths}
             S == {i \in W : ~q[i].upd}
             base == IF S = {} THEN docs[path] ELSE q[Max(S)].data
  <1>1. View(d, path) = IF W = {} \/ base = NoDoc THEN base ELSE q[Max(W)].data
    BY DEF View
  <1>2. q \in Seq(WS) /\ Len(q) \in Nat /\ DOMAIN q = 1..Len(q)
    OBVIOUS
  <1>3. S # {} => Max(S) \in S
    <2>1. S \in SUBSET (1..Len(q))
      BY <1>2
    <2> HIDE DEF S, q, W
    <2> QED BY <2>1, <1>2, LastIndex
  <1>4. \A i \in S : q[i].data = NoDoc
    BY DEF Range
  <1>5. base = NoDoc
    <2>1. CASE S = {}
      BY <2>1
    <2>2. CASE S # {}
      <3>1. base = q[Max(S)].data
        BY <2>2
      <3> HIDE DEF base, S, W
      <3> QED BY <3>1, <2>2, <1>3, <1>4
    <2> QED BY <2>1, <2>2
  <1> HIDE DEF base, W
  <1> QED BY <1>1, <1>5

-----------------------------------------------------------------------------
(* Writes and reads of single documents, or of one query, are answered.    *)

\* The write w of path leaves the queue of d, and its block joins the main
\* queue with the answer.
Answered(d, done, w, path) ==
    /\ docs' = IF done /\ Accepts(w, path) THEN [docs EXCEPT ![path] = w.data] ELSE docs
    /\ gets' = gets
    /\ \A e \in Devices \ {d} : queue'[e] = queue[e] /\ mainq'[e] = mainq[e]
    /\ Range(queue[d]) = {w} \cup Range(queue'[d])
    /\ Range(mainq'[d]) = Range(mainq[d]) \cup
          (IF w.then = NoThen THEN {} ELSE {[then |-> w.then, res |-> done /\ Accepts(w, path)]})

OneDocument(w) == \E path : w.paths = {path}

\* The answers to w are among the blocks BS.
Tells(w, BS) == w.then # NoThen => \A b \in BOOLEAN : [then |-> w.then, res |-> b] \in BS

LEMMA AnswerOne ==
    ASSUME NEW WS, NEW BS, NEW d \in Devices, NEW done \in BOOLEAN,
           queue \in QueuesOf(WS), mainq \in QueuesOf(BS),
           \A w \in WS : OneDocument(w),
           \A w \in WS : Tells(w, BS),
           Answer(d, done)
    PROVE  /\ queue' \in QueuesOf(WS) /\ mainq' \in QueuesOf(BS)
           /\ \E w \in WS : \E path \in w.paths : w.paths = {path} /\ Answered(d, done, w, path)
  <1> USE DEF QueuesOf
  <1> DEFINE w == Head(queue[d])
  <1>1. queue[d] \in Seq(WS) /\ mainq[d] \in Seq(BS) /\ queue[d] # <<>>
    BY DEF Answer
  <1>2. /\ w \in WS /\ Tail(queue[d]) \in Seq(WS)
        /\ Range(queue[d]) = {w} \cup Range(Tail(queue[d]))
    BY <1>1, RangeOfTail
  <1>3. PICK path \in w.paths :
            /\ docs' = IF done /\ Accepts(w, path) THEN [docs EXCEPT ![path] = w.data] ELSE docs
            /\ queue' = [queue EXCEPT ![d] =
                 IF w.paths = {path} THEN Tail(@)
                 ELSE <<[w EXCEPT !.paths = @ \ {path}]>> \o Tail(@)]
            /\ mainq' = IF w.then = NoThen THEN mainq
                        ELSE [mainq EXCEPT ![d] = Append(@, [then |-> w.then, res |-> done /\ Accepts(w, path)])]
    BY DEF Answer
  <1>4. gets' = gets
    BY DEF Answer
  <1>5. w.paths = {path}
    BY <1>2, <1>3 DEF OneDocument
  <1>6. queue' = [queue EXCEPT ![d] = Tail(@)]
    BY <1>3, <1>5
  <1>7. /\ queue' \in QueuesOf(WS)
        /\ queue'[d] = Tail(queue[d])
        /\ \A e \in Devices \ {d} : queue'[e] = queue[e]
    BY <1>2, <1>6
  <1> DEFINE b == [then |-> w.then, res |-> done /\ Accepts(w, path)]
  <1>8. (done /\ Accepts(w, path)) \in BOOLEAN
    BY DEF Accepts
  <1>9. w.then # NoThen => b \in BS
    <2> HIDE DEF w
    <2> QED BY <1>2, <1>8 DEF Tells
  <1>10. /\ mainq' \in QueuesOf(BS)
         /\ \A e \in Devices \ {d} : mainq'[e] = mainq[e]
         /\ Range(mainq'[d]) = Range(mainq[d]) \cup (IF w.then = NoThen THEN {} ELSE {b})
    <2>1. CASE w.then = NoThen
      BY <1>3, <2>1
    <2>2. CASE w.then # NoThen
      <3>1. mainq' = [mainq EXCEPT ![d] = Append(mainq[d], b)]
        BY <1>3, <2>2
      <3>2. b \in BS
        BY <1>9, <2>2
      <3> HIDE DEF b
      <3>3. Append(mainq[d], b) \in Seq(BS) /\ Range(Append(mainq[d], b)) = Range(mainq[d]) \cup {b}
        BY <1>1, <3>2, RangeOfAppend
      <3>4. mainq'[d] = Append(mainq[d], b)
        BY <3>1
      <3> QED BY <3>1, <3>3, <3>4, <2>2
    <2> QED BY <2>1, <2>2
  <1>11. Answered(d, done, w, path)
    BY <1>2, <1>3, <1>4, <1>7, <1>10 DEF Answered
  <1> HIDE DEF w, b
  <1> QED BY <1>2, <1>5, <1>7, <1>10, <1>11

\* A write of several documents is answered one by one: path leaves the write w at
\* the head of the queue of d.
Trimmed(w, path) == [w EXCEPT !.paths = @ \ {path}]

AnsweredPart(d, done, w, path) ==
    /\ docs' = IF done /\ Accepts(w, path) THEN [docs EXCEPT ![path] = w.data] ELSE docs
    /\ gets' = gets
    /\ \A e \in Devices \ {d} : queue'[e] = queue[e] /\ mainq'[e] = mainq[e]
    /\ Range(queue[d]) = {w} \cup Range(Tail(queue[d]))
    /\ Range(queue'[d]) = Range(Tail(queue[d])) \cup
          (IF w.paths = {path} THEN {} ELSE {Trimmed(w, path)})
    /\ mainq'[d] = IF w.then = NoThen THEN mainq[d]
                   ELSE Append(mainq[d], [then |-> w.then, res |-> done /\ Accepts(w, path)])
    /\ Range(mainq'[d]) = Range(mainq[d]) \cup
          (IF w.then = NoThen THEN {} ELSE {[then |-> w.then, res |-> done /\ Accepts(w, path)]})

LEMMA AnswerPart ==
    ASSUME NEW WS, NEW BS, NEW d \in Devices, NEW done \in BOOLEAN,
           queue \in QueuesOf(WS), mainq \in QueuesOf(BS),
           \A w \in WS : \A path \in w.paths : w.paths # {path} => Trimmed(w, path) \in WS,
           \A w \in WS : Tells(w, BS),
           Answer(d, done)
    PROVE  /\ queue' \in QueuesOf(WS) /\ mainq' \in QueuesOf(BS)
           /\ \E w \in WS : \E path \in w.paths : AnsweredPart(d, done, w, path)
  <1> USE DEF QueuesOf
  <1> DEFINE w == Head(queue[d])
  <1>1. queue[d] \in Seq(WS) /\ mainq[d] \in Seq(BS) /\ queue[d] # <<>>
    BY DEF Answer
  <1>2. /\ w \in WS /\ Tail(queue[d]) \in Seq(WS)
        /\ Range(queue[d]) = {w} \cup Range(Tail(queue[d]))
    BY <1>1, RangeOfTail
  <1>3. PICK path \in w.paths :
            /\ docs' = IF done /\ Accepts(w, path) THEN [docs EXCEPT ![path] = w.data] ELSE docs
            /\ queue' = [queue EXCEPT ![d] =
                 IF w.paths = {path} THEN Tail(@)
                 ELSE <<[w EXCEPT !.paths = @ \ {path}]>> \o Tail(@)]
            /\ mainq' = IF w.then = NoThen THEN mainq
                        ELSE [mainq EXCEPT ![d] = Append(@, [then |-> w.then, res |-> done /\ Accepts(w, path)])]
    BY DEF Answer
  <1>4. gets' = gets
    BY DEF Answer
  <1>5. /\ queue' \in QueuesOf(WS)
        /\ \A e \in Devices \ {d} : queue'[e] = queue[e]
        /\ Range(queue'[d]) = Range(Tail(queue[d])) \cup
              (IF w.paths = {path} THEN {} ELSE {Trimmed(w, path)})
    <2>1. CASE w.paths = {path}
      BY <1>2, <1>3, <2>1
    <2>2. CASE w.paths # {path}
      <3>1. PICK t : t = Trimmed(w, path)
        OBVIOUS
      <3>2. t \in WS
        BY <3>1, <1>2, <2>2
      <3>3. queue' = [queue EXCEPT ![d] = <<t>> \o Tail(queue[d])]
        BY <1>3, <2>2, <3>1 DEF Trimmed
      <3>4. <<t>> \in Seq(WS) /\ Range(<<t>>) = {t}
        BY <3>2, RangeOfOne
      <3>5. /\ <<t>> \o Tail(queue[d]) \in Seq(WS)
            /\ Range(<<t>> \o Tail(queue[d])) = Range(<<t>>) \cup Range(Tail(queue[d]))
        <4>1. PICK r \in Seq(WS) : r = Tail(queue[d])
          BY <1>2
        <4>2. PICK o \in Seq(WS) : o = <<t>>
          BY <3>4
        <4>3. o \o r \in Seq(WS)
          BY ConcatProperties
        <4>4. Range(o \o r) = Range(o) \cup Range(r)
          BY RangeConcatenation
        <4> QED BY <4>1, <4>2, <4>3, <4>4
      <3>6. queue'[d] = <<t>> \o Tail(queue[d])
        BY <3>3
      <3> QED BY <3>1, <3>3, <3>4, <3>5, <3>6, <2>2
    <2> QED BY <2>1, <2>2
  <1> DEFINE b == [then |-> w.then, res |-> done /\ Accepts(w, path)]
  <1>6. (done /\ Accepts(w, path)) \in BOOLEAN
    BY DEF Accepts
  <1>7. w.then # NoThen => b \in BS
    <2> HIDE DEF w
    <2> QED BY <1>2, <1>6 DEF Tells
  <1>8. /\ mainq' \in QueuesOf(BS)
        /\ \A e \in Devices \ {d} : mainq'[e] = mainq[e]
        /\ mainq'[d] = IF w.then = NoThen THEN mainq[d] ELSE Append(mainq[d], b)
        /\ Range(mainq'[d]) = Range(mainq[d]) \cup (IF w.then = NoThen THEN {} ELSE {b})
    <2>1. CASE w.then = NoThen
      BY <1>3, <2>1
    <2>2. CASE w.then # NoThen
      <3>1. mainq' = [mainq EXCEPT ![d] = Append(mainq[d], b)]
        BY <1>3, <2>2
      <3>2. b \in BS
        BY <1>7, <2>2
      <3> HIDE DEF b
      <3>3. Append(mainq[d], b) \in Seq(BS) /\ Range(Append(mainq[d], b)) = Range(mainq[d]) \cup {b}
        BY <1>1, <3>2, RangeOfAppend
      <3>4. mainq'[d] = Append(mainq[d], b)
        BY <3>1
      <3> QED BY <3>1, <3>3, <3>4, <2>2
    <2> QED BY <2>1, <2>2
  <1>9. AnsweredPart(d, done, w, path)
    <2>1. Range(queue[d]) = {w} \cup Range(Tail(queue[d]))
      BY <1>2
    <2>2. docs' = IF done /\ Accepts(w, path) THEN [docs EXCEPT ![path] = w.data] ELSE docs
      BY <1>3
    <2> HIDE DEF w
    <2> QED BY <2>1, <2>2, <1>4, <1>5, <1>8 DEF AnsweredPart, b
  <1> HIDE DEF w, b
  <1> QED BY <1>2, <1>3, <1>5, <1>8, <1>9

\* The read r leaves d; if it was answered, its block joins the main queue with
\* the documents as d sees them.
Resolved(d, r) ==
    /\ docs' = docs /\ queue' = queue
    /\ \A e \in Devices \ {d} : gets'[e] = gets[e] /\ mainq'[e] = mainq[e]
    /\ Range(gets[d]) = {r} \cup Range(gets'[d])
    /\ Range(mainq'[d]) = Range(mainq[d]) \cup
          {[then |-> r.then, res |-> [path \in r.paths |-> View(d, path)]]}

Lost(d, r) ==
    /\ docs' = docs /\ queue' = queue /\ mainq' = mainq
    /\ \A e \in Devices \ {d} : gets'[e] = gets[e]
    /\ Range(gets[d]) = {r} \cup Range(gets'[d])

LEMMA RestOfQuery ==
    ASSUME NEW RS, NEW d \in Devices, gets \in QueuesOf(RS),
           NEW k \in DOMAIN gets[d], ~gets[d][k].each,
           NEW ps \in Part(gets[d][k]), gets' = Rest(d, k, ps)
    PROVE  /\ ps = gets[d][k].paths
           /\ gets[d][k] \in RS
           /\ gets' \in QueuesOf(RS)
           /\ \A e \in Devices \ {d} : gets'[e] = gets[e]
           /\ Range(gets[d]) = {gets[d][k]} \cup Range(gets'[d])
  <1> USE DEF QueuesOf
  <1>1. ps = gets[d][k].paths
    BY DEF Part
  <1>2. gets' = [gets EXCEPT ![d] = RemoveAt(@, k)]
    BY <1>1 DEF Rest
  <1>3. gets[d] \in Seq(RS)
    OBVIOUS
  <1>4. /\ gets[d][k] \in RS /\ RemoveAt(gets[d], k) \in Seq(RS)
        /\ Range(gets[d]) = {gets[d][k]} \cup Range(RemoveAt(gets[d], k))
    BY <1>3, RangeOfRemoveAt
  <1> QED BY <1>1, <1>2, <1>4

LEMMA ResolveOne ==
    ASSUME NEW RS, NEW BS, NEW d \in Devices,
           gets \in QueuesOf(RS), mainq \in QueuesOf(BS),
           \A r \in RS : ~r.each,
           \A r \in RS : [then |-> r.then, res |-> [path \in r.paths |-> View(d, path)]] \in BS,
           NEW k \in DOMAIN gets[d], Resolve(d, k)
    PROVE  /\ gets' \in QueuesOf(RS) /\ mainq' \in QueuesOf(BS)
           /\ \E r \in RS :
                /\ Resolved(d, r)
                /\ mainq'[d] = Append(mainq[d], [then |-> r.then, res |-> [path \in r.paths |-> View(d, path)]])
  <1> USE DEF QueuesOf
  <1> DEFINE r == gets[d][k]
             b == [then |-> r.then, res |-> [path \in r.paths |-> View(d, path)]]
  <1>1. gets[d] \in Seq(RS) /\ mainq[d] \in Seq(BS)
    OBVIOUS
  <1>2. r \in RS
    BY <1>1
  <1>3. PICK ps \in Part(gets[d][k]) :
          /\ mainq' = [mainq EXCEPT ![d] = Append(@,
               [then |-> gets[d][k].then, res |-> [path \in ps |-> View(d, path)]])]
          /\ gets' = Rest(d, k, ps)
    BY DEF Resolve
  <1>4. ~gets[d][k].each
    BY <1>2
  <1>5. /\ ps = r.paths
        /\ gets' \in QueuesOf(RS)
        /\ \A e \in Devices \ {d} : gets'[e] = gets[e]
        /\ Range(gets[d]) = {r} \cup Range(gets'[d])
    BY <1>3, <1>4, RestOfQuery
  <1>6. mainq' = [mainq EXCEPT ![d] = Append(mainq[d], b)]
    BY <1>3, <1>5
  <1>7. b \in BS
    <2> HIDE DEF r
    <2> QED BY <1>2
  <1> HIDE DEF b, r
  <1>8. /\ Append(mainq[d], b) \in Seq(BS)
        /\ Range(Append(mainq[d], b)) = Range(mainq[d]) \cup {b}
    BY <1>1, <1>7, RangeOfAppend
  <1>9. mainq'[d] = Append(mainq[d], b) /\ mainq' \in QueuesOf(BS)
    BY <1>6, <1>8
  <1>10. \A e \in Devices \ {d} : mainq'[e] = mainq[e]
    BY <1>6
  <1>11. docs' = docs /\ queue' = queue
    BY DEF Resolve
  <1>12. Range(mainq'[d]) = Range(mainq[d]) \cup {b}
    BY <1>8, <1>9
  <1>13. Resolved(d, r)
    BY <1>5, <1>10, <1>11, <1>12 DEF Resolved, b
  <1>14. mainq'[d] = Append(mainq[d], [then |-> r.then, res |-> [path \in r.paths |-> View(d, path)]])
    BY <1>9 DEF b
  <1> QED BY <1>2, <1>5, <1>9, <1>13, <1>14

LEMMA LoseOne ==
    ASSUME NEW RS, NEW d \in Devices, gets \in QueuesOf(RS),
           \A r \in RS : ~r.each,
           NEW k \in DOMAIN gets[d], Lose(d, k)
    PROVE  gets' \in QueuesOf(RS) /\ \E r \in RS : Lost(d, r)
  <1> USE DEF QueuesOf
  <1>1. gets[d][k] \in RS /\ ~gets[d][k].each
    <2>1. gets[d] \in Seq(RS)
      OBVIOUS
    <2>2. gets[d][k] \in RS
      BY <2>1
    <2> QED BY <2>2
  <1>2. PICK ps \in Part(gets[d][k]) : gets' = Rest(d, k, ps)
    BY DEF Lose
  <1>3. /\ gets' \in QueuesOf(RS)
        /\ \A e \in Devices \ {d} : gets'[e] = gets[e]
        /\ Range(gets[d]) = {gets[d][k]} \cup Range(gets'[d])
    BY <1>1, <1>2, RestOfQuery
  <1>4. docs' = docs /\ queue' = queue /\ mainq' = mainq
    BY DEF Lose
  <1>5. Lost(d, gets[d][k])
    BY <1>3, <1>4 DEF Lost
  <1> QED BY <1>1, <1>3, <1>5

-----------------------------------------------------------------------------
(* Handlers run.                                                           *)

\* The block b leaves the main queue of d; the writes ws and the reads rs are
\* added.
Taken(d, b, ws, rs) ==
    /\ docs' = docs
    /\ \A e \in Devices \ {d} : queue'[e] = queue[e] /\ gets'[e] = gets[e] /\ mainq'[e] = mainq[e]
    /\ Range(mainq[d]) = {b} \cup Range(mainq'[d])
    /\ Range(queue'[d]) = Range(queue[d]) \cup Range(ws)
    /\ Range(gets'[d]) = Range(gets[d]) \cup Range(rs)

\* What is added to a queue.
LEMMA RangeOfConcat ==
    ASSUME NEW S, NEW s \in Seq(S), NEW t \in Seq(S)
    PROVE  s \o t \in Seq(S) /\ Range(s \o t) = Range(s) \cup Range(t)
  BY ConcatProperties, RangeConcatenation

LEMMA TakeOne ==
    ASSUME NEW WS, NEW RS, NEW BS, NEW d \in Devices,
           queue \in QueuesOf(WS), gets \in QueuesOf(RS),
           mainq \in QueuesOf(BS), mainq[d] # <<>>,
           NEW ws \in Seq(WS), NEW rs \in Seq(RS), Take(d, ws, rs)
    PROVE  /\ queue' \in QueuesOf(WS) /\ gets' \in QueuesOf(RS)
           /\ mainq' \in QueuesOf(BS)
           /\ Head(mainq[d]) \in BS
           /\ Taken(d, Head(mainq[d]), ws, rs)
  <1> USE DEF QueuesOf
  <1>1. /\ queue' \in QueuesOf(WS)
        /\ \A e \in Devices \ {d} : queue'[e] = queue[e]
        /\ Range(queue'[d]) = Range(queue[d]) \cup Range(ws)
    <2>1. queue' = [queue EXCEPT ![d] = queue[d] \o ws]
      BY DEF Take
    <2>2. queue[d] \in Seq(WS)
      OBVIOUS
    <2>3. queue[d] \o ws \in Seq(WS) /\ Range(queue[d] \o ws) = Range(queue[d]) \cup Range(ws)
      BY <2>2, RangeOfConcat
    <2> QED BY <2>1, <2>3
  <1>2. /\ gets' \in QueuesOf(RS)
        /\ \A e \in Devices \ {d} : gets'[e] = gets[e]
        /\ Range(gets'[d]) = Range(gets[d]) \cup Range(rs)
    <2>1. gets' = [gets EXCEPT ![d] = gets[d] \o rs]
      BY DEF Take
    <2>2. gets[d] \in Seq(RS)
      OBVIOUS
    <2>3. gets[d] \o rs \in Seq(RS) /\ Range(gets[d] \o rs) = Range(gets[d]) \cup Range(rs)
      BY <2>2, RangeOfConcat
    <2> QED BY <2>1, <2>3
  <1>3. mainq[d] \in Seq(BS)
    OBVIOUS
  <1>4. /\ Head(mainq[d]) \in BS /\ Tail(mainq[d]) \in Seq(BS)
        /\ Range(mainq[d]) = {Head(mainq[d])} \cup Range(Tail(mainq[d]))
    BY <1>3, RangeOfTail
  <1>5. mainq' = [mainq EXCEPT ![d] = Tail(@)] /\ docs' = docs
    BY DEF Take
  <1>6. /\ mainq' \in QueuesOf(BS) /\ mainq'[d] = Tail(mainq[d])
        /\ \A e \in Devices \ {d} : mainq'[e] = mainq[e]
    BY <1>4, <1>5
  <1> QED BY <1>1, <1>2, <1>4, <1>5, <1>6 DEF Taken

\* A touch handler adds the writes ws and the reads rs.
Issued(d, ws, rs) ==
    /\ docs' = docs /\ mainq' = mainq
    /\ \A e \in Devices \ {d} : queue'[e] = queue[e] /\ gets'[e] = gets[e]
    /\ Range(queue'[d]) = Range(queue[d]) \cup Range(ws)
    /\ Range(gets'[d]) = Range(gets[d]) \cup Range(rs)

LEMMA IssueOne ==
    ASSUME NEW WS, NEW RS, NEW d \in Devices,
           queue \in QueuesOf(WS), gets \in QueuesOf(RS),
           NEW ws \in Seq(WS), NEW rs \in Seq(RS), Issue(d, ws, rs)
    PROVE  /\ queue' \in QueuesOf(WS) /\ gets' \in QueuesOf(RS)
           /\ Issued(d, ws, rs)
  <1> USE DEF QueuesOf
  <1>1. /\ queue' \in QueuesOf(WS)
        /\ \A e \in Devices \ {d} : queue'[e] = queue[e]
        /\ Range(queue'[d]) = Range(queue[d]) \cup Range(ws)
    <2>1. queue' = [queue EXCEPT ![d] = queue[d] \o ws]
      BY DEF Issue
    <2>2. queue[d] \in Seq(WS)
      OBVIOUS
    <2>3. queue[d] \o ws \in Seq(WS) /\ Range(queue[d] \o ws) = Range(queue[d]) \cup Range(ws)
      BY <2>2, RangeOfConcat
    <2> QED BY <2>1, <2>3
  <1>2. /\ gets' \in QueuesOf(RS)
        /\ \A e \in Devices \ {d} : gets'[e] = gets[e]
        /\ Range(gets'[d]) = Range(gets[d]) \cup Range(rs)
    <2>1. gets' = [gets EXCEPT ![d] = gets[d] \o rs]
      BY DEF Issue
    <2>2. gets[d] \in Seq(RS)
      OBVIOUS
    <2>3. gets[d] \o rs \in Seq(RS) /\ Range(gets[d] \o rs) = Range(gets[d]) \cup Range(rs)
      BY <2>2, RangeOfConcat
    <2> QED BY <2>1, <2>3
  <1> QED BY <1>1, <1>2 DEF Issue, Issued

\* The app is killed: the queued writes stay, without their blocks.
Restarted(d, rs) ==
    /\ docs' = docs
    /\ \A e \in Devices \ {d} : queue'[e] = queue[e] /\ gets'[e] = gets[e] /\ mainq'[e] = mainq[e]
    /\ mainq'[d] = <<>> /\ gets'[d] = rs
    /\ Range(queue'[d]) = {[w EXCEPT !.then = NoThen] : w \in Range(queue[d])}

LEMMA RestartOne ==
    ASSUME NEW WS, NEW RS, NEW BS, NEW d \in Devices,
           queue \in QueuesOf(WS), gets \in QueuesOf(RS),
           mainq \in QueuesOf(BS),
           \A w \in WS : [w EXCEPT !.then = NoThen] \in WS,
           NEW rs \in Seq(RS), Restart(d, rs)
    PROVE  /\ queue' \in QueuesOf(WS) /\ gets' \in QueuesOf(RS)
           /\ mainq' \in QueuesOf(BS)
           /\ Restarted(d, rs)
  <1> USE DEF QueuesOf
  <1> DEFINE q == queue[d]
             p == [i \in DOMAIN q |-> [q[i] EXCEPT !.then = NoThen]]
  <1>1. q \in Seq(WS) /\ Len(q) \in Nat /\ DOMAIN q = 1..Len(q)
    OBVIOUS
  <1>2. queue' = [queue EXCEPT ![d] = p]
    BY DEF Restart
  <1>3. \A i \in DOMAIN q : [q[i] EXCEPT !.then = NoThen] \in WS
    BY <1>1
  <1>4. p \in Seq(WS)
    <2>1. \A i \in 1..Len(q) : [q[i] EXCEPT !.then = NoThen] \in WS
      BY <1>1, <1>3
    <2>2. Len(q) \in Nat /\ DOMAIN q = 1..Len(q)
      BY <1>1
    <2>3. p = [i \in DOMAIN q |-> [q[i] EXCEPT !.then = NoThen]]
      OBVIOUS
    <2> HIDE DEF p, q
    <2> QED BY <2>1, <2>2, <2>3, IsASeq
  <1>5. Range(p) = {[w EXCEPT !.then = NoThen] : w \in Range(q)}
    BY DEF Range
  <1>6. queue'[d] = p /\ queue' \in QueuesOf(WS) /\ \A e \in Devices \ {d} : queue'[e] = queue[e]
    BY <1>2, <1>4
  <1>7. /\ gets' = [gets EXCEPT ![d] = rs] /\ mainq' = [mainq EXCEPT ![d] = <<>>]
        /\ docs' = docs
    BY DEF Restart
  <1> HIDE DEF p, q
  <1>8. /\ gets' \in QueuesOf(RS) /\ gets'[d] = rs
        /\ \A e \in Devices \ {d} : gets'[e] = gets[e]
    BY <1>7
  <1>9. /\ mainq' \in QueuesOf(BS) /\ mainq'[d] = <<>>
        /\ \A e \in Devices \ {d} : mainq'[e] = mainq[e]
    BY <1>7
  <1>10. Range(queue'[d]) = {[w EXCEPT !.then = NoThen] : w \in Range(queue[d])}
    BY <1>5, <1>6 DEF q
  <1> QED BY <1>6, <1>7, <1>8, <1>9, <1>10 DEF Restarted

\* Nothing is in an empty queue.
LEMMA QuietRanges ==
    ASSUME NEW d \in Devices, Quiet(d)
    PROVE  Range(queue[d]) = {} /\ Range(gets[d]) = {} /\ Range(mainq[d]) = {}
  BY RangeOfEmpty DEF Quiet
=============================================================================
