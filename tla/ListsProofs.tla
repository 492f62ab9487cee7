---------------------------- MODULE ListsProofs ----------------------------
(* What the list operators of Lists return.                                *)
EXTENDS Lists, FiniteSetTheorems, SequenceTheorems, TLAPS

\* The rank of position i in the set of positions I.
Rank(I, i) == Cardinality({j \in I : j <= i})

\* Ranks grow strictly with the position and hit every number up to the size
\* of the set: the rank is an injection between sets of equal size.
LEMMA RankLemma ==
  ASSUME NEW n \in Nat, NEW I \in SUBSET (1..n)
  PROVE  /\ IsFiniteSet(I)
         /\ Cardinality(I) \in Nat
         /\ \A i \in I : Rank(I, i) \in 1..Cardinality(I)
         /\ \A i, j \in I : i < j => Rank(I, i) < Rank(I, j)
         /\ \A k \in 1..Cardinality(I) : \E i \in I : Rank(I, i) = k
<1> DEFINE Upto(i) == {j \in I : j <= i}
           r == [i \in I |-> Rank(I, i)]
<1>1. IsFiniteSet(1..n)
  BY FS_Interval
<1>2. IsFiniteSet(I) /\ Cardinality(I) \in Nat
  BY <1>1, FS_Subset, FS_CardinalityType, Zenon
<1>3. \A i \in I : IsFiniteSet(Upto(i)) /\ Cardinality(Upto(i)) \in Nat
  <2> TAKE i \in I
  <2>1. Upto(i) \in SUBSET I
    OBVIOUS
  <2> QED
    BY <2>1, <1>2, FS_Subset, FS_CardinalityType
<1>4. \A i \in I : Rank(I, i) \in 1..Cardinality(I)
  <2> TAKE i \in I
  <2>1. Upto(i) \in SUBSET I /\ i \in Upto(i)
    OBVIOUS
  <2>2. Cardinality(Upto(i)) <= Cardinality(I)
    BY <2>1, <1>2, FS_Subset
  <2>3. Cardinality(Upto(i)) # 0
    BY <2>1, <1>3, FS_EmptySet
  <2> QED
    BY <2>2, <2>3, <1>3, <1>2 DEF Rank
<1>5. \A i, j \in I : i < j => Rank(I, i) < Rank(I, j)
  <2> SUFFICES ASSUME NEW i \in I, NEW j \in I, i < j
               PROVE  Rank(I, i) < Rank(I, j)
    OBVIOUS
  <2>4. /\ i \in Int
        /\ j \in Int
        /\ \A k \in I : k \in Int
    OBVIOUS
  <2>5. \A k \in I : k <= i => k <= j
    BY <2>4
  <2>6. j <= j /\ ~(j <= i)
    BY <2>4
  <2>1. Upto(i) \in SUBSET Upto(j) /\ j \in Upto(j) /\ j \notin Upto(i)
    BY <2>5, <2>6, Zenon
  <2>2. Cardinality(Upto(i)) <= Cardinality(Upto(j))
    BY <2>1, <1>3, FS_Subset
  <2>3. Cardinality(Upto(j)) # Cardinality(Upto(i))
    BY <2>1, <1>3, FS_Subset
  <2> QED
    BY <2>2, <2>3, <1>3 DEF Rank
<1>6. r \in Injection(I, 1..Cardinality(I))
  <2>1. \A i, j \in I : r[i] = r[j] => i = j
    <3> SUFFICES ASSUME NEW i \in I, NEW j \in I, r[i] = r[j], i # j
                 PROVE  FALSE
      OBVIOUS
    <3>1. i \in Int /\ j \in Int /\ (i < j \/ j < i)
      OBVIOUS
    <3>2. Rank(I, i) \in Int /\ Rank(I, j) \in Int
      BY <1>4, <1>2
    <3> QED
      BY <3>1, <3>2, <1>5
  <2>2. r \in [I -> 1..Cardinality(I)]
    BY <1>4
  <2> QED
    BY <2>1, <2>2 DEF Injection, IsInjective
<1>7. IsFiniteSet(1..Cardinality(I)) /\ Cardinality(1..Cardinality(I)) = Cardinality(I)
  BY <1>2, FS_Interval
<1>8. r \in Surjection(I, 1..Cardinality(I))
  BY <1>6, <1>7, FS_Injection
<1>9. \A k \in 1..Cardinality(I) : \E i \in I : Rank(I, i) = k
  BY <1>8, Zenon DEF Surjection
<1> QED
  BY <1>2, <1>4, <1>5, <1>9

\* e lists the positions I in increasing order, and a reads s along e.
Reads(a, s, I, e) ==
  /\ e \in [1..Cardinality(I) -> I]
  /\ \A k \in 1..Cardinality(I) : a[k] = s[e[k]]
  /\ \A j, k \in 1..Cardinality(I) : j < k => e[j] < e[k]
  /\ \A i \in I : \E k \in 1..Cardinality(I) : e[k] = i

\* At(s, I) is the subsequence of s at the positions I.
LEMMA AtLemma ==
  ASSUME NEW X, NEW s \in Seq(X), NEW I \in SUBSET DOMAIN s
  PROVE  /\ At(s, I) \in Seq(X)
         /\ Len(At(s, I)) = Cardinality(I)
         /\ Cardinality(I) \in Nat
         /\ \E e : Reads(At(s, I), s, I, e)
<1> DEFINE c == Cardinality(I)
           P(k, i) == Rank(I, i) = k
           e == [k \in 1..c |-> CHOOSE i \in I : P(k, i)]
<1>1. DOMAIN s = 1..Len(s) /\ Len(s) \in Nat /\ \A i \in 1..Len(s) : s[i] \in X
  BY LenProperties
<1>2. /\ c \in Nat
      /\ \A i \in I : Rank(I, i) \in 1..c
      /\ \A i, j \in I : i < j => Rank(I, i) < Rank(I, j)
      /\ \A k \in 1..c : \E i \in I : P(k, i)
  BY <1>1, RankLemma, Zenon
<1>3. \A k \in 1..c : e[k] \in I /\ Rank(I, e[k]) = k
  <2> TAKE k \in 1..c
  <2>1. PICK i \in I : P(k, i)
    BY <1>2
  <2>2. (CHOOSE j \in I : P(k, j)) \in I /\ P(k, CHOOSE j \in I : P(k, j))
    BY <2>1
  <2>3. e[k] = CHOOSE j \in I : P(k, j)
    OBVIOUS
  <2> QED
    BY <2>2, <2>3
<1>4. e \in [1..c -> I]
  <2> HIDE DEF P
  <2> QED
    BY <1>3, Zenon
<1>5. At(s, I) = [k \in 1..c |-> s[e[k]]]
  BY DEF At, Rank
<1> HIDE DEF e
<1>6. \A k \in 1..c : At(s, I)[k] = s[e[k]] /\ At(s, I)[k] \in X
  BY <1>5, <1>4, <1>1
<1>7. At(s, I) \in [1..c -> X]
  BY <1>5, <1>4, <1>1
<1>8. At(s, I) \in Seq(X) /\ Len(At(s, I)) = c
  BY <1>7, <1>2
<1>9. \A j, k \in 1..c : j < k => e[j] < e[k]
  <2> SUFFICES ASSUME NEW j \in 1..c, NEW k \in 1..c, j < k, ~(e[j] < e[k])
               PROVE  FALSE
    OBVIOUS
  <2>1. e[j] \in I /\ e[k] \in I /\ e[j] \in Int /\ e[k] \in Int
    BY <1>4, <1>1
  <2>2. e[k] = e[j] \/ e[k] < e[j]
    BY <2>1
  <2>3. Rank(I, e[k]) <= Rank(I, e[j])
    BY <2>1, <2>2, <1>2
  <2> QED
    BY <2>3, <1>3
<1>10. \A i \in I : \E k \in 1..c : e[k] = i
  <2> TAKE i \in I
  <2>1. Rank(I, i) \in 1..c
    BY <1>2
  <2>2. e[Rank(I, i)] \in I /\ Rank(I, e[Rank(I, i)]) = Rank(I, i)
    BY <2>1, <1>3
  <2>3. e[Rank(I, i)] = i
    BY <2>2, <1>2, <1>1
  <2> QED
    BY <2>1, <2>3
<1> QED
  <2>1. Reads(At(s, I), s, I, e)
    BY <1>4, <1>6, <1>9, <1>10 DEF Reads
  <2> QED
    BY <2>1, <1>2, <1>8

\* What At keeps are the elements at I, and no element twice if s has none
\* twice.
LEMMA AtRange ==
  ASSUME NEW X, NEW s \in Seq(X), NEW I \in SUBSET DOMAIN s
  PROVE  /\ Range(At(s, I)) = {s[i] : i \in I}
         /\ IsInjective(s) => IsInjective(At(s, I))
<1> DEFINE c == Cardinality(I)
           a == At(s, I)
<1>1. a \in Seq(X) /\ Len(a) = c /\ c \in Nat /\ \E e : Reads(a, s, I, e)
  BY AtLemma
<1>2. PICK e : Reads(a, s, I, e)
  BY <1>1
<1>3. DOMAIN a = 1..c /\ DOMAIN s = 1..Len(s) /\ Len(s) \in Nat
  BY <1>1, LenProperties
<1> HIDE DEF a, c
<1>4. Range(a) = {s[i] : i \in I}
  BY <1>2, <1>3 DEF Range, Reads, c
<1>5. ASSUME IsInjective(s) PROVE IsInjective(a)
  <2> SUFFICES ASSUME NEW j \in 1..c, NEW k \in 1..c, a[j] = a[k], j # k
               PROVE  FALSE
    BY <1>3 DEF IsInjective
  <2>1. e[j] = e[k]
    BY <1>2, <1>3, <1>5 DEF IsInjective, Reads, c
  <2>2. e[j] \in Int /\ j \in Int /\ k \in Int /\ c \in Nat
    <3>1. e[j] \in I
      BY <1>2 DEF Reads, c
    <3>2. e[j] \in Int
      BY <3>1, <1>3
    <3> QED
      BY <3>2, <1>1
  <2> QED
    BY <2>1, <2>2, <1>2 DEF Reads, c
<1> QED
  BY <1>4, <1>5 DEF a

\* A thread or message appended to a list it is not on.
LEMMA AppendRange ==
  ASSUME NEW X, NEW s \in Seq(X), NEW x \in X
  PROVE  /\ Append(s, x) \in Seq(X)
         /\ Append(s, x) # <<>>
         /\ Range(Append(s, x)) = Range(s) \cup {x}
         /\ IsInjective(s) /\ x \notin Range(s) => IsInjective(Append(s, x))
<1> DEFINE a == Append(s, x)
           n == Len(s)
<1>1. /\ a \in Seq(X) /\ a # <<>> /\ Len(a) = n + 1 /\ n \in Nat
      /\ \A i \in 1..n : a[i] = s[i]
      /\ a[n + 1] = x
  BY AppendProperties, LenProperties
<1>2. DOMAIN a = 1..(n + 1) /\ DOMAIN s = 1..n
  BY <1>1, LenProperties
<1> HIDE DEF a, n
<1>3. \A i \in 1..(n + 1) : i \in 1..n \/ i = n + 1
  BY <1>1
<1>4. 1..n \subseteq 1..(n + 1) /\ n + 1 \in 1..(n + 1)
  BY <1>1
<1>5. Range(a) = Range(s) \cup {x}
  BY <1>1, <1>2, <1>3, <1>4, Zenon DEF Range
<1>6. ASSUME IsInjective(s), x \notin Range(s) PROVE IsInjective(a)
  BY <1>1, <1>2, <1>3, <1>4, <1>6 DEF IsInjective, Range
<1> QED
  BY <1>1, <1>5, <1>6 DEF a

\* The first element taken off a list.
LEMMA TailRange ==
  ASSUME NEW X, NEW s \in Seq(X), s # <<>>
  PROVE  /\ Head(s) \in X
         /\ Head(s) \in Range(s)
         /\ Tail(s) \in Seq(X)
         /\ Range(Tail(s)) \subseteq Range(s)
         /\ IsInjective(s) => IsInjective(Tail(s)) /\ Head(s) \notin Range(Tail(s))
<1> DEFINE a == Tail(s)
           n == Len(s)
<1>1. /\ a \in Seq(X) /\ Len(a) = n - 1 /\ n \in Nat \ {0}
      /\ \A i \in 1..Len(a) : a[i] = s[i + 1]
      /\ Head(s) \in X /\ Head(s) = s[1]
  BY HeadTailProperties, EmptySeq, LenProperties
<1>2. DOMAIN a = 1..(n - 1) /\ DOMAIN s = 1..n
  BY <1>1, LenProperties
<1> HIDE DEF a, n
<1>3. \A i \in 1..(n - 1) : i + 1 \in 1..n /\ i + 1 # 1
  BY <1>1
<1>4. Range(a) \subseteq Range(s)
  BY <1>1, <1>2, <1>3 DEF Range
<1>5. Head(s) \in Range(s)
  BY <1>1, <1>2 DEF Range
<1>6. ASSUME IsInjective(s) PROVE IsInjective(a) /\ Head(s) \notin Range(a)
  <2>1. 1 \in 1..n
    BY <1>1
  <2>2. IsInjective(a)
    <3> SUFFICES ASSUME NEW i \in 1..(n - 1), NEW j \in 1..(n - 1), a[i] = a[j]
                 PROVE  i = j
      BY <1>2 DEF IsInjective
    <3>1. s[i + 1] = s[j + 1] /\ i + 1 \in 1..n /\ j + 1 \in 1..n
      BY <1>1, <1>3
    <3>2. i + 1 = j + 1
      BY <3>1, <1>2, <1>6 DEF IsInjective
    <3> QED
      BY <3>2
  <2>3. Head(s) \notin Range(a)
    <3> SUFFICES ASSUME NEW i \in 1..(n - 1), a[i] = s[1]
                 PROVE  FALSE
      BY <1>1, <1>2 DEF Range
    <3>1. s[i + 1] = s[1] /\ i + 1 \in 1..n /\ i + 1 # 1
      BY <1>1, <1>3
    <3> QED
      BY <3>1, <2>1, <1>2, <1>6 DEF IsInjective
  <2> QED
    BY <2>2, <2>3
<1> QED
  BY <1>1, <1>4, <1>5, <1>6 DEF a

\* What is left of a list after its first n elements.
LEMMA SuffixRange ==
  ASSUME NEW X, NEW s \in Seq(X), NEW n \in 0..Len(s)
  PROVE  LET a == SubSeq(s, n + 1, Len(s))
         IN /\ a \in Seq(X)
            /\ Len(a) = Len(s) - n
            /\ \A i \in 1..Len(a) : n + i \in DOMAIN s /\ a[i] = s[n + i]
            /\ Range(a) \subseteq Range(s)
            /\ IsInjective(s) => IsInjective(a)
<1> DEFINE a == SubSeq(s, n + 1, Len(s))
<1>1. DOMAIN s = 1..Len(s) /\ Len(s) \in Nat /\ \A i \in 1..Len(s) : s[i] \in X
  BY LenProperties
<1>2. /\ a \in Seq(X)
      /\ Len(a) = Len(s) - n
      /\ \A i \in 1..(Len(s) - n) : a[i] = s[n + i]
  <2>1. n + 1 \in Int /\ Len(s) \in Int /\ \A i \in (n + 1)..Len(s) : s[i] \in X
    BY <1>1
  <2>2. /\ a \in Seq(X)
        /\ Len(a) = IF n + 1 <= Len(s) THEN Len(s) - (n + 1) + 1 ELSE 0
        /\ \A i \in 1..(Len(s) - (n + 1) + 1) : a[i] = s[n + 1 + i - 1]
    BY <2>1, SubSeqProperties
  <2> HIDE DEF a
  <2>3. n \in Int /\ n <= Len(s)
    BY <1>1
  <2>4. Len(a) = Len(s) - n
    <3>1. CASE n + 1 <= Len(s)
      BY <3>1, <2>2, <2>3, <1>1
    <3>2. CASE ~(n + 1 <= Len(s))
      <4>1. \A l \in Nat : \A k \in 0..l : ~(k + 1 <= l) => k = l
        OBVIOUS
      <4>3. n = Len(s)
        BY <4>1, <3>2, <1>1, Zenon
      <4>2. Len(a) = 0
        BY <3>2, <2>2
      <4> QED
        BY <4>3, <4>2, <1>1
    <3> QED
      BY <3>1, <3>2
  <2>5. \A i \in 1..(Len(s) - n) : a[i] = s[n + i]
    <3> TAKE i \in 1..(Len(s) - n)
    <3>1. i \in 1..(Len(s) - (n + 1) + 1) /\ n + 1 + i - 1 = n + i
      BY <2>3, <1>1
    <3> QED
      BY <3>1, <2>2
  <2> QED
    BY <2>2, <2>4, <2>5
<1>3. DOMAIN a = 1..Len(a)
  BY <1>2, LenProperties
<1> HIDE DEF a
<1>4. \A i \in 1..Len(a) : n + i \in DOMAIN s /\ a[i] = s[n + i]
  BY <1>1, <1>2
<1>5. Range(a) \subseteq Range(s)
  BY <1>3, <1>4 DEF Range
<1>6. ASSUME IsInjective(s) PROVE IsInjective(a)
  <2> SUFFICES ASSUME NEW i \in 1..Len(a), NEW j \in 1..Len(a), a[i] = a[j]
               PROVE  i = j
    BY <1>3 DEF IsInjective
  <2>1. n + i = n + j
    BY <1>4, <1>6 DEF IsInjective
  <2> QED
    BY <2>1, <1>1, <1>2
<1> QED
  BY <1>2, <1>4, <1>5, <1>6 DEF a

\* Two lists without a common element, one after the other.
LEMMA ConcatRange ==
  ASSUME NEW X, NEW s \in Seq(X), NEW u \in Seq(X)
  PROVE  /\ s \o u \in Seq(X)
         /\ Range(s \o u) = Range(s) \cup Range(u)
         /\ IsInjective(s) /\ IsInjective(u) /\ Range(s) \cap Range(u) = {}
              => IsInjective(s \o u)
<1> DEFINE a == s \o u
<1>1. /\ a \in Seq(X)
      /\ Len(a) = Len(s) + Len(u)
      /\ \A i \in 1..(Len(s) + Len(u)) :
           a[i] = IF i <= Len(s) THEN s[i] ELSE u[i - Len(s)]
  BY ConcatProperties
<1>2. /\ DOMAIN a = 1..(Len(s) + Len(u)) /\ DOMAIN s = 1..Len(s) /\ DOMAIN u = 1..Len(u)
      /\ Len(s) \in Nat /\ Len(u) \in Nat
  BY <1>1, LenProperties
<1> HIDE DEF a
<1>3. ASSUME IsInjective(s), IsInjective(u), Range(s) \cap Range(u) = {}
      PROVE  IsInjective(a)
  <2> SUFFICES ASSUME NEW i \in 1..(Len(s) + Len(u)), NEW j \in 1..(Len(s) + Len(u)),
                      a[i] = a[j]
               PROVE  i = j
    BY <1>2 DEF IsInjective
  <2>1. CASE i <= Len(s) /\ j <= Len(s)
    <3>1. s[i] = s[j] /\ i \in DOMAIN s /\ j \in DOMAIN s
      BY <2>1, <1>1, <1>2
    <3> QED
      BY <3>1, <1>3 DEF IsInjective
  <2>2. CASE i > Len(s) /\ j > Len(s)
    <3>1. u[i - Len(s)] = u[j - Len(s)] /\ i - Len(s) \in DOMAIN u /\ j - Len(s) \in DOMAIN u
      BY <2>2, <1>1, <1>2
    <3>2. i - Len(s) = j - Len(s)
      BY <3>1, <1>3 DEF IsInjective
    <3> QED
      BY <3>2, <1>2
  <2>3. CASE i <= Len(s) /\ j > Len(s)
    <3>1. s[i] = u[j - Len(s)] /\ i \in DOMAIN s /\ j - Len(s) \in DOMAIN u
      BY <2>3, <1>1, <1>2
    <3> QED
      BY <3>1, <1>3 DEF Range
  <2>4. CASE i > Len(s) /\ j <= Len(s)
    <3>1. u[i - Len(s)] = s[j] /\ j \in DOMAIN s /\ i - Len(s) \in DOMAIN u
      BY <2>4, <1>1, <1>2
    <3> QED
      BY <3>1, <1>3, Zenon DEF Range
  <2> QED
    BY <2>1, <2>2, <2>3, <2>4, <1>2
<1> QED
  BY <1>1, <1>3, RangeConcatenation DEF a

=============================================================================
