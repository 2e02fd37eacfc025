--------------------------- MODULE SequenceLemmas ---------------------------
(***************************************************************************)
(* Facts about sequences that the proofs about the hub and about           *)
(* connections rest on.                                                    *)
(***************************************************************************)
EXTENDS SequencesExt, SequenceTheorems, WellFoundedInduction, TLAPS

-----------------------------------------------------------------------------
(* Removing an element of a sequence.                                      *)

LEMMA MinExists ==
  ASSUME NEW I \in SUBSET Nat, I # {}
  PROVE  Min(I) \in I /\ \A y \in I : Min(I) <= y
<1>1. PICK x \in I : \A y \in I : ~ (<<y, x>> \in OpToRel(<, Nat))
  BY NatLessThanWellFounded, WFMin
<1>2. ASSUME NEW y \in I
      PROVE  x <= y
  <2>1. x \in Nat /\ y \in Nat
    OBVIOUS
  <2>2. y < x => <<y, x>> \in OpToRel(<, Nat)
    BY <2>1, Z3 DEF OpToRel
  <2>3. ~ (y < x)
    BY <1>1, <2>2
  <2> QED
    BY <2>1, <2>3
<1> QED
  BY <1>2 DEF Min

LEMMA RemoveFirstIsRemoveAt ==
  ASSUME NEW S, NEW s \in Seq(S), NEW e \in ToSet(s)
  PROVE  \E k \in 1 .. Len(s) : s[k] = e /\ RemoveFirst(s, e) = RemoveAt(s, k)
<1> DEFINE I == {i \in 1 .. Len(s) : s[i] = e}
<1>1. I # {}
  BY DEF ToSet
<1>2. Min(I) \in I
  <2>1. I \in SUBSET Nat
    OBVIOUS
  <2> HIDE DEF I
  <2> QED
    BY <1>1, <2>1, MinExists
<1>3. RemoveFirst(s, e) = RemoveAt(s, Min(I))
  BY <1>1 DEF RemoveFirst, SelectInSeq
<1> QED
  BY <1>2, <1>3

LEMMA RemoveAtProperties ==
  ASSUME NEW S, NEW s \in Seq(S), NEW k \in 1 .. Len(s)
  PROVE  /\ RemoveAt(s, k) \in Seq(S)
         /\ Len(RemoveAt(s, k)) = Len(s) - 1
         /\ \A i \in 1 .. Len(s) - 1 :
              RemoveAt(s, k)[i] = IF i < k THEN s[i] ELSE s[i + 1]
<1> DEFINE a == SubSeq(s, 1, k - 1)
           b == SubSeq(s, k + 1, Len(s))
           n == Len(s)
<1>1. /\ a \in Seq(S) /\ Len(a) = k - 1
      /\ \A i \in 1 .. k - 1 : a[i] = s[i]
  BY SubSeqProperties
<1>2. /\ b \in Seq(S) /\ Len(b) = n - k
      /\ \A i \in 1 .. n - k : b[i] = s[k + i]
  BY SubSeqProperties
<1>3. RemoveAt(s, k) = a \o b
  BY DEF RemoveAt
<1>4. n \in Nat /\ k \in 1 .. n
  OBVIOUS
<1> HIDE DEF a, b, n
<1>5. /\ a \o b \in Seq(S)
      /\ Len(a \o b) = Len(a) + Len(b)
      /\ \A i \in 1 .. Len(a) + Len(b) :
           (a \o b)[i] = IF i <= Len(a) THEN a[i] ELSE b[i - Len(a)]
  BY <1>1, <1>2, ConcatProperties
<1>6. Len(a \o b) = n - 1
  BY <1>1, <1>2, <1>4, <1>5
<1>7. ASSUME NEW i \in 1 .. n - 1
      PROVE  (a \o b)[i] = IF i < k THEN s[i] ELSE s[i + 1]
  <2>1. CASE i < k
    <3>1. i \in 1 .. k - 1 /\ i <= Len(a) /\ i \in 1 .. Len(a) + Len(b)
      BY <1>1, <1>2, <1>4, <2>1
    <3> QED
      BY <1>1, <1>5, <2>1, <3>1
  <2>2. CASE i >= k
    <3>1. i - (k - 1) \in 1 .. n - k /\ k + (i - (k - 1)) = i + 1
      BY <1>4, <2>2
    <3>2. ~ (i <= Len(a)) /\ i \in 1 .. Len(a) + Len(b) /\ i - Len(a) = i - (k - 1)
      BY <1>1, <1>2, <1>4, <2>2
    <3>3. (a \o b)[i] = b[i - (k - 1)]
      BY <1>5, <3>2
    <3> QED
      BY <1>2, <1>4, <2>2, <3>1, <3>3
  <2>3. i < k \/ i >= k
    BY <1>4
  <2> QED
    BY <2>1, <2>2, <2>3
<1> QED
  BY <1>3, <1>5, <1>6, <1>7 DEF n

(* The other elements stay, and none is added.                             *)
LEMMA RemoveFirstKeeps ==
  ASSUME NEW S, NEW s \in Seq(S), NEW e \in ToSet(s)
  PROVE  /\ RemoveFirst(s, e) \in Seq(S)
         /\ ToSet(RemoveFirst(s, e)) \subseteq ToSet(s)
         /\ ToSet(s) \ {e} \subseteq ToSet(RemoveFirst(s, e))
<1>1. PICK k \in 1 .. Len(s) : s[k] = e /\ RemoveFirst(s, e) = RemoveAt(s, k)
  BY RemoveFirstIsRemoveAt
<1> DEFINE t == RemoveAt(s, k)
<1>2. /\ t \in Seq(S) /\ Len(t) = Len(s) - 1
      /\ \A i \in 1 .. Len(s) - 1 : t[i] = IF i < k THEN s[i] ELSE s[i + 1]
  BY RemoveAtProperties
<1> HIDE DEF t
<1>3. ToSet(t) \subseteq ToSet(s)
  BY <1>2 DEF ToSet
<1>4. ASSUME NEW x \in ToSet(s), x # e
      PROVE  x \in ToSet(t)
  <2>1. PICK j \in 1 .. Len(s) : s[j] = x
    BY DEF ToSet
  <2>2. CASE j < k
    BY <1>2, <2>1, <2>2 DEF ToSet
  <2>3. CASE j > k
    <3>1. j - 1 \in 1 .. Len(s) - 1 /\ t[j - 1] = s[j]
      BY <1>2, <2>3
    <3> QED
      BY <1>2, <2>1, <3>1 DEF ToSet
  <2> QED
    BY <1>1, <1>4, <2>1, <2>2, <2>3
<1> QED
  BY <1>1, <1>2, <1>3, <1>4 DEF t

(* What was there once is gone, and nothing is there twice.                *)
LEMMA RemoveFirstInjective ==
  ASSUME NEW S, NEW s \in Seq(S), IsInjective(s), NEW e \in ToSet(s)
  PROVE  /\ e \notin ToSet(RemoveFirst(s, e))
         /\ IsInjective(RemoveFirst(s, e))
<1>1. PICK k \in 1 .. Len(s) : s[k] = e /\ RemoveFirst(s, e) = RemoveAt(s, k)
  BY RemoveFirstIsRemoveAt
<1> DEFINE t == RemoveAt(s, k)
<1>2. /\ t \in Seq(S) /\ Len(t) = Len(s) - 1
      /\ \A i \in 1 .. Len(s) - 1 : t[i] = IF i < k THEN s[i] ELSE s[i + 1]
  BY RemoveAtProperties
<1> HIDE DEF t
<1>3. \A i, j \in 1 .. Len(s) : s[i] = s[j] => i = j
  BY DEF IsInjective
<1>4. e \notin ToSet(t)
  BY <1>1, <1>2, <1>3 DEF ToSet
<1>5. ASSUME NEW i \in 1 .. Len(t), NEW j \in 1 .. Len(t), t[i] = t[j]
      PROVE  i = j
  <2> DEFINE from(m) == IF m < k THEN m ELSE m + 1
  <2>1. /\ from(i) \in 1 .. Len(s) /\ t[i] = s[from(i)]
        /\ from(j) \in 1 .. Len(s) /\ t[j] = s[from(j)]
    BY <1>2
  <2>2. from(i) = from(j)
    BY <1>3, <1>5, <2>1
  <2> QED
    BY <1>2, <2>2
<1>6. IsInjective(t)
  BY <1>2, <1>5 DEF IsInjective
<1> QED
  BY <1>1, <1>4, <1>6 DEF t

LEMMA AppendSet ==
  ASSUME NEW S, NEW s \in Seq(S), NEW e \in S
  PROVE  /\ Append(s, e) \in Seq(S)
         /\ ToSet(Append(s, e)) = ToSet(s) \cup {e}
<1> DEFINE t == Append(s, e)
           n == Len(s)
<1>1. /\ t \in Seq(S) /\ Len(t) = n + 1 /\ t[n + 1] = e
      /\ \A i \in 1 .. n : t[i] = s[i]
  BY AppendProperties
<1>2. n \in Nat /\ DOMAIN s = 1 .. n
  OBVIOUS
<1>3. DOMAIN t = 1 .. n + 1
  BY <1>1
<1> HIDE DEF t, n
<1> QED
  BY <1>1, <1>2, <1>3 DEF ToSet, t

LEMMA AppendKeepsInjective ==
  ASSUME NEW S, NEW s \in Seq(S), NEW e \in S,
         IsInjective(s), e \notin ToSet(s)
  PROVE  IsInjective(Append(s, e))
<1> DEFINE t == Append(s, e)
           n == Len(s)
<1>1. /\ t \in Seq(S) /\ Len(t) = n + 1 /\ t[n + 1] = e
      /\ \A i \in 1 .. n : t[i] = s[i]
  BY AppendProperties
<1>2. n \in Nat /\ DOMAIN s = 1 .. n
  OBVIOUS
<1>3. DOMAIN t = 1 .. n + 1
  BY <1>1
<1>4. \A i \in 1 .. n : t[i] # e
  BY <1>1, <1>2 DEF ToSet
<1> HIDE DEF t, n
<1>5. \A i, j \in 1 .. n + 1 : t[i] = t[j] => i = j
  BY <1>1, <1>2, <1>4 DEF IsInjective
<1>6. IsInjective(t)
  BY <1>3, <1>5 DEF IsInjective
<1> QED
  BY <1>6 DEF t

-----------------------------------------------------------------------------
(* A queue: which elements are in it, and which come before which.         *)

Precedes(s, e, f) == \E i, j \in DOMAIN s : i < j /\ s[i] = e /\ s[j] = f

LEMMA TailParts ==
  ASSUME NEW S, NEW s \in Seq(S), s # <<>>
  PROVE  /\ Head(s) \in S /\ Tail(s) \in Seq(S)
         /\ \A e : Contains(s, e) <=> e = Head(s) \/ Contains(Tail(s), e)
         /\ \A e, f : Precedes(s, e, f) <=>
              \/ e = Head(s) /\ Contains(Tail(s), f)
              \/ Precedes(Tail(s), e, f)
<1> DEFINE t == Tail(s)
           n == Len(s)
<1>1. /\ n \in Nat /\ n > 0 /\ DOMAIN s = 1 .. n
      /\ t \in Seq(S) /\ Len(t) = n - 1 /\ Head(s) = s[1] /\ s[1] \in S
      /\ \A i \in 1 .. Len(t) : t[i] = s[i + 1]
  BY EmptySeq, HeadTailProperties
<1>2. DOMAIN t = 1 .. n - 1
  BY <1>1
<1>3. \A i \in 1 .. n - 1 : i + 1 \in 1 .. n /\ t[i] = s[i + 1]
  BY <1>1
<1>4. \A i \in 1 .. n : i = 1 \/ (i - 1 \in 1 .. n - 1 /\ t[i - 1] = s[i])
  BY <1>1
<1>5. 1 \in 1 .. n
  BY <1>1
<1> HIDE DEF t, n
<1>6. ASSUME NEW e
      PROVE  Contains(s, e) <=> e = s[1] \/ Contains(t, e)
  <2>1. Contains(s, e) <=> \E i \in 1 .. n : s[i] = e
    BY DEF Contains, n
  <2>2. Contains(t, e) <=> \E i \in 1 .. n - 1 : t[i] = e
    BY <1>1 DEF Contains
  <2> QED
    BY <1>3, <1>4, <1>5, <2>1, <2>2
<1>7. ASSUME NEW e, NEW f
      PROVE  Precedes(s, e, f) <=> (e = s[1] /\ Contains(t, f)) \/ Precedes(t, e, f)
  <2>1. Precedes(s, e, f) <=> \E i, j \in 1 .. n : i < j /\ s[i] = e /\ s[j] = f
    BY <1>1 DEF Precedes
  <2>2. Precedes(t, e, f) <=> \E i, j \in 1 .. n - 1 : i < j /\ t[i] = e /\ t[j] = f
    BY <1>2 DEF Precedes
  <2>3. Contains(t, f) <=> \E i \in 1 .. n - 1 : t[i] = f
    BY <1>1 DEF Contains
  <2>4. ASSUME Precedes(s, e, f)
        PROVE  (e = s[1] /\ Contains(t, f)) \/ Precedes(t, e, f)
    <3>1. PICK i \in 1 .. n, j \in 1 .. n : i < j /\ s[i] = e /\ s[j] = f
      BY <2>1, <2>4
    <3>2. j - 1 \in 1 .. n - 1 /\ t[j - 1] = f
      BY <1>1, <1>4, <3>1
    <3>3. CASE i = 1
      BY <2>3, <3>1, <3>2, <3>3
    <3>4. CASE i # 1
      <4>1. i - 1 \in 1 .. n - 1 /\ t[i - 1] = e /\ i - 1 < j - 1
        BY <1>1, <1>4, <3>1, <3>4
      <4> QED
        BY <2>2, <3>2, <4>1
    <3> QED
      BY <3>3, <3>4
  <2>5. ASSUME e = s[1], Contains(t, f)
        PROVE  Precedes(s, e, f)
    <3>1. PICK j \in 1 .. n - 1 : t[j] = f
      BY <2>3, <2>5
    <3>2. 1 < j + 1 /\ j + 1 \in 1 .. n /\ s[j + 1] = f
      BY <1>1, <1>3, <3>1
    <3> QED
      BY <1>5, <2>1, <2>5, <3>2
  <2>6. ASSUME Precedes(t, e, f)
        PROVE  Precedes(s, e, f)
    <3>1. PICK i \in 1 .. n - 1, j \in 1 .. n - 1 : i < j /\ t[i] = e /\ t[j] = f
      BY <2>2, <2>6
    <3>2. i + 1 < j + 1 /\ i + 1 \in 1 .. n /\ j + 1 \in 1 .. n /\ s[i + 1] = e /\ s[j + 1] = f
      BY <1>1, <1>3, <3>1
    <3> QED
      BY <2>1, <3>2
  <2> QED
    BY <2>4, <2>5, <2>6
<1> QED
  BY <1>1, <1>6, <1>7 DEF t

LEMMA ConcatParts ==
  ASSUME NEW S, NEW s \in Seq(S), NEW t \in Seq(S)
  PROVE  /\ s \o t \in Seq(S)
         /\ \A e : Contains(s \o t, e) <=> Contains(s, e) \/ Contains(t, e)
         /\ \A e, f : Precedes(s \o t, e, f) <=>
              \/ Precedes(s, e, f)
              \/ Precedes(t, e, f)
              \/ Contains(s, e) /\ Contains(t, f)
<1> DEFINE u == s \o t
           m == Len(s)
           n == Len(t)
<1>1. /\ m \in Nat /\ n \in Nat /\ DOMAIN s = 1 .. m /\ DOMAIN t = 1 .. n
      /\ u \in Seq(S) /\ Len(u) = m + n
      /\ \A i \in 1 .. m + n : u[i] = IF i <= m THEN s[i] ELSE t[i - m]
  BY ConcatProperties, LenProperties
<1>2. DOMAIN u = 1 .. m + n
  BY <1>1
<1> HIDE DEF u
<1>3. \A i \in 1 .. m : i \in 1 .. m + n /\ u[i] = s[i]
  BY <1>1
<1>4. \A i \in 1 .. n : m + i \in 1 .. m + n /\ u[m + i] = t[i]
  <2> SUFFICES ASSUME NEW i \in 1 .. n
               PROVE  m + i \in 1 .. m + n /\ u[m + i] = t[i]
    OBVIOUS
  <2> HIDE DEF m, n
  <2>1. m + i \in 1 .. m + n /\ ~ (m + i <= m) /\ (m + i) - m = i
    BY <1>1
  <2> QED
    BY <1>1, <2>1
<1>5. \A i \in 1 .. m + n : \/ i \in 1 .. m /\ u[i] = s[i]
                            \/ i > m /\ i - m \in 1 .. n /\ u[i] = t[i - m]
  BY <1>1
<1> HIDE DEF m, n
<1>6. ASSUME NEW e
      PROVE  Contains(u, e) <=> Contains(s, e) \/ Contains(t, e)
  <2>1. /\ Contains(u, e) <=> \E i \in 1 .. m + n : u[i] = e
        /\ Contains(s, e) <=> \E i \in 1 .. m : s[i] = e
        /\ Contains(t, e) <=> \E i \in 1 .. n : t[i] = e
    BY <1>1 DEF Contains, m, n
  <2> QED
    BY <1>3, <1>4, <1>5, <2>1
<1>7. ASSUME NEW e, NEW f
      PROVE  Precedes(u, e, f) <=> \/ Precedes(s, e, f)
                                   \/ Precedes(t, e, f)
                                   \/ Contains(s, e) /\ Contains(t, f)
  <2>1. /\ Precedes(u, e, f) <=> \E i, j \in 1 .. m + n : i < j /\ u[i] = e /\ u[j] = f
        /\ Precedes(s, e, f) <=> \E i, j \in 1 .. m : i < j /\ s[i] = e /\ s[j] = f
        /\ Precedes(t, e, f) <=> \E i, j \in 1 .. n : i < j /\ t[i] = e /\ t[j] = f
    BY <1>1, <1>2 DEF Precedes
  <2>2. /\ Contains(s, e) <=> \E i \in 1 .. m : s[i] = e
        /\ Contains(t, f) <=> \E i \in 1 .. n : t[i] = f
    BY DEF Contains, m, n
  <2>3. ASSUME Precedes(u, e, f)
        PROVE  \/ Precedes(s, e, f)
               \/ Precedes(t, e, f)
               \/ Contains(s, e) /\ Contains(t, f)
    <3>1. PICK i \in 1 .. m + n, j \in 1 .. m + n : i < j /\ u[i] = e /\ u[j] = f
      BY <2>1, <2>3
    <3>2. CASE j \in 1 .. m
      <4>1. i \in 1 .. m
        BY <1>1, <3>1, <3>2
      <4> QED
        BY <1>3, <2>1, <3>1, <3>2, <4>1
    <3>3. CASE j > m /\ j - m \in 1 .. n /\ u[j] = t[j - m]
      <4>1. CASE i \in 1 .. m /\ u[i] = s[i]
        BY <2>2, <3>1, <3>3, <4>1
      <4>2. CASE i > m /\ i - m \in 1 .. n /\ u[i] = t[i - m]
        <5>1. i - m < j - m
          BY <1>1, <3>1
        <5> QED
          BY <2>1, <3>1, <3>3, <4>2, <5>1
      <4> QED
        BY <1>5, <4>1, <4>2
    <3> QED
      BY <1>5, <3>2, <3>3
  <2>4. ASSUME Precedes(s, e, f)
        PROVE  Precedes(u, e, f)
    <3>1. PICK i \in 1 .. m, j \in 1 .. m : i < j /\ s[i] = e /\ s[j] = f
      BY <2>1, <2>4
    <3> QED
      BY <1>3, <2>1, <3>1
  <2>5. ASSUME Precedes(t, e, f)
        PROVE  Precedes(u, e, f)
    <3>1. PICK i \in 1 .. n, j \in 1 .. n : i < j /\ t[i] = e /\ t[j] = f
      BY <2>1, <2>5
    <3>2. m + i < m + j
      BY <1>1, <3>1
    <3> QED
      BY <1>4, <2>1, <3>1, <3>2
  <2>6. ASSUME Contains(s, e), Contains(t, f)
        PROVE  Precedes(u, e, f)
    <3>1. PICK i \in 1 .. m : s[i] = e
      BY <2>2, <2>6
    <3>2. PICK j \in 1 .. n : t[j] = f
      BY <2>2, <2>6
    <3>3. i < m + j
      BY <1>1
    <3> QED
      BY <1>3, <1>4, <2>1, <3>1, <3>2, <3>3
  <2> QED
    BY <2>3, <2>4, <2>5, <2>6
<1> QED
  BY <1>1, <1>6, <1>7 DEF u

LEMMA AppendParts ==
  ASSUME NEW S, NEW s \in Seq(S), NEW x \in S
  PROVE  /\ Append(s, x) \in Seq(S)
         /\ \A e : Contains(Append(s, x), e) <=> Contains(s, e) \/ e = x
         /\ \A e, f : Precedes(Append(s, x), e, f) <=>
              \/ Precedes(s, e, f)
              \/ Contains(s, e) /\ f = x
<1>1. Append(s, x) = s \o <<x>> /\ <<x>> \in Seq(S)
  BY AppendIsConcat
<1>2. \A e : Contains(<<x>>, e) <=> e = x
  BY DEF Contains
<1>3. \A e, f : ~Precedes(<<x>>, e, f)
  BY DEF Precedes
<1>4. /\ s \o <<x>> \in Seq(S)
      /\ \A e : Contains(s \o <<x>>, e) <=> Contains(s, e) \/ Contains(<<x>>, e)
      /\ \A e, f : Precedes(s \o <<x>>, e, f) <=>
           \/ Precedes(s, e, f)
           \/ Precedes(<<x>>, e, f)
           \/ Contains(s, e) /\ Contains(<<x>>, f)
  BY ONLY <1>1, ConcatParts, s \in Seq(S)
<1> QED
  BY ONLY <1>1, <1>2, <1>3, <1>4

=============================================================================
