---------------------------- MODULE FramingProofs ----------------------------
(***************************************************************************)
(* Proofs about packages and their frames, for packages and messages of    *)
(* any length, any number of frames a receive has room for and any number  *)
(* of messages it is given: what a receive takes is one package, and only  *)
(* packages with too many frames or with no message are lost.              *)
(***************************************************************************)
EXTENDS Framing, SequenceLemmas

USE MessageAssumption, FramingAssumption

LEMMA SameFrames ==
  ASSUME NEW q, NEW p, NEW a \in Nat, NEW b \in Nat, NEW n \in Nat, NEW package,
         \A k \in a .. b : p[k] = q[k + n], Len(package.messages) \in Nat,
         DOMAIN package.messages = 1 .. Len(package.messages)
  PROVE  /\ WholePackage(q, a + n, b + n, package) => WholePackage(p, a, b, package)
         /\ LeftOver(q, a + n, b + n, package) => LeftOver(p, a, b, package)
<1>1. \A k \in a .. b : k + n \in a + n .. b + n /\ (k + n = a + n <=> k = a)
  OBVIOUS
<1>2. ASSUME WholePackage(q, a + n, b + n, package)
      PROVE  WholePackage(p, a, b, package)
  <2> PICK m \in Nat : m = Len(package.messages)
    OBVIOUS
  <2>1. b + n = a + n + 1 + m
    BY <1>2 DEF WholePackage
  <2>2. b = a + 1 + m /\ a + 1 \in a .. b /\ (a + 1) + n = (a + n) + 1
    BY ONLY <2>1, a \in Nat, b \in Nat, n \in Nat, m \in Nat
  <2>3. \A k \in 1 .. m : a + 1 + k \in a .. b /\ (a + 1 + k) + n = (a + n) + 1 + k
    BY ONLY <2>1, a \in Nat, b \in Nat, n \in Nat, m \in Nat
  <2>4. \A k \in a .. b : p[k].address <=> k = a
    BY <1>1, <1>2 DEF WholePackage
  <2>5. p[a + 1].data = <<>> /\ ~p[a + 1].letter
    <3>1. p[a + 1] = q[(a + 1) + n]
      BY <2>2
    <3>2. p[a + 1] = q[(a + n) + 1]
      BY ONLY <2>2, <3>1
    <3> QED
      BY <1>2, <3>2 DEF WholePackage
  <2>6. package.plain => \A k \in 1 .. m : p[a + 1 + k].data = package.messages[k]
    <3>1. \A k \in 1 .. m : p[a + 1 + k] = q[(a + n) + 1 + k]
      BY <2>3
    <3> QED
      BY <1>2, <3>1 DEF WholePackage
  <2> QED
    BY <2>2, <2>4, <2>5, <2>6 DEF WholePackage
<1>3. ASSUME LeftOver(q, a + n, b + n, package)
      PROVE  LeftOver(p, a, b, package)
  <2> PICK m \in Nat : m = Len(package.messages)
    OBVIOUS
  <2>1. m > MaxFrames - 2 /\ b + n < a + n + m
    BY <1>3 DEF LeftOver
  <2>2. b < a + m
    BY ONLY <2>1, a \in Nat, b \in Nat, n \in Nat, m \in Nat
  <2>3. \A k \in a .. b : m - ((b + n) - (k + n)) = m - (b - k)
    BY ONLY a \in Nat, b \in Nat, n \in Nat, m \in Nat
  <2>4. \A k \in a .. b : ~p[k].address
    BY <1>1, <1>3 DEF LeftOver
  <2>5. ASSUME package.plain, NEW k \in a .. b
        PROVE  p[k].data = package.messages[m - (b - k)]
    <3>1. q[k + n].data = package.messages[m - ((b + n) - (k + n))]
      BY <1>1, <1>3, <2>5 DEF LeftOver
    <3>2. p[k].data = q[k + n].data /\ m - ((b + n) - (k + n)) = m - (b - k)
      BY <2>3
    <3> QED
      BY <3>1, <3>2
  <2> QED
    BY <2>1, <2>2, <2>4, <2>5 DEF LeftOver
<1> QED
  BY <1>2, <1>3

(* A package is sent.                                                      *)
LEMMA AddPackage ==
  ASSUME NEW S, NEW q \in Seq(S), NEW f \in Seq(S), NEW U, NEW u \in Seq(U),
         NEW package \in U,
         NEW last \in [DOMAIN u -> DOMAIN q], Framed(q, u, last),
         \A v \in U : v.messages \in Seq(Seq(Datum)),
         \A k \in 1 .. Len(f) : f[k].more <=> k < Len(f),
         WholePackage(f, 1, Len(f), package)
  PROVE  \E next \in [DOMAIN Append(u, package) -> DOMAIN (q \o f)] :
           Framed(q \o f, Append(u, package), next)
<1> DEFINE L == Len(q)
           M == Len(f)
           N == Len(u)
           p == q \o f
           v == Append(u, package)
<1>1. /\ L \in Nat /\ M \in Nat /\ N \in Nat
      /\ DOMAIN q = 1 .. L /\ DOMAIN u = 1 .. N /\ DOMAIN f = 1 .. M
  BY LenProperties
<1>2. /\ p \in Seq(S) /\ Len(p) = L + M /\ DOMAIN p = 1 .. L + M
      /\ \A k \in 1 .. L + M : p[k] = IF k <= L THEN q[k] ELSE f[k - L]
  BY <1>1, ConcatProperties, LenProperties
<1>3. /\ v \in Seq(U) /\ Len(v) = N + 1 /\ DOMAIN v = 1 .. N + 1
      /\ \A i \in 1 .. N : v[i] = u[i]
      /\ v[N + 1] = package
  BY <1>1, AppendProperties, LenProperties
<1>4. /\ package.messages \in Seq(Seq(Datum)) /\ Len(package.messages) \in Nat
      /\ M = 2 + Len(package.messages)
      /\ \A i \in 1 .. N : /\ Len(u[i].messages) \in Nat
                           /\ DOMAIN u[i].messages = 1 .. Len(u[i].messages)
  <2>1. package.messages \in Seq(Seq(Datum)) /\ M = 1 + 1 + Len(package.messages)
    BY DEF WholePackage
  <2>2. \A i \in 1 .. N : u[i].messages \in Seq(Seq(Datum))
    BY <1>1
  <2> HIDE DEF M
  <2>3. Len(package.messages) \in Nat
    BY <2>1
  <2> QED
    BY <1>1, <2>1, <2>2, <2>3
<1>5. \A k \in 1 .. M : f[k].more <=> k < M
  OBVIOUS
<1>6. WholePackage(f, 1, M, package)
  OBVIOUS
<1>7. /\ IF u = <<>> THEN q = <<>> ELSE last[N] = L
      /\ \A i, j \in 1 .. N : i < j => last[i] < last[j]
      /\ \A i \in 1 .. N : last[i] \in 1 .. L
      /\ \A i \in 1 .. N :
           /\ \A k \in FirstFrame(last, i) .. last[i] : q[k].more <=> k < last[i]
           /\ \/ WholePackage(q, FirstFrame(last, i), last[i], u[i])
              \/ i = 1 /\ LeftOver(q, 1, last[1], u[1])
  BY <1>1 DEF Framed
<1>8. /\ u = <<>> <=> N = 0
      /\ q = <<>> => L = 0
  BY EmptySeq
<1> DEFINE next == [i \in 1 .. N + 1 |-> IF i <= N THEN last[i] ELSE L + M]
<1> HIDE DEF L, M, N, p, v
<1>9. next \in [1 .. N + 1 -> 1 .. L + M]
  BY <1>1, <1>4, <1>7
<1>10. (\A i \in 1 .. N : next[i] = last[i]) /\ next[N + 1] = L + M
  BY <1>1
<1>11. FirstFrame(next, N + 1) = L + 1
  <2>1. CASE N = 0
    BY <1>7, <1>8, <2>1 DEF FirstFrame
  <2>2. CASE N # 0
    <3>1. N + 1 # 1 /\ (N + 1) - 1 = N /\ N \in 1 .. N
      BY <1>1, <2>2
    <3>2. next[(N + 1) - 1] = L
      BY <1>7, <1>8, <1>10, <2>2, <3>1
    <3> QED
      BY <3>1, <3>2 DEF FirstFrame
  <2> QED
    BY <2>1, <2>2
<1>12. \A i \in 1 .. N : FirstFrame(next, i) = FirstFrame(last, i) /\ FirstFrame(last, i) \in Nat
  <2> SUFFICES ASSUME NEW i \in 1 .. N
               PROVE  FirstFrame(next, i) = FirstFrame(last, i) /\ FirstFrame(last, i) \in Nat
    OBVIOUS
  <2>1. CASE i = 1
    BY <2>1 DEF FirstFrame
  <2>2. CASE i # 1
    <3>1. i - 1 \in 1 .. N
      BY <1>1, <2>2
    <3>2. next[i - 1] = last[i - 1] /\ last[i - 1] \in 1 .. L
      BY <1>7, <1>10, <3>1
    <3>3. last[i - 1] + 1 \in Nat
      BY <1>1, <3>2
    <3> QED
      BY <2>2, <3>2, <3>3 DEF FirstFrame
  <2> QED
    BY <2>1, <2>2
<1> HIDE DEF next
<1>13. \A i, j \in 1 .. N + 1 : i < j => next[i] < next[j]
  <2> SUFFICES ASSUME NEW i \in 1 .. N + 1, NEW j \in 1 .. N + 1, i < j
               PROVE  next[i] < next[j]
    OBVIOUS
  <2>1. i \in 1 .. N
    BY <1>1
  <2>2. CASE j \in 1 .. N
    BY <1>7, <1>10, <2>1, <2>2
  <2>3. CASE j = N + 1
    BY <1>1, <1>4, <1>7, <1>10, <2>1, <2>3
  <2> QED
    BY <1>1, <2>2, <2>3
<1>14. ASSUME NEW i \in 1 .. N
       PROVE  /\ \A k \in FirstFrame(next, i) .. next[i] : p[k].more <=> k < next[i]
              /\ \/ WholePackage(p, FirstFrame(next, i), next[i], v[i])
                 \/ i = 1 /\ LeftOver(p, 1, next[1], v[1])
  <2>1. /\ next[i] = last[i] /\ last[i] \in 1 .. L /\ v[i] = u[i]
        /\ FirstFrame(next, i) = FirstFrame(last, i) /\ FirstFrame(last, i) \in Nat
    BY <1>3, <1>7, <1>10, <1>12
  <2> DEFINE a == FirstFrame(last, i)
             b == last[i]
  <2>2. \A k \in a .. b : k >= 1 => p[k] = q[k]
    BY <1>1, <1>2, <1>4, <2>1
  <2>3. a >= 1
    <3>1. i # 1 => i - 1 \in 1 .. N
      BY <1>1
    <3> QED
      BY <1>7, <3>1 DEF FirstFrame
  <2>4. \A k \in a .. b : p[k] = q[k + 0]
    BY <2>1, <2>2, <2>3
  <2>5. a + 0 = a /\ b + 0 = b /\ a \in Nat /\ b \in Nat
    BY <2>1
  <2>6. i = 1 => a = 1
    BY DEF FirstFrame
  <2> HIDE DEF a, b
  <2>7. /\ \A k \in a .. b : p[k].more <=> k < b
        /\ WholePackage(q, a, b, u[i]) \/ (i = 1 /\ LeftOver(q, a, b, u[i]))
    BY <1>7, <2>4, <2>5, <2>6 DEF a, b
  <2>8. /\ WholePackage(q, a, b, u[i]) => WholePackage(p, a, b, u[i])
        /\ LeftOver(q, a, b, u[i]) => LeftOver(p, a, b, u[i])
    <3>1. Len(u[i].messages) \in Nat /\ DOMAIN u[i].messages = 1 .. Len(u[i].messages) /\ 0 \in Nat
      BY <1>4
    <3>2. /\ WholePackage(q, a + 0, b + 0, u[i]) => WholePackage(p, a, b, u[i])
          /\ LeftOver(q, a + 0, b + 0, u[i]) => LeftOver(p, a, b, u[i])
      BY ONLY <2>4, <2>5, <3>1, SameFrames
    <3> QED
      BY <2>5, <3>2
  <2> QED
    BY <2>1, <2>6, <2>7, <2>8 DEF a, b
<1>15. /\ \A k \in L + 1 .. L + M : p[k].more <=> k < L + M
       /\ WholePackage(p, L + 1, L + M, package)
  <2>1. \A k \in L + 1 .. L + M : p[k] = f[k - L] /\ k - L \in 1 .. M
    BY <1>1, <1>2
  <2>2. \A k \in L + 1 .. L + M : p[k].more <=> k < L + M
    BY <1>1, <1>5, <2>1
  <2>3. \A k \in 1 .. M : p[L + k] = f[k]
    BY <1>1, <1>2
  <2>4. \A k \in L + 1 .. L + M : p[k].address <=> k = L + 1
    <3>1. \A k \in 1 .. M : f[k].address <=> k = 1
      BY <1>6 DEF WholePackage
    <3>2. \A k \in L + 1 .. L + M : k - L = 1 <=> k = L + 1
      BY <1>1
    <3> QED
      BY <2>1, <3>1, <3>2
  <2>5. p[(L + 1) + 1] = f[2] /\ f[1 + 1].data = <<>> /\ ~f[1 + 1].letter
    BY <1>1, <1>4, <1>6, <2>3 DEF WholePackage
  <2>6. package.plain => \A m \in DOMAIN package.messages : p[(L + 1) + 1 + m].data = package.messages[m]
    <3> SUFFICES ASSUME package.plain, NEW m \in DOMAIN package.messages
                 PROVE  p[(L + 1) + 1 + m].data = package.messages[m]
      OBVIOUS
    <3>1. m \in 1 .. Len(package.messages)
      BY <1>4
    <3>2. (L + 1) + 1 + m = L + (2 + m) /\ 2 + m \in 1 .. M /\ 1 + 1 + m = 2 + m
      <4> PICK x \in Nat : x = Len(package.messages)
        BY <1>4
      <4>1. m \in Nat /\ 1 <= m /\ m <= x /\ M = 2 + x /\ L \in Nat
        BY <1>1, <1>4, <3>1
      <4>2. (L + 1) + 1 + m = L + (2 + m) /\ 1 + 1 + m = 2 + m
        BY ONLY <4>1
      <4>3. 2 + m \in 1 .. M
        BY ONLY <4>1, x \in Nat
      <4> QED
        BY <4>2, <4>3
    <3>3. f[1 + 1 + m].data = package.messages[m]
      BY <1>6 DEF WholePackage
    <3> QED
      BY <2>3, <3>2, <3>3
  <2>7. L + M = (L + 1) + 1 + Len(package.messages)
    <3> PICK x \in Nat : x = Len(package.messages)
      BY <1>4
    <3>1. M = 2 + x /\ L \in Nat
      BY <1>1, <1>4
    <3>2. L + M = (L + 1) + 1 + x
      BY ONLY <3>1, x \in Nat
    <3> QED
      BY <3>2
  <2> QED
    BY <2>2, <2>4, <2>5, <2>6, <2>7 DEF WholePackage
<1>16. v # <<>>
  BY <1>1, <1>3
<1>17. Framed(p, v, next)
  <2>1. \A i \in 1 .. N + 1 : i \in 1 .. N \/ i = N + 1
    BY <1>1
  <2>2. \A i \in 1 .. N + 1 :
          /\ \A k \in FirstFrame(next, i) .. next[i] : p[k].more <=> k < next[i]
          /\ \/ WholePackage(p, FirstFrame(next, i), next[i], v[i])
             \/ i = 1 /\ LeftOver(p, 1, next[1], v[1])
    BY <1>3, <1>10, <1>11, <1>14, <1>15, <2>1
  <2> QED
    BY <1>2, <1>3, <1>10, <1>13, <1>16, <2>2 DEF Framed
<1> QED
  BY <1>2, <1>3, <1>9, <1>17 DEF p, v

(* What the frames at the socket are.                                     *)
LEMMA FramedFacts ==
  ASSUME NEW S, NEW q \in Seq(S), NEW U, NEW u \in Seq(U),
         NEW last \in [DOMAIN u -> DOMAIN q], Framed(q, u, last),
         \A v \in U : v.messages \in Seq(Seq(Datum))
  PROVE  /\ Len(q) \in Nat /\ Len(u) \in Nat /\ DOMAIN q = 1 .. Len(q) /\ DOMAIN u = 1 .. Len(u)
         /\ IF u = <<>> THEN q = <<>> ELSE last[Len(u)] = Len(q)
         /\ \A i \in 1 .. Len(u) : /\ last[i] \in 1 .. Len(q)
                                   /\ u[i].messages \in Seq(Seq(Datum))
                                   /\ Len(u[i].messages) \in Nat
                                   /\ DOMAIN u[i].messages = 1 .. Len(u[i].messages)
         /\ \A i, j \in 1 .. Len(u) : i < j => last[i] < last[j]
         /\ \A i \in 1 .. Len(u) :
              /\ \A k \in FirstFrame(last, i) .. last[i] : q[k].more <=> k < last[i]
              /\ \/ WholePackage(q, FirstFrame(last, i), last[i], u[i])
                 \/ i = 1 /\ LeftOver(q, 1, last[1], u[1])
<1>1. Len(q) \in Nat /\ Len(u) \in Nat /\ DOMAIN q = 1 .. Len(q) /\ DOMAIN u = 1 .. Len(u)
  BY LenProperties
<1>2. \A i \in 1 .. Len(u) : u[i].messages \in Seq(Seq(Datum))
  BY <1>1
<1>3. \A m \in Seq(Seq(Datum)) : Len(m) \in Nat /\ DOMAIN m = 1 .. Len(m)
  BY LenProperties
<1> QED
  BY <1>1, <1>2, <1>3 DEF Framed

LEMMA DropFirst ==
  ASSUME NEW S, NEW q \in Seq(S), NEW n \in Nat, n <= Len(q)
  PROVE  LET p == SubSeq(q, n + 1, Len(q)) IN
           /\ p \in Seq(S) /\ Len(p) = Len(q) - n /\ DOMAIN p = 1 .. Len(q) - n
           /\ \A k \in 1 .. Len(q) - n : p[k] = q[k + n]
<1> PICK L \in Nat : L = Len(q)
  OBVIOUS
<1> DEFINE p == SubSeq(q, n + 1, L)
<1>1. n + 1 \in Int /\ L \in Int /\ \A k \in n + 1 .. L : q[k] \in S
  <2>1. \A k \in n + 1 .. L : k \in 1 .. L
    BY ONLY n \in Nat, L \in Nat
  <2> QED
    BY <2>1
<1>2. /\ p \in Seq(S)
      /\ Len(p) = IF n + 1 <= L THEN L - (n + 1) + 1 ELSE 0
      /\ \A k \in 1 .. L - (n + 1) + 1 : p[k] = q[(n + 1) + k - 1]
  BY <1>1, SubSeqProperties
<1> HIDE DEF p
<1>3. /\ L - (n + 1) + 1 = L - n /\ (n + 1 <= L \/ L - n = 0)
      /\ \A k \in 1 .. L - n : (n + 1) + k - 1 = k + n
  BY ONLY n \in Nat, L \in Nat, n <= L
<1>4. Len(p) = L - n
  BY <1>2, <1>3
<1>5. DOMAIN p = 1 .. L - n
  BY <1>2, <1>4, LenProperties
<1>6. \A k \in 1 .. L - n : p[k] = q[k + n]
  BY <1>2, <1>3
<1> QED
  BY <1>2, <1>4, <1>5, <1>6 DEF p

(* The first package is taken.                                             *)
LEMMA TakeFirst ==
  ASSUME NEW S, NEW q \in Seq(S), NEW U, NEW u \in Seq(U), u # <<>>,
         NEW last \in [DOMAIN u -> DOMAIN q], Framed(q, u, last),
         \A v \in U : v.messages \in Seq(Seq(Datum))
  PROVE  /\ SubSeq(q, last[1] + 1, Len(q)) \in Seq(S) /\ Tail(u) \in Seq(U)
         /\ \E next \in [DOMAIN Tail(u) -> DOMAIN SubSeq(q, last[1] + 1, Len(q))] :
              Framed(SubSeq(q, last[1] + 1, Len(q)), Tail(u), next)
<1> DEFINE L == Len(q)
           N == Len(u)
<1>1. /\ L \in Nat /\ N \in Nat /\ DOMAIN q = 1 .. L /\ DOMAIN u = 1 .. N
      /\ last[N] = L
      /\ \A i \in 1 .. N : /\ last[i] \in 1 .. L
                           /\ Len(u[i].messages) \in Nat
                           /\ DOMAIN u[i].messages = 1 .. Len(u[i].messages)
      /\ \A i, j \in 1 .. N : i < j => last[i] < last[j]
      /\ \A i \in 1 .. N :
           /\ \A k \in FirstFrame(last, i) .. last[i] : q[k].more <=> k < last[i]
           /\ \/ WholePackage(q, FirstFrame(last, i), last[i], u[i])
              \/ i = 1 /\ LeftOver(q, 1, last[1], u[1])
  BY FramedFacts
<1> PICK n : n = last[1]
  OBVIOUS
<1> DEFINE p == SubSeq(q, n + 1, L)
           v == Tail(u)
<1>2. /\ v \in Seq(U) /\ Len(v) = N - 1 /\ N # 0 /\ DOMAIN v = 1 .. N - 1
      /\ \A i \in 1 .. N - 1 : v[i] = u[i + 1]
  <2>1. v \in Seq(U) /\ Len(v) = N - 1 /\ N # 0
    BY EmptySeq, HeadTailProperties
  <2>2. \A i \in 1 .. Len(v) : v[i] = u[i + 1]
    BY HeadTailProperties
  <2>3. DOMAIN v = 1 .. Len(v)
    BY <2>1, LenProperties
  <2> HIDE DEF v, N
  <2> QED
    BY <2>1, <2>2, <2>3
<1> HIDE DEF N, v
<1>3. n \in 1 .. L /\ n \in Nat
  BY <1>1, <1>2
<1>4. /\ p \in Seq(S) /\ Len(p) = L - n /\ DOMAIN p = 1 .. L - n
      /\ \A k \in 1 .. L - n : p[k] = q[k + n]
  <2>1. n <= L
    BY <1>1, <1>3
  <2> QED
    BY <1>3, <2>1, DropFirst
<1> DEFINE next == [i \in 1 .. N - 1 |-> last[i + 1] - n]
<1> HIDE DEF L, p
<1>5. \A i \in 1 .. N - 1 : i + 1 \in 1 .. N /\ 1 < i + 1 /\ 1 \in 1 .. N
  BY <1>1
<1>6. \A i \in 1 .. N - 1 : n < last[i + 1] /\ last[i + 1] \in 1 .. L /\ last[i + 1] \in Nat
  BY <1>1, <1>3, <1>5
<1>7. next \in [1 .. N - 1 -> 1 .. L - n]
  BY <1>1, <1>3, <1>6
<1>8. \A i \in 1 .. N - 1 : next[i] = last[i + 1] - n /\ next[i] + n = last[i + 1] /\ next[i] \in Nat
  <2> SUFFICES ASSUME NEW i \in 1 .. N - 1
               PROVE  next[i] = last[i + 1] - n /\ next[i] + n = last[i + 1] /\ next[i] \in Nat
    OBVIOUS
  <2>1. next[i] = last[i + 1] - n
    OBVIOUS
  <2>2. n < last[i + 1] /\ last[i + 1] \in Nat
    BY <1>6
  <2> HIDE DEF next
  <2> PICK y \in Nat : y = last[i + 1]
    BY <2>2
  <2>3. next[i] = y - n /\ n < y
    BY <2>1, <2>2
  <2>4. y - n \in Nat /\ (y - n) + n = y
    BY ONLY <1>3, <2>3, y \in Nat
  <2> QED
    BY <2>3, <2>4
<1> HIDE DEF next
<1>9. \A i \in 1 .. N - 1 : FirstFrame(next, i) + n = FirstFrame(last, i + 1)
                            /\ FirstFrame(next, i) \in Nat /\ FirstFrame(next, i) >= 1
  <2> SUFFICES ASSUME NEW i \in 1 .. N - 1
               PROVE  FirstFrame(next, i) + n = FirstFrame(last, i + 1)
                      /\ FirstFrame(next, i) \in Nat /\ FirstFrame(next, i) >= 1
    OBVIOUS
  <2>1. i \in Nat /\ (i + 1) - 1 = i /\ i + 1 # 1
    BY <1>1
  <2>2. FirstFrame(last, i + 1) = last[i] + 1
    BY ONLY <2>1 DEF FirstFrame
  <2>3. CASE i = 1
    <3>1. FirstFrame(next, i) = 1 /\ last[i] = n
      BY <2>3 DEF FirstFrame
    <3> QED
      BY ONLY <1>3, <2>2, <3>1
  <2>4. CASE i # 1
    <3>1. i - 1 \in 1 .. N - 1 /\ (i - 1) + 1 = i
      BY <1>1, <2>4
    <3>2. next[i - 1] + n = last[i] /\ next[i - 1] \in Nat
      BY <1>8, <3>1
    <3>3. FirstFrame(next, i) = next[i - 1] + 1
      BY <2>4 DEF FirstFrame
    <3>4. last[i] \in Nat
      BY <1>1, <3>1
    <3> PICK x \in Nat : x = next[i - 1]
      BY <3>2
    <3>5. FirstFrame(next, i) = x + 1 /\ FirstFrame(last, i + 1) = (x + n) + 1
      BY <2>2, <3>2, <3>3
    <3>6. (x + 1) + n = (x + n) + 1 /\ x + 1 \in Nat /\ x + 1 >= 1
      BY ONLY <1>3, x \in Nat
    <3> QED
      BY <3>5, <3>6
  <2> QED
    BY <2>3, <2>4
<1>10. \A i, j \in 1 .. N - 1 : i < j => next[i] < next[j]
  <2> SUFFICES ASSUME NEW i \in 1 .. N - 1, NEW j \in 1 .. N - 1, i < j
               PROVE  next[i] < next[j]
    OBVIOUS
  <2>1. i + 1 < j + 1
    BY <1>1
  <2>2. last[i + 1] < last[j + 1]
    BY <1>1, <1>5, <2>1
  <2>3. next[i] \in Nat /\ next[j] \in Nat /\ next[i] + n = last[i + 1] /\ next[j] + n = last[j + 1]
    BY <1>8
  <2> QED
    BY ONLY <1>3, <2>2, <2>3
<1>11. ASSUME NEW i \in 1 .. N - 1
       PROVE  /\ \A k \in FirstFrame(next, i) .. next[i] : p[k].more <=> k < next[i]
              /\ WholePackage(p, FirstFrame(next, i), next[i], v[i])
  <2> DEFINE a == FirstFrame(next, i)
             b == next[i]
  <2>1. /\ a \in Nat /\ a >= 1 /\ b \in Nat /\ b \in 1 .. L - n
        /\ a + n = FirstFrame(last, i + 1) /\ b + n = last[i + 1] /\ v[i] = u[i + 1]
    BY <1>2, <1>7, <1>8, <1>9
  <2> HIDE DEF a, b
  <2>2. /\ \A k \in a + n .. b + n : q[k].more <=> k < b + n
        /\ WholePackage(q, a + n, b + n, u[i + 1])
        /\ Len(u[i + 1].messages) \in Nat
        /\ DOMAIN u[i + 1].messages = 1 .. Len(u[i + 1].messages)
    <3>1. i + 1 \in 1 .. N /\ i + 1 # 1
      BY <1>1, <1>5
    <3> QED
      BY <1>1, <2>1, <3>1
  <2>3. \A k \in a .. b : k \in 1 .. L - n /\ k + n \in a + n .. b + n /\ (k + n < b + n <=> k < b)
    BY ONLY <1>1, <1>3, <2>1
  <2>4. \A k \in a .. b : p[k] = q[k + n]
    BY <1>4, <2>3
  <2> PICK e : e = u[i + 1]
    OBVIOUS
  <2>7. /\ WholePackage(q, a + n, b + n, e)
        /\ Len(e.messages) \in Nat /\ DOMAIN e.messages = 1 .. Len(e.messages)
    BY <2>2
  <2>5. WholePackage(p, a, b, u[i + 1])
    <3>1. WholePackage(p, a, b, e)
      BY ONLY <1>3, <2>1, <2>4, <2>7, SameFrames
    <3> QED
      BY <3>1
  <2>6. \A k \in a .. b : p[k].more <=> k < b
    BY <2>2, <2>3, <2>4
  <2> QED
    BY <2>1, <2>5, <2>6 DEF a, b
<1>12. IF v = <<>> THEN p = <<>> ELSE next[Len(v)] = Len(p)
  <2>1. CASE v = <<>>
    <3>1. Len(v) = 0
      BY <2>1
    <3>2. N = 1
      BY <1>1, <1>2, <3>1
    <3>3. Len(p) = 0
      BY <1>1, <1>3, <1>4, <3>2
    <3>4. p = <<>>
      BY <1>4, <3>3, EmptySeq
    <3> QED
      BY <2>1, <3>4
  <2>2. CASE v # <<>>
    <3>1. Len(v) # 0
      BY <1>2, <2>2, EmptySeq
    <3>2. N - 1 \in 1 .. N - 1 /\ (N - 1) + 1 = N
      BY <1>1, <1>2, <3>1
    <3>3. next[N - 1] = L - n
      BY <1>1, <1>8, <3>2
    <3> QED
      BY <1>2, <1>4, <2>2, <3>3
  <2> QED
    BY <2>1, <2>2
<1>13. Framed(p, v, next)
  BY <1>2, <1>10, <1>11, <1>12 DEF Framed
<1> QED
  BY <1>2, <1>4, <1>7, <1>13 DEF p, v, L

(* A receive without room for all frames takes some of them.               *)
LEMMA TakeSome ==
  ASSUME NEW S, NEW q \in Seq(S), NEW U, NEW u \in Seq(U), u # <<>>,
         NEW last \in [DOMAIN u -> DOMAIN q], Framed(q, u, last),
         \A v \in U : v.messages \in Seq(Seq(Datum)), last[1] > MaxFrames
  PROVE  /\ Len(u[1].messages) > MaxFrames - 2
         /\ SubSeq(q, MaxFrames + 1, Len(q)) \in Seq(S)
         /\ \E next \in [DOMAIN u -> DOMAIN SubSeq(q, MaxFrames + 1, Len(q))] :
              Framed(SubSeq(q, MaxFrames + 1, Len(q)), u, next)
<1> DEFINE L == Len(q)
           N == Len(u)
<1>1. /\ L \in Nat /\ N \in Nat /\ DOMAIN q = 1 .. L /\ DOMAIN u = 1 .. N
      /\ last[N] = L
      /\ \A i \in 1 .. N : /\ last[i] \in 1 .. L
                           /\ Len(u[i].messages) \in Nat
                           /\ DOMAIN u[i].messages = 1 .. Len(u[i].messages)
      /\ \A i, j \in 1 .. N : i < j => last[i] < last[j]
      /\ \A i \in 1 .. N :
           /\ \A k \in FirstFrame(last, i) .. last[i] : q[k].more <=> k < last[i]
           /\ \/ WholePackage(q, FirstFrame(last, i), last[i], u[i])
              \/ i = 1 /\ LeftOver(q, 1, last[1], u[1])
  <2>1. Len(q) \in Nat /\ Len(u) \in Nat /\ DOMAIN q = 1 .. Len(q) /\ DOMAIN u = 1 .. Len(u)
    BY ONLY LenProperties, q \in Seq(S), u \in Seq(U)
  <2>2. last[Len(u)] = Len(q)
    BY ONLY u # <<>>, Framed(q, u, last) DEF Framed
  <2>3. \A i \in 1 .. Len(u) : /\ last[i] \in 1 .. Len(q)
                               /\ Len(u[i].messages) \in Nat
                               /\ DOMAIN u[i].messages = 1 .. Len(u[i].messages)
    BY FramedFacts
  <2>4. /\ \A i, j \in 1 .. Len(u) : i < j => last[i] < last[j]
        /\ \A i \in 1 .. Len(u) :
             /\ \A k \in FirstFrame(last, i) .. last[i] : q[k].more <=> k < last[i]
             /\ \/ WholePackage(q, FirstFrame(last, i), last[i], u[i])
                \/ i = 1 /\ LeftOver(q, 1, last[1], u[1])
    BY ONLY <2>1, Framed(q, u, last) DEF Framed
  <2> QED
    BY <2>1, <2>2, <2>3, <2>4
<1> PICK n \in Nat : n = MaxFrames /\ n >= 3
  OBVIOUS
<1> DEFINE p == SubSeq(q, n + 1, L)
<1>2. N # 0
  BY EmptySeq
<1> HIDE DEF N
<1>3. 1 \in 1 .. N /\ last[1] \in 1 .. L /\ last[1] \in Nat /\ n < last[1] /\ n < L
  BY <1>1, <1>2
<1>4. /\ p \in Seq(S) /\ Len(p) = L - n /\ DOMAIN p = 1 .. L - n
      /\ \A k \in 1 .. L - n : p[k] = q[k + n]
  <2>1. n <= L
    BY <1>1, <1>3
  <2> QED
    BY <1>3, <2>1, DropFirst
<1> DEFINE next == [i \in 1 .. N |-> last[i] - n]
<1> HIDE DEF L, p
<1>5. \A i \in 1 .. N : n < last[i] /\ last[i] \in 1 .. L /\ last[i] \in Nat
  <2> SUFFICES ASSUME NEW i \in 1 .. N
               PROVE  n < last[i] /\ last[i] \in 1 .. L /\ last[i] \in Nat
    OBVIOUS
  <2>1. last[i] \in 1 .. L /\ last[i] \in Nat
    BY <1>1
  <2>2. i = 1 \/ 1 < i
    BY <1>1
  <2>3. i = 1 \/ last[1] < last[i]
    BY <1>1, <1>3, <2>2
  <2> QED
    BY <1>3, <2>1, <2>3
<1>6. next \in [1 .. N -> 1 .. L - n]
  BY <1>1, <1>5
<1>7. \A i \in 1 .. N : next[i] = last[i] - n /\ next[i] + n = last[i] /\ next[i] \in Nat
  BY <1>5
<1> HIDE DEF next
<1>8. \A i, j \in 1 .. N : i < j => next[i] < next[j]
  <2> SUFFICES ASSUME NEW i \in 1 .. N, NEW j \in 1 .. N, i < j
               PROVE  next[i] < next[j]
    OBVIOUS
  <2>1. last[i] < last[j]
    BY <1>1
  <2>2. next[i] \in Nat /\ next[j] \in Nat /\ next[i] + n = last[i] /\ next[j] + n = last[j]
    BY <1>7
  <2> QED
    BY ONLY <2>1, <2>2, n \in Nat
(* What is left of the first package has no address, and is the end of it. *)
<1> PICK m \in Nat : m = Len(u[1].messages)
  BY <1>1, <1>3
<1>9. /\ m > n - 2 /\ last[1] <= m + 2
      /\ \A k \in 2 .. last[1] : ~q[k].address
      /\ \A k \in 1 .. last[1] : q[k].more <=> k < last[1]
      /\ u[1].plain =>
           \A k \in 3 .. last[1] : q[k].data = u[1].messages[m - (last[1] - k)]
  <2>1. /\ \A k \in 1 .. last[1] : q[k].more <=> k < last[1]
        /\ WholePackage(q, 1, last[1], u[1]) \/ LeftOver(q, 1, last[1], u[1])
    BY <1>1, <1>3 DEF FirstFrame
  <2>2. \A k \in 2 .. last[1] : k \in 1 .. last[1] /\ k # 1
    BY <1>3
  <2>3. CASE WholePackage(q, 1, last[1], u[1])
    <3>1. last[1] = 1 + 1 + m
      BY <2>3 DEF WholePackage
    <3>2. m > n - 2 /\ last[1] <= m + 2
      BY ONLY <1>3, <3>1, n \in Nat, m \in Nat
    <3>3. \A k \in 2 .. last[1] : ~q[k].address
      BY <2>2, <2>3 DEF WholePackage
    <3>4. ASSUME u[1].plain, NEW k \in 3 .. last[1]
          PROVE  q[k].data = u[1].messages[m - (last[1] - k)]
      <4>1. k - 2 \in 1 .. m /\ 1 + 1 + (k - 2) = k /\ m - (last[1] - k) = k - 2
        BY ONLY <3>1, m \in Nat, k \in 3 .. last[1]
      <4>2. k - 2 \in DOMAIN u[1].messages
        BY <1>1, <1>3, <4>1
      <4>3. q[1 + 1 + (k - 2)].data = u[1].messages[k - 2]
        BY <2>3, <3>4, <4>2 DEF WholePackage
      <4> QED
        BY <4>1, <4>3
    <3> QED
      BY <2>1, <3>2, <3>3, <3>4
  <2>4. CASE LeftOver(q, 1, last[1], u[1])
    <3>1. m > n - 2 /\ last[1] < 1 + m
      BY <2>4 DEF LeftOver
    <3>2. last[1] <= m + 2
      BY ONLY <1>3, <3>1, m \in Nat
    <3>3. \A k \in 3 .. last[1] : k \in 1 .. last[1]
      BY <1>3
    <3>4. u[1].plain => \A k \in 3 .. last[1] : q[k].data = u[1].messages[m - (last[1] - k)]
      BY <2>4, <3>3 DEF LeftOver
    <3> QED
      BY <2>1, <2>2, <2>4, <3>1, <3>2, <3>4 DEF LeftOver
  <2> QED
    BY <2>1, <2>3, <2>4
<1>10. /\ \A k \in FirstFrame(next, 1) .. next[1] : p[k].more <=> k < next[1]
       /\ LeftOver(p, 1, next[1], u[1])
  <2>1. next[1] + n = last[1] /\ next[1] \in Nat /\ next[1] \in 1 .. L - n
    BY <1>3, <1>6, <1>7
  <2> DEFINE b == next[1]
  <2> HIDE DEF b
  <2>2. \A k \in 1 .. b : /\ k \in 1 .. L - n /\ k + n \in 2 .. last[1] /\ k + n \in 1 .. last[1]
                          /\ (k + n < last[1] <=> k < b)
    BY <1>1, <2>1 DEF b
  <2>3. \A k \in 1 .. b : p[k] = q[k + n]
    BY <1>4, <2>2
  <2>4. \A k \in 1 .. b : (p[k].more <=> k < b) /\ ~p[k].address
    BY <1>9, <2>2, <2>3
  <2>5. b < 1 + m
    BY ONLY <1>3, <1>9, <2>1, m \in Nat, n \in Nat, n >= 3 DEF b
  <2>6. ASSUME u[1].plain, NEW k \in 1 .. b
        PROVE  p[k].data = u[1].messages[m - (b - k)]
    <3>1. b \in Nat /\ b + n = last[1]
      BY <2>1 DEF b
    <3>2. k + n \in 3 .. last[1] /\ m - (last[1] - (k + n)) = m - (b - k)
      BY ONLY <1>3, <3>1, k \in 1 .. b, m \in Nat, n \in Nat, n >= 3
    <3>3. q[k + n].data = u[1].messages[m - (last[1] - (k + n))]
      BY <1>9, <2>6, <3>2
    <3> QED
      BY <2>3, <3>2, <3>3
  <2>7. \A k \in FirstFrame(next, 1) .. next[1] : p[k].more <=> k < next[1]
    BY <2>4 DEF b, FirstFrame
  <2>8. LeftOver(p, 1, b, u[1])
    BY <1>9, <2>4, <2>5, <2>6 DEF LeftOver
  <2> QED
    BY <2>7, <2>8 DEF b
<1>11. ASSUME NEW i \in 1 .. N, i # 1
       PROVE  /\ \A k \in FirstFrame(next, i) .. next[i] : p[k].more <=> k < next[i]
              /\ WholePackage(p, FirstFrame(next, i), next[i], u[i])
  <2> DEFINE a == FirstFrame(next, i)
             b == next[i]
  <2>1. /\ a \in Nat /\ a >= 1 /\ b \in Nat /\ b \in 1 .. L - n
        /\ a + n = FirstFrame(last, i) /\ b + n = last[i]
    <3>1. i - 1 \in 1 .. N
      BY <1>1, <1>11
    <3>2. next[i - 1] + n = last[i - 1] /\ next[i - 1] \in Nat /\ last[i - 1] \in Nat
      BY <1>5, <1>7, <3>1
    <3>3. a = next[i - 1] + 1 /\ FirstFrame(last, i) = last[i - 1] + 1
      BY <1>11 DEF FirstFrame
    <3> PICK x \in Nat : x = next[i - 1]
      BY <3>2
    <3> HIDE DEF a
    <3>4. a \in Nat /\ a >= 1 /\ a + n = last[i - 1] + 1
      <4>1. a = x + 1 /\ x + n = last[i - 1]
        BY <3>2, <3>3
      <4>2. x + 1 \in Nat /\ x + 1 >= 1 /\ (x + 1) + n = (x + n) + 1
        BY ONLY x \in Nat, n \in Nat
      <4> QED
        BY <4>1, <4>2
    <3> QED
      BY <1>6, <1>7, <3>3, <3>4
  <2> HIDE DEF a, b
  <2>2. /\ \A k \in a + n .. b + n : q[k].more <=> k < b + n
        /\ WholePackage(q, a + n, b + n, u[i])
        /\ Len(u[i].messages) \in Nat
        /\ DOMAIN u[i].messages = 1 .. Len(u[i].messages)
    <3>1. /\ \A k \in FirstFrame(last, i) .. last[i] : q[k].more <=> k < last[i]
          /\ WholePackage(q, FirstFrame(last, i), last[i], u[i])
      BY <1>1, <1>11
    <3>2. Len(u[i].messages) \in Nat /\ DOMAIN u[i].messages = 1 .. Len(u[i].messages)
      BY <1>1
    <3> QED
      BY <2>1, <3>1, <3>2
  <2>3. \A k \in a .. b : k \in 1 .. L - n /\ k + n \in a + n .. b + n /\ (k + n < b + n <=> k < b)
    BY <1>1, <2>1
  <2>4. \A k \in a .. b : p[k] = q[k + n]
    BY <1>4, <2>3
  <2>5. WholePackage(p, a, b, u[i])
    BY ONLY <2>1, <2>2, <2>4, SameFrames, n \in Nat
  <2>6. \A k \in a .. b : p[k].more <=> k < b
    BY <2>2, <2>3, <2>4
  <2> QED
    BY <2>5, <2>6 DEF a, b
<1>12. next[N] = Len(p)
  <2>1. N \in 1 .. N
    BY <1>1, <1>2
  <2> QED
    BY <1>1, <1>4, <1>7, <2>1
<1>13. Framed(p, u, next)
  BY <1>1, <1>8, <1>10, <1>11, <1>12 DEF Framed, N
<1> QED
  BY <1>1, <1>4, <1>6, <1>9, <1>13 DEF p, L

-----------------------------------------------------------------------------
(* The invariant.                                                          *)

Frames == [address : BOOLEAN, letter : BOOLEAN, data : Seq(Datum), more : BOOLEAN]
Sent == [messages : Seq(Seq(Datum)), plain : BOOLEAN]
Letters == [size : 0 .. Capacity, offset : 0 .. Capacity, contents : 0 .. Capacity,
            buffer : [1 .. Capacity -> Datum]]

(* What is known of the letter, ...                                        *)
LetterInv ==
  /\ letter \in Letters /\ letter.size + letter.offset <= Capacity
  /\ count \in Nat /\ fit \in BOOLEAN
  /\ fit => letter.contents = letter.size

(* ... and of the socket.                                                  *)
SocketInv ==
  /\ queue \in Seq(Frames) /\ unread \in Seq(Sent)
  /\ \E last \in [DOMAIN unread -> DOMAIN queue] : Framed(queue, unread, last)

LEMMA FramesInvIs == FramesInv <=> LetterInv /\ SocketInv
  BY DEF FramesInv, LetterInv, SocketInv, Frames, Sent, Letters

LEMMA SentMessages == \A e \in Sent : e.messages \in Seq(Seq(Datum)) /\ e.plain \in BOOLEAN
  BY DEF Sent

(* The letter as it is resized, reset and written.                         *)
LEMMA ResizeLetterInv ==
  ASSUME LetterInv, NEW size \in 0 .. Capacity, NEW offset \in Offsets, ResizeLetter(size, offset)
  PROVE  LetterInv'
<1>1. CASE size + offset > Capacity
  BY <1>1 DEF LetterInv, Letters, ResizeLetter, resize
<1>2. CASE ~(size + offset > Capacity)
  <2>1. offset \in Nat /\ size \in Nat /\ size + offset <= Capacity /\ offset \in 0 .. Capacity
    BY <1>2
  <2>2. letter' = [letter EXCEPT !.size = size, !.offset = offset, !.contents = size]
    BY <1>2 DEF ResizeLetter, resize
  <2>3. letter' \in Letters /\ letter'.size = size /\ letter'.offset = offset
        /\ letter'.contents = size
    BY <2>1, <2>2 DEF LetterInv, Letters
  <2>4. fit' \in BOOLEAN /\ count' \in Nat
    BY DEF LetterInv, ResizeLetter
  <2> QED
    BY <2>1, <2>3, <2>4 DEF LetterInv
<1> QED
  BY <1>1, <1>2

LEMMA ResetLetterInv == ASSUME LetterInv, ResetLetter PROVE LetterInv'
<1>1. /\ letter' = [letter EXCEPT !.size = 0, !.offset = 0]
      /\ count' \in Nat /\ fit' = FALSE
  BY DEF LetterInv, ResetLetter, reset
<1>2. 0 \in 0 .. Capacity /\ 0 + 0 <= Capacity
  OBVIOUS
<1>3. letter' \in Letters /\ letter'.size = 0 /\ letter'.offset = 0
  BY <1>1, <1>2 DEF LetterInv, Letters
<1> QED
  BY <1>1, <1>2, <1>3 DEF LetterInv

LEMMA WriteLetterInv == ASSUME LetterInv, WriteLetter PROVE LetterInv'
<1> DEFINE d == [k \in 1 .. Capacity - letter.offset |-> <<count + 1, 1, k>>]
           at == letter.offset + 0
           b == [k \in DOMAIN letter.buffer |-> IF k - at \in DOMAIN d THEN d[k - at]
                                                ELSE letter.buffer[k]]
<1>1. letter' = [letter EXCEPT !.buffer = b]
  BY DEF WriteLetter, write
<1>2. b \in [1 .. Capacity -> Datum]
  <2>1. \A x \in DOMAIN d : d[x] \in Datum
    <3>1. count + 1 \in Nat /\ 1 \in Nat /\ \A x \in DOMAIN d : x \in Nat
      BY DEF LetterInv
    <3> QED
      BY <3>1 DEF Datum
  <2>2. letter.buffer \in [1 .. Capacity -> Datum]
    BY DEF LetterInv, Letters
  <2> HIDE DEF d, at
  <2> QED
    BY <2>1, <2>2
<1> HIDE DEF b
<1>3. letter' \in Letters /\ letter'.size = letter.size /\ letter'.offset = letter.offset
      /\ letter'.contents = letter.contents
  BY <1>1, <1>2 DEF LetterInv, Letters
<1>4. count' = count /\ fit' = fit
  BY DEF WriteLetter
<1> QED
  BY <1>3, <1>4 DEF LetterInv

LEMMA SendLetterInv == ASSUME LetterInv, SendLetter PROVE LetterInv'
<1>1. letter' = [letter EXCEPT !.contents = 0] /\ fit' = FALSE /\ count' = count + 1
  BY DEF SendLetter, SendData, sent
<1>2. 0 \in 0 .. Capacity
  OBVIOUS
<1>3. letter' \in Letters /\ letter'.size = letter.size /\ letter'.offset = letter.offset
  BY <1>1, <1>2 DEF LetterInv, Letters
<1>4. count' \in Nat
  BY <1>1 DEF LetterInv
<1>5. fit' \in BOOLEAN /\ ~fit'
  BY <1>1, Zenon
<1>6. letter'.size + letter'.offset <= Capacity
  BY <1>3 DEF LetterInv
<1> QED
  BY <1>3, <1>4, <1>5, <1>6 DEF LetterInv

(* The frames of a package as they are put at the socket.                  *)
AsSent(frames) ==
  [i \in DOMAIN frames |->
     [address |-> frames[i].address, letter |-> frames[i].letter,
      data |-> frames[i].data, more |-> i < Len(frames)]]

Unsent == [address : BOOLEAN, letter : BOOLEAN, data : Seq(Datum)]

LEMMA UnsentType ==
  \A a, l \in BOOLEAN, d \in Seq(Datum) :
    [address |-> a, letter |-> l, data |-> d] \in Unsent
  BY DEF Unsent

LEMMA FrameType ==
  ASSUME NEW a \in BOOLEAN, NEW l \in BOOLEAN, NEW d \in Seq(Datum), NEW m \in BOOLEAN
  PROVE  [address |-> a, letter |-> l, data |-> d, more |-> m] \in Frames
  BY SMT DEF Frames

LEMMA FrameFields ==
  ASSUME NEW a, NEW l, NEW d, NEW m, NEW f,
         f = [address |-> a, letter |-> l, data |-> d, more |-> m]
  PROVE  f.address = a /\ f.letter = l /\ f.data = d /\ f.more = m
  BY SMT

(* A package with its address and its empty frame is whole.                *)
LEMMA LoadedIsWhole ==
  ASSUME NEW contents \in Seq(Unsent), NEW package \in Sent,
         Len(package.messages) = Len(contents),
         \A m \in 1 .. Len(contents) : ~contents[m].address,
         package.plain => \A m \in 1 .. Len(contents) : contents[m].data = package.messages[m]
  PROVE  LET f == AsSent(LoadMultipart(contents)) IN
           /\ f \in Seq(Frames)
           /\ \A k \in 1 .. Len(f) : f[k].more <=> k < Len(f)
           /\ WholePackage(f, 1, Len(f), package)
<1> DEFINE e == Frame(<<>>)
           head == <<Address, e>>
           g == head \o contents
           f == AsSent(g)
<1> PICK n \in Nat : n = Len(contents)
  OBVIOUS
<1>1. /\ e = [address |-> FALSE, letter |-> FALSE, data |-> <<>>]
      /\ Address = [address |-> TRUE, letter |-> FALSE, data |-> <<>>]
  BY DEF Frame, Address
<1>2. /\ Len(head) = 2 /\ head[1] = Address /\ head[2] = e
      /\ Address.address = TRUE /\ Address.letter = FALSE /\ Address.data = <<>>
      /\ e.address = FALSE /\ e.letter = FALSE /\ e.data = <<>>
      /\ head \in Seq(Unsent) /\ contents \in Seq(Unsent)
  <2>1. <<>> \in Seq(Datum)
    OBVIOUS
  <2>2. e \in Unsent /\ Address \in Unsent
    <3>1. TRUE \in BOOLEAN /\ FALSE \in BOOLEAN
      OBVIOUS
    <3> QED
      BY <1>1, <2>1, <3>1, UnsentType, Zenon
  <2>3. contents \in Seq(Unsent)
    OBVIOUS
  <2>4. e.address = FALSE /\ e.letter = FALSE /\ e.data = <<>>
    BY <1>1
  <2>5. Address.address = TRUE /\ Address.letter = FALSE /\ Address.data = <<>>
    BY <1>1
  <2> HIDE DEF e
  <2>6. head \in Seq(Unsent) /\ Len(head) = 2 /\ head[1] = Address /\ head[2] = e
    BY <2>2
  <2> QED
    BY <2>3, <2>4, <2>5, <2>6
<1> HIDE DEF e, head
<1>11. head \in Seq(Unsent) /\ contents \in Seq(Unsent)
  BY <1>2, Zenon
<1>12. /\ Len(head) = 2 /\ head[1] = Address /\ head[2] = e
       /\ 1 \in 1 .. Len(head) /\ 2 \in 1 .. Len(head)
  <2>1. Len(head) = 2 /\ head[1] = Address /\ head[2] = e
    BY <1>2, Zenon
  <2> QED
    BY <2>1
<1>3. /\ Len(g) = 2 + n /\ DOMAIN g = 1 .. 2 + n
      /\ g[1] = head[1] /\ g[2] = head[2] /\ \A m \in 1 .. n : g[2 + m] = contents[m]
  <2>1. /\ g \in Seq(Unsent) /\ Len(g) = Len(head) + Len(contents)
        /\ \A i \in 1 .. Len(head) + Len(contents) :
             g[i] = IF i <= Len(head) THEN head[i] ELSE contents[i - Len(head)]
    BY ONLY <1>11, ConcatProperties DEF g
  <2> HIDE DEF g
  <2>2. /\ 1 \in 1 .. 2 + n /\ 1 <= 2 /\ 2 \in 1 .. 2 + n /\ 2 <= 2
        /\ \A m \in 1 .. n : 2 + m \in 1 .. 2 + n /\ ~(2 + m <= 2) /\ (2 + m) - 2 = m
    BY ONLY n \in Nat
  <2>3. DOMAIN g = 1 .. Len(g)
    BY <2>1, LenProperties
  <2> QED
    BY <1>2, <2>1, <2>2, <2>3
<1> HIDE DEF g
<1>4. \A i \in 1 .. 2 + n : i = 1 \/ i = 2 \/ \E m \in 1 .. n : i = 2 + m
  <2> SUFFICES ASSUME NEW i \in 1 .. 2 + n, i # 1, i # 2
               PROVE  \E m \in 1 .. n : i = 2 + m
    OBVIOUS
  <2>1. i - 2 \in 1 .. n /\ i = 2 + (i - 2)
    BY ONLY n \in Nat, i \in 1 .. 2 + n, i # 1, i # 2
  <2> QED
    BY <2>1
<1>6. \A i \in 1 .. 2 + n : g[i].address \in BOOLEAN /\ g[i].letter \in BOOLEAN
                            /\ g[i].data \in Seq(Datum) /\ (g[i].address <=> i = 1)
  <2> SUFFICES ASSUME NEW i \in 1 .. 2 + n
               PROVE  g[i] \in Unsent /\ (g[i].address <=> i = 1)
    BY DEF Unsent
  <2>4. Address \in Unsent /\ e \in Unsent
    <3>1. head[1] \in Unsent /\ head[2] \in Unsent
      BY ONLY <1>11, <1>12, ElementOfSeq
    <3> QED
      BY <1>12, <3>1, Zenon
  <2>1. CASE i = 1
    BY <1>2, <1>3, <2>1, <2>4
  <2>2. CASE i = 2
    BY <1>2, <1>3, <2>2, <2>4
  <2>3. CASE \E m \in 1 .. n : i = 2 + m
    <3> PICK m \in 1 .. n : i = 2 + m
      BY <2>3
    <3>1. 2 + m # 1
      OBVIOUS
    <3>2. g[i] = contents[m] /\ contents[m] \in Unsent /\ ~contents[m].address
      BY <1>3
    <3> QED
      BY <3>1, <3>2
  <2> QED
    BY <1>4, <2>1, <2>2, <2>3
<1>7. \A i \in 1 .. 2 + n : /\ f[i] \in Frames
                             /\ f[i].address = g[i].address /\ f[i].letter = g[i].letter
                             /\ f[i].data = g[i].data /\ f[i].more = (i < 2 + n)
  <2> SUFFICES ASSUME NEW i \in 1 .. 2 + n
               PROVE  /\ f[i] \in Frames
                      /\ f[i].address = g[i].address /\ f[i].letter = g[i].letter
                      /\ f[i].data = g[i].data /\ f[i].more = (i < 2 + n)
    OBVIOUS
  <2>1. f[i] = [address |-> g[i].address, letter |-> g[i].letter,
                data |-> g[i].data, more |-> i < 2 + n]
    BY <1>3 DEF AsSent
  <2>2. (i < 2 + n) \in BOOLEAN
    OBVIOUS
  <2> HIDE DEF f
  <2>3. f[i] \in Frames
    BY <1>6, <2>1, <2>2, FrameType
  <2>4. f[i].more = (i < 2 + n)
    <3> PICK b : b = (i < 2 + n)
      BY Zenon
    <3>1. f[i] = [address |-> g[i].address, letter |-> g[i].letter, data |-> g[i].data, more |-> b]
      BY <2>1, Zenon
    <3>2. f[i].more = b
      BY ONLY <3>1, FrameFields
    <3> QED
      BY <3>2, Zenon
  <2>5. f[i].address = g[i].address /\ f[i].letter = g[i].letter /\ f[i].data = g[i].data
    BY <2>1, FrameFields
  <2> QED
    BY <2>3, <2>4, <2>5, Zenon
<1>8. /\ DOMAIN f = 1 .. 2 + n /\ f \in Seq(Frames) /\ Len(f) = 2 + n
  <2>1. DOMAIN f = 1 .. 2 + n
    BY <1>3 DEF AsSent
  <2>3. f \in [1 .. 2 + n -> Frames]
    BY <1>3, <1>7, <2>1 DEF AsSent
  <2> HIDE DEF f
  <2>4. 2 + n \in Nat
    OBVIOUS
  <2> QED
    BY <2>1, <2>3, <2>4
<1> HIDE DEF f
<1>9. \A k \in 1 .. Len(f) : f[k].more <=> k < Len(f)
  <2> SUFFICES ASSUME NEW k \in 1 .. Len(f)
               PROVE  f[k].more <=> k < Len(f)
    OBVIOUS
  <2>1. f[k].more = (k < 2 + n)
    BY <1>7, <1>8
  <2> QED
    BY <1>8, <2>1, Zenon
<1>10. WholePackage(f, 1, Len(f), package)
  <2>1. Len(f) = 1 + 1 + Len(package.messages)
    BY <1>8
  <2>2. \A k \in 1 .. Len(f) : f[k].address <=> k = 1
    BY <1>6, <1>7, <1>8
  <2>3. f[1 + 1].data = <<>> /\ ~f[1 + 1].letter
    <3>1. 1 + 1 \in 1 .. 2 + n /\ 1 + 1 = 2
      OBVIOUS
    <3> QED
      BY <1>2, <1>3, <1>7, <3>1
  <2>4. package.plain =>
          \A m \in DOMAIN package.messages : f[1 + 1 + m].data = package.messages[m]
    <3>1. DOMAIN package.messages = 1 .. n
      BY DEF Sent
    <3>2. \A m \in 1 .. n : 1 + 1 + m = 2 + m /\ 2 + m \in 1 .. 2 + n
      OBVIOUS
    <3>3. \A m \in 1 .. n : f[1 + 1 + m].data = contents[m].data
      BY <1>3, <1>7, <3>2
    <3> QED
      BY <3>1, <3>3
  <2> QED
    BY <2>1, <2>2, <2>3, <2>4 DEF WholePackage
<1> QED
  BY <1>8, <1>9, <1>10 DEF f, g, head, e, LoadMultipart

(* A package is appended to those at the socket.                           *)
LEMMA SendDataInv ==
  ASSUME SocketInv, NEW contents \in Seq(Unsent), NEW package \in Sent,
         Len(package.messages) = Len(contents),
         \A m \in 1 .. Len(contents) : ~contents[m].address,
         package.plain => \A m \in 1 .. Len(contents) : contents[m].data = package.messages[m],
         SendData(LoadMultipart(contents)), unread' = Append(unread, package)
  PROVE  SocketInv'
<1> DEFINE f == AsSent(LoadMultipart(contents))
<1>1. queue' = queue \o f
  BY DEF SendData, AsSent
<1>2. /\ f \in Seq(Frames) /\ WholePackage(f, 1, Len(f), package)
      /\ \A k \in 1 .. Len(f) : f[k].more <=> k < Len(f)
  BY LoadedIsWhole
<1> HIDE DEF f
<1>3. PICK last \in [DOMAIN unread -> DOMAIN queue] : Framed(queue, unread, last)
  BY DEF SocketInv
<1>4. queue \in Seq(Frames) /\ unread \in Seq(Sent)
  BY DEF SocketInv
<1>5. \A v \in Sent : v.messages \in Seq(Seq(Datum))
  BY SentMessages
<1>6. \E next \in [DOMAIN Append(unread, package) -> DOMAIN (queue \o f)] :
        Framed(queue \o f, Append(unread, package), next)
  BY <1>2, <1>3, <1>4, <1>5, AddPackage
<1>7. queue' \in Seq(Frames) /\ unread' \in Seq(Sent)
  BY <1>1, <1>2, <1>4, ConcatProperties, AppendProperties
<1> QED
  BY <1>1, <1>6, <1>7, Zenon DEF SocketInv

LEMMA SendInv ==
  ASSUME LetterInv, SocketInv, NEW lengths \in Packages, Send(lengths)
  PROVE  LetterInv' /\ SocketInv'
<1> DEFINE t == Tagged(lengths)
           contents == [m \in DOMAIN lengths |-> Frame(t[m])]
           package == [messages |-> t, plain |-> TRUE]
<1> PICK n \in Nat : n = Len(lengths) /\ DOMAIN lengths = 1 .. n
  <2>1. lengths \in Seq(Nat)
    OBVIOUS
  <2> QED
    BY <2>1, LenProperties
<1>1. t \in Seq(Seq(Datum)) /\ Len(t) = n /\ DOMAIN t = 1 .. n
  <2>1. \A m \in 1 .. n : lengths[m] \in Nat
    OBVIOUS
  <2>2. \A m \in 1 .. n : \A k \in 1 .. lengths[m] : <<count + 1, m, k>> \in Datum
    <3>1. count + 1 \in Nat
      BY DEF LetterInv
    <3>2. \A m \in 1 .. n : m \in Nat /\ \A k \in 1 .. lengths[m] : k \in Nat
      BY <2>1
    <3> QED
      BY <3>1, <3>2 DEF Datum
  <2>3. \A m \in 1 .. n : t[m] \in Seq(Datum)
    <3> SUFFICES ASSUME NEW m \in 1 .. n PROVE t[m] \in Seq(Datum)
      OBVIOUS
    <3> PICK l \in Nat : l = lengths[m]
      BY <2>1
    <3>1. t[m] = [k \in 1 .. l |-> <<count + 1, m, k>>]
      BY DEF Tagged
    <3>2. t[m] \in [1 .. l -> Datum]
      BY <2>2, <3>1
    <3> QED
      BY <3>2
  <2>4. DOMAIN t = 1 .. n /\ t \in [1 .. n -> Seq(Datum)]
    BY <2>3 DEF Tagged
  <2> HIDE DEF t
  <2> QED
    BY <2>4
<1> HIDE DEF t
<1>2. \A m \in 1 .. n : contents[m] = [address |-> FALSE, letter |-> FALSE, data |-> t[m]]
  BY DEF Frame
<1>3. \A m \in 1 .. n : contents[m] \in Unsent /\ ~contents[m].address /\ contents[m].data = t[m]
  <2> SUFFICES ASSUME NEW m \in 1 .. n
               PROVE  contents[m] \in Unsent /\ ~contents[m].address /\ contents[m].data = t[m]
    OBVIOUS
  <2>1. contents[m] = [address |-> FALSE, letter |-> FALSE, data |-> t[m]]
    BY <1>2
  <2> HIDE DEF contents
  <2>2. t[m] \in Seq(Datum) /\ FALSE \in BOOLEAN
    BY <1>1
  <2>3. contents[m] \in Unsent
    BY ONLY <2>1, <2>2, UnsentType, Zenon
  <2>4. ~contents[m].address /\ contents[m].data = t[m]
    BY ONLY <2>1
  <2> QED
    BY <2>3, <2>4
<1>4. contents \in Seq(Unsent) /\ Len(contents) = n
  <2>1. DOMAIN contents = 1 .. n /\ contents \in [1 .. n -> Unsent]
    BY <1>3
  <2> HIDE DEF contents
  <2> QED
    BY <2>1
<1>5. package \in Sent /\ package.messages = t
  <2>1. TRUE \in BOOLEAN
    OBVIOUS
  <2> QED
    BY <1>1, <2>1 DEF Sent
<1>6. /\ SendData(LoadMultipart(contents)) /\ unread' = Append(unread, package)
      /\ letter' = letter /\ fit' = fit
  BY DEF Send, t
<1> HIDE DEF contents, package
<1>7. SocketInv'
  <2>1. Len(package.messages) = Len(contents)
    BY <1>1, <1>4, <1>5
  <2>2. /\ \A m \in 1 .. Len(contents) : ~contents[m].address
        /\ \A m \in 1 .. Len(contents) : contents[m].data = package.messages[m]
    BY <1>3, <1>4, <1>5
  <2> QED
    BY <1>4, <1>5, <1>6, <2>1, <2>2, SendDataInv
<1>8. count' = count + 1
  BY <1>6 DEF SendData
<1>9. LetterInv'
  BY <1>6, <1>8 DEF LetterInv
<1> QED
  BY <1>7, <1>9

(* The letter as it is sent, and as its owner sees it.                     *)
LEMMA LetterParts ==
  ASSUME LetterInv
  PROVE  /\ frame(letter) \in Seq(Datum) /\ shown(letter) \in Seq(Datum)
         /\ fit /\ letter.offset = 0 => frame(letter) = shown(letter)
<1>1. /\ letter.buffer \in [1 .. Capacity -> Datum]
      /\ letter.contents \in 0 .. Capacity /\ letter.offset \in Nat /\ letter.size \in Nat
      /\ letter.offset + letter.size <= Capacity
      /\ fit => letter.contents = letter.size
  <2>1. letter \in Letters
    BY DEF LetterInv
  <2>2. /\ letter.buffer \in [1 .. Capacity -> Datum]
        /\ letter.contents \in 0 .. Capacity /\ letter.offset \in 0 .. Capacity
        /\ letter.size \in 0 .. Capacity
    BY <2>1 DEF Letters
  <2>3. letter.offset + letter.size = letter.size + letter.offset
    BY <2>2
  <2> QED
    BY <2>2, <2>3 DEF LetterInv
<1> PICK b : b = letter.buffer
  OBVIOUS
<1> PICK o \in Nat : o = letter.offset
  BY <1>1
<1> PICK s \in Nat : s = letter.size
  BY <1>1
<1> PICK c \in 0 .. Capacity : c = letter.contents
  BY <1>1
<1>2. frame(letter) = SubSeq(b, 1, c) /\ shown(letter) = SubSeq(b, o + 1, o + s)
  BY DEF frame, shown
<1>3. b \in [1 .. Capacity -> Datum] /\ o + s <= Capacity /\ (fit => c = s)
  BY <1>1
<1>4. SubSeq(b, 1, c) \in Seq(Datum)
  <2>1. \A k \in 1 .. c : k \in 1 .. Capacity
    OBVIOUS
  <2> QED
    BY <1>3, <2>1, SubSeqProperties
<1>5. SubSeq(b, o + 1, o + s) \in Seq(Datum)
  <2>1. o + 1 \in Int /\ o + s \in Int /\ \A k \in o + 1 .. o + s : k \in 1 .. Capacity
    BY <1>3
  <2> QED
    BY <1>3, <2>1, SubSeqProperties
<1>6. ASSUME fit, letter.offset = 0 PROVE frame(letter) = shown(letter)
  <2>1. o + 1 = 1 /\ o + s = c
    BY <1>3, <1>6
  <2> QED
    BY ONLY <1>2, <2>1
<1> QED
  BY <1>2, <1>4, <1>5, <1>6

LEMMA SendLetterSocket ==
  ASSUME LetterInv, SocketInv, SendLetter
  PROVE  SocketInv'
<1> DEFINE plain == fit /\ letter.offset = 0
           contents == <<LetterFrame>>
           package == [messages |-> <<shown(letter)>>, plain |-> plain]
<1>1. LetterFrame \in Unsent /\ ~LetterFrame.address /\ LetterFrame.data = frame(letter)
  <2>1. LetterFrame = [address |-> FALSE, letter |-> TRUE, data |-> frame(letter)]
    BY DEF LetterFrame
  <2>2. frame(letter) \in Seq(Datum) /\ FALSE \in BOOLEAN /\ TRUE \in BOOLEAN
    BY LetterParts
  <2> QED
    BY <2>1, <2>2, UnsentType
<1>2. contents \in Seq(Unsent) /\ Len(contents) = 1 /\ contents[1] = LetterFrame
  BY <1>1
<1>3. <<shown(letter)>> \in Seq(Seq(Datum)) /\ Len(<<shown(letter)>>) = 1
      /\ <<shown(letter)>>[1] = shown(letter)
  BY LetterParts
<1>4. plain \in BOOLEAN
  BY Zenon DEF LetterInv
<1>5. SendData(LoadMultipart(contents)) /\ unread' = Append(unread, package)
  BY DEF SendLetter
<1>6. plain => frame(letter) = shown(letter)
  BY LetterParts
<1> HIDE DEF contents, plain
<1>7. package \in Sent /\ package.messages = <<shown(letter)>> /\ package.plain = plain
  <2> PICK s : s = <<shown(letter)>>
    OBVIOUS
  <2>1. s \in Seq(Seq(Datum)) /\ package = [messages |-> s, plain |-> plain]
    BY <1>3
  <2> HIDE DEF package
  <2>2. package \in Sent
    BY <1>4, <2>1 DEF Sent
  <2>3. package.messages = s
    BY <2>1
  <2>4. package.plain = plain
    BY <2>1, Zenon
  <2> QED
    BY <2>2, <2>3, <2>4, Zenon
<1> HIDE DEF package
<1>8. Len(package.messages) = Len(contents)
  BY <1>2, <1>3, <1>7
<1>9. \A m \in 1 .. Len(contents) : m = 1
  BY <1>2
<1>10. \A m \in 1 .. Len(contents) : ~contents[m].address
  BY <1>1, <1>2, <1>9
<1>11. ASSUME package.plain
       PROVE  \A m \in 1 .. Len(contents) : contents[m].data = package.messages[m]
  <2>1. plain
    BY <1>7, <1>11, Zenon
  <2>2. contents[1].data = package.messages[1]
    BY <1>1, <1>2, <1>3, <1>6, <1>7, <2>1
  <2> QED
    BY <1>9, <2>2
<1> QED
  BY <1>2, <1>5, <1>7, <1>8, <1>10, <1>11, SendDataInv

(* The frames a receive looks at are those of the first package.           *)
LEMMA FirstLenIs ==
  ASSUME SocketInv, queue # <<>>,
         NEW last \in [DOMAIN unread -> DOMAIN queue], Framed(queue, unread, last)
  PROVE  /\ unread # <<>> /\ FirstLen = last[1]
         /\ FirstLen \in 1 .. Len(queue) /\ Head(unread) = unread[1]
         /\ Len(unread[1].messages) \in Nat
         /\ WholePackage(queue, 1, FirstLen, unread[1]) \/ LeftOver(queue, 1, FirstLen, unread[1])
<1>1. queue \in Seq(Frames) /\ unread \in Seq(Sent)
  BY DEF SocketInv
<1>2. unread # <<>>
  BY DEF Framed
<1> PICK L \in Nat : L = Len(queue)
  BY <1>1
<1>3. /\ DOMAIN queue = 1 .. L /\ 1 \in 1 .. Len(unread)
      /\ \A i \in 1 .. Len(unread) : /\ last[i] \in 1 .. L
                                     /\ Len(unread[i].messages) \in Nat
      /\ \A i \in 1 .. Len(unread) :
           /\ \A k \in FirstFrame(last, i) .. last[i] : queue[k].more <=> k < last[i]
           /\ \/ WholePackage(queue, FirstFrame(last, i), last[i], unread[i])
              \/ i = 1 /\ LeftOver(queue, 1, last[1], unread[1])
  <2>1. 1 \in 1 .. Len(unread)
    BY <1>1, <1>2, EmptySeq
  <2> QED
    BY <1>1, <2>1, SentMessages, FramedFacts
<1>4. last[1] \in 1 .. L /\ \A k \in 1 .. last[1] : queue[k].more <=> k < last[1]
  BY <1>3 DEF FirstFrame
<1> PICK n \in 1 .. L : n = last[1]
  BY <1>4
<1>5. ~queue[n].more /\ \A k \in 1 .. n - 1 : queue[k].more
  <2>1. n \in 1 .. n /\ ~(n < n) /\ \A k \in 1 .. n - 1 : k \in 1 .. n /\ k < n
    OBVIOUS
  <2> QED
    BY <1>4, <2>1
<1>6. \A x \in 1 .. L :
        ~queue[x].more /\ (\A k \in 1 .. x - 1 : queue[k].more) => x = n
  <2> SUFFICES ASSUME NEW x \in 1 .. L, ~queue[x].more, \A k \in 1 .. x - 1 : queue[k].more
               PROVE  x = n
    OBVIOUS
  <2>1. CASE x < n
    <3>1. x \in 1 .. n - 1
      BY <2>1
    <3> QED
      BY <1>5, <3>1
  <2>2. CASE n < x
    <3>1. n \in 1 .. x - 1
      BY <2>2
    <3> QED
      BY <1>5, <3>1
  <2> QED
    BY <2>1, <2>2
<1>7. FirstLen = n
  BY <1>3, <1>5, <1>6 DEF FirstLen
<1>8. Head(unread) = unread[1]
  BY <1>1, <1>2, HeadTailProperties
<1>9. WholePackage(queue, 1, last[1], unread[1]) \/ LeftOver(queue, 1, last[1], unread[1])
  BY <1>3 DEF FirstFrame
<1> QED
  BY <1>2, <1>3, <1>7, <1>8, <1>9

(* A receive that reads the first package to its end.                      *)
LEMMA FirstIsTaken ==
  ASSUME SocketInv, queue # <<>>, queue' = SubSeq(queue, FirstLen + 1, Len(queue)),
         unread' = Tail(unread)
  PROVE  SocketInv'
<1>1. PICK last \in [DOMAIN unread -> DOMAIN queue] : Framed(queue, unread, last)
  BY DEF SocketInv
<1>2. FirstLen = last[1] /\ unread # <<>>
  BY <1>1, FirstLenIs
<1>3. queue \in Seq(Frames) /\ unread \in Seq(Sent)
  BY DEF SocketInv
<1>4. /\ queue' \in Seq(Frames) /\ unread' \in Seq(Sent)
      /\ \E next \in [DOMAIN unread' -> DOMAIN queue'] : Framed(queue', unread', next)
  BY <1>1, <1>2, <1>3, SentMessages, TakeFirst
<1> QED
  BY <1>4 DEF SocketInv

(* A receive that runs out of room.                                        *)
LEMMA SomeAreTaken ==
  ASSUME SocketInv, ReceiveTooMany
  PROVE  SocketInv' /\ Len(Head(unread).messages) > MaxFrames - 2
<1>1. PICK last \in [DOMAIN unread -> DOMAIN queue] : Framed(queue, unread, last)
  BY DEF SocketInv
<1>2. /\ queue # <<>> /\ FirstLen > MaxFrames /\ unread' = unread
      /\ queue' = SubSeq(queue, MaxFrames + 1, Len(queue))
  BY DEF ReceiveTooMany
<1>3. FirstLen = last[1] /\ unread # <<>> /\ Head(unread) = unread[1]
  BY <1>1, <1>2, FirstLenIs
<1>4. queue \in Seq(Frames) /\ unread \in Seq(Sent)
  BY DEF SocketInv
<1>5. last[1] > MaxFrames
  BY <1>2, <1>3
<1>6. /\ Len(unread[1].messages) > MaxFrames - 2
      /\ queue' \in Seq(Frames)
      /\ \E next \in [DOMAIN unread -> DOMAIN queue'] : Framed(queue', unread, next)
  BY <1>1, <1>2, <1>3, <1>4, <1>5, SentMessages, TakeSome
<1> QED
  BY <1>2, <1>3, <1>4, <1>6 DEF SocketInv

(* What a receive that ends in an exception has read.                      *)
LEMMA ThrownIsOdd ==
  ASSUME SocketInv, Receive \/ ReceiveOne, result' = "thrown"
  PROVE  Odd(Head(unread))
<1>1. CASE ReceiveTooMany
  BY <1>1, SomeAreTaken DEF Odd
<1>2. PICK last \in [DOMAIN unread -> DOMAIN queue] : Framed(queue, unread, last)
  BY DEF SocketInv
<1>3. ASSUME queue # <<>>
      PROVE  /\ Head(unread) = unread[1] /\ Len(unread[1].messages) \in Nat
             /\ FirstLen \in 1 .. Len(queue)
             /\ \/ WholePackage(queue, 1, FirstLen, unread[1])
                \/ LeftOver(queue, 1, FirstLen, unread[1])
  BY <1>2, <1>3, FirstLenIs
<1>4. CASE ReceiveIncomplete
  <2>1. queue # <<>> /\ FirstLen < 3
    BY <1>4 DEF ReceiveIncomplete
  <2>2. CASE WholePackage(queue, 1, FirstLen, unread[1])
    <3> PICK n \in Nat : n = Len(unread[1].messages)
      BY <1>3, <2>1
    <3>1. FirstLen = 1 + 1 + n
      BY <2>2 DEF WholePackage
    <3>2. 1 + 1 + n < 3
      BY <2>1, <3>1
    <3>3. n = 0
      BY ONLY <3>2, n \in Nat
    <3> QED
      BY <1>3, <2>1, <3>3 DEF Odd
  <2>3. CASE LeftOver(queue, 1, FirstLen, unread[1])
    BY <1>3, <2>1, <2>3 DEF LeftOver, Odd
  <2> QED
    BY <1>3, <2>1, <2>2, <2>3
<1>5. CASE queue # <<>> /\ result' \in SetPortName(queue[1])
  <2>1. ~queue[1].address
    BY <1>5 DEF SetPortName
  <2>2. 1 \in 1 .. FirstLen
    BY <1>3, <1>5
  <2>3. ~WholePackage(queue, 1, FirstLen, unread[1])
    BY <2>1, <2>2 DEF WholePackage
  <2>4. LeftOver(queue, 1, FirstLen, unread[1]) /\ Head(unread) = unread[1]
    BY <1>3, <1>5, <2>3
  <2> QED
    BY <2>4 DEF LeftOver, Odd
<1>6. ReceiveMessages \/ ReceiveOne => queue # <<>> /\ result' \in SetPortName(queue[1])
  BY DEF ReceiveMessages, ReceiveOne, ReceivePackage
<1> QED
  BY <1>1, <1>4, <1>5, <1>6 DEF Receive

-----------------------------------------------------------------------------
(* The steps.                                                              *)

LEMMA FramesInit == Init => FramesInv
<1> SUFFICES ASSUME Init PROVE LetterInv /\ SocketInv
  BY FramesInvIs
<1>1. LetterInv
  <2>1. NewMessage \in Letters /\ NewMessage.size = 0 /\ NewMessage.offset = 0
    <3>1. 0 \in 0 .. Capacity
      OBVIOUS
    <3>2. [k \in 1 .. Capacity |-> Blank] \in [1 .. Capacity -> Datum]
      BY DEF Datum
    <3> QED
      BY <3>1, <3>2 DEF NewMessage, Letters
  <2>2. letter = NewMessage /\ count = 0
    BY DEF Init
  <2>3. fit \in BOOLEAN /\ ~fit
    BY Zenon DEF Init
  <2>4. 0 + 0 <= Capacity
    OBVIOUS
  <2> QED
    BY <2>1, <2>2, <2>3, <2>4 DEF LetterInv
<1>2. SocketInv
  <2>1. queue = <<>> /\ unread = <<>>
    BY DEF Init
  <2>2. queue \in Seq(Frames) /\ unread \in Seq(Sent)
    BY <2>1
  <2> DEFINE last == [i \in DOMAIN unread |-> i]
  <2>3. DOMAIN unread = {} /\ DOMAIN queue = {}
    BY <2>1
  <2>4. last \in [DOMAIN unread -> DOMAIN queue]
    BY <2>3
  <2>5. Framed(queue, unread, last)
    BY <2>1, <2>3 DEF Framed
  <2> QED
    BY <2>2, <2>4, <2>5 DEF SocketInv
<1> QED
  BY <1>1, <1>2

LEMMA FramesNext == FramesInv /\ [Next]_vars => FramesInv'
<1> SUFFICES ASSUME FramesInv, [Next]_vars PROVE FramesInv'
  OBVIOUS
<1>1. LetterInv /\ SocketInv
  BY FramesInvIs
<1>2. ASSUME UNCHANGED <<queue, unread>> PROVE SocketInv'
  BY <1>1, <1>2 DEF SocketInv
<1>3. ASSUME UNCHANGED <<letter, count, fit>> PROVE LetterInv'
  BY <1>1, <1>3 DEF LetterInv
<1>4. LetterInv' /\ SocketInv' => FramesInv'
  BY FramesInvIs, PTL
<1>5. CASE \E lengths \in Packages : Send(lengths)
  BY <1>1, <1>4, <1>5, SendInv
<1>6. CASE SendLetter
  BY <1>1, <1>4, <1>6, SendLetterInv, SendLetterSocket
<1>7. CASE ResetLetter
  <2>1. UNCHANGED <<queue, unread>>
    BY <1>7 DEF ResetLetter
  <2> QED
    BY <1>1, <1>2, <1>4, <1>7, <2>1, ResetLetterInv
<1>8. CASE WriteLetter
  <2>1. UNCHANGED <<queue, unread>>
    BY <1>8 DEF WriteLetter
  <2> QED
    BY <1>1, <1>2, <1>4, <1>8, <2>1, WriteLetterInv
<1>9. CASE \E size \in 0 .. Capacity, offset \in Offsets : ResizeLetter(size, offset)
  <2> PICK size \in 0 .. Capacity, offset \in Offsets : ResizeLetter(size, offset)
    BY <1>9
  <2>1. UNCHANGED <<queue, unread>>
    BY DEF ResizeLetter
  <2> QED
    BY <1>1, <1>2, <1>4, <2>1, ResizeLetterInv
<1>10. CASE ReceiveTooMany
  <2>1. UNCHANGED <<letter, count, fit>>
    BY <1>10 DEF ReceiveTooMany
  <2> QED
    BY <1>1, <1>3, <1>4, <1>10, <2>1, SomeAreTaken
<1>11. ASSUME ReceiveIncomplete \/ ReceiveMessages \/ ReceiveOne PROVE FramesInv'
  <2>1. /\ queue # <<>> /\ queue' = SubSeq(queue, FirstLen + 1, Len(queue))
        /\ unread' = Tail(unread) /\ UNCHANGED <<letter, count, fit>>
    BY <1>11 DEF ReceiveIncomplete, ReceiveMessages, ReceiveOne, ReceivePackage
  <2> QED
    BY <1>1, <1>3, <1>4, <2>1, FirstIsTaken
<1>12. CASE \E i \in 1 .. Slots, offset \in Offsets : ResizeSlot(i, offset)
  <2>1. UNCHANGED <<queue, unread>> /\ UNCHANGED <<letter, count, fit>>
    BY <1>12 DEF ResizeSlot
  <2> QED
    BY <1>2, <1>3, <1>4, <2>1
<1>13. CASE UNCHANGED vars
  <2>1. UNCHANGED <<queue, unread>> /\ UNCHANGED <<letter, count, fit>>
    BY <1>13 DEF vars
  <2> QED
    BY <1>2, <1>3, <1>4, <2>1
<1> QED
  BY <1>5, <1>6, <1>7, <1>8, <1>9, <1>10, <1>11, <1>12, <1>13 DEF Next, Receive

(* What is at the socket are the packages that were sent and not received, *)
(* each with all its frames, or the rest of one that had too many, and a   *)
(* letter that fits is sent as it is shown, whatever is sent and received  *)
(* (Port.cpp:199-224, 316-340, Message.cpp:20-41).                         *)
THEOREM FramesFit == Spec => []FramesInv
<1>1. Init => FramesInv
  BY FramesInit
<1>2. FramesInv /\ [Next]_vars => FramesInv'
  BY FramesNext
<1> QED
  BY <1>1, <1>2, PTL DEF Spec

(* A receive that throws has lost a package with no message or with too    *)
(* many, and no other (Port.cpp:199-224, Hub.cpp:154-171).                 *)
THEOREM OddAreLost == Spec => OnlyOddPackagesLost
<1>1. FramesInv /\ [Next]_vars =>
        [((Receive \/ ReceiveOne) /\ result' = "thrown") => Odd(Head(unread))]_vars
  BY FramesInvIs, ThrownIsOdd
<1> QED
  BY <1>1, FramesFit, PTL DEF Spec, OnlyOddPackagesLost

(* The frames that go to the messages are the messages of the first        *)
(* package: all of them, or the last of one that had too many.             *)
LEMMA ReturnedIsOne ==
  ASSUME LetterInv, SocketInv, Receive \/ ReceiveOne, result' = "returned"
  PROVE  LET messages == Head(unread).messages
             missing  == Len(messages) - Len(Contents)
         IN  /\ Len(Contents) <= Len(messages)
             /\ ~Odd(Head(unread)) => missing = 0
             /\ Plain => \A m \in DOMAIN Contents : data(Contents[m]) = messages[missing + m]
<1>1. queue # <<>> /\ FirstLen \in 3 .. MaxFrames
  BY DEF Receive, ReceiveTooMany, ReceiveIncomplete, ReceiveMessages, ReceiveOne, ReceivePackage
<1>2. PICK last \in [DOMAIN unread -> DOMAIN queue] : Framed(queue, unread, last)
  BY DEF SocketInv
<1>3. /\ unread # <<>> /\ Head(unread) = unread[1] /\ FirstLen \in 1 .. Len(queue)
      /\ Len(unread[1].messages) \in Nat
      /\ WholePackage(queue, 1, FirstLen, unread[1]) \/ LeftOver(queue, 1, FirstLen, unread[1])
  BY <1>1, <1>2, FirstLenIs
<1> PICK package : package = unread[1]
  OBVIOUS
<1> PICK n \in Nat : n = Len(package.messages)
  BY <1>3
<1> PICK L \in Nat : L = FirstLen
  BY <1>3
<1>4. WholePackage(queue, 1, L, package) \/ LeftOver(queue, 1, L, package)
  BY <1>1, <1>3
<1> PICK c \in Nat : L = c + 2
  <2>1. L - 2 \in Nat /\ L = (L - 2) + 2
    BY <1>1
  <2> QED
    BY <2>1
<1>5. queue \in Seq(Frames) /\ unread \in Seq(Sent)
  BY DEF SocketInv
<1>6. /\ Contents \in Seq(Frames) /\ Len(Contents) = c /\ DOMAIN Contents = 1 .. c
      /\ \A m \in 1 .. c : Contents[m] = queue[2 + m] /\ 2 + m \in DOMAIN queue
  <2>1. 3 \in Int /\ L \in Int /\ (IF 3 <= L THEN L - 3 + 1 ELSE 0) = c /\ L - 3 + 1 = c
        /\ \A m \in 1 .. c : 3 + m - 1 = 2 + m
    BY ONLY L = c + 2, c \in Nat
  <2>2. \A k \in 3 .. L : k \in 1 .. Len(queue)
    BY <1>3
  <2>3. \A k \in 3 .. L : queue[k] \in Frames
    BY <1>5, <2>2
  <2>4. /\ SubSeq(queue, 3, L) \in Seq(Frames) /\ Len(SubSeq(queue, 3, L)) = c
        /\ \A m \in 1 .. c : SubSeq(queue, 3, L)[m] = queue[3 + m - 1]
    BY <2>1, <2>3, SubSeqProperties
  <2>5. \A m \in 1 .. c : 2 + m \in 3 .. L
    BY ONLY L = c + 2, c \in Nat
  <2>6. DOMAIN queue = 1 .. Len(queue)
    BY <1>5, LenProperties
  <2>7. DOMAIN SubSeq(queue, 3, L) = 1 .. c
    BY <2>4, LenProperties
  <2> QED
    BY <2>1, <2>2, <2>4, <2>5, <2>6, <2>7 DEF Contents
(* What they hold when they are read.                                      *)
<1>7. ASSUME Plain, NEW m \in 1 .. c
      PROVE  data(Contents[m]) = queue[2 + m].data /\ package.plain
  <2>1. queue[2 + m].letter => data(queue[2 + m]) = queue[2 + m].data
    BY <1>6, <1>7 DEF Plain
  <2>2. data(queue[2 + m]) = queue[2 + m].data
    BY <2>1 DEF data
  <2> QED
    BY <1>3, <1>6, <1>7, <2>2 DEF Plain
<1>8. ASSUME WholePackage(queue, 1, L, package)
      PROVE  /\ c <= n /\ n - c = 0
             /\ Plain => \A m \in 1 .. c : data(Contents[m]) = package.messages[(n - c) + m]
  <2>1. L = 1 + 1 + n
    BY <1>8 DEF WholePackage
  <2>2. c = n /\ n - c = 0
    BY ONLY <2>1, L = c + 2, c \in Nat, n \in Nat
  <2>3. DOMAIN package.messages = 1 .. n
    <3>1. 1 \in 1 .. Len(unread)
      BY <1>3, <1>5, EmptySeq
    <3>2. package.messages \in Seq(Seq(Datum))
      BY <1>5, <3>1, SentMessages
    <3> QED
      BY <3>2, LenProperties
  <2>4. ASSUME Plain, NEW m \in 1 .. c
        PROVE  data(Contents[m]) = package.messages[(n - c) + m]
    <3>1. 1 + 1 + m = 2 + m /\ (n - c) + m = m
      BY ONLY <2>2, m \in 1 .. c, c \in Nat, n \in Nat
    <3>2. queue[1 + 1 + m].data = package.messages[m]
      BY <1>7, <1>8, <2>2, <2>3, <2>4 DEF WholePackage
    <3> QED
      BY <1>7, <2>4, <3>1, <3>2
  <2> QED
    BY <2>2, <2>4
<1>9. ASSUME LeftOver(queue, 1, L, package)
      PROVE  /\ c <= n /\ Odd(package)
             /\ Plain => \A m \in 1 .. c : data(Contents[m]) = package.messages[(n - c) + m]
  <2>1. n > MaxFrames - 2 /\ L < 1 + n
    BY <1>9 DEF LeftOver
  <2>2. c <= n
    BY ONLY <2>1, L = c + 2, c \in Nat, n \in Nat
  <2>3. ASSUME Plain, NEW m \in 1 .. c
        PROVE  data(Contents[m]) = package.messages[(n - c) + m]
    <3>1. 2 + m \in 1 .. L /\ n - (L - (2 + m)) = (n - c) + m
      BY ONLY L = c + 2, m \in 1 .. c, c \in Nat, n \in Nat
    <3>2. queue[2 + m].data = package.messages[n - (L - (2 + m))]
      BY <1>7, <1>9, <2>3, <3>1 DEF LeftOver
    <3> QED
      BY <1>7, <2>3, <3>1, <3>2
  <2> QED
    BY <2>1, <2>2, <2>3 DEF Odd
<1>10. Head(unread) = package /\ Len(package.messages) = n /\ Len(Contents) = c
       /\ DOMAIN Contents = 1 .. c
  BY <1>3, <1>6
<1> QED
  BY <1>4, <1>8, <1>9, <1>10

(* A receive that returns copies from the frames of one package: all its   *)
(* messages or, if it had too many, the last of them, however many went    *)
(* before and whatever became of those (Port.cpp:105-166, 205-281).        *)
THEOREM OnePackageIsTaken == Spec => TakesOnePackage
<1> DEFINE one == LET messages == Head(unread).messages
                      missing  == Len(messages) - Len(Contents)
                  IN  /\ Len(Contents) <= Len(messages)
                      /\ ~Odd(Head(unread)) => missing = 0
                      /\ Plain => \A m \in DOMAIN Contents :
                                    data(Contents[m]) = messages[missing + m]
<1>1. FramesInv /\ [Next]_vars => [((Receive \/ ReceiveOne) /\ result' = "returned") => one]_vars
  BY FramesInvIs, ReturnedIsOne
<1> QED
  BY <1>1, FramesFit, PTL DEF Spec, TakesOnePackage

=============================================================================
