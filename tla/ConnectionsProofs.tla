-------------------------- MODULE ConnectionsProofs --------------------------
(***************************************************************************)
(* Proofs about connections, for any set of peers and any number of pipes: *)
(* what a pair of ports makes of the pipes between them.                   *)
(***************************************************************************)
EXTENDS Connections, SequenceLemmas, FiniteSetTheorems

-----------------------------------------------------------------------------
(* The rank of an element in a finite set of numbers.                      *)

LEMMA RankGrows ==
  ASSUME NEW S \in SUBSET Nat, IsFiniteSet(S), NEW c \in S, NEW d \in S, c < d
  PROVE  Rank(c, S) < Rank(d, S)
<1> DEFINE C == {e \in S : e <= c}
           D == {e \in S : e <= d}
<1>1. IsFiniteSet(D) /\ Cardinality(D) \in Nat
  <2>1. D \in SUBSET S
    OBVIOUS
  <2> QED
    BY <2>1, FS_Subset, FS_CardinalityType
<1>2. c \in Nat /\ d \in Nat
  OBVIOUS
<1>3. C \in SUBSET D /\ d \in D /\ d \notin C
  <2>1. \A e \in S : e \in Nat /\ (e <= c => e <= d)
    BY <1>2
  <2>2. C \in SUBSET D
    BY <2>1
  <2>3. d <= d /\ ~ (d <= c)
    BY <1>2
  <2> QED
    BY <2>2, <2>3
<1> HIDE DEF C, D
<1>4. IsFiniteSet(C) /\ Cardinality(C) <= Cardinality(D) /\ (Cardinality(C) = Cardinality(D) => C = D)
  BY <1>1, <1>3, FS_Subset
<1>5. Cardinality(C) \in Nat
  BY <1>4, FS_CardinalityType
<1>6. Cardinality(C) # Cardinality(D)
  BY <1>3, <1>4
<1>7. Cardinality(C) < Cardinality(D)
  BY ONLY <1>1, <1>4, <1>5, <1>6
<1> QED
  BY <1>7 DEF Rank, C, D

LEMMA RankIsOneToOne ==
  ASSUME NEW S \in SUBSET Nat, IsFiniteSet(S)
  PROVE  /\ \A c \in S : Rank(c, S) \in 1 .. Cardinality(S)
         /\ \A i \in 1 .. Cardinality(S) : \E c \in S : Rank(c, S) = i
<1> DEFINE n == Cardinality(S)
           f == [c \in S |-> Rank(c, S)]
<1>0. n \in Nat
  BY FS_CardinalityType
<1>1. ASSUME NEW c \in S
      PROVE  Rank(c, S) \in 1 .. n
  <2> DEFINE C == {e \in S : e <= c}
  <2>1. C \in SUBSET S /\ c \in C
    OBVIOUS
  <2> HIDE DEF C
  <2>2. IsFiniteSet(C) /\ Cardinality(C) \in Nat /\ Cardinality(C) <= n
    BY <2>1, FS_Subset, FS_CardinalityType
  <2>3. Cardinality(C) # 0
    BY <2>1, <2>2, FS_EmptySet
  <2>4. Cardinality(C) \in 1 .. n
    BY ONLY <1>0, <2>2, <2>3
  <2> QED
    BY <2>4 DEF Rank, C
<1>2. f \in Injection(S, 1 .. n)
  <2>1. ASSUME NEW c \in S, NEW d \in S, f[c] = f[d]
        PROVE  c = d
    <3>1. Rank(c, S) = Rank(d, S) /\ Rank(c, S) \in 1 .. n /\ Rank(d, S) \in 1 .. n
      BY <1>1, <2>1
    <3>2. ~ (c < d) /\ ~ (d < c)
      BY <3>1, RankGrows
    <3>3. c \in Nat /\ d \in Nat
      OBVIOUS
    <3> QED
      BY ONLY <3>2, <3>3
  <2>2. f \in [S -> 1 .. n]
    BY <1>1
  <2> QED
    BY <2>1, <2>2 DEF Injection, IsInjective
<1>3. IsFiniteSet(1 .. n) /\ Cardinality(1 .. n) = n
  <2>1. /\ IsFiniteSet(1 .. n) /\ Cardinality(1..n) = IF 1 > n THEN 0 ELSE n - 1 + 1
    BY <1>0, FS_Interval
  <2> HIDE DEF n
  <2> QED
    BY <1>0, <2>1
<1>4. f \in Surjection(S, 1 .. n)
  BY <1>2, <1>3, FS_Injection
<1>5. \A i \in 1 .. n : \E c \in S : f[c] = i
  BY <1>4 DEF Surjection
<1> QED
  BY <1>1, <1>5

USE ConnectionsAssumption

LEMMA Numbered ==
  ASSUME NEW cs \in SUBSET Pipes
  PROVE  cs \in SUBSET Nat /\ IsFiniteSet(cs) /\ Cardinality(cs) \in Nat
<1>1. IsFiniteSet(Pipes) /\ Pipes \subseteq Nat
  BY FS_Interval DEF Pipes
<1> QED
  BY <1>1, FS_Subset, FS_CardinalityType

(* The commands about some pipes: one for each, in their order.            *)
LEMMA CommandsParts ==
  ASSUME NEW what \in {"attach", "term", "ack"}, NEW cs \in SUBSET Pipes
  PROVE  /\ Commands(what, cs) \in Seq([what : {"attach", "term", "ack"}, pipe : Pipes])
         /\ \A w, c : Contains(Commands(what, cs), Command(w, c)) <=> w = what /\ c \in cs
         /\ \A w, c, v, d :
              Precedes(Commands(what, cs), Command(w, c), Command(v, d)) =>
                w = what /\ v = what /\ c \in cs /\ d \in cs /\ c < d
         /\ \A c, d \in cs :
              c < d => Precedes(Commands(what, cs), Command(what, c), Command(what, d))
<1> DEFINE n == Cardinality(cs)
           at == [i \in 1 .. n |-> CHOOSE c \in cs : Rank(c, cs) = i]
           s == Commands(what, cs)
<1>1. cs \in SUBSET Nat /\ IsFiniteSet(cs) /\ n \in Nat
  BY Numbered
<1>2. \A i \in 1 .. n : at[i] \in cs /\ Rank(at[i], cs) = i
  BY <1>1, RankIsOneToOne
<1>3. /\ s = [i \in 1 .. n |-> Command(what, at[i])]
  BY DEF Commands
<1> HIDE DEF at
<1>4. DOMAIN s = 1 .. n /\ \A i \in 1 .. n : s[i] = Command(what, at[i])
  BY <1>3
<1>5. s \in Seq([what : {"attach", "term", "ack"}, pipe : Pipes]) /\ Len(s) = n
  <2> HIDE DEF s, n
  <2>1. \A i \in 1 .. n : Command(what, at[i]) \in [what : {"attach", "term", "ack"}, pipe : Pipes]
    BY <1>2 DEF Command
  <2>2. s = [i \in 1 .. n |-> s[i]] /\ \A i \in 1 .. n : s[i] = Command(what, at[i])
    BY <1>3
  <2> DEFINE R == [what : {"attach", "term", "ack"}, pipe : Pipes]
  <2> HIDE DEF R
  <2>3. \A i \in 1 .. n : s[i] \in R
    BY <2>1, <2>2 DEF R
  <2>4. s \in Seq(R) /\ Len(s) = n
    BY ONLY <1>1, <2>2, <2>3
  <2> QED
    BY <2>4 DEF R
<1> HIDE DEF n, s
<1>6. \A w, c, v, d : Command(w, c) = Command(v, d) <=> w = v /\ c = d
  BY DEF Command
<1>7. \A c \in cs : Rank(c, cs) \in 1 .. n /\ at[Rank(c, cs)] = c
  <2> SUFFICES ASSUME NEW c \in cs
               PROVE  Rank(c, cs) \in 1 .. n /\ at[Rank(c, cs)] = c
    OBVIOUS
  <2>1. Rank(c, cs) \in 1 .. n
    BY <1>1, RankIsOneToOne DEF n
  <2> DEFINE d == at[Rank(c, cs)]
  <2>2. d \in cs /\ Rank(d, cs) = Rank(c, cs)
    BY <1>2, <2>1
  <2> HIDE DEF d
  <2>3. ~ (d < c) /\ ~ (c < d)
    <3>1. Rank(c, cs) \in Nat
      BY <1>1, <2>1
    <3>2. ~ (Rank(c, cs) < Rank(c, cs))
      BY ONLY <3>1
    <3> QED
      BY <1>1, <2>2, <3>2, RankGrows
  <2>4. d \in Nat /\ c \in Nat
    BY <1>1, <2>2
  <2>5. d = c
    BY ONLY <2>3, <2>4
  <2> QED
    BY <2>1, <2>5 DEF d
<1>8. \A w, c : Contains(s, Command(w, c)) <=> w = what /\ c \in cs
  <2>1. \A w, c : Contains(s, Command(w, c)) <=> \E i \in 1 .. n : Command(what, at[i]) = Command(w, c)
    BY <1>4, <1>5 DEF Contains
  <2> QED
    BY <1>2, <1>6, <1>7, <2>1
<1>9. \A i, j \in 1 .. n : i < j => at[i] < at[j]
  <2> SUFFICES ASSUME NEW i \in 1 .. n, NEW j \in 1 .. n, i < j
               PROVE  at[i] < at[j]
    OBVIOUS
  <2>0. i \in Nat /\ j \in Nat /\ ~ (j < i) /\ i # j
    BY <1>1 DEF n
  <2>1. at[i] \in Nat /\ at[j] \in Nat /\ at[i] # at[j] /\ i \in Nat /\ j \in Nat /\ ~ (j < i)
    BY <1>1, <1>2, <2>0
  <2>2. ~ (at[j] < at[i])
    BY <1>1, <1>2, <2>1, RankGrows
  <2> QED
    BY ONLY <2>1, <2>2
<1>10. ASSUME NEW w, NEW c, NEW v, NEW d,
              Precedes(s, Command(w, c), Command(v, d))
       PROVE  w = what /\ v = what /\ c \in cs /\ d \in cs /\ c < d
  <2>1. PICK i \in 1 .. n, j \in 1 .. n :
             i < j /\ Command(what, at[i]) = Command(w, c) /\ Command(what, at[j]) = Command(v, d)
    BY <1>4, <1>10 DEF Precedes
  <2> QED
    BY <1>2, <1>6, <1>9, <2>1
<1>11. ASSUME NEW c \in cs, NEW d \in cs, c < d
       PROVE  Precedes(s, Command(what, c), Command(what, d))
  <2>1. Rank(c, cs) < Rank(d, cs)
    BY <1>1, <1>11, RankGrows
  <2> QED
    BY <1>4, <1>7, <2>1 DEF Precedes
<1> QED
  BY <1>5, <1>8, <1>10, <1>11 DEF s

-----------------------------------------------------------------------------
(* What is in the mailboxes after a step.                                  *)

Mail == [what : {"attach", "term", "ack"}, pipe : Pipes]

LEMMA CommandIsMail ==
  ASSUME NEW w \in {"attach", "term", "ack"}, NEW c \in Pipes
  PROVE  Command(w, c) \in Mail
BY DEF Command, Mail

LEMMA SameCommand ==
  ASSUME NEW v, NEW c, NEW w, NEW d
  PROVE  Command(v, c) = Command(w, d) <=> v = w /\ c = d
BY DEF Command

(* The first command is handled.                                           *)
LEMMA RestParts ==
  ASSUME TypeOK, NEW p \in Peers, NEW w, NEW h,
         mailbox[p] # <<>>, Head(mailbox[p]) = Command(w, h)
  PROVE  /\ Rest(p) \in [Peers -> Seq(Mail)]
         /\ \A r \in Peers \ {p} : Rest(p)[r] = mailbox[r]
         /\ \A v, d : Pending(p, v, d) <=>
              (v = w /\ d = h) \/ Contains(Rest(p)[p], Command(v, d))
         /\ \A v, d, u, e : Before(p, v, d, u, e) <=>
              \/ v = w /\ d = h /\ Contains(Rest(p)[p], Command(u, e))
              \/ Precedes(Rest(p)[p], Command(v, d), Command(u, e))
<1> DEFINE s == mailbox[p]
<1>1. mailbox \in [Peers -> Seq(Mail)] /\ s \in Seq(Mail)
  BY DEF TypeOK, Mail
<1>2. Rest(p)[p] = Tail(s) /\ \A r \in Peers \ {p} : Rest(p)[r] = mailbox[r]
  BY <1>1 DEF Rest
<1> HIDE DEF s
<1>3. /\ Tail(s) \in Seq(Mail)
      /\ \A e : Contains(s, e) <=> e = Command(w, h) \/ Contains(Tail(s), e)
      /\ \A e, f : Precedes(s, e, f) <=>
           \/ e = Command(w, h) /\ Contains(Tail(s), f)
           \/ Precedes(Tail(s), e, f)
  <2>1. s # <<>> /\ Head(s) = Command(w, h)
    BY DEF s
  <2> QED
    BY ONLY <1>1, <2>1, TailParts
<1>4. Rest(p) \in [Peers -> Seq(Mail)]
  BY <1>1, <1>3 DEF Rest, s
<1>5. ASSUME NEW v, NEW d
      PROVE  Pending(p, v, d) <=> (v = w /\ d = h) \/ Contains(Tail(s), Command(v, d))
  BY <1>3, SameCommand DEF Pending, s
<1>6. ASSUME NEW v, NEW d, NEW u, NEW e
      PROVE  Before(p, v, d, u, e) <=>
               \/ v = w /\ d = h /\ Contains(Tail(s), Command(u, e))
               \/ Precedes(Tail(s), Command(v, d), Command(u, e))
  <2>1. Before(p, v, d, u, e) <=> Precedes(s, Command(v, d), Command(u, e))
    BY DEF Before, Precedes, s
  <2>2. Command(v, d) = Command(w, h) <=> v = w /\ d = h
    BY SameCommand
  <2> QED
    BY <1>3, <2>1, <2>2
<1> QED
  BY <1>2, <1>4, <1>5, <1>6

(* Commands are sent to one port.                                          *)
LEMMA SentParts ==
  ASSUME TypeOK, NEW q \in Peers, NEW t \in Seq(Mail),
         mailbox' = [mailbox EXCEPT ![q] = @ \o t]
  PROVE  /\ mailbox' \in [Peers -> Seq(Mail)]
         /\ \A r \in Peers \ {q} : mailbox'[r] = mailbox[r]
         /\ \A v, d : Pending(q, v, d)' <=> Pending(q, v, d) \/ Contains(t, Command(v, d))
         /\ \A v, d, u, e : Before(q, v, d, u, e)' <=>
              \/ Before(q, v, d, u, e)
              \/ Precedes(t, Command(v, d), Command(u, e))
              \/ Pending(q, v, d) /\ Contains(t, Command(u, e))
<1> DEFINE s == mailbox[q]
<1>1. mailbox \in [Peers -> Seq(Mail)] /\ s \in Seq(Mail)
  BY DEF TypeOK, Mail
<1>2. mailbox'[q] = s \o t /\ \A r \in Peers \ {q} : mailbox'[r] = mailbox[r]
  BY <1>1
<1> HIDE DEF s
<1>3. /\ s \o t \in Seq(Mail)
      /\ \A e : Contains(s \o t, e) <=> Contains(s, e) \/ Contains(t, e)
      /\ \A e, f : Precedes(s \o t, e, f) <=>
           \/ Precedes(s, e, f)
           \/ Precedes(t, e, f)
           \/ Contains(s, e) /\ Contains(t, f)
  BY ONLY <1>1, ConcatParts, t \in Seq(Mail)
<1>4. mailbox' \in [Peers -> Seq(Mail)]
  BY <1>1, <1>3 DEF s
<1>5. ASSUME NEW v, NEW d
      PROVE  Pending(q, v, d)' <=> Pending(q, v, d) \/ Contains(t, Command(v, d))
  BY <1>2, <1>3 DEF Pending, s
<1>6. ASSUME NEW v, NEW d, NEW u, NEW e
      PROVE  Before(q, v, d, u, e)' <=>
               \/ Before(q, v, d, u, e)
               \/ Precedes(t, Command(v, d), Command(u, e))
               \/ Pending(q, v, d) /\ Contains(t, Command(u, e))
  <2>1. Before(q, v, d, u, e) <=> Precedes(s, Command(v, d), Command(u, e))
    BY DEF Before, Precedes, s
  <2>2. Before(q, v, d, u, e)' <=> Precedes(mailbox'[q], Command(v, d), Command(u, e))
    BY DEF Before, Precedes, Command
  <2>3. Pending(q, v, d) <=> Contains(s, Command(v, d))
    BY DEF Pending, s
  <2> QED
    BY <1>2, <1>3, <2>1, <2>2, <2>3
<1> QED
  BY <1>2, <1>4, <1>5, <1>6

LEMMA OneSent ==
  ASSUME TypeOK, NEW q \in Peers, NEW w \in {"attach", "term", "ack"}, NEW h \in Pipes,
         mailbox' = [mailbox EXCEPT ![q] = Append(@, Command(w, h))]
  PROVE  /\ mailbox' \in [Peers -> Seq(Mail)]
         /\ \A r \in Peers \ {q} : mailbox'[r] = mailbox[r]
         /\ \A v, d : Pending(q, v, d)' <=> Pending(q, v, d) \/ (v = w /\ d = h)
         /\ \A v, d, u, e : Before(q, v, d, u, e)' <=>
              Before(q, v, d, u, e) \/ (Pending(q, v, d) /\ u = w /\ e = h)
<1> DEFINE t == <<Command(w, h)>>
<1>1. t \in Seq(Mail)
  BY CommandIsMail
<1>2. mailbox' = [mailbox EXCEPT ![q] = @ \o t]
  <2>1. mailbox[q] \in Seq(Mail) /\ Command(w, h) \in Mail
    BY CommandIsMail DEF TypeOK, Mail
  <2>2. Append(mailbox[q], Command(w, h)) = mailbox[q] \o t
    BY ONLY <2>1, AppendIsConcat
  <2> QED
    BY <2>2
<1>3. \A e : Contains(t, e) <=> e = Command(w, h)
  BY DEF Contains
<1>4. \A e, f : ~Precedes(t, e, f)
  BY DEF Precedes
<1> HIDE DEF t
<1>5. \A v, d : Command(v, d) = Command(w, h) <=> v = w /\ d = h
  BY SameCommand
<1>6. /\ mailbox' \in [Peers -> Seq(Mail)]
      /\ \A r \in Peers \ {q} : mailbox'[r] = mailbox[r]
      /\ \A v, d : Pending(q, v, d)' <=> Pending(q, v, d) \/ Contains(t, Command(v, d))
      /\ \A v, d, u, e : Before(q, v, d, u, e)' <=>
           \/ Before(q, v, d, u, e)
           \/ Precedes(t, Command(v, d), Command(u, e))
           \/ Pending(q, v, d) /\ Contains(t, Command(u, e))
  BY ONLY <1>1, <1>2, SentParts, TypeOK, q \in Peers
<1>7. \A v, d : Contains(t, Command(v, d)) <=> v = w /\ d = h
  BY ONLY <1>3, <1>5
<1>8. \A v, d, u, e : Before(q, v, d, u, e)' <=>
        Before(q, v, d, u, e) \/ (Pending(q, v, d) /\ u = w /\ e = h)
  BY ONLY <1>4, <1>6, <1>7
<1>9. \A v, d : Pending(q, v, d)' <=> Pending(q, v, d) \/ (v = w /\ d = h)
  BY ONLY <1>6, <1>7
<1> QED
  BY ONLY <1>6, <1>8, <1>9

-----------------------------------------------------------------------------
(* What is known of the pipes.                                             *)

PipesOK == \A c \in Pipes : PipeOK(c)

(* The two ends of a pipe that either of two peers has made to the other.  *)
LEMMA EndFacts ==
  ASSUME TypeOK, NEW p \in Peers, NEW q \in Peers, NEW c \in Between(p, q), PipeOK(c)
  PROVE  /\ c \in Pipes /\ p # q
         /\ pipe[c] = <<p, q>> \/ pipe[c] = <<q, p>>
         /\ end[c][p] \in {"coming", "routed", "ignored", "cut", "ending", "ended", "gone"}
         /\ Pending(p, "attach", c) => /\ end[c][p] = "coming"
                                       /\ end[c][q] \in {"routed", "ignored", "cut", "gone"}
         /\ end[c][p] = "coming" /\ end[c][q] # "coming" => Pending(p, "attach", c)
         /\ end[c][p] = "coming" /\ p \in bound /\ q \in bound => Pending(p, "attach", c)
         /\ Pending(p, "term", c) => /\ pipe[c] = <<q, p>>
                                     /\ end[c][p] \in {"coming", "routed", "ignored"}
                                     /\ end[c][q] \in {"cut", "gone"}
         /\ Pending(p, "ack", c) => /\ end[c][p] \in {"cut", "ended", "gone"}
                                    /\ end[c][q] \in {"ended", "gone"}
         /\ end[c][p] \in {"ending", "ended"} => /\ pipe[c] = <<q, p>>
                                                 /\ end[c][q] \in {"cut", "gone"}
         /\ end[c][p] \in {"coming", "routed", "ignored"} => end[c][q] \notin {"ending", "ended"}
<1>1. c \in Pipes /\ (pipe[c] = <<p, q>> \/ pipe[c] = <<q, p>>)
  BY DEF Between
<1>2. CASE pipe[c] = <<p, q>>
  <2>1. EndsOK(c, p, q) /\ CommandsOK(c, p, q)
    BY <1>2 DEF PipeOK
  <2> QED
    BY <1>1, <1>2, <2>1 DEF EndsOK, CommandsOK
<1>3. CASE pipe[c] = <<q, p>>
  <2>1. EndsOK(c, q, p) /\ CommandsOK(c, q, p)
    BY <1>3 DEF PipeOK
  <2> QED
    BY <1>1, <1>3, <2>1 DEF EndsOK, CommandsOK
<1> QED
  BY <1>1, <1>2, <1>3

(* A command is about a pipe of the port it is sent to.                    *)
LEMMA PendingFacts ==
  ASSUME TypeOK, PipesOK, NEW r \in Peers, NEW w \in {"attach", "term", "ack"},
         NEW c \in Pipes, Pending(r, w, c)
  PROVE  /\ Other(r, c) \in Peers /\ Other(r, c) # r /\ c \in Between(r, Other(r, c))
         /\ r \in bound /\ Other(r, c) \in bound
         /\ w \in {"attach", "term"} => ~Before(r, w, c, w, c)
<1>1. PipeOK(c)
  BY DEF PipesOK
<1>2. PICK p \in Peers, q \in Peers : pipe[c] = <<p, q>>
  BY <1>1 DEF PipeOK, TypeOK
<1>3. EndsOK(c, p, q) /\ CommandsOK(c, p, q)
  BY <1>1, <1>2 DEF PipeOK
<1>4. r \in {p, q} /\ q \in bound /\ p \in bound /\ p # q
  BY <1>3 DEF EndsOK, CommandsOK
<1>5. \A v \in {"attach", "term"} : ~Before(r, v, c, v, c)
  BY <1>3 DEF CommandsOK
<1>6. pipe[c][1] = p /\ pipe[c][2] = q
  BY <1>2
<1> QED
  BY <1>2, <1>4, <1>5, <1>6 DEF Other, Between

(* A pipe that a step has nothing to do with.                              *)
LEMMA PipeKept ==
  ASSUME NEW d \in Pipes, PipeOK(d),
         pipe'[d] = pipe[d], end'[d] = end[d],
         \A r \in Peers, w \in {"attach", "term", "ack"} :
           Pending(r, w, d)' <=> Pending(r, w, d),
         \A r \in Peers, w \in {"attach", "term"} :
           Before(r, w, d, w, d)' => Before(r, w, d, w, d),
         \A a, b \in Peers : pipe[d] = <<a, b>> =>
           /\ a \in bound => a \in bound'
           /\ b \in bound' <=> b \in bound
           /\ Lists(a, b) /\ end[d][a] \in {"coming", "routed", "ignored"} => Lists(a, b)'
  PROVE  PipeOK(d)'
<1>1. CASE pipe[d] = <<None, None>>
  <2>1. \A a, b \in Peers : pipe'[d] # <<a, b>>
    BY <1>1
  <2>2. \A r \in Peers : end[d][r] = "none" /\ \A w \in {"attach", "term", "ack"} : ~Pending(r, w, d)
    BY <1>1 DEF PipeOK
  <2> QED
    BY <2>1, <2>2 DEF PipeOK
<1>2. CASE pipe[d] # <<None, None>>
  <2> SUFFICES ASSUME NEW a \in Peers, NEW b \in Peers, pipe[d] = <<a, b>>
               PROVE  EndsOK(d, a, b)' /\ CommandsOK(d, a, b)'
    BY <1>2 DEF PipeOK
  <2>1. EndsOK(d, a, b) /\ CommandsOK(d, a, b)
    BY DEF PipeOK
  <2>2. /\ a \in bound => a \in bound'
        /\ b \in bound' <=> b \in bound
        /\ Lists(a, b) /\ end[d][a] \in {"coming", "routed", "ignored"} => Lists(a, b)'
    OBVIOUS
  <2>3. EndsOK(d, a, b)'
    BY <2>1, <2>2 DEF EndsOK
  <2>4. CommandsOK(d, a, b)'
    BY <2>1, <2>2 DEF CommandsOK
  <2> QED
    BY <2>3, <2>4
<1> QED
  BY <1>1, <1>2

(* A pair of peers that a step has nothing to do with.                     *)
LEMMA PairKept ==
  ASSUME NEW p \in Peers, NEW q \in Peers, PairOK(p, q),
         Between(p, q)' = Between(p, q),
         \A c \in Between(p, q) :
           /\ pipe'[c] = pipe[c] /\ end'[c] = end[c]
           /\ Pending(p, "attach", c)' <=> Pending(p, "attach", c),
         \A c, d \in Between(p, q) :
           /\ Before(p, "attach", d, "attach", c)' <=> Before(p, "attach", d, "attach", c)
           /\ Before(p, "ack", d, "attach", c)' => Before(p, "ack", d, "attach", c),
         Lists(p, q)' <=> Lists(p, q),
         spoilt'[{p, q}] = spoilt[{p, q}]
  PROVE  PairOK(p, q)'
<1> DEFINE B == Between(p, q)
<1>0. Between(p, q)' = B /\ \A c \in B : c \in Pipes
  BY DEF Between
<1>1. OneName(p, q)'
  BY <1>0 DEF PairOK, OneName, HasName
<1>2. Named(p, q)' <=> Named(p, q)
  BY <1>0 DEF Named, HasName
<1>3. ASSUME WillAgree(p, q)
      PROVE  WillAgree(p, q)'
  BY <1>0, <1>2, <1>3 DEF WillAgree
<1>4. ASSUME Unspoilt(p, q)
      PROVE  Unspoilt(p, q)'
  <2>1. \A c \in B : Alive(c)' <=> Alive(c)
    BY <1>0 DEF Alive
  <2>2. \A c \in Pipes : pipe[c] = <<p, q>> => c \in B
    BY DEF Between
  <2> QED
    BY <1>0, <1>4, <2>1, <2>2 DEF Unspoilt
<1> QED
  BY <1>1, <1>3, <1>4 DEF PairOK

-----------------------------------------------------------------------------
(* A port p handles its first command, about the pipe h, and perhaps       *)
(* answers q that it has let go of h.                                      *)
Handled(p, q, w, h) ==
  /\ Pending(p, w, h) /\ (w \in {"attach", "term"} => ~Pending(p, w, h)')
  /\ \A r \in Peers : \A v, d : Pending(r, v, d)' =>
       Pending(r, v, d) \/ (mailbox' # Rest(p) /\ r = q /\ v = "ack" /\ d = h)
  /\ \A r \in Peers : \A v, d : Pending(r, v, d) =>
       Pending(r, v, d)' \/ (r = p /\ v = w /\ d = h)
  /\ \A r \in Peers : \A v, d, u, e : Before(r, v, d, u, e)' =>
       Before(r, v, d, u, e) \/ (u = "ack" /\ e = h)
  /\ \A r \in Peers : \A v, d, u, e : Before(r, v, d, u, e) =>
       Before(r, v, d, u, e)' \/ (r = p /\ v = w /\ d = h)
  /\ \A v, d : Pending(p, v, d)' => Before(p, w, h, v, d)
  /\ w \in {"attach", "term"} => \A v, d : ~Before(p, v, d, w, h)

LEMMA HandledMail ==
  ASSUME TypeOK, PipesOK, NEW p \in Peers, NEW w \in {"attach", "term", "ack"}, NEW h, NEW q,
         Commanded(p, w), h = Head(mailbox[p]).pipe, q = Other(p, h),
         mailbox' = Rest(p) \/ mailbox' = Answered(p, h)
  PROVE  /\ h \in Between(p, q) /\ q \in Peers /\ q # p /\ p \in bound /\ q \in bound
         /\ mailbox' \in [Peers -> Seq(Mail)]
         /\ Handled(p, q, w, h)
<1>1. mailbox \in [Peers -> Seq(Mail)] /\ mailbox[p] # <<>>
  BY DEF TypeOK, Mail, Commanded
<1>2. Head(mailbox[p]) \in Mail
  BY <1>1, TailParts
<1>3. h \in Pipes /\ Head(mailbox[p]) = Command(w, h)
  BY <1>2 DEF Mail, Command, Commanded
<1> DEFINE m == Rest(p)
<1>4. /\ m \in [Peers -> Seq(Mail)]
      /\ \A r \in Peers \ {p} : m[r] = mailbox[r]
      /\ \A v, d : Pending(p, v, d) <=>
           (v = w /\ d = h) \/ Contains(m[p], Command(v, d))
      /\ \A v, d, u, e : Before(p, v, d, u, e) <=>
           \/ v = w /\ d = h /\ Contains(m[p], Command(u, e))
           \/ Precedes(m[p], Command(v, d), Command(u, e))
  BY <1>1, <1>3, RestParts

<1>5. Pending(p, w, h)
  BY <1>4
<1>6. /\ q \in Peers /\ q # p /\ p \in bound /\ q \in bound /\ h \in Between(p, q)
      /\ w \in {"attach", "term"} => ~Before(p, w, h, w, h)
  BY <1>3, <1>5, PendingFacts
<1> HIDE DEF m
<1>7. \A v, d, u, e : Precedes(m[p], Command(v, d), Command(u, e)) => Contains(m[p], Command(u, e))
  <2> SUFFICES ASSUME NEW v, NEW d, NEW u, NEW e, Precedes(m[p], Command(v, d), Command(u, e))
               PROVE  Contains(m[p], Command(u, e))
    OBVIOUS
  <2>1. DOMAIN m[p] = 1 .. Len(m[p])
    BY <1>4
  <2> QED
    BY <2>1 DEF Precedes, Contains
<1>8. w \in {"attach", "term"} => \A v, d : ~Before(p, v, d, w, h)
  <2> SUFFICES ASSUME w \in {"attach", "term"}, NEW v, NEW d, Before(p, v, d, w, h)
               PROVE  FALSE
    OBVIOUS
  <2>1. Contains(m[p], Command(w, h))
    BY <1>4, <1>7
  <2> QED
    BY <1>4, <1>6, <2>1
<1>9. /\ mailbox' \in [Peers -> Seq(Mail)]
      /\ \A v, d : Pending(p, v, d)' <=> Contains(m[p], Command(v, d))
      /\ \A v, d, u, e : Before(p, v, d, u, e)' <=> Precedes(m[p], Command(v, d), Command(u, e))
      /\ \A r \in Peers \ {p} : \A v, d : Pending(r, v, d)' <=>
           \/ Pending(r, v, d)
           \/ (mailbox' # m /\ r = q /\ v = "ack" /\ d = h)
      /\ \A r \in Peers \ {p} : \A v, d, u, e :
           /\ Before(r, v, d, u, e) => Before(r, v, d, u, e)'
           /\ Before(r, v, d, u, e)' => Before(r, v, d, u, e) \/ (u = "ack" /\ e = h)
  <2>1. CASE mailbox' = m
    <3>1. \A v, d : Pending(p, v, d)' <=> Contains(m[p], Command(v, d))
      BY <2>1 DEF Pending, Command
    <3>2. \A v, d, u, e : Before(p, v, d, u, e)' <=> Precedes(m[p], Command(v, d), Command(u, e))
      BY <2>1 DEF Before, Precedes, Command
    <3>3. \A r \in Peers \ {p} : mailbox'[r] = mailbox[r]
      BY <1>4, <2>1
    <3>4. \A r \in Peers \ {p} : \A v, d : Pending(r, v, d)' <=> Pending(r, v, d)
      BY <3>3 DEF Pending, Command
    <3>5. \A r \in Peers \ {p} : \A v, d, u, e : Before(r, v, d, u, e)' <=> Before(r, v, d, u, e)
      BY <3>3 DEF Before, Command
    <3> QED
      BY <1>4, <2>1, <3>1, <3>2, <3>4, <3>5
  <2>2. CASE mailbox' # m /\ mailbox' = Answered(p, h)
    <3> DEFINE x == Command("ack", h)
               t == Append(mailbox[q], x)
    <3>0. mailbox' = [m EXCEPT ![q] = Append(@, x)]
      BY <2>2 DEF Answered, m
    <3>1. x \in Mail /\ m[q] \in Seq(Mail) /\ m[q] = mailbox[q]
      BY <1>3, <1>4, <1>6, CommandIsMail
    <3>2. mailbox'[p] = m[p] /\ mailbox'[q] = t
          /\ \A r \in Peers \ {p, q} : mailbox'[r] = mailbox[r]
      BY <1>4, <1>6, <3>0, <3>1
    <3> HIDE DEF x, t
    <3>3. /\ t \in Seq(Mail)
          /\ \A e : Contains(t, e) <=> Contains(mailbox[q], e) \/ e = x
          /\ \A e, f : Precedes(t, e, f) <=>
               \/ Precedes(mailbox[q], e, f)
               \/ Contains(mailbox[q], e) /\ f = x
      BY <3>1, AppendParts DEF t
    <3>4. mailbox' \in [Peers -> Seq(Mail)]
      BY <1>4, <3>0, <3>1, <3>3 DEF t
    <3>5. \A v, d : Pending(p, v, d)' <=> Contains(m[p], Command(v, d))
      BY <3>2 DEF Pending, Command
    <3>6. \A v, d, u, e : Before(p, v, d, u, e)' <=> Precedes(m[p], Command(v, d), Command(u, e))
      BY <3>2 DEF Before, Precedes, Command
    <3>7. \A v, d : Command(v, d) = x <=> v = "ack" /\ d = h
      BY SameCommand DEF x
    <3>8. \A v, d : Pending(q, v, d)' <=> Pending(q, v, d) \/ (v = "ack" /\ d = h)
      <4>1. \A v, d : Pending(q, v, d)' <=> Contains(t, Command(v, d))
        BY <3>2 DEF Pending, Command
      <4>2. \A v, d : Pending(q, v, d) <=> Contains(mailbox[q], Command(v, d))
        BY DEF Pending
      <4> QED
        BY <3>3, <3>7, <4>1, <4>2
    <3>9. \A v, d, u, e : Before(q, v, d, u, e)' <=>
             Before(q, v, d, u, e) \/ (Pending(q, v, d) /\ u = "ack" /\ e = h)
      <4>1. \A v, d, u, e : Before(q, v, d, u, e)' <=>
               Precedes(t, Command(v, d), Command(u, e))
        BY <3>2 DEF Before, Precedes, Command
      <4>2. \A v, d, u, e : Before(q, v, d, u, e) <=>
               Precedes(mailbox[q], Command(v, d), Command(u, e))
        BY DEF Before, Precedes
      <4>3. \A v, d : Pending(q, v, d) <=> Contains(mailbox[q], Command(v, d))
        BY DEF Pending
      <4> QED
        BY <3>3, <3>7, <4>1, <4>2, <4>3
    <3>10. \A r \in Peers \ {p, q} : \A v, d : Pending(r, v, d)' <=> Pending(r, v, d)
      BY <3>2 DEF Pending, Command
    <3>11. \A r \in Peers \ {p, q} : \A v, d, u, e : Before(r, v, d, u, e)' <=> Before(r, v, d, u, e)
      BY ONLY <3>2 DEF Before, Command
    <3>12. \A r \in Peers \ {p} : r = q \/ r \in Peers \ {p, q}
      OBVIOUS
    <3>13. \A r \in Peers \ {p} : \A v, d : Pending(r, v, d)' <=>
             Pending(r, v, d) \/ (r = q /\ v = "ack" /\ d = h)
      BY ONLY <3>8, <3>10, <3>12
    <3>14. \A r \in Peers \ {p} : \A v, d, u, e :
             /\ Before(r, v, d, u, e) => Before(r, v, d, u, e)'
             /\ Before(r, v, d, u, e)' => Before(r, v, d, u, e) \/ (u = "ack" /\ e = h)
      BY ONLY <3>9, <3>11, <3>12
    <3> QED
      BY ONLY <2>2, <3>4, <3>5, <3>6, <3>13, <3>14
  <2> QED
    BY <2>1, <2>2 DEF m
<1>10. \A r \in Peers : r = p \/ r \in Peers \ {p}
  OBVIOUS
<1>11. \A r \in Peers : \A v, d : Pending(r, v, d)' =>
          Pending(r, v, d) \/ (mailbox' # m /\ r = q /\ v = "ack" /\ d = h)
  BY ONLY <1>4, <1>9, <1>10
<1>12. \A r \in Peers : \A v, d : Pending(r, v, d) =>
          Pending(r, v, d)' \/ (r = p /\ v = w /\ d = h)
  BY ONLY <1>4, <1>9, <1>10
<1>13. \A r \in Peers : \A v, d, u, e : Before(r, v, d, u, e)' =>
          Before(r, v, d, u, e) \/ (u = "ack" /\ e = h)
  <2>1. \A v, d, u, e : Before(p, v, d, u, e)' => Before(p, v, d, u, e)
    BY ONLY <1>4, <1>9
  <2>2. \A r \in Peers \ {p} : \A v, d, u, e :
          Before(r, v, d, u, e)' => Before(r, v, d, u, e) \/ (u = "ack" /\ e = h)
    BY ONLY <1>9
  <2> QED
    BY ONLY <1>10, <2>1, <2>2
<1>14. \A r \in Peers : \A v, d, u, e : Before(r, v, d, u, e) =>
          Before(r, v, d, u, e)' \/ (r = p /\ v = w /\ d = h)
  BY ONLY <1>4, <1>9, <1>10
<1>15. \A v, d : Pending(p, v, d)' => Before(p, w, h, v, d)
  BY ONLY <1>4, <1>9
<1>16. w \in {"attach", "term"} => ~Pending(p, w, h)'
  BY ONLY <1>6, <1>15
<1> QED
  BY <1>5, <1>6, <1>8, <1>9, <1>11, <1>12, <1>13, <1>14, <1>15, <1>16 DEF Handled, m

-----------------------------------------------------------------------------
(* A step that changes one pipe leaves the others, and the other pairs, as *)
(* they were.                                                              *)
MailAbout(h) == \A r \in Peers :
  /\ \A v, d : d # h => (Pending(r, v, d)' <=> Pending(r, v, d))
  /\ \A v, d, u, e : d # h /\ e # h => (Before(r, v, d, u, e)' <=> Before(r, v, d, u, e))

LEMMA Elsewhere ==
  ASSUME TypeOK, PipesOK, \A a, b \in Peers : PairOK(a, b),
         NEW p \in Peers, NEW q \in Peers, NEW h \in Between(p, q),
         UNCHANGED <<bound, connections_, pipe>>,
         \A d \in Pipes \ {h} : end'[d] = end[d],
         MailAbout(h),
         \A a, b \in Peers : {a, b} # {p, q} => spoilt'[{a, b}] = spoilt[{a, b}]
  PROVE  /\ \A d \in Pipes \ {h} : PipeOK(d)'
         /\ \A a, b \in Peers : {a, b} # {p, q} => PairOK(a, b)'
<1>1. ASSUME NEW d \in Pipes \ {h}
      PROVE  PipeOK(d)'
  <2>1. PipeOK(d)
    BY DEF PipesOK
  <2>2. \A a, b \in Peers : Lists(a, b) => Lists(a, b)'
    BY DEF Lists
  <2> QED
    BY <2>1, <2>2, PipeKept DEF MailAbout
<1>2. ASSUME NEW a \in Peers, NEW b \in Peers, {a, b} # {p, q}
      PROVE  PairOK(a, b)'
  <2>1. Between(a, b)' = Between(a, b)
    BY DEF Between
  <2>2. h \notin Between(a, b)
    BY <1>2 DEF Between
  <2>3. \A c \in Between(a, b) : c \in Pipes \ {h}
    BY <2>2 DEF Between
  <2>4. \A c \in Between(a, b) :
          /\ pipe'[c] = pipe[c] /\ end'[c] = end[c]
          /\ Pending(a, "attach", c)' <=> Pending(a, "attach", c)
    BY <2>3 DEF MailAbout
  <2>5. \A c, d \in Between(a, b) :
          /\ Before(a, "attach", d, "attach", c)' <=> Before(a, "attach", d, "attach", c)
          /\ Before(a, "ack", d, "attach", c)' => Before(a, "ack", d, "attach", c)
    BY <2>3 DEF MailAbout
  <2>6. Lists(a, b)' <=> Lists(a, b)
    BY DEF Lists
  <2>7. PairOK(a, b) /\ spoilt'[{a, b}] = spoilt[{a, b}]
    BY <1>2
  <2> QED
    BY <2>1, <2>4, <2>5, <2>6, <2>7, PairKept
<1> QED
  BY <1>1, <1>2

(* The ports that are connecting, and the pipes left for them, are the     *)
(* same.                                                                   *)
LEMMA CallsKept ==
  ASSUME CallsOK, UNCHANGED <<pipe, connecting>>, bound \subseteq bound'
  PROVE  CallsOK'
BY DEF CallsOK, Free

-----------------------------------------------------------------------------
(* Each action keeps ConnectionsInv.                                       *)

LEMMA AttachInv ==
  ASSUME ConnectionsInv, NEW p \in Peers, Attach(p)
  PROVE  ConnectionsInv'
<1>1. TypeOK /\ CallsOK /\ PipesOK /\ \A a, b \in Peers : PairOK(a, b)
  BY DEF ConnectionsInv, PipesOK
<1>2. PICK c, q : c = Head(mailbox[p]).pipe /\ q = Other(p, c)
  OBVIOUS
<1>3. /\ Commanded(p, "attach") /\ mailbox' = Rest(p)
      /\ end' = [end EXCEPT ![c][p] = Seen(p, q)]
      /\ UNCHANGED <<bound, connections_, pipe, connecting, spoilt>>
  BY <1>2 DEF Attach
<1>4. /\ c \in Between(p, q) /\ q \in Peers /\ q # p /\ p \in bound /\ q \in bound
      /\ mailbox' \in [Peers -> Seq(Mail)]
      /\ Handled(p, q, "attach", c)
  BY <1>1, <1>2, <1>3, HandledMail
<1>5. /\ c \in Pipes /\ end[c][p] = "coming" /\ end'[c][p] = Seen(p, q)
      /\ \A r \in Peers \ {p} : end'[c][r] = end[c][r]
      /\ \A d \in Pipes \ {c} : end'[d] = end[d]
  <2>1. c \in Pipes /\ end \in [Pipes -> [Peers -> EndStates]]
    BY <1>1, <1>4 DEF TypeOK, Between
  <2>2. Pending(p, "attach", c) /\ PipeOK(c)
    BY <1>1, <1>4, <2>1 DEF PipesOK, Handled
  <2>3. end[c][p] = "coming"
    BY <1>1, <1>4, <2>2, EndFacts
  <2> QED
    BY <1>3, <2>1, <2>3
<1>6. TypeOK'
  BY <1>1, <1>3, <1>4 DEF TypeOK, Mail, Seen, EndStates
<1>7. CallsOK'
  BY <1>1, <1>3, CallsKept
<1>8. /\ \A d \in Pipes \ {c} : PipeOK(d)'
      /\ \A a, b \in Peers : {a, b} # {p, q} => PairOK(a, b)'
  <2>1. MailAbout(c)
    BY <1>4 DEF Handled, MailAbout
  <2>2. \A a, b \in Peers : {a, b} # {p, q} => spoilt'[{a, b}] = spoilt[{a, b}]
    BY <1>3
  <2> QED
    BY <1>1, <1>3, <1>4, <1>5, <2>1, <2>2, Elsewhere
<1>9. PipeOK(c)'
  <2> SUFFICES ASSUME NEW a \in Peers, NEW b \in Peers, pipe[c] = <<a, b>>
               PROVE  EndsOK(c, a, b)' /\ CommandsOK(c, a, b)'
    BY <1>3, <1>4 DEF PipeOK, Between
  <2>1. EndsOK(c, a, b) /\ CommandsOK(c, a, b)
    BY <1>1, <1>5 DEF PipesOK, PipeOK
  <2>2. {a, b} = {p, q} /\ Seen(p, q) \in {"routed", "ignored"}
    BY <1>4 DEF Between, Seen
  <2>3. EndsOK(c, a, b)'
    BY <1>3, <1>4, <1>5, <2>1, <2>2 DEF EndsOK, Lists
  <2>4. CommandsOK(c, a, b)'
    <3>1. \A r \in Peers : \A w : Pending(r, w, c)' => Pending(r, w, c) /\ ~ (r = p /\ w = "attach")
      BY <1>3, <1>4 DEF Handled
    <3>2. \A r \in Peers : \A w : Pending(r, w, c) => Pending(r, w, c)' \/ (r = p /\ w = "attach")
      BY <1>4 DEF Handled
    <3>3. \A r \in Peers, w \in {"attach", "term"} : Before(r, w, c, w, c)' => Before(r, w, c, w, c)
      BY <1>4 DEF Handled
    <3>4. end'[c][p] \in {"routed", "ignored"} /\ end'[c][q] = end[c][q] /\ bound' = bound
      BY <1>3, <1>4, <1>5, <2>2
    <3>5. (a = p /\ b = q) \/ (a = q /\ b = p)
      BY <2>2, <1>4
    <3> QED
      BY <1>5, <2>1, <3>1, <3>2, <3>3, <3>4, <3>5 DEF CommandsOK
  <2> QED
    BY <2>3, <2>4
<1>10. /\ Between(p, q)' = Between(p, q) /\ Between(q, p)' = Between(q, p)
       /\ Between(p, q) = Between(q, p)
       /\ \A d \in Between(p, q) : d \in Pipes /\ d \in Between(q, p) /\ PipeOK(d)
  BY <1>1, <1>3 DEF Between, PipesOK
<1>11. /\ Named(q, p)' <=> Named(q, p)
       /\ Named(p, q) => Named(p, q)'
       /\ end'[c][p] = "routed" => Named(p, q)'
       /\ end'[c][p] = IF Named(p, q) THEN "ignored" ELSE "routed"
  <2>1. \A d \in Between(p, q) : HasName(d, q)' <=> HasName(d, q)
    BY <1>4, <1>5, <1>10 DEF HasName
  <2>2. \A d \in Between(p, q) : HasName(d, p) => HasName(d, p)'
    BY <1>4, <1>5, <1>10 DEF HasName
  <2>3. end'[c][p] = "routed" => HasName(c, p)'
    BY DEF HasName
  <2>4. end'[c][p] = IF Named(p, q) THEN "ignored" ELSE "routed"
    BY <1>5 DEF Seen
  <2> QED
    BY <1>4, <1>10, <2>1, <2>2, <2>3, <2>4 DEF Named
<1>12. OneName(p, q)' /\ OneName(q, p)'
  <2>1. OneName(p, q) /\ OneName(q, p)
    BY <1>1, <1>4 DEF PairOK
  <2>2. OneName(q, p)'
    BY <1>4, <1>5, <1>10, <2>1 DEF OneName, HasName
  <2>3. \A d \in Between(p, q) \ {c} : HasName(d, p)' <=> HasName(d, p)
    BY <1>5, <1>10 DEF HasName
  <2>4. HasName(c, p)' => ~Named(p, q)
    BY <1>11 DEF HasName
  <2>5. OneName(p, q)'
    BY <1>10, <2>1, <2>3, <2>4 DEF OneName, Named
  <2> QED
    BY <2>2, <2>5
<1>13. ASSUME "overlap" \notin spoilt[{p, q}]
       PROVE  WillAgree(p, q)' /\ WillAgree(q, p)'
  <2>1. {p, q} = {q, p} /\ WillAgree(p, q) /\ WillAgree(q, p) /\ OneName(q, p)
    BY <1>1, <1>4, <1>13 DEF PairOK
  <2>2. end[c][q] \in {"routed", "ignored", "cut", "gone"} /\ Pending(p, "attach", c)
    BY <1>1, <1>4, <1>10, EndFacts DEF Handled
  <2>3. end'[c][p] = "routed" <=> end[c][q] \in {"routed", "cut"}
    <3>1. \A d \in Between(p, q) : ~Before(p, "attach", d, "attach", c)
      BY <1>4 DEF Handled
    <3>2. end[c][q] \in {"routed", "cut"} => ~Named(p, q)
      BY <1>4, <2>1, <2>2 DEF WillAgree
    <3>3. end[c][q] \in {"ignored", "gone"} => Named(p, q)
      BY <1>4, <2>1, <2>2, <3>1 DEF WillAgree
    <3> QED
      BY <1>11, <2>2, <3>2, <3>3
  <2>4. ASSUME NEW d \in Between(p, q), Pending(p, "attach", d)',
               end'[d][q] \in {"routed", "cut"}
        PROVE  FALSE
    <3>1. d # c /\ Pending(p, "attach", d) /\ end[d][q] \in {"routed", "cut"}
      BY <1>3, <1>4, <1>5, <1>10, <2>4 DEF Handled
    <3>2. ~Named(p, q)
      BY <2>1, <3>1 DEF WillAgree
    <3>3. HasName(c, q) /\ HasName(d, q)
      BY <1>11, <2>2, <2>3, <3>1, <3>2 DEF HasName
    <3> QED
      BY <1>4, <1>10, <2>1, <3>1, <3>3 DEF OneName
  <2>5. ASSUME NEW d \in Between(p, q), Pending(p, "attach", d)',
               end'[d][q] \in {"ignored", "gone"}, ~Named(p, q)'
        PROVE  \E e \in Between(p, q) :
                 Before(p, "attach", e, "attach", d)' /\ end'[e][q] \in {"routed", "cut"}
    <3>1. d # c /\ Pending(p, "attach", d) /\ end[d][q] \in {"ignored", "gone"} /\ ~Named(p, q)
      BY <1>3, <1>4, <1>5, <1>10, <1>11, <2>5 DEF Handled
    <3>2. PICK e \in Between(p, q) :
            Before(p, "attach", e, "attach", d) /\ end[e][q] \in {"routed", "cut"}
      BY <2>1, <3>1 DEF WillAgree
    <3>3. e # c
      BY <1>11, <2>3, <2>5, <3>2
    <3>4. Before(p, "attach", e, "attach", d)'
      BY <1>4, <3>2, <3>3 DEF Handled
    <3>5. end'[e][q] = end[e][q]
      BY <1>4, <1>5, <1>10
    <3> QED
      BY <3>2, <3>4, <3>5
  <2>6. WillAgree(p, q)'
    <3> SUFFICES ASSUME NEW d \in Between(p, q)
                 PROVE  /\ end'[d][p] = "routed" => end'[d][q] \in {"routed", "coming", "cut"}
                        /\ \A e \in Between(p, q) :
                             end'[e][p] \in {"cut", "ended"} => ~Before(p, "ack", e, "attach", d)'
      BY <1>10, <2>4, <2>5 DEF WillAgree
    <3>1. end'[d][p] = "routed" => end'[d][q] \in {"routed", "coming", "cut"}
      BY <1>4, <1>5, <1>10, <2>1, <2>3 DEF WillAgree
    <3>2. ASSUME NEW e \in Between(p, q), end'[e][p] \in {"cut", "ended"}
          PROVE  ~Before(p, "ack", e, "attach", d)'
      <4>1. end[e][p] \in {"cut", "ended"}
        BY <1>5, <1>10, <1>11, <3>2
      <4> QED
        BY <1>4, <2>1, <4>1 DEF Handled, WillAgree
    <3> QED
      BY <3>1, <3>2
  <2>7. WillAgree(q, p)'
    <3> SUFFICES ASSUME NEW d \in Between(q, p)
                 PROVE  /\ end'[d][q] = "routed" => end'[d][p] \in {"routed", "coming", "cut"}
                        /\ Pending(q, "attach", d)' /\ end'[d][p] \in {"routed", "cut"} => ~Named(q, p)'
                        /\ Pending(q, "attach", d)' /\ end'[d][p] \in {"ignored", "gone"} =>
                             \/ Named(q, p)'
                             \/ \E e \in Between(q, p) :
                                  Before(q, "attach", e, "attach", d)' /\ end'[e][p] \in {"routed", "cut"}
                        /\ \A e \in Between(q, p) :
                             end'[e][q] \in {"cut", "ended"} => ~Before(q, "ack", e, "attach", d)'
      BY <1>10 DEF WillAgree
    <3>1. /\ end'[d][q] = end[d][q]
          /\ d # c => end'[d][p] = end[d][p]
      BY <1>4, <1>5, <1>10
    <3>2. Pending(q, "attach", d)' => Pending(q, "attach", d) /\ d # c
      BY <1>4, <1>3, <2>2, EndFacts, <1>1, <1>10 DEF Handled
    <3>3. end'[d][q] = "routed" => end'[d][p] \in {"routed", "coming", "cut"}
      BY <2>1, <2>3, <3>1 DEF WillAgree
    <3>4. Pending(q, "attach", d)' /\ end'[d][p] \in {"routed", "cut"} => ~Named(q, p)'
      BY <1>11, <2>1, <3>1, <3>2 DEF WillAgree
    <3>5. ASSUME Pending(q, "attach", d)', end'[d][p] \in {"ignored", "gone"}, ~Named(q, p)'
          PROVE  \E e \in Between(q, p) :
                   Before(q, "attach", e, "attach", d)' /\ end'[e][p] \in {"routed", "cut"}
      <4>1. PICK e \in Between(q, p) :
              Before(q, "attach", e, "attach", d) /\ end[e][p] \in {"routed", "cut"}
        BY <1>11, <2>1, <3>1, <3>2, <3>5 DEF WillAgree
      <4>2. e # c /\ end'[e][p] = end[e][p]
        BY <1>5, <1>10, <4>1
      <4>3. Before(q, "attach", e, "attach", d)'
        BY <1>4, <4>1, <4>2 DEF Handled
      <4> QED
        BY <4>1, <4>2, <4>3
    <3>6. ASSUME NEW e \in Between(q, p), end'[e][q] \in {"cut", "ended"}
          PROVE  ~Before(q, "ack", e, "attach", d)'
      <4>1. end[e][q] \in {"cut", "ended"}
        BY <1>4, <1>5, <1>10, <3>6
      <4> QED
        BY <1>4, <2>1, <4>1 DEF Handled, WillAgree
    <3> QED
      BY <3>3, <3>4, <3>5, <3>6
  <2> QED
    BY <2>6, <2>7
<1>14. ASSUME spoilt[{p, q}] = {}
       PROVE  Unspoilt(p, q)' /\ Unspoilt(q, p)'
  <2>1. {p, q} = {q, p} /\ WillAgree(p, q) /\ Unspoilt(p, q) /\ Unspoilt(q, p)
    BY <1>1, <1>4, <1>14 DEF PairOK
  <2>2. \A d \in Between(p, q) : Alive(d)' <=> Alive(d)
    <3> SUFFICES ASSUME NEW d \in Between(p, q)
                 PROVE  Alive(d)' <=> Alive(d)
      OBVIOUS
    <3>1. pipe'[d] = pipe[d] /\ pipe[d][1] \in {p, q}
      BY <1>3 DEF Between
    <3> QED
      BY <1>4, <1>5, <1>10, <1>11, <3>1 DEF Alive
  <2>3. /\ Lists(p, q)' <=> Lists(p, q)
        /\ Lists(q, p)' <=> Lists(q, p)
    BY <1>3 DEF Lists
  <2>4. \A d \in Pipes : /\ pipe[d] = <<p, q>> => d \in Between(p, q)
                         /\ pipe[d] = <<q, p>> => d \in Between(p, q)
    BY DEF Between
  <2>5. ASSUME Alive(c), end'[c][p] = "ignored"
        PROVE  \E d \in Between(p, q) : Alive(d) /\ end[d][p] = "routed"
    <3>1. PICK d \in Between(p, q) : HasName(d, p)
      BY <1>11, <2>5 DEF Named
    <3>2. end[d][p] \notin {"cut", "ending", "ended"} /\ end[d][q] # "cut"
      BY <1>4, <1>10, <2>1, <2>5, <3>1 DEF Unspoilt
    <3>3. end[d][p] = "routed"
      BY <3>1, <3>2 DEF HasName
    <3>4. end[d][q] \in {"routed", "coming"}
      BY <2>1, <3>2, <3>3 DEF WillAgree
    <3>5. pipe[d][1] \in {p, q}
      BY DEF Between
    <3>6. Alive(d)
      BY <3>3, <3>4, <3>5 DEF Alive
    <3> QED
      BY <3>3, <3>6
  <2>6. Unspoilt(p, q)'
    <3> SUFFICES ASSUME NEW d \in Between(p, q), Alive(d)
                 PROVE  /\ end'[d][p] = "ignored" =>
                             \E e \in Between(p, q) : Alive(e) /\ end'[e][p] = "routed"
                        /\ \A e \in Between(p, q) : end'[e][p] \notin {"cut", "ending", "ended"}
      BY <1>3, <1>10, <2>1, <2>2, <2>3, <2>4 DEF Unspoilt
    <3>1. end'[d][p] = "ignored" => \E e \in Between(p, q) : Alive(e) /\ end[e][p] = "routed"
      BY <1>5, <1>10, <2>1, <2>5 DEF Unspoilt
    <3>2. \A e \in Between(p, q) : end[e][p] = "routed" => end'[e][p] = "routed"
      BY <1>5, <1>10
    <3>3. \A e \in Between(p, q) : end'[e][p] \notin {"cut", "ending", "ended"}
      BY <1>5, <1>10, <1>11, <2>1 DEF Unspoilt
    <3> QED
      BY <3>1, <3>2, <3>3
  <2>7. Unspoilt(q, p)'
    <3>1. \A e \in Between(q, p) : end'[e][q] = end[e][q]
      BY <1>4, <1>5, <1>10
    <3> QED
      BY <1>3, <1>10, <2>1, <2>2, <2>3, <2>4, <3>1 DEF Unspoilt
  <2> QED
    BY <2>6, <2>7
<1>15. PairOK(p, q)' /\ PairOK(q, p)'
  <2>1. spoilt' = spoilt /\ {p, q} = {q, p}
    BY <1>3
  <2> QED
    BY <1>12, <1>13, <1>14, <2>1 DEF PairOK
<1> QED
  <2>1. \A a, b \in Peers : PairOK(a, b)'
    <3> SUFFICES ASSUME NEW a \in Peers, NEW b \in Peers, {a, b} = {p, q}
                 PROVE  PairOK(a, b)'
      BY <1>8
    <3>1. (a = p /\ b = q) \/ (a = q /\ b = p)
      BY <1>4
    <3> QED
      BY <1>15, <3>1
  <2> QED
    BY <1>6, <1>7, <1>8, <1>9, <2>1 DEF ConnectionsInv

LEMMA BeforeIsPending ==
  ASSUME TypeOK, NEW r \in Peers, NEW v, NEW d, NEW u, NEW e, Before(r, v, d, u, e)
  PROVE  Pending(r, v, d) /\ Pending(r, u, e)
<1>1. DOMAIN mailbox[r] = 1 .. Len(mailbox[r])
  BY DEF TypeOK
<1> QED
  BY <1>1 DEF Before, Pending, Contains

(* A port goes on letting go of its end of a pipe: it is cut off (x is     *)
(* "ending"), has read all there is ("ended"), or has let go.              *)
LEMMA LettingGo ==
  ASSUME TypeOK, PipesOK, NEW p \in Peers, NEW q \in Peers, p # q,
         PairOK(p, q), PairOK(q, p), NEW c \in Between(p, q), NEW x,
         UNCHANGED <<connections_, pipe>>,
         end' = [end EXCEPT ![c][p] = x],
         \/ x = "ending" /\ end[c][p] = "routed" /\ end[c][q] \in {"cut", "gone"}
         \/ x = "ended" /\ end[c][p] = "ending" /\ end[c][q] \in {"cut", "gone"}
         \/ x = "gone" /\ end[c][p] = "ignored" /\ end[c][q] \in {"cut", "gone"}
         \/ x = "gone" /\ end[c][p] \in {"cut", "ended", "gone"} /\ end[c][q] \in {"ended", "gone"},
         MailAbout(c),
         \A r \in Peers, d \in Between(p, q) :
           /\ Pending(r, "attach", d)' => Pending(r, "attach", d)
           /\ \A e \in Between(p, q) :
                Before(r, "ack", e, "attach", d)' => Before(r, "ack", e, "attach", d),
         x = "ended" => \A d \in Between(p, q) : ~Pending(p, "attach", d),
         end[c][p] \in {"cut", "ended"} => \A d \in Between(p, q) :
           Pending(p, "attach", d)' => Before(p, "ack", c, "attach", d)
  PROVE  /\ OneName(p, q)' /\ OneName(q, p)'
         /\ "overlap" \notin spoilt[{p, q}] => WillAgree(p, q)' /\ WillAgree(q, p)'
         /\ spoilt[{p, q}] = {} => Unspoilt(p, q)' /\ Unspoilt(q, p)'
<1>1. /\ Between(p, q)' = Between(p, q) /\ Between(q, p)' = Between(q, p)
      /\ Between(p, q) = Between(q, p)
      /\ \A d \in Between(p, q) : d \in Pipes /\ d \in Between(q, p) /\ PipeOK(d)
  BY DEF Between, PipesOK
<1>2. /\ c \in Pipes /\ end'[c][p] = x /\ end'[c][q] = end[c][q]
      /\ \A d \in Between(p, q) \ {c} : end'[d] = end[d]
  BY <1>1 DEF TypeOK
<1>3. x \in {"ending", "ended", "gone"} /\ end[c][p] # "coming" /\ end[c][q] \in {"cut", "gone", "ended"}
  OBVIOUS
<1>4. ~Pending(p, "attach", c) /\ ~Pending(q, "attach", c)
  BY <1>1, <1>3, EndFacts
<1>5. /\ \A d \in Between(p, q) : HasName(d, q)' <=> HasName(d, q)
      /\ \A d \in Between(p, q) : HasName(d, p)' => HasName(d, p)
      /\ \A d \in Between(p, q) \ {c} : HasName(d, p) <=> HasName(d, p)'
      /\ HasName(c, p) /\ ~HasName(c, p)' => end[c][p] \in {"cut", "ended"}
  <2>1. \A d \in Between(p, q) : HasName(d, q)' <=> HasName(d, q)
    BY <1>2 DEF HasName
  <2>2. \A d \in Between(p, q) \ {c} : HasName(d, p) <=> HasName(d, p)'
    BY <1>2 DEF HasName
  <2>3. HasName(c, p)' => HasName(c, p)
    BY <1>2 DEF HasName
  <2>4. HasName(c, p) /\ ~HasName(c, p)' => end[c][p] \in {"cut", "ended"}
    BY <1>2 DEF HasName
  <2> QED
    BY <2>1, <2>2, <2>3, <2>4
<1>6. Named(q, p)' <=> Named(q, p)
  BY <1>1, <1>5 DEF Named
<1>7. Named(p, q)' => Named(p, q)
  BY <1>1, <1>5 DEF Named
<1>8. OneName(p, q)' /\ OneName(q, p)'
  <2>1. OneName(p, q) /\ OneName(q, p)
    BY DEF PairOK
  <2> QED
    BY <1>1, <1>5, <2>1 DEF OneName
<1>9. ASSUME "overlap" \notin spoilt[{p, q}]
       PROVE  WillAgree(p, q)' /\ WillAgree(q, p)'
  <2>1. {p, q} = {q, p} /\ WillAgree(p, q) /\ WillAgree(q, p)
    BY <1>9 DEF PairOK
  <2>2. \A r \in {p, q} : \A d \in Between(p, q) :
          /\ Pending(r, "attach", d)' => Pending(r, "attach", d) /\ d # c
          /\ \A e \in Between(p, q) :
               Before(r, "attach", e, "attach", d) => /\ Before(r, "attach", e, "attach", d)'
                                                      /\ e # c
    <3> SUFFICES ASSUME NEW r \in {p, q}, NEW d \in Between(p, q)
                 PROVE  /\ Pending(r, "attach", d)' => Pending(r, "attach", d) /\ d # c
                        /\ \A e \in Between(p, q) :
                             Before(r, "attach", e, "attach", d) =>
                               Before(r, "attach", e, "attach", d)' /\ e # c
      OBVIOUS
    <3>1. Pending(r, "attach", d)' => Pending(r, "attach", d) /\ d # c
      BY <1>4
    <3>2. ASSUME NEW e \in Between(p, q), Before(r, "attach", e, "attach", d)
          PROVE  Before(r, "attach", e, "attach", d)' /\ e # c
      <4>1. Pending(r, "attach", e) /\ Pending(r, "attach", d)
        BY <3>2, BeforeIsPending
      <4>2. e # c /\ d # c
        BY <1>4, <4>1
      <4> QED
        BY <3>2, <4>2 DEF MailAbout
    <3> QED
      BY <3>1, <3>2
  <2>3. ASSUME NEW d \in Between(p, q), NEW e \in Between(p, q)
        PROVE  /\ end'[e][p] \in {"cut", "ended"} => ~Before(p, "ack", e, "attach", d)'
               /\ end'[e][q] \in {"cut", "ended"} => ~Before(q, "ack", e, "attach", d)'
    <3>1. end'[e][q] \in {"cut", "ended"} => ~Before(q, "ack", e, "attach", d)'
      BY <1>1, <1>2, <2>1 DEF WillAgree
    <3>2. CASE e = c /\ x = "ended"
      <4>1. ~Pending(p, "attach", d)
        BY <3>2
      <4> QED
        BY <3>1, <4>1, BeforeIsPending
    <3>3. CASE ~ (e = c /\ x = "ended")
      <4>1. end'[e][p] \in {"cut", "ended"} => end[e][p] \in {"cut", "ended"}
        BY <1>2, <1>3, <3>3
      <4> QED
        BY <2>1, <3>1, <4>1 DEF WillAgree
    <3> QED
      BY <3>2, <3>3
  <2>4. WillAgree(p, q)'
    <3> SUFFICES ASSUME NEW d \in Between(p, q)
                 PROVE  /\ end'[d][p] = "routed" => end'[d][q] \in {"routed", "coming", "cut"}
                        /\ Pending(p, "attach", d)' /\ end'[d][q] \in {"routed", "cut"} => ~Named(p, q)'
                        /\ Pending(p, "attach", d)' /\ end'[d][q] \in {"ignored", "gone"} =>
                             \/ Named(p, q)'
                             \/ \E e \in Between(p, q) :
                                  Before(p, "attach", e, "attach", d)' /\ end'[e][q] \in {"routed", "cut"}
      BY <1>1, <2>3 DEF WillAgree
    <3>1. end'[d][q] = end[d][q] /\ (d # c => end'[d] = end[d])
      BY <1>2
    <3>2. end'[d][p] = "routed" => end'[d][q] \in {"routed", "coming", "cut"}
      BY <1>2, <1>3, <2>1, <3>1 DEF WillAgree
    <3>3. Pending(p, "attach", d)' /\ end'[d][q] \in {"routed", "cut"} => ~Named(p, q)'
      BY <1>7, <2>1, <2>2, <3>1 DEF WillAgree
    <3>4. ASSUME Pending(p, "attach", d)', end'[d][q] \in {"ignored", "gone"}, ~Named(p, q)'
          PROVE  \E e \in Between(p, q) :
                   Before(p, "attach", e, "attach", d)' /\ end'[e][q] \in {"routed", "cut"}
      <4>1. CASE Named(p, q)
        <5>1. HasName(c, p) /\ ~HasName(c, p)'
          BY <1>1, <1>5, <3>4, <4>1 DEF Named
        <5>2. end[c][p] \in {"cut", "ended"}
          BY <1>5, <5>1
        <5>3. Before(p, "ack", c, "attach", d)
          BY <3>4, <5>2
        <5> QED
          BY <2>1, <5>2, <5>3 DEF WillAgree
      <4>2. CASE ~Named(p, q)
        <5>1. PICK e \in Between(p, q) :
                Before(p, "attach", e, "attach", d) /\ end[e][q] \in {"routed", "cut"}
          BY <2>1, <2>2, <3>1, <3>4, <4>2 DEF WillAgree
        <5> QED
          BY <1>2, <2>2, <5>1
      <4> QED
        BY <4>1, <4>2
    <3> QED
      BY <3>2, <3>3, <3>4
  <2>5. WillAgree(q, p)'
    <3> SUFFICES ASSUME NEW d \in Between(p, q)
                 PROVE  /\ end'[d][q] = "routed" => end'[d][p] \in {"routed", "coming", "cut"}
                        /\ Pending(q, "attach", d)' /\ end'[d][p] \in {"routed", "cut"} => ~Named(q, p)'
                        /\ Pending(q, "attach", d)' /\ end'[d][p] \in {"ignored", "gone"} =>
                             \/ Named(q, p)'
                             \/ \E e \in Between(p, q) :
                                  Before(q, "attach", e, "attach", d)' /\ end'[e][p] \in {"routed", "cut"}
      BY <1>1, <2>3 DEF WillAgree
    <3>1. end'[d][q] = end[d][q] /\ (d # c => end'[d] = end[d])
      BY <1>2
    <3>2. end'[d][q] = "routed" => end'[d][p] \in {"routed", "coming", "cut"}
      BY <1>1, <1>2, <1>3, <2>1, <3>1 DEF WillAgree
    <3>3. Pending(q, "attach", d)' /\ end'[d][p] \in {"routed", "cut"} => ~Named(q, p)'
      BY <1>1, <1>6, <2>1, <2>2, <3>1 DEF WillAgree
    <3>4. ASSUME Pending(q, "attach", d)', end'[d][p] \in {"ignored", "gone"}, ~Named(q, p)'
          PROVE  \E e \in Between(p, q) :
                   Before(q, "attach", e, "attach", d)' /\ end'[e][p] \in {"routed", "cut"}
      <4>1. PICK e \in Between(p, q) :
              Before(q, "attach", e, "attach", d) /\ end[e][p] \in {"routed", "cut"}
        BY <1>1, <1>6, <2>1, <2>2, <3>1, <3>4 DEF WillAgree
      <4> QED
        BY <1>2, <2>2, <4>1
    <3> QED
      BY <3>2, <3>3, <3>4
  <2> QED
    BY <2>4, <2>5
<1>10. ASSUME spoilt[{p, q}] = {}
       PROVE  Unspoilt(p, q)' /\ Unspoilt(q, p)'
  <2>1. {p, q} = {q, p} /\ WillAgree(p, q) /\ WillAgree(q, p) /\ Unspoilt(p, q) /\ Unspoilt(q, p)
    BY <1>10 DEF PairOK
  <2>2. \A d \in Between(p, q) : pipe'[d] = pipe[d] /\ pipe[d][1] \in {p, q}
    BY DEF Between
  <2>3. \A d \in Between(p, q) \ {c} : Alive(d)' <=> Alive(d)
    BY <1>2, <2>2 DEF Alive
  <2>4. ~Alive(c) /\ ~Alive(c)'
    <3>1. CASE pipe[c][1] = q
      BY <1>2, <1>3, <2>2, <3>1 DEF Alive
    <3>2. CASE pipe[c][1] = p
      <4>1. pipe[c] = <<p, q>>
        BY <3>2 DEF Between
      <4>2. EndsOK(c, p, q)
        BY <1>1, <4>1 DEF PipeOK
      <4>3. end[c][p] \in {"cut", "gone"}
        BY <1>3, <4>2 DEF EndsOK
      <4> QED
        BY <1>2, <3>2, <4>3 DEF Alive
    <3> QED
      BY <2>2, <3>1, <3>2
  <2>5. /\ Lists(p, q)' <=> Lists(p, q)
        /\ Lists(q, p)' <=> Lists(q, p)
    BY DEF Lists
  <2>6. \A d \in Pipes : /\ pipe[d] = <<p, q>> => d \in Between(p, q)
                         /\ pipe[d] = <<q, p>> => d \in Between(p, q)
    BY DEF Between
  <2>7. x \in {"ending", "ended"} => \A d \in Between(p, q) : ~Alive(d)
    <3>1. CASE x = "ending"
      <4>1. end[c][q] = "cut"
        BY <2>1, <3>1 DEF WillAgree
      <4> QED
        BY <1>1, <2>1, <4>1 DEF Unspoilt
    <3>2. CASE x = "ended"
      BY <2>1, <3>2 DEF Unspoilt
    <3> QED
      BY <3>1, <3>2
  <2>8. \A d \in Between(p, q) : end'[d][p] # end[d][p] => d = c
    BY <1>2
  <2>9. Unspoilt(p, q)'
    <3> SUFFICES ASSUME NEW d \in Between(p, q), Alive(d)
                 PROVE  /\ end'[d][p] = "ignored" =>
                             \E e \in Between(p, q) : Alive(e) /\ e # c /\ end[e][p] = "routed"
                        /\ \A e \in Between(p, q) : end'[e][p] \notin {"cut", "ending", "ended"}
      BY <1>1, <1>2, <2>1, <2>2, <2>3, <2>4, <2>5, <2>6 DEF Unspoilt
    <3>1. x = "gone" /\ d # c
      BY <1>3, <2>4, <2>7
    <3> QED
      BY <1>1, <1>2, <2>1, <2>4, <3>1 DEF Unspoilt
  <2>10. Unspoilt(q, p)'
    <3>1. \A e \in Between(p, q) : end'[e][q] = end[e][q]
      BY <1>2
    <3> QED
      BY <1>1, <2>1, <2>2, <2>3, <2>4, <2>5, <2>6, <3>1 DEF Unspoilt
  <2> QED
    BY <2>9, <2>10
<1> QED
  BY <1>8, <1>9, <1>10

(* All of the invariant, from what it says of the pipe and the pair that a *)
(* step is about.                                                          *)
LEMMA PairStep ==
  ASSUME NEW p \in Peers, NEW q \in Peers, NEW c \in Pipes,
         TypeOK', CallsOK', PipeOK(c)', PairOK(p, q)', PairOK(q, p)',
         \A d \in Pipes \ {c} : PipeOK(d)',
         \A a, b \in Peers : {a, b} # {p, q} => PairOK(a, b)'
  PROVE  ConnectionsInv'
<1>1. \A d \in Pipes : PipeOK(d)'
  OBVIOUS
<1>2. \A a, b \in Peers : PairOK(a, b)'
  <2> SUFFICES ASSUME NEW a \in Peers, NEW b \in Peers, {a, b} = {p, q}
               PROVE  PairOK(a, b)'
    OBVIOUS
  <2>1. (a = p /\ b = q) \/ (a = q /\ b = p)
    OBVIOUS
  <2> QED
    BY <2>1
<1> QED
  BY <1>1, <1>2 DEF ConnectionsInv

LEMMA TermInv ==
  ASSUME ConnectionsInv, NEW p \in Peers, Term(p)
  PROVE  ConnectionsInv'
<1>1. TypeOK /\ CallsOK /\ PipesOK /\ \A a, b \in Peers : PairOK(a, b)
  BY DEF ConnectionsInv, PipesOK
<1>2. PICK c, q : c = Head(mailbox[p]).pipe /\ q = Other(p, c)
  OBVIOUS
<1>3. /\ Commanded(p, "term") /\ (mailbox' = Rest(p) \/ mailbox' = Answered(p, c))
      /\ UNCHANGED <<bound, connections_, pipe, connecting, spoilt>>
  BY <1>2 DEF Term
<1>4. /\ c \in Between(p, q) /\ q \in Peers /\ q # p /\ p \in bound /\ q \in bound
      /\ mailbox' \in [Peers -> Seq(Mail)]
      /\ Handled(p, q, "term", c)
  BY <1>1, <1>2, <1>3, HandledMail
<1>5. c \in Pipes /\ end \in [Pipes -> [Peers -> EndStates]] /\ PipeOK(c)
  BY <1>1, <1>4 DEF TypeOK, Between, PipesOK
<1>6. pipe[c] = <<q, p>> /\ end[c][q] \in {"cut", "gone"}
  BY <1>1, <1>4, <1>5, EndFacts DEF Handled
<1>7. PICK x \in {"ending", "gone"} :
        /\ end' = [end EXCEPT ![c][p] = x]
        /\ \/ x = "ending" /\ end[c][p] = "routed" /\ mailbox' = Rest(p)
           \/ x = "gone" /\ end[c][p] = "ignored"
  BY <1>2 DEF Term
<1>8. /\ end'[c][p] = x
      /\ \A r \in Peers \ {p} : end'[c][r] = end[c][r]
      /\ \A d \in Pipes \ {c} : end'[d] = end[d]
  BY <1>5, <1>7
<1>9. TypeOK'
  BY <1>1, <1>3, <1>4, <1>7 DEF TypeOK, Mail, EndStates
<1>10. CallsOK'
  BY <1>1, <1>3, CallsKept
<1>11. MailAbout(c)
  BY <1>4 DEF Handled, MailAbout
<1>12. /\ \A d \in Pipes \ {c} : PipeOK(d)'
       /\ \A a, b \in Peers : {a, b} # {p, q} => PairOK(a, b)'
  <2>1. \A a, b \in Peers : {a, b} # {p, q} => spoilt'[{a, b}] = spoilt[{a, b}]
    BY <1>3
  <2> QED
    BY <1>1, <1>3, <1>4, <1>8, <1>11, <2>1, Elsewhere
<1>13. PipeOK(c)'
  <2> SUFFICES EndsOK(c, q, p)' /\ CommandsOK(c, q, p)'
    BY <1>3, <1>4, <1>6 DEF PipeOK
  <2>1. EndsOK(c, q, p) /\ CommandsOK(c, q, p)
    BY <1>4, <1>5, <1>6 DEF PipeOK
  <2>2. EndsOK(c, q, p)'
    BY <1>3, <1>4, <1>6, <1>7, <1>8, <2>1 DEF EndsOK, Lists
  <2>3. CommandsOK(c, q, p)'
    <3>1. \A r \in Peers : \A w : Pending(r, w, c)' =>
             /\ Pending(r, w, c) \/ (r = q /\ w = "ack" /\ x = "gone")
             /\ ~ (r = p /\ w = "term")
      BY <1>4, <1>7 DEF Handled
    <3>2. \A r \in Peers : \A w : Pending(r, w, c) => Pending(r, w, c)' \/ (r = p /\ w = "term")
      BY <1>4 DEF Handled
    <3>3. \A r \in Peers, w \in {"attach", "term"} : Before(r, w, c, w, c)' => Before(r, w, c, w, c)
      BY <1>4 DEF Handled
    <3>4. end'[c][q] = end[c][q] /\ bound' = bound
      BY <1>3, <1>4, <1>8
    <3> QED
      BY <1>4, <1>6, <1>7, <1>8, <2>1, <3>1, <3>2, <3>3, <3>4 DEF CommandsOK
  <2> QED
    BY <2>2, <2>3
<1>14. PairOK(p, q)' /\ PairOK(q, p)'
  <2>1. \A r \in Peers, d \in Between(p, q) :
          /\ Pending(r, "attach", d)' => Pending(r, "attach", d)
          /\ \A e \in Between(p, q) :
               Before(r, "ack", e, "attach", d)' => Before(r, "ack", e, "attach", d)
    BY <1>4 DEF Handled
  <2>2. /\ OneName(p, q)' /\ OneName(q, p)'
        /\ "overlap" \notin spoilt[{p, q}] => WillAgree(p, q)' /\ WillAgree(q, p)'
        /\ spoilt[{p, q}] = {} => Unspoilt(p, q)' /\ Unspoilt(q, p)'
    BY <1>1, <1>3, <1>4, <1>6, <1>7, <1>11, <2>1, LettingGo
  <2>3. spoilt' = spoilt /\ {p, q} = {q, p}
    BY <1>3
  <2> QED
    BY <2>2, <2>3 DEF PairOK
<1> QED
  BY <1>4, <1>5, <1>9, <1>10, <1>12, <1>13, <1>14, PairStep

LEMMA SameMailbox ==
  ASSUME NEW r, mailbox'[r] = mailbox[r]
  PROVE  /\ \A v, d : Pending(r, v, d)' <=> Pending(r, v, d)
         /\ \A v, d, u, e : Before(r, v, d, u, e)' <=> Before(r, v, d, u, e)
<1>1. \A v, d : Pending(r, v, d)' <=> Pending(r, v, d)
  BY DEF Pending, Command
<1>2. \A v, d, u, e : Before(r, v, d, u, e)' <=> Before(r, v, d, u, e)
  BY DEF Before, Command
<1> QED
  BY <1>1, <1>2

LEMMA LetGoInv ==
  ASSUME ConnectionsInv, NEW p \in Peers, NEW c \in Pipes, LetGo(p, c)
  PROVE  ConnectionsInv'
<1>1. TypeOK /\ CallsOK /\ PipesOK /\ \A a, b \in Peers : PairOK(a, b)
  BY DEF ConnectionsInv, PipesOK
<1>2. PICK q : q = Other(p, c)
  OBVIOUS
<1>3. /\ mailbox[p] = <<>> /\ end[c][p] = "ending"
      /\ end' = [end EXCEPT ![c][p] = "ended"]
      /\ mailbox' = [mailbox EXCEPT ![q] = Append(@, Command("ack", c))]
      /\ UNCHANGED <<bound, connections_, pipe, connecting, spoilt>>
  BY <1>2 DEF LetGo, Drained
<1>4. PipeOK(c) /\ end \in [Pipes -> [Peers -> EndStates]]
  BY <1>1 DEF PipesOK, TypeOK
<1>5. q \in Peers /\ q # p /\ pipe[c] = <<q, p>> /\ c \in Between(p, q)
  <2>1. PICK a \in Peers, b \in Peers : pipe[c] = <<a, b>> /\ EndsOK(c, a, b)
    BY <1>1, <1>3, <1>4 DEF PipeOK, TypeOK
  <2>2. b = p /\ a # p
    BY <1>3, <2>1 DEF EndsOK
  <2>3. Other(p, c) = a
    BY <2>1, <2>2 DEF Other
  <2> QED
    BY <1>2, <2>1, <2>2, <2>3 DEF Between
<1>6. end[c][q] \in {"cut", "gone"}
  BY <1>1, <1>3, <1>4, <1>5, EndFacts
<1>7. /\ mailbox' \in [Peers -> Seq(Mail)]
      /\ \A r \in Peers \ {q} : mailbox'[r] = mailbox[r]
      /\ \A v, d : Pending(q, v, d)' <=> Pending(q, v, d) \/ (v = "ack" /\ d = c)
      /\ \A v, d, u, e : Before(q, v, d, u, e)' <=>
           Before(q, v, d, u, e) \/ (Pending(q, v, d) /\ u = "ack" /\ e = c)
  BY <1>1, <1>3, <1>5, OneSent
<1>8. /\ \A r \in Peers : \A v, d :
           Pending(r, v, d)' <=> Pending(r, v, d) \/ (r = q /\ v = "ack" /\ d = c)
      /\ \A r \in Peers : \A v, d, u, e :
           Before(r, v, d, u, e)' <=>
             Before(r, v, d, u, e) \/ (r = q /\ Pending(q, v, d) /\ u = "ack" /\ e = c)
  <2>1. \A r \in Peers \ {q} : \A v, d : Pending(r, v, d)' <=> Pending(r, v, d)
    BY ONLY <1>7, SameMailbox
  <2>2. \A r \in Peers \ {q} : \A v, d, u, e : Before(r, v, d, u, e)' <=> Before(r, v, d, u, e)
    BY ONLY <1>7, SameMailbox
  <2>3. \A r \in Peers : r = q \/ r \in Peers \ {q}
    OBVIOUS
  <2>4. \A r \in Peers : \A v, d :
           Pending(r, v, d)' <=> Pending(r, v, d) \/ (r = q /\ v = "ack" /\ d = c)
    BY ONLY <1>7, <2>1, <2>3
  <2> QED
    BY ONLY <1>7, <2>2, <2>3, <2>4
<1>9. /\ end'[c][p] = "ended"
      /\ \A r \in Peers \ {p} : end'[c][r] = end[c][r]
      /\ \A d \in Pipes \ {c} : end'[d] = end[d]
  BY <1>3, <1>4
<1>10. TypeOK'
  BY <1>1, <1>3, <1>7 DEF TypeOK, Mail, EndStates
<1>11. CallsOK'
  BY <1>1, <1>3, CallsKept
<1>12. MailAbout(c)
  BY <1>8 DEF MailAbout
<1>13. /\ \A d \in Pipes \ {c} : PipeOK(d)'
       /\ \A a, b \in Peers : {a, b} # {p, q} => PairOK(a, b)'
  <2>1. \A a, b \in Peers : {a, b} # {p, q} => spoilt'[{a, b}] = spoilt[{a, b}]
    BY <1>3
  <2> QED
    BY <1>1, <1>3, <1>5, <1>9, <1>12, <2>1, Elsewhere
<1>14. PipeOK(c)'
  <2> SUFFICES EndsOK(c, q, p)' /\ CommandsOK(c, q, p)'
    BY <1>3, <1>5 DEF PipeOK
  <2>1. EndsOK(c, q, p) /\ CommandsOK(c, q, p)
    BY <1>4, <1>5 DEF PipeOK
  <2>2. EndsOK(c, q, p)'
    BY <1>3, <1>5, <1>6, <1>9, <2>1 DEF EndsOK, Lists
  <2>3. CommandsOK(c, q, p)'
    <3>1. \A r \in Peers : \A w :
             Pending(r, w, c)' <=> Pending(r, w, c) \/ (r = q /\ w = "ack")
      BY <1>8
    <3>2. \A r \in Peers, w \in {"attach", "term"} : Before(r, w, c, w, c)' => Before(r, w, c, w, c)
      BY <1>8
    <3>3. end'[c][q] = end[c][q] /\ bound' = bound
      BY <1>3, <1>5, <1>9
    <3>4. p \in bound
      BY <1>3, <2>1 DEF EndsOK
    <3> QED
      BY <1>3, <1>5, <1>6, <1>9, <2>1, <3>1, <3>2, <3>3, <3>4 DEF CommandsOK
  <2> QED
    BY <2>2, <2>3
<1>15. PairOK(p, q)' /\ PairOK(q, p)'
  <2>1. \A r \in Peers, d \in Between(p, q) :
          /\ Pending(r, "attach", d)' => Pending(r, "attach", d)
          /\ \A e \in Between(p, q) :
               Before(r, "ack", e, "attach", d)' => Before(r, "ack", e, "attach", d)
    BY <1>8
  <2>2. \A d \in Between(p, q) : ~Pending(p, "attach", d)
    BY <1>3 DEF Pending, Contains
  <2>3. /\ OneName(p, q)' /\ OneName(q, p)'
        /\ "overlap" \notin spoilt[{p, q}] => WillAgree(p, q)' /\ WillAgree(q, p)'
        /\ spoilt[{p, q}] = {} => Unspoilt(p, q)' /\ Unspoilt(q, p)'
    BY <1>1, <1>3, <1>5, <1>6, <1>12, <2>1, <2>2, LettingGo
  <2>4. spoilt' = spoilt /\ {p, q} = {q, p}
    BY <1>3
  <2> QED
    BY <2>3, <2>4 DEF PairOK
<1> QED
  BY <1>5, <1>10, <1>11, <1>13, <1>14, <1>15, PairStep

LEMMA AckInv ==
  ASSUME ConnectionsInv, NEW p \in Peers, Ack(p)
  PROVE  ConnectionsInv'
<1>1. TypeOK /\ CallsOK /\ PipesOK /\ \A a, b \in Peers : PairOK(a, b)
  BY DEF ConnectionsInv, PipesOK
<1>2. PICK c, q : c = Head(mailbox[p]).pipe /\ q = Other(p, c)
  OBVIOUS
<1>3. /\ Commanded(p, "ack") /\ (mailbox' = Rest(p) \/ mailbox' = Answered(p, c))
      /\ end[c][p] # "cut" => mailbox' = Rest(p)
      /\ end' = [end EXCEPT ![c][p] = "gone"]
      /\ spoilt' = IF /\ ~Lists(p, q) /\ ~Lists(q, p)
                      /\ \A d \in Between(p, q), r \in {p, q} : end'[d][r] = "gone"
                   THEN [spoilt EXCEPT ![{p, q}] = {}] ELSE spoilt
      /\ UNCHANGED <<bound, connections_, pipe, connecting>>
  BY <1>2 DEF Ack
<1>4. /\ c \in Between(p, q) /\ q \in Peers /\ q # p /\ p \in bound /\ q \in bound
      /\ mailbox' \in [Peers -> Seq(Mail)]
      /\ Handled(p, q, "ack", c)
  BY <1>1, <1>2, <1>3, HandledMail
<1>5. /\ c \in Pipes /\ end \in [Pipes -> [Peers -> EndStates]] /\ PipeOK(c)
      /\ spoilt \in [SUBSET Peers -> SUBSET {"overlap", "shared"}]
  BY <1>1, <1>4 DEF TypeOK, Between, PipesOK
<1>6. end[c][p] \in {"cut", "ended", "gone"} /\ end[c][q] \in {"ended", "gone"}
  BY <1>1, <1>4, <1>5, EndFacts DEF Handled
<1>7. /\ end'[c][p] = "gone"
      /\ \A r \in Peers \ {p} : end'[c][r] = end[c][r]
      /\ \A d \in Pipes \ {c} : end'[d] = end[d]
  BY <1>3, <1>5
<1>8. /\ spoilt' \in [SUBSET Peers -> SUBSET {"overlap", "shared"}]
      /\ \A a, b \in Peers : {a, b} # {p, q} => spoilt'[{a, b}] = spoilt[{a, b}]
  <2>1. {p, q} \in SUBSET Peers /\ \A a, b \in Peers : {a, b} \in SUBSET Peers
    BY <1>4
  <2> QED
    BY <1>3, <1>5, <2>1
<1>9. TypeOK'
  BY <1>1, <1>3, <1>4, <1>8 DEF TypeOK, Mail, EndStates
<1>10. CallsOK'
  BY <1>1, <1>3, CallsKept
<1>11. MailAbout(c)
  BY <1>4 DEF Handled, MailAbout
<1>12. /\ \A d \in Pipes \ {c} : PipeOK(d)'
       /\ \A a, b \in Peers : {a, b} # {p, q} => PairOK(a, b)'
  BY <1>1, <1>3, <1>4, <1>7, <1>8, <1>11, Elsewhere
<1>13. PipeOK(c)'
  <2>1. PICK a \in Peers, b \in Peers : pipe[c] = <<a, b>> /\ ((a = p /\ b = q) \/ (a = q /\ b = p))
    BY <1>4 DEF Between
  <2> SUFFICES EndsOK(c, a, b)' /\ CommandsOK(c, a, b)'
    BY <1>3, <2>1 DEF PipeOK
  <2>2. EndsOK(c, a, b) /\ CommandsOK(c, a, b)
    BY <1>5, <2>1 DEF PipeOK
  <2>3. EndsOK(c, a, b)'
    BY <1>3, <1>4, <1>6, <1>7, <2>1, <2>2 DEF EndsOK, Lists
  <2>4. CommandsOK(c, a, b)'
    <3>1. \A r \in Peers : \A w : Pending(r, w, c)' =>
             Pending(r, w, c) \/ (r = q /\ w = "ack" /\ end[c][p] = "cut")
      BY <1>3, <1>4 DEF Handled
    <3>2. \A r \in Peers : \A w : Pending(r, w, c) => Pending(r, w, c)' \/ w = "ack"
      BY <1>4 DEF Handled
    <3>3. \A r \in Peers, w \in {"attach", "term"} : Before(r, w, c, w, c)' => Before(r, w, c, w, c)
      BY <1>4 DEF Handled
    <3>4. end'[c][q] = end[c][q] /\ bound' = bound
      BY <1>3, <1>4, <1>7
    <3>5. end[c][p] = "cut" => a = p
      BY <1>4, <2>1, <2>2 DEF EndsOK
    <3> QED
      BY <1>4, <1>6, <1>7, <2>1, <2>2, <3>1, <3>2, <3>3, <3>4, <3>5 DEF CommandsOK
  <2> QED
    BY <2>3, <2>4
<1>14. PairOK(p, q)' /\ PairOK(q, p)'
  <2>1. \A r \in Peers, d \in Between(p, q) :
          /\ Pending(r, "attach", d)' => Pending(r, "attach", d)
          /\ \A e \in Between(p, q) :
               Before(r, "ack", e, "attach", d)' => Before(r, "ack", e, "attach", d)
    BY <1>4 DEF Handled
  <2>2. \A d \in Between(p, q) : Pending(p, "attach", d)' => Before(p, "ack", c, "attach", d)
    BY <1>4 DEF Handled
  <2>3. /\ OneName(p, q)' /\ OneName(q, p)'
        /\ "overlap" \notin spoilt[{p, q}] => WillAgree(p, q)' /\ WillAgree(q, p)'
        /\ spoilt[{p, q}] = {} => Unspoilt(p, q)' /\ Unspoilt(q, p)'
    <3>1. PICK x : x = "gone"
      OBVIOUS
    <3>2. end' = [end EXCEPT ![c][p] = x] /\ UNCHANGED <<connections_, pipe>>
      BY <1>3, <3>1
    <3>3. x = "gone" /\ end[c][p] \in {"cut", "ended", "gone"} /\ end[c][q] \in {"ended", "gone"}
      BY <1>6, <3>1
    <3>4. x # "ended"
      BY <3>1
    <3> QED
      BY <1>1, <1>4, <1>11, <2>1, <2>2, <3>2, <3>3, <3>4, LettingGo
  <2>4. CASE spoilt' = spoilt
    <3>1. {p, q} = {q, p}
      OBVIOUS
    <3> QED
      BY <2>3, <2>4, <3>1 DEF PairOK
  (* All pipes of the pair are gone, and neither lists the other.          *)
  <2>5. CASE spoilt' # spoilt
    <3>1. /\ ~Lists(p, q)' /\ ~Lists(q, p)'
          /\ \A d \in Between(p, q) : end'[d][p] = "gone" /\ end'[d][q] = "gone"
      BY <1>3, <2>5 DEF Lists
    <3>2. /\ Between(p, q)' = Between(p, q) /\ Between(q, p)' = Between(p, q)
          /\ \A d \in Between(p, q) : d \in Between(q, p) /\ d \in Pipes /\ PipeOK(d)
      BY <1>1, <1>3 DEF Between, PipesOK
    <3>3. \A d \in Between(p, q) : ~Pending(p, "attach", d)' /\ ~Pending(q, "attach", d)'
      <4> SUFFICES ASSUME NEW d \in Between(p, q), NEW r \in {p, q}, Pending(r, "attach", d)'
                   PROVE  FALSE
        OBVIOUS
      <4>1. end[d][r] = "coming"
        BY <1>1, <1>4, <2>1, <3>2, EndFacts
      <4> QED
        BY <1>4, <1>6, <1>7, <3>1, <3>2, <4>1
    <3>4. WillAgree(p, q)' /\ WillAgree(q, p)'
      BY <3>1, <3>2, <3>3 DEF WillAgree
    <3>5. \A d \in Between(p, q) : ~Alive(d)'
      <4> SUFFICES ASSUME NEW d \in Between(p, q)
                   PROVE  ~Alive(d)'
        OBVIOUS
      <4>1. pipe'[d][1] \in {p, q}
        BY <1>3 DEF Between
      <4> QED
        BY <3>1, <4>1 DEF Alive
    <3>6. Unspoilt(p, q)' /\ Unspoilt(q, p)'
      BY <3>1, <3>2, <3>5 DEF Unspoilt
    <3> QED
      BY <2>3, <3>4, <3>6 DEF PairOK
  <2> QED
    BY <2>4, <2>5
<1> QED
  BY <1>4, <1>5, <1>9, <1>10, <1>12, <1>13, <1>14, PairStep

LEMMA BeginConnectInv ==
  ASSUME ConnectionsInv, NEW p \in Peers, NEW q \in Peers, BeginConnect(p, q)
  PROVE  ConnectionsInv'
<1>1. TypeOK /\ CallsOK /\ PipesOK /\ \A a, b \in Peers : PairOK(a, b)
  BY DEF ConnectionsInv, PipesOK
<1>2. /\ p \in bound /\ q # p /\ connecting[p] = None
      /\ Cardinality(Free) > Cardinality({r \in Peers : connecting[r] # None})
      /\ connecting' = [connecting EXCEPT ![p] = q]
      /\ UNCHANGED <<bound, connections_, pipe, end, mailbox, spoilt>>
  BY DEF BeginConnect, Drained
<1>3. TypeOK'
  BY <1>1, <1>2 DEF TypeOK
<1>4. CallsOK'
  <2> DEFINE R == {r \in Peers : connecting[r] # None}
  <2>1. connecting \in [Peers -> Peers \cup {None}]
    BY <1>1 DEF TypeOK
  <2>2. {r \in Peers : connecting'[r] # None} = R \cup {p}
    BY <1>2, <2>1
  <2>3. p \notin R /\ IsFiniteSet(R) /\ Cardinality(Free) > Cardinality(R)
    BY <1>1, <1>2 DEF CallsOK
  <2>4. Free \in SUBSET Pipes /\ Free' = Free
    BY <1>2 DEF Free
  <2> HIDE DEF R
  <2>5. IsFiniteSet(R \cup {p}) /\ Cardinality(R \cup {p}) = Cardinality(R) + 1
    BY <2>3, FS_AddElement
  <2>6. Cardinality(R) \in Nat /\ Cardinality(Free) \in Nat
    BY <2>3, <2>4, FS_CardinalityType, Numbered
  <2>7. Cardinality(R) + 1 <= Cardinality(Free)
    BY ONLY <2>3, <2>6
  <2>8. \A r \in Peers : connecting'[r] # None => r \in bound' /\ connecting'[r] # r
    BY <1>1, <1>2, <2>1 DEF CallsOK
  <2> QED
    BY <2>2, <2>4, <2>5, <2>7, <2>8 DEF CallsOK
<1>5. \A r \in Peers : /\ \A v, d : Pending(r, v, d)' <=> Pending(r, v, d)
                       /\ \A v, d, u, e : Before(r, v, d, u, e)' <=> Before(r, v, d, u, e)
  BY <1>2, SameMailbox
<1>6. \A a, b \in Peers : Lists(a, b)' <=> Lists(a, b)
  BY <1>2 DEF Lists
<1>7. ASSUME NEW d \in Pipes
      PROVE  PipeOK(d)'
  <2>1. PipeOK(d)
    BY <1>1 DEF PipesOK
  <2> QED
    BY <1>2, <1>5, <1>6, <2>1, PipeKept
<1>8. ASSUME NEW a \in Peers, NEW b \in Peers
      PROVE  PairOK(a, b)'
  <2>1. PairOK(a, b) /\ Between(a, b)' = Between(a, b)
    BY <1>1, <1>2 DEF Between
  <2> QED
    BY <1>2, <1>5, <1>6, <2>1, PairKept
<1> QED
  BY <1>3, <1>4, <1>7, <1>8 DEF ConnectionsInv

LEMMA AppendLists ==
  ASSUME TypeOK, NEW p \in Peers, NEW q \in Peers,
         connections_' = [connections_ EXCEPT ![p] = Append(@, q)]
  PROVE  /\ connections_' \in [Peers -> Seq(Peers)]
         /\ \A a, b \in Peers : Lists(a, b)' <=> Lists(a, b) \/ (a = p /\ b = q)
<1>1. connections_ \in [Peers -> Seq(Peers)]
  BY DEF TypeOK
<1> DEFINE s == Append(connections_[p], q)
<1>2. s \in Seq(Peers) /\ \A e : Contains(s, e) <=> Contains(connections_[p], e) \/ e = q
  <2>1. connections_[p] \in Seq(Peers)
    BY <1>1
  <2> QED
    BY ONLY <2>1, AppendParts, q \in Peers
<1>3. connections_' = [connections_ EXCEPT ![p] = s]
  OBVIOUS
<1> HIDE DEF s
<1>4. connections_' \in [Peers -> Seq(Peers)]
  BY <1>1, <1>2, <1>3
<1>5. connections_'[p] = s /\ \A a \in Peers \ {p} : connections_'[a] = connections_[a]
  BY <1>1, <1>3
<1>6. ASSUME NEW a \in Peers, NEW b \in Peers
      PROVE  Lists(a, b)' <=> Lists(a, b) \/ (a = p /\ b = q)
  BY <1>2, <1>5 DEF Lists
<1> QED
  BY <1>4, <1>6

LEMMA ConnectInv ==
  ASSUME ConnectionsInv, NEW p \in Peers, Connect(p)
  PROVE  ConnectionsInv'
<1>1. TypeOK /\ CallsOK /\ PipesOK /\ \A a, b \in Peers : PairOK(a, b)
  BY DEF ConnectionsInv, PipesOK
<1>2. PICK c, q : c = Min(Free) /\ q = connecting[p]
  OBVIOUS
<1> DEFINE overlaps == \E d \in Between(p, q) :
             \/ end[d][p] = "coming"
             \/ {end[d][p], end[d][q]} \cap {"cut", "ending", "ended"} # {}
<1>3. /\ q # None
      /\ connections_' = [connections_ EXCEPT ![p] = Append(@, q)]
      /\ pipe' = [pipe EXCEPT ![c] = <<p, q>>]
      /\ connecting' = [connecting EXCEPT ![p] = None]
      /\ bound' = bound
      /\ q \in bound =>
           /\ end' = [end EXCEPT ![c][p] = Seen(p, q), ![c][q] = "coming"]
           /\ mailbox' = [mailbox EXCEPT ![q] = Append(@, Command("attach", c))]
           /\ spoilt' = [spoilt EXCEPT ![{p, q}] = @ \cup (IF overlaps THEN {"overlap"} ELSE {})]
      /\ q \notin bound =>
           /\ end' = [end EXCEPT ![c][p] = "coming", ![c][q] = "coming"]
           /\ mailbox' = mailbox /\ spoilt' = spoilt
  BY <1>2 DEF Connect, Spoil
<1> HIDE DEF overlaps
<1>4. p \in bound /\ q \in Peers /\ q # p
  BY <1>1, <1>2, <1>3 DEF CallsOK, TypeOK
(* There is a pipe left.                                                   *)
<1>5. c \in Free /\ CallsOK'
  <2> DEFINE R == {r \in Peers : connecting[r] # None}
  <2>1. p \in R /\ IsFiniteSet(R) /\ Cardinality(R) <= Cardinality(Free)
    BY <1>1, <1>2, <1>3 DEF CallsOK
  <2>2. Free \in SUBSET Pipes
    BY DEF Free
  <2>3. Free \in SUBSET Nat /\ IsFiniteSet(Free) /\ Cardinality(Free) \in Nat
    BY <2>2, Numbered
  <2>4. {r \in Peers : connecting'[r] # None} = R \ {p}
    BY <1>1, <1>3 DEF TypeOK
  <2> HIDE DEF R
  <2>5. /\ IsFiniteSet(R \ {p}) /\ Cardinality(R \ {p}) = Cardinality(R) - 1
        /\ Cardinality(R) \in Nat /\ Cardinality(R \ {p}) \in Nat
    BY <2>1, FS_RemoveElement, FS_CardinalityType
  <2>6. Free # {}
    <3>1. Cardinality(Free) # 0
      BY ONLY <2>1, <2>3, <2>5
    <3> QED
      BY <3>1, FS_EmptySet
  <2>7. c \in Free
    BY <1>2, <2>3, <2>6, MinExists
  <2>8. Free' = Free \ {c}
    BY <1>1, <1>3, <1>4, <2>7 DEF Free, TypeOK
  <2>9. Cardinality(Free \ {c}) = Cardinality(Free) - 1
    BY <2>3, <2>7, FS_RemoveElement
  <2>10. Cardinality(R \ {p}) <= Cardinality(Free \ {c})
    BY ONLY <2>1, <2>3, <2>5, <2>9
  <2>11. \A r \in Peers : connecting'[r] # None => r \in bound' /\ connecting'[r] # r
    BY <1>1, <1>3 DEF CallsOK, TypeOK
  <2> QED
    BY <2>4, <2>5, <2>7, <2>8, <2>10, <2>11 DEF CallsOK
<1>6. /\ c \in Pipes /\ pipe[c] = <<None, None>> /\ pipe'[c] = <<p, q>>
      /\ \A d \in Pipes \ {c} : pipe'[d] = pipe[d]
      /\ \A r \in Peers : /\ end[c][r] = "none"
                          /\ \A w \in {"attach", "term", "ack"} : ~Pending(r, w, c)
  <2>1. c \in Pipes /\ pipe[c] = <<None, None>>
    BY <1>5 DEF Free
  <2>2. PipeOK(c) /\ pipe \in [Pipes -> {<<None, None>>} \cup (Peers \X Peers)]
    BY <1>1, <2>1 DEF PipesOK, TypeOK
  <2> QED
    BY <1>3, <2>1, <2>2 DEF PipeOK
<1>7. /\ end'[c][q] = "coming"
      /\ end'[c][p] = IF q \in bound THEN Seen(p, q) ELSE "coming"
      /\ \A r \in Peers \ {p, q} : end'[c][r] = "none"
      /\ \A d \in Pipes \ {c} : end'[d] = end[d]
      /\ end' \in [Pipes -> [Peers -> EndStates]]
  <2>1. end \in [Pipes -> [Peers -> EndStates]] /\ Seen(p, q) \in EndStates /\ "coming" \in EndStates
    BY <1>1 DEF TypeOK, Seen, EndStates
  <2>2. PICK x \in EndStates : x = IF q \in bound THEN Seen(p, q) ELSE "coming"
    BY <2>1
  <2>3. end' = [end EXCEPT ![c][p] = x, ![c][q] = "coming"]
    BY <1>3, <2>2
  <2> QED
    BY <1>4, <1>6, <2>1, <2>2, <2>3
<1>8. /\ mailbox' \in [Peers -> Seq(Mail)]
      /\ \A r \in Peers : \A v, d :
           Pending(r, v, d)' <=> Pending(r, v, d) \/ (r = q /\ q \in bound /\ v = "attach" /\ d = c)
      /\ \A r \in Peers : \A v, d, u, e :
           Before(r, v, d, u, e)' <=>
             Before(r, v, d, u, e) \/ (r = q /\ q \in bound /\ Pending(q, v, d) /\ u = "attach" /\ e = c)
  <2>1. CASE q \notin bound
    <3>1. mailbox' = mailbox /\ mailbox \in [Peers -> Seq(Mail)]
      BY <1>1, <1>3, <2>1 DEF TypeOK, Mail
    <3> QED
      BY <2>1, <3>1, SameMailbox
  <2>2. CASE q \in bound
    <3>1. /\ mailbox' \in [Peers -> Seq(Mail)]
          /\ \A r \in Peers \ {q} : mailbox'[r] = mailbox[r]
          /\ \A v, d : Pending(q, v, d)' <=> Pending(q, v, d) \/ (v = "attach" /\ d = c)
          /\ \A v, d, u, e : Before(q, v, d, u, e)' <=>
               Before(q, v, d, u, e) \/ (Pending(q, v, d) /\ u = "attach" /\ e = c)
      BY <1>1, <1>3, <1>4, <1>6, <2>2, OneSent
    <3>2. \A r \in Peers \ {q} : \A v, d : Pending(r, v, d)' <=> Pending(r, v, d)
      BY ONLY <3>1, SameMailbox
    <3>3. \A r \in Peers \ {q} : \A v, d, u, e : Before(r, v, d, u, e)' <=> Before(r, v, d, u, e)
      BY ONLY <3>1, SameMailbox
    <3>4. \A r \in Peers : r = q \/ r \in Peers \ {q}
      OBVIOUS
    <3>5. \A r \in Peers : \A v, d :
           Pending(r, v, d)' <=> Pending(r, v, d) \/ (r = q /\ q \in bound /\ v = "attach" /\ d = c)
      BY ONLY <2>2, <3>1, <3>2, <3>4
    <3> QED
      BY ONLY <2>2, <3>1, <3>3, <3>4, <3>5
  <2> QED
    BY <2>1, <2>2
<1>9. /\ connections_' \in [Peers -> Seq(Peers)]
      /\ \A a, b \in Peers : Lists(a, b)' <=> Lists(a, b) \/ (a = p /\ b = q)
  BY <1>1, <1>3, <1>4, AppendLists
<1>10. /\ spoilt' \in [SUBSET Peers -> SUBSET {"overlap", "shared"}]
       /\ \A a, b \in Peers : {a, b} # {p, q} => spoilt'[{a, b}] = spoilt[{a, b}]
       /\ spoilt[{p, q}] \subseteq spoilt'[{p, q}]
       /\ q \in bound /\ overlaps => "overlap" \in spoilt'[{p, q}]
  <2>1. /\ {p, q} \in SUBSET Peers /\ \A a, b \in Peers : {a, b} \in SUBSET Peers
        /\ spoilt \in [SUBSET Peers -> SUBSET {"overlap", "shared"}]
    BY <1>1, <1>4 DEF TypeOK
  <2>2. CASE q \notin bound
    BY <1>3, <2>1, <2>2
  <2>3. CASE q \in bound
    <3>1. PICK more : more = IF overlaps THEN {"overlap"} ELSE {}
      OBVIOUS
    <3>2. more \in SUBSET {"overlap", "shared"} /\ (overlaps => "overlap" \in more)
      BY <3>1
    <3>3. spoilt' = [spoilt EXCEPT ![{p, q}] = @ \cup more]
      BY <1>3, <2>3, <3>1
    <3>4. spoilt'[{p, q}] = spoilt[{p, q}] \cup more
      BY <2>1, <3>3
    <3>5. \A a, b \in Peers : {a, b} # {p, q} => spoilt'[{a, b}] = spoilt[{a, b}]
      BY <2>1, <3>3
    <3>6. spoilt' \in [SUBSET Peers -> SUBSET {"overlap", "shared"}]
      BY <2>1, <3>2, <3>3
    <3> QED
      BY <3>2, <3>4, <3>5, <3>6
  <2> QED
    BY <2>2, <2>3
<1>11. TypeOK'
  BY <1>1, <1>3, <1>4, <1>6, <1>7, <1>8, <1>9, <1>10 DEF TypeOK, Mail
<1>12. ASSUME NEW d \in Pipes \ {c}
       PROVE  PipeOK(d)'
  <2>1. PipeOK(d)
    BY <1>1 DEF PipesOK
  <2>2. pipe'[d] = pipe[d] /\ end'[d] = end[d] /\ d \in Pipes /\ d # c
    BY <1>6, <1>7
  <2>3. \A r \in Peers, w \in {"attach", "term", "ack"} : Pending(r, w, d)' <=> Pending(r, w, d)
    BY <1>8
  <2>4. \A r \in Peers, w \in {"attach", "term"} : Before(r, w, d, w, d)' => Before(r, w, d, w, d)
    BY <1>8
  <2> QED
    BY <1>3, <1>9, <2>1, <2>2, <2>3, <2>4, PipeKept
<1>13. PipeOK(c)'
  <2> SUFFICES EndsOK(c, p, q)' /\ CommandsOK(c, p, q)'
    BY <1>4, <1>6 DEF PipeOK
  <2>1. Seen(p, q) \in {"routed", "ignored"}
    BY DEF Seen
  <2>2. EndsOK(c, p, q)'
    BY <1>3, <1>4, <1>7, <1>9, <2>1 DEF EndsOK
  <2>3. \A r \in Peers, w \in {"attach", "term", "ack"} :
          Pending(r, w, c)' <=> r = q /\ q \in bound /\ w = "attach"
    BY <1>6, <1>8
  <2>4. \A r \in Peers, w \in {"attach", "term"} : ~Before(r, w, c, w, c)'
    <3> SUFFICES ASSUME NEW r \in Peers, NEW w \in {"attach", "term"}, Before(r, w, c, w, c)'
                 PROVE  FALSE
      OBVIOUS
    <3>1. Before(r, w, c, w, c) \/ Pending(r, w, c)
      BY <1>8
    <3> QED
      BY <1>1, <1>6, <3>1, BeforeIsPending
  <2>5. CommandsOK(c, p, q)'
    BY <1>3, <1>4, <1>7, <2>1, <2>3, <2>4 DEF CommandsOK
  <2> QED
    BY <2>2, <2>5
<1>14. ASSUME NEW a \in Peers, NEW b \in Peers, {a, b} # {p, q}
       PROVE  PairOK(a, b)'
  <2>1. Between(a, b)' = Between(a, b) /\ \A d \in Between(a, b) : d \in Pipes \ {c}
    BY <1>4, <1>6, <1>14 DEF Between
  <2>2. \A d \in Between(a, b) :
          /\ pipe'[d] = pipe[d] /\ end'[d] = end[d]
          /\ Pending(a, "attach", d)' <=> Pending(a, "attach", d)
    BY <1>6, <1>7, <1>8, <2>1
  <2>3. \A d, e \in Between(a, b) :
          /\ Before(a, "attach", e, "attach", d)' <=> Before(a, "attach", e, "attach", d)
          /\ Before(a, "ack", e, "attach", d)' => Before(a, "ack", e, "attach", d)
    BY <1>8, <2>1
  <2>4. Lists(a, b)' <=> Lists(a, b)
    BY <1>9, <1>14
  <2>5. PairOK(a, b) /\ spoilt'[{a, b}] = spoilt[{a, b}]
    BY <1>1, <1>10, <1>14
  <2> QED
    BY <2>1, <2>2, <2>3, <2>4, <2>5, PairKept
<1> DEFINE B == Between(p, q)
<1>15. /\ Between(p, q)' = B \cup {c} /\ Between(q, p)' = B \cup {c} /\ c \notin B
       /\ Between(q, p) = B
       /\ \A d \in B : /\ d \in Pipes \ {c} /\ d \in Between(q, p) /\ PipeOK(d)
                       /\ pipe'[d] = pipe[d] /\ end'[d] = end[d]
  <2>1. /\ Between(q, p) = B /\ c \notin B
        /\ \A d \in B : d \in Pipes \ {c} /\ PipeOK(d)
    BY <1>1, <1>4, <1>6 DEF Between, PipesOK
  <2>2. Between(p, q)' = B \cup {c} /\ Between(q, p)' = B \cup {c}
    BY <1>6, <2>1 DEF Between
  <2> QED
    BY <1>6, <1>7, <2>1, <2>2
<1> HIDE DEF B
<1>16. \A d \in B : d \in Between(p, q) /\ d \in Between(q, p)
  BY <1>15 DEF B
<1>17. /\ q \notin bound => \A d \in B : end[d][p] = "coming" /\ end[d][q] = "coming"
       /\ q \in bound /\ ~overlaps => \A d \in B :
            end[d][p] \in {"routed", "ignored", "gone"} /\ end[d][q] \in {"coming", "routed", "ignored", "gone"}
  <2> SUFFICES ASSUME NEW d \in B
               PROVE  /\ q \notin bound => end[d][p] = "coming" /\ end[d][q] = "coming"
                      /\ q \in bound /\ ~overlaps =>
                           end[d][p] \in {"routed", "ignored", "gone"} /\ end[d][q] \in {"coming", "routed", "ignored", "gone"}
    OBVIOUS
  <2>1. PipeOK(d) /\ d \in Between(p, q) /\ d \in Between(q, p)
    BY <1>15, <1>16
  <2>2. /\ end[d][p] \in {"coming", "routed", "ignored", "cut", "ending", "ended", "gone"}
        /\ end[d][q] \in {"coming", "routed", "ignored", "cut", "ending", "ended", "gone"}
    BY <1>1, <1>4, <2>1, EndFacts
  <2>3. CASE q \notin bound
    <3>1. pipe[d] = <<p, q>> \/ pipe[d] = <<q, p>>
      BY <2>1 DEF Between
    <3>2. pipe[d] = <<q, p>> => q \in bound
      BY <1>4, <2>1 DEF PipeOK, EndsOK
    <3>3. EndsOK(d, p, q)
      BY <1>4, <2>1, <2>3, <3>1, <3>2 DEF PipeOK
    <3> QED
      BY <2>3, <3>3 DEF EndsOK
  <2>4. CASE q \in bound
    BY <2>1, <2>2, <2>4 DEF overlaps
  <2> QED
    BY <2>3, <2>4
<1>18. Seen(p, q) = IF Named(p, q) THEN "ignored" ELSE "routed"
  BY DEF Seen
<1>19. /\ \A r \in {p, q} : \A d \in B : HasName(d, r)' <=> HasName(d, r)
       /\ ~HasName(c, q)' /\ (HasName(c, p)' => ~Named(p, q))
  BY <1>7, <1>15, <1>18 DEF HasName
<1>20. /\ Named(q, p)' <=> Named(q, p)
       /\ \A r \in {p, q} : \A d \in B : HasName(d, r) => (r = p => Named(p, q)) /\ (r = q => Named(q, p))
  BY <1>15, <1>16, <1>19 DEF Named
<1>21. OneName(p, q)' /\ OneName(q, p)'
  <2>1. OneName(p, q) /\ OneName(q, p)
    BY <1>1, <1>4 DEF PairOK
  <2>2. OneName(p, q)'
    BY <1>15, <1>16, <1>19, <1>20, <2>1 DEF OneName
  <2>3. OneName(q, p)'
    BY <1>15, <1>16, <1>19, <2>1 DEF OneName
  <2> QED
    BY <2>2, <2>3
<1>22. ASSUME q \in bound => ~overlaps
       PROVE  /\ \A d \in B \cup {c} : ~Pending(p, "attach", d)'
              /\ \A d \in B \cup {c} : ~Pending(p, "attach", d)
              /\ q \notin bound => \A d \in B \cup {c} : ~Pending(q, "attach", d) /\ ~Pending(q, "attach", d)'
  <2>1. \A d \in B : ~Pending(p, "attach", d)
    <3>1. CASE q \in bound
      BY <1>1, <1>4, <1>15, <1>16, <1>17, <1>22, <3>1, EndFacts
    <3>2. CASE q \notin bound
      BY <1>1, <1>4, <1>15, <1>16, <1>17, <3>2, EndFacts
    <3> QED
      BY <3>1, <3>2
  <2>2. q \notin bound => \A d \in B : ~Pending(q, "attach", d)
    BY <1>1, <1>4, <1>15, <1>16, <1>17, EndFacts
  <2>3. ~Pending(p, "attach", c) /\ ~Pending(q, "attach", c)
    BY <1>4, <1>6
  <2> QED
    BY <1>4, <1>8, <2>1, <2>2, <2>3
<1>23. ASSUME q \in bound => ~overlaps, "overlap" \notin spoilt[{p, q}]
       PROVE  WillAgree(p, q)' /\ WillAgree(q, p)'
  <2>1. {p, q} = {q, p} /\ WillAgree(p, q) /\ WillAgree(q, p)
    BY <1>1, <1>4, <1>23 DEF PairOK
  <2>2. \A d \in B : /\ end[d][p] = "routed" => end[d][q] \in {"routed", "coming", "cut"}
                     /\ end[d][q] = "routed" => end[d][p] \in {"routed", "coming", "cut"}
    BY <1>16, <2>1 DEF WillAgree
  <2>3. \A d, e \in B \cup {c} : ~Before(p, "ack", e, "attach", d)'
    <3> SUFFICES ASSUME NEW d \in B \cup {c}, NEW e \in B \cup {c}, Before(p, "ack", e, "attach", d)'
                 PROVE  FALSE
      OBVIOUS
    <3>1. Before(p, "ack", e, "attach", d)
      BY <1>4, <1>8
    <3>2. Pending(p, "attach", d)
      BY <1>1, <3>1, BeforeIsPending
    <3> QED
      BY <1>22, <1>23, <3>2
  <2>4. WillAgree(p, q)'
    <3>1. \A d \in B \cup {c} : end'[d][p] = "routed" => end'[d][q] \in {"routed", "coming", "cut"}
      BY <1>7, <1>15, <2>2
    <3> QED
      BY <1>15, <1>22, <1>23, <2>3, <3>1 DEF WillAgree
  <2>5. CASE q \notin bound
    <3>1. \A d, e \in B \cup {c} : ~Before(q, "ack", e, "attach", d)'
      <4> SUFFICES ASSUME NEW d \in B \cup {c}, NEW e \in B \cup {c}, Before(q, "ack", e, "attach", d)'
                   PROVE  FALSE
        OBVIOUS
      <4>1. Before(q, "ack", e, "attach", d)
        BY <1>4, <1>8, <2>5
      <4>2. Pending(q, "attach", d)
        BY <1>1, <1>4, <4>1, BeforeIsPending
      <4> QED
        BY <1>22, <1>23, <2>5, <4>2
    <3>2. \A d \in B \cup {c} : end'[d][q] = "coming"
      BY <1>7, <1>15, <1>17, <2>5
    <3>3. WillAgree(q, p)'
      BY <1>15, <1>22, <1>23, <2>5, <3>1, <3>2 DEF WillAgree
    <3> QED
      BY <2>4, <3>3
  <2>6. CASE q \in bound
    (* No end of the pair is cut or coming: a name at one end is one at    *)
    (* the other, or will be before the new pipe comes.                    *)
    <3>1. \A d \in B : /\ HasName(d, p) <=> end[d][p] = "routed"
                       /\ HasName(d, q) <=> end[d][q] = "routed"
      BY <1>17, <1>23, <2>6 DEF HasName
    <3>2. Named(q, p) => Named(p, q)
      <4> SUFFICES ASSUME Named(q, p)
                   PROVE  Named(p, q)
        OBVIOUS
      <4>1. PICK d \in B : HasName(d, q)
        BY <1>15 DEF Named
      <4>2. end[d][p] = "routed"
        BY <1>17, <1>23, <2>2, <2>6, <3>1, <4>1
      <4> QED
        BY <1>20, <3>1, <4>2
    <3>3. Named(p, q) /\ ~Named(q, p) =>
            \E e \in B : Pending(q, "attach", e) /\ end[e][p] = "routed"
      <4> SUFFICES ASSUME Named(p, q), ~Named(q, p)
                   PROVE  \E e \in B : Pending(q, "attach", e) /\ end[e][p] = "routed"
        OBVIOUS
      <4>1. PICK e \in B : HasName(e, p)
        BY DEF Named, B
      <4>2. end[e][p] = "routed" /\ end[e][q] \in {"routed", "coming"}
        BY <1>17, <1>23, <2>2, <2>6, <3>1, <4>1
      <4>3. end[e][q] = "coming"
        BY <1>20, <3>1, <4>2
      <4>4. Pending(q, "attach", e)
        BY <1>1, <1>4, <1>15, <1>16, <2>6, <4>3, EndFacts
      <4> QED
        BY <4>2, <4>4
    <3>4. \A d \in B \cup {c} : end'[d][q] = "routed" => end'[d][p] \in {"routed", "coming", "cut"}
      BY <1>7, <1>15, <2>2
    <3>5. \A d \in B : /\ Pending(q, "attach", d)' <=> Pending(q, "attach", d)
                       /\ \A e \in B : Before(q, "attach", e, "attach", d)' <=> Before(q, "attach", e, "attach", d)
      BY <1>4, <1>8, <1>15
    <3>6. \A d \in B \cup {c} :
            Pending(q, "attach", d)' /\ end'[d][p] \in {"routed", "cut"} => ~Named(q, p)'
      <4>1. \A d \in B : Pending(q, "attach", d) /\ end[d][p] \in {"routed", "cut"} => ~Named(q, p)
        BY <1>16, <2>1 DEF WillAgree
      <4>2. end'[c][p] \in {"routed", "cut"} => ~Named(q, p)
        BY <1>7, <1>18, <2>6, <3>2
      <4> QED
        BY <1>15, <1>20, <3>5, <4>1, <4>2
    <3>7. ASSUME NEW d \in B \cup {c}, Pending(q, "attach", d)', end'[d][p] \in {"ignored", "gone"}, ~Named(q, p)'
          PROVE  \E e \in B \cup {c} :
                   Before(q, "attach", e, "attach", d)' /\ end'[e][p] \in {"routed", "cut"}
      <4>1. CASE d = c
        <5>1. Named(p, q) /\ ~Named(q, p)
          BY <1>7, <1>18, <1>20, <2>6, <3>7, <4>1
        <5>2. PICK e \in B : Pending(q, "attach", e) /\ end[e][p] = "routed"
          BY <3>3, <5>1
        <5>3. Before(q, "attach", e, "attach", c)' /\ end'[e][p] = "routed"
          BY <1>4, <1>8, <1>15, <2>6, <5>2
        <5> QED
          BY <4>1, <5>3
      <4>2. CASE d \in B
        <5>1. Pending(q, "attach", d) /\ end[d][p] \in {"ignored", "gone"} /\ ~Named(q, p)
          BY <1>15, <1>20, <3>5, <3>7, <4>2
        <5>2. PICK e \in B : Before(q, "attach", e, "attach", d) /\ end[e][p] \in {"routed", "cut"}
          BY <1>15, <1>16, <2>1, <4>2, <5>1 DEF WillAgree
        <5> QED
          BY <1>15, <3>5, <4>2, <5>2
      <4> QED
        BY <4>1, <4>2
    <3>8. \A e \in B \cup {c} : end'[e][q] \notin {"cut", "ended"}
      BY <1>7, <1>15, <1>17, <1>23, <2>6
    <3>9. WillAgree(q, p)'
      BY <1>15, <3>4, <3>6, <3>7, <3>8 DEF WillAgree
    <3> QED
      BY <2>4, <3>9
  <2> QED
    BY <2>5, <2>6
<1>24. ASSUME q \in bound => ~overlaps, spoilt[{p, q}] = {}
       PROVE  Unspoilt(p, q)' /\ Unspoilt(q, p)'
  <2>1. {p, q} = {q, p} /\ WillAgree(p, q) /\ Unspoilt(p, q) /\ Unspoilt(q, p)
    BY <1>1, <1>4, <1>24 DEF PairOK
  <2>2. \A d \in B : pipe[d][1] \in {p, q} /\ (Alive(d)' <=> Alive(d))
    <3> SUFFICES ASSUME NEW d \in B
                 PROVE  pipe[d][1] \in {p, q} /\ (Alive(d)' <=> Alive(d))
      OBVIOUS
    <3>1. pipe[d][1] \in {p, q} /\ pipe'[d] = pipe[d] /\ end'[d] = end[d]
      BY <1>15, <1>16 DEF Between
    <3> QED
      BY <3>1 DEF Alive
  <2>3. Alive(c)'
    BY <1>6, <1>7, <1>18 DEF Alive
  <2>4. \A d \in B \cup {c} : /\ end'[d][p] \notin {"cut", "ending", "ended"}
                              /\ end'[d][q] \notin {"cut", "ending", "ended"}
    BY <1>7, <1>15, <1>17, <1>18, <1>24
  <2>5. ASSUME NEW d \in B \cup {c}, Alive(d)', end'[d][p] = "ignored"
        PROVE  \E e \in B \cup {c} : Alive(e)' /\ end'[e][p] = "routed"
    <3>1. CASE d \in B
      <4>1. PICK e \in B : Alive(e) /\ end[e][p] = "routed"
        BY <1>15, <1>16, <2>1, <2>2, <2>5, <3>1 DEF Unspoilt, B
      <4> QED
        BY <1>15, <2>2, <4>1
    <3>2. CASE d = c
      <4>1. q \in bound /\ Named(p, q)
        BY <1>7, <1>18, <2>5, <3>2
      <4>2. PICK e \in B : HasName(e, p)
        BY <4>1 DEF Named, B
      <4>3. end[e][p] = "routed" /\ end[e][q] \in {"coming", "routed", "ignored", "gone"}
        BY <1>17, <1>24, <4>1, <4>2 DEF HasName
      <4>4. end[e][q] \in {"coming", "routed"}
        BY <1>16, <2>1, <4>3 DEF WillAgree
      <4>5. Alive(e)
        BY <2>2, <4>3, <4>4 DEF Alive
      <4> QED
        BY <1>15, <2>2, <4>3, <4>5
    <3> QED
      BY <3>1, <3>2
  <2>6. ASSUME NEW d \in B \cup {c}, Alive(d)', end'[d][q] = "ignored"
        PROVE  \E e \in B \cup {c} : Alive(e)' /\ end'[e][q] = "routed"
    <3>1. d \in B /\ Alive(d) /\ end[d][q] = "ignored"
      BY <1>7, <1>15, <2>2, <2>6
    <3>2. PICK e \in B : Alive(e) /\ end[e][q] = "routed"
      BY <1>15, <1>16, <2>1, <3>1 DEF Unspoilt
    <3> QED
      BY <1>15, <2>2, <3>2
  <2>7. Lists(q, p)' => \E d \in Pipes : pipe'[d] = <<q, p>> /\ Alive(d)'
    <3> SUFFICES ASSUME Lists(q, p)'
                 PROVE  \E d \in Pipes : pipe'[d] = <<q, p>> /\ Alive(d)'
      OBVIOUS
    <3>1. Lists(q, p)
      BY <1>4, <1>9
    <3>2. PICK d \in Pipes : pipe[d] = <<q, p>> /\ Alive(d)
      BY <2>1, <3>1 DEF Unspoilt
    <3>3. d \in B
      BY <3>2 DEF B, Between
    <3> QED
      BY <1>15, <2>2, <3>2, <3>3
  <2>8. Unspoilt(p, q)'
    BY <1>6, <1>15, <2>3, <2>4, <2>5 DEF Unspoilt
  <2>9. Unspoilt(q, p)'
    BY <1>15, <2>4, <2>6, <2>7 DEF Unspoilt
  <2> QED
    BY <2>8, <2>9
<1>25. PairOK(p, q)' /\ PairOK(q, p)'
  <2>1. spoilt'[{p, q}] = {} => spoilt[{p, q}] = {} /\ (q \in bound => ~overlaps)
    BY <1>10
  <2>2. "overlap" \notin spoilt'[{p, q}] => "overlap" \notin spoilt[{p, q}] /\ (q \in bound => ~overlaps)
    BY <1>10
  <2>3. {p, q} = {q, p}
    OBVIOUS
  <2> QED
    BY <1>21, <1>23, <1>24, <2>1, <2>2, <2>3 DEF PairOK
<1> QED
  BY <1>25, <1>4, <1>5, <1>6, <1>11, <1>12, <1>13, <1>14, <1>15, PairStep

LEMMA RemoveLists ==
  ASSUME TypeOK, NEW p \in Peers, NEW q \in Peers, Lists(p, q),
         connections_' = [connections_ EXCEPT ![p] = RemoveFirst(connections_[p], q)]
  PROVE  /\ connections_' \in [Peers -> Seq(Peers)]
         /\ \A a, b \in Peers : /\ Lists(a, b)' => Lists(a, b)
                                /\ ~ (a = p /\ b = q) => (Lists(a, b)' <=> Lists(a, b))
<1> DEFINE s == connections_[p]
           t == RemoveFirst(s, q)
<1>1. connections_ \in [Peers -> Seq(Peers)] /\ s \in Seq(Peers)
  BY DEF TypeOK
<1>2. connections_'[p] = t /\ \A a \in Peers \ {p} : connections_'[a] = connections_[a]
  BY <1>1
<1>3. connections_' = [connections_ EXCEPT ![p] = t]
  OBVIOUS
<1>4. Contains(s, q)
  BY DEF Lists
<1> HIDE DEF s, t
<1>5. \A u \in Seq(Peers) : \A e : Contains(u, e) <=> e \in ToSet(u)
  <2> SUFFICES ASSUME NEW u \in Seq(Peers), NEW e
               PROVE  Contains(u, e) <=> e \in ToSet(u)
    OBVIOUS
  <2>1. DOMAIN u = 1 .. Len(u)
    OBVIOUS
  <2> QED
    BY <2>1 DEF Contains, ToSet
<1>6. q \in ToSet(s)
  BY <1>1, <1>4, <1>5
<1>7. t \in Seq(Peers) /\ ToSet(t) \subseteq ToSet(s) /\ ToSet(s) \ {q} \subseteq ToSet(t)
  BY <1>1, <1>6, RemoveFirstKeeps DEF t
<1>8. \A e : /\ Contains(t, e) => Contains(s, e)
             /\ e # q => (Contains(t, e) <=> Contains(s, e))
  BY <1>1, <1>5, <1>7
<1>9. connections_' \in [Peers -> Seq(Peers)]
  BY <1>1, <1>3, <1>7
<1>10. ASSUME NEW a \in Peers, NEW b \in Peers
       PROVE  /\ Lists(a, b)' => Lists(a, b)
              /\ ~ (a = p /\ b = q) => (Lists(a, b)' <=> Lists(a, b))
  <2>1. CASE a = p
    <3>1. Lists(p, b) <=> Contains(s, b)
      BY DEF Lists, s
    <3>2. Lists(p, b)' <=> Contains(t, b)
      BY <1>2 DEF Lists
    <3> QED
      BY <1>8, <2>1, <3>1, <3>2
  <2>2. CASE a # p
    BY <1>2, <2>2 DEF Lists
  <2> QED
    BY <2>1, <2>2
<1> QED
  BY <1>9, <1>10

LEMMA DisconnectInv ==
  ASSUME ConnectionsInv, NEW p \in Peers, NEW q \in Peers, Disconnect(p, q)
  PROVE  ConnectionsInv'
<1>1. TypeOK /\ CallsOK /\ PipesOK /\ \A a, b \in Peers : PairOK(a, b)
  BY DEF ConnectionsInv, PipesOK
<1>2. PICK cs \in SUBSET Pipes :
        /\ cs = {c \in Pipes : pipe[c] = <<p, q>> /\ end[c][p] \in {"routed", "ignored"}} /\ cs # {}
        /\ end' = [c \in Pipes |->
             IF c \in cs
             THEN [end[c] EXCEPT ![p] = IF @ = "routed" THEN "cut" ELSE "gone"]
             ELSE end[c]]
        /\ mailbox' = [mailbox EXCEPT ![q] = @ \o Commands("term", cs)]
  BY DEF Disconnect
<1>3. /\ mailbox[p] = <<>> /\ q \in bound /\ Lists(p, q)
      /\ connections_' = [connections_ EXCEPT ![p] = RemoveFirst(connections_[p], q)]
      /\ spoilt' = [spoilt EXCEPT ![{p, q}] =
           @ \cup (IF Lists(q, p) \/ Contains(RemoveFirst(connections_[p], q), q)
                   THEN {"shared"} ELSE {})]
      /\ UNCHANGED <<bound, pipe, connecting>>
  BY DEF Disconnect, Drained, Spoil
<1>4. end \in [Pipes -> [Peers -> EndStates]] /\ spoilt \in [SUBSET Peers -> SUBSET {"overlap", "shared"}]
  BY <1>1 DEF TypeOK
<1>5. \A c \in cs : /\ c \in Between(p, q) /\ pipe[c] = <<p, q>>
                    /\ PipeOK(c) /\ EndsOK(c, p, q) /\ CommandsOK(c, p, q)
                    /\ end[c][p] \in {"routed", "ignored"}
  BY <1>1, <1>2 DEF Between, PipesOK, PipeOK
<1>6. p # q /\ p \in bound
  BY <1>2, <1>5 DEF EndsOK
<1>7. /\ \A c \in cs : /\ end'[c][p] = (IF end[c][p] = "routed" THEN "cut" ELSE "gone")
                       /\ \A r \in Peers \ {p} : end'[c][r] = end[c][r]
      /\ \A c \in Pipes \ cs : end'[c] = end[c]
      /\ end' \in [Pipes -> [Peers -> EndStates]]
  BY <1>2, <1>4 DEF EndStates
<1>8. /\ mailbox' \in [Peers -> Seq(Mail)]
      /\ \A r \in Peers \ {q} : mailbox'[r] = mailbox[r]
      /\ \A v, d : Pending(q, v, d)' <=> Pending(q, v, d) \/ (v = "term" /\ d \in cs)
      /\ \A v, d, u, e : Before(q, v, d, u, e) => Before(q, v, d, u, e)'
      /\ \A v, d, u, e : Before(q, v, d, u, e)' =>
           \/ Before(q, v, d, u, e)
           \/ u = "term" /\ e \in cs /\ (Pending(q, v, d) \/ d # e)
  <2> DEFINE t == Commands("term", cs)
  <2>1. /\ t \in Seq(Mail)
        /\ \A w, c : Contains(t, Command(w, c)) <=> w = "term" /\ c \in cs
        /\ \A w, c, v, d : Precedes(t, Command(w, c), Command(v, d)) =>
             w = "term" /\ v = "term" /\ c \in cs /\ d \in cs /\ c < d
    BY CommandsParts DEF Mail
  <2>2. mailbox' = [mailbox EXCEPT ![q] = @ \o t]
    BY <1>2
  <2> HIDE DEF t
  <2>3. /\ mailbox' \in [Peers -> Seq(Mail)]
        /\ \A r \in Peers \ {q} : mailbox'[r] = mailbox[r]
        /\ \A v, d : Pending(q, v, d)' <=> Pending(q, v, d) \/ Contains(t, Command(v, d))
        /\ \A v, d, u, e : Before(q, v, d, u, e)' <=>
             \/ Before(q, v, d, u, e)
             \/ Precedes(t, Command(v, d), Command(u, e))
             \/ Pending(q, v, d) /\ Contains(t, Command(u, e))
    BY <1>1, <2>1, <2>2, SentParts
  <2>4. \A c, d \in cs : c < d => c # d
    BY DEF Pipes
  <2>5. \A v, d, u, e : Before(q, v, d, u, e)' =>
           \/ Before(q, v, d, u, e)
           \/ u = "term" /\ e \in cs /\ (Pending(q, v, d) \/ d # e)
    BY ONLY <2>1, <2>3, <2>4
  <2> QED
    BY ONLY <2>1, <2>3, <2>5
<1>9. \A r \in Peers \ {q} : /\ \A v, d : Pending(r, v, d)' <=> Pending(r, v, d)
                             /\ \A v, d, u, e : Before(r, v, d, u, e)' <=> Before(r, v, d, u, e)
  BY ONLY <1>8, SameMailbox
<1>10. /\ connections_' \in [Peers -> Seq(Peers)]
       /\ \A a, b \in Peers : /\ Lists(a, b)' => Lists(a, b)
                              /\ ~ (a = p /\ b = q) => (Lists(a, b)' <=> Lists(a, b))
  BY <1>1, <1>3, RemoveLists
<1>11. /\ spoilt' \in [SUBSET Peers -> SUBSET {"overlap", "shared"}]
       /\ \A a, b \in Peers : {a, b} # {p, q} => spoilt'[{a, b}] = spoilt[{a, b}]
       /\ spoilt[{p, q}] \subseteq spoilt'[{p, q}]
       /\ spoilt'[{p, q}] = {} => ~Lists(q, p) /\ ~Lists(p, q)'
  <2>1. PICK more : more = IF Lists(q, p) \/ Contains(RemoveFirst(connections_[p], q), q)
                           THEN {"shared"} ELSE {}
    OBVIOUS
  <2>2. more \in SUBSET {"overlap", "shared"}
    BY <2>1
  <2>3. spoilt' = [spoilt EXCEPT ![{p, q}] = @ \cup more]
    BY <1>3, <2>1
  <2>4. {p, q} \in SUBSET Peers /\ \A a, b \in Peers : {a, b} \in SUBSET Peers
    OBVIOUS
  <2>5. spoilt'[{p, q}] = spoilt[{p, q}] \cup more
    BY <1>4, <2>3, <2>4
  <2>6. \A a, b \in Peers : {a, b} # {p, q} => spoilt'[{a, b}] = spoilt[{a, b}]
    BY <1>4, <2>3, <2>4
  <2>7. spoilt' \in [SUBSET Peers -> SUBSET {"overlap", "shared"}]
    BY <1>4, <2>2, <2>3, <2>4
  <2>8. connections_'[p] = RemoveFirst(connections_[p], q)
    BY <1>1, <1>3 DEF TypeOK
  <2>9. spoilt'[{p, q}] = {} => ~Lists(q, p) /\ ~Lists(p, q)'
    BY <2>1, <2>5, <2>8 DEF Lists
  <2> QED
    BY <2>5, <2>6, <2>7, <2>9
<1>12. TypeOK'
  BY <1>1, <1>3, <1>7, <1>8, <1>10, <1>11 DEF TypeOK, Mail
<1>13. CallsOK'
  BY <1>1, <1>3, CallsKept
<1>14. \A c \in Between(p, q) : ~Pending(p, "attach", c) /\ end[c][p] # "coming"
  <2>1. \A v, c : ~Pending(p, v, c)
    BY <1>3 DEF Pending, Contains
  <2>2. \A c \in Between(p, q) : PipeOK(c)
    BY <1>1 DEF Between, PipesOK
  <2> QED
    BY <1>1, <1>3, <1>6, <2>1, <2>2, EndFacts
<1>15. ASSUME NEW d \in Pipes \ cs
       PROVE  PipeOK(d)'
  <2>1. PipeOK(d) /\ pipe'[d] = pipe[d] /\ end'[d] = end[d]
    BY <1>1, <1>3, <1>7 DEF PipesOK
  <2>2. \A r \in Peers, w \in {"attach", "term", "ack"} : Pending(r, w, d)' <=> Pending(r, w, d)
    BY <1>8, <1>9
  <2>3. \A r \in Peers, w \in {"attach", "term"} : Before(r, w, d, w, d)' => Before(r, w, d, w, d)
    BY <1>8, <1>9
  <2>4. \A a, b \in Peers : pipe[d] = <<a, b>> =>
          (Lists(a, b) /\ end[d][a] \in {"coming", "routed", "ignored"} => Lists(a, b)')
    <3> SUFFICES ASSUME pipe[d] = <<p, q>>
                 PROVE  end[d][p] \notin {"coming", "routed", "ignored"}
      BY <1>10
    <3>1. d \in Between(p, q) /\ end[d][p] \notin {"routed", "ignored"}
      BY <1>2 DEF Between
    <3> QED
      BY <1>14, <3>1
  <2> QED
    BY <1>3, <2>1, <2>2, <2>3, <2>4, PipeKept
<1>16. ASSUME NEW c \in cs
       PROVE  PipeOK(c)'
  <2>1. /\ pipe'[c] = <<p, q>> /\ EndsOK(c, p, q) /\ CommandsOK(c, p, q)
        /\ end[c][p] \in {"routed", "ignored"} /\ c \in Pipes
    BY <1>3, <1>5
  <2> SUFFICES EndsOK(c, p, q)' /\ CommandsOK(c, p, q)'
    BY <2>1 DEF PipeOK
  <2>2. end'[c][p] \in {"cut", "gone"} /\ \A r \in Peers \ {p} : end'[c][r] = end[c][r]
    BY <1>7
  <2>3. end[c][q] \in {"coming", "routed", "ignored"}
    BY <2>1 DEF EndsOK
  <2>4. EndsOK(c, p, q)'
    BY <1>3, <1>6, <2>1, <2>2, <2>3 DEF EndsOK
  <2>5. \A r \in Peers : ~Pending(r, "term", c) /\ ~Pending(r, "ack", c)
    BY <2>1 DEF CommandsOK
  <2>6. \A r \in Peers, w \in {"attach", "term", "ack"} :
          Pending(r, w, c)' <=> Pending(r, w, c) \/ (r = q /\ w = "term")
    BY <1>8, <1>9
  <2>7. \A r \in Peers, w \in {"attach", "term"} : ~Before(r, w, c, w, c)'
    <3> SUFFICES ASSUME NEW r \in Peers, NEW w \in {"attach", "term"}, Before(r, w, c, w, c)'
                 PROVE  FALSE
      OBVIOUS
    <3>1. ~Before(r, w, c, w, c)
      BY <2>1 DEF CommandsOK
    <3>2. r = q /\ w = "term" /\ Pending(q, "term", c)
      BY <1>8, <1>9, <3>1
    <3> QED
      BY <2>5, <3>2
  <2>8. CommandsOK(c, p, q)'
    BY <1>3, <1>6, <2>1, <2>2, <2>3, <2>5, <2>6, <2>7 DEF CommandsOK
  <2> QED
    BY <2>4, <2>8
<1>17. ASSUME NEW a \in Peers, NEW b \in Peers, {a, b} # {p, q}
       PROVE  PairOK(a, b)'
  <2>1. Between(a, b)' = Between(a, b) /\ \A d \in Between(a, b) : d \in Pipes \ cs
    BY <1>2, <1>3, <1>17 DEF Between
  <2>2. \A d \in Between(a, b) :
          /\ pipe'[d] = pipe[d] /\ end'[d] = end[d]
          /\ Pending(a, "attach", d)' <=> Pending(a, "attach", d)
    <3>1. \A d \in Between(a, b) : pipe'[d] = pipe[d] /\ end'[d] = end[d]
      BY <1>3, <1>7, <2>1
    <3>2. \A d \in Pipes : Pending(a, "attach", d)' <=> Pending(a, "attach", d)
      <4>1. CASE a = q
        BY <1>8, <4>1
      <4>2. CASE a # q
        BY <1>9, <4>2
      <4> QED
        BY <4>1, <4>2
    <3> QED
      BY <2>1, <3>1, <3>2
  <2>3. \A d, e \in Between(a, b) :
          /\ Before(a, "attach", e, "attach", d)' <=> Before(a, "attach", e, "attach", d)
          /\ Before(a, "ack", e, "attach", d)' => Before(a, "ack", e, "attach", d)
    BY <1>8, <1>9
  <2>4. Lists(a, b)' <=> Lists(a, b)
    BY <1>10, <1>17
  <2>5. PairOK(a, b) /\ spoilt'[{a, b}] = spoilt[{a, b}]
    BY <1>1, <1>11, <1>17
  <2> QED
    BY <2>1, <2>2, <2>3, <2>4, <2>5, PairKept
<1> DEFINE B == Between(p, q)
<1>18. /\ Between(p, q)' = B /\ Between(q, p)' = B /\ Between(q, p) = B
       /\ \A d \in B : d \in Pipes /\ d \in Between(p, q) /\ d \in Between(q, p) /\ PipeOK(d)
  BY <1>1, <1>3 DEF Between, PipesOK
<1> HIDE DEF B
<1>19. \A d \in B : /\ end'[d][q] = end[d][q]
                    /\ end'[d][p] \in {"coming", "routed", "ignored"} => d \notin cs
                    /\ end[d][p] = "routed" => end'[d][p] \in {"routed", "cut"}
                    /\ end[d][p] = "ignored" => end'[d][p] \in {"ignored", "gone"}
                    /\ end[d][p] \notin {"routed", "ignored"} => end'[d][p] = end[d][p]
  BY <1>5, <1>6, <1>7, <1>18
<1>20. \A d \in B : /\ HasName(d, p)' <=> HasName(d, p)
                    /\ HasName(d, q)' <=> HasName(d, q)
  BY <1>19 DEF HasName
<1>21. Named(q, p)' <=> Named(q, p)
  BY <1>18, <1>20 DEF Named
<1>22. OneName(p, q)' /\ OneName(q, p)'
  <2>1. OneName(p, q) /\ OneName(q, p)
    BY <1>1 DEF PairOK
  <2> QED
    BY <1>18, <1>20, <2>1 DEF OneName
<1>23. ASSUME "overlap" \notin spoilt[{p, q}]
       PROVE  WillAgree(p, q)' /\ WillAgree(q, p)'
  <2>1. {p, q} = {q, p} /\ WillAgree(p, q) /\ WillAgree(q, p)
    BY <1>1, <1>23 DEF PairOK
  <2>2. \A d \in B : ~Pending(p, "attach", d)'
    BY <1>6, <1>9, <1>14, <1>18
  <2>3. \A d, e \in B : ~Before(p, "ack", e, "attach", d)'
    BY <1>1, <1>6, <1>9, <1>14, <1>18, BeforeIsPending
  <2>4. \A d \in B : end'[d][p] = "routed" => end'[d][q] \in {"routed", "coming", "cut"}
    BY <1>18, <1>19, <2>1 DEF WillAgree
  <2>5. WillAgree(p, q)'
    BY <1>18, <2>2, <2>3, <2>4 DEF WillAgree
  <2>6. \A d \in B : end'[d][q] = "routed" => end'[d][p] \in {"routed", "coming", "cut"}
    <3> SUFFICES ASSUME NEW d \in B, end[d][q] = "routed"
                 PROVE  end'[d][p] \in {"routed", "coming", "cut"}
      BY <1>19
    <3>1. end[d][p] \in {"routed", "coming", "cut"}
      BY <1>18, <2>1 DEF WillAgree
    <3> QED
      BY <1>19, <3>1
  <2>7. \A d \in B : /\ Pending(q, "attach", d)' <=> Pending(q, "attach", d)
                     /\ \A e \in B : /\ Before(q, "attach", e, "attach", d) => Before(q, "attach", e, "attach", d)'
                                     /\ Before(q, "ack", e, "attach", d)' => Before(q, "ack", e, "attach", d)
    BY <1>8
  <2>8. \A d \in B : Pending(q, "attach", d) =>
          end[d][p] \in {"routed", "ignored", "cut", "gone"}
    BY <1>1, <1>6, <1>18, EndFacts
  <2>9. \A d \in B : Pending(q, "attach", d)' /\ end'[d][p] \in {"routed", "cut"} => ~Named(q, p)'
    <3> SUFFICES ASSUME NEW d \in B, Pending(q, "attach", d), end'[d][p] \in {"routed", "cut"}
                 PROVE  ~Named(q, p)
      BY <1>21, <2>7
    <3>1. end[d][p] \in {"routed", "cut"}
      BY <1>19, <2>8
    <3> QED
      BY <1>18, <2>1, <3>1 DEF WillAgree
  <2>10. ASSUME NEW d \in B, Pending(q, "attach", d)', end'[d][p] \in {"ignored", "gone"}, ~Named(q, p)'
         PROVE  \E e \in B : Before(q, "attach", e, "attach", d)' /\ end'[e][p] \in {"routed", "cut"}
    <3>1. Pending(q, "attach", d) /\ end[d][p] \in {"ignored", "gone"} /\ ~Named(q, p)
      BY <1>19, <1>21, <2>7, <2>8, <2>10
    <3>2. PICK e \in B : Before(q, "attach", e, "attach", d) /\ end[e][p] \in {"routed", "cut"}
      BY <1>18, <2>1, <3>1 DEF WillAgree
    <3>3. end'[e][p] \in {"routed", "cut"}
      BY <1>19, <3>2
    <3> QED
      BY <2>7, <3>2, <3>3
  <2>11. \A d, e \in B : end'[e][q] \in {"cut", "ended"} => ~Before(q, "ack", e, "attach", d)'
    BY <1>18, <1>19, <2>1, <2>7 DEF WillAgree
  <2>12. WillAgree(q, p)'
    BY <1>18, <2>6, <2>9, <2>10, <2>11 DEF WillAgree
  <2> QED
    BY <2>5, <2>12
(* A pair that is not spoilt has no other connection.                      *)
<1>24. ASSUME spoilt'[{p, q}] = {}
       PROVE  Unspoilt(p, q)' /\ Unspoilt(q, p)'
  <2>1. ~Lists(q, p) /\ ~Lists(p, q)' /\ ~Lists(q, p)'
    BY <1>10, <1>11, <1>24
  <2>2. \A d \in B : ~Alive(d)'
    <3> SUFFICES ASSUME NEW d \in B
                 PROVE  ~Alive(d)'
      OBVIOUS
    <3>1. CASE pipe[d] = <<p, q>>
      <4>1. end'[d][p] \notin {"coming", "routed", "ignored"}
        <5>1. CASE d \in cs
          BY <1>7, <5>1
        <5>2. CASE d \notin cs
          BY <1>2, <1>14, <1>18, <1>19, <3>1, <5>2
        <5> QED
          BY <5>1, <5>2
      <4> QED
        BY <1>3, <3>1, <4>1 DEF Alive
    <3>2. CASE pipe[d] = <<q, p>>
      <4>1. EndsOK(d, q, p)
        BY <1>18, <3>2 DEF PipeOK
      <4>2. end[d][q] \notin {"coming", "routed", "ignored"}
        BY <2>1, <4>1 DEF EndsOK
      <4> QED
        BY <1>3, <1>19, <3>2, <4>2 DEF Alive
    <3> QED
      BY <1>18, <3>1, <3>2 DEF Between
  <2> QED
    BY <1>18, <2>1, <2>2 DEF Unspoilt
<1>25. PairOK(p, q)' /\ PairOK(q, p)'
  <2>1. "overlap" \notin spoilt'[{p, q}] => "overlap" \notin spoilt[{p, q}]
    BY <1>11
  <2>2. {p, q} = {q, p}
    OBVIOUS
  <2> QED
    BY <1>22, <1>23, <1>24, <2>1, <2>2 DEF PairOK
<1> QED
  <2>1. PICK c : c \in cs
    BY <1>2
  <2>2. \A d \in Pipes : PipeOK(d)'
    BY <1>15, <1>16
  <2> QED
    BY <1>12, <1>13, <1>17, <1>25, <2>1, <2>2, PairStep

LEMMA AddPortInv ==
  ASSUME ConnectionsInv, NEW p \in Peers, AddPort(p)
  PROVE  ConnectionsInv'
<1>1. TypeOK /\ CallsOK /\ PipesOK /\ \A a, b \in Peers : PairOK(a, b)
  BY DEF ConnectionsInv, PipesOK
<1> DEFINE first(c, cs) == IF \E d \in cs : d < c THEN "ignored" ELSE "routed"
<1>2. PICK W \in [Peers -> SUBSET Pipes] : W = [q \in Peers |-> {c \in Pipes : pipe[c] = <<q, p>>}]
  OBVIOUS
<1>3. p \notin bound /\ bound' = bound \cup {p} /\ UNCHANGED <<connections_, pipe, connecting, spoilt>>
  BY DEF AddPort
<1>4. \A c \in Pipes : \A a \in Peers : pipe[c] = <<a, p>> <=> c \in W[a]
  BY <1>2
<1>5. /\ end' \in [Pipes -> [Peers -> EndStates]]
      /\ \A c \in Pipes : (\A a \in Peers : c \notin W[a]) => end'[c] = end[c]
      /\ \A a \in Peers : \A c \in W[a] : /\ end'[c][p] = first(c, W[a])
                                          /\ \A r \in Peers \ {p} : end'[c][r] = end[c][r]
  <2>1. end' = [c \in Pipes |->
            IF pipe[c][2] # p THEN end[c]
            ELSE [end[c] EXCEPT ![p] = first(c, {d \in Pipes : pipe[d] = <<pipe[c][1], p>>})]]
    BY DEF AddPort
  <2>2. end \in [Pipes -> [Peers -> EndStates]] /\ pipe \in [Pipes -> {<<None, None>>} \cup (Peers \X Peers)]
    BY <1>1 DEF TypeOK
  <2>3. \A c \in Pipes : (\A a \in Peers : c \notin W[a]) => pipe[c][2] # p
    BY <1>4, <2>2
  <2>4. \A a \in Peers : \A c \in W[a] : pipe[c] = <<a, p>> /\ pipe[c][1] = a /\ pipe[c][2] = p
    BY <1>2, <1>4
  <2>5. \A c, cs : first(c, cs) \in EndStates
    BY DEF EndStates
  <2> HIDE DEF first
  <2>6. end' \in [Pipes -> [Peers -> EndStates]]
    BY <2>1, <2>2, <2>5
  <2>7. \A c \in Pipes : (\A a \in Peers : c \notin W[a]) => end'[c] = end[c]
    BY <2>1, <2>3
  <2>8. ASSUME NEW a \in Peers, NEW c \in W[a]
        PROVE  end'[c][p] = first(c, W[a]) /\ \A r \in Peers \ {p} : end'[c][r] = end[c][r]
    <3>1. c \in Pipes /\ W[a] = {d \in Pipes : pipe[d] = <<pipe[c][1], p>>}
      BY <1>2, <2>4
    <3>2. end'[c] = [end[c] EXCEPT ![p] = first(c, W[a])]
      BY <2>1, <2>4, <3>1
    <3> QED
      BY <2>2, <3>1, <3>2
  <2> QED
    BY <2>6, <2>7, <2>8
<1>6. /\ mailbox' \in [Peers -> Seq(Mail)]
      /\ \A q \in Peers :
           /\ \A v, d : Pending(q, v, d)' <=> Pending(q, v, d) \/ (v = "attach" /\ d \in W[q])
           /\ \A v, d, u, e : Before(q, v, d, u, e) => Before(q, v, d, u, e)'
           /\ \A d, e \in W[q] : d < e => Before(q, "attach", d, "attach", e)'
           /\ \A v, d, u, e : Before(q, v, d, u, e)' =>
                \/ Before(q, v, d, u, e)
                \/ u = "attach" /\ e \in W[q] /\ (Pending(q, v, d) \/ d # e)
  <2> DEFINE t(q) == Commands("attach", W[q])
  <2>1. ASSUME NEW q \in Peers
        PROVE  /\ t(q) \in Seq(Mail)
               /\ \A w, c : Contains(t(q), Command(w, c)) <=> w = "attach" /\ c \in W[q]
               /\ \A c, d \in W[q] :
                    c < d => Precedes(t(q), Command("attach", c), Command("attach", d))
    BY CommandsParts DEF Mail
  <2>2. mailbox' = [q \in Peers |-> mailbox[q] \o t(q)]
    BY <1>2 DEF AddPort
  <2> HIDE DEF t
  <2>3. mailbox \in [Peers -> Seq(Mail)]
    BY <1>1 DEF TypeOK, Mail
  <2>4. ASSUME NEW q \in Peers
        PROVE  /\ mailbox'[q] \in Seq(Mail)
               /\ \A e : Contains(mailbox'[q], e) <=> Contains(mailbox[q], e) \/ Contains(t(q), e)
               /\ \A e, f : Precedes(mailbox'[q], e, f) <=>
                    \/ Precedes(mailbox[q], e, f)
                    \/ Precedes(t(q), e, f)
                    \/ Contains(mailbox[q], e) /\ Contains(t(q), f)
    <3> DEFINE s == mailbox[q]
               u == t(q)
    <3>1. s \in Seq(Mail) /\ u \in Seq(Mail) /\ mailbox'[q] = s \o u
      BY <2>1, <2>2, <2>3
    <3> HIDE DEF s, u
    <3>2. /\ s \o u \in Seq(Mail)
          /\ \A e : Contains(s \o u, e) <=> Contains(s, e) \/ Contains(u, e)
          /\ \A e, f : Precedes(s \o u, e, f) <=>
               \/ Precedes(s, e, f)
               \/ Precedes(u, e, f)
               \/ Contains(s, e) /\ Contains(u, f)
      BY ONLY <3>1, ConcatParts
    <3> QED
      BY <3>1, <3>2 DEF s, u
  <2>5. mailbox' \in [Peers -> Seq(Mail)]
    BY <2>2, <2>4
  <2>6. ASSUME NEW q \in Peers
        PROVE  /\ \A v, d : Pending(q, v, d)' <=> Contains(mailbox'[q], Command(v, d))
               /\ \A v, d : Pending(q, v, d) <=> Contains(mailbox[q], Command(v, d))
               /\ \A v, d, u, e : Before(q, v, d, u, e)' <=> Precedes(mailbox'[q], Command(v, d), Command(u, e))
               /\ \A v, d, u, e : Before(q, v, d, u, e) <=> Precedes(mailbox[q], Command(v, d), Command(u, e))
    <3>1. \A v, d : Pending(q, v, d)' <=> Contains(mailbox'[q], Command(v, d))
      BY DEF Pending, Command
    <3>2. \A v, d, u, e : Before(q, v, d, u, e)' <=> Precedes(mailbox'[q], Command(v, d), Command(u, e))
      BY DEF Before, Precedes, Command
    <3>3. \A v, d : Pending(q, v, d) <=> Contains(mailbox[q], Command(v, d))
      BY DEF Pending
    <3>4. \A v, d, u, e : Before(q, v, d, u, e) <=> Precedes(mailbox[q], Command(v, d), Command(u, e))
      BY DEF Before, Precedes
    <3> QED
      BY <3>1, <3>2, <3>3, <3>4
  <2>7. ASSUME NEW q \in Peers
        PROVE  /\ \A v, d : Pending(q, v, d)' <=> Pending(q, v, d) \/ (v = "attach" /\ d \in W[q])
               /\ \A v, d, u, e : Before(q, v, d, u, e) => Before(q, v, d, u, e)'
               /\ \A d, e \in W[q] : d < e => Before(q, "attach", d, "attach", e)'
               /\ \A v, d, u, e : Before(q, v, d, u, e)' =>
                    \/ Before(q, v, d, u, e)
                    \/ u = "attach" /\ e \in W[q] /\ (Pending(q, v, d) \/ d # e)
    <3>1. \A d, e \in W[q] : d < e => d # e
      <4>1. W[q] \in SUBSET Pipes
        BY <1>2
      <4> QED
        BY <4>1 DEF Pipes
    <3>2. \A v, d : Pending(q, v, d)' <=> Pending(q, v, d) \/ (v = "attach" /\ d \in W[q])
      BY ONLY q \in Peers, <2>1, <2>4, <2>6
    <3>3. /\ \A v, d, u, e : Before(q, v, d, u, e) => Before(q, v, d, u, e)'
          /\ \A d, e \in W[q] : d < e => Before(q, "attach", d, "attach", e)'
      BY ONLY q \in Peers, <2>1, <2>4, <2>6
    <3>4. \A v, d, u, e : Before(q, v, d, u, e)' =>
                    \/ Before(q, v, d, u, e)
                    \/ u = "attach" /\ e \in W[q] /\ (Pending(q, v, d) \/ d # e)
      <4>1. \A v, d, u, e : Before(q, v, d, u, e)' =>
              \/ Before(q, v, d, u, e)
              \/ Precedes(t(q), Command(v, d), Command(u, e))
              \/ Pending(q, v, d) /\ Contains(t(q), Command(u, e))
        BY ONLY q \in Peers, <2>4, <2>6
      <4>2. \A v, d, u, e : Precedes(t(q), Command(v, d), Command(u, e)) =>
              u = "attach" /\ e \in W[q] /\ d # e
        <5>1. \A v, d, u, e : Precedes(t(q), Command(v, d), Command(u, e)) =>
                v = "attach" /\ u = "attach" /\ d \in W[q] /\ e \in W[q] /\ d < e
          BY ONLY CommandsParts, W[q] \in SUBSET Pipes DEF t
        <5> QED
          BY ONLY <3>1, <5>1
      <4>3. \A u, e : Contains(t(q), Command(u, e)) => u = "attach" /\ e \in W[q]
        BY ONLY q \in Peers, <2>1
      <4> QED
        BY ONLY <4>1, <4>2, <4>3
    <3> QED
      BY ONLY <3>2, <3>3, <3>4
  <2> QED
    BY ONLY <2>5, <2>7
(* No one has looked at the pipes that were waiting.                       *)
<1>7. ASSUME NEW a \in Peers, NEW c \in W[a]
      PROVE  /\ c \in Pipes /\ pipe[c] = <<a, p>> /\ a # p /\ a \in bound
             /\ end[c][a] = "coming" /\ Lists(a, p)
             /\ \A r \in Peers \ {a, p} : end[c][r] = "none"
             /\ \A r \in Peers, w \in {"attach", "term", "ack"} : ~Pending(r, w, c)
  <2>1. c \in Pipes /\ pipe[c] = <<a, p>>
    BY <1>2
  <2>2. EndsOK(c, a, p) /\ CommandsOK(c, a, p)
    BY <1>1, <2>1 DEF PipesOK, PipeOK
  <2> QED
    BY <1>3, <2>1, <2>2 DEF EndsOK, CommandsOK
<1>8. \A v, c : v \in {"attach", "term", "ack"} /\ c \in Pipes => ~Pending(p, v, c)
  BY <1>1, <1>3, PendingFacts
<1>9. TypeOK'
  BY <1>1, <1>3, <1>5, <1>6 DEF TypeOK, Mail
<1>10. CallsOK'
  BY <1>1, <1>3, CallsKept
<1>11. \A a, b \in Peers : Lists(a, b)' <=> Lists(a, b)
  BY <1>3 DEF Lists
<1>12. ASSUME NEW d \in Pipes, \A a \in Peers : d \notin W[a]
       PROVE  PipeOK(d)'
  <2>1. PipeOK(d) /\ pipe'[d] = pipe[d] /\ end'[d] = end[d]
    BY <1>1, <1>3, <1>5, <1>12 DEF PipesOK
  <2>2. /\ \A r \in Peers, w \in {"attach", "term", "ack"} : Pending(r, w, d)' <=> Pending(r, w, d)
        /\ \A r \in Peers, w \in {"attach", "term"} : Before(r, w, d, w, d)' => Before(r, w, d, w, d)
    BY <1>6, <1>12
  <2>3. \A a, b \in Peers : pipe[d] = <<a, b>> =>
          /\ a \in bound => a \in bound'
          /\ b \in bound' <=> b \in bound
          /\ Lists(a, b) /\ end[d][a] \in {"coming", "routed", "ignored"} => Lists(a, b)'
    BY <1>3, <1>4, <1>11, <1>12
  <2> QED
    BY <2>1, <2>2, <2>3, PipeKept
<1>13. ASSUME NEW a \in Peers, NEW c \in W[a]
       PROVE  PipeOK(c)'
  <2>1. /\ c \in Pipes /\ pipe'[c] = <<a, p>> /\ a # p /\ a \in bound' /\ p \in bound'
        /\ end'[c][a] = "coming" /\ Lists(a, p)' /\ end'[c][p] \in {"routed", "ignored"}
        /\ \A r \in Peers \ {a, p} : end'[c][r] = "none"
    <3>1. c \in Pipes /\ pipe'[c] = <<a, p>> /\ a # p /\ a \in bound' /\ p \in bound'
      BY <1>3, <1>7
    <3>2. end'[c][p] \in {"routed", "ignored"} /\ \A r \in Peers \ {p} : end'[c][r] = end[c][r]
      BY <1>5
    <3>3. end[c][a] = "coming" /\ a # p /\ \A r \in Peers \ {a, p} : end[c][r] = "none"
      BY <1>7
    <3>4. end'[c][a] = "coming" /\ \A r \in Peers \ {a, p} : end'[c][r] = "none"
      BY <3>2, <3>3
    <3> QED
      BY <1>7, <1>11, <3>1, <3>2, <3>4
  <2>2. \A r \in Peers, w \in {"attach", "term", "ack"} :
          Pending(r, w, c)' <=> w = "attach" /\ r = a
    <3>1. \A r \in Peers : c \in W[r] <=> r = a
      BY <1>4, <1>7
    <3> QED
      BY <1>6, <1>7, <3>1
  <2>3. \A r \in Peers, w \in {"attach", "term"} : ~Before(r, w, c, w, c)'
    <3> SUFFICES ASSUME NEW r \in Peers, NEW w \in {"attach", "term"}, Before(r, w, c, w, c)'
                 PROVE  FALSE
      OBVIOUS
    <3>1. Before(r, w, c, w, c) \/ Pending(r, w, c)
      BY <1>6
    <3> QED
      BY <1>1, <1>7, <3>1, BeforeIsPending
  <2>4. EndsOK(c, a, p)'
    BY <2>1 DEF EndsOK
  <2>5. CommandsOK(c, a, p)'
    BY <2>1, <2>2, <2>3 DEF CommandsOK
  <2> QED
    BY <2>1, <2>4, <2>5 DEF PipeOK
<1>14. \A d \in Pipes : PipeOK(d)'
  BY <1>12, <1>13
<1>15. ASSUME NEW a \in Peers, NEW b \in Peers, (a # p /\ b # p) \/ a = b
       PROVE  PairOK(a, b)'
  <2>1. Between(a, b)' = Between(a, b)
    BY <1>3 DEF Between
  <2>2. \A d \in Between(a, b) : d \in Pipes /\ \A r \in Peers : d \notin W[r]
    <3>1. \A d \in Between(a, b) : d \in Pipes /\ (pipe[d] = <<a, b>> \/ pipe[d] = <<b, a>>)
      BY DEF Between
    <3>2. \A r \in Peers : \A d \in W[r] : pipe[d] = <<r, p>> /\ r # p
      BY <1>7
    <3> QED
      BY <1>15, <3>1, <3>2
  <2>3. \A d \in Between(a, b) :
          /\ pipe'[d] = pipe[d] /\ end'[d] = end[d]
          /\ Pending(a, "attach", d)' <=> Pending(a, "attach", d)
    BY <1>3, <1>5, <1>6, <2>2
  <2>4. \A d, e \in Between(a, b) :
          /\ Before(a, "attach", e, "attach", d)' <=> Before(a, "attach", e, "attach", d)
          /\ Before(a, "ack", e, "attach", d)' => Before(a, "ack", e, "attach", d)
    BY <1>6, <2>2
  <2>5. PairOK(a, b) /\ spoilt'[{a, b}] = spoilt[{a, b}]
    BY <1>1, <1>3
  <2> QED
    BY <1>11, <2>1, <2>3, <2>4, <2>5, PairKept
(* Of those that wait, the one made first is sent by.                      *)
<1>16. ASSUME NEW q \in Peers, q # p
       PROVE  PairOK(p, q)' /\ PairOK(q, p)'
  <2> DEFINE B == W[q]
  <2>1. Between(p, q)' = B /\ Between(q, p)' = B /\ Between(p, q) = B /\ Between(q, p) = B
    <3>1. \A c \in Pipes : pipe[c] # <<p, q>>
      BY <1>1, <1>3 DEF PipesOK, PipeOK, EndsOK
    <3>2. Between(p, q) = B /\ Between(q, p) = B
      BY <1>2, <3>1 DEF Between
    <3> QED
      BY <1>3, <3>2 DEF Between
  <2>2. \A c \in B : /\ c \in Pipes /\ pipe'[c] = <<q, p>> /\ pipe[c] = <<q, p>>
                     /\ end'[c][q] = "coming" /\ end'[c][p] = first(c, B)
    BY <1>3, <1>5, <1>7, <1>16
  <2> HIDE DEF B
  <2>3. \A c \in B : end'[c][p] \in {"routed", "ignored"}
    BY <2>2
  <2>4. ASSUME NEW c \in B, end'[c][p] = "ignored"
        PROVE  \E d \in B : d < c /\ end'[d][p] = "routed"
    <3>1. B \in SUBSET Nat /\ B # {}
      BY <2>2 DEF Pipes
    <3>2. PICK m \in B : \A d \in B : m <= d
      BY <3>1, MinExists
    <3>3. \A d \in B : d \in Nat /\ ~ (d < m)
      BY <3>1, <3>2
    <3>4. end'[m][p] = "routed"
      BY <2>2, <3>3
    <3>5. m < c
      <4>1. m # c /\ m <= c /\ m \in Nat /\ c \in Nat
        BY <2>4, <3>2, <3>3, <3>4
      <4> QED
        BY ONLY <4>1
    <3> QED
      BY <3>4, <3>5
  <2>5. \A c \in B : ~HasName(c, q)' /\ (HasName(c, p)' => end'[c][p] = "routed")
    BY <2>2, <2>3 DEF HasName
  <2>6. OneName(p, q)' /\ OneName(q, p)' /\ ~Named(q, p)'
    <3>1. ASSUME NEW c \in B, NEW d \in B, end'[c][p] = "routed", end'[d][p] = "routed"
          PROVE  c = d
      <4>1. ~ (c < d) /\ ~ (d < c) /\ c \in Nat /\ d \in Nat
        BY <2>2, <3>1 DEF Pipes
      <4> QED
        BY ONLY <4>1
    <3> QED
      BY <2>1, <2>5, <3>1 DEF OneName, Named
  <2>7. \A d : d \in B => ~Pending(p, "attach", d)'
    <3>1. \A d \in B : d \notin W[p]
      BY <1>7
    <3> QED
      BY <1>6, <1>8, <2>2, <3>1
  <2>8. WillAgree(p, q)'
    BY <2>1, <2>2, <2>3, <2>7 DEF WillAgree
  <2>9. \A c, d \in B : d < c => Before(q, "attach", d, "attach", c)'
    BY <1>6 DEF B
  <2>10. WillAgree(q, p)'
    <3>1. ASSUME NEW c \in B, end'[c][p] \in {"ignored", "gone"}
          PROVE  \E d \in B : Before(q, "attach", d, "attach", c)' /\ end'[d][p] \in {"routed", "cut"}
      <4>1. PICK d \in B : d < c /\ end'[d][p] = "routed"
        BY <2>3, <2>4, <3>1
      <4> QED
        BY <2>9, <4>1
    <3> QED
      BY <2>1, <2>2, <2>6, <3>1 DEF WillAgree
  <2>11. ASSUME spoilt'[{p, q}] = {}
         PROVE  Unspoilt(p, q)' /\ Unspoilt(q, p)'
    <3>1. Unspoilt(p, q) /\ Unspoilt(q, p)
      <4>1. PairOK(p, q) /\ PairOK(q, p) /\ {p, q} = {q, p} /\ spoilt[{p, q}] = {}
        BY <1>1, <1>3, <2>11
      <4> QED
        BY <4>1 DEF PairOK
    <3>2. \A d \in B : Alive(d)'
      <4>1. \A d \in B : pipe'[d][1] = q
        BY <2>2
      <4> QED
        BY <2>2, <4>1 DEF Alive
    <3>3. ~Lists(p, q)'
      <4>1. ~Lists(p, q)
        <5>1. \A c \in Pipes : pipe[c] # <<p, q>>
          BY <1>1, <1>3 DEF PipesOK, PipeOK, EndsOK
        <5> QED
          BY <3>1, <5>1 DEF Unspoilt
      <4> QED
        BY <1>11, <4>1
    <3>4. Lists(q, p)' => \E c \in Pipes : pipe'[c] = <<q, p>> /\ Alive(c)'
      <4> SUFFICES ASSUME Lists(q, p)'
                   PROVE  \E c \in Pipes : pipe'[c] = <<q, p>> /\ Alive(c)'
        OBVIOUS
      <4>1. PICK c \in Pipes : pipe[c] = <<q, p>>
        BY <1>11, <3>1 DEF Unspoilt
      <4>2. c \in B
        BY <1>4, <4>1 DEF B
      <4> QED
        BY <2>2, <3>2, <4>2
    <3>5. \A c \in B : end'[c][p] = "ignored" => \E d \in B : Alive(d)' /\ end'[d][p] = "routed"
      BY <2>4, <3>2
    <3>6. Unspoilt(p, q)'
      BY <2>1, <2>3, <3>3, <3>5 DEF Unspoilt
    <3>7. Unspoilt(q, p)'
      BY <2>1, <2>2, <3>4 DEF Unspoilt
    <3> QED
      BY <3>6, <3>7
  <2>12. {p, q} = {q, p}
    OBVIOUS
  <2> QED
    BY <2>6, <2>8, <2>10, <2>11, <2>12 DEF PairOK
<1>17. \A a, b \in Peers : PairOK(a, b)'
  <2> SUFFICES ASSUME NEW a \in Peers, NEW b \in Peers
               PROVE  PairOK(a, b)'
    OBVIOUS
  <2>1. CASE (a # p /\ b # p) \/ a = b
    BY <1>15, <2>1
  <2>2. CASE a = p /\ b # p
    BY <1>16, <2>2
  <2>3. CASE b = p /\ a # p
    BY <1>16, <2>3
  <2> QED
    BY <2>1, <2>2, <2>3
<1> QED
  BY <1>9, <1>10, <1>14, <1>17 DEF ConnectionsInv

LEMMA Stuttering ==
  ASSUME ConnectionsInv, UNCHANGED vars
  PROVE  ConnectionsInv'
<1>1. TypeOK /\ CallsOK /\ PipesOK /\ \A a, b \in Peers : PairOK(a, b)
  BY DEF ConnectionsInv, PipesOK
<1>2. UNCHANGED <<bound, connections_, pipe, end, mailbox, connecting, spoilt>>
  BY DEF vars
<1>3. TypeOK' /\ CallsOK'
  BY <1>1, <1>2, CallsKept DEF TypeOK
<1>4. \A r \in Peers : /\ \A v, d : Pending(r, v, d)' <=> Pending(r, v, d)
                       /\ \A v, d, u, e : Before(r, v, d, u, e)' <=> Before(r, v, d, u, e)
  BY <1>2, SameMailbox
<1>5. \A a, b \in Peers : (Lists(a, b)' <=> Lists(a, b)) /\ Between(a, b)' = Between(a, b)
  BY <1>2 DEF Lists, Between
<1>6. \A d \in Pipes : PipeOK(d)'
  BY <1>1, <1>2, <1>4, <1>5, PipeKept DEF PipesOK
<1>7. \A a, b \in Peers : PairOK(a, b)'
  BY <1>1, <1>2, <1>4, <1>5, PairKept
<1> QED
  BY <1>3, <1>6, <1>7 DEF ConnectionsInv

-----------------------------------------------------------------------------
(* Whatever the order in which ports are added, connected, disconnected    *)
(* and handle their commands, the ends of each pipe and the commands about *)
(* it fit, each pair of ports that is not spoilt will send by the same     *)
(* pipe, and what a port lists stands for one (Port.cpp:8-14, 30-58).      *)
THEOREM ConnectionsFit == Spec => []ConnectionsInv
<1>1. Init => ConnectionsInv
  <2> SUFFICES ASSUME Init
               PROVE  ConnectionsInv
    OBVIOUS
  <2>1. TypeOK
    <3>1. \A S, x : x = <<>> => x \in Seq(S)
      OBVIOUS
    <3>2. <<>> \in Seq(Peers) /\ <<>> \in Seq(Mail)
      BY <3>1
    <3> QED
      BY <3>2 DEF Init, TypeOK, EndStates, Mail
  <2>2. CallsOK
    <3>1. \A r \in Peers : connecting[r] = None
      BY DEF Init
    <3>2. {r \in Peers : connecting[r] # None} = {}
      BY <3>1
    <3>3. Free \in SUBSET Pipes
      BY DEF Free
    <3>4. IsFiniteSet(Free) /\ Cardinality(Free) \in Nat
      BY <3>3, Numbered, FS_Subset
    <3>5. IsFiniteSet({}) /\ Cardinality({}) = 0
      BY FS_EmptySet
    <3> QED
      BY <3>1, <3>2, <3>4, <3>5 DEF CallsOK
  <2>3. \A c \in Pipes : pipe[c] = <<None, None>> /\ \A a, b \in Peers : pipe[c] # <<a, b>>
    BY DEF Init
  <2>4. \A c \in Pipes : PipeOK(c)
    <3>1. \A r \in Peers : \A w, c : ~Pending(r, w, c)
      BY DEF Init, Pending, Contains
    <3>2. \A c \in Pipes : \A r \in Peers : end[c][r] = "none"
      BY DEF Init
    <3> QED
      BY <2>3, <3>1, <3>2 DEF PipeOK
  <2>5. \A a, b \in Peers : PairOK(a, b)
    <3>1. \A a, b \in Peers : Between(a, b) = {}
      BY <2>3 DEF Between
    <3>2. \A a, b \in Peers : ~Lists(a, b)
      BY DEF Init, Lists, Contains
    <3> QED
      BY <3>1, <3>2 DEF PairOK, OneName, WillAgree, Unspoilt
  <2> QED
    BY <2>1, <2>2, <2>4, <2>5 DEF ConnectionsInv
<1>2. ConnectionsInv /\ [Next]_vars => ConnectionsInv'
  <2> SUFFICES ASSUME ConnectionsInv, [Next]_vars
               PROVE  ConnectionsInv'
    OBVIOUS
  <2>1. ASSUME NEW p \in Peers, AddPort(p)
        PROVE  ConnectionsInv'
    BY <2>1, AddPortInv
  <2>2. ASSUME NEW p \in Peers, Connect(p)
        PROVE  ConnectionsInv'
    BY <2>2, ConnectInv
  <2>3. ASSUME NEW p \in Peers, Attach(p)
        PROVE  ConnectionsInv'
    BY <2>3, AttachInv
  <2>4. ASSUME NEW p \in Peers, Term(p)
        PROVE  ConnectionsInv'
    BY <2>4, TermInv
  <2>5. ASSUME NEW p \in Peers, Ack(p)
        PROVE  ConnectionsInv'
    BY <2>5, AckInv
  <2>6. ASSUME NEW p \in Peers, NEW q \in Peers, BeginConnect(p, q)
        PROVE  ConnectionsInv'
    BY <2>6, BeginConnectInv
  <2>7. ASSUME NEW p \in Peers, NEW q \in Peers, Disconnect(p, q)
        PROVE  ConnectionsInv'
    BY <2>7, DisconnectInv
  <2>8. ASSUME NEW p \in Peers, NEW c \in Pipes, LetGo(p, c)
        PROVE  ConnectionsInv'
    BY <2>8, LetGoInv
  <2>9. ASSUME UNCHANGED vars
        PROVE  ConnectionsInv'
    BY <2>9, Stuttering
  <2> QED
    BY <2>1, <2>2, <2>3, <2>4, <2>5, <2>6, <2>7, <2>8, <2>9 DEF Next, Handle
<1> QED
  BY <1>1, <1>2, PTL DEF Spec

(* Connections made in any order and number, before or after the other     *)
(* port is added, agree at both ends unless two overlap (Port.cpp:30-38).  *)
THEOREM BothEndsAgree == Spec => []RoutesAgree
<1>1. ConnectionsInv => RoutesAgree
  <2> SUFFICES ASSUME ConnectionsInv, NEW p \in Peers, NEW q \in Peers, NEW c \in Between(p, q),
                      end[c][p] = "routed", end[c][q] = "ignored", "overlap" \notin spoilt[{p, q}]
               PROVE  FALSE
    BY DEF RoutesAgree
  <2>1. WillAgree(p, q)
    BY DEF ConnectionsInv, PairOK
  <2> QED
    BY <2>1 DEF WillAgree
<1> QED
  BY <1>1, ConnectionsFit, PTL

(* What a port lists, once nothing of the pair is under way, is a          *)
(* connection that both ports send by, unless a call has spoilt it         *)
(* (Port.cpp:30-58).                                                       *)
THEOREM ListedConnectionIsUsable == Spec => []ListedIsUsable
<1>1. ConnectionsInv => ListedIsUsable
  <2> SUFFICES ASSUME ConnectionsInv, NEW p \in Peers, NEW q \in Peers,
                      Lists(p, q), Settled(p, q), spoilt[{p, q}] = {}
               PROVE  Usable(p, q)
    BY DEF ListedIsUsable
  <2>1. /\ WillAgree(p, q) /\ Unspoilt(p, q) /\ Unspoilt(q, p)
        /\ Between(p, q) = Between(q, p)
    <3>1. PairOK(p, q) /\ PairOK(q, p) /\ {p, q} = {q, p}
      BY DEF ConnectionsInv
    <3> QED
      BY <3>1 DEF PairOK, Between
  <2>2. PICK c \in Pipes : pipe[c] = <<p, q>> /\ Alive(c)
    BY <2>1 DEF Unspoilt
  <2>3. c \in Between(p, q) /\ end[c][p] \in {"routed", "ignored"}
    <3>1. c \in Between(p, q) /\ pipe[c][1] = p
      BY <2>2 DEF Between
    <3> QED
      BY <2>2, <3>1 DEF Alive, Settled
  <2>4. PICK d \in Between(p, q) : Alive(d) /\ end[d][p] = "routed"
    BY <2>1, <2>2, <2>3 DEF Unspoilt
  <2>5. end[d][q] \in {"routed", "coming", "cut"}
    BY <2>1, <2>4 DEF WillAgree
  <2>6. end[d][q] # "coming"
    BY DEF Settled
  <2>7. end[d][q] # "cut"
    BY <2>1, <2>4 DEF Unspoilt
  <2> QED
    BY <2>4, <2>5, <2>6, <2>7 DEF Usable
<1> QED
  BY <1>1, ConnectionsFit, PTL

(* Where neither port lists the other and nothing is under way, neither    *)
(* has a route left, whatever was called before (Port.cpp:40-58).          *)
THEOREM NoRouteIsLeft == Spec => []DisconnectedIsCut
<1>1. ConnectionsInv => DisconnectedIsCut
  <2> SUFFICES ASSUME ConnectionsInv, NEW p \in Peers, NEW q \in Peers,
                      Settled(p, q), ~Lists(p, q), ~Lists(q, p),
                      NEW c \in Between(p, q), end[c][p] = "routed"
               PROVE  FALSE
    BY DEF DisconnectedIsCut, Routed
  <2>1. c \in Pipes /\ PipeOK(c)
    BY DEF ConnectionsInv, Between
  <2>2. CASE pipe[c] = <<p, q>>
    BY <2>1, <2>2 DEF PipeOK, EndsOK
  <2>3. CASE pipe[c] = <<q, p>>
    <3>1. EndsOK(c, q, p) /\ CommandsOK(c, q, p)
      BY <2>1, <2>3 DEF PipeOK
    <3>2. Pending(p, "term", c)
      BY <3>1 DEF EndsOK, CommandsOK
    <3>3. PICK i \in DOMAIN mailbox[p] : mailbox[p][i] = Command("term", c)
      <4>1. DOMAIN mailbox[p] = 1 .. Len(mailbox[p])
        BY DEF ConnectionsInv, TypeOK
      <4> QED
        BY <3>2, <4>1 DEF Pending, Contains
    <3>4. mailbox[p][i].pipe = c
      BY <3>3 DEF Command
    <3> QED
      BY <3>4 DEF Settled
  <2> QED
    BY <2>2, <2>3 DEF Between
<1> QED
  BY <1>1, ConnectionsFit, PTL

=============================================================================
