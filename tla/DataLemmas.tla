----------------------------- MODULE DataLemmas -----------------------------
(***************************************************************************)
(* Facts about data that the proofs of Frame, Chat and Latency share:      *)
(* induction over the natural numbers, loops over them, and the operators  *)
(* of the community modules that are defined by such loops.                *)
(*                                                                         *)
(* Induction is stated for a set of numbers, not for a predicate: a proof  *)
(* by induction defines the set of the numbers that it is about.           *)
(***************************************************************************)
EXTENDS Integers, Sequences, SequencesExt, SequenceTheorems, FiniteSetTheorems,
        FunctionTheorems, WellFoundedInduction, TLAPS

-----------------------------------------------------------------------------
(* Induction and loops. *)

\* A set of natural numbers that has 0 and the successors of its elements has all.
LEMMA SetInduction ==
  ASSUME NEW S \in SUBSET Nat, 0 \in S, \A n \in S : n + 1 \in S
  PROVE  S = Nat
<1>1. ASSUME Nat \ S # {} PROVE FALSE
  <2>1. \E x \in Nat \ S : \A y \in Nat \ S : <<y, x>> \notin OpToRel(<, Nat)
    <3>1. Nat \ S \subseteq Nat
      OBVIOUS
    <3> HIDE DEF OpToRel
    <3> QED
      BY <1>1, <3>1, NatLessThanWellFounded, WFMin
  <2>2. PICK x \in Nat \ S : \A y \in Nat \ S : <<y, x>> \notin OpToRel(<, Nat)
    BY <2>1
  <2>3. \A y \in Nat \ S : ~(y < x)
    BY <2>2 DEF OpToRel
  <2> QED
    BY <2>3
<1> QED
  BY <1>1

\* The values that a loop over 1..n computes, each from the one before.
IsLoop(f, V, base, n, step) ==
  f \in [0..n -> V] /\ f[0] = base /\ \A i \in 1..n : f[i] = step[<<i, f[i - 1]>>]

\* A loop whose body maps V to V computes such values.
LEMMA LoopExists ==
  ASSUME NEW V, NEW base \in V, NEW n \in Nat, NEW step \in [(1..n) \X V -> V]
  PROVE  \E f : IsLoop(f, V, base, n, step)
<1> DEFINE Upto(k) == \E f \in [0..n -> V] :
                        /\ f[0] = base
                        /\ \A i \in 1..n : i <= k => f[i] = step[<<i, f[i - 1]>>]
           S == {k \in Nat : Upto(k)}
<1>1. 0 \in S
  <2> DEFINE z == [i \in 0..n |-> base]
  <2>1. z \in [0..n -> V] /\ z[0] = base
    OBVIOUS
  <2>2. \A i \in 1..n : ~(i <= 0)
    OBVIOUS
  <2>3. Upto(0)
    <3> HIDE DEF z
    <3> QED
      BY <2>1, <2>2
  <2> QED
    BY <2>3
<1>2. ASSUME NEW k \in S PROVE k + 1 \in S
  <2>1. PICK f \in [0..n -> V] :
               /\ f[0] = base
               /\ \A i \in 1..n : i <= k => f[i] = step[<<i, f[i - 1]>>]
    BY <1>2
  <2>2. CASE k + 1 > n
    BY <1>2, <2>1, <2>2
  <2>3. CASE k + 1 <= n
    <3> DEFINE g == [f EXCEPT ![k + 1] = step[<<k + 1, f[k]>>]]
    <3>1. k \in Nat /\ k + 1 \in 1..n /\ k \in 0..n
      BY <1>2, <2>3
    <3>2. step[<<k + 1, f[k]>>] \in V
      BY <3>1
    <3>3. g \in [0..n -> V] /\ g[0] = base
      BY <2>1, <3>1, <3>2
    <3>4. ASSUME NEW i \in 1..n, i <= k + 1
          PROVE  g[i] = step[<<i, g[i - 1]>>]
      <4>1. CASE i = k + 1
        <5>1. g[k + 1] = step[<<k + 1, f[k]>>] /\ g[k] = f[k] /\ (k + 1) - 1 = k
          BY <3>1
        <5> QED
          BY <4>1, <5>1
      <4>2. CASE i <= k
        <5>1. g[i] = f[i] /\ g[i - 1] = f[i - 1]
          BY <3>1, <4>2
        <5> QED
          BY <2>1, <4>2, <5>1
      <4> QED
        BY <3>1, <3>4, <4>1, <4>2
    <3>5. Upto(k + 1)
      <4> HIDE DEF g
      <4> QED
        BY <3>3, <3>4
    <3> QED
      BY <3>1, <3>5
  <2> QED
    BY <1>2, <2>2, <2>3
<1>3. S = Nat
  <2> HIDE DEF Upto
  <2> QED
    BY <1>1, <1>2, SetInduction
<1>4. Upto(n)
  <2> HIDE DEF Upto
  <2> QED
    BY <1>3
<1>5. PICK f \in [0..n -> V] :
             f[0] = base /\ \A i \in 1..n : i <= n => f[i] = step[<<i, f[i - 1]>>]
  BY <1>4
<1>6. IsLoop(f, V, base, n, step)
  BY <1>5 DEF IsLoop
<1> QED
  BY <1>6

StayEqual(g, h, n) ==
  g[0] = h[0] /\ \A i \in 1..n : g[i - 1] = h[i - 1] => g[i] = h[i]

\* Two loops that start with the same value and do the same have the same values.
LEMMA SameLoops ==
  ASSUME NEW n \in Nat, NEW g, NEW h, StayEqual(g, h, n)
  PROVE  \A i \in 0..n : g[i] = h[i]
<1> DEFINE S == {k \in Nat : k <= n => g[k] = h[k]}
<1>1. \A k : k \in S <=> k \in Nat /\ (k <= n => g[k] = h[k])
  OBVIOUS
<1> HIDE DEF S
<1>2. 0 \in S
  BY <1>1 DEF StayEqual
<1>3. ASSUME NEW k \in S PROVE k + 1 \in S
  <2>1. k \in Nat /\ (k <= n => g[k] = h[k])
    BY <1>1, <1>3
  <2>2. CASE k + 1 <= n
    <3>1. k + 1 \in 1..n /\ (k + 1) - 1 = k
      BY <2>1, <2>2
    <3>2. g[(k + 1) - 1] = h[(k + 1) - 1]
      BY <2>1, <2>2, <3>1
    <3>3. g[k + 1] = h[k + 1]
      BY <3>1, <3>2 DEF StayEqual
    <3> QED
      BY <1>1, <2>1, <3>3
  <2>3. CASE ~(k + 1 <= n)
    <3>1. k + 1 \in Nat /\ (k + 1 <= n => g[k + 1] = h[k + 1])
      BY <2>1, <2>3
    <3> QED
      BY <1>1, <3>1
  <2> QED
    BY <2>2, <2>3
<1>4. S = Nat
  <2>1. S \in SUBSET Nat
    BY <1>1
  <2> QED
    BY <1>2, <1>3, <2>1, SetInduction
<1>5. ASSUME NEW i \in 0..n PROVE g[i] = h[i]
  BY <1>1, <1>4
<1> QED
  BY <1>5

-----------------------------------------------------------------------------
(* Concatenation. *)

\* The elements of a concatenation.
LEMMA ConcatElements ==
  ASSUME NEW A, NEW s \in Seq(A), NEW t \in Seq(A)
  PROVE  /\ s \o t \in Seq(A) /\ Len(s \o t) = Len(s) + Len(t)
         /\ \A i \in 1..Len(s) : (s \o t)[i] = s[i]
         /\ \A i \in 1..Len(t) : (s \o t)[Len(s) + i] = t[i]
OBVIOUS

\* A sequence with those elements is the concatenation.
LEMMA ConcatByElements ==
  ASSUME NEW A, NEW s \in Seq(A), NEW t \in Seq(A), NEW w \in Seq(A),
         Len(w) = Len(s) + Len(t), \A i \in 1..Len(s) : w[i] = s[i],
         \A i \in 1..Len(t) : w[Len(s) + i] = t[i]
  PROVE  w = s \o t
<1>1. /\ s \o t \in Seq(A) /\ Len(s \o t) = Len(w) /\ Len(s) \in Nat /\ Len(t) \in Nat
      /\ \A i \in 1..Len(s) : (s \o t)[i] = s[i]
      /\ \A i \in 1..Len(t) : (s \o t)[Len(s) + i] = t[i]
  BY ConcatElements
<1>2. ASSUME NEW i \in 1..Len(w) PROVE w[i] = (s \o t)[i]
  <2>1. CASE i <= Len(s)
    <3>1. i \in 1..Len(s)
      BY <1>1, <2>1
    <3> QED
      BY <1>1, <3>1
  <2>2. CASE ~(i <= Len(s))
    <3>1. PICK j \in 1..Len(t) : i = Len(s) + j
      <4>1. i - Len(s) \in 1..Len(t) /\ i = Len(s) + (i - Len(s))
        BY <1>1, <2>2
      <4> QED
        BY <4>1
    <3> QED
      BY <1>1, <3>1
  <2> QED
    BY <2>1, <2>2
<1> QED
  BY <1>1, <1>2, SeqEqual

\* A part of a concatenation that is one of its operands.
LEMMA SecondPart ==
  ASSUME NEW A, NEW s \in Seq(A), NEW t \in Seq(A)
  PROVE  SubSeq(s \o t, Len(s) + 1, Len(s) + Len(t)) = t
<1> DEFINE m == Len(s)
           k == Len(t)
           w == s \o t
           p == SubSeq(w, m + 1, m + k)
<1>1. /\ m \in Nat /\ k \in Nat /\ w \in Seq(A) /\ Len(w) = m + k
      /\ \A i \in 1..k : w[m + i] = t[i]
  BY ConcatElements
<1> HIDE DEF w
<1>2. \A i \in (m + 1)..(m + k) : w[i] \in A
  BY <1>1
<1> HIDE DEF m, k
<1>3. p \in Seq(A) /\ Len(p) = k
  BY <1>1, <1>2, SubSeqProperties
<1>4. ASSUME NEW i \in 1..k PROVE p[i] = t[i]
  <2>1. (m + 1) + i - 1 = m + i /\ i \in 1..((m + k) - (m + 1) + 1)
    BY <1>1
  <2>2. m + 1 \in Int /\ m + k \in Int
    BY <1>1
  <2>3. p[i] = w[(m + 1) + i - 1]
    BY <1>2, <2>1, <2>2, SubSeqProperties
  <2> QED
    BY <1>1, <2>1, <2>3
<1> HIDE DEF p
<1>5. p = t
  BY <1>3, <1>4, SeqEqual DEF k
<1> QED
  BY <1>5 DEF p, w, m, k

\* The same, when a third one follows.
LEMMA MiddlePart ==
  ASSUME NEW A, NEW s \in Seq(A), NEW t \in Seq(A), NEW u \in Seq(A)
  PROVE  SubSeq((s \o t) \o u, Len(s) + 1, Len(s) + Len(t)) = t
<1> DEFINE v == s \o t
<1>1. v \in Seq(A) /\ Len(v) = Len(s) + Len(t) /\ Len(s) \in Nat /\ Len(t) \in Nat
  OBVIOUS
<1>2. SubSeq(v, Len(s) + 1, Len(s) + Len(t)) = t
  BY SecondPart
<1> HIDE DEF v
<1>3. CASE Len(t) = 0
  <2>1. SubSeq(v \o u, Len(s) + 1, Len(s) + Len(t)) = <<>>
    BY <1>1, <1>3, SubSeqEmpty
  <2> QED
    BY <1>3, <2>1 DEF v
<1>4. CASE Len(t) # 0
  <2>1. Len(s) + 1 \in 1..Len(v) /\ Len(s) + Len(t) \in 1..Len(v)
    BY <1>1, <1>4
  <2>2. SubSeq(v \o u, Len(s) + 1, Len(s) + Len(t)) = SubSeq(v, Len(s) + 1, Len(s) + Len(t))
    BY <1>1, <2>1, SubSeqOfConcat1
  <2> QED
    BY <1>2, <2>2 DEF v
<1> QED
  BY <1>3, <1>4

Regroups(a, b, c) == a \o (b \o c) = (a \o b) \o c

\* Concatenation is associative: the library's theorem, as a predicate that the
\* provers find among other facts about sequences of sequences.
LEMMA ConcatRegroups ==
  ASSUME NEW A, NEW a \in Seq(A), NEW b \in Seq(A), NEW c \in Seq(A)
  PROVE  Regroups(a, b, c)
BY ConcatAssociative DEF Regroups

\* A sequence is a prefix of any that it begins.
LEMMA PrefixOfConcat ==
  ASSUME NEW A, NEW s \in Seq(A), NEW t \in Seq(A)
  PROVE  IsPrefix(s, s \o t)
<1>1. /\ s \o t \in Seq(A) /\ Len(s \o t) = Len(s) + Len(t)
      /\ Len(s) \in Nat /\ Len(t) \in Nat
  OBVIOUS
<1>2. SubSeq(s, 1, Len(s)) = s
  BY SubSeqFull
<1>3. SubSeq(s \o t, 1, Len(s)) = s
  <2>1. CASE Len(s) = 0
    <3>1. SubSeq(s \o t, 1, Len(s)) = <<>> /\ s = <<>>
      BY <2>1, SubSeqEmpty
    <3> QED
      BY <3>1
  <2>2. CASE Len(s) # 0
    <3>1. 1 \in 1..Len(s) /\ Len(s) \in 1..Len(s)
      BY <1>1, <2>2
    <3> QED
      BY <1>2, <3>1, SubSeqOfConcat1
  <2> QED
    BY <2>1, <2>2
<1> QED
  BY <1>1, <1>2, <1>3 DEF IsPrefix

\* What is a prefix stays one when the longer sequence grows.
LEMMA PrefixGrows ==
  ASSUME NEW A, NEW s \in Seq(A), NEW t \in Seq(A), NEW u \in Seq(A), IsPrefix(s, t)
  PROVE  IsPrefix(s, t \o u)
<1>1. Len(s) <= Len(t) /\ SubSeq(s, 1, Len(s)) = SubSeq(t, 1, Len(s))
  BY DEF IsPrefix
<1>2. Len(t \o u) = Len(t) + Len(u) /\ Len(s) \in Nat /\ Len(t) \in Nat /\ Len(u) \in Nat
  OBVIOUS
<1>3. SubSeq(t \o u, 1, Len(s)) = SubSeq(t, 1, Len(s))
  <2>1. CASE Len(s) = 0
    <3>1. SubSeq(t \o u, 1, Len(s)) = <<>> /\ SubSeq(t, 1, Len(s)) = <<>>
      BY <2>1, SubSeqEmpty
    <3> QED
      BY <3>1
  <2>2. CASE Len(s) # 0
    <3>1. 1 \in 1..Len(t) /\ Len(s) \in 1..Len(t)
      BY <1>1, <1>2, <2>2
    <3> QED
      BY <3>1, SubSeqOfConcat1
  <2> QED
    BY <2>1, <2>2
<1> QED
  BY <1>1, <1>2, <1>3 DEF IsPrefix

-----------------------------------------------------------------------------
(* FlattenSeq. *)

\* The concatenations of the first sequences of ss, from none to all of them.
IsFlattening(f, A, ss) ==
  /\ f \in [0..Len(ss) -> Seq(A)] /\ f[0] = <<>>
  /\ \A i \in 1..Len(ss) : f[i] = f[i - 1] \o ss[i]

\* Any sequence of sequences has such concatenations.
LEMMA FlatteningExists ==
  ASSUME NEW A, NEW ss \in Seq(Seq(A))
  PROVE  \E f : IsFlattening(f, A, ss)
<1> DEFINE V == Seq(A)
           n == Len(ss)
           step == [p \in (1..n) \X V |-> p[2] \o ss[p[1]]]
<1>1. n \in Nat /\ <<>> \in V /\ \A i \in 1..n : ss[i] \in V
  OBVIOUS
<1>2. step \in [(1..n) \X V -> V]
  <2> HIDE DEF n
  <2> QED
    BY <1>1
<1>3. PICK f : IsLoop(f, V, <<>>, n, step)
  <2> HIDE DEF V, n, step
  <2> QED
    BY <1>1, <1>2, LoopExists
<1>4. f \in [0..n -> V] /\ f[0] = <<>> /\ \A i \in 1..n : f[i] = step[<<i, f[i - 1]>>]
  BY <1>3 DEF IsLoop
<1>5. ASSUME NEW i \in 1..n PROVE f[i] = f[i - 1] \o ss[i]
  <2>1. <<i, f[i - 1]>> \in (1..n) \X V
    <3>1. i - 1 \in 0..n
      BY <1>1
    <3> HIDE DEF V, n, step
    <3> QED
      BY <1>4, <3>1
  <2>2. step[<<i, f[i - 1]>>] = f[i - 1] \o ss[i]
    <3> HIDE DEF V, n
    <3> QED
      BY <2>1
  <2> QED
    BY <1>4, <2>2
<1>6. IsFlattening(f, A, ss)
  BY <1>4, <1>5 DEF IsFlattening
<1> QED
  BY <1>6

\* The last of them is FlattenSeq(ss).
LEMMA FlattenLoop ==
  ASSUME NEW A, NEW ss \in Seq(Seq(A)), NEW f, IsFlattening(f, A, ss)
  PROVE  FlattenSeq(ss) = f[Len(ss)]
<1> DEFINE n == Len(ss)
           F(e) == [i \in 1..n |-> IF i = 1 THEN ss[i] ELSE e[i - 1] \o ss[i]]
           g == [i \in 1..n |-> f[i]]
<1>1. /\ f \in [0..n -> Seq(A)] /\ f[0] = <<>>
      /\ \A i \in 1..n : f[i] = f[i - 1] \o ss[i]
      /\ \A i \in 1..n : ss[i] \in Seq(A)
      /\ n \in Nat
  <2>1. n \in Nat /\ \A i \in 1..n : ss[i] \in Seq(A)
    OBVIOUS
  <2> QED
    BY <2>1 DEF IsFlattening
<1>2. CASE n = 0
  <2>1. ss = <<>>
    BY <1>2
  <2> QED
    BY <1>1, <1>2, <2>1 DEF FlattenSeq
<1>3. CASE n # 0
  <2>1. g = F(g)
    <3>1. ASSUME NEW i \in 1..n PROVE g[i] = IF i = 1 THEN ss[i] ELSE g[i - 1] \o ss[i]
      <4>1. CASE i = 1
        <5>1. i - 1 = 0 /\ f[i] = f[i - 1] \o ss[i] /\ ss[i] \in Seq(A)
          <6>1. f[i] = f[i - 1] \o ss[i] /\ ss[i] \in Seq(A)
            BY <1>1, Zenon
          <6> QED
            BY <4>1, <6>1
        <5>2. <<>> \o ss[i] = ss[i]
          BY <5>1, ConcatEmptySeq
        <5>3. f[i] = ss[i]
          BY <1>1, <5>1, <5>2
        <5> QED
          BY <4>1, <5>3
      <4>2. CASE i # 1
        <5>1. i - 1 \in 1..n
          BY <1>1, <4>2
        <5> HIDE DEF n
        <5> QED
          BY <1>1, <4>2, <5>1
      <4> QED
        BY <4>1, <4>2
    <3>2. g = [i \in 1..n |-> g[i]]
      OBVIOUS
    <3> HIDE DEF g, n
    <3> QED
      BY <3>1, <3>2
  <2>2. ASSUME NEW h, h = F(h) PROVE h = g
    <3> DEFINE S == {k \in Nat : k + 1 \in 1..n => h[k + 1] = g[k + 1]}
    <3>1. h = [i \in 1..n |-> h[i]] /\ g = [i \in 1..n |-> g[i]]
      BY <2>2
    <3>2. \A i \in 1..n : /\ h[i] = IF i = 1 THEN ss[i] ELSE h[i - 1] \o ss[i]
                          /\ g[i] = IF i = 1 THEN ss[i] ELSE g[i - 1] \o ss[i]
      <4>1. \A e : e = F(e) =>
                     \A i \in 1..n : e[i] = IF i = 1 THEN ss[i] ELSE e[i - 1] \o ss[i]
        OBVIOUS
      <4> HIDE DEF F, g
      <4> QED
        BY <2>1, <2>2, <4>1
    <3>3. \A k : k \in S <=> k \in Nat /\ (k + 1 \in 1..n => h[k + 1] = g[k + 1])
      OBVIOUS
    <3> HIDE DEF F, g, n, S
    <3>4. 0 \in S
      BY <3>2, <3>3
    <3>5. ASSUME NEW k \in S PROVE k + 1 \in S
      <4>1. k \in Nat /\ (k + 1 \in 1..n => h[k + 1] = g[k + 1])
        BY <3>3, <3>5
      <4>2. CASE (k + 1) + 1 \in 1..n
        <5>1. k + 1 \in 1..n /\ (k + 1) + 1 # 1 /\ ((k + 1) + 1) - 1 = k + 1
          BY <1>1, <4>1, <4>2
        <5>2. h[(k + 1) + 1] = h[k + 1] \o ss[(k + 1) + 1]
          BY <3>2, <4>2, <5>1
        <5>3. g[(k + 1) + 1] = g[k + 1] \o ss[(k + 1) + 1]
          BY <3>2, <4>2, <5>1
        <5>4. h[(k + 1) + 1] = g[(k + 1) + 1]
          BY <4>1, <5>1, <5>2, <5>3
        <5> QED
          BY <3>3, <4>1, <5>4
      <4> QED
        BY <3>3, <4>1, <4>2
    <3>6. S = Nat
      <4>1. S \in SUBSET Nat
        BY <3>3
      <4> QED
        BY <3>4, <3>5, <4>1, SetInduction
    <3>7. \A i \in 1..n : h[i] = g[i]
      <4> TAKE i \in 1..n
      <4>1. i - 1 \in S /\ (i - 1) + 1 = i
        BY <1>1, <3>6
      <4> QED
        BY <3>3, <4>1
    <3> QED
      BY <3>1, <3>7
  <2>3. (CHOOSE h : h = F(h)) = g
    <3> HIDE DEF F, g
    <3> QED
      BY <2>1, <2>2, Zenon
  <2>4. FlattenSeq(ss) = (CHOOSE h : h = F(h))[n]
    BY <1>3 DEF FlattenSeq
  <2>5. g[n] = f[n]
    BY <1>1, <1>3
  <2> HIDE DEF F, g
  <2> QED
    BY <2>3, <2>4, <2>5
<1> QED
  BY <1>2, <1>3

\* The concatenation of sequences is a sequence, the one of none is empty.
LEMMA FlattenType ==
  ASSUME NEW A, NEW ss \in Seq(Seq(A))
  PROVE  FlattenSeq(ss) \in Seq(A) /\ FlattenSeq(<<>>) = <<>>
<1>1. FlattenSeq(<<>>) = <<>>
  BY DEF FlattenSeq
<1>2. PICK f : IsFlattening(f, A, ss)
  BY FlatteningExists
<1>3. f[Len(ss)] \in Seq(A)
  BY <1>2 DEF IsFlattening
<1> QED
  BY <1>1, <1>2, <1>3, FlattenLoop

\* One more sequence at the end is appended.
LEMMA FlattenAppend ==
  ASSUME NEW A, NEW ss \in Seq(Seq(A)), NEW s \in Seq(A)
  PROVE  FlattenSeq(Append(ss, s)) = FlattenSeq(ss) \o s
<1> DEFINE n == Len(ss)
           tt == Append(ss, s)
<1>1. PICK f : IsFlattening(f, A, ss)
  BY FlatteningExists
<1>2. /\ n \in Nat /\ f \in [0..n -> Seq(A)] /\ f[0] = <<>>
      /\ \A i \in 1..n : f[i] = f[i - 1] \o ss[i]
  <2>1. n \in Nat
    OBVIOUS
  <2> QED
    BY <1>1, <2>1 DEF IsFlattening
<1>3. /\ tt \in Seq(Seq(A)) /\ Len(tt) = n + 1 /\ tt[n + 1] = s
      /\ \A i \in 1..n : tt[i] = ss[i]
  OBVIOUS
<1> DEFINE g == [i \in 0..(n + 1) |-> IF i <= n THEN f[i] ELSE f[n] \o s]
<1> HIDE DEF n, tt
<1>4. IsFlattening(g, A, tt)
  <2>1. f[n] \in Seq(A) /\ f[n] \o s \in Seq(A)
    BY <1>2
  <2>2. g \in [0..Len(tt) -> Seq(A)] /\ g[0] = <<>> /\ g[n + 1] = f[n] \o s
    BY <1>2, <1>3, <2>1
  <2>3. ASSUME NEW i \in 1..Len(tt) PROVE g[i] = g[i - 1] \o tt[i]
    <3>1. CASE i = n + 1
      <4>1. g[i - 1] = f[n]
        BY <1>2, <3>1
      <4> QED
        BY <1>3, <2>2, <3>1, <4>1
    <3>2. CASE i # n + 1
      <4>1. i \in 1..n /\ g[i] = f[i] /\ g[i - 1] = f[i - 1]
        BY <1>2, <1>3, <3>2
      <4> QED
        BY <1>2, <1>3, <4>1
    <3> QED
      BY <3>1, <3>2
  <2> QED
    BY <2>2, <2>3 DEF IsFlattening
<1>5. FlattenSeq(tt) = g[Len(tt)] /\ FlattenSeq(ss) = f[n]
  <2> HIDE DEF g
  <2> QED
    BY <1>1, <1>3, <1>4, FlattenLoop DEF n
<1>6. g[Len(tt)] = f[n] \o s
  BY <1>2, <1>3
<1> QED
  BY <1>5, <1>6 DEF tt

\* The same, of a sequence that has one more element.
LEMMA FlattenLast ==
  ASSUME NEW A, NEW ss \in Seq(Seq(A)), NEW tt \in Seq(Seq(A)),
         Len(tt) = Len(ss) + 1, \A i \in 1..Len(ss) : tt[i] = ss[i]
  PROVE  FlattenSeq(tt) = FlattenSeq(ss) \o tt[Len(ss) + 1]
<1> DEFINE V == Seq(A)
<1>1. PICK s \in V : s = tt[Len(ss) + 1]
  OBVIOUS
<1>2. ss \in Seq(V) /\ tt \in Seq(V) /\ Len(ss) \in Nat
  OBVIOUS
<1> HIDE DEF V
<1>3. /\ Append(ss, s) \in Seq(V) /\ Len(Append(ss, s)) = Len(ss) + 1
      /\ Append(ss, s)[Len(ss) + 1] = s /\ \A i \in 1..Len(ss) : Append(ss, s)[i] = ss[i]
  BY <1>2, AppendProperties
<1>4. ASSUME NEW i \in 1..Len(tt) PROVE Append(ss, s)[i] = tt[i]
  <2>1. i \in 1..Len(ss) \/ i = Len(ss) + 1
    BY <1>2
  <2> QED
    BY <1>1, <1>3, <2>1
<1>5. Append(ss, s) = tt
  BY <1>2, <1>3, <1>4, SeqEqual
<1>6. FlattenSeq(Append(ss, s)) = FlattenSeq(ss) \o s
  BY FlattenAppend DEF V
<1> QED
  BY <1>1, <1>5, <1>6

\* The same, of a function that has the elements of ss and one more.
LEMMA FlattenMapped ==
  ASSUME NEW A, NEW ss \in Seq(Seq(A)), NEW n \in Nat, Len(ss) = n, NEW tt,
         tt = [i \in 1..(n + 1) |-> tt[i]], \A i \in 1..n : tt[i] = ss[i], tt[n + 1] \in Seq(A)
  PROVE  FlattenSeq(tt) = FlattenSeq(ss) \o tt[n + 1]
<1> DEFINE V == Seq(A)
<1>1. \A i \in 1..n : ss[i] \in V
  OBVIOUS
<1>2. \A i \in 1..(n + 1) : tt[i] \in V
  <2> TAKE i \in 1..(n + 1)
  <2>1. i \in 1..n \/ i = n + 1
    OBVIOUS
  <2> QED
    BY <1>1, <2>1
<1> HIDE DEF V
<1>3. tt \in [1..(n + 1) -> V] /\ n + 1 \in Nat
  BY <1>2
<1>4. tt \in Seq(V) /\ Len(tt) = n + 1
  BY <1>3
<1> QED
  BY <1>4, FlattenLast DEF V

\* The first sequence comes first.
LEMMA FlattenCons ==
  ASSUME NEW A, NEW ss \in Seq(Seq(A)), NEW tt \in Seq(Seq(A)),
         Len(tt) = Len(ss) + 1, \A i \in 1..Len(ss) : tt[i + 1] = ss[i]
  PROVE  FlattenSeq(tt) = tt[1] \o FlattenSeq(ss)
<1>0. PICK s \in Seq(A) : s = tt[1]
  OBVIOUS
<1>1. PICK n \in Nat : n = Len(ss)
  OBVIOUS
<1>2. PICK f : IsFlattening(f, A, ss)
  BY FlatteningExists
<1>3. /\ f \in [0..n -> Seq(A)] /\ f[0] = <<>>
      /\ \A i \in 1..n : f[i] = f[i - 1] \o ss[i]
  BY <1>1, <1>2 DEF IsFlattening
<1> DEFINE g == [i \in 0..(n + 1) |-> IF i = 0 THEN <<>> ELSE s \o f[i - 1]]
<1>4. /\ g \in [0..(n + 1) -> Seq(A)] /\ g[0] = <<>>
      /\ \A i \in 1..(n + 1) : g[i] = s \o f[i - 1]
  <2>1. \A i \in 1..(n + 1) : i - 1 \in 0..n
    OBVIOUS
  <2>2. \A k \in 0..n : s \o f[k] \in Seq(A)
    BY <1>3
  <2>3. <<>> \in Seq(A)
    OBVIOUS
  <2>4. \A i \in 0..(n + 1) : (IF i = 0 THEN <<>> ELSE s \o f[i - 1]) \in Seq(A)
    BY <2>1, <2>2, <2>3
  <2> QED
    BY <2>4
<1> HIDE DEF g
<1>5. ASSUME NEW i \in 1..(n + 1) PROVE g[i] = g[i - 1] \o tt[i]
  <2>1. CASE i = 1
    <3>1. g[i] = s \o <<>> /\ g[i - 1] = <<>> /\ tt[i] = s
      <4>1. g[i] = s \o f[i - 1]
        BY <1>4, Zenon
      <4>2. i - 1 = 0
        BY <2>1
      <4> QED
        BY <1>0, <1>3, <1>4, <2>1, <4>1, <4>2
    <3>2. s \o <<>> = s /\ <<>> \o s = s
      BY ConcatEmptySeq
    <3> QED
      BY <3>1, <3>2
  <2>2. CASE i # 1
    <3>1. PICK k \in 1..n : k = i - 1
      BY <2>2
    <3>2. g[i] = s \o f[k] /\ g[i - 1] = s \o f[k - 1] /\ tt[i] = ss[k]
      <4>1. i - 1 = k /\ i - 1 \in 1..(n + 1) /\ (i - 1) - 1 = k - 1 /\ k + 1 = i
        BY <3>1
      <4> QED
        BY <1>1, <1>4, <4>1
    <3>3. f[k] = f[k - 1] \o ss[k] /\ f[k - 1] \in Seq(A) /\ ss[k] \in Seq(A)
      <4>1. f[k] = f[k - 1] \o ss[k]
        BY <1>3, Zenon
      <4>2. k - 1 \in 0..n
        BY <3>1
      <4>3. f[k - 1] \in Seq(A)
        BY <1>3, <4>2
      <4> QED
        BY <1>1, <4>1, <4>3
    <3>4. s \o (f[k - 1] \o ss[k]) = (s \o f[k - 1]) \o ss[k]
      <4>1. PICK b \in Seq(A), c \in Seq(A) : b = f[k - 1] /\ c = ss[k]
        BY <3>3
      <4>2. Regroups(s, b, c)
        BY ConcatRegroups, Zenon
      <4> QED
        BY <4>1, <4>2 DEF Regroups
    <3> QED
      BY <3>2, <3>3, <3>4
  <2> QED
    BY <2>1, <2>2
<1>6. IsFlattening(g, A, tt)
  BY <1>1, <1>4, <1>5 DEF IsFlattening
<1>7. FlattenSeq(tt) = g[n + 1] /\ FlattenSeq(ss) = f[n]
  BY <1>1, <1>2, <1>6, FlattenLoop
<1>8. g[n + 1] = s \o f[n]
  <2>1. n + 1 \in 1..(n + 1) /\ (n + 1) - 1 = n
    OBVIOUS
  <2> QED
    BY <1>4, <2>1
<1> QED
  BY <1>0, <1>7, <1>8

\* The same, read from the other side.
LEMMA FlattenHead ==
  ASSUME NEW A, NEW ss \in Seq(Seq(A)), ss # <<>>
  PROVE  FlattenSeq(ss) = Head(ss) \o FlattenSeq(Tail(ss))
<1>1. /\ Head(ss) \in Seq(A) /\ ss[1] = Head(ss)
      /\ Tail(ss) \in Seq(Seq(A)) /\ Len(ss) = Len(Tail(ss)) + 1
      /\ \A i \in 1..Len(Tail(ss)) : ss[i + 1] = Tail(ss)[i]
  OBVIOUS
<1> QED
  BY <1>1, FlattenCons

-----------------------------------------------------------------------------
(* SumFunction. *)

Some(s) == CHOOSE x \in s : TRUE

\* The sums of g over the parts of S, element by element.
SumsUp(h, S, g) ==
  /\ h[{}] = 0
  /\ \A s \in SUBSET S : s # {} => h[s] = g[Some(s)] + h[s \ {Some(s)}]

IsSumming(h, S, g) == h \in [SUBSET S -> Int] /\ SumsUp(h, S, g)

LastSum(S, g) == (CHOOSE h : h = [s \in SUBSET S |->
                    IF s = {} THEN 0 ELSE g[Some(s)] + h[s \ {Some(s)}]])[S]

\* The last of them is SumFunction(g).
LEMMA SumUnfold ==
  ASSUME NEW S, NEW g, DOMAIN g = S
  PROVE  SumFunction(g) = LastSum(S, g)
BY Zenon DEF LastSum, SumFunction, SumFunctionOnSet, FoldFunctionOnSet, MapThenFoldSet, Some

\* A part of a finite set without one of its elements is smaller.
LEMMA SmallerPart ==
  ASSUME NEW S, IsFiniteSet(S), NEW s \in SUBSET S, s # {}
  PROVE  /\ Some(s) \in s /\ s \ {Some(s)} \in SUBSET S
         /\ Cardinality(s) \in Nat /\ Cardinality(s \ {Some(s)}) = Cardinality(s) - 1
<1>1. Some(s) \in s
  <2>1. \E x : x \in s
    OBVIOUS
  <2> QED
    BY <2>1 DEF Some
<1>2. IsFiniteSet(s)
  BY FS_Subset
<1> HIDE DEF Some
<1> QED
  BY <1>1, <1>2, FS_CardinalityType, FS_RemoveElement

\* A finite set of integers can be summed.
LEMMA SummingExists ==
  ASSUME NEW S, IsFiniteSet(S), NEW g \in [S -> Int]
  PROVE  \E h : IsSumming(h, S, g)
<1> DEFINE Upto(k) == \E h \in [SUBSET S -> Int] :
                        /\ h[{}] = 0
                        /\ \A s \in SUBSET S : s # {} /\ Cardinality(s) <= k =>
                             h[s] = g[Some(s)] + h[s \ {Some(s)}]
           N == {k \in Nat : Upto(k)}
<1>1. 0 \in N
  <2> DEFINE z == [s \in SUBSET S |-> 0]
  <2>1. z \in [SUBSET S -> Int] /\ z[{}] = 0
    OBVIOUS
  <2>2. \A s \in SUBSET S : s # {} => ~(Cardinality(s) <= 0)
    <3> TAKE s \in SUBSET S
    <3>1. IsFiniteSet(s)
      BY FS_Subset
    <3>2. Cardinality(s) \in Nat
      BY <3>1, FS_CardinalityType
    <3>3. Cardinality(s) = 0 <=> s = {}
      BY <3>1, FS_EmptySet
    <3> QED
      BY <3>2, <3>3
  <2>3. Upto(0)
    <3> HIDE DEF z
    <3> QED
      BY <2>1, <2>2
  <2> QED
    BY <2>3
<1>2. ASSUME NEW k \in N PROVE k + 1 \in N
  <2>1. PICK h \in [SUBSET S -> Int] :
               /\ h[{}] = 0
               /\ \A s \in SUBSET S : s # {} /\ Cardinality(s) <= k =>
                    h[s] = g[Some(s)] + h[s \ {Some(s)}]
    BY <1>2
  <2>2. k \in Nat
    BY <1>2
  <2> DEFINE e == [s \in SUBSET S |-> IF s = {} THEN 0 ELSE g[Some(s)] + h[s \ {Some(s)}]]
  <2>3. ASSUME NEW s \in SUBSET S, s # {}
        PROVE  g[Some(s)] + h[s \ {Some(s)}] \in Int
    <3>1. Some(s) \in S /\ s \ {Some(s)} \in SUBSET S
      BY <2>3, SmallerPart
    <3> HIDE DEF Some
    <3> QED
      BY <2>1, <3>1
  <2>4. e \in [SUBSET S -> Int] /\ e[{}] = 0
    <3> HIDE DEF Some
    <3> QED
      BY <2>3
  <2>5. ASSUME NEW s \in SUBSET S, s # {}, Cardinality(s) <= k + 1
        PROVE  e[s] = g[Some(s)] + e[s \ {Some(s)}]
    <3>1. /\ s \ {Some(s)} \in SUBSET S /\ Cardinality(s) \in Nat
          /\ Cardinality(s \ {Some(s)}) = Cardinality(s) - 1
      BY <2>5, SmallerPart
    <3>2. PICK r \in SUBSET S : r = s \ {Some(s)}
      BY <3>1
    <3>3. e[s] = g[Some(s)] + h[r]
      BY <2>5, <3>2
    <3>4. h[r] = e[r]
      <4>1. CASE r = {}
        BY <2>1, <2>4, <4>1
      <4>2. CASE r # {}
        <5>1. Cardinality(r) <= k
          BY <2>2, <2>5, <3>1, <3>2
        <5>2. h[r] = g[Some(r)] + h[r \ {Some(r)}]
          BY <2>1, <4>2, <5>1
        <5> QED
          BY <4>2, <5>2
      <4> QED
        BY <4>1, <4>2
    <3> HIDE DEF e
    <3> QED
      BY <3>2, <3>3, <3>4
  <2>6. Upto(k + 1)
    <3> HIDE DEF e
    <3> QED
      BY <2>4, <2>5
  <2> HIDE DEF Upto
  <2> QED
    BY <2>2, <2>6
<1>3. N = Nat
  <2> HIDE DEF Upto
  <2> QED
    BY <1>1, <1>2, SetInduction
<1>4. Upto(Cardinality(S))
  <2>1. Cardinality(S) \in Nat
    BY FS_CardinalityType
  <2> HIDE DEF Upto
  <2> QED
    BY <1>3, <2>1
<1>5. PICK h \in [SUBSET S -> Int] :
             /\ h[{}] = 0
             /\ \A s \in SUBSET S : s # {} /\ Cardinality(s) <= Cardinality(S) =>
                  h[s] = g[Some(s)] + h[s \ {Some(s)}]
  BY <1>4
<1>6. \A s \in SUBSET S : Cardinality(s) <= Cardinality(S)
  BY FS_Subset
<1>7. IsSumming(h, S, g)
  BY <1>5, <1>6 DEF IsSumming, SumsUp
<1> QED
  BY <1>7

\* Two functions that sum up the same way are the same.
LEMMA SameSums ==
  ASSUME NEW S, IsFiniteSet(S), NEW g, NEW e, NEW h, SumsUp(e, S, g), SumsUp(h, S, g)
  PROVE  \A s \in SUBSET S : e[s] = h[s]
<1> DEFINE N == {k \in Nat : \A s \in SUBSET S : Cardinality(s) = k => e[s] = h[s]}
<1>0. /\ e[{}] = 0 /\ h[{}] = 0
      /\ \A s \in SUBSET S : s # {} => /\ e[s] = g[Some(s)] + e[s \ {Some(s)}]
                                    /\ h[s] = g[Some(s)] + h[s \ {Some(s)}]
  BY DEF SumsUp
<1>1. \A k : k \in N <=> k \in Nat /\ \A s \in SUBSET S : Cardinality(s) = k => e[s] = h[s]
  OBVIOUS
<1> HIDE DEF N
<1>2. 0 \in N
  <2>1. \A s \in SUBSET S : Cardinality(s) = 0 => s = {}
    BY FS_Subset, FS_EmptySet
  <2> QED
    BY <1>0, <1>1, <2>1
<1>3. ASSUME NEW k \in N PROVE k + 1 \in N
  <2>1. k \in Nat /\ \A s \in SUBSET S : Cardinality(s) = k => e[s] = h[s]
    BY <1>1, <1>3
  <2>2. ASSUME NEW s \in SUBSET S, Cardinality(s) = k + 1 PROVE e[s] = h[s]
    <3>1. s # {}
      <4>1. Cardinality({}) = 0
        BY FS_EmptySet, Zenon
      <4>2. k + 1 # 0
        BY <2>1
      <4> QED
        BY <2>2, <4>1, <4>2, Zenon
    <3>2. s \ {Some(s)} \in SUBSET S /\ Cardinality(s \ {Some(s)}) = k
      BY <2>1, <2>2, <3>1, SmallerPart
    <3>3. e[s \ {Some(s)}] = h[s \ {Some(s)}]
      BY <2>1, <3>2
    <3> QED
      BY <1>0, <3>1, <3>3
  <2> QED
    BY <1>1, <2>1, <2>2
<1>4. N = Nat
  <2>1. N \in SUBSET Nat
    BY <1>1
  <2> QED
    BY <1>2, <1>3, <2>1, SetInduction
<1>5. ASSUME NEW s \in SUBSET S PROVE e[s] = h[s]
  <2>1. IsFiniteSet(s)
    BY FS_Subset
  <2>2. Cardinality(s) \in Nat
    BY <2>1, FS_CardinalityType
  <2> QED
    BY <1>1, <1>4, <2>2
<1> QED
  BY <1>5

\* SumFunction(g) is the value of any function that sums g up.
LEMMA SumIs ==
  ASSUME NEW S, IsFiniteSet(S), NEW g \in [S -> Int], NEW h, IsSumming(h, S, g)
  PROVE  SumFunction(g) = h[S] /\ h[S] \in Int
<1> DEFINE F(e) == [s \in SUBSET S |-> IF s = {} THEN 0 ELSE g[Some(s)] + e[s \ {Some(s)}]]
<1>1. /\ h \in [SUBSET S -> Int] /\ h[{}] = 0
      /\ \A s \in SUBSET S : s # {} => h[s] = g[Some(s)] + h[s \ {Some(s)}]
  BY DEF IsSumming, SumsUp
<1> HIDE DEF Some
<1>2. h = F(h)
  BY <1>1
<1>3. ASSUME NEW e, e = F(e) PROVE e = h
  <2>1. \A s \in SUBSET S : e[s] = IF s = {} THEN 0 ELSE g[Some(s)] + e[s \ {Some(s)}]
    BY <1>3
  <2>2. e[{}] = 0 /\ \A s \in SUBSET S : s # {} => e[s] = g[Some(s)] + e[s \ {Some(s)}]
    BY <2>1
  <2>3. SumsUp(e, S, g) /\ SumsUp(h, S, g)
    BY <1>1, <2>2 DEF SumsUp
  <2>4. \A s \in SUBSET S : e[s] = h[s]
    BY <2>3, SameSums
  <2>5. e = [s \in SUBSET S |-> e[s]] /\ h = [s \in SUBSET S |-> h[s]]
    BY <1>1, <1>3
  <2> HIDE DEF F
  <2> QED
    BY <2>4, <2>5
<1>4. (CHOOSE e : e = F(e)) = h
  <2> HIDE DEF F
  <2> QED
    BY <1>2, <1>3, Zenon
<1>5. SumFunction(g) = (CHOOSE e : e = F(e))[S]
  <2>1. DOMAIN g = S
    OBVIOUS
  <2>2. SumFunction(g) = LastSum(S, g)
    BY <2>1, SumUnfold
  <2> QED
    BY <2>2 DEF LastSum
<1> QED
  BY <1>1, <1>4, <1>5, Zenon

\* A sum of integers is an integer.
LEMMA SumType ==
  ASSUME NEW S, IsFiniteSet(S), NEW g \in [S -> Int]
  PROVE  SumFunction(g) \in Int
<1>1. PICK h : IsSumming(h, S, g)
  BY SummingExists
<1> QED
  BY <1>1, SumIs

\* A sum of nothing but zeroes.
LEMMA SumOfZeroes ==
  ASSUME NEW S, IsFiniteSet(S)
  PROVE  SumFunction([d \in S |-> 0]) = 0
<1> DEFINE g == [d \in S |-> 0]
           h == [s \in SUBSET S |-> 0]
<1>1. ASSUME NEW s \in SUBSET S, s # {} PROVE h[s] = g[Some(s)] + h[s \ {Some(s)}]
  <2>1. Some(s) \in S /\ s \ {Some(s)} \in SUBSET S
    BY <1>1, SmallerPart
  <2>2. g[Some(s)] = 0 /\ h[s \ {Some(s)}] = 0 /\ h[s] = 0
    BY <2>1
  <2> HIDE DEF g, h
  <2> QED
    BY <2>2
<1>2. g \in [S -> Int] /\ h \in [SUBSET S -> Int] /\ h[{}] = 0 /\ h[S] = 0
  OBVIOUS
<1> HIDE DEF g, h
<1>3. IsSumming(h, S, g)
  BY <1>1, <1>2 DEF IsSumming, SumsUp
<1>4. SumFunction(g) = 0
  BY <1>2, <1>3, SumIs
<1> QED
  BY <1>4 DEF g

\* f is g, but for v more at x.
IsGrown(f, S, g, x, v) ==
  /\ g \in [S -> Int] /\ x \in S /\ v \in Int
  /\ f \in [S -> Int] /\ \A d \in S : f[d] = IF d = x THEN g[d] + v ELSE g[d]

\* A summand that grows makes the sum grow as much.
LEMMA SumOfMore ==
  ASSUME NEW S, IsFiniteSet(S), NEW f, NEW g, NEW x, NEW v, IsGrown(f, S, g, x, v)
  PROVE  SumFunction(f) = SumFunction(g) + v
<1>0. /\ g \in [S -> Int] /\ x \in S /\ v \in Int
      /\ f \in [S -> Int] /\ \A d \in S : f[d] = IF d = x THEN g[d] + v ELSE g[d]
  BY DEF IsGrown
<1> USE <1>0
<1>1. PICK h : IsSumming(h, S, g)
  BY SummingExists
<1>2. /\ h \in [SUBSET S -> Int] /\ h[{}] = 0
      /\ \A s \in SUBSET S : s # {} => h[s] = g[Some(s)] + h[s \ {Some(s)}]
  BY <1>1 DEF IsSumming, SumsUp
<1> DEFINE e == [s \in SUBSET S |-> IF x \in s THEN h[s] + v ELSE h[s]]
<1>3. e \in [SUBSET S -> Int] /\ e[{}] = 0 /\ e[S] = h[S] + v
  BY <1>2
<1>4. ASSUME NEW s \in SUBSET S, s # {} PROVE e[s] = f[Some(s)] + e[s \ {Some(s)}]
  <2>1. PICK y \in s, r \in SUBSET S : y = Some(s) /\ r = s \ {Some(s)}
    BY <1>4, SmallerPart
  <2>2. /\ h[s] = g[y] + h[r] /\ r = s \ {y} /\ y \in S
        /\ h[s] \in Int /\ g[y] \in Int /\ h[r] \in Int
    BY <1>2, <1>4, <2>1
  <2>3. CASE y = x
    <3>1. e[s] = h[s] + v /\ e[r] = h[r] /\ f[y] = g[y] + v
      BY <2>2, <2>3
    <3> HIDE DEF e
    <3> QED
      BY <2>1, <2>2, <3>1
  <2>4. CASE y # x /\ x \in s
    <3>1. e[s] = h[s] + v /\ e[r] = h[r] + v /\ f[y] = g[y]
      BY <2>2, <2>4
    <3> HIDE DEF e
    <3> QED
      BY <2>1, <2>2, <3>1
  <2>5. CASE x \notin s
    <3>1. e[s] = h[s] /\ e[r] = h[r] /\ f[y] = g[y]
      BY <2>1, <2>2, <2>5
    <3> HIDE DEF e
    <3> QED
      BY <2>1, <2>2, <3>1
  <2> QED
    BY <2>3, <2>4, <2>5
<1> HIDE DEF e
<1>5. IsSumming(e, S, f)
  BY <1>3, <1>4 DEF IsSumming, SumsUp
<1>6. SumFunction(f) = e[S] /\ SumFunction(g) = h[S]
  BY <1>1, <1>5, SumIs
<1> QED
  BY <1>3, <1>6

\* Multiplication distributes over a sum.
LEMMA Distributes ==
  ASSUME NEW a \in Int, NEW x \in Int, NEW y \in Int
  PROVE  a * (x + y) = a * x + a * y /\ a * x \in Int /\ a * y \in Int
OBVIOUS

\* f is a linear combination of g, k and l.
IsCombined(f, S, g, a, k, b, l) ==
  /\ g \in [S -> Int] /\ k \in [S -> Int] /\ l \in [S -> Int] /\ a \in Int /\ b \in Int
  /\ f \in [S -> Int] /\ \A d \in S : f[d] = g[d] + a * k[d] + b * l[d]

\* Summation is linear.
LEMMA SumIsLinear ==
  ASSUME NEW S, IsFiniteSet(S), NEW g, NEW k, NEW l, NEW a, NEW b,
         NEW f, IsCombined(f, S, g, a, k, b, l)
  PROVE  SumFunction(f) = SumFunction(g) + a * SumFunction(k) + b * SumFunction(l)
<1>0. /\ g \in [S -> Int] /\ k \in [S -> Int] /\ l \in [S -> Int] /\ a \in Int /\ b \in Int
      /\ f \in [S -> Int] /\ \A d \in S : f[d] = g[d] + a * k[d] + b * l[d]
  BY DEF IsCombined
<1> USE <1>0
<1>1. PICK gs, ks, ls : IsSumming(gs, S, g) /\ IsSumming(ks, S, k) /\ IsSumming(ls, S, l)
  BY SummingExists
<1>2. /\ gs \in [SUBSET S -> Int] /\ gs[{}] = 0
      /\ ks \in [SUBSET S -> Int] /\ ks[{}] = 0
      /\ ls \in [SUBSET S -> Int] /\ ls[{}] = 0
      /\ \A s \in SUBSET S : s # {} => /\ gs[s] = g[Some(s)] + gs[s \ {Some(s)}]
                                       /\ ks[s] = k[Some(s)] + ks[s \ {Some(s)}]
                                       /\ ls[s] = l[Some(s)] + ls[s \ {Some(s)}]
  BY <1>1 DEF IsSumming, SumsUp
<1> DEFINE e == [s \in SUBSET S |-> gs[s] + a * ks[s] + b * ls[s]]
<1>3. e \in [SUBSET S -> Int] /\ e[{}] = 0 /\ e[S] = gs[S] + a * ks[S] + b * ls[S]
  <2>1. \A s \in SUBSET S : gs[s] + a * ks[s] + b * ls[s] \in Int
    <3> TAKE s \in SUBSET S
    <3>1. gs[s] \in Int /\ ks[s] \in Int /\ ls[s] \in Int
      BY <1>2
    <3> QED
      BY <3>1
  <2>2. gs[{}] + a * ks[{}] + b * ls[{}] = 0
    BY <1>2
  <2>3. {} \in SUBSET S /\ S \in SUBSET S
    OBVIOUS
  <2> QED
    BY <2>1, <2>2, <2>3, Zenon
<1>4. ASSUME NEW s \in SUBSET S, s # {} PROVE e[s] = f[Some(s)] + e[s \ {Some(s)}]
  <2>1. PICK y \in S, r \in SUBSET S : y = Some(s) /\ r = s \ {Some(s)}
    BY <1>4, SmallerPart
  <2>2. /\ gs[s] = g[y] + gs[r] /\ ks[s] = k[y] + ks[r] /\ ls[s] = l[y] + ls[r]
        /\ e[s] = gs[s] + a * ks[s] + b * ls[s] /\ e[r] = gs[r] + a * ks[r] + b * ls[r]
        /\ f[y] = g[y] + a * k[y] + b * l[y]
    BY <1>2, <1>4, <2>1
  <2>3. /\ g[y] \in Int /\ k[y] \in Int /\ l[y] \in Int
        /\ gs[r] \in Int /\ ks[r] \in Int /\ ls[r] \in Int
    BY <1>2
  <2> HIDE DEF e
  <2>4. /\ a * (k[y] + ks[r]) = a * k[y] + a * ks[r] /\ a * k[y] \in Int /\ a * ks[r] \in Int
        /\ b * (l[y] + ls[r]) = b * l[y] + b * ls[r] /\ b * l[y] \in Int /\ b * ls[r] \in Int
    BY <2>3, Distributes
  <2>5. e[s] = f[y] + e[r]
    <3>1. e[s] = (g[y] + gs[r]) + (a * k[y] + a * ks[r]) + (b * l[y] + b * ls[r])
      BY <2>2, <2>4
    <3> QED
      BY <2>2, <2>3, <2>4, <3>1
  <2> QED
    BY <2>1, <2>5
<1> HIDE DEF e
<1>5. IsSumming(e, S, f)
  BY <1>3, <1>4 DEF IsSumming, SumsUp
<1>6. /\ SumFunction(f) = e[S] /\ SumFunction(g) = gs[S] /\ SumFunction(k) = ks[S]
      /\ SumFunction(l) = ls[S]
  BY <1>1, <1>5, SumIs
<1> QED
  BY <1>3, <1>6

-----------------------------------------------------------------------------
(* Division that comes out even. *)

\* What leaves no remainder is a multiple.
LEMMA NoRemainder ==
  ASSUME NEW a \in Nat, NEW n \in Nat \ {0}, a % n = 0
  PROVE  \E k \in Nat : a = n * k
<1>1. a = n * (a \div n) + (a % n) /\ a \div n \in Nat
  OBVIOUS
<1> QED
  BY <1>1

\* A multiple is divided evenly.
LEMMA EvenDivision ==
  ASSUME NEW e \in Int, NEW n \in Nat \ {0}
  PROVE  (n * e) \div n = e
<1> DEFINE q == (n * e) \div n
<1>1. q \in Int /\ n * e \in Int /\ n * q <= n * e /\ n * e < n * q + n
  OBVIOUS
<1> HIDE DEF q
<1>2. CASE q < e
  <2>1. n * (q + 1) <= n * e
    BY <1>1, <1>2
  <2>2. n * (q + 1) = n * q + n
    BY <1>1
  <2> QED
    BY <1>1, <2>1, <2>2
<1>3. CASE q > e
  <2>1. n * (e + 1) <= n * q
    BY <1>1, <1>3
  <2>2. n * (e + 1) = n * e + n
    BY <1>1
  <2> QED
    BY <1>1, <2>1, <2>2
<1> QED
  BY <1>1, <1>2, <1>3 DEF q

\* A multiple of n and of n + 1 is a multiple of their product.
LEMMA NeighboursDivide ==
  ASSUME NEW a \in Nat, NEW n \in Nat \ {0}, a % n = 0, a % (n + 1) = 0
  PROVE  \E k \in Int : a = n * ((n + 1) * k)
<1>1. PICK b \in Nat : a = n * b
  BY NoRemainder
<1>2. PICK c \in Nat : a = (n + 1) * c
  <2>1. n + 1 \in Nat \ {0}
    OBVIOUS
  <2> QED
    BY <2>1, NoRemainder
<1>3. c = n * (b - c)
  <2>1. n * (b - c) = n * b - n * c /\ (n + 1) * c = n * c + c
    OBVIOUS
  <2>2. n * b \in Int /\ n * c \in Int
    OBVIOUS
  <2> QED
    BY <1>1, <1>2, <2>1, <2>2
<1>4. (n + 1) * c = (n + 1) * (n * (b - c))
  BY <1>3
<1>5. PICK k \in Int : k = b - c
  OBVIOUS
<1>6. (n + 1) * (n * k) = n * ((n + 1) * k)
  OBVIOUS
<1> QED
  BY <1>2, <1>4, <1>5, <1>6

-----------------------------------------------------------------------------
(* Welford's method, of n numbers with the mean m in units of 1/s. *)

\* The unit divides by n and by n + 1; m is the mean of n numbers with the given
\* sum; the number u moves it by e.
IsUnit(s, n)         == s \in Nat \ {0} /\ (n > 0 => s % n = 0) /\ s % (n + 1) = 0
IsMean(m, n, sum, s) == n * m = s * sum /\ (n = 0 => m = 0)
MovesBy(e, n, m, u, s) == s * u - m = (n + 1) * e

\* One more number moves the mean by a whole number of units.
LEMMA DifferenceIsEven ==
  ASSUME NEW n \in Nat, NEW m \in Int, NEW sum \in Int, NEW u \in Int, NEW s,
         IsUnit(s, n), IsMean(m, n, sum, s)
  PROVE  \E e \in Int : MovesBy(e, n, m, u, s)
<1>0. /\ s \in Nat \ {0} /\ (n > 0 => s % n = 0) /\ s % (n + 1) = 0
      /\ n * m = s * sum /\ (n = 0 => m = 0)
  BY DEF IsUnit, IsMean
<1> USE <1>0 DEF MovesBy
<1>1. CASE n = 0
  <2>1. s * u - m = (n + 1) * (s * u) /\ s * u \in Int
    BY <1>1
  <2> QED
    BY <2>1
<1>2. CASE n > 0
  <2>1. PICK k \in Int : s = n * ((n + 1) * k)
    <3>1. n \in Nat \ {0} /\ s \in Nat /\ s % n = 0 /\ s % (n + 1) = 0
      BY <1>2
    <3> QED
      BY <3>1, NeighboursDivide
  <2>2. m = ((n + 1) * k) * sum
    <3>1. PICK x \in Int : x = ((n + 1) * k) * sum
      OBVIOUS
    <3>2. s * sum = n * x
      <4>1. (n * ((n + 1) * k)) * sum = n * (((n + 1) * k) * sum)
        OBVIOUS
      <4> QED
        BY <2>1, <3>1, <4>1
    <3>3. n * m = n * x
      BY <3>2
    <3>4. m = x
      <4>1. n * (m - x) = n * m - n * x
        OBVIOUS
      <4>2. n * (m - x) = 0
        <5>1. n * m \in Int
          OBVIOUS
        <5> QED
          BY <3>3, <4>1, <5>1
      <4> QED
        BY <1>2, <4>2
    <3> QED
      BY <3>1, <3>4
  <2>3. s * u = (n + 1) * ((n * k) * u)
    <3>1. (n * ((n + 1) * k)) * u = (n + 1) * ((n * k) * u)
      OBVIOUS
    <3> QED
      BY <2>1, <3>1
  <2>4. m = (n + 1) * (k * sum)
    <3>1. ((n + 1) * k) * sum = (n + 1) * (k * sum)
      OBVIOUS
    <3> QED
      BY <2>2, <3>1
  <2>5. PICK x \in Int, y \in Int : x = (n * k) * u /\ y = k * sum
    OBVIOUS
  <2>6. (n + 1) * x - (n + 1) * y = (n + 1) * (x - y)
    OBVIOUS
  <2>7. s * u - m = (n + 1) * (x - y) /\ x - y \in Int
    BY <2>3, <2>4, <2>5, <2>6
  <2> QED
    BY <2>7
<1> QED
  BY <1>1, <1>2

\* The squares around the new mean, in terms of those around the old one.
LEMMA SquareMoves ==
  ASSUME NEW c \in Int, NEW s \in Int, NEW d \in Int, NEW m \in Int, NEW e \in Int
  PROVE  c * ((s * d - (m + e)) * (s * d - (m + e)))
           = c * ((s * d - m) * (s * d - m))
             + (-2 * e * s) * (c * d) + (2 * e * m + e * e) * c
OBVIOUS

\* The sum of squares around the new mean, from the old one: added up, and Welford's.
AddUp(q, n, m, e, s, sum, u) ==
  LET x == s * u - (m + e) IN
  q + (-2 * e * s) * sum + (2 * e * m + e * e) * n + x * x = q + (s * u - m) * x

\* Welford's update of the sum of squares, when the sums behind it are known.
LEMMA SquaresAddUp ==
  ASSUME NEW n \in Nat, NEW m \in Int, NEW e \in Int, NEW s \in Int, NEW sum \in Int,
         NEW u \in Int, NEW q \in Int, IsMean(m, n, sum, s), MovesBy(e, n, m, u, s)
  PROVE  AddUp(q, n, m, e, s, sum, u)
<1>0. n * m = s * sum /\ s * u - m = (n + 1) * e
  BY DEF IsMean, MovesBy
<1> USE <1>0
<1> DEFINE x == s * u - (m + e)
<1>1. s * u \in Int
  OBVIOUS
<1>2. x = n * e
  BY <1>1
<1>3. (-2 * e * s) * sum = -2 * e * (n * m)
  <2>1. (-2 * e * s) * sum = -2 * e * (s * sum)
    OBVIOUS
  <2> QED
    BY <2>1
<1>4. (s * u - m) * x = ((n + 1) * e) * (n * e)
  BY <1>2
<1>5. x * x = (n * e) * (n * e)
  BY <1>2
<1>6. -2 * e * (n * m) + (2 * e * m + e * e) * n + (n * e) * (n * e)
        = ((n + 1) * e) * (n * e)
  OBVIOUS
<1> HIDE DEF x
<1>7. x \in Int
  BY <1>2
<1>8. PICK a \in Int, b \in Int, c \in Int, d \in Int :
             /\ a = -2 * e * (n * m) /\ b = (2 * e * m + e * e) * n
             /\ c = (n * e) * (n * e) /\ d = ((n + 1) * e) * (n * e)
  OBVIOUS
<1>9. q + a + b + c = q + d
  BY <1>6, <1>8
<1>10. q + (-2 * e * s) * sum + (2 * e * m + e * e) * n + x * x = q + (s * u - m) * x
  BY <1>3, <1>4, <1>5, <1>8, <1>9
<1> QED
  BY <1>10 DEF x, AddUp

-----------------------------------------------------------------------------
(* Sorting: every sequence of integers has a sorted order of its places. *)

IsOrder(p, s) ==
  /\ p \in Bijection(DOMAIN s, DOMAIN s)
  /\ \A i, j \in DOMAIN s : i < j => s[p[i]] <= s[p[j]]

\* The places that a stable sort does not put behind the i-th element.
NotBehind(s, i) ==
  {j \in DOMAIN s : s[j] < s[i] \/ (s[j] = s[i] /\ j <= i)}

\* These sets are finite, and are ordered by inclusion as the places are.
LEMMA NotBehindNests ==
  ASSUME NEW n \in Nat, NEW s \in [1..n -> Int]
  PROVE  /\ \A i \in 1..n : /\ NotBehind(s, i) \in SUBSET (1..n)
                            /\ IsFiniteSet(NotBehind(s, i))
                            /\ Cardinality(NotBehind(s, i)) \in 1..n
                            /\ i \in NotBehind(s, i)
         /\ \A i, j \in 1..n : i \in NotBehind(s, j) =>
               NotBehind(s, i) \subseteq NotBehind(s, j)
         /\ \A i, j \in 1..n : i \in NotBehind(s, j) \/ j \in NotBehind(s, i)
         /\ \A i, j \in 1..n : i \in NotBehind(s, j) /\ j \in NotBehind(s, i) => i = j
<1>1. ASSUME NEW i \in 1..n
      PROVE  /\ NotBehind(s, i) \in SUBSET (1..n)
             /\ IsFiniteSet(NotBehind(s, i))
             /\ Cardinality(NotBehind(s, i)) \in 1..n
             /\ i \in NotBehind(s, i)
  <2> DEFINE B == NotBehind(s, i)
  <2>1. B \in SUBSET (1..n) /\ i \in B
    BY DEF NotBehind
  <2> HIDE DEF B
  <2>2. IsFiniteSet(1..n) /\ Cardinality(1..n) = n
    BY FS_Interval
  <2>3. IsFiniteSet(B) /\ Cardinality(B) <= n
    <3>1. IsFiniteSet(B) /\ Cardinality(B) <= Cardinality(1..n)
      BY <2>1, <2>2, FS_Subset
    <3> QED
      BY <2>2, <3>1
  <2>4. Cardinality(B) \in Nat /\ Cardinality(B) # 0
    BY <2>1, <2>3, FS_CardinalityType, FS_EmptySet
  <2> QED
    BY <2>1, <2>3, <2>4 DEF B
<1>2. \A i \in 1..n : s[i] \in Int
  OBVIOUS
<1>3. \A i, j \in 1..n : i \in NotBehind(s, j) => NotBehind(s, i) \subseteq NotBehind(s, j)
  BY <1>2 DEF NotBehind
<1>4. \A i, j \in 1..n : i \in NotBehind(s, j) \/ j \in NotBehind(s, i)
  BY <1>2 DEF NotBehind
<1>5. \A i, j \in 1..n : i \in NotBehind(s, j) /\ j \in NotBehind(s, i) => i = j
  BY <1>2 DEF NotBehind
<1> QED
  BY <1>1, <1>3, <1>4, <1>5

\* The number of those places is the place after sorting.
LEMMA OrderExists ==
  ASSUME NEW n \in Nat, NEW s \in [1..n -> Int]
  PROVE  \E p : IsOrder(p, s)
<1> DEFINE D       == 1..n
           size(i) == Cardinality(NotBehind(s, i))
           rank    == [i \in D |-> size(i)]
<1>1. rank \in [D -> D] /\ \A i \in D : rank[i] = size(i)
  BY NotBehindNests
<1>2. ASSUME NEW i \in D, NEW j \in D, i \in NotBehind(s, j)
      PROVE  rank[i] <= rank[j] /\ (rank[i] = rank[j] => i = j)
  <2> DEFINE A == NotBehind(s, i)
             B == NotBehind(s, j)
  <2>1. A \in SUBSET B /\ IsFiniteSet(B) /\ j \in B
    BY <1>2, NotBehindNests
  <2>2. Cardinality(A) <= Cardinality(B) /\ (Cardinality(B) = Cardinality(A) => B = A)
    BY <2>1, FS_Subset
  <2>3. B = A => i = j
    BY <1>2, <2>1, NotBehindNests
  <2> QED
    BY <1>1, <2>2, <2>3
<1>3. \A i, j \in D : rank[i] = rank[j] => i = j
  BY <1>2, NotBehindNests
<1>4. \A i, j \in D : rank[i] < rank[j] => s[i] <= s[j]
  <2> SUFFICES ASSUME NEW i \in D, NEW j \in D, rank[i] < rank[j]
               PROVE  s[i] <= s[j]
    OBVIOUS
  <2>1. rank[i] \in Int /\ rank[j] \in Int
    BY <1>1
  <2>2. j \notin NotBehind(s, i)
    <3> HIDE DEF rank
    <3> QED
      BY <1>2, <2>1
  <2>3. i \in NotBehind(s, j)
    BY <2>2, NotBehindNests
  <2> QED
    BY <2>3 DEF NotBehind
<1> HIDE DEF rank
<1>5. rank \in Bijection(D, D)
  <2>1. rank \in Injection(D, D)
    BY <1>1, <1>3, Fun_IsInj
  <2>2. IsFiniteSet(D)
    BY FS_Interval
  <2>3. rank \in Surjection(D, D)
    BY <2>1, <2>2, FS_Injection
  <2> QED
    BY <2>1, <2>3, Fun_IsBij
<1> DEFINE p == Inverse(rank, D, D)
<1>6. /\ p \in Bijection(D, D) /\ p \in [D -> D]
      /\ \A i \in D : rank[p[i]] = i
  <2>1. p \in Bijection(D, D) /\ \A i \in D : p[rank[i]] = i
    BY <1>5, Fun_BijInverse
  <2>2. \A t \in D : \E i \in D : rank[i] = t
    BY <1>5 DEF Bijection, Surjection
  <2>3. p \in [D -> D]
    BY <2>1 DEF Bijection, Injection
  <2> HIDE DEF p
  <2> QED
    BY <2>1, <2>2, <2>3
<1> HIDE DEF p
<1>7. \A i, j \in D : i < j => s[p[i]] <= s[p[j]]
  BY <1>4, <1>6
<1>8. DOMAIN s = D
  OBVIOUS
<1> HIDE DEF D
<1>9. IsOrder(p, s)
  BY <1>6, <1>7, <1>8 DEF IsOrder
<1> QED
  BY <1>9

\* The two properties of the k-th smallest element.
FewSmaller(s, x, k) == Cardinality({i \in DOMAIN s : s[i] < x}) < k
EnoughUpTo(s, x, k) == Cardinality({i \in DOMAIN s : s[i] <= x}) >= k

\* Less than k elements are smaller than the one in place k of the order, and at
\* least k are not larger.
LEMMA OrderCounts ==
  ASSUME NEW n \in Nat, NEW s \in [1..n -> Int], NEW p, IsOrder(p, s), NEW k \in 1..n
  PROVE  p[k] \in 1..n /\ FewSmaller(s, s[p[k]], k) /\ EnoughUpTo(s, s[p[k]], k)
<1> DEFINE D       == 1..n
           Smaller == {i \in D : s[i] < s[p[k]]}
           NoMore  == {i \in D : s[i] <= s[p[k]]}
           Before  == {p[j] : j \in 1..(k - 1)}
           UpTo    == {p[j] : j \in 1..k}
<1>1. /\ p \in [D -> D] /\ p \in Bijection(D, D)
      /\ \A i, j \in D : i < j => s[p[i]] <= s[p[j]]
  BY DEF IsOrder, Bijection, Injection
<1>2. \A t \in D : \E j \in D : p[j] = t
  BY <1>1 DEF Bijection, Surjection
<1>3. \A i, j \in D : p[i] = p[j] => i = j
  BY <1>1 DEF Bijection, Injection, IsInjective
<1>4. /\ IsFiniteSet(1..(k - 1)) /\ Cardinality(1..(k - 1)) = k - 1
      /\ IsFiniteSet(1..k) /\ Cardinality(1..k) = k
  <2>1. PICK j \in Nat : j = k - 1
    OBVIOUS
  <2>2. IsFiniteSet(1..j) /\ Cardinality(1..j) = j
    BY FS_Interval
  <2>3. IsFiniteSet(1..k) /\ Cardinality(1..k) = k
    BY FS_Interval
  <2> QED
    BY <2>1, <2>2, <2>3
<1>5. IsFiniteSet(Smaller) /\ IsFiniteSet(NoMore)
  <2>1. IsFiniteSet(D)
    BY FS_Interval
  <2>2. Smaller \in SUBSET D /\ NoMore \in SUBSET D
    OBVIOUS
  <2> HIDE DEF Smaller, NoMore, D
  <2> QED
    BY <2>1, <2>2, FS_Subset
<1>6. Smaller \subseteq Before
  <2> SUFFICES ASSUME NEW i \in Smaller PROVE i \in Before
    OBVIOUS
  <2>1. PICK j \in D : p[j] = i
    BY <1>2
  <2>2. ~(k <= j)
    <3>1. CASE k = j
      BY <2>1, <3>1
    <3>2. CASE k < j
      <4>1. s[p[k]] <= s[p[j]] /\ s[p[k]] \in Int /\ s[p[j]] \in Int
        BY <1>1, <3>2
      <4> QED
        BY <2>1, <4>1
    <3> QED
      BY <3>1, <3>2
  <2> QED
    BY <2>1, <2>2
<1>7. IsFiniteSet(Before) /\ Cardinality(Before) <= k - 1
  <2> DEFINE f == [j \in 1..(k - 1) |-> p[j]]
  <2>1. f \in [1..(k - 1) -> Before] /\ \A t \in Before : \E j \in 1..(k - 1) : f[j] = t
    OBVIOUS
  <2> HIDE DEF f, Before
  <2>2. f \in Surjection(1..(k - 1), Before)
    BY <2>1, Fun_IsSurj
  <2>3. IsFiniteSet(Before) /\ Cardinality(Before) <= Cardinality(1..(k - 1))
    BY <1>4, <2>2, FS_Surjection
  <2> QED
    BY <1>4, <2>3
<1>8. Cardinality(Smaller) < k
  <2> HIDE DEF Smaller, Before
  <2>1. Cardinality(Smaller) <= Cardinality(Before)
    BY <1>6, <1>7, FS_Subset
  <2>2. Cardinality(Smaller) \in Nat /\ Cardinality(Before) \in Nat
    BY <1>5, <1>7, FS_CardinalityType
  <2> QED
    BY <1>7, <2>1, <2>2
<1>9. Cardinality(NoMore) >= k
  <2> DEFINE f == [j \in 1..k |-> p[j]]
  <2>1. \A j \in 1..k : p[j] \in NoMore
    <3> SUFFICES ASSUME NEW j \in 1..k PROVE p[j] \in NoMore
      OBVIOUS
    <3>1. p[j] \in D /\ p[k] \in D /\ s[p[j]] \in Int /\ s[p[k]] \in Int
      BY <1>1
    <3>2. j = k \/ s[p[j]] <= s[p[k]]
      <4>1. j = k \/ j < k
        OBVIOUS
      <4> QED
        BY <1>1, <4>1
    <3> QED
      BY <3>1, <3>2
  <2>2. f \in [1..k -> NoMore] /\ \A a, b \in 1..k : f[a] = f[b] => a = b
    BY <2>1, <1>3
  <2> HIDE DEF f, NoMore
  <2>3. f \in Injection(1..k, NoMore)
    BY <2>2, Fun_IsInj
  <2>4. Cardinality(1..k) <= Cardinality(NoMore)
    BY <1>5, <2>3, FS_Injection
  <2>5. Cardinality(NoMore) \in Nat
    BY <1>5, FS_CardinalityType
  <2> QED
    BY <1>4, <2>4, <2>5
<1> QED
  BY <1>1, <1>8, <1>9 DEF FewSmaller, EnoughUpTo

\* Nothing else has these two properties.
LEMMA OnlyOneInPlace ==
  ASSUME NEW n \in Nat, NEW s \in [1..n -> Int], NEW k \in 1..n,
         NEW x \in Int, NEW y \in Int,
         FewSmaller(s, y, k), EnoughUpTo(s, x, k)
  PROVE  y <= x
<1> DEFINE Smaller == {i \in 1..n : s[i] < y}
           NoMore  == {i \in 1..n : s[i] <= x}
<1> SUFFICES ASSUME x < y PROVE FALSE
  OBVIOUS
<1>1. Cardinality(Smaller) < k /\ Cardinality(NoMore) >= k
  BY DEF FewSmaller, EnoughUpTo, Smaller, NoMore
<1>2. NoMore \in SUBSET Smaller
  OBVIOUS
<1>3. Smaller \in SUBSET (1..n)
  OBVIOUS
<1> HIDE DEF Smaller, NoMore
<1>4. IsFiniteSet(Smaller)
  <2>1. IsFiniteSet(1..n)
    BY FS_Interval
  <2> QED
    BY <1>3, <2>1, FS_Subset
<1>5. IsFiniteSet(NoMore) /\ Cardinality(NoMore) <= Cardinality(Smaller)
  BY <1>2, <1>4, FS_Subset
<1>6. Cardinality(NoMore) \in Nat /\ Cardinality(Smaller) \in Nat
  BY <1>4, <1>5, FS_CardinalityType
<1> QED
  BY <1>1, <1>5, <1>6
=============================================================================
