----------------------------- MODULE Induction_proofs ---------------------------
(***************************************************************************)
(* Induction without an operator parameter.  The induction theorems of the *)
(* library take a predicate, and the provers here are first-order; WFMin   *)
(* takes a set, and a set of counterexamples with a least element is       *)
(* enough.  From it: a function with a given recursion exists, and what    *)
(* FlattenSeq of the community modules returns for every sequence of       *)
(* sequences.  The theorems about Crc32 and PacketCodec rest on these.     *)
(***************************************************************************)
EXTENDS SequencesExt, FiniteSetsExt, SequenceTheorems, WellFoundedInduction, TLAPS

\* Induction over the natural numbers, for a set instead of a predicate.
THEOREM NatSetInduction ==
    ASSUME NEW T, 0 \in T, \A n \in Nat : n \in T => n + 1 \in T
    PROVE  Nat \subseteq T
<1> DEFINE R == OpToRel(<, Nat)
           C == Nat \ T
<1>1. SUFFICES ASSUME C # {} PROVE FALSE
  OBVIOUS
<1>2. \E x \in C : \A y \in C : ~ (<<y, x>> \in R)
  <2>1. IsWellFoundedOn(R, Nat)
    BY NatLessThanWellFounded
  <2>2. C \subseteq Nat
    OBVIOUS
  <2> HIDE DEF R, C
  <2> QED BY <1>1, <2>1, <2>2, WFMin
<1>3. PICK x \in C : \A y \in C : ~ (<<y, x>> \in R)
  BY <1>2
<1>4. x \in Nat /\ x # 0 /\ x - 1 \in Nat /\ x - 1 < x
  OBVIOUS
<1>5. <<x - 1, x>> \in R
  BY <1>4 DEF OpToRel
<1>6. x - 1 \notin C
  BY <1>3, <1>5
<1> QED
  BY <1>4, <1>6

\* f is the function on 0 .. n that starts with base and goes on with step.
Iterates(f, S, base, n, step) ==
    /\ f \in [0 .. n -> S]
    /\ f[0] = base
    /\ \A i \in 1 .. n : f[i] = step[<<i, f[i - 1]>>]

\* There is one (the provers know of a recursive function only what is shown
\* to exist).
LEMMA PrimitiveRecursion ==
    ASSUME NEW S, NEW base \in S, NEW n \in Nat, NEW step \in [(1 .. n) \X S -> S]
    PROVE  \E f : Iterates(f, S, base, n, step)
<1> USE DEF Iterates
<1> DEFINE Good(k, f) == f[0] = base /\ \A i \in 1 .. k : f[i] = step[<<i, f[i - 1]>>]
           T == {k \in Nat : k <= n => \E f \in [0 .. k -> S] : Good(k, f)}
<1>1. 0 \in T
  <2>1. [i \in 0 .. 0 |-> base] \in [0 .. 0 -> S] /\ Good(0, [i \in 0 .. 0 |-> base])
    OBVIOUS
  <2> QED BY <2>1
<1>2. ASSUME NEW k \in Nat, k \in T PROVE k + 1 \in T
  <2>1. SUFFICES ASSUME k + 1 <= n PROVE \E f \in [0 .. k + 1 -> S] : Good(k + 1, f)
    OBVIOUS
  <2>2. PICK f \in [0 .. k -> S] : Good(k, f)
    BY <1>2, <2>1
  <2> DEFINE last == step[<<k + 1, f[k]>>]
             g == [i \in 0 .. k + 1 |-> IF i = k + 1 THEN last ELSE f[i]]
  <2>3. last \in S
    BY <2>1, <2>2
  <2>4. \A i \in 0 .. k : g[i] = f[i] /\ g[i] \in S
    OBVIOUS
  <2>5. g[k + 1] = last
    OBVIOUS
  <2>6. g \in [0 .. k + 1 -> S]
    <3>1. \A i \in 0 .. k + 1 : (IF i = k + 1 THEN last ELSE f[i]) \in S
      BY <2>3, <2>2
    <3> HIDE DEF last
    <3> QED BY <3>1
  <2> HIDE DEF g
  <2>7. Good(k + 1, g)
    <3>1. g[0] = base
      BY <2>2, <2>4
    <3>2. ASSUME NEW i \in 1 .. k PROVE g[i] = step[<<i, g[i - 1]>>]
      <4>1. i \in 0 .. k /\ i - 1 \in 0 .. k
        OBVIOUS
      <4> QED BY <4>1, <2>2, <2>4
    <3>3. g[k + 1] = step[<<k + 1, g[k + 1 - 1]>>]
      <4>1. k + 1 - 1 = k /\ k \in 0 .. k
        OBVIOUS
      <4> QED BY <4>1, <2>4, <2>5
    <3>4. \A i \in 1 .. k + 1 : i \in 1 .. k \/ i = k + 1
      OBVIOUS
    <3> QED BY <3>1, <3>2, <3>3, <3>4
  <2> QED BY <2>6, <2>7
<1>3. Nat \subseteq T
  <2> HIDE DEF T
  <2> QED BY <1>1, <1>2, NatSetInduction
<1> QED
  BY <1>3

-----------------------------------------------------------------------------
\* f[i] holds the first i sequences of s, and so FlattenSeq(s) is the last.
Flattens(f, s, S) ==
    /\ f \in [0 .. Len(s) -> Seq(S)]
    /\ f[0] = <<>>
    /\ \A i \in 1 .. Len(s) : f[i] = f[i - 1] \o s[i]
    /\ FlattenSeq(s) = f[Len(s)]

\* FlattenSeq is what its recursion says.
LEMMA FlattenDef ==
    ASSUME NEW S, NEW s \in Seq(Seq(S))
    PROVE  \E f : Flattens(f, s, S)
<1> DEFINE n == Len(s)
           step == [q \in (1 .. n) \X Seq(S) |-> q[2] \o s[q[1]]]
<1>1. n \in Nat /\ \A i \in 1 .. n : s[i] \in Seq(S)
  OBVIOUS
<1>2. step \in [(1 .. n) \X Seq(S) -> Seq(S)]
  <2>1. ASSUME NEW q \in (1 .. n) \X Seq(S) PROVE q[2] \o s[q[1]] \in Seq(S)
    <3>1. q[2] \in Seq(S) /\ s[q[1]] \in Seq(S)
      BY <1>1
    <3> QED BY <3>1, ConcatProperties
  <2> QED BY <2>1
<1>3. PICK f : Iterates(f, Seq(S), <<>>, n, step)
  <2> HIDE DEF step, n
  <2>1. <<>> \in Seq(S)
    OBVIOUS
  <2> QED BY <1>1, <1>2, <2>1, PrimitiveRecursion
<1> USE DEF Iterates, Flattens
<1>4. ASSUME NEW i \in 1 .. n
      PROVE  f[i] = f[i - 1] \o s[i] /\ f[i - 1] \in Seq(S)
  <2>1. i - 1 \in 0 .. n
    OBVIOUS
  <2>2. f[i - 1] \in Seq(S)
    BY <1>3, <2>1
  <2>3. step[<<i, f[i - 1]>>] = f[i - 1] \o s[i]
    BY <2>2
  <2> QED BY <1>3, <2>2, <2>3
<1>5. CASE n = 0
  <2>1. s = <<>>
    BY <1>5
  <2> QED BY <2>1, <1>3, <1>4, <1>5 DEF FlattenSeq
<1>6. CASE n # 0
  <2> DEFINE rec(h) == [i \in 1 .. n |-> IF i = 1 THEN s[i] ELSE h[i - 1] \o s[i]]
             h0 == CHOOSE h : h = rec(h)
             ff == [i \in 1 .. n |-> f[i]]
  <2>1. ff = rec(ff)
    <3>1. ASSUME NEW i \in 1 .. n
          PROVE  f[i] = IF i = 1 THEN s[i] ELSE ff[i - 1] \o s[i]
      <4>1. CASE i = 1
        <5>1. 1 \in 1 .. n /\ 1 - 1 = 0
          BY <4>1
        <5>2. f[1] = f[1 - 1] \o s[1]
          BY <5>1, <1>4
        <5>3. f[0] = <<>>
          BY <1>3
        <5>4. f[1] = <<>> \o s[1] /\ s[1] \in Seq(S)
          BY <5>1, <5>2, <5>3, <1>1
        <5> QED BY <5>4, <4>1, ConcatEmptySeq
      <4>2. CASE i # 1
        <5>1. i - 1 \in 1 .. n
          BY <4>2
        <5> QED BY <5>1, <4>2, <1>4
      <4> QED BY <4>1, <4>2
    <3> QED BY <3>1
  <2>2. h0 = rec(h0)
    BY <2>1
  <2> HIDE DEF h0
  <2>3. \A i \in 1 .. n : h0[i] = IF i = 1 THEN s[i] ELSE h0[i - 1] \o s[i]
    BY <2>2
  <2> DEFINE T == {i \in Nat : i \in 1 .. n => h0[i] = f[i]}
  <2>4. 0 \in T
    OBVIOUS
  <2>5. ASSUME NEW i \in Nat, i \in T PROVE i + 1 \in T
    <3>1. SUFFICES ASSUME i + 1 \in 1 .. n PROVE h0[i + 1] = f[i + 1]
      OBVIOUS
    <3> DEFINE m == i + 1
    <3>2. m \in 1 .. n /\ m - 1 = i /\ (m = 1 <=> i = 0) /\ (i # 0 => i \in 1 .. n)
      BY <3>1
    <3> HIDE DEF m
    <3>3. f[m] = f[m - 1] \o s[m]
      BY <3>2, <1>4
    <3>4. h0[m] = IF m = 1 THEN s[m] ELSE h0[m - 1] \o s[m]
      BY <3>2, <2>3
    <3>5. CASE i = 0
      <4>1. f[m] = <<>> \o s[m] /\ h0[m] = s[m]
        BY <3>2, <3>3, <3>4, <3>5, <1>3
      <4> QED BY <4>1, <3>2, <1>1, ConcatEmptySeq DEF m
    <3>6. CASE i # 0
      BY <3>2, <3>3, <3>4, <3>6, <2>5 DEF m
    <3> QED BY <3>5, <3>6
  <2>6. Nat \subseteq T
    <3> HIDE DEF T
    <3> QED BY <2>4, <2>5, NatSetInduction
  <2>7. h0[n] = f[n]
    BY <2>6, <1>6
  <2>8. FlattenSeq(s) = h0[n]
    BY <1>6 DEF FlattenSeq, h0
  <2> QED BY <2>7, <2>8, <1>3, <1>4
<1> QED
  BY <1>5, <1>6

\* The elements of a flattened sequence come from the same set.
LEMMA FlattenType ==
    ASSUME NEW S, NEW s \in Seq(Seq(S))
    PROVE  FlattenSeq(s) \in Seq(S)
<1>1. PICK f : Flattens(f, s, S)
  BY FlattenDef
<1>2. Len(s) \in 0 .. Len(s)
  OBVIOUS
<1> QED
  BY <1>1, <1>2 DEF Flattens

\* FlattenSeq of two sequences one after the other.
LEMMA FlattenConcat ==
    ASSUME NEW S, NEW s \in Seq(Seq(S)), NEW t \in Seq(Seq(S))
    PROVE  FlattenSeq(s \o t) = FlattenSeq(s) \o FlattenSeq(t)
<1> DEFINE n == Len(s)
           m == Len(t)
           W == Seq(S)
<1>1. /\ n \in Nat /\ m \in Nat
      /\ s \o t \in Seq(Seq(S)) /\ Len(s \o t) = n + m
      /\ \A i \in 1 .. n : (s \o t)[i] = s[i]
      /\ \A i \in 1 .. m : (s \o t)[n + i] = t[i] /\ t[i] \in W
  OBVIOUS
<1>2. PICK f : Flattens(f, s, S)
  BY FlattenDef
<1>3. PICK g : Flattens(g, t, S)
  BY FlattenDef
<1>4. PICK h : Flattens(h, s \o t, S)
  BY <1>1, FlattenDef
<1> USE DEF Flattens
<1>h. /\ h \in [0 .. n + m -> W] /\ h[0] = <<>> /\ FlattenSeq(s \o t) = h[n + m]
      /\ \A i \in 1 .. n + m : h[i] = h[i - 1] \o (s \o t)[i]
  BY <1>1, <1>4
<1>g. /\ g \in [0 .. m -> W] /\ g[0] = <<>> /\ FlattenSeq(t) = g[m]
      /\ \A i \in 1 .. m : g[i] = g[i - 1] \o t[i]
  BY <1>3
<1>f. /\ f \in [0 .. n -> W] /\ f[0] = <<>> /\ FlattenSeq(s) = f[n]
      /\ \A i \in 1 .. n : f[i] = f[i - 1] \o s[i]
  BY <1>2
<1> HIDE DEF n, m, Flattens, W
<1>5. h[n] = f[n]
  <2> DEFINE T == {i \in Nat : i <= n => h[i] = f[i]}
  <2>1. 0 \in T
    BY <1>f, <1>h
  <2>2. ASSUME NEW i \in Nat, i \in T PROVE i + 1 \in T
    <3> DEFINE k == i + 1
    <3>1. SUFFICES ASSUME k <= n PROVE h[k] = f[k]
      OBVIOUS
    <3>2. k \in 1 .. n /\ k \in 1 .. n + m /\ k - 1 = i /\ i <= n
      BY <1>1, <3>1
    <3> HIDE DEF k
    <3> QED BY <3>2, <2>2, <1>1, <1>f, <1>h
  <2>3. Nat \subseteq T
    <3> HIDE DEF T
    <3> QED BY <2>1, <2>2, NatSetInduction
  <2> QED BY <2>3, <1>1
<1>6. h[n + m] = f[n] \o g[m]
  <2> DEFINE T == {i \in Nat : i <= m => h[n + i] = f[n] \o g[i]}
  <2>0. f[n] \in W
    BY <1>1, <1>f
  <2>t. \A i \in Nat : i \in T <=> (i <= m => h[n + i] = f[n] \o g[i])
    OBVIOUS
  <2> HIDE DEF T
  <2>1. 0 \in T
    <3>1. n + 0 = n
      BY <1>1
    <3>2. f[n] = f[n] \o <<>>
      BY <2>0, ConcatEmptySeq
    <3> QED BY <3>1, <3>2, <1>g, <1>5, <2>t
  <2>2. ASSUME NEW i \in Nat, i \in T PROVE i + 1 \in T
    <3> DEFINE k == i + 1
               p == n + k
    <3>0. k \in Nat
      OBVIOUS
    <3>1. SUFFICES ASSUME k <= m PROVE h[p] = f[n] \o g[k]
      BY <3>0, <2>t
    <3>2. /\ k \in 1 .. m /\ k - 1 = i /\ i \in 0 .. m /\ i <= m
          /\ p \in 1 .. n + m /\ p - 1 = n + i
      BY <1>1, <3>1
    <3>3. (s \o t)[p] = t[k] /\ t[k] \in W
      BY <3>2, <1>1
    <3> HIDE DEF k, p
    <3>4. h[p] = h[p - 1] \o t[k]
      BY <3>2, <3>3, <1>h
    <3>5. h[n + i] = f[n] \o g[i]
      BY <3>2, <2>2, <2>t
    <3>6. g[k] = g[i] \o t[k] /\ g[i] \in W
      BY <3>2, <1>g
    <3>7. (f[n] \o g[i]) \o t[k] = f[n] \o (g[i] \o t[k])
      <4> DEFINE a == f[n]
                 b == g[i]
                 c == t[k]
      <4>1. a \in Seq(S) /\ b \in Seq(S) /\ c \in Seq(S)
        BY <3>3, <3>6, <2>0 DEF W
      <4> HIDE DEF a, b, c
      <4>2. (a \o b) \o c = a \o (b \o c)
        BY <4>1, ConcatAssociative, SMTT(30)
      <4> QED BY <4>2 DEF a, b, c
    <3> QED BY <3>2, <3>4, <3>5, <3>6, <3>7
  <2>3. Nat \subseteq T
    BY <2>1, <2>2, NatSetInduction
  <2>4. m \in Nat /\ m \in T /\ m <= m
    BY <2>3, <1>1
  <2> QED BY <2>4, <2>t
<1> QED
  BY <1>f, <1>g, <1>h, <1>5, <1>6

\* None and one sequence, flattened.
LEMMA FlattenSmall ==
    /\ FlattenSeq(<<>>) = <<>>
    /\ \A S : \A x \in Seq(S) : FlattenSeq(<<x>>) = x
<1>1. FlattenSeq(<<>>) = <<>>
  BY DEF FlattenSeq
<1>2. ASSUME NEW S, NEW x \in Seq(S) PROVE FlattenSeq(<<x>>) = x
  <2>1. <<x>> \in Seq(Seq(S)) /\ Len(<<x>>) = 1 /\ <<x>>[1] = x
    OBVIOUS
  <2>2. PICK f : Flattens(f, <<x>>, S)
    BY <2>1, FlattenDef
  <2>3. 1 \in 1 .. 1 /\ 1 - 1 = 0
    OBVIOUS
  <2>4. f[1] = f[1 - 1] \o x /\ f[0] = <<>> /\ FlattenSeq(<<x>>) = f[1]
    BY <2>1, <2>2, <2>3 DEF Flattens
  <2> QED BY <2>3, <2>4, ConcatEmptySeq
<1> QED
  BY <1>1, <1>2

\* FlattenSeq has the elements of its parts.
LEMMA FlattenElements ==
    ASSUME NEW S, NEW s \in Seq(Seq(S))
    PROVE  ToSet(FlattenSeq(s)) = UNION {ToSet(s[i]) : i \in 1 .. Len(s)}
<1> DEFINE n == Len(s)
           W == Seq(S)
<1>1. n \in Nat /\ \A i \in 1 .. n : s[i] \in W
  OBVIOUS
<1>2. PICK f : Flattens(f, s, S)
  BY FlattenDef
<1>f. /\ f \in [0 .. n -> W] /\ f[0] = <<>> /\ FlattenSeq(s) = f[n]
      /\ \A i \in 1 .. n : f[i] = f[i - 1] \o s[i]
  BY <1>2 DEF Flattens
<1> HIDE DEF n
<1> DEFINE T == {k \in Nat : k <= n => ToSet(f[k]) = UNION {ToSet(s[i]) : i \in 1 .. k}}
<1>3. 0 \in T
  <2>1. ToSet(<<>>) = {}
    BY DEF ToSet
  <2>2. UNION {ToSet(s[i]) : i \in 1 .. 0} = {}
    OBVIOUS
  <2> QED BY <2>1, <2>2, <1>f
<1>4. ASSUME NEW k \in Nat, k \in T PROVE k + 1 \in T
  <2> DEFINE j == k + 1
  <2>1. SUFFICES ASSUME j <= n PROVE ToSet(f[j]) = UNION {ToSet(s[i]) : i \in 1 .. j}
    OBVIOUS
  <2>2. j \in 1 .. n /\ j - 1 = k /\ k \in 0 .. n /\ 1 .. j = (1 .. k) \union {j}
    BY <1>1, <2>1
  <2> HIDE DEF j
  <2>3. f[j] = f[k] \o s[j] /\ f[k] \in W /\ s[j] \in W
    BY <2>2, <1>1, <1>f
  <2>4. ToSet(f[k] \o s[j]) = ToSet(f[k]) \union ToSet(s[j])
    <3>1. Range(f[k] \o s[j]) = Range(f[k]) \union Range(s[j])
      BY <2>3, RangeConcatenation
    <3> QED BY <3>1 DEF ToSet, Range
  <2>5. ToSet(f[k]) = UNION {ToSet(s[i]) : i \in 1 .. k}
    BY <2>2, <1>1, <1>4
  <2> DEFINE A == UNION {ToSet(s[i]) : i \in 1 .. j}
             B == UNION {ToSet(s[i]) : i \in 1 .. k}
  <2>6. ASSUME NEW x PROVE x \in A <=> x \in B \/ x \in ToSet(s[j])
    <3>1. x \in A <=> \E i \in 1 .. j : x \in ToSet(s[i])
      OBVIOUS
    <3>2. x \in B <=> \E i \in 1 .. k : x \in ToSet(s[i])
      OBVIOUS
    <3> QED BY <3>1, <3>2, <2>2
  <2> HIDE DEF A, B
  <2>7. ToSet(f[j]) = A
    <3>1. ToSet(f[k]) = B
      BY <2>5 DEF B
    <3>2. \A x : x \in ToSet(f[j]) <=> x \in A
      BY <3>1, <2>3, <2>4, <2>6
    <3> QED BY <3>2, Zenon
  <2> QED BY <2>7 DEF j, A
<1>5. Nat \subseteq T
  <2> HIDE DEF T
  <2> QED BY <1>3, <1>4, NatSetInduction
<1> QED
  <2>1. n \in Nat /\ n \in T
    BY <1>5, <1>1
  <2> QED BY <2>1, <1>f DEF n
=============================================================================
