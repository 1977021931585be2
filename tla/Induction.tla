------------------------------ MODULE Induction ------------------------------
(***************************************************************************)
(* What the proofs about walks, stacks and levels need of the natural      *)
(* numbers: a set that is not empty has a least one, hence induction over  *)
(* a set, and a definition by recursion over an interval defines a         *)
(* function, and only one. From these come what sequences that are         *)
(* flattened are made of, and induction over a sequence.                   *)
(***************************************************************************)
EXTENDS Integers, Sequences, SequencesExt, SequenceTheorems, WellFoundedInduction, TLAPS

LEMMA LeastNatural ==
  ASSUME NEW S \in SUBSET Nat, S # {}
  PROVE  \E m \in S : \A k \in S : m <= k
<1> DEFINE less == OpToRel(<, Nat)
<1>1. less = {p \in Nat \X Nat : p[1] < p[2]}
  BY DEF OpToRel
<1>2. IsWellFoundedOn(less, Nat)
  BY NatLessThanWellFounded
<1> HIDE DEF less
<1>3. PICK m \in S : \A k \in S : <<k, m>> \notin less
  BY <1>2, WFMin, Zenon
<1>4. \A k \in S : ~ (k < m)
  BY <1>1, <1>3
<1> QED BY <1>4

(* Induction up to n: what holds of 0 and, when it holds of a number below *)
(* n, of the next one too, holds up to n.                                  *)
LEMMA InductionTo ==
  ASSUME NEW n \in Nat, NEW S, 0 \in S, \A k \in 0..n - 1 : k \in S => k + 1 \in S
  PROVE  0..n \subseteq S
<1> DEFINE T == (0..n) \ S
<1> SUFFICES ASSUME T # {} PROVE FALSE
  OBVIOUS
<1>1. PICK m \in T : \A k \in T : m <= k
  <2>1. T \in SUBSET Nat
    OBVIOUS
  <2> HIDE DEF T
  <2> QED BY <2>1, LeastNatural
<1>2. m \in 0..n /\ m # 0 /\ m - 1 \in 0..n - 1 /\ m - 1 \notin T
  BY <1>1
<1>3. m - 1 \in S /\ (m - 1) + 1 = m
  BY <1>2
<1> QED BY <1>1, <1>2, <1>3

(* Up to n, f goes on from c as step says.                                 *)
Recurs(f, c, step, n) == f[0] = c /\ \A k \in 1..n : f[k] = step[k][f[k - 1]]

(* A recursion from c by step, up to n, defines a function.                *)
LEMMA RecursionExists ==
  ASSUME NEW S, NEW n \in Nat, NEW c \in S, NEW step \in [1..n -> [S -> S]]
  PROVE  \E f \in [0..n -> S] : Recurs(f, c, step, n)
<1> DEFINE Upto(m, f) == Recurs(f, c, step, m)
           Reached == {m \in 0..n : \E f \in [0..m -> S] : Upto(m, f)}
<1>1. 0 \in Reached
  <2> DEFINE f == [k \in 0..0 |-> c]
  <2>1. f \in [0..0 -> S] /\ f[0] = c /\ 1..0 = {}
    OBVIOUS
  <2> HIDE DEF f
  <2>2. Upto(0, f)
    BY <2>1 DEF Recurs
  <2> QED BY <2>1, <2>2
<1>2. ASSUME NEW m \in 0..n - 1, m \in Reached PROVE m + 1 \in Reached
  <2>1. PICK f \in [0..m -> S] : Upto(m, f)
    BY <1>2
  <2> DEFINE v == step[m + 1][f[m]]
             g == [k \in 0..m + 1 |-> IF k = m + 1 THEN v ELSE f[k]]
  <2>2. v \in S
    <3>1. f[m] \in S /\ m + 1 \in 1..n
      BY <2>1
    <3> QED BY <3>1
  <2>3. g \in [0..m + 1 -> S]
    <3> HIDE DEF v
    <3> QED BY <2>1, <2>2
  <2>4. \A k \in 0..m : g[k] = f[k]
    BY <2>1
  <2>5. g[m + 1] = step[m + 1][g[m]]
    <3>1. g[m] = f[m] /\ g[m + 1] = v
      BY <2>4
    <3> QED BY <3>1
  <2>6. \A k \in 1..m : k \in 0..m /\ k - 1 \in 0..m
    OBVIOUS
  <2> HIDE DEF g
  <2>7. ASSUME NEW k \in 1..m + 1 PROVE g[k] = step[k][g[k - 1]]
    <3>1. CASE k = m + 1
      BY <2>5, <3>1
    <3>2. CASE k \in 1..m
      BY <2>1, <2>4, <2>6, <3>2 DEF Recurs
    <3> QED BY <3>1, <3>2
  <2>8. Upto(m + 1, g)
    BY <2>1, <2>4, <2>7 DEF Recurs
  <2>9. m + 1 \in 0..n
    OBVIOUS
  <2> HIDE DEF Upto
  <2> QED BY <2>3, <2>8, <2>9
<1>3. n \in Reached
  <2> HIDE DEF Reached
  <2>1. 0..n \subseteq Reached
    BY <1>1, <1>2, InductionTo
  <2> QED BY <2>1
<1> QED BY <1>3

(* Up to n, f and g begin alike and go on alike.                           *)
Alike(f, g, n) ==
  f[0] = g[0] /\ \A k \in 1..n : f[k - 1] = g[k - 1] => f[k] = g[k]

(* Such functions are the same up to n.                                    *)
LEMMA RecursionUnique ==
  ASSUME NEW n \in Nat, NEW f, NEW g, Alike(f, g, n)
  PROVE  \A k \in 0..n : f[k] = g[k]
<1> DEFINE S == {k \in 0..n : f[k] = g[k]}
<1>1. 0 \in S
  BY DEF Alike
<1>2. ASSUME NEW k \in 0..n - 1, k \in S PROVE k + 1 \in S
  <2>1. k + 1 \in 1..n /\ (k + 1) - 1 = k
    BY <1>2
  <2> QED BY <1>2, <2>1 DEF Alike
<1>3. 0..n \subseteq S
  <2> HIDE DEF S
  <2> QED BY <1>1, <1>2, InductionTo
<1> QED BY <1>3

-----------------------------------------------------------------------------
(* Sequences of sequences                                                  *)

(* Two sequences have, one after the other, the elements of both.          *)
LEMMA ConcatElements ==
  ASSUME NEW S, NEW s \in Seq(S), NEW t \in Seq(S)
  PROVE  s \o t \in Seq(S) /\ ToSet(s \o t) = ToSet(s) \cup ToSet(t)
<1>1. /\ s \o t \in Seq(S) /\ Len(s \o t) = Len(s) + Len(t) /\ Len(s) \in Nat /\ Len(t) \in Nat
      /\ \A i \in 1..Len(s) + Len(t) :
           (s \o t)[i] = IF i <= Len(s) THEN s[i] ELSE t[i - Len(s)]
  BY ConcatProperties
<1>2. DOMAIN (s \o t) = 1..Len(s) + Len(t) /\ DOMAIN s = 1..Len(s) /\ DOMAIN t = 1..Len(t)
  BY <1>1
<1>3. ASSUME NEW x \in ToSet(s \o t) PROVE x \in ToSet(s) \cup ToSet(t)
  <2>1. PICK i \in 1..Len(s) + Len(t) : x = (s \o t)[i]
    BY <1>2 DEF ToSet
  <2>2. CASE i <= Len(s)
    BY <1>1, <1>2, <2>1, <2>2 DEF ToSet
  <2>3. CASE i > Len(s)
    <3>1. i - Len(s) \in 1..Len(t)
      BY <1>1, <2>3
    <3> QED BY <1>1, <1>2, <2>1, <2>3, <3>1 DEF ToSet
  <2> QED BY <1>1, <2>2, <2>3
<1>4. ASSUME NEW x \in ToSet(s) PROVE x \in ToSet(s \o t)
  BY <1>1, <1>2 DEF ToSet
<1>5. ASSUME NEW x \in ToSet(t) PROVE x \in ToSet(s \o t)
  <2>1. PICK i \in 1..Len(t) : x = t[i]
    BY <1>2 DEF ToSet
  <2>2. Len(s) + i \in 1..Len(s) + Len(t) /\ ~ (Len(s) + i <= Len(s)) /\ (Len(s) + i) - Len(s) = i
    BY <1>1
  <2>3. (s \o t)[Len(s) + i] = t[i]
    BY <1>1, <2>2
  <2> QED BY <1>2, <2>1, <2>2, <2>3 DEF ToSet
<1> QED BY <1>1, <1>3, <1>4, <1>5

(* The recursion of FlattenSeq defines a function, which adds one sequence *)
(* after the other.                                                        *)
LEMMA FlattenFacts ==
  ASSUME NEW S, NEW ss \in Seq(Seq(S))
  PROVE  \E f \in [0..Len(ss) -> Seq(S)] :
           /\ f[0] = <<>>
           /\ \A k \in 1..Len(ss) : f[k] = f[k - 1] \o ss[k]
           /\ FlattenSeq(ss) = f[Len(ss)]
<1> DEFINE n == Len(ss)
           T == Seq(S)
           step == [k \in 1..n |-> [v \in T |-> v \o ss[k]]]
           Body(f, k) == IF k = 1 THEN ss[k] ELSE f[k - 1] \o ss[k]
           flatten == CHOOSE f : f = [k \in 1..n |-> Body(f, k)]
<1>1. n \in Nat /\ <<>> \in T /\ DOMAIN ss = 1..n
  BY EmptySeq
<1>2. ASSUME NEW k \in 1..n PROVE ss[k] \in T
  BY <1>2
<1>3. step \in [1..n -> [T -> T]]
  <2>1. ASSUME NEW k \in 1..n, NEW v \in T PROVE v \o ss[k] \in T
    BY <1>2, ConcatProperties
  <2> HIDE DEF T, n
  <2> QED BY <2>1
<1>4. PICK f \in [0..n -> T] : Recurs(f, <<>>, step, n)
  <2> HIDE DEF step, n, T
  <2> QED BY <1>1, <1>3, RecursionExists
<1>5. ASSUME NEW k \in 1..n
      PROVE  f[k - 1] \in T /\ f[k] = f[k - 1] \o ss[k]
  <2> HIDE DEF n, T
  <2>1. k - 1 \in 0..n
    BY <1>1, <1>5
  <2>2. f[k - 1] \in T /\ f[k] = step[k][f[k - 1]]
    BY <2>1, <1>4, <1>5 DEF Recurs
  <2> QED BY <2>2
<1>6. f[0] = <<>>
  BY <1>4 DEF Recurs
<1>7. CASE n = 0
  <2>1. FlattenSeq(ss) = <<>> /\ f[n] = <<>>
    <3>1. ss = <<>>
      BY <1>7
    <3> QED BY <3>1, <1>6, <1>7 DEF FlattenSeq
  <2> QED BY <1>4, <1>5, <1>6, <2>1
<1>8. CASE n # 0
  <2> DEFINE g == [k \in 1..n |-> f[k]]
  <2>1. ASSUME NEW k \in 1..n PROVE g[k] = Body(g, k)
    <3>1. CASE k = 1
      <4>1. f[1] = <<>> \o ss[1] /\ ss[1] \in T
        <5>1. 1 \in 1..n /\ 1 - 1 = 0
          BY <3>1, <2>1
        <5> HIDE DEF T, n
        <5> QED BY <1>2, <1>5, <1>6, <5>1
      <4>2. f[1] = ss[1]
        BY <4>1, ConcatEmptySeq
      <4> QED BY <4>2, <3>1, <2>1
    <3>2. CASE k # 1
      <4>1. k - 1 \in 1..n
        BY <3>2, <2>1, <1>1
      <4> HIDE DEF n
      <4> QED BY <4>1, <3>2, <2>1, <1>5
    <3> QED BY <3>1, <3>2
  <2>2. g = [k \in 1..n |-> Body(g, k)]
    <3>1. g = [k \in 1..n |-> g[k]]
      OBVIOUS
    <3> HIDE DEF g, Body, n
    <3> QED BY <3>1, <2>1
  <2>3. flatten = [k \in 1..n |-> Body(flatten, k)]
    <3> HIDE DEF Body, n, g
    <3> QED BY <2>2
  <2>4. ASSUME NEW k \in 1..n PROVE flatten[k] = Body(flatten, k)
    <3> HIDE DEF Body, n, flatten
    <3> QED BY <2>3
  <2> DEFINE h == [k \in 0..n |-> IF k = 0 THEN <<>> ELSE flatten[k]]
  <2>5. h[0] = f[0] /\ \A k \in 1..n : h[k] = flatten[k]
    BY <1>1, <1>6
  <2>6. ASSUME NEW k \in 1..n, h[k - 1] = f[k - 1] PROVE h[k] = f[k]
    <3>1. f[k] = f[k - 1] \o ss[k]
      BY <1>5
    <3>2. h[k] = Body(flatten, k)
      <4> HIDE DEF h, flatten, Body
      <4> QED BY <2>4, <2>5
    <3>3. CASE k = 1
      <4>1. ss[1] \in T /\ f[1] = <<>> \o ss[1]
        <5>1. 1 \in 1..n /\ 1 - 1 = 0
          BY <3>3
        <5> HIDE DEF T, n, h, flatten
        <5> QED BY <5>1, <1>2, <1>6, <3>1, <3>3
      <4>2. f[1] = ss[1]
        BY <4>1, ConcatEmptySeq
      <4> HIDE DEF h, flatten
      <4> QED BY <3>2, <3>3, <4>2
    <3>4. CASE k # 1
      <4>1. k - 1 \in 1..n /\ h[k] = flatten[k - 1] \o ss[k]
        <5> HIDE DEF h, flatten
        <5> QED BY <3>2, <3>4, <1>1
      <4>2. h[k - 1] = flatten[k - 1]
        <5> HIDE DEF h, flatten
        <5> QED BY <2>5, <4>1
      <4> HIDE DEF h, flatten
      <4> QED BY <4>1, <4>2, <3>1, <2>6
    <3> QED BY <3>3, <3>4
  <2>7. \A k \in 0..n : h[k] = f[k]
    <3>1. h[0] = f[0] /\ \A k \in 1..n : h[k - 1] = f[k - 1] => h[k] = f[k]
      <4> HIDE DEF h, n
      <4> QED BY <2>5, <2>6
    <3>2. n \in Nat
      BY <1>1
    <3>3. Alike(h, f, n)
      <4> HIDE DEF h, n
      <4> QED BY <3>1 DEF Alike
    <3> HIDE DEF h, n
    <3> QED BY <3>2, <3>3, RecursionUnique
  <2>8. FlattenSeq(ss) = flatten[n]
    BY <1>8 DEF FlattenSeq
  <2>9. flatten[n] = f[n]
    <3>1. n \in 1..n /\ n \in 0..n
      BY <1>1, <1>8
    <3> HIDE DEF h, n, flatten
    <3> QED BY <3>1, <2>5, <2>7
  <2> QED BY <1>4, <1>5, <1>6, <2>8, <2>9
<1> QED BY <1>7, <1>8

(* What is flattened is a sequence, and one more sequence goes to its end. *)
LEMMA FlattenAppend ==
  ASSUME NEW S, NEW ss \in Seq(Seq(S)), NEW s \in Seq(S)
  PROVE  /\ FlattenSeq(ss) \in Seq(S)
         /\ FlattenSeq(Append(ss, s)) = FlattenSeq(ss) \o s
<1> DEFINE n == Len(ss)
           T == Seq(S)
           tt == Append(ss, s)
<1>1. /\ n \in Nat /\ tt \in Seq(T) /\ Len(tt) = n + 1 /\ tt[n + 1] = s
      /\ \A k \in 1..n : tt[k] = ss[k]
  <2>1. ss \in Seq(T) /\ s \in T
    OBVIOUS
  <2> HIDE DEF T
  <2> QED BY <2>1, AppendProperties
<1> HIDE DEF tt
<1>2. PICK f \in [0..n -> T] :
        /\ f[0] = <<>> /\ FlattenSeq(ss) = f[n]
        /\ \A k \in 1..n : f[k] = f[k - 1] \o ss[k]
  BY FlattenFacts
<1>0. PICK g \in [0..Len(tt) -> T] :
        /\ g[0] = <<>>
        /\ \A k \in 1..Len(tt) : g[k] = g[k - 1] \o tt[k]
        /\ FlattenSeq(tt) = g[Len(tt)]
  BY <1>1, FlattenFacts
<1>3. /\ g[0] = <<>> /\ FlattenSeq(tt) = g[n + 1]
      /\ \A k \in 1..n + 1 : g[k] = g[k - 1] \o tt[k]
  BY <1>0, <1>1
<1>4. \A k \in 0..n : g[k] = f[k]
  <2>1. f[0] = g[0]
    BY <1>2, <1>3
  <2>2. \A k \in 1..n : f[k - 1] = g[k - 1] => f[k] = g[k]
    <3>1. \A k \in 1..n : k \in 1..n + 1
      BY <1>1
    <3> HIDE DEF n, T
    <3> QED BY <1>1, <1>2, <1>3, <3>1
  <2>3. n \in Nat
    BY <1>1
  <2>4. Alike(f, g, n)
    BY <2>1, <2>2 DEF Alike
  <2>5. \A k \in 0..n : f[k] = g[k]
    <3> HIDE DEF n, T
    <3> QED BY <2>3, <2>4, RecursionUnique
  <2> QED BY <2>5
<1>5. n \in 0..n /\ n + 1 \in 1..n + 1 /\ (n + 1) - 1 = n
  BY <1>1
<1> HIDE DEF n, T
<1>6. g[n + 1] = g[n] \o s
  BY <1>1, <1>3, <1>5
<1>7. g[n] = f[n] /\ f[n] \in T
  BY <1>4, <1>5
<1> QED BY <1>2, <1>3, <1>6, <1>7 DEF T, tt

LEMMA FlattenEmpty == FlattenSeq(<<>>) = <<>>
BY DEF FlattenSeq

(* The sequences up to k.                                                  *)
UpTo(ss, k) == SubSeq(ss, 1, k)

LEMMA UpToNext ==
  ASSUME NEW S, NEW ss \in Seq(S)
  PROVE  /\ UpTo(ss, 0) = <<>> /\ UpTo(ss, Len(ss)) = ss
         /\ \A k \in 0..Len(ss) : UpTo(ss, k) \in Seq(S) /\ Len(UpTo(ss, k)) = k
         /\ \A k \in 0..Len(ss) - 1 : UpTo(ss, k + 1) = Append(UpTo(ss, k), ss[k + 1])
<1>1. Len(ss) \in Nat
  OBVIOUS
<1>2. UpTo(ss, 0) = <<>>
  BY DEF UpTo
<1>3. UpTo(ss, Len(ss)) = ss
  BY SubSeqFull DEF UpTo
<1>4. ASSUME NEW k \in 0..Len(ss)
      PROVE  UpTo(ss, k) \in Seq(S) /\ Len(UpTo(ss, k)) = k
  <2>1. \A i \in 1..k : ss[i] \in S
    BY <1>1
  <2>2. SubSeq(ss, 1, k) \in Seq(S) /\ Len(SubSeq(ss, 1, k)) = IF 1 <= k THEN k - 1 + 1 ELSE 0
    BY <2>1, SubSeqProperties
  <2> QED BY <2>2 DEF UpTo
<1>5. ASSUME NEW k \in 0..Len(ss) - 1
      PROVE  UpTo(ss, k + 1) = Append(UpTo(ss, k), ss[k + 1])
  <2>1. k + 1 \in 1..Len(ss) /\ 1 \in 1..Len(ss) /\ (k + 1) - 1 = k /\ k \in 0..Len(ss)
        /\ k + 1 \in 1..Len(ss)
    BY <1>1
  <2>2. SubSeq(ss, 1, k + 1) = SubSeq(ss, 1, k) \o <<ss[k + 1]>>
    <3>1. SubSeq(ss, 1, k + 1) = SubSeq(ss, 1, (k + 1) - 1) \o <<ss[k + 1]>>
      BY <2>1, SubSeqRecursiveSecond
    <3> QED BY <3>1, <2>1
  <2>3. SubSeq(ss, 1, k) \in Seq(S) /\ ss[k + 1] \in S
    BY <1>4, <2>1 DEF UpTo
  <2>4. Append(SubSeq(ss, 1, k), ss[k + 1]) = SubSeq(ss, 1, k) \o <<ss[k + 1]>>
    BY <2>3, AppendIsConcat
  <2> QED BY <2>2, <2>4 DEF UpTo
<1> QED BY <1>2, <1>3, <1>4, <1>5

(* What holds of nothing, and of a sequence with one more element when it  *)
(* holds of the sequence, holds of all of them.                            *)
LEMMA SequenceInduction ==
  ASSUME NEW S, NEW ss \in Seq(S), NEW Good,
         <<>> \in Good,
         \A k \in 0..Len(ss) - 1 : UpTo(ss, k) \in Good => Append(UpTo(ss, k), ss[k + 1]) \in Good
  PROVE  ss \in Good
<1> DEFINE K == {k \in 0..Len(ss) : UpTo(ss, k) \in Good}
<1>1. Len(ss) \in Nat
  OBVIOUS
<1>2. 0 \in K
  BY <1>1, UpToNext
<1>3. ASSUME NEW k \in 0..Len(ss) - 1, k \in K PROVE k + 1 \in K
  <2>1. UpTo(ss, k + 1) \in Good
    BY <1>3, UpToNext
  <2>2. k + 1 \in 0..Len(ss)
    BY <1>1
  <2> QED BY <2>1, <2>2
<1>4. 0..Len(ss) \subseteq K
  <2> HIDE DEF K
  <2> QED BY <1>1, <1>2, <1>3, InductionTo
<1>5. Len(ss) \in K
  BY <1>1, <1>4
<1> QED BY <1>5, UpToNext

(* The elements of what is flattened are those of its sequences.           *)
LEMMA FlattenElements ==
  ASSUME NEW S, NEW ss \in Seq(Seq(S))
  PROVE  /\ FlattenSeq(ss) \in Seq(S)
         /\ \A x : x \in ToSet(FlattenSeq(ss)) <=> \E k \in DOMAIN ss : x \in ToSet(ss[k])
<1> DEFINE T == Seq(S)
           Has(tt) == \A x : x \in ToSet(FlattenSeq(tt)) <=> \E k \in DOMAIN tt : x \in ToSet(tt[k])
           Good == {tt \in Seq(T) : FlattenSeq(tt) \in Seq(S) /\ Has(tt)}
<1>1. <<>> \in Good
  <2>1. <<>> \in Seq(T) /\ <<>> \in Seq(S) /\ DOMAIN <<>> = {}
    OBVIOUS
  <2> QED BY <2>1, FlattenEmpty DEF ToSet
<1>2. ASSUME NEW k \in 0..Len(ss) - 1, UpTo(ss, k) \in Good
      PROVE  Append(UpTo(ss, k), ss[k + 1]) \in Good
  <2> DEFINE tt == UpTo(ss, k)  s == ss[k + 1]  uu == Append(tt, s)
  <2>1. tt \in Seq(T) /\ s \in T
    BY <1>2
  <2>6. Has(tt)
    BY <1>2
  <2> HIDE DEF tt, s
  <2>2. FlattenSeq(tt) \in Seq(S) /\ FlattenSeq(uu) = FlattenSeq(tt) \o s
    BY <2>1, FlattenAppend
  <2>3. FlattenSeq(uu) \in Seq(S) /\ ToSet(FlattenSeq(uu)) = ToSet(FlattenSeq(tt)) \cup ToSet(s)
    BY <2>1, <2>2, ConcatElements
  <2>4. uu \in Seq(T) /\ Len(uu) = Len(tt) + 1 /\ Len(tt) \in Nat
        /\ uu[Len(tt) + 1] = s /\ \A i \in 1..Len(tt) : uu[i] = tt[i]
    <3> HIDE DEF T
    <3> QED BY <2>1, AppendProperties
  <2>5. DOMAIN uu = DOMAIN tt \cup {Len(tt) + 1} /\ DOMAIN tt = 1..Len(tt)
    BY <2>1, <2>4
  <2> HIDE DEF uu, T
  <2>7. Has(uu)
    <3>1. ASSUME NEW x PROVE x \in ToSet(FlattenSeq(uu)) <=> x \in ToSet(FlattenSeq(tt)) \/ x \in ToSet(s)
      BY <2>3
    <3>2. ASSUME NEW x
          PROVE  (\E i \in DOMAIN uu : x \in ToSet(uu[i])) <=>
                 (\E i \in DOMAIN tt : x \in ToSet(tt[i])) \/ x \in ToSet(s)
      BY <2>4, <2>5
    <3> QED BY <2>6, <3>1, <3>2
  <2> QED BY <2>3, <2>4, <2>7 DEF tt, s, uu
<1>3. ss \in Good
  <2>1. ss \in Seq(T)
    OBVIOUS
  <2> HIDE DEF Good, T
  <2> QED BY <1>1, <1>2, <2>1, SequenceInduction, Zenon
<1> QED BY <1>3

=============================================================================
