--------------------------- MODULE CutJob_proofs ---------------------------
(***************************************************************************)
(* What holds of CutJob for all pages: every sheet that is laid out can be *)
(* read by the cutter's sensor, its artwork lies under none of its marks,  *)
(* and its program stays between them; every line that the page wants cut  *)
(* is drawn exactly once, where it is printed; and what is drawn for a     *)
(* curve follows it.                                                       *)
(***************************************************************************)
EXTENDS CutJob, Induction, FiniteSetTheorems, SequenceTheorems, TLAPS

-----------------------------------------------------------------------------
(* Numbers                                                                 *)

(* Division with the divisor that RoundDiv is given.                       *)
LEMMA Division ==
  ASSUME NEW v \in Int, NEW u \in Nat \ {0}
  PROVE  /\ v \div u \in Int /\ v % u \in 0..u - 1
         /\ v = u * (v \div u) + (v % u)
OBVIOUS

(* The larger of two numbers has no smaller quotient.                      *)
LEMMA DivMonotone ==
  ASSUME NEW a \in Int, NEW b \in Int, a <= b, NEW u \in Nat \ {0}
  PROVE  a \div u <= b \div u
<1> DEFINE q == a \div u  r == b \div u
<1>1. q \in Int /\ r \in Int /\ a % u \in 0..u - 1 /\ b % u \in 0..u - 1
  BY Division
<1>2. a = u * q + (a % u) /\ b = u * r + (b % u)
  BY Division
<1>3. SUFFICES ASSUME q >= r + 1 PROVE FALSE
  BY <1>1
<1>4. u * q >= u * (r + 1)
  <2> HIDE DEF q, r
  <2> QED BY <1>1, <1>3
<1>5. u * (r + 1) = u * r + u
  <2> HIDE DEF q, r
  <2> QED BY <1>1
<1>6. u * q \in Int /\ u * r \in Int
  BY <1>1
<1> HIDE DEF q, r
<1> QED BY <1>1, <1>2, <1>4, <1>5, <1>6

LEMMA RoundDivFacts ==
  ASSUME NEW u \in Nat \ {0}
  PROVE  /\ \A v \in Int : RoundDiv(v, u) \in Int
         /\ \A a, b \in Int : a <= b => RoundDiv(a, u) <= RoundDiv(b, u)
         /\ RoundDiv(0, u) = 0
<1>1. \A v \in Int : RoundDiv(v, u) \in Int
  BY Division DEF RoundDiv
<1>2. ASSUME NEW a \in Int, NEW b \in Int, a <= b
      PROVE  RoundDiv(a, u) <= RoundDiv(b, u)
  <2> DEFINE q == a \div u  r == b \div u
  <2>1. q \in Int /\ r \in Int /\ q <= r
    BY <1>2, Division, DivMonotone
  <2>2. /\ a % u \in 0..u - 1 /\ b % u \in 0..u - 1
        /\ a = u * q + (a % u) /\ b = u * r + (b % u)
    BY Division
  <2>3. /\ RoundDiv(a, u) \in {q, q + 1}
        /\ RoundDiv(b, u) \in {r, r + 1}
    BY DEF RoundDiv
  <2>4. CASE q < r
    <3> HIDE DEF q, r
    <3> QED BY <2>1, <2>3, <2>4
  <2>5. CASE q = r
    <3>1. a % u <= b % u
      <4>1. u * q = u * r /\ u * q \in Int
        BY <2>1, <2>5
      <4> HIDE DEF q, r
      <4> QED BY <2>2, <4>1, <1>2
    <3>2. RoundDiv(a, u) = q + 1 => RoundDiv(b, u) = r + 1
      <4>1. SUFFICES ASSUME RoundDiv(a, u) = q + 1, RoundDiv(b, u) = r PROVE FALSE
        BY <2>3
      <4>2. ~ (2 * (a % u) < u \/ (2 * (a % u) = u /\ q % 2 = 0))
        BY <4>1, <2>1 DEF RoundDiv
      <4>3. 2 * (b % u) < u \/ (2 * (b % u) = u /\ r % 2 = 0)
        BY <4>1, <2>1 DEF RoundDiv
      <4> QED BY <4>2, <4>3, <3>1, <2>2, <2>5
    <3> HIDE DEF q, r
    <3> QED BY <3>2, <2>1, <2>3, <2>5
  <2> QED BY <2>1, <2>4, <2>5
<1>3. RoundDiv(0, u) = 0
  <2>1. 0 \div u = 0 /\ 0 % u = 0
    OBVIOUS
  <2> QED BY <2>1 DEF RoundDiv
<1> QED BY <1>1, <1>2, <1>3

LEMMA StepsFacts ==
  /\ \A v \in Int : Steps(v) \in Int
  /\ \A a, b \in Int : a <= b => Steps(a) <= Steps(b)
  /\ \A v \in Int : v >= 0 => Steps(v) >= 0
<1>1. UnitsPerStep \in Nat \ {0}
  BY MarkLayoutAssumption
<1>2. ASSUME NEW v \in Int, v >= 0 PROVE RoundDiv(v, UnitsPerStep) >= 0
  <2>1. 0 \in Int /\ v \in Int /\ 0 <= v
    BY <1>2
  <2>2. RoundDiv(0, UnitsPerStep) <= RoundDiv(v, UnitsPerStep)
    BY <1>1, <2>1, RoundDivFacts
  <2>3. RoundDiv(0, UnitsPerStep) = 0 /\ RoundDiv(v, UnitsPerStep) \in Int
    BY <1>1, <2>1, RoundDivFacts
  <2> QED BY <2>2, <2>3
<1> QED BY <1>1, <1>2, RoundDivFacts DEF Steps

(* A set of numbers that is not empty has a least one.                     *)
LEMMA MinOfNats ==
  ASSUME NEW S \in SUBSET Nat, S # {}
  PROVE  Min(S) \in S
<1>1. \E m \in S : \A y \in S : m <= y
  BY LeastNatural
<1> QED BY <1>1 DEF Min

-----------------------------------------------------------------------------
(* Polylines and curves                                                    *)

(* The chords of a polyline, and where they join.                          *)
LEMMA ChordsFacts ==
  ASSUME NEW S, NEW s \in Seq(S)
  PROVE  /\ Chords(s) \in Seq(S \X S)
         /\ Len(Chords(s)) = IF s = <<>> THEN 0 ELSE Len(s) - 1
         /\ DOMAIN Chords(s) = 1..Len(s) - 1
         /\ \A i \in 1..Len(s) - 1 : Chords(s)[i] = <<s[i], s[i + 1]>>
<1>1. Len(s) \in Nat /\ (s = <<>> <=> Len(s) = 0)
  BY EmptySeq
<1>2. \A i \in 1..Len(s) - 1 : <<s[i], s[i + 1]>> \in S \X S
  BY <1>1
<1> DEFINE n == IF s = <<>> THEN 0 ELSE Len(s) - 1
<1>3. n \in Nat /\ 1..Len(s) - 1 = 1..n
  BY <1>1
<1>4. Chords(s) = [i \in 1..n |-> <<s[i], s[i + 1]>>]
  BY <1>3 DEF Chords
<1>5. \A i \in 1..n : <<s[i], s[i + 1]>> \in S \X S
  BY <1>2, <1>3
<1> HIDE DEF n
<1>6. Chords(s) \in Seq(S \X S) /\ Len(Chords(s)) = n
  BY <1>3, <1>4, <1>5
<1> QED BY <1>3, <1>4, <1>6 DEF n

LEMMA ChordsOfOne ==
  ASSUME NEW S, NEW p \in S
  PROVE  Chords(<<p>>) = <<>>
<1> DEFINE s == <<p>>
<1>1. s \in Seq(S) /\ Len(s) = 1 /\ s # <<>>
  OBVIOUS
<1> HIDE DEF s
<1>2. Chords(s) \in Seq(S \X S) /\ Len(Chords(s)) = Len(s) - 1
  BY <1>1, ChordsFacts
<1>3. Len(Chords(s)) = 0
  BY <1>1, <1>2
<1> QED BY <1>2, <1>3, EmptySeq DEF s

LEMMA ChordsOfTwo ==
  ASSUME NEW S, NEW p \in S, NEW q \in S
  PROVE  Chords(<<p, q>>) = <<<<p, q>>>>
<1> DEFINE s == <<p, q>>
<1>1. s \in Seq(S) /\ Len(s) = 2 /\ s # <<>> /\ s[1] = p /\ s[2] = q
  OBVIOUS
<1> HIDE DEF s
<1>2. /\ Chords(s) \in Seq(S \X S) /\ Len(Chords(s)) = Len(s) - 1
      /\ \A i \in 1..Len(s) - 1 : Chords(s)[i] = <<s[i], s[i + 1]>>
  BY <1>1, ChordsFacts
<1>3. Len(Chords(s)) = 1 /\ Chords(s)[1] = <<p, q>>
  <2>1. 1 \in 1..Len(s) - 1 /\ 1 + 1 = 2
    BY <1>1
  <2>2. Chords(s)[1] = <<s[1], s[1 + 1]>>
    BY <1>2, <2>1
  <2> QED BY <1>1, <1>2, <2>1, <2>2
<1> QED BY <1>2, <1>3 DEF s

(* Where a polyline goes on, it draws what it drew, and what comes next    *)
(* from its last point.                                                    *)
LEMMA ChordsJoin ==
  ASSUME NEW S, NEW a \in Seq(S), NEW b \in Seq(S), a # <<>>
  PROVE  Chords(a \o b) = Chords(a) \o Chords(<<Last(a)>> \o b)
<1> DEFINE m == Len(a)  n == Len(b)  c == <<Last(a)>> \o b
<1>1. m \in Nat \ {0} /\ n \in Nat /\ Last(a) = a[m] /\ a[m] \in S
  BY EmptySeq DEF Last
<1>2. /\ a \o b \in Seq(S) /\ Len(a \o b) = m + n
      /\ \A i \in 1..m + n : (a \o b)[i] = IF i <= m THEN a[i] ELSE b[i - m]
  BY ConcatProperties
<1>3. /\ c \in Seq(S) /\ Len(c) = n + 1 /\ c[1] = a[m]
      /\ \A i \in 1..n : c[i + 1] = b[i]
  <2>1. <<Last(a)>> \in Seq(S) /\ Len(<<Last(a)>>) = 1 /\ <<Last(a)>>[1] = a[m]
    BY <1>1
  <2>2. /\ c \in Seq(S) /\ Len(c) = 1 + n
        /\ \A i \in 1..1 + n : c[i] = IF i <= 1 THEN <<Last(a)>>[i] ELSE b[i - 1]
    BY <2>1, ConcatProperties
  <2>3. \A i \in 1..n : i + 1 \in 1..1 + n /\ ~ (i + 1 <= 1) /\ (i + 1) - 1 = i
    BY <1>1
  <2>4. 1 \in 1..1 + n /\ 1 <= 1
    BY <1>1
  <2> HIDE DEF c
  <2> QED BY <2>1, <2>2, <2>3, <2>4, <1>1
<1> HIDE DEF c
<1>4. /\ Chords(a \o b) \in Seq(S \X S) /\ Len(Chords(a \o b)) = m + n - 1
      /\ \A i \in 1..m + n - 1 : Chords(a \o b)[i] = <<(a \o b)[i], (a \o b)[i + 1]>>
  <2> DEFINE e == a \o b
  <2>1. e \in Seq(S) /\ e # <<>> /\ Len(e) = m + n
    BY <1>1, <1>2
  <2> HIDE DEF e, m, n
  <2>2. /\ Chords(e) \in Seq(S \X S) /\ Len(Chords(e)) = Len(e) - 1
        /\ \A i \in 1..Len(e) - 1 : Chords(e)[i] = <<e[i], e[i + 1]>>
    BY <2>1, ChordsFacts
  <2>3. /\ Chords(e) \in Seq(S \X S) /\ Len(Chords(e)) = m + n - 1
        /\ \A i \in 1..m + n - 1 : Chords(e)[i] = <<e[i], e[i + 1]>>
    BY <1>1, <2>1, <2>2
  <2> QED BY <2>3 DEF e
<1>5. /\ Chords(a) \in Seq(S \X S) /\ Len(Chords(a)) = m - 1
      /\ \A i \in 1..m - 1 : Chords(a)[i] = <<a[i], a[i + 1]>>
  BY ChordsFacts
<1>6. /\ Chords(c) \in Seq(S \X S) /\ Len(Chords(c)) = n
      /\ \A i \in 1..n : Chords(c)[i] = <<c[i], c[i + 1]>>
  <2>1. c # <<>>
    BY <1>1, <1>3
  <2>2. (n + 1) - 1 = n
    BY <1>1
  <2>3. c \in Seq(S) /\ Len(c) - 1 = n
    BY <1>3, <2>2
  <2>4. /\ Chords(c) \in Seq(S \X S) /\ Len(Chords(c)) = Len(c) - 1
        /\ \A i \in 1..Len(c) - 1 : Chords(c)[i] = <<c[i], c[i + 1]>>
    BY <2>1, <2>3, ChordsFacts
  <2> HIDE DEF n
  <2> QED BY <2>3, <2>4
<1> DEFINE d == Chords(a) \o Chords(c)
<1>7. /\ d \in Seq(S \X S) /\ Len(d) = m + n - 1
      /\ \A i \in 1..m + n - 1 : d[i] = IF i <= m - 1 THEN Chords(a)[i] ELSE Chords(c)[i - (m - 1)]
  <2>1. /\ d \in Seq(S \X S) /\ Len(d) = (m - 1) + n
        /\ \A i \in 1..(m - 1) + n : d[i] = IF i <= m - 1 THEN Chords(a)[i] ELSE Chords(c)[i - (m - 1)]
    <3> DEFINE u == Chords(a)  v == Chords(c)
    <3>1. u \in Seq(S \X S) /\ v \in Seq(S \X S) /\ Len(u) = m - 1 /\ Len(v) = n
      BY <1>5, <1>6
    <3> HIDE DEF u, v, m, n
    <3>2. /\ u \o v \in Seq(S \X S) /\ Len(u \o v) = Len(u) + Len(v)
          /\ \A i \in 1..Len(u) + Len(v) : (u \o v)[i] = IF i <= Len(u) THEN u[i] ELSE v[i - Len(u)]
      BY <3>1, ConcatProperties
    <3>3. /\ u \o v \in Seq(S \X S) /\ Len(u \o v) = (m - 1) + n
          /\ \A i \in 1..(m - 1) + n : (u \o v)[i] = IF i <= m - 1 THEN u[i] ELSE v[i - (m - 1)]
      BY <3>1, <3>2
    <3> QED BY <3>3 DEF u, v
  <2>2. (m - 1) + n = m + n - 1
    BY <1>1
  <2> HIDE DEF d
  <2> QED BY <2>1, <2>2
<1> HIDE DEF d, m, n
<1>8. ASSUME NEW i \in 1..m + n - 1 PROVE Chords(a \o b)[i] = d[i]
  <2>1. Chords(a \o b)[i] = <<(a \o b)[i], (a \o b)[i + 1]>>
    BY <1>4
  <2>2. CASE i <= m - 1
    <3>1. i \in 1..m - 1 /\ i \in 1..m + n /\ i + 1 \in 1..m + n /\ i <= m /\ i + 1 <= m
      BY <1>1, <2>2
    <3> QED BY <1>2, <1>5, <1>7, <2>1, <2>2, <3>1
  <2>3. CASE i = m
    <3>1. /\ i \in 1..m + n /\ i + 1 \in 1..m + n /\ i <= m /\ ~ (i + 1 <= m) /\ (i + 1) - m = 1
          /\ 1 \in 1..n /\ ~ (i <= m - 1) /\ i - (m - 1) = 1
      BY <1>1, <2>3
    <3>2. (a \o b)[i] = a[m] /\ (a \o b)[i + 1] = b[1]
      BY <1>2, <2>3, <3>1
    <3>3. d[i] = Chords(c)[1] /\ Chords(c)[1] = <<c[1], c[1 + 1]>>
      BY <1>6, <1>7, <3>1
    <3> QED BY <1>3, <2>1, <3>1, <3>2, <3>3
  <2>4. CASE i > m
    <3> DEFINE j == i - m
    <3>1. /\ i \in 1..m + n /\ i + 1 \in 1..m + n /\ ~ (i <= m) /\ ~ (i + 1 <= m) /\ (i + 1) - m = j + 1
          /\ j \in 1..n /\ j + 1 \in 1..n /\ ~ (i <= m - 1) /\ i - (m - 1) = j + 1
      BY <1>1, <2>4
    <3>2. (a \o b)[i] = b[j] /\ (a \o b)[i + 1] = b[j + 1]
      BY <1>2, <3>1
    <3> HIDE DEF j
    <3>3. d[i] = Chords(c)[j + 1] /\ Chords(c)[j + 1] = <<c[j + 1], c[(j + 1) + 1]>>
      BY <1>6, <1>7, <3>1
    <3> QED BY <1>3, <2>1, <3>1, <3>2, <3>3
  <2> QED BY <1>1, <2>2, <2>3, <2>4
<1>9. Chords(a \o b) = d
  BY <1>4, <1>7, <1>8, SeqEqual
<1> QED BY <1>9 DEF d, c

-----------------------------------------------------------------------------
(* Flattening                                                              *)

Quads == Point \X Point \X Point \X Point

(* The polylines from the first to the last point of a curve.              *)
Polylines(q) ==
  {s \in Seq(Point) : Len(s) >= 2 /\ s[1] = q[1] /\ Last(s) = q[4]}

FirstHalf(q) ==
  LET q01 == Middle(q[1], q[2])
      q12 == Middle(q[2], q[3])
      q23 == Middle(q[3], q[4])
      q012 == Middle(q01, q12)
      q123 == Middle(q12, q23)
      mid == Middle(q012, q123)
  IN  <<q[1], q01, q012, mid>>

SecondHalf(q) ==
  LET q01 == Middle(q[1], q[2])
      q12 == Middle(q[2], q[3])
      q23 == Middle(q[3], q[4])
      q012 == Middle(q01, q12)
      q123 == Middle(q12, q23)
      mid == Middle(q012, q123)
  IN  <<mid, q123, q23, q[4]>>

IsFlat(q) == IsNear(q[2], q[1], q[4]) /\ IsNear(q[3], q[1], q[4])

(* Halving gives two curves, of which the second begins where the first    *)
(* has ended.                                                              *)
LEMMA Halves ==
  ASSUME NEW q \in Quads
  PROVE  /\ FirstHalf(q) \in Quads /\ SecondHalf(q) \in Quads
         /\ FirstHalf(q)[1] = q[1] /\ SecondHalf(q)[4] = q[4]
         /\ FirstHalf(q)[4] = SecondHalf(q)[1]
<1>1. ASSUME NEW a \in Point, NEW b \in Point PROVE Middle(a, b) \in Point
  <2>1. a[1] + b[1] \in Int /\ a[2] + b[2] \in Int
    BY DEF Point
  <2>2. \A v \in Int : v \div 2 \in Int
    OBVIOUS
  <2> QED BY <2>1, <2>2 DEF Middle, Point
<1>2. q[1] \in Point /\ q[2] \in Point /\ q[3] \in Point /\ q[4] \in Point
  BY DEF Quads
<1> QED BY <1>1, <1>2 DEF FirstHalf, SecondHalf, Quads

LEMMA ChordIsPolyline ==
  ASSUME NEW q \in Quads
  PROVE  <<q[1], q[4]>> \in Polylines(q)
<1>1. q[1] \in Point /\ q[4] \in Point
  BY DEF Quads
<1> DEFINE s == <<q[1], q[4]>>
<1>2. s \in Seq(Point) /\ Len(s) = 2 /\ s[1] = q[1] /\ s[2] = q[4]
  BY <1>1
<1> QED BY <1>2 DEF Polylines, Last

(* What Join returns: the first sequence but for its last, and the second. *)
LEMMA JoinFacts ==
  ASSUME NEW S, NEW left \in Seq(S), NEW right \in Seq(S), left # <<>>
  PROVE  LET m == Len(left) - 1  n == Len(right)  s == Join(left, right)
         IN  /\ s \in Seq(S) /\ Len(s) = m + n /\ DOMAIN s = 1..m + n
             /\ \A i \in 1..m + n : s[i] = IF i <= m THEN left[i] ELSE right[i - m]
<1> DEFINE front == Front(left)  m == Len(left) - 1  n == Len(right)  s == front \o right
<1>1. front \in Seq(S) /\ Len(front) = m /\ \A i \in 1..m : front[i] = left[i]
  <2>1. front = [i \in 1..m |-> left[i]]
    BY DEF Front
  <2>2. m \in Nat /\ \A i \in 1..m : left[i] \in S
    OBVIOUS
  <2> HIDE DEF m, front
  <2> QED BY <2>1, <2>2
<1>2. n \in Nat /\ m \in Nat
  OBVIOUS
<1> HIDE DEF front, m, n
<1>3. /\ s \in Seq(S) /\ Len(s) = Len(front) + Len(right)
      /\ \A i \in 1..Len(front) + Len(right) :
           s[i] = IF i <= Len(front) THEN front[i] ELSE right[i - Len(front)]
  BY <1>1, ConcatProperties
<1> HIDE DEF s
<1>4. /\ s \in Seq(S) /\ Len(s) = m + n /\ DOMAIN s = 1..m + n
      /\ \A i \in 1..m + n : s[i] = IF i <= m THEN left[i] ELSE right[i - m]
  BY <1>1, <1>2, <1>3 DEF n
<1> QED BY <1>4 DEF s, front, m, n, Join

LEMMA JoinIsPolyline ==
  ASSUME NEW q \in Quads, NEW left \in Polylines(FirstHalf(q)),
         NEW right \in Polylines(SecondHalf(q))
  PROVE  Join(left, right) \in Polylines(q)
<1>1. /\ left \in Seq(Point) /\ Len(left) \in Nat /\ Len(left) >= 2 /\ left[1] = q[1]
      /\ right \in Seq(Point) /\ Len(right) \in Nat /\ Len(right) >= 2 /\ right[Len(right)] = q[4]
  BY Halves DEF Polylines, Last
<1> DEFINE m == Len(left) - 1  n == Len(right)  s == Join(left, right)
<1>2. /\ s \in Seq(Point) /\ Len(s) = m + n
      /\ \A i \in 1..m + n : s[i] = IF i <= m THEN left[i] ELSE right[i - m]
  BY <1>1, JoinFacts
<1>3. 1 \in 1..m + n /\ 1 <= m /\ m + n \in 1..m + n /\ ~ (m + n <= m) /\ (m + n) - m = n
  BY <1>1
<1> HIDE DEF m, s
<1>4. s[1] = q[1] /\ s[m + n] = q[4] /\ Len(s) >= 2
  BY <1>1, <1>2, <1>3 DEF m
<1>5. s \in Polylines(q)
  BY <1>2, <1>4 DEF Polylines, Last
<1> QED BY <1>5 DEF s

(* What FlattenCubic's recursion goes by, at d levels that are left.        *)
Flattening(flat) ==
  /\ \A q \in Quads : flat[0][q] = <<q[1], q[4]>>
  /\ \A d \in 0..FlattenDepth - 1 : \A q \in Quads :
       flat[d + 1][q] = IF IsFlat(q) THEN <<q[1], q[4]>>
                        ELSE Join(flat[d][FirstHalf(q)], flat[d][SecondHalf(q)])

(* FlattenCubic is the last level of such a recursion.                     *)
LEMMA FlattenRecursion ==
  \E flat : /\ Flattening(flat)
            /\ \A q \in Quads : FlattenCubic(q[1], q[2], q[3], q[4]) = flat[FlattenDepth][q]
<1> DEFINE D == FlattenDepth
           P == Seq(Point)
           F == {g \in [Quads -> P] : \A r \in Quads : g[r] \in Polylines(r)}
           Halved(g) == [r \in Quads |->
                           IF IsFlat(r) THEN <<r[1], r[4]>>
                           ELSE Join(g[FirstHalf(r)], g[SecondHalf(r)])]
           c == [r \in Quads |-> <<r[1], r[4]>>]
           step == [k \in 1..D |-> [g \in F |-> Halved(g)]]
           Body(g, d, r) ==
             IF d = 0 \/ IsFlat(r) THEN <<r[1], r[4]>>
             ELSE Join(g[d - 1][FirstHalf(r)], g[d - 1][SecondHalf(r)])
           flat == CHOOSE g : g = [d \in 0..D |-> [r \in Quads |-> Body(g, d, r)]]
<1>1. D \in Nat
  BY PathWalkAssumption
<1>2. c \in F
  <2>1. \A r \in Quads : <<r[1], r[4]>> \in Polylines(r) /\ <<r[1], r[4]>> \in P
    BY ChordIsPolyline DEF Polylines
  <2> QED BY <2>1
<1>3. ASSUME NEW g \in F PROVE Halved(g) \in F
  <2>1. ASSUME NEW r \in Quads
        PROVE  (IF IsFlat(r) THEN <<r[1], r[4]>>
                ELSE Join(g[FirstHalf(r)], g[SecondHalf(r)])) \in Polylines(r)
    <3>1. /\ g[FirstHalf(r)] \in Polylines(FirstHalf(r))
          /\ g[SecondHalf(r)] \in Polylines(SecondHalf(r))
      BY <1>3, Halves
    <3> QED BY <3>1, ChordIsPolyline, JoinIsPolyline
  <2>2. \A r \in Quads : Polylines(r) \subseteq P
    BY DEF Polylines
  <2> QED BY <2>1, <2>2
<1>4. step \in [1..D -> [F -> F]]
  <2> HIDE DEF F, Halved
  <2> QED BY <1>3
<1>5. PICK G \in [0..D -> F] : Recurs(G, c, step, D)
  <2> HIDE DEF F, c, step, D
  <2> QED BY <1>1, <1>2, <1>4, RecursionExists
<1>6. ASSUME NEW d \in 0..D, d # 0 PROVE d - 1 \in 0..D /\ G[d] = Halved(G[d - 1])
  <2>1. d \in 1..D /\ d - 1 \in 0..D
    BY <1>1, <1>6
  <2> HIDE DEF F, D, Halved
  <2>2. G[d] = step[d][G[d - 1]] /\ G[d - 1] \in F
    BY <1>5, <2>1 DEF Recurs
  <2> QED BY <2>1, <2>2
<1>7. ASSUME NEW d \in 0..D PROVE G[d] = [r \in Quads |-> Body(G, d, r)]
  <2>1. CASE d = 0
    BY <1>5, <2>1 DEF Recurs
  <2>2. CASE d # 0
    BY <1>6, <2>2
  <2> QED BY <2>1, <2>2
<1>8. G = [d \in 0..D |-> [r \in Quads |-> Body(G, d, r)]]
  <2> HIDE DEF F, Body, D
  <2> QED BY <1>5, <1>7
<1>9. flat = [d \in 0..D |-> [r \in Quads |-> Body(flat, d, r)]]
  <2> HIDE DEF F, Body, D
  <2> QED BY <1>8
<1>10. ASSUME NEW d \in 0..D, NEW r \in Quads PROVE flat[d][r] = Body(flat, d, r)
  <2>1. flat[d] = [x \in Quads |-> Body(flat, d, x)]
    <3> HIDE DEF flat, Body, D
    <3> QED BY <1>9
  <2> HIDE DEF flat, Body, D
  <2> QED BY <2>1
<1>11. ASSUME NEW r \in Quads PROVE flat[0][r] = <<r[1], r[4]>>
  <2>1. 0 \in 0..D
    BY <1>1
  <2>2. flat[0][r] = Body(flat, 0, r)
    <3> HIDE DEF flat, Body, D
    <3> QED BY <1>10, <2>1
  <2> HIDE DEF flat
  <2> QED BY <2>2
<1>12. ASSUME NEW d \in 0..D - 1, NEW r \in Quads
       PROVE  flat[d + 1][r] = IF IsFlat(r) THEN <<r[1], r[4]>>
                               ELSE Join(flat[d][FirstHalf(r)], flat[d][SecondHalf(r)])
  <2>1. d + 1 \in 0..D /\ d + 1 # 0 /\ (d + 1) - 1 = d
    BY <1>1
  <2>2. flat[d + 1][r] = Body(flat, d + 1, r)
    <3> HIDE DEF flat, Body, D
    <3> QED BY <1>10, <2>1
  <2> HIDE DEF flat
  <2> QED BY <2>1, <2>2
<1>13. Flattening(flat)
  <2> HIDE DEF flat
  <2> QED BY <1>11, <1>12 DEF Flattening
<1>14. ASSUME NEW q \in Quads PROVE FlattenCubic(q[1], q[2], q[3], q[4]) = flat[D][q]
  <2>1. q = <<q[1], q[2], q[3], q[4]>>
    BY DEF Quads
  <2>2. FlattenCubic(q[1], q[2], q[3], q[4]) = flat[D][<<q[1], q[2], q[3], q[4]>>]
    BY DEF FlattenCubic, Quads, FirstHalf, SecondHalf, IsFlat
  <2> HIDE DEF flat, D
  <2> QED BY <2>1, <2>2
<1> HIDE DEF flat
<1> QED BY <1>13, <1>14

(* The recursion gives every curve a polyline from its first to its last   *)
(* point.                                                                  *)
LEMMA FlattenedFromEndToEnd ==
  ASSUME NEW q \in Quads
  PROVE  FlattenCubic(q[1], q[2], q[3], q[4]) \in Polylines(q)
<1>1. PICK flat : /\ Flattening(flat)
                  /\ \A r \in Quads : FlattenCubic(r[1], r[2], r[3], r[4]) = flat[FlattenDepth][r]
  BY FlattenRecursion
<1> DEFINE D == FlattenDepth
           K == {d \in 0..D : \A r \in Quads : flat[d][r] \in Polylines(r)}
<1>2. D \in Nat
  BY PathWalkAssumption
<1>3. 0 \in K
  <2>1. \A r \in Quads : flat[0][r] \in Polylines(r)
    BY <1>1, ChordIsPolyline DEF Flattening
  <2>2. 0 \in 0..D
    BY <1>2
  <2> QED BY <2>1, <2>2
<1>4. ASSUME NEW d \in 0..D - 1, d \in K PROVE d + 1 \in K
  <2>1. ASSUME NEW r \in Quads PROVE flat[d + 1][r] \in Polylines(r)
    <3>1. flat[d + 1][r] = IF IsFlat(r) THEN <<r[1], r[4]>>
                           ELSE Join(flat[d][FirstHalf(r)], flat[d][SecondHalf(r)])
      BY <1>1 DEF Flattening
    <3>2. /\ flat[d][FirstHalf(r)] \in Polylines(FirstHalf(r))
          /\ flat[d][SecondHalf(r)] \in Polylines(SecondHalf(r))
      BY <1>4, Halves
    <3> QED BY <3>1, <3>2, ChordIsPolyline, JoinIsPolyline
  <2> HIDE DEF D
  <2> QED BY <1>2, <2>1
<1>5. D \in K
  <2>1. 0..D \subseteq K
    <3> HIDE DEF K, D
    <3> QED BY <1>2, <1>3, <1>4, InductionTo
  <2> HIDE DEF K
  <2> QED BY <1>2, <2>1
<1> QED BY <1>1, <1>5

-----------------------------------------------------------------------------
(* Near a segment                                                          *)

(* How far a point is from m / n of the way along a vector, both seen from *)
(* where the vector begins, in n-ths and squared.                          *)
Off(x, y, v, w, m, n) ==
  (n * x - m * v) * (n * x - m * v) + (n * y - m * w) * (n * y - m * w)

LEMMA OffExpanded ==
  ASSUME NEW x \in Int, NEW y \in Int, NEW v \in Int, NEW w \in Int,
         NEW m \in Int, NEW n \in Int
  PROVE  Off(x, y, v, w, m, n) =
           n * n * (x * x + y * y) - 2 * n * m * (v * x + w * y) + m * m * (v * v + w * w)
BY SMT DEF Off

(* The product of two lengths, by the cross and the scalar product.        *)
LEMMA Lagrange ==
  ASSUME NEW x \in Int, NEW y \in Int, NEW v \in Int, NEW w \in Int
  PROVE  (v * v + w * w) * (x * x + y * y) =
           (v * y - w * x) * (v * y - w * x) + (v * x + w * y) * (v * x + w * y)
BY SMT

LEMMA Squares == \A x \in Int : x * x >= 0
BY SMT

LEMMA Products == \A x, y \in Int : x >= 0 /\ y >= 0 => x * y >= 0
BY SMT

(* What is larger n times is larger.                                       *)
LEMMA Larger ==
  ASSUME NEW n \in Int, n > 0, NEW a \in Int, NEW b \in Int, n * a <= n * b
  PROVE  a <= b
<1>1. SUFFICES ASSUME a > b PROVE FALSE
  OBVIOUS
<1>2. n * (a - b) > 0
  BY <1>1, SMT
<1> QED BY <1>2, SMT

(* Where the foot of the point is before the beginning, ...                *)
LEMMA BeforeBeginning ==
  ASSUME NEW A \in Int, NEW T \in Int, NEW L \in Int, NEW S \in Int,
         NEW m \in Int, NEW n \in Int, n > 0, m >= 0, L >= 0, T <= 0,
         n * n * A - 2 * n * m * T + m * m * L <= n * n * S
  PROVE  A <= S
<1>1. n * m >= 0 /\ n * n > 0 /\ m * m >= 0
  BY SMT
<1>2. n * m * T <= 0 /\ m * m * L >= 0
  BY <1>1, SMT
<1>3. n * n * A <= n * n * S
  BY <1>2, SMT
<1> QED BY <1>1, <1>3, Larger

LEMMA AfterEnd ==
  ASSUME NEW A \in Int, NEW T \in Int, NEW L \in Int, NEW S \in Int,
         NEW m \in Int, NEW n \in Int, n > 0, m >= 0, m <= n, L >= 0, T >= L,
         n * n * A - 2 * n * m * T + m * m * L <= n * n * S
  PROVE  A - 2 * T + L <= S
<1> DEFINE r == n - m
<1>1. r \in Int /\ r >= 0 /\ m = n - r
  OBVIOUS
<1>2. n * r * (T - L) >= 0 /\ r * r * L >= 0
  <2>1. n * r >= 0 /\ r * r >= 0 /\ T - L >= 0
    BY <1>1, Products
  <2> QED BY <1>1, <2>1, Products
<1> HIDE DEF r
<1>3. n * n * A - 2 * n * m * T + m * m * L =
        n * n * (A - 2 * T + L) + 2 * (n * r * (T - L)) + r * r * L
  BY <1>1, SMT
<1>4. n * n * (A - 2 * T + L) <= n * n * S
  BY <1>1, <1>2, <1>3, SMT
<1>5. n * n > 0
  BY SMT
<1> QED BY <1>4, <1>5, Larger

LEMMA InBetween ==
  ASSUME NEW A \in Int, NEW T \in Int, NEW L \in Int, NEW S \in Int, NEW C \in Int,
         NEW m \in Int, NEW n \in Int, n > 0, L >= 0, L * A = C * C + T * T,
         n * n * A - 2 * n * m * T + m * m * L <= n * n * S
  PROVE  C * C <= S * L
<1>1. L * (n * n * A - 2 * n * m * T + m * m * L) <= L * (n * n * S)
  BY SMT
<1>2. L * (n * n * A - 2 * n * m * T + m * m * L) =
        n * n * (L * A) - 2 * n * m * T * L + m * m * L * L
  BY SMT
<1>3. n * n * (L * A) = n * n * (C * C) + n * n * (T * T)
  BY SMT
<1>4. n * n * (T * T) - 2 * n * m * T * L + m * m * L * L = (n * T - m * L) * (n * T - m * L)
  BY SMT
<1>5. n * n * (C * C) <= n * n * (S * L)
  BY <1>1, <1>2, <1>3, <1>4, Squares, SMT
<1>6. n * n > 0
  BY SMT
<1> QED BY <1>5, <1>6, Larger

(* A point is near a segment if it is near some point of it.               *)
NearIn(p, a, b, m, n) ==
  Off(p[1] - a[1], p[2] - a[2], b[1] - a[1], b[2] - a[2], m, n)
    <= n * n * (Tolerance * Tolerance)

(* The three cases of IsNear, before the segment, past it and beside it,   *)
(* are one: some point of the segment is within the tolerance.             *)
LEMMA NearPoint ==
  ASSUME NEW p \in Point, NEW a \in Point, NEW b \in Point
  PROVE  /\ IsNear(p, a, b) => \E n \in Nat \ {0} : \E m \in 0..n : NearIn(p, a, b, m, n)
         /\ \A n \in Nat \ {0} : \A m \in 0..n : NearIn(p, a, b, m, n) => IsNear(p, a, b)
<1> DEFINE x == p[1] - a[1]  y == p[2] - a[2]  v == b[1] - a[1]  w == b[2] - a[2]
           A == x * x + y * y  T == v * x + w * y  L == v * v + w * w
           C == v * y - w * x  S == Tolerance * Tolerance
<1>1. /\ x \in Int /\ y \in Int /\ v \in Int /\ w \in Int
      /\ b[1] - p[1] = v - x /\ b[2] - p[2] = w - y
  BY DEF Point
<1>2. S \in Int /\ A \in Int /\ T \in Int /\ L \in Int /\ C \in Int
  <2> HIDE DEF x, y, v, w
  <2> QED BY <1>1, PathWalkAssumption
<1>3. L >= 0 /\ (L = 0 => v = 0 /\ w = 0) /\ (L = 0 => T = 0)
  <2> HIDE DEF x, y, v, w
  <2> QED BY <1>1, Squares
<1>4. L * A = C * C + T * T
  <2> HIDE DEF x, y, v, w
  <2> QED BY <1>1, Lagrange
<1>5. /\ Dot(a, b, p) = T /\ Dot(a, b, b) = L /\ Dot(a, p, p) = A /\ Cross(a, b, p) = C
      /\ Dot(b, p, p) = A - 2 * T + L
  <2>1. /\ Dot(a, b, p) = T /\ Dot(a, b, b) = L /\ Dot(a, p, p) = A /\ Cross(a, b, p) = C
    BY DEF Dot, Cross
  <2>2. Dot(b, p, p) = (x - v) * (x - v) + (y - w) * (y - w)
    <3>1. p[1] - b[1] = x - v /\ p[2] - b[2] = y - w
      BY DEF Point
    <3> QED BY <3>1 DEF Dot
  <2> HIDE DEF x, y, v, w
  <2>3. (x - v) * (x - v) + (y - w) * (y - w) = A - 2 * T + L
    BY <1>1, SMT
  <2> QED BY <2>1, <2>2, <2>3
<1>6. IsNear(p, a, b) <=> \/ /\ L = 0 \/ T <= 0
                            /\ A <= S
                         \/ /\ L > 0 /\ T > 0 /\ T >= L
                            /\ A - 2 * T + L <= S
                         \/ /\ L > 0 /\ T > 0 /\ T < L
                            /\ C * C <= S * L
  <2> HIDE DEF A, T, L, C
  <2>1. IsNear(p, a, b) <=> CASE L = 0 \/ T <= 0 -> A <= S
                              [] L > 0 /\ T >= L -> A - 2 * T + L <= S
                              [] OTHER -> C * C <= S * L
    BY <1>5 DEF IsNear
  <2> HIDE DEF S
  <2> QED BY <1>2, <1>3, <2>1
<1>7. ASSUME NEW m \in Int, NEW n \in Int
      PROVE  NearIn(p, a, b, m, n) <=> n * n * A - 2 * n * m * T + m * m * L <= n * n * S
  <2>1. NearIn(p, a, b, m, n) <=> Off(x, y, v, w, m, n) <= n * n * S
    BY DEF NearIn
  <2>2. Off(x, y, v, w, m, n) = n * n * A - 2 * n * m * T + m * m * L
    <3>1. Off(x, y, v, w, m, n) =
            n * n * (x * x + y * y) - 2 * n * m * (v * x + w * y) + m * m * (v * v + w * w)
      <4> HIDE DEF x, y, v, w, A, T, L, C, S
      <4>1. x \in Int /\ y \in Int /\ v \in Int /\ w \in Int /\ m \in Int /\ n \in Int
        BY <1>1, <1>7
      <4> QED BY <4>1, SMT DEF Off
    <3> QED BY <3>1
  <2> HIDE DEF x, y, v, w, A, T, L, S
  <2> QED BY <2>1, <2>2
<1> HIDE DEF x, y, v, w, A, T, L, C, S
<1>8. ASSUME IsNear(p, a, b)
      PROVE  \E n \in Nat \ {0} : \E m \in 0..n : NearIn(p, a, b, m, n)
  <2>1. CASE (L = 0 \/ T <= 0) /\ A <= S
    <3>1. 1 * 1 * A - 2 * 1 * 0 * T + 0 * 0 * L <= 1 * 1 * S
      BY <1>2, <2>1
    <3>2. NearIn(p, a, b, 0, 1)
      BY <1>7, <3>1
    <3> QED BY <3>2
  <2>2. CASE L > 0 /\ T > 0 /\ T >= L /\ A - 2 * T + L <= S
    <3>1. 1 * 1 * A - 2 * 1 * 1 * T + 1 * 1 * L <= 1 * 1 * S
      BY <1>2, <2>2
    <3>2. NearIn(p, a, b, 1, 1)
      BY <1>7, <3>1
    <3> QED BY <3>2
  <2>3. CASE L > 0 /\ T > 0 /\ T < L /\ C * C <= S * L
    <3>1. L * L * A - 2 * L * T * T + T * T * L = L * (L * A - T * T)
      BY <1>2, SMT
    <3>2. L * L * A - 2 * L * T * T + T * T * L = L * (C * C)
      BY <1>2, <1>4, <3>1
    <3>3. L * (C * C) <= L * (S * L)
      BY <1>2, <2>3, SMT
    <3>4. L * (S * L) = L * L * S
      BY <1>2, SMT
    <3>5. L * L * A - 2 * L * T * T + T * T * L <= L * L * S
      BY <1>2, <3>2, <3>3, <3>4
    <3>6. NearIn(p, a, b, T, L)
      BY <1>2, <1>7, <3>5
    <3>7. L \in Nat \ {0} /\ T \in 0..L
      BY <1>2, <2>3
    <3> QED BY <3>6, <3>7
  <2> QED BY <1>6, <1>8, <2>1, <2>2, <2>3
<1>9. ASSUME NEW n \in Nat \ {0}, NEW m \in 0..n, NearIn(p, a, b, m, n)
      PROVE  IsNear(p, a, b)
  <2>1. /\ n * n * A - 2 * n * m * T + m * m * L <= n * n * S
        /\ n \in Int /\ m \in Int /\ n > 0 /\ m >= 0 /\ m <= n
    BY <1>7, <1>9
  <2>2. CASE T <= 0
    <3>1. A <= S
      BY <1>2, <1>3, <2>1, <2>2, BeforeBeginning, Zenon
    <3> QED BY <1>2, <1>6, <2>2, <3>1
  <2>3. CASE T > 0 /\ T >= L
    <3>1. A - 2 * T + L <= S
      BY <1>2, <1>3, <2>1, <2>3, AfterEnd, Zenon
    <3>2. L > 0 \/ (L = 0 /\ T = 0)
      BY <1>2, <1>3
    <3> QED BY <1>2, <1>6, <2>3, <3>1, <3>2
  <2>4. CASE T > 0 /\ T < L
    BY <1>2, <1>3, <1>4, <1>6, <2>1, <2>4, InBetween
  <2> QED BY <1>2, <2>2, <2>3, <2>4
<1> QED BY <1>8, <1>9

-----------------------------------------------------------------------------
(* The points of a curve                                                   *)

(* The sum that makes a curve's point of the coordinates of its four.      *)
Bern(a, b, c, d, j, k) ==
  j * j * j * a + 3 * j * j * k * b + 3 * j * k * k * c + k * k * k * d

LEMMA BernInt ==
  ASSUME NEW a \in Int, NEW b \in Int, NEW c \in Int, NEW d \in Int,
         NEW j \in Int, NEW k \in Int
  PROVE  Bern(a, b, c, d, j, k) \in Int
BY DEF Bern

LEMMA Halved2 == \A v \in Int : (2 * v) \div 2 = v
OBVIOUS

LEMMA DividesOut ==
  ASSUME NEW m \in Int, m > 0, NEW v \in Int
  PROVE  (m * v) \div m = v
<1>1. m * v = v * m + 0 /\ v * m \in Int
  BY SMT
<1> QED BY <1>1, SMT

(* A curve whose points lie on a grid of n cubed: the halves of its        *)
(* halves have whole coordinates, down to n parts.                         *)
GridOf(q, n, o, u) ==
  \A i \in 1..4 : \A c \in 1..2 : q[i][c] = o[c] + (n * n * n) * u[i][c]
OnGrid(q, n) ==
  \E o \in Point : \E u \in [1..4 -> Point] : GridOf(q, n, o, u)

Along(q, c, j, k) == Bern(q[1][c], q[2][c], q[3][c], q[4][c], j, k)

LEMMA Cubes ==
  ASSUME NEW n \in Nat \ {0}
  PROVE  n * n * n \in Int /\ n * n * n > 0
<1>1. n * n \in Int /\ n * n > 0
  BY SMT
<1> QED BY <1>1, SMT

(* The division by n cubed has no remainder on the grid.                   *)
LEMMA GridPoint ==
  ASSUME NEW q \in Quads, NEW n \in Nat \ {0}, NEW o \in Point, NEW u \in [1..4 -> Point],
         GridOf(q, n, o, u), NEW k \in 0..n
  PROVE  /\ OnCurve(q, k, n) = <<o[1] + Along(u, 1, n - k, k), o[2] + Along(u, 2, n - k, k)>>
         /\ \A c \in 1..2 : (n * n * n) * OnCurve(q, k, n)[c] = Along(q, c, n - k, k)
<1> DEFINE m == n * n * n
           p == OnCurve(q, k, n)
<1>1. m \in Int /\ m > 0 /\ n - k \in Int /\ k \in Int /\ (n - k) + k = n
  BY Cubes
<1>2. ASSUME NEW c \in 1..2
      PROVE  /\ Along(u, c, n - k, k) \in Int /\ o[c] \in Int
             /\ Along(q, c, n - k, k) = m * (o[c] + Along(u, c, n - k, k))
  <2>1. /\ u[1][c] \in Int /\ u[2][c] \in Int /\ u[3][c] \in Int /\ u[4][c] \in Int
        /\ o[c] \in Int
    BY <1>2 DEF Point
  <2>2. /\ q[1][c] = o[c] + m * u[1][c] /\ q[2][c] = o[c] + m * u[2][c]
        /\ q[3][c] = o[c] + m * u[3][c] /\ q[4][c] = o[c] + m * u[4][c]
    BY <1>2 DEF GridOf
  <2>3. Along(u, c, n - k, k) \in Int
    BY <1>1, <2>1, BernInt DEF Along
  <2>4. Along(q, c, n - k, k) =
          ((n - k) + k) * ((n - k) + k) * ((n - k) + k) * o[c] + m * Along(u, c, n - k, k)
    <3> HIDE DEF m
    <3>1. m \in Int /\ n - k \in Int /\ k \in Int
      BY <1>1
    <3> DEFINE a == u[1][c]  b == u[2][c]  d == u[3][c]  e == u[4][c]  x == o[c]  j == n - k
    <3>2. a \in Int /\ b \in Int /\ d \in Int /\ e \in Int /\ x \in Int /\ j \in Int
      BY <2>1, <3>1
    <3>3. Along(q, c, n - k, k) = Bern(x + m * a, x + m * b, x + m * d, x + m * e, j, k)
      BY <2>2 DEF Along
    <3>4. Along(u, c, n - k, k) = Bern(a, b, d, e, j, k)
      BY DEF Along
    <3> HIDE DEF a, b, d, e, x, j
    <3>5. Bern(x + m * a, x + m * b, x + m * d, x + m * e, j, k) =
            (j + k) * (j + k) * (j + k) * x + m * Bern(a, b, d, e, j, k)
      BY <3>1, <3>2, SMT DEF Bern
    <3> QED BY <3>3, <3>4, <3>5 DEF x, j
  <2>5. ((n - k) + k) * ((n - k) + k) * ((n - k) + k) * o[c] = m * o[c]
    BY <1>1
  <2> HIDE DEF m
  <2>6. m * o[c] + m * Along(u, c, n - k, k) = m * (o[c] + Along(u, c, n - k, k))
    BY <1>1, <2>1, <2>3, SMT
  <2> QED BY <2>1, <2>3, <2>4, <2>5, <2>6
<1>3. p = <<Along(q, 1, n - k, k) \div m, Along(q, 2, n - k, k) \div m>>
  BY DEF OnCurve, Along, Bern
<1> HIDE DEF m, p
<1>4. ASSUME NEW c \in 1..2
      PROVE  Along(q, c, n - k, k) \div m = o[c] + Along(u, c, n - k, k)
  <2>1. o[c] + Along(u, c, n - k, k) \in Int
    BY <1>2
  <2> QED BY <1>1, <1>2, <2>1, DividesOut
<1>5. p = <<o[1] + Along(u, 1, n - k, k), o[2] + Along(u, 2, n - k, k)>>
  BY <1>3, <1>4
<1>6. \A c \in 1..2 : m * p[c] = Along(q, c, n - k, k)
  BY <1>2, <1>5
<1> QED BY <1>5, <1>6 DEF m, p

(* A curve begins at its first point and ends at its fourth.               *)
LEMMA GridEnds ==
  ASSUME NEW q \in Quads, NEW n \in Nat \ {0}, OnGrid(q, n)
  PROVE  /\ \A k \in 0..n : OnCurve(q, k, n) \in Point
         /\ OnCurve(q, 0, n) = q[1] /\ OnCurve(q, n, n) = q[4]
<1>1. PICK o \in Point, u \in [1..4 -> Point] : GridOf(q, n, o, u)
  BY DEF OnGrid
<1>2. ASSUME NEW c \in 1..2, NEW k \in 0..n PROVE o[c] \in Int /\ Along(u, c, n - k, k) \in Int
  <2>1. /\ u[1][c] \in Int /\ u[2][c] \in Int /\ u[3][c] \in Int /\ u[4][c] \in Int
        /\ o[c] \in Int /\ n - k \in Int /\ k \in Int
    BY <1>2 DEF Point
  <2> QED BY <2>1, BernInt DEF Along
<1>3. ASSUME NEW k \in 0..n PROVE OnCurve(q, k, n) \in Point
  <2>1. OnCurve(q, k, n) = <<o[1] + Along(u, 1, n - k, k), o[2] + Along(u, 2, n - k, k)>>
    BY <1>1, GridPoint
  <2> QED BY <1>2, <2>1 DEF Point
<1>4. ASSUME NEW c \in 1..2
      PROVE  /\ q[1][c] = o[c] + Along(u, c, n - 0, 0)
             /\ q[4][c] = o[c] + Along(u, c, n - n, n)
  <2>1. /\ u[1][c] \in Int /\ u[2][c] \in Int /\ u[3][c] \in Int /\ u[4][c] \in Int
        /\ o[c] \in Int
    BY <1>4 DEF Point
  <2>2. n - 0 = n /\ n - n = 0
    OBVIOUS
  <2>3. /\ Along(u, c, n, 0) = n * n * n * u[1][c]
        /\ Along(u, c, 0, n) = n * n * n * u[4][c]
    BY <2>1, SMT DEF Along, Bern
  <2> QED BY <1>1, <1>4, <2>2, <2>3 DEF GridOf
<1>5. 0 \in 0..n /\ n \in 0..n
  OBVIOUS
<1>6. /\ OnCurve(q, 0, n) = <<o[1] + Along(u, 1, n - 0, 0), o[2] + Along(u, 2, n - 0, 0)>>
      /\ OnCurve(q, n, n) = <<o[1] + Along(u, 1, n - n, n), o[2] + Along(u, 2, n - n, n)>>
  BY <1>1, <1>5, GridPoint
<1>7. q[1] = <<q[1][1], q[1][2]>> /\ q[4] = <<q[4][1], q[4][2]>>
  BY DEF Quads, Point
<1> QED BY <1>3, <1>4, <1>6, <1>7

(* What the model assumes of a page's curves.                              *)
LEMMA ExactIsOnGrid ==
  ASSUME NEW q \in Quads, Finest \in Nat \ {0}, IsExact(q)
  PROVE  OnGrid(q, Finest)
<1> DEFINE m == Finest * Finest * Finest
           u == [i \in 1..4 |-> <<(q[i][1] - q[1][1]) \div m, (q[i][2] - q[1][2]) \div m>>]
<1>1. m \in Int /\ m > 0
  BY Cubes
<1>2. ASSUME NEW i \in 1..4, NEW c \in 1..2
      PROVE  /\ q[i][c] \in Int /\ q[1][c] \in Int
             /\ (q[i][c] - q[1][c]) % m = 0
  <2>1. q[i] \in Point /\ q[1] \in Point
    BY DEF Quads
  <2> QED BY <2>1 DEF Point, IsExact
<1> HIDE DEF m
<1>3. \A v \in Int : v % m = 0 => v \div m \in Int /\ v = m * (v \div m)
  BY <1>1, Division
<1>4. ASSUME NEW i \in 1..4, NEW c \in 1..2
      PROVE  u[i][c] \in Int /\ q[i][c] = q[1][c] + m * u[i][c]
  <2>1. u[i][c] = (q[i][c] - q[1][c]) \div m
    BY <1>4
  <2> HIDE DEF u
  <2>2. q[i][c] - q[1][c] \in Int
    BY <1>2
  <2>3. u[i][c] \in Int /\ q[i][c] - q[1][c] = m * u[i][c]
    BY <1>2, <1>3, <2>1, <2>2
  <2>4. m * u[i][c] \in Int
    BY <1>1, <2>3
  <2> QED BY <1>2, <2>3, <2>4
<1>5. u \in [1..4 -> Point]
  <2>1. \A i \in 1..4 : u[i] = <<u[i][1], u[i][2]>>
    OBVIOUS
  <2>2. u = [i \in 1..4 |-> u[i]]
    OBVIOUS
  <2> HIDE DEF u
  <2>3. ASSUME NEW i \in 1..4 PROVE u[i] \in Point
    <3>1. u[i][1] \in Int /\ u[i][2] \in Int
      BY <1>4
    <3>2. <<u[i][1], u[i][2]>> \in Int \X Int
      BY <3>1
    <3> QED BY <2>1, <3>2 DEF Point
  <2> QED BY <2>2, <2>3
<1>6. q[1] \in Point
  BY DEF Quads
<1> HIDE DEF u
<1>7. GridOf(q, Finest, q[1], u)
  BY <1>4 DEF GridOf, m
<1> QED BY <1>5, <1>6, <1>7 DEF OnGrid

(* One coordinate of the middles that halve a curve.                       *)
Mid(x, y) == (x + y) \div 2

Multiples(o, m, a, b, c, d, q1, q2, q3, q4) ==
  q1 = o + (8 * m) * a /\ q2 = o + (8 * m) * b /\ q3 = o + (8 * m) * c /\ q4 = o + (8 * m) * d

Middles(o, m, a, b, c, d, q1, q2, q3, q4) ==
  /\ q1 = o + m * (8 * a)
  /\ Mid(q1, q2) = o + m * (4 * (a + b))
  /\ Mid(Mid(q1, q2), Mid(q2, q3)) = o + m * (2 * (a + 2 * b + c))
  /\ Mid(Mid(Mid(q1, q2), Mid(q2, q3)), Mid(Mid(q2, q3), Mid(q3, q4)))
       = o + m * (a + 3 * b + 3 * c + d)
  /\ Mid(Mid(q2, q3), Mid(q3, q4)) = o + m * (2 * (b + 2 * c + d))
  /\ Mid(q3, q4) = o + m * (4 * (c + d))
  /\ q4 = o + m * (8 * d)

LEMMA MiddlesExact ==
  ASSUME NEW o \in Int, NEW m \in Int,
         NEW a \in Int, NEW b \in Int, NEW c \in Int, NEW d \in Int,
         NEW q1, NEW q2, NEW q3, NEW q4,
         Multiples(o, m, a, b, c, d, q1, q2, q3, q4)
  PROVE  Middles(o, m, a, b, c, d, q1, q2, q3, q4)
<1> DEFINE r12 == o + m * (4 * (a + b))  r23 == o + m * (4 * (b + c))
           r34 == o + m * (4 * (c + d))
           r123 == o + m * (2 * (a + 2 * b + c))  r234 == o + m * (2 * (b + 2 * c + d))
           r == o + m * (a + 3 * b + 3 * c + d)
<1>1. /\ q1 + q2 = 2 * r12 /\ q2 + q3 = 2 * r23 /\ q3 + q4 = 2 * r34
      /\ r12 + r23 = 2 * r123 /\ r23 + r34 = 2 * r234 /\ r123 + r234 = 2 * r
  BY SMT DEF Multiples
<1>2. q1 = o + m * (8 * a) /\ q4 = o + m * (8 * d)
  BY SMT DEF Multiples
<1>3. r12 \in Int /\ r23 \in Int /\ r34 \in Int /\ r123 \in Int /\ r234 \in Int /\ r \in Int
  BY SMT
<1> HIDE DEF r12, r23, r34, r123, r234, r
<1>4. /\ Mid(q1, q2) = r12 /\ Mid(q2, q3) = r23 /\ Mid(q3, q4) = r34
      /\ Mid(r12, r23) = r123 /\ Mid(r23, r34) = r234 /\ Mid(r123, r234) = r
  BY <1>1, <1>3, Halved2 DEF Mid
<1>5. /\ Mid(q1, q2) = r12 /\ Mid(Mid(q1, q2), Mid(q2, q3)) = r123
      /\ Mid(Mid(Mid(q1, q2), Mid(q2, q3)), Mid(Mid(q2, q3), Mid(q3, q4))) = r
      /\ Mid(Mid(q2, q3), Mid(q3, q4)) = r234 /\ Mid(q3, q4) = r34
  BY <1>4
<1> QED BY <1>2, <1>5 DEF r12, r123, r, r234, r34, Middles

(* The halves' coordinates are those middles.                              *)
LEMMA HalvesByMiddles ==
  ASSUME NEW q \in Quads, NEW c \in 1..2
  PROVE  LET q1 == q[1][c]  q2 == q[2][c]  q3 == q[3][c]  q4 == q[4][c]
             f == FirstHalf(q)  s == SecondHalf(q)
         IN  /\ f[1][c] = q1 /\ f[2][c] = Mid(q1, q2)
             /\ f[3][c] = Mid(Mid(q1, q2), Mid(q2, q3))
             /\ f[4][c] = Mid(Mid(Mid(q1, q2), Mid(q2, q3)), Mid(Mid(q2, q3), Mid(q3, q4)))
             /\ s[1][c] = f[4][c] /\ s[2][c] = Mid(Mid(q2, q3), Mid(q3, q4))
             /\ s[3][c] = Mid(q3, q4) /\ s[4][c] = q4
<1>1. \A a, b : Middle(a, b)[c] = Mid(a[c], b[c])
  BY DEF Middle, Mid
<1> QED BY <1>1 DEF FirstHalf, SecondHalf

(* The multiples of the grid that the halves of a curve have.              *)
LeftOf(u, c) ==
  <<8 * u[1][c], 4 * (u[1][c] + u[2][c]), 2 * (u[1][c] + 2 * u[2][c] + u[3][c]),
    u[1][c] + 3 * u[2][c] + 3 * u[3][c] + u[4][c]>>
RightOf(u, c) ==
  <<u[1][c] + 3 * u[2][c] + 3 * u[3][c] + u[4][c],
    2 * (u[2][c] + 2 * u[3][c] + u[4][c]), 4 * (u[3][c] + u[4][c]), 8 * u[4][c]>>

(* Halves of a curve on the grid are on the grid of half as many parts,    *)
(* and their points are points of the curve.                               *)
LEMMA GridHalves ==
  ASSUME NEW q \in Quads, NEW p \in Nat \ {0}, NEW n, n = 2 * p, OnGrid(q, n)
  PROVE  /\ OnGrid(FirstHalf(q), p) /\ OnGrid(SecondHalf(q), p)
         /\ \A k \in 0..p : /\ OnCurve(FirstHalf(q), k, p) = OnCurve(q, k, n)
                             /\ OnCurve(SecondHalf(q), k, p) = OnCurve(q, p + k, n)
<1>1. PICK o \in Point, u \in [1..4 -> Point] : GridOf(q, n, o, u)
  BY DEF OnGrid
<1> DEFINE m == p * p * p
           l == [i \in 1..4 |-> <<LeftOf(u, 1)[i], LeftOf(u, 2)[i]>>]
           r == [i \in 1..4 |-> <<RightOf(u, 1)[i], RightOf(u, 2)[i]>>]
           f == FirstHalf(q)
           s == SecondHalf(q)
<1>2. m \in Int /\ n * n * n = 8 * m
  <2>1. m \in Int
    BY Cubes
  <2>2. n * n * n = 8 * (p * p * p)
    BY SMT
  <2> QED BY <2>1, <2>2
<1>3. ASSUME NEW c \in 1..2
      PROVE  /\ u[1][c] \in Int /\ u[2][c] \in Int /\ u[3][c] \in Int /\ u[4][c] \in Int
             /\ o[c] \in Int
  BY <1>3 DEF Point
<1>4. l \in [1..4 -> Point] /\ r \in [1..4 -> Point]
  <2>1. ASSUME NEW c \in 1..2, NEW i \in 1..4 PROVE LeftOf(u, c)[i] \in Int /\ RightOf(u, c)[i] \in Int
    BY <1>3, <2>1 DEF LeftOf, RightOf
  <2> QED BY <2>1 DEF Point
<1>5. ASSUME NEW c \in 1..2, NEW i \in 1..4
      PROVE  l[i][c] = LeftOf(u, c)[i] /\ r[i][c] = RightOf(u, c)[i]
  BY <1>5
<1> HIDE DEF m, l, r
<1>6. ASSUME NEW c \in 1..2
      PROVE  \A i \in 1..4 : /\ f[i][c] = o[c] + m * l[i][c]
                             /\ s[i][c] = o[c] + m * r[i][c]
  <2> DEFINE q1 == q[1][c]  q2 == q[2][c]  q3 == q[3][c]  q4 == q[4][c]
             a == u[1][c]  b == u[2][c]  d == u[3][c]  e == u[4][c]  x == o[c]
  <2>1. a \in Int /\ b \in Int /\ d \in Int /\ e \in Int /\ x \in Int
    BY <1>3
  <2>2. Multiples(x, m, a, b, d, e, q1, q2, q3, q4)
    BY <1>1, <1>2 DEF GridOf, Multiples
  <2>3. /\ f[1][c] = q1 /\ f[2][c] = Mid(q1, q2)
        /\ f[3][c] = Mid(Mid(q1, q2), Mid(q2, q3))
        /\ f[4][c] = Mid(Mid(Mid(q1, q2), Mid(q2, q3)), Mid(Mid(q2, q3), Mid(q3, q4)))
        /\ s[1][c] = f[4][c] /\ s[2][c] = Mid(Mid(q2, q3), Mid(q3, q4))
        /\ s[3][c] = Mid(q3, q4) /\ s[4][c] = q4
    BY HalvesByMiddles
  <2>4. /\ LeftOf(u, c) = <<8 * a, 4 * (a + b), 2 * (a + 2 * b + d), a + 3 * b + 3 * d + e>>
        /\ RightOf(u, c) = <<a + 3 * b + 3 * d + e, 2 * (b + 2 * d + e), 4 * (d + e), 8 * e>>
    BY DEF LeftOf, RightOf
  <2> HIDE DEF q1, q2, q3, q4, a, b, d, e, x, f, s
  <2>5. Middles(x, m, a, b, d, e, q1, q2, q3, q4)
    BY <1>2, <2>1, <2>2, MiddlesExact, Zenon
  <2>6. /\ l[1][c] = 8 * a /\ l[2][c] = 4 * (a + b) /\ l[3][c] = 2 * (a + 2 * b + d)
        /\ l[4][c] = a + 3 * b + 3 * d + e /\ r[1][c] = a + 3 * b + 3 * d + e
        /\ r[2][c] = 2 * (b + 2 * d + e) /\ r[3][c] = 4 * (d + e) /\ r[4][c] = 8 * e
    BY <1>5, <2>4
  <2>7. /\ f[1][c] = x + m * l[1][c] /\ f[2][c] = x + m * l[2][c]
        /\ f[3][c] = x + m * l[3][c] /\ f[4][c] = x + m * l[4][c]
        /\ s[1][c] = x + m * r[1][c] /\ s[2][c] = x + m * r[2][c]
        /\ s[3][c] = x + m * r[3][c] /\ s[4][c] = x + m * r[4][c]
    BY <2>3, <2>5, <2>6, Zenon DEF Middles
  <2>8. \A i \in 1..4 : i = 1 \/ i = 2 \/ i = 3 \/ i = 4
    OBVIOUS
  <2> QED BY <2>7, <2>8, Zenon DEF x
<1>7. GridOf(f, p, o, l) /\ GridOf(s, p, o, r)
  BY <1>6 DEF GridOf, m
<1>8. f \in Quads /\ s \in Quads
  BY Halves
<1> HIDE DEF f, s
<1>9. OnGrid(f, p) /\ OnGrid(s, p)
  BY <1>4, <1>7 DEF OnGrid
<1>10. ASSUME NEW k \in 0..p
       PROVE  OnCurve(f, k, p) = OnCurve(q, k, n) /\ OnCurve(s, k, p) = OnCurve(q, p + k, n)
  <2>1. k \in 0..n /\ p + k \in 0..n /\ n \in Nat \ {0}
    BY <1>10
  <2>2. /\ OnCurve(f, k, p) = <<o[1] + Along(l, 1, p - k, k), o[2] + Along(l, 2, p - k, k)>>
        /\ OnCurve(s, k, p) = <<o[1] + Along(r, 1, p - k, k), o[2] + Along(r, 2, p - k, k)>>
    BY <1>4, <1>7, <1>8, GridPoint
  <2>3. /\ OnCurve(q, k, n) = <<o[1] + Along(u, 1, n - k, k), o[2] + Along(u, 2, n - k, k)>>
        /\ OnCurve(q, p + k, n) =
             <<o[1] + Along(u, 1, n - (p + k), p + k), o[2] + Along(u, 2, n - (p + k), p + k)>>
    BY <1>1, <2>1, GridPoint
  <2>4. ASSUME NEW c \in 1..2
        PROVE  /\ Along(l, c, p - k, k) = Along(u, c, n - k, k)
               /\ Along(r, c, p - k, k) = Along(u, c, n - (p + k), p + k)
    <3> DEFINE a == u[1][c]  b == u[2][c]  d == u[3][c]  e == u[4][c]  j == p - k
    <3>1. a \in Int /\ b \in Int /\ d \in Int /\ e \in Int /\ j \in Int /\ k \in Int
      BY <1>3
    <3>2. n - k = 2 * j + k /\ n - (p + k) = j /\ p + k = 2 * k + j
      OBVIOUS
    <3>3. /\ Along(l, c, p - k, k) =
               Bern(8 * a, 4 * (a + b), 2 * (a + 2 * b + d), a + 3 * b + 3 * d + e, j, k)
          /\ Along(r, c, p - k, k) =
               Bern(a + 3 * b + 3 * d + e, 2 * (b + 2 * d + e), 4 * (d + e), 8 * e, j, k)
      BY <1>5 DEF Along, LeftOf, RightOf
    <3>4. /\ Along(u, c, n - k, k) = Bern(a, b, d, e, n - k, k)
          /\ Along(u, c, n - (p + k), p + k) = Bern(a, b, d, e, n - (p + k), p + k)
      BY DEF Along
    <3> HIDE DEF a, b, d, e, j
    <3>5. Bern(8 * a, 4 * (a + b), 2 * (a + 2 * b + d), a + 3 * b + 3 * d + e, j, k) =
            Bern(a, b, d, e, 2 * j + k, k)
      BY <3>1, SMT DEF Bern
    <3>6. Bern(a + 3 * b + 3 * d + e, 2 * (b + 2 * d + e), 4 * (d + e), 8 * e, j, k) =
            Bern(a, b, d, e, j, 2 * k + j)
      BY <3>1, SMT DEF Bern
    <3> QED BY <3>2, <3>3, <3>4, <3>5, <3>6, Zenon
  <2> QED BY <2>2, <2>3, <2>4
<1> QED BY <1>9, <1>10 DEF f, s

(* Two vectors that are short have a product that is small, ...            *)
Short(x, y, g, S) == x * x + y * y <= g * g * S

LEMMA SmallProduct ==
  ASSUME NEW x \in Int, NEW y \in Int, NEW v \in Int, NEW w \in Int,
         NEW g \in Int, NEW h \in Int, NEW S \in Int, g > 0, h > 0,
         Short(x, y, g, S), Short(v, w, h, S)
  PROVE  x * v + y * w <= g * h * S
<1> DEFINE E == x * x + y * y  F == v * v + w * w  I == x * v + y * w  G == g * h
<1>1. E \in Int /\ F \in Int /\ I \in Int /\ G \in Int /\ G > 0
  BY SMT
<1>2. h * h * E - 2 * (G * I) + g * g * F >= 0
  <2>1. h * h * E - 2 * (G * I) + g * g * F =
          (h * x - g * v) * (h * x - g * v) + (h * y - g * w) * (h * y - g * w)
    BY SMT
  <2> QED BY <2>1, Squares
<1> HIDE DEF E, F, I
<1>3. h * h * E <= h * h * (g * g * S) /\ g * g * F <= g * g * (h * h * S)
  <2>1. h * h >= 0 /\ g * g >= 0 /\ E <= g * g * S /\ F <= h * h * S
    BY SMT DEF E, F, Short
  <2> QED BY <1>1, <2>1, SMT
<1>4. h * h * (g * g * S) = G * (G * S) /\ g * g * (h * h * S) = G * (G * S)
  BY SMT
<1> HIDE DEF G
<1>5. G * I <= G * (G * S)
  BY <1>1, <1>2, <1>3, <1>4, SMT
<1>6. I <= G * S
  BY <1>1, <1>5, Larger
<1> QED BY <1>6 DEF I, G

(* ... and so their sums are short.                                        *)
Bounded(E, F, I, g, h, S) == E <= g * g * S /\ F <= h * h * S /\ I <= g * h * S
SquareOfSum(a, b, E, F, I) == a * a * E + 2 * (a * b * I) + b * b * F

LEMMA ShortSum ==
  ASSUME NEW E \in Int, NEW F \in Int, NEW I \in Int, NEW S \in Int,
         NEW g \in Int, NEW h \in Int, NEW a \in Int, NEW b \in Int,
         NEW N \in Int, S >= 0, g > 0, h > 0, a >= 0, b >= 0, a * g + b * h <= N,
         Bounded(E, F, I, g, h, S)
  PROVE  SquareOfSum(a, b, E, F, I) <= N * N * S
<1>1. a * a >= 0 /\ b * b >= 0 /\ a * b >= 0 /\ a * g >= 0 /\ b * h >= 0
  BY Products, Squares
<1>2. a * a * E <= a * a * (g * g * S) /\ b * b * F <= b * b * (h * h * S)
      /\ a * b * I <= a * b * (g * h * S)
  BY <1>1, SMT DEF Bounded
<1>3. a * a * (g * g * S) + 2 * (a * b * (g * h * S)) + b * b * (h * h * S) =
        (a * g + b * h) * (a * g + b * h) * S
  BY SMT
<1> DEFINE t == a * g + b * h
<1>4. t \in Int /\ t >= 0 /\ t <= N
  BY <1>1
<1> HIDE DEF t
<1>5. t * t <= N * N
  BY <1>4, SMT
<1>6. t * t * S <= N * N * S
  <2>1. t * t \in Int /\ N * N \in Int
    BY <1>4
  <2> QED BY <1>5, <2>1, SMT
<1> QED BY <1>2, <1>3, <1>6 DEF t, SquareOfSum

(* What lies between points that are near a segment, and its ends, is near *)
(* it too: W times the vector to it is a sum of the vectors to them.       *)
Mean(x, x1, x2, x3, a, b, c, W) == W * x = a * x1 + b * x2 + c * x3
OffBy(x, y, v, w, m, n, S) == Off(x, y, v, w, m, n) <= n * n * S

LEMMA NearBetween ==
  ASSUME NEW x \in Int, NEW y \in Int, NEW x1 \in Int, NEW y1 \in Int,
         NEW x2 \in Int, NEW y2 \in Int, NEW v \in Int, NEW w \in Int,
         NEW a \in Nat, NEW b \in Nat, NEW c \in Nat, NEW W \in Nat \ {0}, a + b + c <= W,
         Mean(x, x1, x2, v, a, b, c, W), Mean(y, y1, y2, w, a, b, c, W),
         NEW n1 \in Nat \ {0}, NEW m1 \in 0..n1, NEW n2 \in Nat \ {0}, NEW m2 \in 0..n2,
         NEW S \in Nat,
         OffBy(x1, y1, v, w, m1, n1, S), OffBy(x2, y2, v, w, m2, n2, S)
  PROVE  \E N \in Nat \ {0} : \E M \in 0..N : OffBy(x, y, v, w, M, N, S)
<1> DEFINE ex == n1 * x1 - m1 * v  ey == n1 * y1 - m1 * w
           fx == n2 * x2 - m2 * v  fy == n2 * y2 - m2 * w
           A == a * n2  B == b * n1  G == n1 * n2
           N == W * G
           M == a * (m1 * n2) + b * (m2 * n1) + c * G
<1>1. /\ ex \in Int /\ ey \in Int /\ fx \in Int /\ fy \in Int
      /\ A \in Int /\ B \in Int /\ G \in Int /\ G > 0 /\ A >= 0 /\ B >= 0
  <2>1. ex \in Int /\ ey \in Int /\ fx \in Int /\ fy \in Int /\ A \in Int /\ B \in Int /\ G \in Int
    OBVIOUS
  <2>2. G > 0
    BY SMT
  <2> QED BY <2>1, <2>2, Products
<1>2. N \in Int /\ N > 0 /\ M \in Int /\ M >= 0 /\ M <= N
  <2>1. 0 <= m1 * n2 /\ m1 * n2 <= G /\ 0 <= m2 * n1 /\ m2 * n1 <= G
    BY SMT
  <2> DEFINE s == m1 * n2  t == m2 * n1
  <2>2. s \in Int /\ t \in Int
    OBVIOUS
  <2> HIDE DEF s, t, G
  <2>3. /\ a * s >= 0 /\ b * t >= 0 /\ c * G >= 0
        /\ a * (G - s) >= 0 /\ b * (G - t) >= 0 /\ (W - a - b - c) * G >= 0
    <3>1. G - s >= 0 /\ G - t >= 0 /\ W - a - b - c >= 0 /\ s >= 0 /\ t >= 0
      BY <1>1, <2>1, <2>2 DEF s, t
    <3> QED BY <1>1, <2>2, <3>1, Products
  <2>4. W * G > 0
    BY <1>1, SMT
  <2>5. W * G - (a * s + b * t + c * G) =
          a * (G - s) + b * (G - t) + (W - a - b - c) * G
    BY <1>1, <2>2, SMT
  <2>6. M = a * s + b * t + c * G
    BY DEF s, t
  <2>7. a * s \in Int /\ b * t \in Int /\ c * G \in Int /\ W * G \in Int
        /\ a * (G - s) \in Int /\ b * (G - t) \in Int /\ (W - a - b - c) * G \in Int
    BY <1>1, <2>2
  <2> HIDE DEF M
  <2> QED BY <2>3, <2>4, <2>5, <2>6, <2>7
<1>3. /\ N * x - M * v = A * ex + B * fx
      /\ N * y - M * w = A * ey + B * fy
  <2>1. N * x = G * (W * x) /\ N * y = G * (W * y)
    BY SMT
  <2>2. /\ N * x = G * (a * x1 + b * x2 + c * v)
        /\ N * y = G * (a * y1 + b * y2 + c * w)
    BY <2>1 DEF Mean
  <2>3. /\ G * (a * x1 + b * x2 + c * v) - M * v = A * ex + B * fx
        /\ G * (a * y1 + b * y2 + c * w) - M * w = A * ey + B * fy
    BY SMT
  <2> QED BY <2>2, <2>3
<1>4. Short(ex, ey, n1, S) /\ Short(fx, fy, n2, S)
  BY DEF Off, OffBy, Short
<1>5. A * n1 + B * n2 <= N
  <2>1. A * n1 + B * n2 = (a + b) * G
    BY SMT
  <2>2. (W - (a + b)) * G >= 0
    <3>1. W - (a + b) >= 0 /\ W - (a + b) \in Int
      OBVIOUS
    <3> QED BY <1>1, <3>1, Products
  <2>3. (W - (a + b)) * G = W * G - (a + b) * G
    BY SMT
  <2> QED BY <2>1, <2>2, <2>3, <1>1
<1> HIDE DEF ex, ey, fx, fy, A, B, N, M, G
<1>6. ex * fx + ey * fy <= n1 * n2 * S
  <2>1. n1 \in Int /\ n2 \in Int /\ S \in Int /\ n1 > 0 /\ n2 > 0
    OBVIOUS
  <2> QED BY <1>1, <1>4, <2>1, SmallProduct, Zenon
<1> DEFINE E == ex * ex + ey * ey  F == fx * fx + fy * fy  I == ex * fx + ey * fy
<1>7. Off(x, y, v, w, M, N) = SquareOfSum(A, B, E, F, I)
  <2>1. Off(x, y, v, w, M, N) =
          (A * ex + B * fx) * (A * ex + B * fx) + (A * ey + B * fy) * (A * ey + B * fy)
    BY <1>3 DEF Off
  <2>2. (A * ex + B * fx) * (A * ex + B * fx) + (A * ey + B * fy) * (A * ey + B * fy)
          = SquareOfSum(A, B, E, F, I)
    BY <1>1, SMT DEF SquareOfSum
  <2> QED BY <2>1, <2>2
<1>8. E \in Int /\ F \in Int /\ I \in Int
  BY <1>1
<1>9. Bounded(E, F, I, n1, n2, S)
  BY <1>4, <1>6 DEF Bounded, Short
<1> HIDE DEF E, F, I
<1>10. SquareOfSum(A, B, E, F, I) <= N * N * S
  <2>1. n1 \in Int /\ n2 \in Int /\ S \in Int /\ n1 > 0 /\ n2 > 0 /\ S >= 0
    OBVIOUS
  <2> QED BY <1>1, <1>2, <1>5, <1>8, <1>9, <2>1, ShortSum, Zenon
<1>11. N \in Nat \ {0} /\ M \in 0..N
  BY <1>2
<1> QED BY <1>7, <1>10, <1>11 DEF OffBy

(* A curve whose inner points are near its chord is near it all along.     *)
LEMMA FlatIsNear ==
  ASSUME NEW q \in Quads, NEW n \in Nat \ {0}, OnGrid(q, n), IsFlat(q), NEW k \in 0..n
  PROVE  IsNear(OnCurve(q, k, n), q[1], q[4])
<1> DEFINE p == OnCurve(q, k, n)
           j == n - k
           S == Tolerance * Tolerance
           a == 3 * (j * j * k)  b == 3 * (j * k * k)  c == k * k * k  W == n * n * n
           To(z, i) == z[i] - q[1][i]
<1>1. /\ p \in Point /\ q[1] \in Point /\ q[2] \in Point /\ q[3] \in Point /\ q[4] \in Point
      /\ S \in Nat
  <2>1. p \in Point
    BY GridEnds
  <2>2. Tolerance * Tolerance \in Nat
    BY PathWalkAssumption, SMT
  <2> QED BY <2>1, <2>2 DEF Quads
<1>2. \A i \in 1..2 : W * p[i] = Along(q, i, j, k)
  <2>1. PICK o \in Point, u \in [1..4 -> Point] : GridOf(q, n, o, u)
    BY DEF OnGrid
  <2> QED BY <2>1, GridPoint
<1>3. j \in Nat /\ k \in Nat /\ n = j + k
  OBVIOUS
<1> HIDE DEF p, S, j
<1>4. a \in Nat /\ b \in Nat /\ c \in Nat /\ W \in Nat \ {0} /\ a + b + c <= W
  <2>1. j * j * k >= 0 /\ j * k * k >= 0 /\ k * k * k >= 0 /\ j * j * j >= 0
    <3>1. j * j >= 0 /\ j * k >= 0 /\ k * k >= 0 /\ j \in Int /\ k \in Int /\ j >= 0 /\ k >= 0
      BY <1>3, Products
    <3> QED BY <1>3, <3>1, Products
  <2>2. W = j * j * j + a + b + c
    BY <1>3, SMT
  <2>3. W > 0
    BY Cubes
  <2>4. j * j * k \in Int /\ j * k * k \in Int /\ k * k * k \in Int /\ j * j * j \in Int
    BY <1>3
  <2> HIDE DEF W
  <2> QED BY <2>1, <2>2, <2>3, <2>4
<1>5. ASSUME NEW i \in 1..2
      PROVE  /\ W * To(p, i) = a * To(q[2], i) + b * To(q[3], i) + c * To(q[4], i)
             /\ To(p, i) \in Int /\ To(q[2], i) \in Int /\ To(q[3], i) \in Int
             /\ To(q[4], i) \in Int
  <2> DEFINE z == p[i]  z1 == q[1][i]  z2 == q[2][i]  z3 == q[3][i]  z4 == q[4][i]
  <2>1. z \in Int /\ z1 \in Int /\ z2 \in Int /\ z3 \in Int /\ z4 \in Int
    BY <1>1 DEF Point
  <2>2. W * z = Bern(z1, z2, z3, z4, j, k)
    BY <1>2 DEF Along
  <2> HIDE DEF z, z1, z2, z3, z4
  <2>3. W * (z - z1) = Bern(z1, z2, z3, z4, j, k) - W * z1
    BY <1>4, <2>1, <2>2, SMT
  <2>4. Bern(z1, z2, z3, z4, j, k) - W * z1 = a * (z2 - z1) + b * (z3 - z1) + c * (z4 - z1)
    BY <1>3, <2>1, SMT DEF Bern
  <2>5. /\ To(p, i) = z - z1 /\ To(q[2], i) = z2 - z1 /\ To(q[3], i) = z3 - z1
        /\ To(q[4], i) = z4 - z1
    BY DEF z, z1, z2, z3, z4
  <2> HIDE DEF W, a, b, c, To
  <2> QED BY <2>1, <2>3, <2>4, <2>5
<1>6. PICK n1 \in Nat \ {0} : \E m1 \in 0..n1 : NearIn(q[2], q[1], q[4], m1, n1)
  BY <1>1, NearPoint DEF IsFlat
<1>7. PICK m1 \in 0..n1 : NearIn(q[2], q[1], q[4], m1, n1)
  BY <1>6
<1>8. PICK n2 \in Nat \ {0} : \E m2 \in 0..n2 : NearIn(q[3], q[1], q[4], m2, n2)
  BY <1>1, NearPoint DEF IsFlat
<1>9. PICK m2 \in 0..n2 : NearIn(q[3], q[1], q[4], m2, n2)
  BY <1>8
<1>10. /\ OffBy(To(q[2], 1), To(q[2], 2), To(q[4], 1), To(q[4], 2), m1, n1, S)
       /\ OffBy(To(q[3], 1), To(q[3], 2), To(q[4], 1), To(q[4], 2), m2, n2, S)
  BY <1>7, <1>9 DEF NearIn, OffBy, S
<1>12. \A N, M : NearIn(p, q[1], q[4], M, N) <=>
                   OffBy(To(p, 1), To(p, 2), To(q[4], 1), To(q[4], 2), M, N, S)
  BY DEF NearIn, OffBy, S
<1> HIDE DEF a, b, c, W, To
<1>11. \E N \in Nat \ {0} : \E M \in 0..N :
         OffBy(To(p, 1), To(p, 2), To(q[4], 1), To(q[4], 2), M, N, S)
  <2> DEFINE x == To(p, 1)  y == To(p, 2)  x1 == To(q[2], 1)  y1 == To(q[2], 2)
             x2 == To(q[3], 1)  y2 == To(q[3], 2)  v == To(q[4], 1)  w == To(q[4], 2)
  <2>1. /\ x \in Int /\ y \in Int /\ x1 \in Int /\ y1 \in Int /\ x2 \in Int /\ y2 \in Int
        /\ v \in Int /\ w \in Int
        /\ Mean(x, x1, x2, v, a, b, c, W) /\ Mean(y, y1, y2, w, a, b, c, W)
    BY <1>5 DEF Mean
  <2>2. OffBy(x1, y1, v, w, m1, n1, S) /\ OffBy(x2, y2, v, w, m2, n2, S)
    BY <1>10
  <2> HIDE DEF x, y, x1, y1, x2, y2, v, w
  <2>3. \E N \in Nat \ {0} : \E M \in 0..N : OffBy(x, y, v, w, M, N, S)
    BY <1>1, <1>4, <2>1, <2>2, NearBetween, Zenon
  <2> QED BY <2>3 DEF x, y, v, w
<1>13. PICK N \in Nat \ {0} : \E M \in 0..N : NearIn(p, q[1], q[4], M, N)
  BY <1>11, <1>12
<1>14. IsNear(p, q[1], q[4])
  BY <1>1, <1>13, NearPoint
<1> QED BY <1>14 DEF p

LEMMA EndsAreNear ==
  ASSUME NEW a \in Point, NEW b \in Point
  PROVE  IsNear(a, a, b) /\ IsNear(b, a, b)
<1>1. a[1] \in Int /\ a[2] \in Int /\ b[1] \in Int /\ b[2] \in Int
  BY DEF Point
<1>2. 0 <= 1 * 1 * (Tolerance * Tolerance)
  BY PathWalkAssumption, SMT
<1>3. NearIn(a, a, b, 0, 1) /\ NearIn(b, a, b, 1, 1)
  <2>1. \A x, y \in Int : Off(0, 0, x, y, 0, 1) = 0 /\ Off(x, y, x, y, 1, 1) = 0
    BY DEF Off
  <2>2. a[1] - a[1] = 0 /\ a[2] - a[2] = 0 /\ b[1] - a[1] \in Int /\ b[2] - a[2] \in Int
    BY <1>1
  <2> QED BY <1>2, <2>1, <2>2 DEF NearIn
<1>4. 1 \in Nat \ {0} /\ 0 \in 0..1 /\ 1 \in 0..1
  OBVIOUS
<1> QED BY <1>3, <1>4, NearPoint

(* A polyline follows a curve of n parts at some of them.                  *)
Sampled(points, q, n, at) ==
  /\ points = [i \in DOMAIN at |-> OnCurve(q, at[i], n)]
  /\ \A i \in 1..Len(at) - 1 : \A k \in at[i]..at[i + 1] :
       IsNear(OnCurve(q, k, n), points[i], points[i + 1])
Follows(points, q, n) == \E at \in Samplings(n) : Sampled(points, q, n, at)

(* What a sampling is, index by index, ...                                 *)
LEMMA SamplingFacts ==
  ASSUME NEW n \in Nat \ {0}, NEW at \in Samplings(n)
  PROVE  /\ Len(at) \in 2..n + 1 /\ DOMAIN at = 1..Len(at)
         /\ \A i \in 1..Len(at) : at[i] \in 0..n
         /\ at[1] = 0 /\ at[Len(at)] = n
         /\ \A i \in 1..Len(at) - 1 : at[i] < at[i + 1]
<1>1. PICK m \in 2..n + 1 : at \in [1..m -> 0..n]
  BY DEF Samplings
<1>2. at \in Seq(0..n) /\ Len(at) = m
  BY <1>1
<1> QED BY <1>1, <1>2 DEF Samplings

(* ... and what makes a sampling.                                          *)
LEMMA IsSampling ==
  ASSUME NEW n \in Nat \ {0}, NEW m \in 2..n + 1, NEW at \in [1..m -> 0..n],
         at[1] = 0, at[m] = n, \A i \in 1..m - 1 : at[i] < at[i + 1]
  PROVE  at \in Samplings(n) /\ Len(at) = m /\ DOMAIN at = 1..m
<1>1. Len(at) = m
  <2>1. at \in Seq(0..n)
    OBVIOUS
  <2> QED BY <2>1
<1>2. at \in UNION {[1..l -> 0..n] : l \in 2..n + 1}
  OBVIOUS
<1> QED BY <1>1, <1>2 DEF Samplings

(* The chord of a curve that is flat, or has one part, follows it.         *)
LEMMA ChordFollows ==
  ASSUME NEW q \in Quads, NEW n \in Nat \ {0}, OnGrid(q, n), n = 1 \/ IsFlat(q)
  PROVE  Follows(<<q[1], q[4]>>, q, n)
<1> DEFINE at == [i \in 1..2 |-> IF i = 1 THEN 0 ELSE n]
           s == <<q[1], q[4]>>
<1>1. /\ at \in [1..2 -> 0..n] /\ 2 \in 2..n + 1 /\ at[1] = 0 /\ at[2] = n
      /\ \A i \in 1..2 - 1 : at[i] < at[i + 1]
  OBVIOUS
<1> HIDE DEF at
<1>2. at \in Samplings(n) /\ Len(at) = 2 /\ DOMAIN at = 1..2
  BY <1>1, IsSampling, Zenon
<1>3. OnCurve(q, 0, n) = q[1] /\ OnCurve(q, n, n) = q[4] /\ q[1] \in Point /\ q[4] \in Point
  BY GridEnds DEF Quads
<1>4. s = [i \in DOMAIN at |-> OnCurve(q, at[i], n)]
  BY <1>1, <1>2, <1>3
<1>5. ASSUME NEW k \in 0..n PROVE IsNear(OnCurve(q, k, n), q[1], q[4])
  <2>1. CASE IsFlat(q)
    BY <2>1, FlatIsNear
  <2>2. CASE n = 1
    <3>1. k = 0 \/ k = n
      BY <2>2
    <3> QED BY <1>3, <3>1, EndsAreNear
  <2> QED BY <2>1, <2>2
<1>6. Sampled(s, q, n, at)
  <2>1. ASSUME NEW i \in 1..Len(at) - 1, NEW k \in at[i]..at[i + 1]
        PROVE  IsNear(OnCurve(q, k, n), s[i], s[i + 1])
    <3>1. i = 1
      BY <1>2
    <3> QED BY <1>1, <1>5, <3>1
  <2> HIDE DEF s
  <2> QED BY <1>4, <2>1 DEF Sampled
<1> HIDE DEF s
<1>7. Follows(s, q, n)
  BY <1>2, <1>6 DEF Follows
<1> QED BY <1>7 DEF s

(* Where its halves are followed, the curve is.                            *)
LEMMA JoinFollows ==
  ASSUME NEW q \in Quads, NEW p \in Nat \ {0}, NEW n, n = 2 * p, OnGrid(q, n),
         NEW left, NEW right, Follows(left, FirstHalf(q), p), Follows(right, SecondHalf(q), p)
  PROVE  Follows(Join(left, right), q, n)
<1> DEFINE f == FirstHalf(q)  g == SecondHalf(q)
<1>1. PICK la \in Samplings(p) : Sampled(left, f, p, la)
  BY DEF Follows
<1>2. PICK ra \in Samplings(p) : Sampled(right, g, p, ra)
  BY DEF Follows
<1> DEFINE A == Len(la)  B == Len(ra)  m == A - 1 + B
           at == [i \in 1..m |-> IF i < A THEN la[i] ELSE p + ra[i - (A - 1)]]
           s == Join(left, right)
<1>3. /\ A \in 2..p + 1 /\ DOMAIN la = 1..A /\ \A i \in 1..A : la[i] \in 0..p
      /\ la[1] = 0 /\ la[A] = p /\ \A i \in 1..A - 1 : la[i] < la[i + 1]
  BY SamplingFacts
<1>4. /\ B \in 2..p + 1 /\ DOMAIN ra = 1..B /\ \A i \in 1..B : ra[i] \in 0..p
      /\ ra[1] = 0 /\ ra[B] = p /\ \A i \in 1..B - 1 : ra[i] < ra[i + 1]
  BY SamplingFacts
<1>5. /\ f \in Quads /\ g \in Quads /\ OnGrid(f, p) /\ OnGrid(g, p)
      /\ \A k \in 0..p : OnCurve(f, k, p) = OnCurve(q, k, n) /\ OnCurve(g, k, p) = OnCurve(q, p + k, n)
  BY Halves, GridHalves
<1> HIDE DEF f, g, A, B
<1>6. /\ left = [i \in 1..A |-> OnCurve(f, la[i], p)]
      /\ right = [i \in 1..B |-> OnCurve(g, ra[i], p)]
  BY <1>1, <1>2, <1>3, <1>4 DEF Sampled
<1>7. /\ left \in Seq(Point) /\ Len(left) = A /\ left # <<>>
      /\ right \in Seq(Point) /\ Len(right) = B
  <2>1. /\ \A k \in 0..p : OnCurve(f, k, p) \in Point
        /\ \A k \in 0..p : OnCurve(g, k, p) \in Point
    BY <1>5, GridEnds
  <2>2. left \in [1..A -> Point] /\ right \in [1..B -> Point]
    BY <1>3, <1>4, <1>6, <2>1
  <2>3. A \in Nat /\ B \in Nat /\ A # 0
    BY <1>3, <1>4
  <2> QED BY <2>2, <2>3
<1>8. ASSUME NEW i \in 1..m
      PROVE  /\ i <= A => i \in 1..A /\ at[i] = la[i]
             /\ i >= A => /\ i - (A - 1) \in 1..B
                          /\ at[i] = p + ra[i - (A - 1)]
  <2>1. CASE i < A
    BY <1>3, <2>1
  <2>2. CASE i = A
    <3>1. i - (A - 1) = 1 /\ at[i] = p + ra[i - (A - 1)]
      BY <1>3, <2>2
    <3>2. at[i] = la[i]
      BY <1>3, <1>4, <2>2, <3>1
    <3> HIDE DEF at
    <3> QED BY <1>3, <1>4, <2>2, <3>1, <3>2
  <2>3. CASE i > A
    BY <1>3, <1>4, <2>3
  <2> QED BY <1>3, <2>1, <2>2, <2>3
<1>9. m \in 2..n + 1 /\ n \in Nat \ {0} /\ A <= m /\ A \in Nat /\ B \in Nat /\ A >= 2 /\ B >= 2
  BY <1>3, <1>4
<1>10. at \in [1..m -> 0..n]
  <2>1. ASSUME NEW i \in 1..m PROVE at[i] \in 0..n
    <3>1. CASE i <= A
      BY <1>3, <1>8, <3>1
    <3>2. CASE i >= A
      BY <1>4, <1>8, <3>2
    <3> QED BY <1>3, <3>1, <3>2
  <2> QED BY <2>1
<1> HIDE DEF at
<1>11. at[1] = 0 /\ at[m] = n
  <2>1. 1 \in 1..m /\ 1 <= A /\ m \in 1..m /\ m >= A /\ m - (A - 1) = B
    BY <1>9
  <2> HIDE DEF m
  <2> QED BY <1>3, <1>4, <1>8, <2>1
<1>12. ASSUME NEW i \in 1..m - 1 PROVE at[i] < at[i + 1]
  <2>1. i \in 1..m /\ i + 1 \in 1..m /\ (i + 1) - (A - 1) = (i - (A - 1)) + 1
    BY <1>9
  <2>2. CASE i < A
    <3>1. i <= A /\ i + 1 <= A /\ i \in 1..A - 1
      BY <1>9, <2>1, <2>2
    <3> HIDE DEF m
    <3> QED BY <1>3, <1>8, <2>1, <3>1
  <2>3. CASE i >= A
    <3>1. i + 1 >= A /\ i - (A - 1) \in 1..B - 1
      BY <1>9, <2>1, <2>3
    <3>2. at[i] = p + ra[i - (A - 1)] /\ at[i + 1] = p + ra[(i - (A - 1)) + 1]
      <4> HIDE DEF m
      <4> QED BY <1>8, <2>1, <2>3, <3>1
    <3>3. ra[i - (A - 1)] < ra[(i - (A - 1)) + 1]
      BY <1>4, <3>1
    <3>4. ra[i - (A - 1)] \in Int /\ ra[(i - (A - 1)) + 1] \in Int
      BY <1>4, <1>9, <3>1
    <3> QED BY <3>2, <3>3, <3>4
  <2> QED BY <1>9, <2>2, <2>3
<1>13. at \in Samplings(n) /\ Len(at) = m /\ DOMAIN at = 1..m
  <2> HIDE DEF m
  <2> QED BY <1>9, <1>10, <1>11, <1>12, IsSampling, Zenon
<1>14. /\ DOMAIN s = 1..m /\ s \in Seq(Point)
       /\ \A i \in 1..m : s[i] = IF i <= A - 1 THEN left[i] ELSE right[i - (A - 1)]
  BY <1>7, JoinFacts
<1> HIDE DEF s
<1>15. ASSUME NEW i \in 1..m
       PROVE  /\ s[i] = OnCurve(q, at[i], n)
              /\ i <= A => s[i] = left[i]
              /\ i >= A => s[i] = right[i - (A - 1)]
  <2>1. CASE i < A
    <3>1. s[i] = left[i] /\ at[i] = la[i] /\ i \in 1..A
      BY <1>8, <1>9, <1>14, <2>1
    <3>2. left[i] = OnCurve(f, la[i], p) /\ la[i] \in 0..p
      BY <1>3, <1>6, <3>1
    <3> QED BY <1>5, <1>9, <2>1, <3>1, <3>2
  <2>2. CASE i >= A
    <3>1. s[i] = right[i - (A - 1)] /\ at[i] = p + ra[i - (A - 1)] /\ i - (A - 1) \in 1..B
      BY <1>8, <1>9, <1>14, <2>2
    <3>2. /\ right[i - (A - 1)] = OnCurve(g, ra[i - (A - 1)], p)
          /\ ra[i - (A - 1)] \in 0..p
      BY <1>4, <1>6, <3>1
    <3>3. s[i] = OnCurve(q, at[i], n)
      BY <1>5, <3>1, <3>2
    <3>4. i <= A => s[i] = left[i]
      <4> SUFFICES ASSUME i <= A PROVE s[i] = left[i]
        OBVIOUS
      <4>1. i = A /\ i \in 1..A
        BY <1>9, <2>2
      <4>2. at[i] = p /\ left[i] = OnCurve(f, p, p) /\ p \in 0..p
        BY <1>3, <1>6, <1>8, <4>1
      <4> QED BY <1>5, <3>3, <4>2
    <3> QED BY <3>1, <3>3, <3>4
  <2> QED BY <1>9, <2>1, <2>2
<1>16. ASSUME NEW i \in 1..m - 1, NEW k \in at[i]..at[i + 1]
       PROVE  IsNear(OnCurve(q, k, n), s[i], s[i + 1])
  <2>1. i \in 1..m /\ i + 1 \in 1..m
    BY <1>9
  <2>2. CASE i < A
    <3>1. i <= A /\ i + 1 <= A /\ i \in 1..A - 1 /\ i \in 1..A /\ i + 1 \in 1..A
      BY <1>9, <2>1, <2>2
    <3>2. at[i] = la[i] /\ at[i + 1] = la[i + 1] /\ s[i] = left[i] /\ s[i + 1] = left[i + 1]
      <4> HIDE DEF m
      <4> QED BY <1>8, <1>15, <2>1, <3>1
    <3>3. IsNear(OnCurve(f, k, p), left[i], left[i + 1])
      BY <1>1, <3>1, <3>2 DEF Sampled, A
    <3>4. k \in 0..p
      BY <1>3, <3>1, <3>2
    <3> QED BY <1>5, <3>2, <3>3, <3>4
  <2>3. CASE i >= A
    <3> DEFINE h == i - (A - 1)
    <3>1. i + 1 >= A /\ h \in 1..B - 1 /\ (i + 1) - (A - 1) = h + 1 /\ h \in 1..B /\ h + 1 \in 1..B
      BY <1>9, <2>1, <2>3
    <3>2. /\ at[i] = p + ra[h] /\ at[i + 1] = p + ra[h + 1]
          /\ s[i] = right[h] /\ s[i + 1] = right[h + 1]
      <4> HIDE DEF m
      <4> QED BY <1>8, <1>15, <2>1, <2>3, <3>1
    <3> HIDE DEF h
    <3>3. ra[h] \in 0..p /\ ra[h + 1] \in 0..p
      BY <1>4, <3>1
    <3>4. k - p \in ra[h]..ra[h + 1] /\ k - p \in 0..p /\ p + (k - p) = k
      BY <3>2, <3>3
    <3>5. IsNear(OnCurve(g, k - p, p), right[h], right[h + 1])
      BY <1>2, <3>1, <3>4 DEF Sampled, B
    <3> QED BY <1>5, <3>2, <3>4, <3>5
  <2> QED BY <1>9, <2>2, <2>3
<1>17. s = [i \in DOMAIN at |-> OnCurve(q, at[i], n)]
  <2>1. s = [i \in 1..m |-> s[i]]
    BY <1>14
  <2> HIDE DEF m
  <2> QED BY <1>13, <1>15, <2>1
<1>18. Sampled(s, q, n, at)
  <2> HIDE DEF m
  <2> QED BY <1>13, <1>16, <1>17 DEF Sampled
<1>19. Follows(s, q, n)
  BY <1>13, <1>18 DEF Follows
<1> QED BY <1>19 DEF s

(* The recursion of Parts gives powers of two.                             *)
LEMMA PartsFacts ==
  /\ \A d \in 0..FlattenDepth : Parts[d] \in Nat \ {0}
  /\ Parts[0] = 1
  /\ \A d \in 0..FlattenDepth - 1 : Parts[d + 1] = 2 * Parts[d]
<1> DEFINE D == FlattenDepth
           P == Nat \ {0}
           Body(f, d) == IF d = 0 THEN 1 ELSE 2 * f[d - 1]
           step == [k \in 1..D |-> [v \in P |-> 2 * v]]
<1>1. D \in Nat
  BY PathWalkAssumption
<1>2. step \in [1..D -> [P -> P]] /\ 1 \in P
  OBVIOUS
<1>3. PICK f \in [0..D -> P] : Recurs(f, 1, step, D)
  <2> HIDE DEF step, D, P
  <2> QED BY <1>1, <1>2, RecursionExists
<1>4. ASSUME NEW d \in 0..D PROVE f[d] = Body(f, d)
  <2>1. CASE d = 0
    BY <1>3, <2>1 DEF Recurs
  <2>2. CASE d # 0
    <3>1. d \in 1..D /\ d - 1 \in 0..D
      BY <1>1, <2>2
    <3>2. f[d] = step[d][f[d - 1]] /\ f[d - 1] \in P
      BY <1>3, <3>1 DEF Recurs
    <3> QED BY <2>2, <3>1, <3>2
  <2> QED BY <2>1, <2>2
<1>5. f = [d \in 0..D |-> Body(f, d)]
  <2> HIDE DEF Body, D, P
  <2> QED BY <1>3, <1>4
<1>6. Parts = [d \in 0..D |-> Body(Parts, d)]
  <2> DEFINE g == CHOOSE h : h = [d \in 0..D |-> Body(h, d)]
  <2>1. g = [d \in 0..D |-> Body(g, d)]
    <3> HIDE DEF Body, D
    <3> QED BY <1>5
  <2>2. Parts = g
    BY DEF Parts
  <2> HIDE DEF g
  <2> QED BY <2>1, <2>2
<1>7. ASSUME NEW d \in 0..D PROVE Parts[d] = Body(Parts, d)
  <2> HIDE DEF Body, D
  <2> QED BY <1>6
<1>8. 0 \in 0..D /\ \A d \in 0..D - 1 : d + 1 \in 0..D /\ d + 1 # 0 /\ (d + 1) - 1 = d
  BY <1>1
<1>9. Parts[0] = 1 /\ \A d \in 0..D - 1 : Parts[d + 1] = 2 * Parts[d]
  <2> HIDE DEF D
  <2> QED BY <1>7, <1>8
<1> DEFINE K == {d \in 0..D : Parts[d] \in P}
<1>10. 0..D \subseteq K
  <2>1. 0 \in K
    BY <1>8, <1>9
  <2>2. \A d \in 0..D - 1 : d \in K => d + 1 \in K
    BY <1>8, <1>9
  <2> HIDE DEF K, D
  <2> QED BY <1>1, <2>1, <2>2, InductionTo
<1> QED BY <1>9, <1>10

(* A curve whose halves have whole coordinates is followed by what the     *)
(* recursion makes of it.                                                  *)
LEMMA FlattenFollows ==
  ASSUME NEW q \in Quads, OnGrid(q, Finest)
  PROVE  Follows(FlattenCubic(q[1], q[2], q[3], q[4]), q, Finest)
<1>1. PICK flat : /\ Flattening(flat)
                  /\ \A r \in Quads : FlattenCubic(r[1], r[2], r[3], r[4]) = flat[FlattenDepth][r]
  BY FlattenRecursion
<1> DEFINE D == FlattenDepth
           K == {d \in 0..D : \A r \in Quads :
                   OnGrid(r, Parts[d]) => Follows(flat[d][r], r, Parts[d])}
<1>2. D \in Nat
  BY PathWalkAssumption
<1>3. 0 \in K
  <2>1. ASSUME NEW r \in Quads, OnGrid(r, Parts[0]) PROVE Follows(flat[0][r], r, Parts[0])
    <3>1. Parts[0] = 1 /\ 1 \in Nat \ {0} /\ flat[0][r] = <<r[1], r[4]>>
      BY <1>1, PartsFacts DEF Flattening
    <3>2. Follows(<<r[1], r[4]>>, r, 1)
      BY <2>1, <3>1, ChordFollows
    <3> QED BY <3>1, <3>2
  <2> QED BY <1>2, <2>1
<1>4. ASSUME NEW d \in 0..D - 1, d \in K PROVE d + 1 \in K
  <2>1. d \in 0..D /\ d + 1 \in 0..D
    BY <1>2
  <2>2. Parts[d] \in Nat \ {0} /\ Parts[d + 1] \in Nat \ {0} /\ Parts[d + 1] = 2 * Parts[d]
    BY <2>1, PartsFacts
  <2>3. ASSUME NEW r \in Quads, OnGrid(r, Parts[d + 1])
        PROVE  Follows(flat[d + 1][r], r, Parts[d + 1])
    <3>1. flat[d + 1][r] = IF IsFlat(r) THEN <<r[1], r[4]>>
                           ELSE Join(flat[d][FirstHalf(r)], flat[d][SecondHalf(r)])
      BY <1>1 DEF Flattening
    <3>2. CASE IsFlat(r)
      BY <2>2, <2>3, <3>1, <3>2, ChordFollows
    <3>3. CASE ~ IsFlat(r)
      <4>1. /\ FirstHalf(r) \in Quads /\ SecondHalf(r) \in Quads
            /\ OnGrid(FirstHalf(r), Parts[d]) /\ OnGrid(SecondHalf(r), Parts[d])
        BY <2>2, <2>3, Halves, GridHalves
      <4>2. /\ Follows(flat[d][FirstHalf(r)], FirstHalf(r), Parts[d])
            /\ Follows(flat[d][SecondHalf(r)], SecondHalf(r), Parts[d])
        BY <1>4, <4>1
      <4> QED BY <2>2, <2>3, <3>1, <3>3, <4>2, JoinFollows
    <3> QED BY <3>2, <3>3
  <2> HIDE DEF D
  <2> QED BY <2>1, <2>3
<1>5. D \in K
  <2>1. 0..D \subseteq K
    <3> HIDE DEF K, D
    <3> QED BY <1>2, <1>3, <1>4, InductionTo
  <2> HIDE DEF K
  <2> QED BY <1>2, <2>1
<1> QED BY <1>1, <1>5 DEF Finest

-----------------------------------------------------------------------------
(* Where a path stands                                                     *)

(* An m begins a subpath, and the operators after it belong to it.         *)
LEMMA MovedFacts ==
  ASSUME NEW path \in Seq(Operator)
  PROVE  /\ Moved(path, 0) = 0
         /\ \A k \in 1..Len(path) :
              Moved(path, k) = IF path[k].op = "m" THEN k ELSE Moved(path, k - 1)
         /\ \A k \in 0..Len(path) :
              /\ Moved(path, k) \in 0..k
              /\ Moved(path, k) # 0 => path[Moved(path, k)].op = "m"
<1> DEFINE n == Len(path)
           moves(k) == {j \in 1..k : path[j].op = "m"}
           Most(S) == CHOOSE j \in S : \A i \in S : i <= j
           K == {k \in 0..n : /\ Moved(path, k) \in 0..k
                              /\ Moved(path, k) # 0 => path[Moved(path, k)].op = "m"}
<1>1. \A k : Moved(path, k) = IF moves(k) = {} THEN 0 ELSE Most(moves(k))
  BY DEF Moved
<1>2. n \in Nat
  OBVIOUS
<1>3. Moved(path, 0) = 0
  <2>1. moves(0) = {}
    OBVIOUS
  <2> HIDE DEF moves, Most
  <2> QED BY <1>1, <2>1
<1>4. ASSUME NEW k \in 1..n
      PROVE  Moved(path, k) = IF path[k].op = "m" THEN k ELSE Moved(path, k - 1)
  <2> HIDE DEF n
  <2>1. CASE path[k].op = "m"
    <3>1. k \in moves(k) /\ \A i \in moves(k) : i \in Int /\ i <= k
      BY <1>2, <2>1
    <3>2. Most(moves(k)) = k
      <4>1. \E j \in moves(k) : \A i \in moves(k) : i <= j
        <5> HIDE DEF moves
        <5> QED BY <3>1
      <4>2. Most(moves(k)) \in moves(k) /\ \A i \in moves(k) : i <= Most(moves(k))
        <5> HIDE DEF moves
        <5> QED BY <4>1
      <4> HIDE DEF moves, Most
      <4> QED BY <3>1, <4>2
    <3>3. moves(k) # {}
      BY <3>1
    <3> HIDE DEF moves, Most
    <3> QED BY <1>1, <2>1, <3>2, <3>3
  <2>2. CASE path[k].op # "m"
    <3>1. moves(k) = moves(k - 1)
      BY <1>2, <2>2
    <3> HIDE DEF moves, Most
    <3> QED BY <1>1, <2>2, <3>1
  <2> QED BY <2>1, <2>2
<1>5. 0 \in K
  BY <1>2, <1>3
<1>6. ASSUME NEW k \in 0..n - 1, k \in K PROVE k + 1 \in K
  <2>1. k + 1 \in 1..n /\ k + 1 \in 0..n /\ (k + 1) - 1 = k
    BY <1>2
  <2>2. Moved(path, k + 1) = IF path[k + 1].op = "m" THEN k + 1 ELSE Moved(path, k)
    <3> HIDE DEF n
    <3> QED BY <1>4, <2>1
  <2> HIDE DEF n
  <2> QED BY <1>6, <2>1, <2>2
<1>7. 0..n \subseteq K
  <2> HIDE DEF K, n
  <2> QED BY <1>2, <1>5, <1>6, InductionTo
<1> HIDE DEF moves, Most
<1> QED BY <1>3, <1>4, <1>7

LEMMA PenFacts ==
  ASSUME NEW path \in Seq(Operator), NEW k \in 1..Len(path), Moved(path, k) # 0
  PROVE  /\ PenAt(path, k) \in Point
         /\ path[k].op \in {"m", "l"} =>
              path[k].pts[1] \in Point /\ PenAt(path, k) = path[k].pts[1]
         /\ path[k].op = "h" => PenAt(path, k) = path[Moved(path, k)].pts[1]
         /\ IsCurve(path[k]) => PenAt(path, k) = Last(path[k].pts)
         /\ path[Moved(path, k)].pts[1] \in Point
<1>1. path[k] \in Operator
  OBVIOUS
<1>2. Moved(path, k) \in 1..Len(path) /\ path[Moved(path, k)].op = "m"
  <2>1. k \in 0..Len(path) /\ Len(path) \in Nat
    OBVIOUS
  <2> QED BY <2>1, MovedFacts
<1>3. ASSUME NEW o \in Operator, o.op \in {"m", "l"}
      PROVE  o.pts[1] \in Point /\ Last(o.pts) = o.pts[1]
  <2>1. o.pts \in [1..1 -> Point]
    BY <1>3 DEF Operator
  <2>2. Len(o.pts) = 1
    BY <2>1
  <2> QED BY <2>1, <2>2 DEF Last
<1>4. path[Moved(path, k)].pts[1] \in Point
  <2>1. path[Moved(path, k)] \in Operator
    BY <1>2
  <2> QED BY <1>2, <1>3, <2>1
<1>5. CASE path[k].op = "h"
  BY <1>4, <1>5 DEF PenAt, IsCurve
<1>6. CASE path[k].op \in {"m", "l"}
  BY <1>1, <1>3, <1>4, <1>6 DEF PenAt, IsCurve
<1>7. CASE IsCurve(path[k])
  <2>1. path[k].pts \in [1..3 -> Point] \/ path[k].pts \in [1..2 -> Point]
    BY <1>1, <1>7 DEF Operator, IsCurve
  <2>2. Last(path[k].pts) \in Point
    <3>1. CASE path[k].pts \in [1..3 -> Point]
      <4>1. Len(path[k].pts) = 3
        BY <3>1
      <4> QED BY <3>1, <4>1 DEF Last
    <3>2. CASE path[k].pts \in [1..2 -> Point]
      <4>1. Len(path[k].pts) = 2
        BY <3>2
      <4> QED BY <3>2, <4>1 DEF Last
    <3> QED BY <2>1, <3>1, <3>2
  <2> QED BY <1>4, <1>7, <2>2 DEF PenAt, IsCurve
<1> QED BY <1>1, <1>5, <1>6, <1>7 DEF Operator, IsCurve

LEMMA PointsInSeq ==
  ASSUME NEW n \in Nat, NEW s \in [1..n -> Point]
  PROVE  s \in Seq(Point) /\ Len(s) = n
<1>1. s = [i \in 1..n |-> s[i]] /\ \A i \in 1..n : s[i] \in Point
  OBVIOUS
<1> QED BY <1>1, IsASeq

(* A curve has four points, from where the path stands to where it ends.   *)
LEMMA BezierFacts ==
  ASSUME NEW from \in Point, NEW o \in Operator, IsCurve(o)
  PROVE  LET q == Bezier(from, o)
         IN  /\ q[1] = from /\ q[2] \in Point /\ q[3] \in Point /\ q[4] \in Point
             /\ q[4] = Last(o.pts)
<1> DEFINE q == Bezier(from, o)
<1>1. CASE o.op = "c"
  <2>1. o.pts \in [1..3 -> Point]
    BY <1>1 DEF Operator
  <2>2. o.pts \in Seq(Point) /\ Len(o.pts) = 3
    BY <2>1, PointsInSeq
  <2>3. q = <<from>> \o o.pts
    BY <1>1 DEF Bezier
  <2>4. q[1] = from /\ q[2] = o.pts[1] /\ q[3] = o.pts[2] /\ q[4] = o.pts[3]
    BY <2>2, <2>3
  <2> HIDE DEF q
  <2> QED BY <2>1, <2>2, <2>4 DEF Last, q
<1>2. CASE o.op = "v"
  <2>1. o.pts \in [1..2 -> Point]
    BY <1>2 DEF Operator
  <2>2. o.pts \in Seq(Point) /\ Len(o.pts) = 2
    BY <2>1, PointsInSeq
  <2>3. q = <<from, from>> \o o.pts
    BY <1>2 DEF Bezier
  <2>4. q[1] = from /\ q[2] = from /\ q[3] = o.pts[1] /\ q[4] = o.pts[2]
    BY <2>2, <2>3
  <2> HIDE DEF q
  <2> QED BY <2>1, <2>2, <2>4 DEF Last, q
<1>3. CASE o.op = "y"
  <2>1. o.pts \in [1..2 -> Point]
    BY <1>3 DEF Operator
  <2>5. o.pts[1] \in Point /\ o.pts[2] \in Point
    BY <2>1
  <2>2. o.pts \in Seq(Point) /\ Len(o.pts) = 2
    BY <2>1, PointsInSeq
  <2>3. q = <<from>> \o o.pts \o <<o.pts[2]>>
    BY <1>3 DEF Bezier
  <2>4. q[1] = from /\ q[2] = o.pts[1] /\ q[3] = o.pts[2] /\ q[4] = o.pts[2]
    BY <2>2, <2>3, SMTT(30)
  <2> HIDE DEF q
  <2> QED BY <2>2, <2>4, <2>5 DEF Last, q
<1> QED BY <1>1, <1>2, <1>3 DEF IsCurve

(* A curve's polyline goes from where the path stands to where the curve   *)
(* ends.                                                                   *)
LEMMA CurveFacts ==
  ASSUME NEW from \in Point, NEW o \in Operator, IsCurve(o)
  PROVE  /\ CurvePoints(from, o) \in Seq(Point)
         /\ Len(CurvePoints(from, o)) >= 2
         /\ CurvePoints(from, o)[1] = from
         /\ Last(CurvePoints(from, o)) = Last(o.pts)
<1> DEFINE q == Bezier(from, o)  r == <<q[1], q[2], q[3], q[4]>>
<1>1. /\ q[1] = from /\ q[2] \in Point /\ q[3] \in Point /\ q[4] \in Point
      /\ q[4] = Last(o.pts)
  BY BezierFacts
<1>2. CurvePoints(from, o) = FlattenCubic(r[1], r[2], r[3], r[4])
  <2> HIDE DEF q
  <2>1. r[1] = q[1] /\ r[2] = q[2] /\ r[3] = q[3] /\ r[4] = q[4]
    OBVIOUS
  <2>2. CurvePoints(from, o) = FlattenCubic(q[1], q[2], q[3], q[4])
    BY DEF CurvePoints, q
  <2> HIDE DEF r
  <2> QED BY <2>1, <2>2
<1>3. r \in Quads /\ r[1] = from /\ r[4] = Last(o.pts)
  <2> HIDE DEF q
  <2> QED BY <1>1 DEF Quads
<1>4. CurvePoints(from, o) \in Polylines(r)
  <2> HIDE DEF r
  <2> QED BY <1>2, <1>3, FlattenedFromEndToEnd
<1> HIDE DEF r
<1> QED BY <1>3, <1>4 DEF Polylines

-----------------------------------------------------------------------------
(* The walk of cut_extract.py                                              *)

Line == Point \X Point

ChordsOf(subpaths) == [i \in DOMAIN subpaths |-> Chords(subpaths[i])]

(* The lines of a walk so far.                                             *)
Walked(w) == FlattenSeq(ChordsOf(w.subpaths)) \o Chords(w.current)

CutState ==
  {w \in [subpaths : Seq(Seq(Point)), current : Seq(Point), start : Point \cup {<<>>}] :
     w.current # <<>> => w.start \in Point}

LEMMA ChordsOfAppend ==
  ASSUME NEW ss \in Seq(Seq(Point)), NEW s \in Seq(Point)
  PROVE  /\ ChordsOf(ss) \in Seq(Seq(Line))
         /\ ChordsOf(Append(ss, s)) = Append(ChordsOf(ss), Chords(s))
<1> DEFINE T == Seq(Point)  L == Seq(Line)  tt == Append(ss, s)
<1>1. \A t \in T : Chords(t) \in L
  BY ChordsFacts DEF Line
<1>2. /\ tt \in Seq(T) /\ Len(tt) = Len(ss) + 1 /\ Len(ss) \in Nat /\ tt[Len(ss) + 1] = s
      /\ \A i \in 1..Len(ss) : tt[i] = ss[i]
  <2>1. ss \in Seq(T) /\ s \in T
    OBVIOUS
  <2> HIDE DEF T
  <2> QED BY <2>1, AppendProperties
<1>3. \A i \in 1..Len(ss) : ss[i] \in T
  OBVIOUS
<1>4. ChordsOf(ss) = [i \in 1..Len(ss) |-> Chords(ss[i])]
  BY DEF ChordsOf
<1>5. ChordsOf(ss) \in Seq(L) /\ Len(ChordsOf(ss)) = Len(ss)
  <2> HIDE DEF L, T
  <2> QED BY <1>1, <1>2, <1>3, <1>4, IsASeq
<1>6. ChordsOf(tt) = [i \in 1..Len(ss) + 1 |-> Chords(tt[i])]
  <2>1. DOMAIN tt = 1..Len(ss) + 1
    BY <1>2
  <2> HIDE DEF tt
  <2> QED BY <2>1 DEF ChordsOf
<1> HIDE DEF tt
<1>7. /\ Append(ChordsOf(ss), Chords(s)) \in Seq(L)
      /\ Len(Append(ChordsOf(ss), Chords(s))) = Len(ss) + 1
      /\ Append(ChordsOf(ss), Chords(s))[Len(ss) + 1] = Chords(s)
      /\ \A i \in 1..Len(ss) : Append(ChordsOf(ss), Chords(s))[i] = ChordsOf(ss)[i]
  <2>1. Chords(s) \in L
    BY <1>1
  <2> HIDE DEF L
  <2> QED BY <1>5, <2>1, AppendProperties
<1> DEFINE u == Append(ChordsOf(ss), Chords(s))
<1>8. u = [i \in 1..Len(ss) + 1 |-> u[i]]
  <2> HIDE DEF u, L
  <2>1. u \in Seq(L) /\ Len(u) = Len(ss) + 1
    BY <1>7 DEF u
  <2> QED BY <2>1
<1>9. \A i \in 1..Len(ss) + 1 : u[i] = Chords(tt[i])
  <2>1. ASSUME NEW i \in 1..Len(ss) PROVE u[i] = Chords(tt[i])
    BY <1>2, <1>4, <1>7
  <2>2. u[Len(ss) + 1] = Chords(tt[Len(ss) + 1])
    BY <1>2, <1>7
  <2> HIDE DEF u
  <2> QED BY <1>2, <2>1, <2>2
<1>10. u = ChordsOf(tt)
  <2> HIDE DEF u
  <2> QED BY <1>6, <1>8, <1>9
<1> QED BY <1>5, <1>10 DEF tt

(* What a walk has found is a sequence of lines, also when its last        *)
(* subpath is added to the others.                                         *)
LEMMA WalkedFacts ==
  ASSUME NEW ss \in Seq(Seq(Point)), NEW s \in Seq(Point)
  PROVE  /\ FlattenSeq(ChordsOf(ss)) \in Seq(Line) /\ Chords(s) \in Seq(Line)
         /\ FlattenSeq(ChordsOf(Append(ss, s))) = FlattenSeq(ChordsOf(ss)) \o Chords(s)
         /\ ss \o LongEnough(s) \in Seq(Seq(Point))
         /\ FlattenSeq(ChordsOf(ss \o LongEnough(s))) = FlattenSeq(ChordsOf(ss)) \o Chords(s)
<1>1. ChordsOf(ss) \in Seq(Seq(Line)) /\ Chords(s) \in Seq(Line)
  BY ChordsOfAppend, ChordsFacts DEF Line
<1>2. FlattenSeq(ChordsOf(ss)) \in Seq(Line)
  BY <1>1, FlattenElements
<1>3. FlattenSeq(ChordsOf(Append(ss, s))) = FlattenSeq(ChordsOf(ss)) \o Chords(s)
  BY <1>1, ChordsOfAppend, FlattenAppend
<1>4. CASE Len(s) > 1
  <2>1. ss \o LongEnough(s) = Append(ss, s)
    BY <1>4, AppendIsConcat DEF LongEnough
  <2>2. Append(ss, s) \in Seq(Seq(Point))
    BY AppendProperties
  <2> QED BY <1>1, <1>2, <1>3, <2>1, <2>2
<1>5. CASE ~ (Len(s) > 1)
  <2>1. ss \o LongEnough(s) = ss
    BY <1>5, ConcatEmptySeq DEF LongEnough
  <2>2. Chords(s) = <<>>
    <3>1. Len(Chords(s)) = 0
      <4>1. Len(s) \in Nat /\ (s = <<>> <=> Len(s) = 0)
        BY EmptySeq
      <4>2. Len(Chords(s)) = IF s = <<>> THEN 0 ELSE Len(s) - 1
        BY ChordsFacts
      <4>3. Len(s) = 0 \/ Len(s) = 1
        <5> DEFINE n == Len(s)
        <5>1. n \in Nat /\ ~ (n > 1)
          BY <1>5, <4>1
        <5> HIDE DEF n
        <5>2. n = 0 \/ n = 1
          BY <5>1
        <5> QED BY <5>2 DEF n
      <4>4. CASE Len(s) = 0
        BY <4>1, <4>2, <4>4
      <4>5. CASE Len(s) = 1
        BY <4>1, <4>2, <4>5
      <4> QED BY <4>3, <4>4, <4>5
    <3> QED BY <1>1, <3>1, EmptySeq
  <2>3. FlattenSeq(ChordsOf(ss)) \o <<>> = FlattenSeq(ChordsOf(ss))
    BY <1>2, ConcatEmptySeq
  <2> QED BY <1>1, <1>2, <1>3, <2>1, <2>2, <2>3
<1> QED BY <1>4, <1>5

(* What operator k draws is a sequence of lines.                           *)
LEMMA StrokeTyped ==
  ASSUME NEW path \in Seq(Operator), NEW k \in 1..Len(path)
  PROVE  /\ Stroke(path, k) \in Seq(Line)
         /\ Moved(path, k) # 0 /\ path[k].op # "m" =>
              /\ k - 1 \in 1..Len(path) /\ Moved(path, k - 1) = Moved(path, k)
              /\ PenAt(path, k - 1) \in Point /\ PenAt(path, k) \in Point
<1>1. ASSUME Moved(path, k) # 0, path[k].op # "m"
      PROVE  /\ k - 1 \in 1..Len(path) /\ Moved(path, k - 1) = Moved(path, k)
             /\ PenAt(path, k - 1) \in Point /\ PenAt(path, k) \in Point
  <2>1. Moved(path, k) = Moved(path, k - 1)
    BY <1>1, MovedFacts
  <2>2. k - 1 # 0
    BY <1>1, <2>1, MovedFacts
  <2>3. k - 1 \in 1..Len(path)
    BY <2>2
  <2> QED BY <1>1, <2>1, <2>3, PenFacts
<1>2. CASE path[k].op = "m" \/ Moved(path, k) = 0
  <2>1. Stroke(path, k) = <<>>
    BY <1>2 DEF Stroke, IsCurve
  <2> QED BY <1>1, <1>2, <2>1
<1>3. CASE path[k].op # "m" /\ Moved(path, k) # 0 /\ IsCurve(path[k])
  <2>1. Stroke(path, k) = Chords(CurvePoints(PenAt(path, k - 1), path[k]))
    BY <1>3 DEF Stroke
  <2>2. CurvePoints(PenAt(path, k - 1), path[k]) \in Seq(Point)
    <3>1. PenAt(path, k - 1) \in Point /\ path[k] \in Operator
      BY <1>1, <1>3
    <3> QED BY <1>3, <3>1, CurveFacts
  <2> QED BY <1>1, <1>3, <2>1, <2>2, ChordsFacts DEF Line
<1>4. CASE path[k].op # "m" /\ Moved(path, k) # 0 /\ ~ IsCurve(path[k])
  <2>1. Stroke(path, k) = <<<<PenAt(path, k - 1), PenAt(path, k)>>>>
    BY <1>4 DEF Stroke
  <2>2. <<PenAt(path, k - 1), PenAt(path, k)>> \in Line
    BY <1>1, <1>4 DEF Line
  <2> QED BY <1>1, <1>4, <2>1, <2>2
<1> QED BY <1>2, <1>3, <1>4

(* The walk w stands where the path stands after operator k.               *)
Stands(w, path, k) ==
  /\ w.current = <<>> <=> Moved(path, k) = 0
  /\ Moved(path, k) # 0 =>
       /\ w.start = path[Moved(path, k)].pts[1]
       /\ Last(w.current) = PenAt(path, k)

LEMMA PairJoined ==
  ASSUME NEW p \in Point, NEW q \in Point
  PROVE  <<p>> \o <<q>> = <<p, q>>
<1> DEFINE s == <<p>>  t == <<q>>  u == <<p, q>>
<1>1. s \in Seq(Point) /\ Len(s) = 1 /\ s[1] = p
  OBVIOUS
<1>2. t \in Seq(Point) /\ Len(t) = 1 /\ t[1] = q
  OBVIOUS
<1>3. u \in Seq(Point) /\ Len(u) = 2 /\ u[1] = p /\ u[2] = q
  OBVIOUS
<1> HIDE DEF s, t, u
<1>4. /\ s \o t \in Seq(Point) /\ Len(s \o t) = Len(s) + Len(t)
      /\ \A i \in 1..Len(s) + Len(t) : (s \o t)[i] = IF i <= Len(s) THEN s[i] ELSE t[i - Len(s)]
  BY <1>1, <1>2, ConcatProperties
<1>5. Len(s \o t) = 2 /\ (s \o t)[1] = p /\ (s \o t)[2] = q
  BY <1>1, <1>2, <1>4
<1>6. s \o t = u
  <2>1. \A i \in 1..2 : i = 1 \/ i = 2
    OBVIOUS
  <2> QED BY <1>3, <1>4, <1>5, <2>1, SeqEqual
<1> QED BY <1>6 DEF s, t, u

(* A walk that goes on from s to the lines that t ends with.               *)
LEMMA WalkedOn ==
  ASSUME NEW ss \in Seq(Seq(Point)), NEW s \in Seq(Point), s # <<>>,
         NEW t \in Seq(Point)
  PROVE  /\ s \o t \in Seq(Point) /\ s \o t # <<>>
         /\ FlattenSeq(ChordsOf(ss)) \o Chords(s \o t) =
              (FlattenSeq(ChordsOf(ss)) \o Chords(s)) \o Chords(<<Last(s)>> \o t)
<1>1. Chords(s \o t) = Chords(s) \o Chords(<<Last(s)>> \o t)
  BY ChordsJoin
<1>2. Last(s) \in Point
  BY EmptySeq DEF Last
<1>3. <<Last(s)>> \o t \in Seq(Point) /\ s \o t \in Seq(Point) /\ s \o t # <<>>
  <2>1. <<Last(s)>> \in Seq(Point)
    BY <1>2
  <2>2. Len(s \o t) = Len(s) + Len(t) /\ Len(s) \in Nat \ {0} /\ Len(t) \in Nat /\ s \o t \in Seq(Point)
    BY EmptySeq, ConcatProperties
  <2>3. Len(s \o t) # 0
    BY <2>2
  <2> QED BY <2>1, <2>2, <2>3, ConcatProperties, EmptySeq
<1>4. /\ FlattenSeq(ChordsOf(ss)) \in Seq(Line) /\ Chords(s) \in Seq(Line)
      /\ Chords(<<Last(s)>> \o t) \in Seq(Line)
  <2>1. Chords(<<Last(s)>> \o t) \in Seq(Line)
    BY <1>3, ChordsFacts DEF Line
  <2> QED BY <2>1, WalkedFacts
<1> QED BY <1>1, <1>3, <1>4, ConcatAssociative

(* One operator takes the walk on as it takes the path on, and adds what   *)
(* it draws.                                                               *)
LEMMA CutStepDraws ==
  ASSUME NEW path \in Seq(Operator), NEW k \in 1..Len(path), NEW w \in CutState,
         Stands(w, path, k - 1)
  PROVE  /\ CutStep(w, path[k]) \in CutState
         /\ Stands(CutStep(w, path[k]), path, k)
         /\ Walked(CutStep(w, path[k])) = Walked(w) \o Stroke(path, k)
<1> DEFINE o == path[k]  v == CutStep(w, o)  ss == w.subpaths  s == w.current
<1>1. o \in Operator /\ ss \in Seq(Seq(Point)) /\ s \in Seq(Point) /\ (s # <<>> => w.start \in Point)
  BY DEF CutState
<1>2. Moved(path, k) = IF o.op = "m" THEN k ELSE Moved(path, k - 1)
  BY MovedFacts
<1>3. Walked(w) \in Seq(Line) /\ FlattenSeq(ChordsOf(ss)) \in Seq(Line) /\ Chords(s) \in Seq(Line)
  <2>1. FlattenSeq(ChordsOf(ss)) \in Seq(Line) /\ Chords(s) \in Seq(Line)
    BY <1>1, WalkedFacts
  <2> HIDE DEF ss, s
  <2>2. FlattenSeq(ChordsOf(ss)) \o Chords(s) \in Seq(Line)
    BY <2>1, ConcatProperties
  <2> QED BY <2>1, <2>2 DEF Walked, ss, s
<1>4. \A p \in Point : <<p>> \in Seq(Point) /\ Len(<<p>>) = 1 /\ <<p>> # <<>> /\ Last(<<p>>) = p
                       /\ Chords(<<p>>) = <<>>
  <2> SUFFICES ASSUME NEW p \in Point
               PROVE  <<p>> \in Seq(Point) /\ Len(<<p>>) = 1 /\ <<p>> # <<>> /\ Last(<<p>>) = p
                      /\ Chords(<<p>>) = <<>>
    OBVIOUS
  <2>1. Chords(<<p>>) = <<>>
    BY ChordsOfOne
  <2>2. <<p>> \in Seq(Point) /\ Len(<<p>>) = 1 /\ <<p>> # <<>> /\ <<p>>[1] = p
    OBVIOUS
  <2> QED BY <2>1, <2>2 DEF Last
<1>5. Moved(path, k) # 0 => PenAt(path, k) \in Point
  BY PenFacts
<1>6. CASE o.op = "m"
  <2> DEFINE p == o.pts[1]
  <2>1. p \in Point /\ PenAt(path, k) = p /\ Moved(path, k) = k /\ k # 0
    BY <1>2, <1>6, PenFacts
  <2>2. v = [subpaths |-> ss \o LongEnough(s), current |-> <<p>>, start |-> p]
    BY <1>6 DEF CutStep, IsCurve
  <2>3. /\ ss \o LongEnough(s) \in Seq(Seq(Point))
        /\ FlattenSeq(ChordsOf(ss \o LongEnough(s))) = FlattenSeq(ChordsOf(ss)) \o Chords(s)
    BY <1>1, WalkedFacts
  <2>4. Stroke(path, k) = <<>>
    BY <1>6 DEF Stroke, IsCurve
  <2> HIDE DEF v, ss, s, p
  <2>5. v \in CutState
    BY <1>4, <2>1, <2>2, <2>3 DEF CutState
  <2>6. Stands(v, path, k)
    BY <1>4, <2>1, <2>2 DEF Stands, p, o
  <2>7. Walked(v) = Walked(w) \o <<>>
    <3>1. Walked(v) = (FlattenSeq(ChordsOf(ss)) \o Chords(s)) \o <<>>
      BY <1>4, <2>1, <2>2, <2>3 DEF Walked
    <3> QED BY <3>1 DEF Walked, ss, s
  <2> QED BY <2>4, <2>5, <2>6, <2>7 DEF v
<1>7. CASE o.op # "m" /\ s = <<>>
  <2>1. v = w
    BY <1>7 DEF CutStep
  <2>2. Moved(path, k) = 0 /\ Moved(path, k - 1) = 0
    BY <1>2, <1>7 DEF Stands
  <2>3. Stroke(path, k) = <<>>
    BY <2>2 DEF Stroke, IsCurve
  <2>4. Walked(w) \o <<>> = Walked(w)
    BY <1>3, ConcatEmptySeq
  <2>5. Stands(v, path, k)
    BY <1>7, <2>1, <2>2 DEF Stands
  <2> QED BY <2>1, <2>3, <2>4, <2>5
<1>8. CASE o.op # "m" /\ s # <<>>
  <2>1. /\ Moved(path, k) # 0 /\ Moved(path, k - 1) = Moved(path, k)
        /\ w.start = path[Moved(path, k)].pts[1] /\ Last(s) = PenAt(path, k - 1)
    BY <1>2, <1>8 DEF Stands
  <2>2. PenAt(path, k - 1) \in Point /\ PenAt(path, k) \in Point /\ w.start \in Point
    BY <1>1, <1>8, <2>1, StrokeTyped
  <2>3. ASSUME NEW t \in Seq(Point), v = [w EXCEPT !.current = s \o t],
               Last(s \o t) = PenAt(path, k),
               Chords(<<Last(s)>> \o t) = Stroke(path, k)
        PROVE  /\ v \in CutState /\ Stands(v, path, k)
               /\ Walked(v) = Walked(w) \o Stroke(path, k)
    <3>1. /\ s \o t \in Seq(Point) /\ s \o t # <<>>
          /\ FlattenSeq(ChordsOf(ss)) \o Chords(s \o t) =
               (FlattenSeq(ChordsOf(ss)) \o Chords(s)) \o Chords(<<Last(s)>> \o t)
      BY <1>1, <1>8, WalkedOn
    <3>2. /\ v.subpaths = ss /\ v.current = s \o t /\ v.start = w.start
          /\ v \in [subpaths : Seq(Seq(Point)), current : Seq(Point), start : Point \cup {<<>>}]
      <4> HIDE DEF v
      <4> QED BY <2>3, <3>1, <1>1 DEF CutState
    <3> HIDE DEF v, ss, s
    <3>3. v \in CutState
      BY <2>2, <3>2 DEF CutState
    <3>4. Stands(v, path, k)
      BY <2>1, <2>3, <3>1, <3>2 DEF Stands
    <3>5. Walked(v) = Walked(w) \o Stroke(path, k)
      BY <2>3, <3>1, <3>2 DEF Walked, ss, s
    <3> QED BY <3>3, <3>4, <3>5
  <2>4. CASE o.op = "l"
    <3> DEFINE p == o.pts[1]  t == <<p>>
    <3>1. p \in Point /\ PenAt(path, k) = p
      BY <2>1, <2>4, PenFacts
    <3>2. t \in Seq(Point) /\ Len(t) = 1 /\ t[1] = p
      BY <3>1
    <3>3. v = [w EXCEPT !.current = s \o t]
      <4>1. v = [w EXCEPT !.current = Append(s, p)]
        BY <1>8, <2>4 DEF CutStep, IsCurve
      <4>2. Append(s, p) = s \o t
        BY <1>1, <3>1, AppendIsConcat
      <4> QED BY <4>1, <4>2
    <3>4. Last(s \o t) = p
      <4>1. Append(s, p) = s \o t /\ Len(Append(s, p)) = Len(s) + 1 /\ Append(s, p)[Len(s) + 1] = p
        <5> HIDE DEF s, p
        <5>1. s \in Seq(Point) /\ p \in Point
          BY <1>1, <3>1
        <5> QED BY <5>1, AppendIsConcat, AppendProperties
      <4> HIDE DEF t, s, p
      <4> QED BY <4>1 DEF Last
    <3>5. Chords(<<Last(s)>> \o t) = Stroke(path, k)
      <4>1. <<Last(s)>> \o t = <<Last(s), p>>
        BY <2>1, <2>2, <3>1, PairJoined
      <4>2. Chords(<<Last(s), p>>) = <<<<Last(s), p>>>>
        BY <2>1, <2>2, <3>1, ChordsOfTwo
      <4>3. Stroke(path, k) = <<<<PenAt(path, k - 1), PenAt(path, k)>>>>
        BY <1>8, <2>1, <2>4 DEF Stroke, IsCurve
      <4> HIDE DEF s, p, t
      <4> QED BY <2>1, <3>1, <4>1, <4>2, <4>3
    <3> HIDE DEF t, v, p
    <3> QED BY <2>3, <3>1, <3>2, <3>3, <3>4, <3>5 DEF v
  <2>5. CASE IsCurve(o)
    <3> DEFINE c == CurvePoints(Last(s), o)  t == Tail(c)
    <3>1. /\ c \in Seq(Point) /\ Len(c) >= 2 /\ c[1] = Last(s)
          /\ Last(c) = PenAt(path, k)
      <4>1. PenAt(path, k) = Last(o.pts)
        BY <2>1, <2>5, PenFacts
      <4>2. Last(s) \in Point
        BY <2>1, <2>2
      <4> HIDE DEF s
      <4> QED BY <1>1, <2>5, <4>1, <4>2, CurveFacts
    <3>2. v = [w EXCEPT !.current = s \o t]
      BY <1>8, <2>5 DEF CutStep, IsCurve
    <3>3. Stroke(path, k) = Chords(c)
      BY <1>8, <2>1, <2>5 DEF Stroke
    <3> HIDE DEF c
    <3>4. /\ t \in Seq(Point) /\ Len(t) = Len(c) - 1 /\ Len(c) \in Nat
          /\ \A i \in 1..Len(t) : t[i] = c[i + 1]
      <4>1. c # <<>>
        BY <3>1
      <4> QED BY <3>1, <4>1, HeadTailProperties
    <3> HIDE DEF t
    <3>5. <<Last(s)>> \o t = c
      <4> DEFINE u == <<Last(s)>>
      <4>1. u \in Seq(Point) /\ Len(u) = 1 /\ u[1] = c[1]
        BY <2>1, <2>2, <3>1
      <4> HIDE DEF u
      <4>2. /\ u \o t \in Seq(Point) /\ Len(u \o t) = Len(u) + Len(t)
            /\ \A i \in 1..Len(u) + Len(t) : (u \o t)[i] = IF i <= Len(u) THEN u[i] ELSE t[i - Len(u)]
        <5>1. t \in Seq(Point)
          BY <3>4
        <5> QED BY <4>1, <5>1, ConcatProperties
      <4>3. Len(u \o t) = Len(c)
        BY <3>1, <3>4, <4>1, <4>2
      <4>4. ASSUME NEW i \in 1..Len(c) PROVE (u \o t)[i] = c[i]
        <5>1. CASE i = 1
          BY <3>1, <3>4, <4>1, <4>2, <5>1
        <5>2. CASE i # 1
          <6>1. i \in 1..Len(u) + Len(t) /\ ~ (i <= Len(u)) /\ i - Len(u) = i - 1 /\ i - 1 \in 1..Len(t)
                /\ (i - 1) + 1 = i
            BY <3>1, <3>4, <4>1, <5>2
          <6> QED BY <3>4, <4>2, <6>1
        <5> QED BY <5>1, <5>2
      <4>5. u \o t = c
        BY <3>1, <4>2, <4>3, <4>4, SeqEqual
      <4> QED BY <4>5 DEF u
    <3>6. Last(s \o t) = PenAt(path, k)
      <4>1. /\ Len(s \o t) = Len(s) + Len(t) /\ Len(s) \in Nat
            /\ \A i \in 1..Len(s) + Len(t) : (s \o t)[i] = IF i <= Len(s) THEN s[i] ELSE t[i - Len(s)]
        <5>1. t \in Seq(Point) /\ s \in Seq(Point)
          BY <1>1, <3>4
        <5> HIDE DEF s
        <5> QED BY <5>1, ConcatProperties
      <4>2. /\ Len(s) + Len(t) \in 1..Len(s) + Len(t) /\ ~ (Len(s) + Len(t) <= Len(s))
            /\ (Len(s) + Len(t)) - Len(s) = Len(t) /\ Len(t) \in 1..Len(t) /\ Len(t) + 1 = Len(c)
        BY <3>1, <3>4, <4>1
      <4> HIDE DEF s
      <4>3. (s \o t)[Len(s) + Len(t)] = t[Len(t)] /\ t[Len(t)] = c[Len(c)]
        BY <3>4, <4>1, <4>2
      <4> QED BY <3>1, <4>1, <4>3 DEF Last
    <3> HIDE DEF v
    <3> QED BY <2>3, <3>2, <3>3, <3>4, <3>5, <3>6 DEF v
  <2>6. CASE o.op = "h"
    <3> DEFINE st == w.start  u == Append(s, st)
    <3>1. PenAt(path, k) = st
      BY <2>1, <2>6, PenFacts
    <3>2. v = [w EXCEPT !.subpaths = Append(ss, u), !.current = <<st>>]
      BY <1>8, <2>6 DEF CutStep, AfterClose, IsCurve
    <3>3. /\ u = s \o <<st>> /\ u \in Seq(Point) /\ <<st>> \in Seq(Point)
          /\ Append(ss, u) \in Seq(Seq(Point))
      <4>1. u = s \o <<st>> /\ u \in Seq(Point) /\ <<st>> \in Seq(Point)
        BY <1>1, <2>2, AppendIsConcat, AppendProperties, SMTT(30)
      <4> HIDE DEF u, ss, s
      <4> QED BY <4>1, <1>1, AppendProperties
    <3>4. FlattenSeq(ChordsOf(Append(ss, u))) = FlattenSeq(ChordsOf(ss)) \o Chords(u)
      <4> HIDE DEF u, ss
      <4> QED BY <1>1, <3>3, WalkedFacts
    <3>5. FlattenSeq(ChordsOf(ss)) \o Chords(u) =
            (FlattenSeq(ChordsOf(ss)) \o Chords(s)) \o Chords(<<Last(s)>> \o <<st>>)
      <4> HIDE DEF u, ss, s
      <4> QED BY <1>1, <1>8, <3>3, WalkedOn
    <3>6. Chords(<<Last(s)>> \o <<st>>) = Stroke(path, k)
      <4>1. <<Last(s)>> \o <<st>> = <<Last(s), st>>
        BY <2>1, <2>2, PairJoined
      <4>2. Chords(<<Last(s), st>>) = <<<<Last(s), st>>>>
        BY <2>1, <2>2, ChordsOfTwo
      <4>3. Stroke(path, k) = <<<<PenAt(path, k - 1), PenAt(path, k)>>>>
        BY <1>8, <2>1, <2>6 DEF Stroke, IsCurve
      <4> HIDE DEF s, st
      <4> QED BY <2>1, <3>1, <4>1, <4>2, <4>3
    <3>7. /\ v.subpaths = Append(ss, u) /\ v.current = <<st>> /\ v.start = st
          /\ v \in [subpaths : Seq(Seq(Point)), current : Seq(Point), start : Point \cup {<<>>}]
      <4> HIDE DEF v, u, ss
      <4> QED BY <3>2, <3>3 DEF CutState
    <3>8. st \in Point
      BY <2>2
    <3> HIDE DEF v, u, ss, s, st
    <3>9. v \in CutState
      BY <3>7, <3>8 DEF CutState
    <3>10. Stands(v, path, k)
      BY <1>4, <2>1, <3>1, <3>7, <3>8 DEF Stands, st
    <3>11. Walked(v) = Walked(w) \o Stroke(path, k)
      <4>1. Walked(v) = ((FlattenSeq(ChordsOf(ss)) \o Chords(s)) \o Stroke(path, k)) \o <<>>
        BY <1>4, <3>4, <3>5, <3>6, <3>7, <3>8 DEF Walked
      <4>2. Walked(w) \o Stroke(path, k) \in Seq(Line)
        BY <1>3, StrokeTyped, ConcatProperties
      <4>3. Walked(w) = FlattenSeq(ChordsOf(ss)) \o Chords(s)
        BY DEF Walked, ss, s
      <4> QED BY <4>1, <4>2, <4>3, ConcatEmptySeq
    <3> QED BY <3>9, <3>10, <3>11 DEF v
  <2> QED BY <1>1, <1>8, <2>4, <2>5, <2>6 DEF Operator, IsCurve
<1> QED BY <1>6, <1>7, <1>8

Strokes(path) == [k \in DOMAIN path |-> Stroke(path, k)]

(* What a path draws is what it drew up to its last operator, and this.    *)
LEMMA StrokesFacts ==
  ASSUME NEW path \in Seq(Operator)
  PROVE  /\ Strokes(path) \in Seq(Seq(Line)) /\ Len(Strokes(path)) = Len(path)
         /\ DrawnBy(path) = FlattenSeq(UpTo(Strokes(path), Len(path)))
         /\ DrawnBy(path) \in Seq(Line)
         /\ FlattenSeq(UpTo(Strokes(path), 0)) = <<>>
         /\ \A k \in 1..Len(path) :
              FlattenSeq(UpTo(Strokes(path), k)) =
                FlattenSeq(UpTo(Strokes(path), k - 1)) \o Stroke(path, k)
<1> DEFINE n == Len(path)  L == Seq(Line)  ss == Strokes(path)
<1>1. \A k \in 1..n : Stroke(path, k) \in L
  BY StrokeTyped
<1>2. ss = [k \in 1..n |-> Stroke(path, k)] /\ n \in Nat
  BY DEF Strokes
<1>3. ss \in Seq(L) /\ Len(ss) = n /\ \A k \in 1..n : ss[k] = Stroke(path, k)
  <2> HIDE DEF n, L, ss
  <2> QED BY <1>1, <1>2, IsASeq
<1> HIDE DEF ss
<1>4. UpTo(ss, n) = ss /\ UpTo(ss, 0) = <<>>
  <2> HIDE DEF n, L
  <2> QED BY <1>2, <1>3, UpToNext
<1>5. DrawnBy(path) = FlattenSeq(ss)
  BY DEF DrawnBy, ss, Strokes
<1>6. FlattenSeq(ss) \in L
  BY <1>3, FlattenElements
<1>7. ASSUME NEW k \in 1..n
      PROVE  FlattenSeq(UpTo(ss, k)) = FlattenSeq(UpTo(ss, k - 1)) \o Stroke(path, k)
  <2>1. k - 1 \in 0..n - 1 /\ k - 1 \in 0..n /\ (k - 1) + 1 = k
    BY <1>2
  <2>2. UpTo(ss, k) = Append(UpTo(ss, k - 1), ss[k]) /\ UpTo(ss, k - 1) \in Seq(L)
    <3>1. /\ UpTo(ss, (k - 1) + 1) = Append(UpTo(ss, k - 1), ss[(k - 1) + 1])
          /\ UpTo(ss, k - 1) \in Seq(L)
      <4> HIDE DEF n, L
      <4> QED BY <1>3, <2>1, UpToNext
    <3> QED BY <2>1, <3>1
  <2>3. ss[k] \in L /\ ss[k] = Stroke(path, k)
    BY <1>1, <1>3
  <2> QED BY <2>2, <2>3, FlattenAppend
<1> QED BY <1>3, <1>4, <1>5, <1>6, <1>7, FlattenEmpty DEF ss

(* The walk of cut_extract.py finds what the path draws.                   *)
LEMMA CutWalkDraws ==
  ASSUME NEW path \in Seq(Operator)
  PROVE  CutWalk(path) = DrawnBy(path)
<1> DEFINE n == Len(path)
           c == [subpaths |-> <<>>, current |-> <<>>, start |-> <<>>]
           Fine(k) == {w \in CutState :
                         /\ Stands(w, path, k)
                         /\ Walked(w) = FlattenSeq(UpTo(Strokes(path), k))}
           Body(f, k) == IF k = 0 THEN c ELSE CutStep(f[k - 1], path[k])
           walk == CHOOSE f : f = [k \in 0..n |-> Body(f, k)]
           step == [k \in 1..n |-> [w \in CutState |->
                      IF Stands(w, path, k - 1) THEN CutStep(w, path[k]) ELSE w]]
<1>1. n \in Nat /\ c \in CutState
  BY DEF CutState
<1>2. c \in Fine(0)
  <2>1. Stands(c, path, 0)
    BY MovedFacts DEF Stands
  <2>2. Walked(c) = <<>>
    <3>1. ChordsOf(<<>>) = <<>> /\ Chords(<<>>) = <<>>
      BY DEF ChordsOf, Chords
    <3> QED BY <3>1, FlattenEmpty DEF Walked
  <2> QED BY <1>1, <2>1, <2>2, StrokesFacts
<1>3. ASSUME NEW k \in 1..n, NEW w \in Fine(k - 1)
      PROVE  CutStep(w, path[k]) \in Fine(k)
  <2>1. w \in CutState /\ Stands(w, path, k - 1) /\ Walked(w) = FlattenSeq(UpTo(Strokes(path), k - 1))
    BY <1>3
  <2>2. /\ CutStep(w, path[k]) \in CutState
        /\ Stands(CutStep(w, path[k]), path, k)
        /\ Walked(CutStep(w, path[k])) = Walked(w) \o Stroke(path, k)
    BY <2>1, CutStepDraws
  <2>3. FlattenSeq(UpTo(Strokes(path), k)) = FlattenSeq(UpTo(Strokes(path), k - 1)) \o Stroke(path, k)
    BY StrokesFacts
  <2> QED BY <2>1, <2>2, <2>3
<1>4. step \in [1..n -> [CutState -> CutState]]
  <2>1. ASSUME NEW k \in 1..n, NEW w \in CutState, Stands(w, path, k - 1)
        PROVE  CutStep(w, path[k]) \in CutState
    BY <2>1, CutStepDraws
  <2> QED BY <2>1
<1>5. PICK f \in [0..n -> CutState] : Recurs(f, c, step, n)
  <2> HIDE DEF c, step, n
  <2> QED BY <1>1, <1>4, RecursionExists
<1> DEFINE K == {k \in 0..n : f[k] \in Fine(k) /\ f[k] = Body(f, k)}
<1>6. 0 \in K
  <2>1. f[0] = c /\ 0 \in 0..n
    BY <1>1, <1>5 DEF Recurs
  <2> HIDE DEF c, Fine, n
  <2> QED BY <1>2, <2>1
<1>7. ASSUME NEW k \in 0..n - 1, k \in K PROVE k + 1 \in K
  <2>1. k + 1 \in 1..n /\ k + 1 \in 0..n /\ (k + 1) - 1 = k /\ k + 1 # 0
    BY <1>1
  <2>2. f[k] \in Fine(k)
    BY <1>7
  <2>3. f[k] \in CutState /\ Stands(f[k], path, k)
    BY <2>2
  <2>4. f[k + 1] = CutStep(f[k], path[k + 1])
    <3>1. f[k + 1] = step[k + 1][f[k]]
      <4> HIDE DEF step, n, c
      <4> QED BY <1>5, <2>1 DEF Recurs
    <3> QED BY <2>1, <2>3, <3>1
  <2>5. f[k + 1] \in Fine(k + 1)
    <3> DEFINE j == k + 1
    <3>1. j \in 1..n /\ f[k] \in Fine(j - 1)
      <4> HIDE DEF Fine, n
      <4> QED BY <2>1, <2>2
    <3> HIDE DEF Fine, n
    <3>2. CutStep(f[k], path[j]) \in Fine(j)
      <4> HIDE DEF j
      <4> QED BY <3>1, <1>3
    <3> QED BY <2>4, <3>2
  <2>6. f[k + 1] = Body(f, k + 1)
    <3> HIDE DEF n
    <3> QED BY <2>1, <2>4
  <2> HIDE DEF Fine, Body, n
  <2> QED BY <2>1, <2>5, <2>6
<1>8. 0..n \subseteq K
  <2> HIDE DEF K, n
  <2> QED BY <1>1, <1>6, <1>7, InductionTo
<1>9. f = [k \in 0..n |-> Body(f, k)]
  <2>1. \A k \in 0..n : f[k] = Body(f, k)
    BY <1>8
  <2> HIDE DEF Body, n
  <2> QED BY <1>5, <2>1
<1>10. walk = [k \in 0..n |-> Body(walk, k)]
  <2> HIDE DEF Body, n
  <2> QED BY <1>9
<1>11. Alike(walk, f, n)
  <2>1. \A k \in 0..n : walk[k] = Body(walk, k) /\ f[k] = Body(f, k)
    <3>1. \A k \in 0..n : f[k] = Body(f, k)
      BY <1>8
    <3> HIDE DEF Body, n, walk
    <3> QED BY <1>10, <3>1
  <2>2. walk[0] = f[0]
    <3>1. 0 \in 0..n
      BY <1>1
    <3> HIDE DEF walk, n, c
    <3> QED BY <2>1, <3>1
  <2>3. ASSUME NEW k \in 1..n, walk[k - 1] = f[k - 1] PROVE walk[k] = f[k]
    <3>1. k \in 0..n /\ k # 0
      BY <1>1
    <3> HIDE DEF walk, n, c
    <3> QED BY <2>1, <2>3, <3>1
  <2> HIDE DEF walk, n
  <2> QED BY <2>2, <2>3 DEF Alike
<1>12. walk[n] = f[n] /\ f[n] \in Fine(n)
  <2>1. n \in 0..n
    BY <1>1
  <2>2. f[n] \in Fine(n)
    <3> HIDE DEF Fine, n, Body
    <3> QED BY <1>8, <2>1
  <2> HIDE DEF walk, n, Fine
  <2> QED BY <1>1, <1>11, <2>1, <2>2, RecursionUnique
<1> DEFINE end == walk[n]  subpaths == end.subpaths \o LongEnough(end.current)
<1>13. CutWalk(path) = FlattenSeq(ChordsOf(subpaths))
  BY DEF CutWalk, ChordsOf
<1> HIDE DEF walk
<1>14. FlattenSeq(ChordsOf(subpaths)) = Walked(end)
  <2>1. end.subpaths \in Seq(Seq(Point)) /\ end.current \in Seq(Point)
    BY <1>12 DEF CutState
  <2> HIDE DEF end
  <2> QED BY <2>1, WalkedFacts DEF Walked
<1> QED BY <1>12, <1>13, <1>14, StrokesFacts

-----------------------------------------------------------------------------
(* The walk of pdf_to_gpgl.py                                              *)

LEMMA OperatorPoints ==
  ASSUME NEW o \in Operator
  PROVE  /\ o.pts \in Seq(Point)
         /\ o = [op |-> o.op, pts |-> o.pts]
<1>1. \/ o.pts \in [1..1 -> Point] \/ o.pts = <<>>
      \/ o.pts \in [1..3 -> Point] \/ o.pts \in [1..2 -> Point]
  BY DEF Operator
<1>2. o.pts \in Seq(Point)
  BY <1>1, PointsInSeq, EmptySeq
<1>3. o = [op |-> o.op, pts |-> o.pts]
  BY DEF Operator
<1> QED BY <1>2, <1>3

(* A path that is measured from the top and back from the bottom is the    *)
(* same.                                                                   *)
LEMMA FlippedTwice ==
  ASSUME NEW o \in Operator, NEW height \in Int
  PROVE  Flipped(Flipped(o, height), height) = o
<1> DEFINE p == o.pts
           q == [i \in DOMAIN p |-> Flip(p[i], height)]
           r == [i \in DOMAIN q |-> Flip(q[i], height)]
<1>1. p \in Seq(Point) /\ o = [op |-> o.op, pts |-> p] /\ DOMAIN p = 1..Len(p)
  BY OperatorPoints
<1>2. Flipped(o, height) = [op |-> o.op, pts |-> q]
  <2> DEFINE x == o.op
  <2>1. o = [op |-> x, pts |-> p]
    BY <1>1
  <2>2. Flipped(o, height) = [o EXCEPT !.pts = q]
    BY DEF Flipped
  <2> HIDE DEF p, q, x
  <2>3. Flipped(o, height) = [op |-> x, pts |-> q]
    BY <2>1, <2>2
  <2> QED BY <2>3 DEF x
<1>3. Flipped(Flipped(o, height), height) = [op |-> o.op, pts |-> r]
  <2> DEFINE x == o.op  g == Flipped(o, height)
  <2>1. g = [op |-> x, pts |-> q] /\ g.pts = q
    BY <1>2
  <2>2. Flipped(g, height) = [g EXCEPT !.pts = [i \in DOMAIN g.pts |-> Flip(g.pts[i], height)]]
    BY DEF Flipped
  <2> HIDE DEF g, x, p, q
  <2>3. Flipped(g, height) = [op |-> x, pts |-> r]
    BY <2>1, <2>2
  <2> QED BY <2>3 DEF x, g
<1>4. r = p
  <2>1. \A i \in DOMAIN p : p[i] \in Point
    BY <1>1
  <2> HIDE DEF p
  <2>2. \A i \in DOMAIN p : Flip(Flip(p[i], height), height) = p[i]
    BY <2>1 DEF Flip, Point
  <2>3. r = [i \in DOMAIN p |-> p[i]]
    BY <2>2
  <2>4. p = [i \in DOMAIN p |-> p[i]]
    BY <1>1
  <2> QED BY <2>3, <2>4
<1> QED BY <1>1, <1>3, <1>4

CurveState ==
  {w \in [segments : Seq(Line), current : Seq(Point), start : Point \cup {<<>>}] :
     w.current # <<>> => Len(w.current) = 1 /\ w.start \in Point}

(* One operator takes the walk on as it takes the path on, and adds what   *)
(* it draws.                                                               *)
LEMMA CurveStepDraws ==
  ASSUME NEW path \in Seq(Operator), NEW k \in 1..Len(path), NEW w \in CurveState,
         Stands(w, path, k - 1)
  PROVE  /\ CurveStep(w, path[k]) \in CurveState
         /\ Stands(CurveStep(w, path[k]), path, k)
         /\ CurveStep(w, path[k]).segments = w.segments \o Stroke(path, k)
<1> DEFINE o == path[k]  v == CurveStep(w, o)  s == w.current
<1>1. /\ o \in Operator /\ w.segments \in Seq(Line) /\ s \in Seq(Point)
      /\ s # <<>> => w.start \in Point /\ Len(s) = 1
  BY DEF CurveState
<1>2. Moved(path, k) = IF o.op = "m" THEN k ELSE Moved(path, k - 1)
  BY MovedFacts
<1>3. ASSUME NEW p \in Point, NEW st \in Point, p = PenAt(path, k), Moved(path, k) # 0,
             st = path[Moved(path, k)].pts[1], NEW t \in Seq(Line),
             v = [segments |-> w.segments \o t, current |-> <<p>>, start |-> st],
             t = Stroke(path, k)
      PROVE  /\ v \in CurveState /\ Stands(v, path, k)
             /\ v.segments = w.segments \o Stroke(path, k)
  <2>1. w.segments \o t \in Seq(Line)
    BY <1>1, ConcatProperties
  <2>2. <<p>> \in Seq(Point) /\ Len(<<p>>) = 1 /\ <<p>> # <<>> /\ <<p>>[1] = p
    OBVIOUS
  <2>3. /\ v.segments = w.segments \o t /\ v.current = <<p>> /\ v.start = st
        /\ v \in [segments : Seq(Line), current : Seq(Point), start : Point \cup {<<>>}]
    <3> HIDE DEF v
    <3> QED BY <1>3, <2>1, <2>2
  <2> HIDE DEF v
  <2> QED BY <1>3, <2>2, <2>3 DEF CurveState, Stands, Last
<1>4. w = [segments |-> w.segments, current |-> s, start |-> w.start]
  BY DEF CurveState
<1>5. CASE o.op = "m"
  <2> DEFINE p == o.pts[1]
  <2>1. p \in Point /\ PenAt(path, k) = p /\ Moved(path, k) = k /\ k # 0
    BY <1>2, <1>5, PenFacts
  <2>2. Stroke(path, k) = <<>> /\ <<>> \in Seq(Line)
    BY <1>5 DEF Stroke, IsCurve
  <2>3. w.segments \o <<>> = w.segments
    BY <1>1, ConcatEmptySeq
  <2>4. v = [w EXCEPT !.current = <<p>>, !.start = p]
    BY <1>5 DEF CurveStep, IsCurve
  <2>5. v = [segments |-> w.segments \o <<>>, current |-> <<p>>, start |-> p]
    <3> DEFINE z == w.segments  y == w.start
    <3>1. w = [segments |-> z, current |-> s, start |-> y] /\ z \o <<>> = z
      BY <1>4, <2>3
    <3> HIDE DEF v, p, s, z, y
    <3>2. v = [segments |-> z, current |-> <<p>>, start |-> p]
      BY <2>4, <3>1
    <3> QED BY <3>1, <3>2 DEF z
  <2>6. p = path[Moved(path, k)].pts[1]
    BY <2>1
  <2> HIDE DEF v, p
  <2> QED BY <1>3, <2>1, <2>2, <2>5, <2>6 DEF v
<1>6. CASE o.op # "m" /\ s = <<>>
  <2>1. v = w
    BY <1>6 DEF CurveStep
  <2>2. Moved(path, k) = 0 /\ Moved(path, k - 1) = 0
    BY <1>2, <1>6 DEF Stands
  <2>3. Stroke(path, k) = <<>>
    BY <2>2 DEF Stroke, IsCurve
  <2>4. w.segments \o <<>> = w.segments
    BY <1>1, ConcatEmptySeq
  <2>5. Stands(v, path, k)
    BY <1>6, <2>1, <2>2 DEF Stands
  <2> QED BY <2>1, <2>3, <2>4, <2>5
<1>7. CASE o.op # "m" /\ s # <<>>
  <2>1. /\ Moved(path, k) # 0 /\ Moved(path, k - 1) = Moved(path, k)
        /\ w.start = path[Moved(path, k)].pts[1] /\ s[1] = PenAt(path, k - 1)
    BY <1>1, <1>2, <1>7 DEF Stands, Last
  <2>2. /\ PenAt(path, k - 1) \in Point /\ PenAt(path, k) \in Point /\ w.start \in Point
        /\ s[1] \in Point
    BY <1>1, <1>7, <2>1, StrokeTyped
  <2>3. ASSUME NEW p \in Point, p = PenAt(path, k), NEW t \in Seq(Line),
               v = [w EXCEPT !.segments = @ \o t, !.current = <<p>>],
               t = Stroke(path, k)
        PROVE  /\ v \in CurveState /\ Stands(v, path, k)
               /\ v.segments = w.segments \o Stroke(path, k)
    <3> DEFINE z == w.segments  y == w.start
    <3>1. v = [segments |-> z \o t, current |-> <<p>>, start |-> y]
      <4>1. w = [segments |-> z, current |-> s, start |-> y]
        BY <1>4
      <4>2. v = [w EXCEPT !.segments = z \o t, !.current = <<p>>]
        BY <2>3
      <4> HIDE DEF v, s, z, y
      <4> QED BY <4>1, <4>2
    <3> HIDE DEF v
    <3> QED BY <1>3, <2>1, <2>2, <2>3, <3>1
  <2>4. CASE o.op = "l"
    <3> DEFINE p == o.pts[1]  l == <<s[1], p>>
    <3>1. p \in Point /\ PenAt(path, k) = p
      BY <2>1, <2>4, PenFacts
    <3>2. l \in Line /\ <<l>> \in Seq(Line)
      BY <2>2, <3>1 DEF Line
    <3>3. v = [w EXCEPT !.segments = Append(@, l), !.current = <<p>>]
      BY <1>7, <2>4 DEF CurveStep, IsCurve
    <3>4. Append(w.segments, l) = w.segments \o <<l>>
      <4> HIDE DEF l
      <4> QED BY <1>1, <3>2, AppendIsConcat
    <3>5. <<l>> = Stroke(path, k)
      BY <1>7, <2>1, <2>4, <3>1 DEF Stroke, IsCurve
    <3> HIDE DEF v, l, p
    <3>6. v = [w EXCEPT !.segments = @ \o <<l>>, !.current = <<p>>]
      BY <3>3, <3>4
    <3> QED BY <2>3, <3>1, <3>2, <3>5, <3>6 DEF v
  <2>5. CASE IsCurve(o)
    <3> DEFINE p == Last(o.pts)  t == Chords(CurvePoints(s[1], o))
    <3>1. p \in Point /\ PenAt(path, k) = p
      BY <2>1, <2>2, <2>5, PenFacts
    <3>2. t \in Seq(Line)
      <4>1. CurvePoints(s[1], o) \in Seq(Point)
        BY <1>1, <2>2, <2>5, CurveFacts
      <4> QED BY <4>1, ChordsFacts DEF Line
    <3>3. v = [w EXCEPT !.segments = @ \o t, !.current = <<p>>]
      BY <1>7, <2>5 DEF CurveStep, IsCurve
    <3>4. t = Stroke(path, k)
      BY <1>7, <2>1, <2>5 DEF Stroke
    <3> HIDE DEF v, t, p
    <3> QED BY <2>3, <3>1, <3>2, <3>3, <3>4 DEF v
  <2>6. CASE o.op = "h"
    <3> DEFINE p == w.start  l == <<s[1], p>>
    <3>1. p \in Point /\ PenAt(path, k) = p
      BY <2>1, <2>2, <2>6, PenFacts
    <3>2. l \in Line /\ <<l>> \in Seq(Line)
      BY <2>2, <3>1 DEF Line
    <3>3. v = [w EXCEPT !.segments = Append(@, l), !.current = <<p>>]
      BY <1>7, <2>6 DEF CurveStep, IsCurve
    <3>4. Append(w.segments, l) = w.segments \o <<l>>
      <4> HIDE DEF l
      <4> QED BY <1>1, <3>2, AppendIsConcat
    <3>5. <<l>> = Stroke(path, k)
      BY <1>7, <2>1, <2>6, <3>1 DEF Stroke, IsCurve
    <3> HIDE DEF v, l, p
    <3>6. v = [w EXCEPT !.segments = @ \o <<l>>, !.current = <<p>>]
      BY <3>3, <3>4
    <3> QED BY <2>3, <3>1, <3>2, <3>5, <3>6 DEF v
  <2> QED BY <1>1, <1>7, <2>4, <2>5, <2>6 DEF Operator, IsCurve
<1> QED BY <1>5, <1>6, <1>7

(* The walk of pdf_to_gpgl.py finds what the path draws.                   *)
LEMMA CurveWalkDraws ==
  ASSUME NEW path \in Seq(Operator), NEW height \in Int
  PROVE  CurveWalk(path, height) = DrawnBy(path)
<1> DEFINE n == Len(path)
           page == TopBased(path, height)
           c == [segments |-> <<>>, current |-> <<>>, start |-> <<>>]
           Fine(k) == {w \in CurveState :
                         /\ Stands(w, path, k)
                         /\ w.segments = FlattenSeq(UpTo(Strokes(path), k))}
           Body(f, k) == IF k = 0 THEN c ELSE CurveStep(f[k - 1], Flipped(page[k], height))
           walk == CHOOSE f : f = [k \in 0..n |-> Body(f, k)]
           step == [k \in 1..n |-> [w \in CurveState |->
                      IF Stands(w, path, k - 1) THEN CurveStep(w, path[k]) ELSE w]]
<1>1. n \in Nat /\ c \in CurveState
  BY DEF CurveState
<1>2. c \in Fine(0)
  <2>1. Stands(c, path, 0)
    BY MovedFacts DEF Stands
  <2> QED BY <1>1, <2>1, StrokesFacts
<1>3. ASSUME NEW k \in 1..n, NEW w \in Fine(k - 1)
      PROVE  CurveStep(w, path[k]) \in Fine(k)
  <2>1. w \in CurveState /\ Stands(w, path, k - 1) /\ w.segments = FlattenSeq(UpTo(Strokes(path), k - 1))
    BY <1>3
  <2>2. /\ CurveStep(w, path[k]) \in CurveState
        /\ Stands(CurveStep(w, path[k]), path, k)
        /\ CurveStep(w, path[k]).segments = w.segments \o Stroke(path, k)
    BY <2>1, CurveStepDraws
  <2>3. FlattenSeq(UpTo(Strokes(path), k)) = FlattenSeq(UpTo(Strokes(path), k - 1)) \o Stroke(path, k)
    BY StrokesFacts
  <2> QED BY <2>1, <2>2, <2>3
<1>4. step \in [1..n -> [CurveState -> CurveState]]
  <2>1. ASSUME NEW k \in 1..n, NEW w \in CurveState, Stands(w, path, k - 1)
        PROVE  CurveStep(w, path[k]) \in CurveState
    BY <2>1, CurveStepDraws
  <2> QED BY <2>1
<1>5. PICK f \in [0..n -> CurveState] : Recurs(f, c, step, n)
  <2> HIDE DEF c, step, n
  <2> QED BY <1>1, <1>4, RecursionExists
<1>0. \A k \in 1..n : Flipped(page[k], height) = path[k]
  <2>1. \A k \in 1..n : page[k] = Flipped(path[k], height) /\ path[k] \in Operator
    BY DEF TopBased
  <2> HIDE DEF page, n
  <2> QED BY <2>1, FlippedTwice
<1> DEFINE K == {k \in 0..n : f[k] \in Fine(k) /\ f[k] = Body(f, k)}
<1>6. 0 \in K
  <2>1. f[0] = c /\ 0 \in 0..n
    BY <1>1, <1>5 DEF Recurs
  <2> HIDE DEF c, Fine, n
  <2> QED BY <1>2, <2>1
<1>7. ASSUME NEW k \in 0..n - 1, k \in K PROVE k + 1 \in K
  <2>1. k + 1 \in 1..n /\ k + 1 \in 0..n /\ (k + 1) - 1 = k /\ k + 1 # 0
    BY <1>1
  <2>2. f[k] \in Fine(k)
    BY <1>7
  <2>3. f[k] \in CurveState /\ Stands(f[k], path, k)
    BY <2>2
  <2>4. f[k + 1] = CurveStep(f[k], path[k + 1])
    <3>1. f[k + 1] = step[k + 1][f[k]]
      <4> HIDE DEF step, n, c
      <4> QED BY <1>5, <2>1 DEF Recurs
    <3> QED BY <2>1, <2>3, <3>1
  <2>5. f[k + 1] \in Fine(k + 1)
    <3> DEFINE j == k + 1
    <3>1. j \in 1..n /\ f[k] \in Fine(j - 1)
      <4> HIDE DEF Fine, n
      <4> QED BY <2>1, <2>2
    <3> HIDE DEF Fine, n
    <3>2. CurveStep(f[k], path[j]) \in Fine(j)
      <4> HIDE DEF j
      <4> QED BY <3>1, <1>3
    <3> QED BY <2>4, <3>2
  <2>6. f[k + 1] = Body(f, k + 1)
    <3> HIDE DEF n, page
    <3> QED BY <1>0, <2>1, <2>4
  <2> HIDE DEF Fine, Body, n
  <2> QED BY <2>1, <2>5, <2>6
<1>8. 0..n \subseteq K
  <2> HIDE DEF K, n
  <2> QED BY <1>1, <1>6, <1>7, InductionTo
<1>9. f = [k \in 0..n |-> Body(f, k)]
  <2>1. \A k \in 0..n : f[k] = Body(f, k)
    BY <1>8
  <2> HIDE DEF Body, n
  <2> QED BY <1>5, <2>1
<1>10. walk = [k \in 0..n |-> Body(walk, k)]
  <2> HIDE DEF Body, n
  <2> QED BY <1>9
<1>11. Alike(walk, f, n)
  <2>1. \A k \in 0..n : walk[k] = Body(walk, k) /\ f[k] = Body(f, k)
    <3>1. \A k \in 0..n : f[k] = Body(f, k)
      BY <1>8
    <3> HIDE DEF Body, n, walk
    <3> QED BY <1>10, <3>1
  <2>2. walk[0] = f[0]
    <3>1. 0 \in 0..n
      BY <1>1
    <3> HIDE DEF walk, n, c, page
    <3> QED BY <2>1, <3>1
  <2>3. ASSUME NEW k \in 1..n, walk[k - 1] = f[k - 1] PROVE walk[k] = f[k]
    <3>1. k \in 0..n /\ k # 0
      BY <1>1
    <3> HIDE DEF walk, n, c, page
    <3> QED BY <2>1, <2>3, <3>1
  <2> HIDE DEF walk, n
  <2> QED BY <2>2, <2>3 DEF Alike
<1>12. walk[n] = f[n] /\ f[n] \in Fine(n)
  <2>1. n \in 0..n
    BY <1>1
  <2>2. f[n] \in Fine(n)
    <3> HIDE DEF Fine, n, Body
    <3> QED BY <1>8, <2>1
  <2> HIDE DEF walk, n, Fine
  <2> QED BY <1>1, <1>11, <2>1, <2>2, RecursionUnique
<1>13. CurveWalk(path, height) = walk[n].segments
  BY DEF CurveWalk
<1> HIDE DEF walk
<1> QED BY <1>12, <1>13, StrokesFacts

-----------------------------------------------------------------------------
(* The lines of a page                                                     *)

(* The same line, in either direction.                                     *)
Alongside(s, t) == s = t \/ s = Reversed(t)

(* Every line of A that is not a point is one of B, in either direction.   *)
Covers(B, A) ==
  \A s \in ToSet(A) : s[1] = s[2] \/ \E t \in ToSet(B) : Alongside(s, t)

SameLines(A, B) == Covers(A, B) /\ Covers(B, A)

LEMMA SameAsItself == \A A : SameLines(A, A)
BY DEF SameLines, Covers, Alongside

LEMMA BoundsOfTwo ==
  ASSUME NEW a \in Int, NEW b \in Int
  PROVE  \/ Min({a, b}) = a /\ Max({a, b}) = b
         \/ Min({a, b}) = b /\ Max({a, b}) = a
<1>1. \E m \in {a, b} : \A y \in {a, b} : m <= y
  OBVIOUS
<1>2. Min({a, b}) \in {a, b} /\ \A y \in {a, b} : Min({a, b}) <= y
  BY <1>1 DEF Min
<1>3. \E m \in {a, b} : \A y \in {a, b} : m >= y
  OBVIOUS
<1>4. Max({a, b}) \in {a, b} /\ \A y \in {a, b} : Max({a, b}) >= y
  BY <1>3 DEF Max
<1> QED BY <1>2, <1>4

(* The corners of a rectangle, and the lines between them.                 *)
RoundOf(path, a, b, c, d, p2, p4) ==
  /\ {p2, p4} = {<<a, d>>, <<c, b>>}
  /\ PointsOf(path) = {<<a, b>>, p2, <<c, d>>, p4}
  /\ \A l : l \in ToSet(DrawnBy(path)) =>
       \/ l \in {<<<<a, b>>, p2>>, <<p2, <<c, d>>>>, <<<<c, d>>, p4>>, <<p4, <<a, b>>>>}
       \/ l = <<<<a, b>>, <<a, b>>>>
  /\ {<<<<a, b>>, p2>>, <<p2, <<c, d>>>>, <<<<c, d>>, p4>>, <<p4, <<a, b>>>>}
       \subseteq ToSet(DrawnBy(path))

LEMMA RectangleDraws ==
  ASSUME NEW path \in Seq(Operator), IsRectangle(path)
  PROVE  \E a, b, c, d \in Int : \E p2, p4 \in Point : RoundOf(path, a, b, c, d, p2, p4)
<1> DEFINE p(k) == path[k].pts[1]  n == Len(path)
<1>1. /\ n \in Nat /\ DOMAIN path = 1..n /\ (n = 5 \/ n = 6) /\ (n = 6 => p(5) = p(1))
  BY DEF IsRectangle
<1>op. \A k \in 1..n : path[k].op = IF k = 1 THEN "m" ELSE IF k = n THEN "h" ELSE "l"
  BY <1>1 DEF IsRectangle
<1>sq. \E x, y \in {1, 2} :
        /\ x # y
        /\ p(1)[x] = p(2)[x] /\ p(2)[y] = p(3)[y] /\ p(3)[x] = p(4)[x] /\ p(4)[y] = p(1)[y]
  BY DEF IsRectangle
<1>n. n \in Nat /\ n = Len(path) /\ DOMAIN path = 1..n /\ (n = 5 \/ n = 6)
  BY <1>1
<1> HIDE DEF n
<1>m. path[1].op = "m" /\ 1 \in 1..n
  BY <1>n, <1>op
<1>h. path[n].op = "h" /\ n \in 1..n /\ n # 1
  BY <1>n, <1>op
<1>l. \A k \in 1..n : k # 1 /\ k # n => path[k].op = "l"
  BY <1>op
<1>2. ASSUME NEW k \in 1..n PROVE Moved(path, k) = 1
  <2> DEFINE K == {j \in 0..n - 1 : Moved(path, j + 1) = 1}
  <2>1. 0 \in K
    <3>1. Moved(path, 1) = 1
      BY <1>m, <1>n, MovedFacts
    <3> QED BY <1>n, <3>1
  <2>2. ASSUME NEW j \in 0..(n - 1) - 1, j \in K PROVE j + 1 \in K
    <3>1. (j + 1) + 1 \in 1..n /\ (j + 1) + 1 # 1 /\ ((j + 1) + 1) - 1 = j + 1 /\ j + 1 \in 0..n - 1
      BY <1>n
    <3>2. path[(j + 1) + 1].op # "m"
      BY <1>h, <1>l, <3>1
    <3>3. Moved(path, (j + 1) + 1) = Moved(path, j + 1)
      BY <1>n, <3>1, <3>2, MovedFacts
    <3> QED BY <2>2, <3>1, <3>3
  <2>3. 0..n - 1 \subseteq K
    <3>1. n - 1 \in Nat
      BY <1>n
    <3> HIDE DEF K, n
    <3> QED BY <2>1, <2>2, <3>1, InductionTo
  <2>4. k - 1 \in 0..n - 1 /\ (k - 1) + 1 = k
    BY <1>n
  <2> QED BY <2>3, <2>4
<1>3. \A k \in 1..n - 1 : p(k) \in Point /\ PenAt(path, k) = p(k)
  <2> SUFFICES ASSUME NEW k \in 1..n - 1 PROVE p(k) \in Point /\ PenAt(path, k) = p(k)
    OBVIOUS
  <2>1. k \in 1..n /\ k # n
    BY <1>n
  <2>2. path[k].op \in {"m", "l"}
    BY <1>m, <1>l, <2>1
  <2>3. Moved(path, k) # 0
    BY <1>2, <2>1
  <2> QED BY <1>n, <2>1, <2>2, <2>3, PenFacts
<1>4. PenAt(path, n) = p(1) /\ path[n].op = "h"
  <2>1. Moved(path, n) = 1
    BY <1>2, <1>h
  <2> QED BY <1>n, <1>h, <2>1, PenFacts
<1>5. Stroke(path, 1) = <<>>
  BY <1>m DEF Stroke, IsCurve
<1>6. ASSUME NEW k \in 2..n PROVE Stroke(path, k) = <<<<PenAt(path, k - 1), PenAt(path, k)>>>>
  <2>1. k \in 1..n /\ path[k].op \in {"l", "h"}
    BY <1>n, <1>h, <1>l
  <2>2. Moved(path, k) # 0
    BY <1>2, <2>1
  <2> QED BY <2>1, <2>2 DEF Stroke, IsCurve
<1>7. \A l : l \in ToSet(DrawnBy(path)) <=> \E k \in 2..n : l = <<PenAt(path, k - 1), PenAt(path, k)>>
  <2>1. /\ Strokes(path) \in Seq(Seq(Line)) /\ DrawnBy(path) = FlattenSeq(Strokes(path))
        /\ DOMAIN Strokes(path) = 1..n /\ \A k \in 1..n : Strokes(path)[k] = Stroke(path, k)
    BY StrokesFacts, <1>n DEF DrawnBy, Strokes
  <2>2. \A l : l \in ToSet(DrawnBy(path)) <=> \E k \in 1..n : l \in ToSet(Stroke(path, k))
    BY <2>1, FlattenElements
  <2>3. ToSet(Stroke(path, 1)) = {}
    BY <1>5 DEF ToSet
  <2>4. \A k \in 2..n : ToSet(Stroke(path, k)) = {<<PenAt(path, k - 1), PenAt(path, k)>>}
    <3>1. \A x : ToSet(<<x>>) = {x}
      BY DEF ToSet
    <3> QED BY <1>6, <3>1
  <2>5. \A k \in 1..n : k = 1 \/ k \in 2..n
    BY <1>n
  <2>6. \A k \in 2..n : k \in 1..n
    BY <1>n
  <2> QED BY <2>2, <2>3, <2>4, <2>5, <2>6
<1> DEFINE a == p(1)[1]  b == p(1)[2]  c == p(3)[1]  d == p(3)[2]
<1>8. p(1) \in Point /\ p(2) \in Point /\ p(3) \in Point /\ p(4) \in Point
  <2>1. 1 \in 1..n - 1 /\ 2 \in 1..n - 1 /\ 3 \in 1..n - 1 /\ 4 \in 1..n - 1
    BY <1>n
  <2> HIDE DEF p
  <2> QED BY <1>3, <2>1
<1>9. a \in Int /\ b \in Int /\ c \in Int /\ d \in Int /\ p(1) = <<a, b>> /\ p(3) = <<c, d>>
  BY <1>8, SMTT(30) DEF Point
<1>10. {p(2), p(4)} = {<<a, d>>, <<c, b>>}
  <2>1. PICK x \in {1, 2}, y \in {1, 2} :
          /\ x # y
          /\ p(1)[x] = p(2)[x] /\ p(2)[y] = p(3)[y] /\ p(3)[x] = p(4)[x] /\ p(4)[y] = p(1)[y]
    BY <1>sq
  <2>2. p(2) = <<p(2)[1], p(2)[2]>> /\ p(4) = <<p(4)[1], p(4)[2]>>
    BY <1>8 DEF Point
  <2>3. CASE x = 1
    <3>1. p(2) = <<a, d>> /\ p(4) = <<c, b>>
      BY <2>1, <2>2, <2>3
    <3> HIDE DEF a, b, c, d, p
    <3> QED BY <3>1
  <2>4. CASE x = 2
    <3>1. p(2) = <<c, b>> /\ p(4) = <<a, d>>
      BY <2>1, <2>2, <2>4
    <3> HIDE DEF a, b, c, d, p
    <3> QED BY <3>1
  <2> QED BY <2>1, <2>3, <2>4
<1>11. PointsOf(path) = {p(1), p(2), p(3), p(4)}
  <2>1. \A k \in 1..n - 1 : ToSet(path[k].pts) = {p(k)}
    <3> SUFFICES ASSUME NEW k \in 1..n - 1 PROVE ToSet(path[k].pts) = {p(k)}
      OBVIOUS
    <3>0. k \in 1..n /\ k # n
      BY <1>n
    <3>1. path[k].op \in {"m", "l"} /\ path[k] \in Operator
      BY <1>n, <1>m, <1>l, <3>0
    <3>2. path[k].pts \in [1..1 -> Point]
      BY <3>1 DEF Operator
    <3>3. DOMAIN path[k].pts = {1}
      BY <3>2
    <3> QED BY <3>3 DEF ToSet
  <2>2. ToSet(path[n].pts) = {}
    <3>1. path[n].op = "h" /\ path[n] \in Operator
      BY <1>n, <1>h
    <3>2. path[n].pts = <<>>
      BY <3>1 DEF Operator
    <3> QED BY <3>2 DEF ToSet
  <2>3. \A q : q \in PointsOf(path) <=> \E k \in 1..n : q \in ToSet(path[k].pts)
    BY <1>n DEF PointsOf
  <2>4. \A q : q \in PointsOf(path) <=> \E k \in 1..n : k # n /\ q = p(k)
    <3>1. \A k \in 1..n : k = n \/ k \in 1..n - 1
      BY <1>n
    <3>2. \A k \in 1..n : k # n => ToSet(path[k].pts) = {p(k)}
      BY <2>1, <3>1
    <3>3. \A q : \A k \in 1..n : q \in ToSet(path[k].pts) <=> k # n /\ q = p(k)
      <4> HIDE DEF p
      <4> QED BY <2>2, <3>2
    <3> HIDE DEF p
    <3> QED BY <2>3, <3>3, Zenon
  <2>5. CASE n = 5
    <3>1. \A k \in 1..n : k # n => k = 1 \/ k = 2 \/ k = 3 \/ k = 4
      BY <2>5
    <3>2. /\ 1 \in 1..n /\ 2 \in 1..n /\ 3 \in 1..n /\ 4 \in 1..n
          /\ 1 # n /\ 2 # n /\ 3 # n /\ 4 # n
      BY <2>5
    <3> HIDE DEF p
    <3> QED BY <2>4, <3>1, <3>2
  <2>6. CASE n = 6
    <3>1. \A k \in 1..n : k # n => k = 1 \/ k = 2 \/ k = 3 \/ k = 4 \/ k = 5
      BY <2>6
    <3>2. /\ 1 \in 1..n /\ 2 \in 1..n /\ 3 \in 1..n /\ 4 \in 1..n
          /\ 1 # n /\ 2 # n /\ 3 # n /\ 4 # n
      BY <2>6
    <3>3. p(5) = p(1)
      BY <1>1, <2>6 DEF n
    <3> HIDE DEF p
    <3> QED BY <2>4, <3>1, <3>2, <3>3
  <2> QED BY <1>n, <2>5, <2>6
<1> DEFINE four == {<<p(1), p(2)>>, <<p(2), p(3)>>, <<p(3), p(4)>>, <<p(4), p(1)>>}
<1>12. /\ \A l : l \in ToSet(DrawnBy(path)) => l \in four \/ l = <<p(1), p(1)>>
       /\ four \subseteq ToSet(DrawnBy(path))
  <2>1. CASE n = 5
    <3>1. \A k \in 2..n : k = 2 \/ k = 3 \/ k = 4 \/ k = n
      BY <2>1
    <3>2. 2 \in 2..n /\ 3 \in 2..n /\ 4 \in 2..n /\ n \in 2..n /\ 2 - 1 = 1 /\ 3 - 1 = 2 /\ 4 - 1 = 3 /\ n - 1 = 4
      BY <2>1
    <3>3. PenAt(path, 1) = p(1) /\ PenAt(path, 2) = p(2) /\ PenAt(path, 3) = p(3) /\ PenAt(path, 4) = p(4)
      BY <1>3, <2>1
    <3> HIDE DEF p
    <3> QED BY <1>4, <1>7, <3>1, <3>2, <3>3
  <2>2. CASE n = 6
    <3>1. \A k \in 2..n : k = 2 \/ k = 3 \/ k = 4 \/ k = 5 \/ k = n
      BY <2>2
    <3>2. 2 \in 2..n /\ 3 \in 2..n /\ 4 \in 2..n /\ 5 \in 2..n /\ n \in 2..n
          /\ 2 - 1 = 1 /\ 3 - 1 = 2 /\ 4 - 1 = 3 /\ 5 - 1 = 4 /\ n - 1 = 5
      BY <2>2
    <3>3. /\ PenAt(path, 1) = p(1) /\ PenAt(path, 2) = p(2) /\ PenAt(path, 3) = p(3)
          /\ PenAt(path, 4) = p(4) /\ PenAt(path, 5) = p(1)
      BY <1>1, <1>3, <2>2 DEF n
    <3> HIDE DEF p
    <3> QED BY <1>4, <1>7, <3>1, <3>2, <3>3, SMTT(30)
  <2> QED BY <1>n, <2>1, <2>2
<1> HIDE DEF p, a, b, c, d
<1>13. \A l : l \in ToSet(DrawnBy(path)) =>
          \/ l \in {<<<<a, b>>, p(2)>>, <<p(2), <<c, d>>>>, <<<<c, d>>, p(4)>>, <<p(4), <<a, b>>>>}
          \/ l = <<<<a, b>>, <<a, b>>>>
  BY <1>9, <1>12
<1>14. {<<<<a, b>>, p(2)>>, <<p(2), <<c, d>>>>, <<<<c, d>>, p(4)>>, <<p(4), <<a, b>>>>}
         \subseteq ToSet(DrawnBy(path))
  BY <1>9, <1>12
<1>15. PointsOf(path) = {<<a, b>>, p(2), <<c, d>>, p(4)}
  BY <1>9, <1>11
<1> DEFINE P2 == p(2)  P4 == p(4)
<1> HIDE DEF P2, P4
<1>16. P2 \in Point /\ P4 \in Point
  BY <1>8 DEF P2, P4
<1>17. RoundOf(path, a, b, c, d, P2, P4)
  BY <1>10, <1>13, <1>14, <1>15 DEF P2, P4, RoundOf
<1> QED BY <1>9, <1>16, <1>17

LEMMA SetOfFour ==
  \A s1, s2, s3, s4 : ToSet(<<s1, s2, s3, s4>>) = {s1, s2, s3, s4}
BY DEF ToSet

(* The lines of A go round the corners.                                    *)
GoesRound(A, P, Q, R, S) ==
  ToSet(A) \in {{<<P, S>>, <<S, R>>, <<R, Q>>, <<Q, P>>},
                {<<Q, R>>, <<R, S>>, <<S, P>>, <<P, Q>>},
                {<<S, P>>, <<P, Q>>, <<Q, R>>, <<R, S>>},
                {<<R, Q>>, <<Q, P>>, <<P, S>>, <<S, R>>}}

(* Those of B too, and they may stay at the first.                         *)
Encloses(B, P, p2, R, p4) ==
  /\ \A l : l \in ToSet(B) =>
       l \in {<<P, p2>>, <<p2, R>>, <<R, p4>>, <<p4, P>>} \/ l = <<P, P>>
  /\ {<<P, p2>>, <<p2, R>>, <<R, p4>>, <<p4, P>>} \subseteq ToSet(B)

(* The lines of a rectangle round its corners, whatever corner they begin  *)
(* at and whatever way round they go.                                      *)
LEMMA RoundTheCorners ==
  ASSUME NEW P, NEW Q, NEW R, NEW S, NEW A, NEW B, GoesRound(A, P, Q, R, S),
         NEW p2, NEW p4, (p2 = Q /\ p4 = S) \/ (p2 = S /\ p4 = Q), Encloses(B, P, p2, R, p4)
  PROVE  SameLines(A, B)
<1>1. \A s : s \in ToSet(A) =>
        \/ s = <<P, S>> \/ s = <<S, R>> \/ s = <<R, Q>> \/ s = <<Q, P>>
        \/ s = <<S, P>> \/ s = <<R, S>> \/ s = <<Q, R>> \/ s = <<P, Q>>
  BY DEF GoesRound, Encloses
<1>2. /\ <<P, S>> \in ToSet(A) \/ <<S, P>> \in ToSet(A)
      /\ <<S, R>> \in ToSet(A) \/ <<R, S>> \in ToSet(A)
      /\ <<R, Q>> \in ToSet(A) \/ <<Q, R>> \in ToSet(A)
      /\ <<Q, P>> \in ToSet(A) \/ <<P, Q>> \in ToSet(A)
  BY DEF GoesRound, Encloses
<1>3. \A l : l \in ToSet(B) =>
        \/ l = <<P, S>> \/ l = <<S, R>> \/ l = <<R, Q>> \/ l = <<Q, P>>
        \/ l = <<S, P>> \/ l = <<R, S>> \/ l = <<Q, R>> \/ l = <<P, Q>>
        \/ l = <<P, P>>
  BY DEF GoesRound, Encloses
<1>4. /\ <<P, S>> \in ToSet(B) \/ <<S, P>> \in ToSet(B)
      /\ <<S, R>> \in ToSet(B) \/ <<R, S>> \in ToSet(B)
      /\ <<R, Q>> \in ToSet(B) \/ <<Q, R>> \in ToSet(B)
      /\ <<Q, P>> \in ToSet(B) \/ <<P, Q>> \in ToSet(B)
  BY DEF GoesRound, Encloses
<1>5. \A x, y : Reversed(<<x, y>>) = <<y, x>>
  BY DEF Reversed
<1>6. \A x, y : Alongside(<<x, y>>, <<x, y>>) /\ Alongside(<<x, y>>, <<y, x>>)
  BY <1>5 DEF Alongside
<1>7. <<P, P>>[1] = <<P, P>>[2]
  OBVIOUS
<1>8. Covers(B, A)
  <2> SUFFICES ASSUME NEW s \in ToSet(A)
               PROVE  \E t \in ToSet(B) : Alongside(s, t)
    BY DEF Covers
  <2> QED BY <1>1, <1>4, <1>6
<1>9. Covers(A, B)
  <2> SUFFICES ASSUME NEW s \in ToSet(B)
               PROVE  s = <<P, P>> \/ \E t \in ToSet(A) : Alongside(s, t)
    BY <1>7 DEF Covers
  <2> QED BY <1>2, <1>3, <1>6
<1> QED BY <1>8, <1>9 DEF SameLines

(* The box of a rectangle has its sides.                                   *)
LEMMA RectangleSides ==
  ASSUME NEW path \in Seq(Operator), IsRectangle(path)
  PROVE  /\ Sides(BoundingBox(path)) \in Seq(Line)
         /\ SameLines(Sides(BoundingBox(path)), DrawnBy(path))
<1>1. PICK a \in Int, b \in Int, c \in Int, d \in Int, p2 \in Point, p4 \in Point :
        RoundOf(path, a, b, c, d, p2, p4)
  BY RectangleDraws
<1> DEFINE xs == {p[1] : p \in PointsOf(path)}  ys == {p[2] : p \in PointsOf(path)}
<1> DEFINE P == <<a, b>>  Q == <<a, d>>  R == <<c, d>>  S == <<c, b>>
<1>2. (p2 = Q /\ p4 = S) \/ (p2 = S /\ p4 = Q)
  <2>1. {p2, p4} = {Q, S}
    BY <1>1 DEF RoundOf
  <2> HIDE DEF Q, S
  <2>2. p2 \in {Q, S} /\ p4 \in {Q, S} /\ Q \in {p2, p4} /\ S \in {p2, p4}
    BY <2>1
  <2> QED BY <2>2
<1>3. PointsOf(path) = {P, Q, R, S}
  <2>1. PointsOf(path) = {P, p2, R, p4}
    BY <1>1 DEF RoundOf
  <2> HIDE DEF P, Q, R, S
  <2>2. {P, p2, R, p4} = {P, Q, R, S}
    BY <1>2
  <2> QED BY <2>1, <2>2
<1>4. xs = {a, c} /\ ys = {b, d}
  <2>1. \A x : x \in xs <=> x = a \/ x = c
    BY <1>3
  <2>2. \A y : y \in ys <=> y = b \/ y = d
    BY <1>3
  <2> HIDE DEF xs, ys
  <2> QED BY <2>1, <2>2
<1> DEFINE box == BoundingBox(path)
<1>5. box = <<Min(xs), Min(ys), Max(xs), Max(ys)>>
  BY DEF BoundingBox
<1>6. Sides(box) \in {<<<<P, S>>, <<S, R>>, <<R, Q>>, <<Q, P>>>>,
                      <<<<Q, R>>, <<R, S>>, <<S, P>>, <<P, Q>>>>,
                      <<<<S, P>>, <<P, Q>>, <<Q, R>>, <<R, S>>>>,
                      <<<<R, Q>>, <<Q, P>>, <<P, S>>, <<S, R>>>>}
  <2>1. \/ Min(xs) = a /\ Max(xs) = c
        \/ Min(xs) = c /\ Max(xs) = a
    <3>1. \A u, v \in Int : (Min({u, v}) = u /\ Max({u, v}) = v) \/ (Min({u, v}) = v /\ Max({u, v}) = u)
      BY BoundsOfTwo
    <3> HIDE DEF xs, ys
    <3> QED BY <1>4, <3>1
  <2>2. \/ Min(ys) = b /\ Max(ys) = d
        \/ Min(ys) = d /\ Max(ys) = b
    <3>1. \A u, v \in Int : (Min({u, v}) = u /\ Max({u, v}) = v) \/ (Min({u, v}) = v /\ Max({u, v}) = u)
      BY BoundsOfTwo
    <3> HIDE DEF xs, ys
    <3> QED BY <1>4, <3>1
  <2>3. box \in {<<a, b, c, d>>, <<a, d, c, b>>, <<c, b, a, d>>, <<c, d, a, b>>}
    <3> HIDE DEF box, xs, ys
    <3> QED BY <1>5, <2>1, <2>2
  <2>4. Sides(<<a, b, c, d>>) = <<<<P, S>>, <<S, R>>, <<R, Q>>, <<Q, P>>>>
    BY DEF Sides
  <2>5. Sides(<<a, d, c, b>>) = <<<<Q, R>>, <<R, S>>, <<S, P>>, <<P, Q>>>>
    BY DEF Sides
  <2>6. Sides(<<c, b, a, d>>) = <<<<S, P>>, <<P, Q>>, <<Q, R>>, <<R, S>>>>
    BY DEF Sides
  <2>7. Sides(<<c, d, a, b>>) = <<<<R, Q>>, <<Q, P>>, <<P, S>>, <<S, R>>>>
    BY DEF Sides
  <2> HIDE DEF P, Q, R, S, box
  <2> QED BY <2>3, <2>4, <2>5, <2>6, <2>7
<1>7. P \in Point /\ Q \in Point /\ R \in Point /\ S \in Point
  BY DEF Point
<1>8. Sides(box) \in Seq(Line)
  <2> HIDE DEF P, Q, R, S, box
  <2>1. \A x, y \in Point : <<x, y>> \in Line
    BY DEF Line
  <2>2. \A s1, s2, s3, s4 \in Line : <<s1, s2, s3, s4>> \in Seq(Line)
    OBVIOUS
  <2>3. /\ <<P, S>> \in Line /\ <<S, R>> \in Line /\ <<R, Q>> \in Line /\ <<Q, P>> \in Line
        /\ <<Q, R>> \in Line /\ <<R, S>> \in Line /\ <<S, P>> \in Line /\ <<P, Q>> \in Line
    BY <1>7, <2>1
  <2>5. /\ <<<<P, S>>, <<S, R>>, <<R, Q>>, <<Q, P>>>> \in Seq(Line)
        /\ <<<<Q, R>>, <<R, S>>, <<S, P>>, <<P, Q>>>> \in Seq(Line)
        /\ <<<<S, P>>, <<P, Q>>, <<Q, R>>, <<R, S>>>> \in Seq(Line)
        /\ <<<<R, Q>>, <<Q, P>>, <<P, S>>, <<S, R>>>> \in Seq(Line)
    BY <2>3
  <2> QED BY <1>6, <2>5
<1>9. GoesRound(Sides(box), P, Q, R, S)
  <2> HIDE DEF P, Q, R, S, box
  <2>1. ToSet(<<<<P, S>>, <<S, R>>, <<R, Q>>, <<Q, P>>>>) = {<<P, S>>, <<S, R>>, <<R, Q>>, <<Q, P>>}
    BY SetOfFour, Zenon
  <2>2. ToSet(<<<<Q, R>>, <<R, S>>, <<S, P>>, <<P, Q>>>>) = {<<Q, R>>, <<R, S>>, <<S, P>>, <<P, Q>>}
    BY SetOfFour, Zenon
  <2>3. ToSet(<<<<S, P>>, <<P, Q>>, <<Q, R>>, <<R, S>>>>) = {<<S, P>>, <<P, Q>>, <<Q, R>>, <<R, S>>}
    BY SetOfFour, Zenon
  <2>4. ToSet(<<<<R, Q>>, <<Q, P>>, <<P, S>>, <<S, R>>>>) = {<<R, Q>>, <<Q, P>>, <<P, S>>, <<S, R>>}
    BY SetOfFour, Zenon
  <2> QED BY <1>6, <2>1, <2>2, <2>3, <2>4 DEF GoesRound
<1>10. (p2 = Q /\ p4 = S) \/ (p2 = S /\ p4 = Q)
  BY <1>2
<1>11. Encloses(DrawnBy(path), P, p2, R, p4)
  BY <1>1 DEF RoundOf, Encloses
<1>12. SameLines(Sides(box), DrawnBy(path))
  <2> HIDE DEF P, Q, R, S, box
  <2> QED BY <1>9, <1>10, <1>11, RoundTheCorners, Zenon
<1> QED BY <1>8, <1>12

(* What is the same part by part is the same as a whole.                   *)
LEMMA SameWhole ==
  ASSUME NEW A \in Seq(Seq(Line)), NEW B \in Seq(Seq(Line)), DOMAIN A = DOMAIN B,
         \A k \in DOMAIN A : SameLines(A[k], B[k])
  PROVE  SameLines(FlattenSeq(A), FlattenSeq(B))
<1>1. \A x : x \in ToSet(FlattenSeq(A)) <=> \E k \in DOMAIN A : x \in ToSet(A[k])
  BY FlattenElements
<1>2. \A x : x \in ToSet(FlattenSeq(B)) <=> \E k \in DOMAIN B : x \in ToSet(B[k])
  BY FlattenElements
<1>3. Covers(FlattenSeq(B), FlattenSeq(A))
  <2> SUFFICES ASSUME NEW s \in ToSet(FlattenSeq(A))
               PROVE  s[1] = s[2] \/ \E t \in ToSet(FlattenSeq(B)) : Alongside(s, t)
    BY DEF Covers
  <2>1. PICK k \in DOMAIN A : s \in ToSet(A[k])
    BY <1>1
  <2>2. s[1] = s[2] \/ \E t \in ToSet(B[k]) : Alongside(s, t)
    BY <2>1 DEF SameLines, Covers
  <2> QED BY <1>2, <2>2
<1>4. Covers(FlattenSeq(A), FlattenSeq(B))
  <2> SUFFICES ASSUME NEW s \in ToSet(FlattenSeq(B))
               PROVE  s[1] = s[2] \/ \E t \in ToSet(FlattenSeq(A)) : Alongside(s, t)
    BY DEF Covers
  <2>1. PICK k \in DOMAIN B : s \in ToSet(B[k])
    BY <1>2
  <2>2. s[1] = s[2] \/ \E t \in ToSet(A[k]) : Alongside(s, t)
    BY <2>1 DEF SameLines, Covers
  <2> QED BY <1>1, <2>2
<1> QED BY <1>3, <1>4 DEF SameLines

(* Both pipelines find the lines that the page wants cut, each at its      *)
(* place: a stroked rectangle's are the sides of its box.                  *)
LEMMA PageIsFound ==
  ASSUME job \in Jobs
  PROVE  /\ Collected(job) \in Seq(Line) /\ Wanted \in Seq(Line)
         /\ SameLines(Collected(job), Wanted)
<1> DEFINE objects == job.objects
           found == [k \in DOMAIN objects |->
                       IF IsSheet(job) THEN CutSegmentsOf(objects[k])
                                       ELSE SegmentsOf(objects[k], job.h)]
<1>1. /\ objects \in Seq(Objects) /\ job.h \in Int
      /\ \A k \in DOMAIN objects :
           ~ IsSheet(job) /\ objects[k].shape = "rect" => IsRectangle(objects[k].path)
  BY JobsAssumption
<1>2. DOMAIN objects = 1..Len(objects) /\ Len(objects) \in Nat
  BY <1>1
<1>3. Collected(job) = FlattenSeq(found) /\ Wanted = FlattenSeq(ToBeCut)
  BY DEF Collected, Wanted
<1>4. DOMAIN found = DOMAIN objects /\ DOMAIN ToBeCut = DOMAIN objects
  BY DEF ToBeCut
<1>5. ASSUME NEW k \in DOMAIN objects
      PROVE  /\ found[k] \in Seq(Line) /\ ToBeCut[k] \in Seq(Line)
             /\ SameLines(found[k], ToBeCut[k])
  <2> DEFINE o == objects[k]  path == o.path
  <2>1. /\ o.shape \in {"line", "rect", "curve"} /\ path \in Seq(Operator)
        /\ o.stroke \in BOOLEAN /\ o.cut \in BOOLEAN
    <3>1. o \in Objects
      BY <1>1, <1>2
    <3> QED BY <3>1 DEF Objects
  <2>2. found[k] = IF IsSheet(job) THEN CutSegmentsOf(o) ELSE SegmentsOf(o, job.h)
    OBVIOUS
  <2>3. ToBeCut[k] = IF (IsPrint /\ o.cut) \/ (~ IsPrint /\ (o.shape = "line" \/ o.stroke))
                     THEN DrawnBy(path) ELSE <<>>
    BY DEF ToBeCut
  <2>4. ~ IsPrint /\ o.shape = "rect" => IsRectangle(path)
    BY <1>1 DEF IsPrint
  <2> HIDE DEF o, found, objects
  <2>5. /\ DrawnBy(path) \in Seq(Line) /\ CutWalk(path) = DrawnBy(path)
        /\ CurveWalk(path, job.h) = DrawnBy(path)
    <3> HIDE DEF path
    <3> QED BY <1>1, <2>1, StrokesFacts, CutWalkDraws, CurveWalkDraws
  <2>6. <<>> \in Seq(Line)
    OBVIOUS
  <2>7. CASE IsPrint
    <3>1. found[k] = ToBeCut[k] /\ ToBeCut[k] \in Seq(Line)
      BY <2>2, <2>3, <2>5, <2>6, <2>7 DEF IsPrint, CutSegmentsOf
    <3> QED BY <3>1, SameAsItself
  <2>8. CASE ~ IsPrint /\ o.shape = "rect" /\ o.stroke
    <3>1. found[k] = Sides(BoundingBox(path)) /\ ToBeCut[k] = DrawnBy(path)
      BY <2>2, <2>3, <2>8 DEF IsPrint, SegmentsOf
    <3>2. Sides(BoundingBox(path)) \in Seq(Line) /\ SameLines(Sides(BoundingBox(path)), DrawnBy(path))
      <4> HIDE DEF path
      <4> QED BY <2>1, <2>4, <2>8, RectangleSides
    <3> QED BY <2>5, <3>1, <3>2
  <2>9. CASE ~ IsPrint /\ ~ (o.shape = "rect" /\ o.stroke)
    <3>1. found[k] = ToBeCut[k] /\ ToBeCut[k] \in Seq(Line)
      BY <2>1, <2>2, <2>3, <2>5, <2>6, <2>9 DEF IsPrint, SegmentsOf
    <3> QED BY <3>1, SameAsItself
  <2> QED BY <2>7, <2>8, <2>9
<1>6. found \in Seq(Seq(Line)) /\ ToBeCut \in Seq(Seq(Line))
  <2>1. found = [k \in 1..Len(objects) |-> found[k]] /\ ToBeCut = [k \in 1..Len(objects) |-> ToBeCut[k]]
    BY <1>2 DEF ToBeCut
  <2>2. \A k \in 1..Len(objects) : found[k] \in Seq(Line) /\ ToBeCut[k] \in Seq(Line)
    BY <1>2, <1>5
  <2> HIDE DEF found, objects
  <2> QED BY <1>2, <2>1, <2>2, IsASeq
<1> HIDE DEF found, objects
<1>7. SameLines(FlattenSeq(found), FlattenSeq(ToBeCut))
  BY <1>4, <1>5, <1>6, SameWhole
<1>8. FlattenSeq(found) \in Seq(Line) /\ FlattenSeq(ToBeCut) \in Seq(Line)
  BY <1>6, FlattenElements
<1> QED BY <1>3, <1>7, <1>8

-----------------------------------------------------------------------------
(* The layout                                                              *)

LEMMA BarsLenFacts ==
  ASSUME NEW n \in Nat
  PROVE  BarsLen(n) \in Nat
BY MarkLayoutAssumption DEF BarsLen, Narrow, Wide

LEMMA HalfThickness == MarkThick \div 2 = 7 * Twentieth
BY MarkLayoutAssumption DEF MarkThick

(* Every page that passes the two guards of compute_layout gets a sheet    *)
(* that the sensor can read: the marks, the Start Mark and the bars are on *)
(* it, where they belong and clear of each other (marks.py 99-204).        *)
THEOREM LayoutReadable ==
  ASSUME NEW w \in Int, NEW h \in Int, NEW n \in Nat, LayoutFits(w, h, n)
  PROVE  SheetReadable(w, h, n)
<1> DEFINE t == Twentieth  b == BarsLen(n)
<1>1. t \in Nat \ {0} /\ b \in Nat
  BY MarkLayoutAssumption, BarsLenFacts
<1>2. /\ w >= 200 * t + 1000 * t + 140 * t + b + 140 * t + 500 * t
      /\ h - 1000 * t - 700 * t >= 1200 * t
      /\ w - 2000 * t >= 1200 * t
  BY <1>1 DEF LayoutFits, MinWidth, Lx, Ly, Mark1Y, BandTop, Mm, SideMargin, StartMarkLen,
              Quiet, RearMargin, MarkSideMargin, FrontMargin, BandHeight, BarcodeMargin,
              TextRoom
<1> DEFINE right == w - 1480 * t - b
           left == IF TextLen < right THEN right - TextLen ELSE 0
<1>3. /\ StartMark(w) = <<w - 1200 * t, 400 * t, w - 200 * t, 580 * t>>
      /\ Bars(w, n) = <<w - 1340 * t - b, 400 * t, w - 1340 * t, 580 * t>>
      /\ Text(w, n) = <<left, 400 * t, right, 580 * t>>
  <2>1. /\ StartMark(w) = <<w - 1200 * t, 400 * t, w - 200 * t, 580 * t>>
        /\ Bars(w, n) = <<w - 1340 * t - b, 400 * t, w - 1340 * t, 580 * t>>
    BY <1>1 DEF StartMark, Bars, StartMarkX0, StartMarkX1, SideMargin, StartMarkLen, FrontMargin,
                BandTop, BandHeight, Quiet, Mm
  <2>2. Bars(w, n)[1] - Quiet = right /\ FrontMargin = 400 * t /\ BandTop = 580 * t
    BY <1>1, <2>1 DEF Quiet, Mm, FrontMargin, BandTop, BandHeight
  <2> QED BY <2>1, <2>2 DEF Text
<1>12. /\ left \in Int /\ 0 <= left /\ left <= right
       /\ w - MinWidth(n) >= TextLen - TextRoom => right - left = TextLen
  <2>1. TextLen \in Nat /\ right \in Int /\ right >= 500 * t
    BY <1>1, <1>2, MarkLayoutAssumption
  <2>2. MinWidth(n) = 1980 * t + b /\ TextRoom = 500 * t
    BY <1>1 DEF MinWidth, TextRoom, SideMargin, StartMarkLen, Quiet, Mm
  <2>3. w - MinWidth(n) >= TextLen - TextRoom => right >= TextLen
    BY <1>1, <2>1, <2>2
  <2> HIDE DEF right
  <2> QED BY <1>1, <2>1, <2>3
<1>4. Corners(w, h) = {w - 1000 * t, 1000 * t} \X {700 * t, h - 1000 * t}
  BY <1>1 DEF Corners, Mark1X, MarkSideMargin, Ly, Mark1Y, BandTop, FrontMargin, BandHeight,
              BarcodeMargin, Lx, RearMargin, Mm
<1>5. /\ Mark1X(w) = w - 1000 * t /\ Mark1Y = 700 * t
      /\ MarkArm = 400 * t /\ MarkThick \div 2 = 7 * t /\ Pad = 520 * t
      /\ BandTop = 580 * t /\ 3 * Mm = 60 * t /\ Quiet = 140 * t
  BY <1>1, HalfThickness DEF Mark1X, MarkSideMargin, Mark1Y, BandTop, FrontMargin, BandHeight,
              BarcodeMargin, MarkArm, Pad, Quiet, Mm
<1>6. KeepClearZones(w, h) =
        {<<0, 0, w, 640 * t>>} \cup
        {<<c[1] - 520 * t, c[2] - 520 * t, c[1] + 520 * t, c[2] + 520 * t>> :
           c \in Corners(w, h)}
  BY <1>1, <1>5 DEF KeepClearZones
<1>7. ASSUME NEW m \in Marks(w, h)
      PROVE  /\ m[1] \in Int /\ m[2] \in Int /\ m[3] \in Int /\ m[4] \in Int
             /\ m[1] >= 993 * t /\ m[2] >= 693 * t
             /\ m[3] <= w - 993 * t /\ m[4] <= h - 993 * t
             /\ \E z \in KeepClearZones(w, h) : Within(m, z)
  <2>1. PICK c \in Corners(w, h) : m \in Arms(w, h, c)
    BY <1>7 DEF Marks
  <2> DEFINE x == c[1]  y == c[2]
             sx == IF x = w - 1000 * t THEN -1 ELSE 1
             sy == IF y = 700 * t THEN 1 ELSE -1
             tx == x + sx * (400 * t)
             ty == y + sy * (400 * t)
  <2>2. x \in {w - 1000 * t, 1000 * t} /\ y \in {700 * t, h - 1000 * t}
    BY <1>4
  <2>3. m \in {<<IF sx = 1 THEN x ELSE tx, y - 7 * t, IF sx = 1 THEN tx ELSE x, y + 7 * t>>,
                <<x - 7 * t, IF sy = 1 THEN y ELSE ty, x + 7 * t, IF sy = 1 THEN ty ELSE y>>}
    BY <2>1, <1>5 DEF Arms
  <2>4. /\ x \in Int /\ y \in Int
        /\ x = w - 1000 * t => sx = -1 /\ tx = x - 400 * t
        /\ x # w - 1000 * t => sx = 1 /\ tx = x + 400 * t /\ x = 1000 * t
        /\ y = 700 * t => sy = 1 /\ ty = y + 400 * t
        /\ y # 700 * t => sy = -1 /\ ty = y - 400 * t /\ y = h - 1000 * t
    BY <1>1, <2>2
  <2> HIDE DEF x, y, sx, sy, tx, ty
  <2>5. /\ m[1] \in Int /\ m[2] \in Int /\ m[3] \in Int /\ m[4] \in Int
        /\ m[1] >= x - 400 * t /\ m[3] <= x + 400 * t
        /\ m[2] >= y - 400 * t /\ m[4] <= y + 400 * t
    BY <1>1, <2>3, <2>4
  <2>6. /\ m[1] >= 993 * t /\ m[2] >= 693 * t
        /\ m[3] <= w - 993 * t /\ m[4] <= h - 993 * t
    BY <1>1, <1>2, <2>3, <2>4
  <2>7. <<x - 520 * t, y - 520 * t, x + 520 * t, y + 520 * t>> \in KeepClearZones(w, h)
    BY <1>6, <2>1 DEF x, y
  <2>8. Within(m, <<x - 520 * t, y - 520 * t, x + 520 * t, y + 520 * t>>)
    BY <1>1, <2>4, <2>5 DEF Within
  <2> QED BY <2>5, <2>6, <2>7, <2>8
<1> DEFINE InBand(r) == r[2] = 400 * t /\ r[4] = 580 * t /\ 0 <= r[1] /\ r[3] <= w
<1>13. ASSUME NEW r \in Band(w, n) PROVE InBand(r)
  <2>1. CASE r = StartMark(w)
    BY <1>1, <1>2, <1>3, <2>1
  <2>2. CASE r = Bars(w, n)
    BY <1>1, <1>2, <1>3, <2>2
  <2>3. CASE r = Text(w, n)
    <3>1. right \in Int /\ right <= w
      BY <1>1
    <3> HIDE DEF right, left
    <3> QED BY <1>3, <1>12, <2>3, <3>1
  <2> QED BY <2>1, <2>2, <2>3 DEF Band
<1>8. \A r \in Band(w, n) :
        /\ Within(r, <<0, 0, w, h>>)
        /\ Within(r, <<0, 0, w, 640 * t>>)
  BY <1>1, <1>2, <1>13 DEF Within
<1>9. \A m \in Marks(w, h) :
        /\ Within(m, <<0, 0, w, h>>)
        /\ \A r \in Band(w, n) : ~ Overlaps(m, r)
        /\ m[2] - BandTop >= 3 * Mm
  BY <1>1, <1>5, <1>7, <1>13 DEF Within, Overlaps
<1>10. /\ Bars(w, n)[3] + Quiet <= StartMark(w)[1]
       /\ Text(w, n)[3] + Quiet <= Bars(w, n)[1]
  BY <1>1, <1>2, <1>3, <1>5
<1>11. <<0, 0, w, 640 * t>> \in KeepClearZones(w, h)
  BY <1>6
<1>14. w - MinWidth(n) >= TextLen - TextRoom => Text(w, n)[3] - Text(w, n)[1] = TextLen
  BY <1>3, <1>12
<1> HIDE DEF t, b
<1> QED BY <1>7, <1>8, <1>9, <1>10, <1>11, <1>14 DEF SheetReadable, Overlay

-----------------------------------------------------------------------------
(* Artwork                                                                 *)

(* What is clear of a rectangle is clear of what lies within it.           *)
LEMMA ClearOfWhatIsWithin ==
  ASSUME NEW r \in Int \X Int \X Int \X Int, NEW s \in Int \X Int \X Int \X Int,
         NEW z \in Int \X Int \X Int \X Int, Within(s, z), ~ Overlaps(r, z)
  PROVE  ~ Overlaps(r, s)
BY DEF Within, Overlaps

LEMMA OverlayTyped ==
  ASSUME NEW w \in Int, NEW h \in Int, NEW n \in Nat
  PROVE  /\ KeepClearZones(w, h) \subseteq Int \X Int \X Int \X Int
         /\ Overlay(w, h, n) \subseteq Int \X Int \X Int \X Int
<1> DEFINE t == Twentieth
<1>1. t \in Nat \ {0} /\ BarsLen(n) \in Nat
  BY MarkLayoutAssumption, BarsLenFacts
<1>2. /\ Mm \in Int /\ BandTop \in Int /\ Mark1Y \in Int /\ Pad \in Int /\ Quiet \in Int
      /\ Mark1X(w) \in Int /\ Lx(h) \in Int /\ Ly(w) \in Int
      /\ StartMarkX0(w) \in Int /\ StartMarkX1(w) \in Int /\ FrontMargin \in Int
      /\ MarkArm \in Int /\ MarkThick \div 2 \in Int
  BY <1>1, HalfThickness DEF Mm, BandTop, Mark1Y, Pad, Quiet, Mark1X, Lx, Ly, StartMarkX0,
     StartMarkX1, FrontMargin, MarkArm, BandHeight, BarcodeMargin, MarkSideMargin,
     RearMargin, SideMargin, StartMarkLen
<1>3. Corners(w, h) \subseteq Int \X Int
  BY <1>2 DEF Corners
<1>4. KeepClearZones(w, h) \subseteq Int \X Int \X Int \X Int
  BY <1>2, <1>3 DEF KeepClearZones
<1>5. Band(w, n) \subseteq Int \X Int \X Int \X Int
  <2>1. /\ StartMark(w) \in Int \X Int \X Int \X Int
        /\ Bars(w, n) \in Int \X Int \X Int \X Int
    BY <1>1, <1>2 DEF StartMark, Bars
  <2>2. Text(w, n) \in Int \X Int \X Int \X Int
    BY <1>2, <2>1, MarkLayoutAssumption DEF Text
  <2> QED BY <2>1, <2>2 DEF Band
<1>6. ASSUME NEW c \in Corners(w, h)
      PROVE  Arms(w, h, c) \subseteq Int \X Int \X Int \X Int
  <2>1. c[1] \in Int /\ c[2] \in Int
    BY <1>3
  <2> DEFINE sx == IF c[1] = Mark1X(w) THEN -1 ELSE 1
             sy == IF c[2] = Mark1Y THEN 1 ELSE -1
  <2>2. c[1] + sx * MarkArm \in Int /\ c[2] + sy * MarkArm \in Int
    BY <1>2, <2>1
  <2> QED BY <1>2, <2>1, <2>2 DEF Arms
<1> QED BY <1>4, <1>5, <1>6 DEF Overlay, Marks

-----------------------------------------------------------------------------
(* The overlay on the sheet                                                *)

(* On a page whose trim box is its media box the overlay is printed where  *)
(* the layout has it.                                                      *)
LEMMA PrintedAsLaidOut ==
  ASSUME NEW w \in Nat \ {0}, NEW h \in Nat \ {0}
  PROVE  /\ \A p \in Int \X Int : PrintedAt(w, h, <<0, 0, w, h>>, p) = p
         /\ \A r \in Int \X Int \X Int \X Int : PrintedRect(w, h, <<0, 0, w, h>>, r) = r
<1> DEFINE box == <<0, 0, w, h>>
<1>1. Stretch(w, h, box) = <<0, w>>
  BY DEF Stretch
<1>2. ASSUME NEW x \in Int PROVE (x * 0) \div w = 0
  OBVIOUS
<1>3. ASSUME NEW p \in Int \X Int PROVE PrintedAt(w, h, box, p) = p
  <2> DEFINE s == Stretch(w, h, box)
             shift1 == ((2 * p[1] - w) * s[1]) \div s[2]
             shift2 == ((2 * p[2] - h) * s[1]) \div s[2]
             half1 == (box[1] + box[3] - w + shift1) \div 2
             half2 == (box[2] + box[4] - h + shift2) \div 2
  <2>1. shift1 = 0 /\ shift2 = 0
    BY <1>1, <1>2
  <2>2. half1 = 0 /\ half2 = 0
    <3> HIDE DEF shift1, shift2
    <3>1. half1 = 0 \div 2 /\ half2 = 0 \div 2
      BY <2>1
    <3> QED BY <3>1
  <2>3. PrintedAt(w, h, box, p) = <<p[1] + half1, p[2] + half2>>
    BY DEF PrintedAt
  <2> HIDE DEF half1, half2, box
  <2> QED BY <2>2, <2>3
<1>4. ASSUME NEW r \in Int \X Int \X Int \X Int PROVE PrintedRect(w, h, box, r) = r
  <2>1. /\ PrintedAt(w, h, box, <<r[1], r[2]>>) = <<r[1], r[2]>>
        /\ PrintedAt(w, h, box, <<r[3], r[4]>>) = <<r[3], r[4]>>
    <3> HIDE DEF box
    <3> QED BY <1>3
  <2>2. PrintedRect(w, h, box, r) = <<r[1], r[2]>> \o <<r[3], r[4]>>
    <3> HIDE DEF box
    <3> QED BY <2>1 DEF PrintedRect
  <2> QED BY <2>2
<1> QED BY <1>3, <1>4

(* A page that is laid out has a width and a height.                       *)
LEMMA LaidOutHasASize ==
  ASSUME NEW w \in Int, NEW h \in Int, NEW n \in Nat, LayoutFits(w, h, n)
  PROVE  w \in Nat \ {0} /\ h \in Nat \ {0}
<1> DEFINE t == Twentieth
<1>1. t \in Nat \ {0}
  BY MarkLayoutAssumption
<1>2. h - 1000 * t - 700 * t >= 1200 * t /\ w - 2000 * t >= 1200 * t
  BY <1>1 DEF LayoutFits, Lx, Ly, Mark1Y, BandTop, Mm, RearMargin, MarkSideMargin,
              FrontMargin, BandHeight, BarcodeMargin
<1> HIDE DEF t
<1> QED BY <1>1, <1>2

-----------------------------------------------------------------------------
(* The commands of a chain                                                 *)

DrawOf(S) ==
  {c \in [op : {"D"}, pts : Seq(S)] : Len(c.pts) \in 1..MaxPairs}

(* How far the first b batches of a chain of n points go.                  *)
BatchEnd(n, b) == IF b * MaxPairs < n THEN b * MaxPairs ELSE n

(* The batches follow each other without a gap and up to the last point.   *)
LEMMA BatchBounds ==
  ASSUME NEW n \in Nat
  PROVE  LET m == (n + MaxPairs - 1) \div MaxPairs
         IN  /\ m \in Nat /\ BatchEnd(n, 0) = 0 /\ BatchEnd(n, m) = n
             /\ \A b \in 1..m :
                  /\ BatchEnd(n, b - 1) = (b - 1) * MaxPairs
                  /\ BatchEnd(n, b - 1) \in 0..n /\ BatchEnd(n, b) \in 0..n
                  /\ BatchEnd(n, b - 1) < BatchEnd(n, b)
                  /\ BatchEnd(n, b) - BatchEnd(n, b - 1) <= MaxPairs
<1> DEFINE M == MaxPairs  m == (n + M - 1) \div M
<1>1. M \in Nat \ {0}
  BY CutJobAssumption
<1>2. m \in Int /\ (n + M - 1) % M \in 0..M - 1 /\ n + M - 1 = M * m + ((n + M - 1) % M)
  <2>1. n + M - 1 \in Int
    BY <1>1
  <2> QED BY <1>1, <2>1, Division
<1>3. m \in Nat
  <2>1. 0 \div M <= m /\ 0 \div M = 0
    BY <1>1, DivMonotone
  <2> QED BY <1>2, <2>1
<1>4. M * m \in Int /\ m * M = M * m /\ M * m >= n
  <2>1. M * m \in Int /\ m * M = M * m
    BY <1>1, <1>3
  <2> HIDE DEF m
  <2> QED BY <1>1, <1>2, <2>1
<1>5. BatchEnd(n, 0) = 0
  <2>1. 0 * M = 0
    BY <1>1
  <2> QED BY <2>1 DEF BatchEnd
<1>6. BatchEnd(n, m) = n
  <2> HIDE DEF m
  <2> QED BY <1>1, <1>4 DEF BatchEnd
<1>7. ASSUME NEW b \in 1..m
      PROVE  /\ BatchEnd(n, b - 1) = (b - 1) * MaxPairs
             /\ BatchEnd(n, b - 1) \in 0..n /\ BatchEnd(n, b) \in 0..n
             /\ BatchEnd(n, b - 1) < BatchEnd(n, b)
             /\ BatchEnd(n, b) - BatchEnd(n, b - 1) <= MaxPairs
  <2>1. b * M <= m * M
    BY <1>1, <1>3
  <2>2. (b - 1) * M = b * M - M
    BY <1>1, <1>3
  <2>3. (b - 1) * M >= 0 /\ b * M \in Int
    BY <1>1, <1>3
  <2> DEFINE x == b * M  y == (b - 1) * M  z == M * m
  <2>4. x <= z /\ y = x - M /\ y >= 0 /\ x \in Int /\ z \in Int /\ z <= n + M - 1
    <3>1. z <= n + M - 1
      <4> HIDE DEF m
      <4> QED BY <1>1, <1>2, <1>4
    <3> QED BY <1>4, <2>1, <2>2, <2>3, <3>1
  <2>5. /\ BatchEnd(n, b - 1) = IF y < n THEN y ELSE n
        /\ BatchEnd(n, b) = IF x < n THEN x ELSE n
    BY DEF BatchEnd
  <2> HIDE DEF x, y, z, m
  <2>6. y < n
    BY <1>1, <2>4
  <2>7. BatchEnd(n, b - 1) = y
    BY <2>5, <2>6
  <2>8. y \in Int /\ y \in 0..n /\ (x < n \/ x >= n)
    BY <1>1, <2>4, <2>6
  <2>9. BatchEnd(n, b) \in 0..n /\ y < BatchEnd(n, b) /\ BatchEnd(n, b) - y <= M
    BY <1>1, <2>4, <2>5, <2>6, <2>8
  <2> QED BY <2>7, <2>8, <2>9 DEF y
<1> QED BY <1>3, <1>5, <1>6, <1>7

(* flush_draw makes commands of the points it is given, none of them empty *)
(* and none of them longer than the limit.                                 *)
LEMMA BatchFacts ==
  ASSUME NEW S, NEW points \in Seq(S)
  PROVE  LET n == Len(points)
             m == (n + MaxPairs - 1) \div MaxPairs
         IN  /\ Batches(points) \in Seq(DrawOf(S)) /\ Len(Batches(points)) = m
             /\ \A b \in 1..m :
                  /\ Batches(points)[b].op = "D"
                  /\ Batches(points)[b].pts =
                       SubSeq(points, BatchEnd(n, b - 1) + 1, BatchEnd(n, b))
<1> DEFINE n == Len(points)
           m == (n + MaxPairs - 1) \div MaxPairs
           B(b) == [op |-> "D", pts |-> SubSeq(points, BatchEnd(n, b - 1) + 1, BatchEnd(n, b))]
<1>1. /\ m \in Nat
      /\ \A b \in 1..m :
           /\ BatchEnd(n, b - 1) = (b - 1) * MaxPairs
           /\ BatchEnd(n, b - 1) \in 0..n /\ BatchEnd(n, b) \in 0..n
           /\ BatchEnd(n, b - 1) < BatchEnd(n, b)
           /\ BatchEnd(n, b) - BatchEnd(n, b - 1) <= MaxPairs
  BY BatchBounds
<1>2. Batches(points) = [b \in 1..m |-> B(b)]
  BY <1>1 DEF Batches, BatchEnd
<1>3. ASSUME NEW b \in 1..m PROVE B(b) \in DrawOf(S)
  <2> DEFINE lo == BatchEnd(n, b - 1) + 1  hi == BatchEnd(n, b)  s == SubSeq(points, lo, hi)
  <2>1. lo \in Int /\ hi \in Int /\ 1 <= lo /\ lo <= hi /\ hi <= n
    BY <1>1
  <2> HIDE DEF lo, hi
  <2>2. \A i \in lo..hi : points[i] \in S
    BY <2>1
  <2>3. s \in Seq(S) /\ Len(s) = hi - lo + 1
    BY <2>1, <2>2, SubSeqProperties
  <2>4. Len(s) \in 1..MaxPairs
    BY <1>1, <2>1, <2>3, CutJobAssumption, SMTT(30) DEF lo, hi
  <2> HIDE DEF s
  <2>5. [op |-> "D", pts |-> s] \in DrawOf(S)
    BY <2>3, <2>4 DEF DrawOf
  <2> QED BY <2>5 DEF s, lo, hi
<1>4. [b \in 1..m |-> B(b)] \in Seq(DrawOf(S)) /\ Len([b \in 1..m |-> B(b)]) = m
  <2> HIDE DEF B, m
  <2> QED BY <1>1, <1>3, IsASeq
<1>5. \A b \in 1..m : Batches(points)[b] = B(b)
  <2> HIDE DEF B, m
  <2> QED BY <1>2
<1>6. \A b \in 1..m : /\ B(b).op = "D"
                      /\ B(b).pts = SubSeq(points, BatchEnd(n, b - 1) + 1, BatchEnd(n, b))
  OBVIOUS
<1> HIDE DEF B
<1> QED BY <1>2, <1>4, <1>5, <1>6

-----------------------------------------------------------------------------
(* The inductive invariant: where the lines may be, from the frame on      *)

Stages == {"read", "layout", "frame", "round", "lift", "draw", "done", "refused"}

(* Where the program may go: an import anywhere, a sheet between its marks.*)
Area ==
  IF IsPrint THEN (0..Steps(Lx(job.h))) \X (0..Steps(Ly(job.w))) ELSE StepPoint

(* The points of the lines, once they have been looked at.                 *)
Inside == {p \in Point : IsPrint => InsideMarks(p)}

(* What the tour may write.                                                *)
Command ==
  {c \in [op : {"M", "D", "TB24"}, pts : Seq(Area)] :
     c.op = "D" => Len(c.pts) \in 1..MaxPairs}

BetweenMarks ==
  [op |-> "TB24", pts |-> <<<<Steps(Lx(job.h)), Steps(Ly(job.w))>>>>]

IInv ==
  /\ job \in Jobs /\ pc \in Stages /\ next \in Nat \ {0}
  /\ segments \in Seq(Point \X Point)
  /\ current \in StepPoint
  /\ unvisited \subseteq DOMAIN ints
  /\ IsPrint /\ pc \in {"frame", "round", "lift", "draw", "done"} =>
       LayoutFits(job.w, job.h, LinkLen) /\ ClearOfMarks
  /\ pc = "round" => segments \in Seq(Inside \X Inside)
  /\ ints \in Seq(Area \X Area)
  /\ draw \in Seq(Area)
  /\ commands \in Seq(Command)
  /\ IsPrint /\ pc \in {"lift", "draw", "done"} =>
       commands # <<>> /\ commands[1] = BetweenMarks

LEMMA SizesTyped ==
  ASSUME IInv
  PROVE  /\ job.w \in Int /\ job.h \in Int
         /\ Lx(job.h) \in Int /\ Ly(job.w) \in Int /\ Mm \in Nat \ {0}
         /\ Mark1X(job.w) \in Int /\ Mark1Y \in Int
<1>1. job.w \in Int /\ job.h \in Int
  BY JobsAssumption DEF IInv
<1> QED BY <1>1, MarkLayoutAssumption DEF Lx, Ly, Mm, Mark1X, Mark1Y, RearMargin,
     MarkSideMargin, BandTop, FrontMargin, BandHeight, BarcodeMargin

LEMMA AreaTyped ==
  ASSUME IInv PROVE Area \subseteq StepPoint
<1>1. Steps(Lx(job.h)) \in Int /\ Steps(Ly(job.w)) \in Int
  BY SizesTyped, StepsFacts
<1> QED BY <1>1 DEF Area, StepPoint

(* The marks' distances of a sheet that is laid out are not negative.      *)
LEMMA AreaHasCorners ==
  ASSUME IInv, pc \in {"frame", "round", "lift", "draw", "done"}
  PROVE  /\ <<0, 0>> \in Area
         /\ <<Steps(Lx(job.h)), Steps(Ly(job.w))>> \in Area
<1>1. Steps(Lx(job.h)) \in Int /\ Steps(Ly(job.w)) \in Int
  BY SizesTyped, StepsFacts
<1>2. CASE IsPrint
  <2>1. Lx(job.h) >= 60 * Mm /\ Ly(job.w) >= 60 * Mm
    BY <1>2 DEF IInv, LayoutFits
  <2>2. Lx(job.h) >= 0 /\ Ly(job.w) >= 0
    BY <2>1, SizesTyped
  <2>3. Steps(Lx(job.h)) >= 0 /\ Steps(Ly(job.w)) >= 0
    BY <2>2, SizesTyped, StepsFacts
  <2> QED BY <1>1, <1>2, <2>3 DEF Area
<1>3. CASE ~ IsPrint
  BY <1>1, <1>3 DEF Area, StepPoint
<1> QED BY <1>2, <1>3

(* A point inside the marks is rounded to a step inside the area.          *)
LEMMA RoundedInside ==
  ASSUME IInv, NEW p \in Inside
  PROVE  <<Steps(p[1]), Steps(p[2])>> \in Area
<1>1. p[1] \in Int /\ p[2] \in Int
  BY DEF Inside, Point
<1>2. Steps(p[1]) \in Int /\ Steps(p[2]) \in Int
  BY <1>1, StepsFacts
<1>3. CASE IsPrint
  <2>1. /\ p[1] >= 0 /\ p[2] >= 0
        /\ p[1] <= Lx(job.h) /\ p[2] <= Ly(job.w)
    BY <1>1, <1>3, SizesTyped DEF Inside, InsideMarks
  <2>2. /\ Steps(p[1]) >= 0 /\ Steps(p[2]) >= 0
        /\ Steps(p[1]) <= Steps(Lx(job.h)) /\ Steps(p[2]) <= Steps(Ly(job.w))
    BY <1>1, <2>1, SizesTyped, StepsFacts
  <2>3. Steps(Lx(job.h)) \in Int /\ Steps(Ly(job.w)) \in Int
    BY SizesTyped, StepsFacts
  <2> QED BY <1>2, <1>3, <2>2, <2>3 DEF Area
<1>4. CASE ~ IsPrint
  BY <1>2, <1>4 DEF Area, StepPoint
<1> QED BY <1>3, <1>4

LEMMA MoveTyped ==
  ASSUME NEW p \in Area PROVE Move(p) \in Command
<1>1. <<p>> \in Seq(Area)
  OBVIOUS
<1> QED BY <1>1 DEF Move, Command

(* The job, and with it the area, is the same in every step.               *)
Same == job' = job

LEMMA AreaSame ==
  ASSUME Same
  PROVE  /\ IsPrint' = IsPrint /\ Area' = Area /\ Inside' = Inside
         /\ Command' = Command /\ BetweenMarks' = BetweenMarks
         /\ ClearOfMarks' = ClearOfMarks
BY DEF Same, IsPrint, Area, Inside, InsideMarks, Command, BetweenMarks, ClearOfMarks, Intrudes

LEMMA JobsStay == ASSUME Next PROVE Same
BY DEF Next, Same, Read, LayOut, MoveToFrame, RoundSegment, BeginTour, StartChain, Extend,
       EndChain, Finish, Returned, vars

LEMMA InitHolds == Init => IInv
<1> SUFFICES ASSUME Init PROVE IInv
  OBVIOUS
<1> QED BY EmptySeq DEF Init, IInv, Stages, StepPoint

(* Appending a command keeps the first.                                    *)
LEMMA Appended ==
  ASSUME IInv, NEW more \in Seq(Command), commands' = commands \o more
  PROVE  /\ commands' \in Seq(Command)
         /\ commands # <<>> => commands' # <<>> /\ commands'[1] = commands[1]
<1>1. commands \in Seq(Command)
  BY DEF IInv
<1>2. commands' \in Seq(Command) /\ Len(commands') = Len(commands) + Len(more)
  BY <1>1, ConcatProperties
<1>3. commands # <<>> => 1 \in 1..Len(commands)
  BY <1>1
<1> QED BY <1>1, <1>2, <1>3, ConcatProperties

LEMMA ReadKeeps == ASSUME IInv, Read PROVE IInv'
<1>1. Same
  BY DEF Read, Same
<1>2. Collected(job) \in Seq(Point \X Point)
  BY PageIsFound DEF IInv, Line
<1>3. segments' \in Seq(Point \X Point)
  BY <1>2 DEF Read, IInv
<1>4. pc' \in {"layout", "round", "refused"} /\ (pc' = "round" => ~ IsPrint)
  BY DEF Read, Goes, Refuse
<1>5. pc' = "round" => Inside = Point
  BY <1>4 DEF Inside
<1> QED BY <1>1, <1>3, <1>4, <1>5, AreaSame DEF IInv, Stages, Read

LEMMA LayOutKeeps == ASSUME IInv, LayOut PROVE IInv'
<1>1. Same
  BY DEF LayOut, Same
<1>2. \/ pc' = "refused"
      \/ pc' = "frame" /\ LayoutFits(job.w, job.h, LinkLen) /\ ClearOfMarks
  BY DEF LayOut, Goes, Refuse
<1> QED BY <1>1, <1>2, AreaSame DEF IInv, Stages, LayOut, Same

LEMMA MoveToFrameKeeps == ASSUME IInv, MoveToFrame PROVE IInv'
<1>1. Same
  BY DEF MoveToFrame, Same
<1>2. segments \in Seq(Point \X Point) /\ Len(segments) \in Nat
  BY DEF IInv
<1>3. ASSUME NEW k \in 1..Len(segments)
      PROVE  Framed[k] \in Point \X Point
  <2>1. segments[k] \in Point \X Point
    BY <1>2
  <2>2. ASSUME NEW p \in Point PROVE ToMarkFrame(job.w, p) \in Point
    BY SizesTyped DEF ToMarkFrame, Point
  <2>3. ToMarkFrame(job.w, segments[k][1]) \in Point /\ ToMarkFrame(job.w, segments[k][2]) \in Point
    BY <2>1, <2>2
  <2>4. Framed[k] = <<ToMarkFrame(job.w, segments[k][1]), ToMarkFrame(job.w, segments[k][2])>>
    BY <1>2 DEF Framed
  <2> QED BY <2>3, <2>4
<1>8. segments' = [k \in 1..Len(segments) |-> Framed[k]]
  BY <1>2 DEF MoveToFrame, Framed
<1>4. segments' \in Seq(Point \X Point)
  BY <1>2, <1>3, <1>8, IsASeq
<1>5. pc' \in {"round", "refused"} /\ pc = "frame"
  BY DEF MoveToFrame, Goes, Refuse
<1>6. pc' = "round" => segments' \in Seq(Inside \X Inside)
  <2>1. SUFFICES ASSUME pc' = "round" PROVE \A k \in 1..Len(segments) : Framed[k] \in Inside \X Inside
    BY <1>2, <1>8, IsASeq
  <2>2. \A k \in DOMAIN Framed : InsideMarks(Framed[k][1]) /\ InsideMarks(Framed[k][2])
    BY <2>1 DEF MoveToFrame, Goes, Refuse
  <2>3. DOMAIN Framed = 1..Len(segments)
    BY <1>2 DEF Framed
  <2> QED BY <1>3, <2>2, <2>3 DEF Inside
<1> QED BY <1>1, <1>4, <1>5, <1>6, AreaSame DEF IInv, Stages, MoveToFrame, Same

LEMMA RoundSegmentKeeps == ASSUME IInv, RoundSegment PROVE IInv'
<1>1. Same /\ UNCHANGED <<pc, segments, unvisited, current, draw, commands>> /\ pc = "round"
  BY DEF RoundSegment, Same
<1>2. next' \in Nat \ {0} /\ next \in 1..Len(segments) /\ segments \in Seq(Inside \X Inside)
  BY <1>1 DEF RoundSegment, IInv
<1>3. PICK s : /\ s = Rounded(segments[next])
               /\ ints' = IF s[1] = s[2] \/ IsSeen(s) THEN ints ELSE Append(ints, s)
  BY DEF RoundSegment
<1>4. s \in Area \X Area
  <2>1. segments[next] \in Inside \X Inside
    BY <1>2
  <2>2. segments[next][1] \in Inside /\ segments[next][2] \in Inside
    BY <2>1
  <2>3. /\ <<Steps(segments[next][1][1]), Steps(segments[next][1][2])>> \in Area
        /\ <<Steps(segments[next][2][1]), Steps(segments[next][2][2])>> \in Area
    BY <2>2, RoundedInside
  <2> QED BY <1>3, <2>3 DEF Rounded
<1>5. ints \in Seq(Area \X Area)
  BY DEF IInv
<1>6. ints' \in Seq(Area \X Area) /\ DOMAIN ints \subseteq DOMAIN ints'
  BY <1>3, <1>4, <1>5, AppendProperties
<1>7. unvisited' \subseteq DOMAIN ints'
  BY <1>1, <1>6 DEF IInv
<1> QED BY <1>1, <1>2, <1>6, <1>7, AreaSame DEF IInv, Same

LEMMA BeginTourKeeps == ASSUME IInv, BeginTour PROVE IInv'
<1>1. Same /\ UNCHANGED <<segments, next, ints, current, draw>> /\ pc = "round"
  BY DEF BeginTour, Same
<1>2. CASE pc' = "refused" /\ UNCHANGED <<unvisited, commands>>
  BY <1>1, <1>2, AreaSame DEF IInv, Stages, Same
<1>3. CASE pc' = "lift" /\ unvisited' = DOMAIN ints /\ ~ IsPrint /\ commands' = <<>>
  BY <1>1, <1>3, AreaSame, EmptySeq DEF IInv, Stages, Same
<1>4. CASE pc' = "lift" /\ unvisited' = DOMAIN ints /\ IsPrint /\ commands' = <<BetweenMarks>>
  <2>1. BetweenMarks \in Command
    <3>1. <<<<Steps(Lx(job.h)), Steps(Ly(job.w))>>>> \in Seq(Area)
      BY <1>1, AreaHasCorners
    <3> QED BY <3>1 DEF BetweenMarks, Command
  <2>2. commands' \in Seq(Command) /\ commands' # <<>> /\ commands'[1] = BetweenMarks
    BY <1>4, <2>1
  <2> QED BY <1>1, <1>4, <2>2, AreaSame DEF IInv, Stages, Same
<1> QED BY <1>2, <1>3, <1>4 DEF BeginTour, Goes, Refuse, Indexes, BetweenMarks

LEMMA StartChainKeeps == ASSUME IInv, StartChain PROVE IInv'
<1>1. Same /\ UNCHANGED <<segments, next, ints>> /\ pc = "lift" /\ pc' = "draw"
  BY DEF StartChain, Same, Goes
<1>2. PICK k : /\ k = Min(unvisited)
               /\ commands' = Append(commands, Move(ints[k][1]))
               /\ draw' = <<ints[k][2]>> /\ current' = ints[k][2]
               /\ unvisited' = unvisited \ {k}
  BY DEF StartChain
<1>3. k \in DOMAIN ints
  <2>1. unvisited \in SUBSET Nat /\ unvisited # {}
    BY DEF IInv, StartChain
  <2> QED BY <1>2, <2>1, MinOfNats DEF IInv
<1>4. ints[k][1] \in Area /\ ints[k][2] \in Area
  BY <1>3 DEF IInv
<1>5. Move(ints[k][1]) \in Command
  BY <1>4, MoveTyped
<1>6. commands' = commands \o <<Move(ints[k][1])>> /\ <<Move(ints[k][1])>> \in Seq(Command)
  <2>1. commands \in Seq(Command) /\ commands' = Append(commands, Move(ints[k][1]))
    BY <1>2 DEF IInv
  <2> HIDE DEF Command
  <2> QED BY <1>5, <2>1, AppendIsConcat
<1>7. /\ commands' \in Seq(Command)
      /\ commands # <<>> => commands' # <<>> /\ commands'[1] = commands[1]
  BY <1>6, Appended
<1>8. draw' \in Seq(Area) /\ current' \in StepPoint /\ unvisited' \subseteq DOMAIN ints
  BY <1>2, <1>4, AreaTyped DEF IInv
<1> QED BY <1>1, <1>7, <1>8, AreaSame DEF IInv, Stages, Same

LEMMA ExtendKeeps == ASSUME IInv, Extend PROVE IInv'
<1>1. Same /\ UNCHANGED <<pc, segments, next, ints, commands>> /\ pc = "draw"
  BY DEF Extend, Same
<1>2. PICK k, p : /\ k = Min(Candidates(current)) /\ p = OtherEnd(ints[k], current)
                  /\ draw' = Append(draw, p) /\ current' = p
                  /\ unvisited' = unvisited \ {k}
  BY DEF Extend
<1>3. k \in DOMAIN ints
  <2>1. Candidates(current) \in SUBSET Nat /\ Candidates(current) # {}
    BY DEF IInv, Extend, Candidates
  <2> QED BY <1>2, <2>1, MinOfNats DEF IInv, Candidates
<1>4. ints[k][1] \in Area /\ ints[k][2] \in Area
  BY <1>3 DEF IInv
<1>5. p \in Area
  BY <1>2, <1>4 DEF OtherEnd
<1>6. draw' \in Seq(Area) /\ current' \in StepPoint /\ unvisited' \subseteq DOMAIN ints
  BY <1>2, <1>5, AreaTyped, AppendProperties DEF IInv
<1> QED BY <1>1, <1>6, AreaSame DEF IInv, Stages, Same

LEMMA EndChainKeeps == ASSUME IInv, EndChain PROVE IInv'
<1>1. /\ Same /\ UNCHANGED <<segments, next, ints, unvisited, current>>
      /\ pc = "draw" /\ pc' = "lift" /\ draw' = <<>> /\ commands' = commands \o Batches(draw)
  BY DEF EndChain, Same, Goes
<1>2. Batches(draw) \in Seq(DrawOf(Area))
  BY BatchFacts DEF IInv
<1>3. DrawOf(Area) \subseteq Command
  BY DEF DrawOf, Command
<1>4. Batches(draw) \in Seq(Command)
  BY <1>2, <1>3, SeqMonotonic
<1>5. /\ commands' \in Seq(Command)
      /\ commands # <<>> => commands' # <<>> /\ commands'[1] = commands[1]
  BY <1>1, <1>4, Appended
<1> QED BY <1>1, <1>5, AreaSame, EmptySeq DEF IInv, Stages, Same

LEMMA FinishKeeps == ASSUME IInv, Finish PROVE IInv'
<1>1. /\ Same /\ UNCHANGED <<segments, next, ints, unvisited, current, draw>>
      /\ pc = "lift" /\ pc' = "done"
  BY DEF Finish, Same, Goes
<1>2. Move(<<0, 0>>) \in Command
  BY <1>1, AreaHasCorners, MoveTyped
<1>3. commands' = commands \o <<Move(<<0, 0>>)>> /\ <<Move(<<0, 0>>)>> \in Seq(Command)
  BY <1>2, AppendIsConcat DEF IInv, Finish
<1>4. /\ commands' \in Seq(Command)
      /\ commands # <<>> => commands' # <<>> /\ commands'[1] = commands[1]
  BY <1>3, Appended
<1> QED BY <1>1, <1>4, AreaSame DEF IInv, Stages, Same

LEMMA UnchangedKeeps == ASSUME IInv, UNCHANGED vars PROVE IInv'
<1>1. Same
  BY DEF vars, Same
<1> QED BY <1>1, AreaSame DEF IInv, vars, Same

LEMMA StepKeeps == IInv /\ [Next]_vars => IInv'
BY ReadKeeps, LayOutKeeps, MoveToFrameKeeps, RoundSegmentKeeps, BeginTourKeeps,
   StartChainKeeps, ExtendKeeps, EndChainKeeps, FinishKeeps, UnchangedKeeps
   DEF Next, Returned

LEMMA Invariance == Spec => []IInv
BY InitHolds, StepKeeps, PTL DEF Spec

-----------------------------------------------------------------------------
(* What commands draw                                                      *)

(* Commands that name some points and of which a D is never the first.     *)
SomeCommand == {c \in [op : {"M", "D", "TB24"}, pts : Seq(Point)] : c.pts # <<>>}
Program == {cs \in Seq(SomeCommand) : cs # <<>> => cs[1].op # "D"}

DrawnAt(cs, k) ==
  IF cs[k].op = "D" THEN Chords(<<Last(cs[k - 1].pts)>> \o cs[k].pts) ELSE <<>>

DrawnIn(cs) == FlattenSeq([k \in DOMAIN cs |-> DrawnAt(cs, k)])

(* Where the tool is after a program.                                      *)
ToolAt(cs) == Last(Last(cs).pts)

DrawnOn(from, c) == IF c.op = "D" THEN Chords(<<from>> \o c.pts) ELSE <<>>

LEMMA LastPoint ==
  ASSUME NEW c \in SomeCommand
  PROVE  Last(c.pts) \in Point
<1>1. c.pts \in Seq(Point) /\ c.pts # <<>>
  BY DEF SomeCommand
<1>2. Len(c.pts) \in 1..Len(c.pts)
  BY <1>1
<1> QED BY <1>1, <1>2 DEF Last

LEMMA DrawnOnTyped ==
  ASSUME NEW from \in Point, NEW c \in SomeCommand
  PROVE  DrawnOn(from, c) \in Seq(Line)
<1>1. c.pts \in Seq(Point) /\ <<from>> \in Seq(Point)
  BY DEF SomeCommand
<1>2. <<from>> \o c.pts \in Seq(Point)
  BY <1>1, ConcatProperties
<1>3. Chords(<<from>> \o c.pts) \in Seq(Line)
  BY <1>2, ChordsFacts DEF Line
<1>4. <<>> \in Seq(Line)
  OBVIOUS
<1> QED BY <1>3, <1>4 DEF DrawnOn

LEMMA ToolIsSomewhere ==
  ASSUME NEW cs \in Program, cs # <<>>
  PROVE  ToolAt(cs) \in Point /\ Last(cs) = cs[Len(cs)] /\ Len(cs) \in 1..Len(cs)
<1>1. cs \in Seq(SomeCommand) /\ Len(cs) \in 1..Len(cs)
  BY DEF Program
<1>2. Last(cs) = cs[Len(cs)] /\ Last(cs) \in SomeCommand
  BY <1>1 DEF Last
<1> QED BY <1>1, <1>2, LastPoint DEF ToolAt

(* One more command draws from where the tool is.                          *)
LEMMA DrawnAppend ==
  ASSUME NEW cs \in Program, NEW c \in SomeCommand, cs # <<>> \/ c.op # "D"
  PROVE  /\ DrawnIn(cs) \in Seq(Line)
         /\ Append(cs, c) \in Program /\ Append(cs, c) # <<>>
         /\ ToolAt(Append(cs, c)) = Last(c.pts)
         /\ DrawnIn(Append(cs, c)) = DrawnIn(cs) \o DrawnOn(ToolAt(cs), c)
<1> DEFINE n == Len(cs)
           ds == Append(cs, c)
           u == [k \in DOMAIN cs |-> DrawnAt(cs, k)]
           v == [k \in DOMAIN ds |-> DrawnAt(ds, k)]
           T == Seq(Line)
           last == DrawnOn(ToolAt(cs), c)
<1>1. cs \in Seq(SomeCommand) /\ n \in Nat /\ DOMAIN cs = 1..n /\ (cs = <<>> <=> n = 0)
  BY EmptySeq DEF Program
<1>2. /\ ds \in Seq(SomeCommand) /\ Len(ds) = n + 1 /\ DOMAIN ds = 1..n + 1 /\ ds[n + 1] = c
      /\ \A k \in 1..n : ds[k] = cs[k]
  <2>1. /\ ds \in Seq(SomeCommand) /\ Len(ds) = n + 1 /\ ds[n + 1] = c
        /\ \A k \in 1..n : ds[k] = cs[k]
    BY <1>1, AppendProperties
  <2> HIDE DEF ds, n
  <2> QED BY <1>1, <2>1
<1> HIDE DEF n, ds
<1>3. ds # <<>> /\ ds \in Program
  <2>1. 1 \in 1..n \/ n = 0
    BY <1>1
  <2>2. ds # <<>>
    <3>1. n + 1 # 0
      BY <1>1
    <3> QED BY <1>2, <3>1, EmptySeq
  <2>3. ds[1].op # "D"
    <3>1. CASE n = 0
      BY <1>1, <1>2, <3>1
    <3>2. CASE 1 \in 1..n
      <4>1. cs[1].op # "D"
        BY <1>1, <3>2 DEF Program
      <4> QED BY <1>2, <3>2, <4>1
    <3> QED BY <2>1, <3>1, <3>2
  <2> QED BY <1>2, <2>2, <2>3 DEF Program
<1>4. ASSUME NEW k \in 1..n PROVE DrawnAt(cs, k) \in T /\ DrawnAt(ds, k) = DrawnAt(cs, k)
  <2>1. CASE cs[k].op # "D"
    <3>1. DrawnAt(cs, k) = <<>> /\ DrawnAt(ds, k) = <<>>
      BY <1>2, <2>1 DEF DrawnAt
    <3> QED BY <3>1
  <2>2. CASE cs[k].op = "D"
    <3>1. k # 1 /\ k - 1 \in 1..n
      <4>1. cs # <<>> /\ cs[1].op # "D"
        BY <1>1 DEF Program
      <4>2. k # 1
        BY <2>2, <4>1
      <4> QED BY <1>1, <4>2
    <3>2. cs[k - 1] \in SomeCommand /\ cs[k] \in SomeCommand
      BY <1>1, <3>1
    <3>3. DrawnAt(cs, k) = DrawnOn(Last(cs[k - 1].pts), cs[k])
      BY <2>2 DEF DrawnAt, DrawnOn
    <3>4. DrawnAt(cs, k) \in T
      BY <3>2, <3>3, LastPoint, DrawnOnTyped
    <3>5. ds[k] = cs[k] /\ ds[k - 1] = cs[k - 1]
      BY <1>2, <3>1
    <3>6. DrawnAt(ds, k) = DrawnAt(cs, k)
      BY <3>5 DEF DrawnAt
    <3> QED BY <3>4, <3>6
  <2> QED BY <2>1, <2>2
<1>5. DrawnAt(ds, n + 1) = last /\ last \in T
  <2>1. CASE c.op # "D"
    <3>1. DrawnAt(ds, n + 1) = <<>> /\ last = <<>>
      BY <1>2, <2>1 DEF DrawnAt, DrawnOn
    <3> QED BY <3>1
  <2>2. CASE c.op = "D"
    <3>1. cs # <<>> /\ n \in 1..n /\ (n + 1) - 1 = n
      BY <1>1, <2>2
    <3>2. ToolAt(cs) = Last(cs[n].pts) /\ ToolAt(cs) \in Point
      BY <3>1, ToolIsSomewhere DEF ToolAt, n
    <3>3. ds[(n + 1) - 1] = cs[n]
      BY <1>2, <3>1
    <3>4. DrawnAt(ds, n + 1) = last
      BY <1>2, <2>2, <3>2, <3>3 DEF DrawnAt, DrawnOn
    <3> QED BY <3>2, <3>4, DrawnOnTyped
  <2> QED BY <2>1, <2>2
<1> HIDE DEF last
<1>6. u \in Seq(T) /\ Len(u) = n
  <2>1. u = [k \in 1..n |-> DrawnAt(cs, k)]
    BY <1>1
  <2>2. \A k \in 1..n : DrawnAt(cs, k) \in T
    BY <1>4
  <2> HIDE DEF u, T
  <2> QED BY <1>1, <2>1, <2>2, IsASeq
<1>7. v = Append(u, last)
  <2> DEFINE w == Append(u, last)
  <2>1. /\ w \in Seq(T) /\ Len(w) = n + 1 /\ w[n + 1] = last
        /\ \A k \in 1..n : w[k] = u[k]
    <3> HIDE DEF u, T
    <3> QED BY <1>5, <1>6, AppendProperties
  <2> HIDE DEF w
  <2>2. DOMAIN w = 1..n + 1
    BY <1>1, <2>1
  <2>3. ASSUME NEW k \in 1..n + 1 PROVE w[k] = DrawnAt(ds, k)
    <3>1. CASE k = n + 1
      BY <1>5, <2>1, <3>1
    <3>2. CASE k \in 1..n
      <4>1. u[k] = DrawnAt(cs, k)
        BY <1>1, <3>2
      <4> QED BY <1>4, <2>1, <3>2, <4>1
    <3> QED BY <1>1, <3>1, <3>2
  <2>4. w = [k \in 1..n + 1 |-> w[k]]
    BY <2>1, <2>2
  <2>5. v = w
    BY <1>2, <2>3, <2>4
  <2> QED BY <2>5 DEF w
<1>8. DrawnIn(cs) = FlattenSeq(u) /\ DrawnIn(ds) = FlattenSeq(v)
  BY DEF DrawnIn
<1>9. FlattenSeq(u) \in T /\ FlattenSeq(v) = FlattenSeq(u) \o last
  <2> HIDE DEF u, v
  <2> QED BY <1>5, <1>6, <1>7, FlattenAppend
<1>10. ToolAt(ds) = Last(c.pts)
  BY <1>2 DEF ToolAt, Last
<1> HIDE DEF u, v
<1> QED BY <1>3, <1>8, <1>9, <1>10 DEF ds, last

(* The batches draw what the chain draws that they are made of, from where *)
(* the tool is.                                                            *)
LEMMA BatchesDraw ==
  ASSUME NEW cs \in Program, cs # <<>>, NEW points \in Seq(Point)
  PROVE  /\ cs \o Batches(points) \in Program
         /\ DrawnIn(cs \o Batches(points)) =
              DrawnIn(cs) \o Chords(<<ToolAt(cs)>> \o points)
<1> DEFINE n == Len(points)
           bs == Batches(points)
           m == (n + MaxPairs - 1) \div MaxPairs
           p == ToolAt(cs)
           some(b) == SubSeq(points, 1, BatchEnd(n, b))
           with(b) == cs \o UpTo(bs, b)
           Good == {b \in 0..m : /\ with(b) \in Program /\ with(b) # <<>>
                                 /\ ToolAt(with(b)) = Last(<<p>> \o some(b))
                                 /\ DrawnIn(with(b)) = DrawnIn(cs) \o Chords(<<p>> \o some(b))}
<1>1. /\ m \in Nat /\ BatchEnd(n, 0) = 0 /\ BatchEnd(n, m) = n
      /\ \A b \in 1..m :
           /\ BatchEnd(n, b - 1) \in 0..n /\ BatchEnd(n, b) \in 0..n
           /\ BatchEnd(n, b - 1) < BatchEnd(n, b)
  BY BatchBounds
<1>2. /\ bs \in Seq(SomeCommand) /\ Len(bs) = m
      /\ \A b \in 1..m :
           /\ bs[b].op = "D"
           /\ bs[b].pts = SubSeq(points, BatchEnd(n, b - 1) + 1, BatchEnd(n, b))
  <2>1. bs \in Seq(DrawOf(Point)) /\ DrawOf(Point) \subseteq SomeCommand
    BY BatchFacts, EmptySeq DEF DrawOf, SomeCommand
  <2>2. bs \in Seq(SomeCommand)
    BY <2>1, SeqMonotonic
  <2> QED BY <2>2, BatchFacts
<1>3. cs \in Seq(SomeCommand) /\ p \in Point /\ DrawnIn(cs) \in Seq(Line)
  <2>1. p \in Point
    BY ToolIsSomewhere
  <2>2. [op |-> "M", pts |-> <<p>>] \in SomeCommand /\ [op |-> "M", pts |-> <<p>>].op # "D"
    BY <2>1 DEF SomeCommand
  <2> HIDE DEF p
  <2> QED BY <2>1, <2>2, DrawnAppend DEF Program
<1>4. n \in Nat
  OBVIOUS
<1> HIDE DEF n, bs, m, p
<1>5. 0 \in Good
  <2>1. UpTo(bs, 0) = <<>> /\ with(0) = cs
    <3>1. UpTo(bs, 0) = <<>>
      BY <1>2, UpToNext
    <3> QED BY <1>3, <3>1, ConcatEmptySeq
  <2>2. some(0) = <<>> /\ <<p>> \o some(0) = <<p>>
    <3>1. some(0) = <<>>
      BY <1>1, SubSeqEmpty
    <3>2. <<p>> \in Seq(Point)
      BY <1>3
    <3> QED BY <3>1, <3>2, ConcatEmptySeq
  <2>3. Chords(<<p>>) = <<>> /\ Last(<<p>>) = p
    <3>1. Last(<<p>>) = p
      BY DEF Last
    <3> QED BY <1>3, <3>1, ChordsOfOne
  <2>4. DrawnIn(cs) \o <<>> = DrawnIn(cs)
    BY <1>3, ConcatEmptySeq
  <2>5. 0 \in 0..m
    BY <1>1
  <2> HIDE DEF with, some
  <2> QED BY <2>1, <2>2, <2>3, <2>4, <2>5 DEF p
<1>6. ASSUME NEW b \in 0..m - 1, b \in Good PROVE b + 1 \in Good
  <2> DEFINE c == bs[b + 1]  ds == with(b)
  <2>0. b + 1 \in 1..m /\ b + 1 \in 0..m /\ (b + 1) - 1 = b /\ b \in 0..m
    BY <1>1
  <2>1. c \in SomeCommand /\ c.op = "D" /\ c.pts = SubSeq(points, BatchEnd(n, b) + 1, BatchEnd(n, b + 1))
    <3>1. c \in SomeCommand
      BY <1>2, <2>0
    <3> QED BY <1>2, <2>0, <3>1
  <2>2. /\ ds \in Program /\ ds # <<>> /\ ToolAt(ds) = Last(<<p>> \o some(b))
        /\ DrawnIn(ds) = DrawnIn(cs) \o Chords(<<p>> \o some(b))
    BY <1>6
  <2>3. with(b + 1) = Append(ds, c)
    <3> DEFINE t == UpTo(bs, b)
    <3>1. t \in Seq(SomeCommand) /\ UpTo(bs, b + 1) = Append(t, c)
      BY <1>1, <1>2, <2>0, UpToNext
    <3> HIDE DEF t, c
    <3>2. Append(t, c) = t \o <<c>> /\ <<c>> \in Seq(SomeCommand)
      BY <2>1, <3>1, AppendIsConcat
    <3>3. cs \o (t \o <<c>>) = (cs \o t) \o <<c>> /\ cs \o t \in Seq(SomeCommand)
      BY <1>3, <3>1, <3>2, ConcatAssociative, ConcatProperties
    <3>4. Append(cs \o t, c) = (cs \o t) \o <<c>>
      BY <2>1, <3>3, AppendIsConcat
    <3> QED BY <3>1, <3>2, <3>3, <3>4 DEF t
  <2>4. some(b) \in Seq(Point) /\ c.pts \in Seq(Point) /\ some(b + 1) = some(b) \o c.pts
    <3>1. BatchEnd(n, b) \in 0..n /\ BatchEnd(n, b + 1) \in 0..n /\ BatchEnd(n, b) < BatchEnd(n, b + 1)
      BY <1>1, <2>0
    <3> DEFINE x == BatchEnd(n, b)  y == BatchEnd(n, b + 1)
    <3> HIDE DEF x, y
    <3>2. 1 \in 1..Len(points) + 1 /\ x \in 1 - 1..Len(points) /\ y \in x..Len(points)
      BY <1>4, <3>1 DEF x, y, n
    <3>3. SubSeq(points, 1, x) \o SubSeq(points, x + 1, y) = SubSeq(points, 1, y)
      BY <3>2, ConcatAdjacentSubSeq
    <3>4. SubSeq(points, 1, x) \in Seq(Point)
      <4>1. \A i \in 1..x : points[i] \in Point
        BY <3>2
      <4>2. x \in Int
        BY <1>4, <3>1 DEF x
      <4> QED BY <4>1, <4>2, SubSeqProperties
    <3>5. c.pts \in Seq(Point)
      BY <2>1 DEF SomeCommand
    <3> QED BY <2>1, <3>3, <3>4, <3>5 DEF x, y
  <2> HIDE DEF c, ds, some
  <2>5. DrawnIn(Append(ds, c)) = DrawnIn(ds) \o Chords(<<ToolAt(ds)>> \o c.pts)
    BY <2>1, <2>2, DrawnAppend DEF DrawnOn
  <2> DEFINE u == <<p>> \o some(b)
  <2>6. u \in Seq(Point) /\ u # <<>> /\ <<p>> \o some(b + 1) = u \o c.pts
    <3>1. <<p>> \in Seq(Point) /\ <<p>> # <<>>
      BY <1>3
    <3>2. <<p>> \o (some(b) \o c.pts) = (<<p>> \o some(b)) \o c.pts
      <4> DEFINE x == <<p>>  y == c.pts
      <4>1. x \in Seq(Point) /\ y \in Seq(Point)
        BY <2>4, <3>1
      <4> HIDE DEF x, y
      <4>2. \A r, s, t \in Seq(Point) : (r \o s) \o t = r \o (s \o t)
        BY ConcatAssociative
      <4>3. some(b) \in Seq(Point)
        BY <2>4
      <4>4. x \o (some(b) \o y) = (x \o some(b)) \o y
        BY <4>1, <4>2, <4>3
      <4> QED BY <4>4 DEF x, y
    <3>3. u \in Seq(Point) /\ u # <<>>
      BY <2>4, <3>1, ConcatProperties, ConcatEqualIffEmpty
    <3> QED BY <2>4, <3>2, <3>3
  <2> HIDE DEF u
  <2>7. /\ Chords(u \o c.pts) = Chords(u) \o Chords(<<Last(u)>> \o c.pts)
        /\ Chords(u) \in Seq(Line) /\ Chords(<<Last(u)>> \o c.pts) \in Seq(Line)
    <3>1. Last(u) \in Point
      <4>1. Len(u) \in 1..Len(u)
        BY <2>6
      <4> QED BY <2>6, <4>1 DEF Last
    <3>2. <<Last(u)>> \o c.pts \in Seq(Point)
      <4>1. <<Last(u)>> \in Seq(Point)
        BY <3>1
      <4> QED BY <2>4, <4>1, ConcatProperties
    <3> QED BY <2>4, <2>6, <3>2, ChordsJoin, ChordsFacts DEF Line
  <2>8. DrawnIn(Append(ds, c)) = DrawnIn(cs) \o Chords(<<p>> \o some(b + 1))
    <3>1. ToolAt(ds) = Last(u) /\ DrawnIn(ds) = DrawnIn(cs) \o Chords(u)
      BY <2>2 DEF u
    <3> DEFINE x == Chords(u)  y == Chords(<<Last(u)>> \o c.pts)
    <3>2. (DrawnIn(cs) \o x) \o y = DrawnIn(cs) \o (x \o y)
      <4> HIDE DEF x, y
      <4>1. x \in Seq(Line) /\ y \in Seq(Line)
        BY <2>7 DEF x, y
      <4> QED BY <1>3, <4>1, ConcatAssociative
    <3> QED BY <2>5, <2>6, <2>7, <3>1, <3>2
  <2>9. ToolAt(Append(ds, c)) = Last(<<p>> \o some(b + 1))
    <3>1. ToolAt(Append(ds, c)) = Last(c.pts)
      BY <2>1, <2>2, DrawnAppend
    <3>2. c.pts # <<>>
      BY <2>1 DEF SomeCommand
    <3> DEFINE v == c.pts  w == u \o v
    <3> HIDE DEF v
    <3>3. v \in Seq(Point) /\ v # <<>>
      BY <2>4, <3>2 DEF v
    <3>4. Len(v) \in Nat /\ Len(v) >= 1 /\ Len(u) \in Nat
      BY <2>6, <3>3, EmptySeq
    <3>5. Len(w) = Len(u) + Len(v) /\ w[Len(w)] = v[Len(v)]
      <4>1. /\ Len(w) = Len(u) + Len(v)
            /\ \A i \in 1..Len(u) + Len(v) : w[i] = IF i <= Len(u) THEN u[i] ELSE v[i - Len(u)]
        BY <2>6, <3>3, ConcatProperties
      <4> HIDE DEF w
      <4>2. Len(w) \in 1..Len(u) + Len(v) /\ ~ (Len(w) <= Len(u)) /\ Len(w) - Len(u) = Len(v)
        BY <3>4, <4>1
      <4> QED BY <4>1, <4>2
    <3> QED BY <2>6, <3>1, <3>5 DEF Last, v
  <2>10. Append(ds, c) \in Program /\ Append(ds, c) # <<>>
    BY <2>1, <2>2, DrawnAppend
  <2> HIDE DEF with
  <2> QED BY <2>0, <2>3, <2>8, <2>9, <2>10
<1>7. m \in Good
  <2> HIDE DEF Good
  <2>1. 0..m \subseteq Good
    BY <1>1, <1>5, <1>6, InductionTo
  <2> QED BY <1>1, <2>1
<1>8. UpTo(bs, m) = bs /\ some(m) = points
  <2>1. UpTo(bs, m) = bs
    BY <1>2, UpToNext
  <2>2. some(m) = points
    BY <1>1, SubSeqFull DEF n
  <2> QED BY <2>1, <2>2
<1> HIDE DEF some
<1> QED BY <1>7, <1>8 DEF bs, p

-----------------------------------------------------------------------------
(* The lines of the program                                                *)

Ends(s) == {s[1], s[2]}

(* Lines of the page, where the program measures them.                     *)
Located(A) ==
  [k \in DOMAIN A |->
     IF IsPrint THEN <<ToMarkFrame(job.w, A[k][1]), ToMarkFrame(job.w, A[k][2])>> ELSE A[k]]

(* The first n segments are in steps: each of them that has a length is    *)
(* there once, in either direction, and nothing else is.                   *)
RoundedUpTo(n) ==
  /\ \A k \in 1..n :
       \/ Rounded(segments[k])[1] = Rounded(segments[k])[2]
       \/ \E i \in DOMAIN ints : Ends(ints[i]) = Ends(Rounded(segments[k]))
  /\ \A i \in DOMAIN ints :
       ints[i][1] # ints[i][2] /\ \E k \in 1..n : ints[i] = Rounded(segments[k])
  /\ \A i, j \in DOMAIN ints : Ends(ints[i]) = Ends(ints[j]) => i = j

(* What the chain draws that is not written yet.                           *)
Pending == IF pc = "draw" THEN Chords(<<ToolAt(commands)>> \o draw) ELSE <<>>

(* The lines D are those of is that are not left, each of them once.       *)
Visits(D, is, left) ==
  /\ Len(D) + Cardinality(left) = Len(is)
  /\ \A k \in DOMAIN D : \E i \in DOMAIN is \ left : Ends(D[k]) = Ends(is[i])
  /\ \A i \in DOMAIN is \ left : \E k \in DOMAIN D : Ends(D[k]) = Ends(is[i])

EndPoints == UNION {Ends(ints[i]) : i \in DOMAIN ints}

Touring == pc \in {"lift", "draw", "done"}

Reading ==
  /\ pc \in {"read", "layout", "frame"} => ints = <<>> /\ next = 1
  /\ pc \in {"layout", "frame"} => IsPrint /\ segments = Collected(job)
  /\ pc = "round" \/ Touring => segments = Located(Collected(job))
  /\ pc = "round" => next <= Len(segments) + 1 /\ RoundedUpTo(next - 1)
  /\ Touring => RoundedUpTo(Len(segments))

Drawing ==
  /\ Touring => commands \in Program /\ Visits(DrawnIn(commands) \o Pending, ints, unvisited)
  /\ pc = "draw" => commands # <<>> /\ draw # <<>> /\ current = Last(draw)
  /\ pc = "done" => unvisited = {}

(* The tool goes to ends of lines only, and at last to the origin.         *)
Going ==
  /\ pc = "draw" => draw \in Seq(EndPoints)
  /\ Touring =>
       \A k \in 2..Len(commands) :
         (pc = "done" /\ k = Len(commands)) \/ commands[k].pts \in Seq(EndPoints)

CutInv == Reading /\ Drawing /\ Going

-----------------------------------------------------------------------------
(* Lines and their ends                                                    *)

LEMMA LineIsPair ==
  ASSUME NEW s \in Line
  PROVE  s[1] \in Point /\ s[2] \in Point /\ s = <<s[1], s[2]>>
BY DEF Line

(* Two lines have the same ends if they are the same, in some direction.   *)
LEMMA EndsFacts ==
  ASSUME NEW s \in Line, NEW t \in Line
  PROVE  Ends(s) = Ends(t) <=> Alongside(s, t)
<1>1. PICK a, b, c, d : s = <<a, b>> /\ t = <<c, d>>
  BY LineIsPair
<1>2. Ends(s) = {a, b} /\ Ends(t) = {c, d} /\ Reversed(t) = <<d, c>>
  BY <1>1 DEF Ends, Reversed
<1>3. {a, b} = {c, d} <=> (a = c /\ b = d) \/ (a = d /\ b = c)
  <2>1. ASSUME {a, b} = {c, d} PROVE (a = c /\ b = d) \/ (a = d /\ b = c)
    <3>1. a \in {c, d} /\ b \in {c, d} /\ c \in {a, b} /\ d \in {a, b}
      BY <2>1
    <3> QED BY <3>1
  <2>2. ASSUME a = d, b = c PROVE {a, b} = {c, d}
    BY <2>2
  <2> QED BY <2>1, <2>2
<1>4. Alongside(s, t) <=> (a = c /\ b = d) \/ (a = d /\ b = c)
  BY <1>1, <1>2 DEF Alongside
<1> QED BY <1>2, <1>3, <1>4

LEMMA RoundedIsLine ==
  ASSUME NEW s \in Line
  PROVE  /\ Rounded(s) \in Line /\ Rounded(Reversed(s)) = Reversed(Rounded(s))
         /\ s[1] = s[2] => Rounded(s)[1] = Rounded(s)[2]
<1>1. /\ s[1] \in Point /\ s[2] \in Point
      /\ s[1][1] \in Int /\ s[1][2] \in Int /\ s[2][1] \in Int /\ s[2][2] \in Int
  BY LineIsPair DEF Point
<1>2. Rounded(s) \in Line
  BY <1>1, StepsFacts DEF Rounded, Line, Point
<1>3. Rounded(Reversed(s)) = Reversed(Rounded(s))
  BY DEF Rounded, Reversed
<1>4. s[1] = s[2] => Rounded(s)[1] = Rounded(s)[2]
  BY DEF Rounded
<1> QED BY <1>2, <1>3, <1>4

LEMMA IntsTyped == ASSUME IInv PROVE ints \in Seq(Line)
<1>1. Area \X Area \subseteq Line
  BY AreaTyped DEF StepPoint, Line, Point
<1> QED BY <1>1, SeqMonotonic DEF IInv

-----------------------------------------------------------------------------
(* The page is read and rounded                                            *)

LEMMA InitReads == ASSUME Init PROVE Reading
BY DEF Init, Reading, Touring

LEMMA LocatedSame == ASSUME Same PROVE Located(Collected(job))' = Located(Collected(job))
BY DEF Same, Located, IsPrint

LEMMA ReadReads == ASSUME IInv, Reading, Read PROVE Reading'
<1>1. Same /\ ints' = <<>> /\ next' = 1 /\ pc = "read"
  BY DEF Read, Same, Reading
<1>2. /\ pc' \in {"refused", "layout", "round"}
      /\ pc' = "layout" => IsPrint /\ segments' = Collected(job)
      /\ pc' = "round" => ~ IsPrint /\ segments' = Collected(job)
  BY DEF Read, Goes, Refuse
<1>3. Collected(job) \in Seq(Line)
  BY PageIsFound DEF IInv
<1>4. CASE pc' = "refused"
  BY <1>4 DEF Reading, Touring
<1>5. CASE pc' = "layout"
  BY <1>1, <1>2, <1>5, AreaSame DEF Reading, Touring, Same
<1>6. CASE pc' = "round"
  <2>1. segments' = Located(Collected(job))'
    <3>1. Located(Collected(job)) = Collected(job)
      <4> DEFINE A == Collected(job)
      <4>1. A = [k \in DOMAIN A |-> A[k]]
        BY <1>3
      <4> HIDE DEF A
      <4>2. Located(A) = A
        BY <1>2, <1>6, <4>1 DEF Located
      <4> QED BY <4>2 DEF A
    <3> QED BY <1>1, <1>2, <1>6, <3>1, LocatedSame
  <2>2. RoundedUpTo(next - 1)'
    <3>1. 1..next' - 1 = {} /\ DOMAIN ints' = {}
      BY <1>1
    <3> QED BY <3>1 DEF RoundedUpTo
  <2>3. next' <= Len(segments') + 1
    <3>1. Len(segments') \in Nat
      BY <1>2, <1>3, <1>6
    <3> QED BY <1>1, <3>1
  <2> QED BY <1>6, <2>1, <2>2, <2>3 DEF Reading, Touring
<1> QED BY <1>2, <1>4, <1>5, <1>6

LEMMA LayOutReads == ASSUME IInv, Reading, LayOut PROVE Reading'
<1>1. Same /\ UNCHANGED <<segments, ints, next>> /\ pc = "layout" /\ pc' \in {"frame", "refused"}
  BY DEF LayOut, Same, Goes, Refuse
<1> QED BY <1>1, AreaSame DEF Reading, Touring, Same

LEMMA MoveToFrameReads == ASSUME IInv, Reading, MoveToFrame PROVE Reading'
<1>1. /\ Same /\ UNCHANGED <<ints, next>> /\ pc = "frame" /\ pc' \in {"round", "refused"}
      /\ segments' = Framed
  BY DEF MoveToFrame, Same, Goes, Refuse
<1>2. IsPrint /\ segments = Collected(job) /\ ints = <<>> /\ next = 1
  BY <1>1 DEF Reading
<1>3. segments' = Located(Collected(job))'
  <2>1. Framed = Located(Collected(job))
    BY <1>2 DEF Framed, Located
  <2> QED BY <1>1, <2>1, LocatedSame
<1>4. Len(segments') \in Nat
  <2>1. segments' \in Seq(Point \X Point)
    BY MoveToFrameKeeps DEF IInv
  <2> QED BY <2>1
<1>5. RoundedUpTo(next - 1)'
  <2>1. 1..next' - 1 = {} /\ DOMAIN ints' = {}
    BY <1>1, <1>2
  <2> QED BY <2>1 DEF RoundedUpTo
<1> QED BY <1>1, <1>2, <1>3, <1>4, <1>5 DEF Reading, Touring

LEMMA RoundSegmentReads == ASSUME IInv, Reading, RoundSegment PROVE Reading'
<1>1. /\ Same /\ UNCHANGED <<pc, segments>> /\ pc = "round"
      /\ next' = next + 1 /\ next \in Nat \ {0} /\ next <= Len(segments) /\ Len(segments) \in Nat
  BY DEF RoundSegment, Same, IInv
<1> DEFINE s == Rounded(segments[next])
<1>2. ints' = IF s[1] = s[2] \/ IsSeen(s) THEN ints ELSE Append(ints, s)
  BY DEF RoundSegment
<1>3. RoundedUpTo(next - 1) /\ segments = Located(Collected(job))
  BY <1>1 DEF Reading
<1>4. s \in Line /\ ints \in Seq(Line) /\ DOMAIN ints = 1..Len(ints) /\ Len(ints) \in Nat
  <2>1. segments[next] \in Line
    BY <1>1 DEF IInv, Line
  <2> QED BY <2>1, RoundedIsLine, IntsTyped
<1>5. \A k \in 1..next : k \in 1..next - 1 \/ k = next
  BY <1>1
<1>6. \A k \in 1..next - 1 : k \in 1..next
  BY <1>1
<1>7. next \in 1..next /\ next' - 1 = next
  BY <1>1
<1> DEFINE Fine(is) ==
      /\ \A k \in 1..next :
           \/ Rounded(segments[k])[1] = Rounded(segments[k])[2]
           \/ \E i \in DOMAIN is : Ends(is[i]) = Ends(Rounded(segments[k]))
      /\ \A i \in DOMAIN is :
           is[i][1] # is[i][2] /\ \E k \in 1..next : is[i] = Rounded(segments[k])
      /\ \A i, j \in DOMAIN is : Ends(is[i]) = Ends(is[j]) => i = j
<1>8. ASSUME s[1] = s[2] \/ IsSeen(s) PROVE Fine(ints')
  <2>1. s[1] = s[2] \/ \E i \in DOMAIN ints : Ends(ints[i]) = Ends(s)
    <3>1. ASSUME IsSeen(s) PROVE \E i \in DOMAIN ints : Ends(ints[i]) = Ends(s)
      <4>1. PICK i \in DOMAIN ints : ints[i] \in {s, Reversed(s)}
        BY <3>1 DEF IsSeen
      <4>2. ints[i] \in Line /\ Alongside(ints[i], s)
        BY <1>4, <4>1 DEF Alongside
      <4> QED BY <1>4, <4>2, EndsFacts
    <3> QED BY <1>8, <3>1
  <2>2. Fine(ints)
    <3>1. \A k \in 1..next :
           \/ Rounded(segments[k])[1] = Rounded(segments[k])[2]
           \/ \E i \in DOMAIN ints : Ends(ints[i]) = Ends(Rounded(segments[k]))
      BY <1>3, <1>5, <2>1 DEF RoundedUpTo
    <3> QED BY <1>3, <1>6, <3>1 DEF RoundedUpTo
  <2>3. ints' = ints
    <3> HIDE DEF s
    <3> QED BY <1>2, <1>8
  <2> HIDE DEF Fine
  <2> QED BY <2>2, <2>3
<1>9. ASSUME ~ (s[1] = s[2] \/ IsSeen(s)) PROVE Fine(ints')
  <2> DEFINE n == Len(ints)  is == Append(ints, s)
  <2>0. n \in Nat /\ DOMAIN ints = 1..n
    BY <1>4
  <2>1. /\ is \in Seq(Line) /\ Len(is) = n + 1 /\ is[n + 1] = s
        /\ \A i \in 1..n : is[i] = ints[i]
    <3> HIDE DEF s
    <3> QED BY <1>4, AppendProperties
  <2>2. DOMAIN is = 1..n + 1
    <3> HIDE DEF is, n
    <3> QED BY <2>1
  <2> HIDE DEF is, n
  <2>3. \A i \in 1..n + 1 : i \in 1..n \/ i = n + 1
    BY <2>0
  <2>4. (\A i \in 1..n : i \in 1..n + 1) /\ n + 1 \in 1..n + 1
    BY <2>0
  <2>5. \A k \in 1..next :
          \/ Rounded(segments[k])[1] = Rounded(segments[k])[2]
          \/ \E i \in DOMAIN is : Ends(is[i]) = Ends(Rounded(segments[k]))
    <3> SUFFICES ASSUME NEW k \in 1..next, Rounded(segments[k])[1] # Rounded(segments[k])[2]
                 PROVE  \E i \in 1..n + 1 : Ends(is[i]) = Ends(Rounded(segments[k]))
      BY <2>2
    <3>1. CASE k = next
      BY <2>1, <2>4, <3>1
    <3>2. CASE k \in 1..next - 1
      <4>1. PICK i \in 1..n : Ends(ints[i]) = Ends(Rounded(segments[k]))
        BY <1>3, <2>0, <3>2 DEF RoundedUpTo
      <4> QED BY <2>1, <2>4, <4>1
    <3> QED BY <1>5, <3>1, <3>2
  <2>6. \A i \in DOMAIN is :
          is[i][1] # is[i][2] /\ \E k \in 1..next : is[i] = Rounded(segments[k])
    <3> SUFFICES ASSUME NEW i \in 1..n + 1
                 PROVE  is[i][1] # is[i][2] /\ \E k \in 1..next : is[i] = Rounded(segments[k])
      BY <2>2
    <3>1. CASE i = n + 1
      BY <1>7, <1>9, <2>1, <3>1
    <3>2. CASE i \in 1..n
      <4>1. ints[i][1] # ints[i][2] /\ \E k \in 1..next - 1 : ints[i] = Rounded(segments[k])
        BY <1>3, <2>0, <3>2 DEF RoundedUpTo
      <4> QED BY <1>6, <2>1, <3>2, <4>1
    <3> QED BY <2>3, <3>1, <3>2
  <2>7. ASSUME NEW i \in 1..n PROVE Ends(ints[i]) # Ends(s)
    <3>1. ints[i] \in Line /\ ints[i] \notin {s, Reversed(s)}
      BY <1>4, <1>9, <2>0 DEF IsSeen
    <3> HIDE DEF s
    <3> QED BY <1>4, <3>1, EndsFacts DEF Alongside
  <2>8. \A i, j \in DOMAIN is : Ends(is[i]) = Ends(is[j]) => i = j
    <3> SUFFICES ASSUME NEW i \in 1..n + 1, NEW j \in 1..n + 1, Ends(is[i]) = Ends(is[j])
                 PROVE  i = j
      BY <2>2
    <3>1. CASE i \in 1..n /\ j \in 1..n
      BY <1>3, <2>0, <2>1, <3>1 DEF RoundedUpTo
    <3>2. CASE i = n + 1 /\ j \in 1..n
      BY <2>1, <2>7, <3>2
    <3>3. CASE i \in 1..n /\ j = n + 1
      BY <2>1, <2>7, <3>3
    <3> QED BY <2>3, <3>1, <3>2, <3>3
  <2>9. Fine(is)
    BY <2>5, <2>6, <2>8
  <2>10. ints' = is
    <3> HIDE DEF s, Fine
    <3> QED BY <1>2, <1>9 DEF is
  <2> HIDE DEF Fine
  <2> QED BY <2>9, <2>10
<1>10. Fine(ints')
  <2> HIDE DEF Fine, s
  <2> QED BY <1>8, <1>9
<1>11. RoundedUpTo(next - 1)'
  <2> HIDE DEF s
  <2> QED BY <1>1, <1>7, <1>10 DEF RoundedUpTo
<1>12. next' <= Len(segments') + 1
  BY <1>1
<1>13. segments' = Located(Collected(job))'
  BY <1>1, <1>3, LocatedSame
<1> QED BY <1>1, <1>11, <1>12, <1>13 DEF Reading, Touring

LEMMA BeginTourReads == ASSUME IInv, Reading, BeginTour PROVE Reading'
<1>1. /\ Same /\ UNCHANGED <<segments, ints, next>> /\ pc = "round" /\ pc' \in {"refused", "lift"}
      /\ next \in Nat \ {0} /\ next > Len(segments) /\ Len(segments) \in Nat
  BY DEF BeginTour, Same, Goes, Refuse, IInv
<1>2. next <= Len(segments) + 1 /\ RoundedUpTo(next - 1) /\ segments = Located(Collected(job))
  BY <1>1 DEF Reading
<1>3. next - 1 = Len(segments)
  BY <1>1, <1>2
<1>4. RoundedUpTo(Len(segments))'
  BY <1>1, <1>2, <1>3 DEF RoundedUpTo
<1>5. segments' = Located(Collected(job))'
  BY <1>1, <1>2, LocatedSame
<1> QED BY <1>1, <1>4, <1>5 DEF Reading, Touring

LEMMA TourReads ==
  ASSUME Reading, Same, UNCHANGED <<segments, ints>>, Touring, Touring'
  PROVE  Reading'
<1>1. RoundedUpTo(Len(segments)) /\ segments = Located(Collected(job))
  BY DEF Reading
<1>2. RoundedUpTo(Len(segments))'
  BY <1>1 DEF RoundedUpTo
<1>3. segments' = Located(Collected(job))'
  BY <1>1, LocatedSame
<1> QED BY <1>2, <1>3 DEF Reading, Touring

LEMMA UnchangedReads == ASSUME Reading, UNCHANGED vars PROVE Reading'
<1>1. Same
  BY DEF vars, Same
<1>2. \A n : RoundedUpTo(n)' <=> RoundedUpTo(n)
  BY DEF vars, RoundedUpTo
<1>3. Located(Collected(job))' = Located(Collected(job)) /\ Touring' = Touring /\ IsPrint' = IsPrint
  BY <1>1, LocatedSame, AreaSame DEF vars, Touring
<1> QED BY <1>1, <1>3 DEF Reading, vars, Same, RoundedUpTo

-----------------------------------------------------------------------------
(* The tour                                                                *)

(* One more line is drawn: one that was left, in either direction.         *)
LEMMA OneMoreVisit ==
  ASSUME NEW is \in Seq(Line), NEW left \in SUBSET DOMAIN is, NEW D \in Seq(Line),
         NEW k \in left, NEW l \in Line, Visits(D, is, left), Ends(l) = Ends(is[k])
  PROVE  Visits(D \o <<l>>, is, left \ {k})
<1> DEFINE n == Len(D)  E == D \o <<l>>  m == Len(is)  rest == left \ {k}
<1>1. n \in Nat /\ m \in Nat /\ DOMAIN D = 1..n /\ DOMAIN is = 1..m
  OBVIOUS
<1>2. /\ E \in Seq(Line) /\ Len(E) = n + 1 /\ E[n + 1] = l
      /\ \A i \in 1..n : E[i] = D[i]
  <2>1. E = Append(D, l)
    BY AppendIsConcat
  <2> QED BY <2>1, AppendProperties
<1>3. DOMAIN E = 1..n + 1
  <2> HIDE DEF E, n
  <2> QED BY <1>2
<1> HIDE DEF E, n, m
<1>4. Cardinality(rest) = Cardinality(left) - 1 /\ Cardinality(left) \in Nat
  <2>1. IsFiniteSet(left)
    <3>1. IsFiniteSet(1..m)
      BY <1>1, FS_Interval
    <3> QED BY <1>1, <3>1, FS_Subset
  <2> QED BY <2>1, FS_RemoveElement, FS_CardinalityType
<1> HIDE DEF rest
<1>5. Len(E) + Cardinality(rest) = m
  <2>1. n + Cardinality(left) = m
    BY DEF Visits, n, m
  <2> QED BY <1>1, <1>2, <1>4, <2>1
<1>6. /\ \A i : i \in DOMAIN is \ rest <=> i \in DOMAIN is \ left \/ i = k
      /\ \A i \in 1..n + 1 : i \in 1..n \/ i = n + 1
      /\ \A i \in 1..n : i \in 1..n + 1
      /\ n + 1 \in 1..n + 1
  <2>1. \A i : i \in DOMAIN is \ rest <=> i \in DOMAIN is \ left \/ i = k
    BY DEF rest
  <2> QED BY <1>1, <2>1
<1>7. ASSUME NEW j \in DOMAIN E PROVE \E i \in DOMAIN is \ rest : Ends(E[j]) = Ends(is[i])
  <2>1. CASE j = n + 1
    BY <1>2, <1>6, <2>1
  <2>2. CASE j \in 1..n
    <3>1. PICK i \in DOMAIN is \ left : Ends(D[j]) = Ends(is[i])
      BY <1>1, <2>2 DEF Visits
    <3> QED BY <1>2, <1>6, <2>2, <3>1
  <2> QED BY <1>3, <1>6, <2>1, <2>2
<1>8. ASSUME NEW i \in DOMAIN is \ rest PROVE \E j \in DOMAIN E : Ends(E[j]) = Ends(is[i])
  <2>1. CASE i = k
    BY <1>2, <1>3, <1>6, <2>1
  <2>2. CASE i \in DOMAIN is \ left
    <3>1. PICK j \in 1..n : Ends(D[j]) = Ends(is[i])
      BY <1>1, <2>2 DEF Visits
    <3> QED BY <1>2, <1>3, <1>6, <3>1
  <2> QED BY <1>6, <2>1, <2>2
<1> QED BY <1>5, <1>7, <1>8 DEF Visits, E, m, rest

LEMMA InitDraws == ASSUME Init PROVE Drawing
BY DEF Init, Drawing, Touring

LEMMA NothingDrawn == <<>> \in Program /\ DrawnIn(<<>>) = <<>>
<1>1. <<>> \in Program
  BY EmptySeq DEF Program
<1>2. DrawnIn(<<>>) = <<>>
  <2>1. [k \in DOMAIN <<>> |-> DrawnAt(<<>>, k)] = <<>>
    OBVIOUS
  <2> QED BY <2>1, FlattenEmpty DEF DrawnIn
<1> QED BY <1>1, <1>2

LEMMA MoveIsSome ==
  ASSUME NEW p \in Point
  PROVE  Move(p) \in SomeCommand /\ Move(p).op # "D" /\ Last(Move(p).pts) = p
<1>1. <<p>> \in Seq(Point) /\ <<p>> # <<>> /\ Last(<<p>>) = p
  BY DEF Last
<1>2. Move(p).op = "M" /\ Move(p).pts = <<p>>
  BY DEF Move
<1> QED BY <1>1, <1>2 DEF Move, SomeCommand

LEMMA BeginTourDraws == ASSUME IInv, BeginTour PROVE Drawing'
<1>1. CASE pc' = "refused"
  BY <1>1 DEF Drawing, Touring
<1>2. CASE pc' # "refused"
  <2>1. /\ pc' = "lift" /\ unvisited' = DOMAIN ints /\ ints' = ints
        /\ commands' = IF IsPrint THEN <<BetweenMarks>> ELSE <<>>
    BY <1>2 DEF BeginTour, Goes, Refuse, Indexes, BetweenMarks
  <2>2. commands' \in Program /\ DrawnIn(commands') = <<>>
    <3>1. BetweenMarks \in SomeCommand /\ BetweenMarks.op # "D"
      <4>1. Steps(Lx(job.h)) \in Int /\ Steps(Ly(job.w)) \in Int
        BY SizesTyped, StepsFacts
      <4>2. <<Steps(Lx(job.h)), Steps(Ly(job.w))>> \in Point
        BY <4>1 DEF Point
      <4> DEFINE p == <<Steps(Lx(job.h)), Steps(Ly(job.w))>>
      <4> HIDE DEF p
      <4>3. p \in Point
        BY <4>2 DEF p
      <4>4. <<p>> \in Seq(Point) /\ <<p>> # <<>>
        BY <4>3
      <4>5. BetweenMarks = [op |-> "TB24", pts |-> <<p>>]
        BY DEF BetweenMarks, p
      <4> QED BY <4>4, <4>5 DEF SomeCommand
    <3>2. /\ Append(<<>>, BetweenMarks) \in Program
          /\ DrawnIn(Append(<<>>, BetweenMarks)) = DrawnIn(<<>>) \o DrawnOn(ToolAt(<<>>), BetweenMarks)
      BY <3>1, DrawnAppend, NothingDrawn
    <3>3. DrawnOn(ToolAt(<<>>), BetweenMarks) = <<>>
      BY <3>1 DEF DrawnOn
    <3>4. Append(<<>>, BetweenMarks) = <<BetweenMarks>>
      OBVIOUS
    <3>5. <<>> \o <<>> = <<>>
      OBVIOUS
    <3> QED BY <2>1, <3>2, <3>3, <3>4, <3>5, NothingDrawn
  <2>3. Visits(<<>>, ints, DOMAIN ints)
    <3>1. DOMAIN ints = 1..Len(ints) /\ Len(ints) \in Nat
      BY IntsTyped
    <3>2. Cardinality(1..Len(ints)) = Len(ints)
      <4>1. Cardinality(1..Len(ints)) = IF 1 > Len(ints) THEN 0 ELSE Len(ints) - 1 + 1
        BY <3>1, FS_Interval
      <4> QED BY <3>1, <4>1
    <3>3. Len(<<>>) = 0 /\ DOMAIN <<>> = {}
      OBVIOUS
    <3> QED BY <3>1, <3>2, <3>3 DEF Visits
  <2>4. (DrawnIn(commands) \o Pending)' = <<>>
    <3>1. Pending' = <<>>
      BY <2>1 DEF Pending
    <3>2. <<>> \o <<>> = <<>>
      OBVIOUS
    <3> QED BY <2>2, <3>1, <3>2
  <2>5. Visits(DrawnIn(commands) \o Pending, ints, unvisited)'
    BY <2>1, <2>3, <2>4
  <2> QED BY <2>1, <2>2, <2>5 DEF Drawing, Touring
<1> QED BY <1>1, <1>2

(* What is drawn at each stage of the tour.                                *)
LEMMA DrawnSoFar ==
  ASSUME IInv, Drawing, Touring
  PROVE  /\ commands \in Program /\ DrawnIn(commands) \in Seq(Line)
         /\ Visits(DrawnIn(commands) \o Pending, ints, unvisited)
         /\ unvisited \in SUBSET DOMAIN ints
         /\ pc = "draw" => commands # <<>> /\ draw # <<>> /\ current = Last(draw)
<1>1. commands \in Program
  BY DEF Drawing
<1>2. DrawnIn(commands) \in Seq(Line)
  <2>1. PICK p \in Point : TRUE
    <3>1. <<0, 0>> \in Point
      BY DEF Point
    <3> QED BY <3>1
  <2> QED BY <1>1, MoveIsSome, DrawnAppend
<1> QED BY <1>1, <1>2 DEF Drawing, IInv

LEMMA StartChainDraws == ASSUME IInv, Drawing, StartChain PROVE Drawing'
<1>1. pc = "lift" /\ pc' = "draw" /\ ints' = ints
  BY DEF StartChain, Goes
<1>2. PICK k : /\ k = Min(unvisited)
               /\ commands' = Append(commands, Move(ints[k][1]))
               /\ draw' = <<ints[k][2]>> /\ current' = ints[k][2]
               /\ unvisited' = unvisited \ {k}
  BY DEF StartChain
<1>3. k \in unvisited
  <2>1. unvisited \in SUBSET Nat /\ unvisited # {}
    BY DEF IInv, StartChain
  <2> QED BY <1>2, <2>1, MinOfNats
<1> DEFINE p == ints[k][1]  q == ints[k][2]
<1>4. ints \in Seq(Line) /\ ints[k] \in Line /\ p \in Point /\ q \in Point /\ ints[k] = <<p, q>>
  <2>1. ints \in Seq(Line) /\ ints[k] \in Line
    BY <1>3, IntsTyped DEF IInv
  <2> QED BY <2>1, LineIsPair
<1>5. /\ commands \in Program /\ DrawnIn(commands) \in Seq(Line)
      /\ Visits(DrawnIn(commands) \o Pending, ints, unvisited) /\ unvisited \in SUBSET DOMAIN ints
  BY <1>1, DrawnSoFar DEF Touring
<1>6. Visits(DrawnIn(commands), ints, unvisited)
  <2>1. Pending = <<>>
    BY <1>1 DEF Pending
  <2> QED BY <1>5, <2>1, ConcatEmptySeq
<1> HIDE DEF p, q
<1>7. /\ commands' \in Program /\ commands' # <<>> /\ ToolAt(commands') = p
      /\ DrawnIn(commands') = DrawnIn(commands)
  <2>1. Move(p) \in SomeCommand /\ Move(p).op # "D" /\ Last(Move(p).pts) = p
    BY <1>4, MoveIsSome
  <2>2. commands' = Append(commands, Move(p))
    BY <1>2 DEF p
  <2>3. DrawnOn(ToolAt(commands), Move(p)) = <<>>
    BY <2>1 DEF DrawnOn
  <2>4. DrawnIn(commands) \o <<>> = DrawnIn(commands)
    BY <1>5, ConcatEmptySeq
  <2> QED BY <1>5, <2>1, <2>2, <2>3, <2>4, DrawnAppend
<1>8. Pending' = <<ints[k]>>
  <2>1. draw' = <<q>>
    BY <1>2 DEF q
  <2>2. <<p>> \o <<q>> = <<p, q>> /\ Chords(<<p, q>>) = <<<<p, q>>>>
    BY <1>4, PairJoined, ChordsOfTwo
  <2>3. Pending' = Chords(<<ToolAt(commands')>> \o draw')
    BY <1>1 DEF Pending
  <2> QED BY <1>4, <1>7, <2>1, <2>2, <2>3
<1>9. Visits(DrawnIn(commands) \o Pending, ints, unvisited)'
  <2> DEFINE l == ints[k]  D == DrawnIn(commands)
  <2>1. l \in Line /\ D \in Seq(Line) /\ Ends(l) = Ends(ints[k])
    BY <1>4, <1>5
  <2> HIDE DEF l, D
  <2>2. Visits(D \o <<l>>, ints, unvisited \ {k})
    BY <1>3, <1>4, <1>5, <1>6, <2>1, OneMoreVisit DEF D
  <2> QED BY <1>1, <1>2, <1>7, <1>8, <2>2 DEF D, l
<1>10. draw' # <<>> /\ current' = Last(draw')
  <2>1. draw' = <<q>> /\ current' = q
    BY <1>2 DEF q
  <2> QED BY <2>1 DEF Last
<1> QED BY <1>1, <1>7, <1>9, <1>10 DEF Drawing, Touring

LEMMA ExtendDraws == ASSUME IInv, Drawing, Extend PROVE Drawing'
<1>1. pc = "draw" /\ pc' = "draw" /\ ints' = ints /\ commands' = commands
  BY DEF Extend
<1>2. PICK k, q : /\ k = Min(Candidates(current)) /\ q = OtherEnd(ints[k], current)
                  /\ draw' = Append(draw, q) /\ current' = q
                  /\ unvisited' = unvisited \ {k}
  BY DEF Extend
<1>3. k \in unvisited /\ current \in {ints[k][1], ints[k][2]}
  <2>1. Candidates(current) \in SUBSET Nat /\ Candidates(current) # {}
    BY DEF IInv, Extend, Candidates
  <2> QED BY <1>2, <2>1, MinOfNats DEF Candidates
<1>4. ints \in Seq(Line) /\ ints[k] \in Line /\ ints[k][1] \in Point /\ ints[k][2] \in Point
  <2>1. ints \in Seq(Line) /\ ints[k] \in Line
    BY <1>3, IntsTyped DEF IInv
  <2> QED BY <2>1, LineIsPair
<1>5. q \in Point /\ current \in Point /\ {current, q} = {ints[k][1], ints[k][2]}
  BY <1>2, <1>3, <1>4 DEF OtherEnd
<1> DEFINE l == <<current, q>>
<1>6. l \in Line /\ Ends(l) = Ends(ints[k])
  BY <1>5 DEF Line, Ends
<1>7. /\ commands \in Program /\ DrawnIn(commands) \in Seq(Line)
      /\ Visits(DrawnIn(commands) \o Pending, ints, unvisited) /\ unvisited \in SUBSET DOMAIN ints
      /\ commands # <<>> /\ draw # <<>> /\ current = Last(draw)
  BY <1>1, DrawnSoFar DEF Touring
<1>8. draw \in Seq(Point)
  <2>1. Area \subseteq Point
    BY AreaTyped DEF StepPoint, Point
  <2> QED BY <2>1, SeqMonotonic DEF IInv
<1> DEFINE p == ToolAt(commands)  s == <<p>> \o draw
<1>9. p \in Point
  BY <1>7, ToolIsSomewhere
<1> HIDE DEF p
<1>10. s \in Seq(Point) /\ s # <<>> /\ Last(s) = current
  <2> DEFINE t == <<p>>
  <2>1. t \in Seq(Point) /\ Len(t) = 1
    BY <1>9
  <2> HIDE DEF t
  <2>0. /\ t \o draw \in Seq(Point) /\ Len(t \o draw) = Len(t) + Len(draw)
        /\ \A i \in 1..Len(t) + Len(draw) :
             (t \o draw)[i] = IF i <= Len(t) THEN t[i] ELSE draw[i - Len(t)]
    BY <1>8, <2>1, ConcatProperties
  <2>2. /\ t \o draw \in Seq(Point) /\ Len(t \o draw) = 1 + Len(draw)
        /\ \A i \in 1..1 + Len(draw) : (t \o draw)[i] = IF i <= 1 THEN t[i] ELSE draw[i - 1]
    BY <2>0, <2>1
  <2>3. Len(draw) \in Nat /\ Len(draw) >= 1
    BY <1>7, <1>8, EmptySeq
  <2> DEFINE w == t \o draw
  <2> HIDE DEF w
  <2>4. Len(w) = 1 + Len(draw) /\ w[1 + Len(draw)] = draw[Len(draw)] /\ w \in Seq(Point)
    <3>1. 1 + Len(draw) \in 1..1 + Len(draw) /\ ~ (1 + Len(draw) <= 1) /\ (1 + Len(draw)) - 1 = Len(draw)
      BY <2>3
    <3> QED BY <2>2, <3>1 DEF w
  <2>5. w # <<>>
    BY <2>3, <2>4
  <2>6. Last(w) = Last(draw)
    BY <2>4 DEF Last
  <2> QED BY <1>7, <2>4, <2>5, <2>6 DEF w, t
<1> DEFINE D == DrawnIn(commands) \o Chords(s)
<1>11. Pending = Chords(s) /\ Chords(s) \in Seq(Line) /\ D \in Seq(Line)
  <2>1. Pending = Chords(s)
    BY <1>1 DEF Pending, p
  <2>2. Chords(s) \in Seq(Line)
    <3> HIDE DEF s
    <3> QED BY <1>10, ChordsFacts DEF Line
  <2> DEFINE x == Chords(s)  y == DrawnIn(commands)
  <2> HIDE DEF x, y
  <2>3. x \in Seq(Line) /\ y \in Seq(Line)
    BY <1>7, <2>2 DEF x, y
  <2>4. y \o x \in Seq(Line)
    BY <2>3, ConcatProperties
  <2> QED BY <2>1, <2>2, <2>4 DEF x, y
<1>12. Pending' = Chords(s) \o <<l>>
  <2>1. Pending' = Chords(<<p>> \o Append(draw, q))
    BY <1>1, <1>2 DEF Pending, p
  <2> DEFINE t == <<p>>  u == <<q>>
  <2>2. t \in Seq(Point) /\ u \in Seq(Point) /\ Append(draw, q) = draw \o u
    BY <1>5, <1>8, <1>9, AppendIsConcat
  <2> HIDE DEF t, u
  <2>3. t \o (draw \o u) = (t \o draw) \o u
    BY <1>8, <2>2, ConcatAssociative
  <2>4. Chords(s \o u) = Chords(s) \o Chords(<<Last(s)>> \o u)
    <3> HIDE DEF s
    <3> QED BY <1>10, <2>2, ChordsJoin
  <2>5. <<current>> \o <<q>> = <<current, q>> /\ Chords(<<current, q>>) = <<<<current, q>>>>
    BY <1>5, PairJoined, ChordsOfTwo
  <2> QED BY <1>10, <2>1, <2>2, <2>3, <2>4, <2>5 DEF t, u
<1> HIDE DEF l, s
<1>13. Visits(DrawnIn(commands) \o Pending, ints, unvisited)'
  <2> DEFINE x == Chords(s)  y == DrawnIn(commands)  z == <<l>>
  <2>1. z \in Seq(Line)
    BY <1>6
  <2> HIDE DEF x, y, z
  <2>2. \A a, b, c \in Seq(Line) : (a \o b) \o c = a \o (b \o c)
    BY ConcatAssociative
  <2>3. (y \o x) \o z = y \o (x \o z)
    BY <1>7, <1>11, <2>1, <2>2 DEF x, y
  <2>4. D = y \o x
    BY DEF x, y
  <2> HIDE DEF D
  <2>5. Visits(D \o <<l>>, ints, unvisited \ {k})
    <3>1. Visits(D, ints, unvisited)
      BY <1>7, <1>11 DEF D
    <3> QED BY <1>3, <1>4, <1>6, <1>7, <1>11, <3>1, OneMoreVisit
  <2>6. (DrawnIn(commands) \o Pending)' = y \o (x \o z)
    BY <1>1, <1>12 DEF x, y, z
  <2>7. (DrawnIn(commands) \o Pending)' = D \o <<l>>
    BY <2>3, <2>4, <2>6 DEF z
  <2> QED BY <1>1, <1>2, <2>5, <2>7
<1>14. draw' # <<>> /\ current' = Last(draw')
  <2>1. /\ Len(Append(draw, q)) = Len(draw) + 1 /\ Append(draw, q)[Len(draw) + 1] = q
        /\ Append(draw, q) # <<>>
    BY <1>5, <1>8, AppendProperties
  <2> QED BY <1>2, <2>1 DEF Last
<1> QED BY <1>1, <1>7, <1>13, <1>14 DEF Drawing, Touring

LEMMA EndChainDraws == ASSUME IInv, Drawing, EndChain PROVE Drawing'
<1>1. /\ pc = "draw" /\ pc' = "lift" /\ UNCHANGED <<ints, unvisited>>
      /\ commands' = commands \o Batches(draw)
  BY DEF EndChain, Goes
<1>2. /\ commands \in Program /\ DrawnIn(commands) \in Seq(Line) /\ commands # <<>>
      /\ Visits(DrawnIn(commands) \o Pending, ints, unvisited)
  BY <1>1, DrawnSoFar DEF Touring
<1>3. draw \in Seq(Point)
  <2>1. Area \subseteq Point
    BY AreaTyped DEF StepPoint, Point
  <2> QED BY <2>1, SeqMonotonic DEF IInv
<1>4. commands' \in Program /\ DrawnIn(commands') = DrawnIn(commands) \o Pending
  <2>1. Pending = Chords(<<ToolAt(commands)>> \o draw)
    BY <1>1 DEF Pending
  <2> QED BY <1>1, <1>2, <1>3, <2>1, BatchesDraw
<1>5. DrawnIn(commands') \o <<>> = DrawnIn(commands')
  <2>1. DrawnIn(commands') \in Seq(Line)
    <3>1. <<0, 0>> \in Point
      BY DEF Point
    <3> QED BY <1>4, <3>1, MoveIsSome, DrawnAppend
  <2> QED BY <2>1, ConcatEmptySeq
<1>6. Visits(DrawnIn(commands) \o Pending, ints, unvisited)'
  <2>1. Pending' = <<>>
    BY <1>1 DEF Pending
  <2> QED BY <1>1, <1>2, <1>4, <1>5, <2>1
<1> QED BY <1>1, <1>4, <1>6 DEF Drawing, Touring

LEMMA FinishDraws == ASSUME IInv, Drawing, Finish PROVE Drawing'
<1>1. /\ pc = "lift" /\ pc' = "done" /\ UNCHANGED <<ints, unvisited>> /\ unvisited = {}
      /\ commands' = Append(commands, Move(<<0, 0>>))
  BY DEF Finish, Goes
<1>2. /\ commands \in Program /\ DrawnIn(commands) \in Seq(Line)
      /\ Visits(DrawnIn(commands) \o Pending, ints, unvisited)
  BY <1>1, DrawnSoFar DEF Touring
<1> DEFINE c == Move(<<0, 0>>)
<1>3. c \in SomeCommand /\ c.op # "D"
  <2>1. <<0, 0>> \in Point
    BY DEF Point
  <2> QED BY <2>1, MoveIsSome
<1> HIDE DEF c
<1>4. commands' = Append(commands, c)
  BY <1>1 DEF c
<1>5. commands' \in Program /\ DrawnIn(commands') = DrawnIn(commands)
  <2>1. DrawnOn(ToolAt(commands), c) = <<>>
    BY <1>3 DEF DrawnOn
  <2> QED BY <1>2, <1>3, <1>4, <2>1, DrawnAppend, ConcatEmptySeq
<1>6. Visits(DrawnIn(commands) \o Pending, ints, unvisited)'
  <2>1. Pending' = <<>> /\ Pending = <<>>
    BY <1>1 DEF Pending
  <2> QED BY <1>1, <1>2, <1>5, <2>1
<1> QED BY <1>1, <1>5, <1>6 DEF Drawing, Touring

LEMMA UnchangedDraws == ASSUME Drawing, UNCHANGED vars PROVE Drawing'
BY DEF Drawing, vars, Touring, Pending

-----------------------------------------------------------------------------
(* Where the tool goes                                                     *)

LEMMA EndsOfLine ==
  ASSUME IInv, NEW k \in DOMAIN ints
  PROVE  ints[k][1] \in EndPoints /\ ints[k][2] \in EndPoints
BY DEF EndPoints, Ends

LEMMA InitGoes == ASSUME Init PROVE Going
BY DEF Init, Going, Touring

LEMMA BeginTourGoes == ASSUME IInv, BeginTour PROVE Going'
<1>1. CASE pc' = "refused"
  BY <1>1 DEF Going, Touring
<1>2. CASE pc' # "refused"
  <2>1. pc' = "lift" /\ commands' = IF IsPrint THEN <<BetweenMarks>> ELSE <<>>
    BY <1>2 DEF BeginTour, Goes, Refuse, BetweenMarks
  <2>2. Len(commands') \in {0, 1}
    BY <2>1
  <2>3. 2..Len(commands') = {}
    <3>1. 2..0 = {} /\ 2..1 = {}
      OBVIOUS
    <3> QED BY <2>2, <3>1
  <2> QED BY <2>1, <2>3 DEF Going, Touring
<1> QED BY <1>1, <1>2

LEMMA StartChainGoes == ASSUME IInv, Going, StartChain PROVE Going'
<1>1. pc = "lift" /\ pc' = "draw" /\ ints' = ints
  BY DEF StartChain, Goes
<1>2. PICK k : /\ k = Min(unvisited)
               /\ commands' = Append(commands, Move(ints[k][1]))
               /\ draw' = <<ints[k][2]>>
  BY DEF StartChain
<1>3. k \in DOMAIN ints
  <2>1. unvisited \in SUBSET Nat /\ unvisited # {}
    BY DEF IInv, StartChain
  <2> QED BY <1>2, <2>1, MinOfNats DEF IInv
<1>4. EndPoints' = EndPoints /\ ints[k][1] \in EndPoints /\ ints[k][2] \in EndPoints
  BY <1>1, <1>3, EndsOfLine DEF EndPoints
<1>5. /\ Len(commands') = Len(commands) + 1 /\ Len(commands) \in Nat
      /\ commands'[Len(commands) + 1] = Move(ints[k][1])
      /\ \A j \in 1..Len(commands) : commands'[j] = commands[j]
  <2> DEFINE c == Move(ints[k][1])
  <2>1. commands' = Append(commands, c)
    BY <1>2
  <2>2. c \in Command /\ commands \in Seq(Command)
    BY <1>3, MoveTyped DEF IInv
  <2> HIDE DEF c, Command
  <2> QED BY <2>1, <2>2, AppendProperties DEF c
<1>6. Move(ints[k][1]).pts \in Seq(EndPoints)
  <2>1. Move(ints[k][1]).pts = <<ints[k][1]>>
    BY DEF Move
  <2> HIDE DEF EndPoints
  <2> QED BY <1>4, <2>1
<1>7. draw' \in Seq(EndPoints')
  <2> HIDE DEF EndPoints
  <2> QED BY <1>2, <1>4
<1>8. ASSUME NEW j \in 2..Len(commands') PROVE commands'[j].pts \in Seq(EndPoints')
  <2>1. j = Len(commands) + 1 \/ j \in 2..Len(commands)
    BY <1>5
  <2>2. CASE j \in 2..Len(commands)
    <3>1. j \in 1..Len(commands) /\ commands[j].pts \in Seq(EndPoints)
      BY <1>1, <1>5, <2>2 DEF Going, Touring
    <3> QED BY <1>4, <1>5, <3>1
  <2> QED BY <1>4, <1>5, <1>6, <2>1, <2>2
<1> QED BY <1>1, <1>7, <1>8 DEF Going, Touring

LEMMA ExtendGoes == ASSUME IInv, Going, Extend PROVE Going'
<1>1. pc = "draw" /\ pc' = "draw" /\ ints' = ints /\ commands' = commands
  BY DEF Extend
<1>2. PICK k, q : /\ k = Min(Candidates(current)) /\ q = OtherEnd(ints[k], current)
                  /\ draw' = Append(draw, q)
  BY DEF Extend
<1>3. k \in DOMAIN ints
  <2>1. Candidates(current) \in SUBSET Nat /\ Candidates(current) # {}
    BY DEF IInv, Extend, Candidates
  <2> QED BY <1>2, <2>1, MinOfNats DEF IInv, Candidates
<1>4. EndPoints' = EndPoints /\ q \in EndPoints
  BY <1>1, <1>2, <1>3, EndsOfLine DEF EndPoints, OtherEnd
<1>5. draw \in Seq(EndPoints)
  BY <1>1 DEF Going
<1>6. draw' \in Seq(EndPoints')
  BY <1>2, <1>4, <1>5, AppendProperties
<1> QED BY <1>1, <1>4, <1>6 DEF Going, Touring

LEMMA EndChainGoes == ASSUME IInv, Going, EndChain PROVE Going'
<1>1. /\ pc = "draw" /\ pc' = "lift" /\ ints' = ints
      /\ commands' = commands \o Batches(draw)
  BY DEF EndChain, Goes
<1>2. EndPoints' = EndPoints /\ draw \in Seq(EndPoints)
  BY <1>1 DEF EndPoints, Going
<1> DEFINE more == Batches(draw)
<1>3. more \in Seq(DrawOf(EndPoints)) /\ Len(more) \in Nat
  BY <1>2, BatchFacts
<1>4. /\ Len(commands') = Len(commands) + Len(more) /\ Len(commands) \in Nat
      /\ \A j \in 1..Len(commands) + Len(more) :
           commands'[j] = IF j <= Len(commands) THEN commands[j] ELSE more[j - Len(commands)]
  <2>1. more \in Seq(DrawOf(EndPoints) \cup Command) /\ commands \in Seq(DrawOf(EndPoints) \cup Command)
    BY <1>3, SeqMonotonic DEF IInv
  <2>2. commands' = commands \o more
    BY <1>1
  <2> HIDE DEF more, Command, DrawOf
  <2> QED BY <2>1, <2>2, ConcatProperties
<1> HIDE DEF more
<1>5. ASSUME NEW j \in 2..Len(commands') PROVE commands'[j].pts \in Seq(EndPoints')
  <2>1. CASE j <= Len(commands)
    <3>1. j \in 2..Len(commands) /\ j \in 1..Len(commands) + Len(more)
      BY <1>3, <1>4, <2>1
    <3>2. commands[j].pts \in Seq(EndPoints)
      BY <1>1, <3>1 DEF Going, Touring
    <3> QED BY <1>2, <1>4, <2>1, <3>1, <3>2
  <2>2. CASE ~ (j <= Len(commands))
    <3>1. j - Len(commands) \in 1..Len(more) /\ j \in 1..Len(commands) + Len(more)
      BY <1>3, <1>4, <2>2
    <3>2. more[j - Len(commands)] \in DrawOf(EndPoints)
      BY <1>3, <3>1
    <3>3. more[j - Len(commands)].pts \in Seq(EndPoints)
      BY <3>2 DEF DrawOf
    <3> QED BY <1>2, <1>4, <2>2, <3>1, <3>3
  <2> QED BY <2>1, <2>2
<1> QED BY <1>1, <1>5 DEF Going, Touring

LEMMA FinishGoes == ASSUME IInv, Going, Finish PROVE Going'
<1>1. /\ pc = "lift" /\ pc' = "done" /\ ints' = ints
      /\ commands' = Append(commands, Move(<<0, 0>>))
  BY DEF Finish, Goes
<1>2. /\ Len(commands') = Len(commands) + 1 /\ Len(commands) \in Nat
      /\ \A j \in 1..Len(commands) : commands'[j] = commands[j]
  <2> DEFINE c == Move(<<0, 0>>)
  <2>1. commands' = Append(commands, c)
    BY <1>1
  <2>2. c \in Command /\ commands \in Seq(Command)
    BY <1>1, AreaHasCorners, MoveTyped DEF IInv
  <2> HIDE DEF c, Command
  <2> QED BY <2>1, <2>2, AppendProperties
<1>3. EndPoints' = EndPoints
  BY <1>1 DEF EndPoints
<1>4. ASSUME NEW j \in 2..Len(commands'), j # Len(commands')
      PROVE  commands'[j].pts \in Seq(EndPoints')
  <2>1. j \in 2..Len(commands) /\ j \in 1..Len(commands)
    BY <1>2, <1>4
  <2>2. commands[j].pts \in Seq(EndPoints)
    BY <1>1, <2>1 DEF Going, Touring
  <2> QED BY <1>2, <1>3, <2>1, <2>2
<1> QED BY <1>1, <1>4 DEF Going, Touring

LEMMA UnchangedGoes == ASSUME Going, UNCHANGED vars PROVE Going'
BY DEF Going, vars, Touring, EndPoints

-----------------------------------------------------------------------------
(* The inductive invariant of the lines, kept by every step                *)

LEMMA CutInvInit == Init => CutInv
BY InitReads, InitDraws, InitGoes DEF CutInv

LEMMA CutInvKeeps == IInv /\ CutInv /\ [Next]_vars => CutInv'
<1> SUFFICES ASSUME IInv, CutInv, [Next]_vars PROVE CutInv'
  OBVIOUS
<1> USE DEF CutInv
<1>1. CASE Read
  <2>1. Drawing' /\ Going'
    BY <1>1 DEF Read, Goes, Refuse, Drawing, Going, Touring
  <2> QED BY <1>1, <2>1, ReadReads
<1>2. CASE LayOut
  <2>1. Drawing' /\ Going'
    BY <1>2 DEF LayOut, Goes, Refuse, Drawing, Going, Touring
  <2> QED BY <1>2, <2>1, LayOutReads
<1>3. CASE MoveToFrame
  <2>1. Drawing' /\ Going'
    BY <1>3 DEF MoveToFrame, Goes, Refuse, Drawing, Going, Touring
  <2> QED BY <1>3, <2>1, MoveToFrameReads
<1>4. CASE RoundSegment
  <2>1. Drawing' /\ Going'
    BY <1>4 DEF RoundSegment, Drawing, Going, Touring
  <2> QED BY <1>4, <2>1, RoundSegmentReads
<1>5. CASE BeginTour
  BY <1>5, BeginTourReads, BeginTourDraws, BeginTourGoes
<1>6. CASE StartChain
  <2>1. Reading'
    BY <1>6, TourReads DEF StartChain, Goes, Same, Touring
  <2> QED BY <1>6, <2>1, StartChainDraws, StartChainGoes
<1>7. CASE Extend
  <2>1. Reading'
    BY <1>7, TourReads DEF Extend, Same, Touring
  <2> QED BY <1>7, <2>1, ExtendDraws, ExtendGoes
<1>8. CASE EndChain
  <2>1. Reading'
    BY <1>8, TourReads DEF EndChain, Goes, Same, Touring
  <2> QED BY <1>8, <2>1, EndChainDraws, EndChainGoes
<1>9. CASE Finish
  <2>1. Reading'
    BY <1>9, TourReads DEF Finish, Goes, Same, Touring
  <2> QED BY <1>9, <2>1, FinishDraws, FinishGoes
<1>10. CASE UNCHANGED vars
  BY <1>10, UnchangedReads, UnchangedDraws, UnchangedGoes
<1> QED BY <1>1, <1>2, <1>3, <1>4, <1>5, <1>6, <1>7, <1>8, <1>9, <1>10 DEF Next, Returned

LEMMA CutInvariance == Spec => []CutInv
<1>1. Init => CutInv
  BY CutInvInit
<1>2. IInv /\ CutInv /\ [Next]_vars => CutInv'
  BY CutInvKeeps
<1> QED BY <1>1, <1>2, Invariance, PTL DEF Spec

-----------------------------------------------------------------------------
(* Every line is cut once, and where it is printed                         *)

LEMMA TwoEnds == \A a, b : Cardinality({a, b}) = 2 <=> a # b
<1> SUFFICES ASSUME NEW a, NEW b PROVE Cardinality({a, b}) = 2 <=> a # b
  OBVIOUS
<1>1. IsFiniteSet({a}) /\ Cardinality({a}) = 1
  BY FS_Singleton
<1>2. Cardinality({a} \cup {b}) = IF b \in {a} THEN Cardinality({a}) ELSE Cardinality({a}) + 1
  BY <1>1, FS_AddElement
<1>3. {a, b} = {a} \cup {b}
  OBVIOUS
<1> QED BY <1>1, <1>2, <1>3

LEMMA InStepsFacts ==
  ASSUME IInv, NEW s \in Line, NEW t \in Line
  PROVE  /\ InSteps(s) \in Line
         /\ s[1] = s[2] => InSteps(s)[1] = InSteps(s)[2]
         /\ Alongside(s, t) => Ends(InSteps(s)) = Ends(InSteps(t))
<1> DEFINE At(l) == IF IsPrint THEN <<ToMarkFrame(job.w, l[1]), ToMarkFrame(job.w, l[2])>> ELSE l
<1>1. \A l : InSteps(l) = Rounded(At(l))
  BY DEF InSteps
<1>2. ASSUME NEW l \in Line
      PROVE  /\ At(l) \in Line /\ At(Reversed(l)) = Reversed(At(l))
             /\ l[1] = l[2] => At(l)[1] = At(l)[2]
  <2>1. l[1] \in Point /\ l[2] \in Point
    BY LineIsPair
  <2>2. ASSUME NEW p \in Point PROVE ToMarkFrame(job.w, p) \in Point
    BY SizesTyped DEF ToMarkFrame, Point
  <2>3. ToMarkFrame(job.w, l[1]) \in Point /\ ToMarkFrame(job.w, l[2]) \in Point
    BY <2>1, <2>2
  <2> QED BY <2>3 DEF Line, Reversed
<1> HIDE DEF At
<1>3. InSteps(s) \in Line /\ InSteps(t) \in Line /\ (s[1] = s[2] => InSteps(s)[1] = InSteps(s)[2])
  BY <1>1, <1>2, RoundedIsLine
<1>4. InSteps(Reversed(t)) = Reversed(InSteps(t))
  BY <1>1, <1>2, RoundedIsLine
<1>5. Alongside(s, t) => Alongside(InSteps(s), InSteps(t))
  BY <1>4 DEF Alongside
<1> QED BY <1>3, <1>5, EndsFacts

(* The program cuts every line of the page once, in either direction and   *)
(* however often the page draws it, and nothing else, whatever its paths,  *)
(* its lines and the limit of a command: what the walk of its paths finds  *)
(* are its lines, the rounding keeps each of them once, and the tour draws *)
(* each that is left when it meets one of its ends (pdf_to_gpgl.py 97-343, *)
(* cut_extract.py 110-154, marks.py 213-240).                              *)
THEOREM LinesCorrect == Spec => []CutsEachLineOnce
<1>1. ASSUME IInv, CutInv, pc = "done"
      PROVE  LET ends(s) == {s[1], s[2]}
                 lines == {ends(InSteps(s)) : s \in ToSet(Wanted)}
                 wanted == {l \in lines : Cardinality(l) = 2}
             IN  /\ {ends(Drawn[k]) : k \in DOMAIN Drawn} = wanted
                 /\ Len(Drawn) = Cardinality(wanted)
  <2> DEFINE lines == {Ends(InSteps(s)) : s \in ToSet(Wanted)}
             wanted == {l \in lines : Cardinality(l) = 2}
             kept == {Ends(ints[i]) : i \in DOMAIN ints}
             found == Collected(job)
             D == DrawnIn(commands)
  <2>1. Drawn = D
    BY DEF Drawn, DrawnIn, DrawnByCommand, DrawnAt
  <2>2. D \in Seq(Line) /\ Visits(D, ints, {})
    <3>1. Touring /\ Pending = <<>> /\ unvisited = {}
      BY <1>1 DEF Touring, Pending, CutInv, Drawing
    <3>2. D \in Seq(Line) /\ Visits(D \o <<>>, ints, {})
      BY <1>1, <3>1, DrawnSoFar DEF CutInv
    <3> HIDE DEF D
    <3> QED BY <3>2, ConcatEmptySeq
  <2>3. /\ found \in Seq(Line) /\ Wanted \in Seq(Line) /\ SameLines(found, Wanted)
        /\ ints \in Seq(Line)
    BY <1>1, PageIsFound, IntsTyped DEF IInv
  <2>4. RoundedUpTo(Len(segments)) /\ segments = Located(found)
    BY <1>1 DEF CutInv, Reading, Touring
  <2>5. /\ DOMAIN found = 1..Len(segments)
        /\ \A k \in DOMAIN found : Rounded(segments[k]) = InSteps(found[k]) /\ found[k] \in Line
    <3>1. DOMAIN segments = DOMAIN found /\ DOMAIN segments = 1..Len(segments)
      BY <1>1, <2>4 DEF Located, IInv
    <3>2. \A k \in DOMAIN found : Rounded(segments[k]) = InSteps(found[k])
      <4> HIDE DEF found
      <4> QED BY <2>4 DEF Located, InSteps
    <3> HIDE DEF found
    <3>3. \A k \in DOMAIN found : found[k] \in Line
      BY <2>3
    <3> QED BY <3>1, <3>2, <3>3
  <2> HIDE DEF found, D
  <2>6. \A s \in ToSet(found) : s \in Line /\ \E k \in DOMAIN found : s = found[k]
    BY <2>3 DEF ToSet
  <2>7. \A s \in ToSet(Wanted) : s \in Line
    BY <2>3 DEF ToSet
  <2>8. \A s \in Line :
          /\ InSteps(s) \in Line /\ (s[1] = s[2] => InSteps(s)[1] = InSteps(s)[2])
          /\ Cardinality(Ends(InSteps(s))) = 2 <=> InSteps(s)[1] # InSteps(s)[2]
    BY <1>1, InStepsFacts, TwoEnds DEF Ends
  <2>9. ASSUME NEW l \in kept PROVE l \in wanted
    <3>1. PICK i \in DOMAIN ints : l = Ends(ints[i])
      BY <2>9
    <3>2. PICK k \in DOMAIN found : ints[i] = InSteps(found[k]) /\ ints[i][1] # ints[i][2]
      BY <2>4, <2>5, <3>1 DEF RoundedUpTo
    <3>3. found[k] \in ToSet(found) /\ found[k][1] # found[k][2] /\ found[k] \in Line
      BY <2>5, <2>8, <3>2 DEF ToSet
    <3>4. PICK t \in ToSet(Wanted) : Alongside(found[k], t)
      BY <2>3, <3>3 DEF SameLines, Covers
    <3>5. l = Ends(InSteps(t))
      BY <1>1, <2>7, <3>1, <3>2, <3>3, <3>4, InStepsFacts
    <3>6. Cardinality(l) = 2
      BY <2>8, <3>1, <3>2, <3>3
    <3> QED BY <3>5, <3>6
  <2>10. ASSUME NEW l \in wanted PROVE l \in kept
    <3>1. PICK t \in ToSet(Wanted) : l = Ends(InSteps(t)) /\ Cardinality(l) = 2
      BY <2>10
    <3>2. t \in Line /\ t[1] # t[2]
      BY <2>7, <2>8, <3>1
    <3>3. PICK s \in ToSet(found) : Alongside(t, s)
      BY <2>3, <3>2 DEF SameLines, Covers
    <3>4. s \in Line /\ l = Ends(InSteps(s))
      BY <1>1, <2>6, <3>1, <3>2, <3>3, InStepsFacts
    <3>5. PICK k \in DOMAIN found : s = found[k]
      BY <2>6
    <3>6. InSteps(s)[1] # InSteps(s)[2]
      BY <2>8, <3>1, <3>4
    <3>7. PICK i \in DOMAIN ints : Ends(ints[i]) = Ends(Rounded(segments[k]))
      BY <2>4, <2>5, <3>5, <3>6 DEF RoundedUpTo
    <3> QED BY <2>5, <3>4, <3>5, <3>7
  <2>11. wanted = kept
    <3> HIDE DEF wanted, kept
    <3> QED BY <2>9, <2>10
  <2>12. {Ends(D[k]) : k \in DOMAIN D} = kept
    <3>1. \A k \in DOMAIN D : \E i \in DOMAIN ints : Ends(D[k]) = Ends(ints[i])
      BY <2>2 DEF Visits
    <3>2. \A i \in DOMAIN ints : \E k \in DOMAIN D : Ends(D[k]) = Ends(ints[i])
      BY <2>2 DEF Visits
    <3> QED BY <3>1, <3>2
  <2>13. Len(D) = Cardinality(kept)
    <3> DEFINE n == Len(ints)  f == [i \in 1..n |-> Ends(ints[i])]
    <3>1. n \in Nat /\ DOMAIN ints = 1..n
      BY <2>3
    <3>2. IsFiniteSet(1..n) /\ Cardinality(1..n) = n
      <4>1. Cardinality(1..n) = IF 1 > n THEN 0 ELSE n - 1 + 1
        BY <3>1, FS_Interval
      <4> QED BY <3>1, <4>1, FS_Interval
    <3>3. f \in Bijection(1..n, kept)
      <4>1. f \in [1..n -> kept]
        BY <3>1
      <4>2. \A i, j \in 1..n : f[i] = f[j] => i = j
        BY <2>4, <3>1 DEF RoundedUpTo
      <4>3. \A l \in kept : \E i \in 1..n : f[i] = l
        BY <3>1
      <4> HIDE DEF f, kept, n
      <4> QED BY <4>1, <4>2, <4>3 DEF Bijection, Injection, Surjection, IsInjective
    <3>4. Cardinality(kept) = n
      <4> HIDE DEF f, kept, n
      <4> QED BY <3>2, <3>3, FS_Bijection DEF ExistsBijection
    <3>5. Len(D) + Cardinality({}) = n /\ Cardinality({}) = 0
      BY <2>2, FS_EmptySet DEF Visits
    <3>6. Len(D) \in Nat
      BY <2>2
    <3> HIDE DEF n, kept
    <3> QED BY <3>1, <3>4, <3>5, <3>6
  <2> QED BY <2>1, <2>11, <2>12, <2>13 DEF Ends
<1>2. IInv /\ CutInv => CutsEachLineOnce
  BY <1>1 DEF CutsEachLineOnce
<1> QED BY <1>2, Invariance, CutInvariance, PTL

(* A rounded length is no more than half a step from the length.           *)
LEMMA NearestStep ==
  ASSUME NEW v \in Int
  PROVE  2 * (Steps(v) * UnitsPerStep - v) \in -UnitsPerStep..UnitsPerStep
<1> DEFINE u == UnitsPerStep  q == v \div u  r == v % u
<1>1. u \in Nat \ {0}
  BY MarkLayoutAssumption
<1>2. q \in Int /\ r \in 0..u - 1 /\ v = u * q + r
  BY <1>1, Division
<1>3. u * q \in Int /\ q * u = u * q /\ (q + 1) * u = u * q + u
  BY <1>1, <1>2
<1>4. \/ Steps(v) = q /\ 2 * r <= u
      \/ Steps(v) = q + 1 /\ 2 * r >= u
  BY <1>1, <1>2 DEF Steps, RoundDiv
<1> DEFINE x == u * q
<1> HIDE DEF u, q, r, x
<1>5. x \in Int /\ v = x + r /\ q * u = x /\ (q + 1) * u = x + u
  BY <1>2, <1>3 DEF x
<1> SUFFICES 2 * (Steps(v) * u - v) \in -u..u
  BY DEF u
<1>6. CASE Steps(v) = q /\ 2 * r <= u
  <2>1. Steps(v) * u = x
    BY <1>5, <1>6
  <2>2. 2 * (x - v) \in -u..u
    BY <1>1, <1>2, <1>5, <1>6
  <2> QED BY <2>1, <2>2
<1>7. CASE Steps(v) = q + 1 /\ 2 * r >= u
  <2>1. Steps(v) * u = x + u
    BY <1>5, <1>7
  <2>2. 2 * ((x + u) - v) \in -u..u
    BY <1>1, <1>2, <1>5, <1>7
  <2> DEFINE z == Steps(v) * u
  <2>3. z = x + u
    BY <2>1
  <2>4. 2 * (z - v) \in -u..u
    <3> HIDE DEF z
    <3> QED BY <2>2, <2>3
  <2> QED BY <2>4
<1> QED BY <1>4, <1>6, <1>7

(* The vector of ESC.d5 is exact: its tenths of a millimetre end at the    *)
(* first mark.                                                             *)
LEMMA VectorIsExact ==
  ASSUME NEW w \in Int
  PROVE  /\ StartMarkX1(w) - RegmarkFy(w) * 2 * Twentieth = Mark1X(w)
         /\ BandTop + RegmarkFx * 2 * Twentieth = Mark1Y
<1> DEFINE t == Twentieth
<1>1. t \in Nat \ {0}
  BY MarkLayoutAssumption
<1>2. /\ StartMarkX1(w) - Mark1X(w) = 800 * t
      /\ Mark1Y - BandTop = 120 * t
  BY <1>1 DEF StartMarkX1, Mark1X, Mark1Y, BandTop, SideMargin, MarkSideMargin, BarcodeMargin,
              FrontMargin, BandHeight, Mm
<1>3. ASSUME NEW k \in Nat PROVE RoundDiv(k * (2 * t), 2 * t) = k
  <2> DEFINE u == 2 * t  v == k * u
  <2>1. u \in Nat \ {0} /\ v \in Int /\ v = u * k
    BY <1>1
  <2> HIDE DEF u, v
  <2>2. v \div u \in Int /\ v % u \in 0..u - 1 /\ v = u * (v \div u) + (v % u)
    BY <2>1, Division
  <2>3. v \div u = k /\ v % u = 0
    <3> DEFINE q == v \div u  r == v % u  e == k - q
    <3>1. q \in Int /\ r \in 0..u - 1 /\ u * k = u * q + r
      BY <2>1, <2>2
    <3> HIDE DEF q, r
    <3>2. e \in Int /\ u * e = r
      BY <2>1, <3>1
    <3> HIDE DEF e
    <3>3. e = 0
      <4>1. ASSUME e >= 1 PROVE FALSE
        <5>1. u * e >= u
          BY <2>1, <3>2, <4>1
        <5> QED BY <2>1, <3>1, <3>2, <5>1
      <4>2. ASSUME e <= -1 PROVE FALSE
        <5>1. u * e <= -u
          BY <2>1, <3>2, <4>2
        <5> QED BY <2>1, <3>1, <3>2, <5>1
      <4> QED BY <3>2, <4>1, <4>2
    <3>4. u * 0 = 0
      BY <2>1
    <3>5. r = 0 /\ q = k
      BY <3>1, <3>2, <3>3, <3>4 DEF e
    <3> QED BY <3>5 DEF q, r
  <2>4. RoundDiv(v, u) = k
    BY <2>1, <2>3 DEF RoundDiv
  <2> QED BY <2>4 DEF u, v
<1>4. 800 * t = 400 * (2 * t) /\ 120 * t = 60 * (2 * t)
  BY <1>1
<1>5. RegmarkFy(w) = 400 /\ RegmarkFx = 60
  <2>1. RoundDiv(400 * (2 * t), 2 * t) = 400 /\ RoundDiv(60 * (2 * t), 2 * t) = 60
    BY <1>3
  <2> QED BY <1>2, <1>4, <2>1 DEF RegmarkFy, RegmarkFx
<1>6. StartMarkX1(w) \in Int /\ Mark1X(w) \in Int /\ Mark1Y \in Int /\ BandTop \in Int
  BY <1>1 DEF StartMarkX1, Mark1X, Mark1Y, BandTop, SideMargin, MarkSideMargin, BarcodeMargin,
              FrontMargin, BandHeight, Mm
<1>7. 400 * 2 * t = 800 * t /\ 60 * 2 * t = 120 * t
  BY <1>1
<1> HIDE DEF t
<1>8. 800 * t \in Int /\ 120 * t \in Int
  BY <1>1
<1> QED BY <1>2, <1>5, <1>6, <1>7, <1>8 DEF t

(* A sheet whose trim box is the box it is laid out for is cut where its   *)
(* artwork is, to half a step, whatever its size and its lines: the tool   *)
(* goes to ends of its lines only, and the vector from the mark as it is   *)
(* printed, the frame of the marks and the rounding belong together        *)
(* (marks.py 118-155, print_prepare.py 125-132).                           *)
THEOREM PlaceCorrect == Spec => []CutsWherePrinted
<1>1. ASSUME IInv, CutInv, pc = "done", IsPrint, BoxIsLaidOut,
             NEW k \in 2..Len(commands) - 1, NEW p \in ToSet(commands[k].pts)
      PROVE  \E s \in ToSet(Wanted) : \E i \in {1, 2} :
               /\ 2 * (OnSheet(p)[1] - s[i][1]) \in -UnitsPerStep..UnitsPerStep
               /\ 2 * (OnSheet(p)[2] - s[i][2]) \in -UnitsPerStep..UnitsPerStep
  <2> DEFINE found == Collected(job)
  <2>1. PICK m \in DOMAIN ints : p \in {ints[m][1], ints[m][2]}
    <3>1. commands[k].pts \in Seq(EndPoints)
      <4>1. Len(commands) \in Nat
        BY <1>1 DEF IInv
      <4>2. k \in 2..Len(commands) /\ k # Len(commands)
        BY <1>1, <4>1
      <4> QED BY <1>1, <4>2 DEF CutInv, Going, Touring
    <3>2. p \in EndPoints
      BY <1>1, <3>1 DEF ToSet
    <3> QED BY <3>2 DEF EndPoints, Ends
  <2>2. /\ found \in Seq(Line) /\ Wanted \in Seq(Line) /\ SameLines(found, Wanted)
    BY <1>1, PageIsFound DEF IInv
  <2>3. RoundedUpTo(Len(segments)) /\ segments = Located(found)
    BY <1>1 DEF CutInv, Reading, Touring
  <2>4. PICK n \in 1..Len(segments) : ints[m] = Rounded(segments[n]) /\ ints[m][1] # ints[m][2]
    BY <2>1, <2>3 DEF RoundedUpTo
  <2>5. n \in DOMAIN found /\ found[n] \in Line
    <3>1. DOMAIN segments = DOMAIN found /\ DOMAIN segments = 1..Len(segments)
      BY <1>1, <2>3 DEF Located, IInv
    <3> HIDE DEF found
    <3>2. \A j \in DOMAIN found : found[j] \in Line
      BY <2>2
    <3> QED BY <2>4, <3>1, <3>2
  <2> DEFINE s == found[n]
  <2>6. ints[m] = Rounded(<<ToMarkFrame(job.w, s[1]), ToMarkFrame(job.w, s[2])>>)
    BY <1>1, <2>3, <2>4, <2>5 DEF Located
  <2>7. s[1] # s[2] /\ s \in Line /\ s \in ToSet(found)
    <3>1. s[1] # s[2]
      BY <2>4, <2>6 DEF Rounded
    <3> QED BY <2>5, <3>1 DEF ToSet
  <2> HIDE DEF s, found
  <2>8. PICK t \in ToSet(Wanted) : Alongside(s, t)
    BY <2>2, <2>7 DEF SameLines, Covers
  <2>9. PICK i \in {1, 2} :
          p = <<Steps(ToMarkFrame(job.w, s[i])[1]), Steps(ToMarkFrame(job.w, s[i])[2])>>
    BY <2>1, <2>6 DEF Rounded
  <2>10. \E j \in {1, 2} : s[i] = t[j]
    BY <2>8, <2>9 DEF Alongside, Reversed
  <2>11. s[i][1] \in Int /\ s[i][2] \in Int
    BY <2>7 DEF Line, Point
  <2> DEFINE x == s[i][1]  y == s[i][2]  u == UnitsPerStep
  <2>12. /\ p[1] = Steps(y - Mark1Y) /\ p[2] = Steps(Mark1X(job.w) - x)
    BY <2>9 DEF ToMarkFrame
  <2>13. OnSheet(p) = <<Mark1X(job.w) - p[2] * u, Mark1Y + p[1] * u>>
    <3>1. job.w \in Int /\ job.h \in Int /\ LinkLen \in Nat
      BY <1>1, SizesTyped, CutJobAssumption
    <3>2. LayoutFits(job.w, job.h, LinkLen)
      BY <1>1 DEF IInv
    <3>3. <<StartMarkX1(job.w), BandTop>> \in Int \X Int
      BY <3>1, MarkLayoutAssumption DEF StartMarkX1, BandTop, SideMargin, FrontMargin,
         BandHeight, Mm
    <3>4. OnPaper(<<StartMarkX1(job.w), BandTop>>) = <<StartMarkX1(job.w), BandTop>>
      BY <1>1, <3>1, <3>2, <3>3, LaidOutHasASize, PrintedAsLaidOut DEF OnPaper, BoxIsLaidOut
    <3> QED BY <3>1, <3>4, VectorIsExact DEF OnSheet
  <2>14. Mark1X(job.w) \in Int /\ Mark1Y \in Int /\ u \in Int
    BY <1>1, SizesTyped, MarkLayoutAssumption
  <2> HIDE DEF x, y, u
  <2>15. x \in Int /\ y \in Int
    BY <2>11 DEF x, y
  <2> DEFINE a == Mark1X(job.w) - x  b == y - Mark1Y
  <2>16. /\ 2 * (Steps(a) * u - a) \in -u..u /\ 2 * (Steps(b) * u - b) \in -u..u
         /\ Steps(a) \in Int /\ Steps(b) \in Int
    <3>1. a \in Int /\ b \in Int
      BY <2>14, <2>15
    <3> HIDE DEF a, b
    <3> QED BY <3>1, NearestStep, StepsFacts DEF u
  <2>17. /\ 2 * (OnSheet(p)[1] - x) \in -u..u
         /\ 2 * (OnSheet(p)[2] - y) \in -u..u
    <3> DEFINE c == Steps(a) * u  d == Steps(b) * u
    <3>1. c \in Int /\ d \in Int
      BY <2>14, <2>16
    <3>2. OnSheet(p)[1] = Mark1X(job.w) - c /\ OnSheet(p)[2] = Mark1Y + d
      BY <2>12, <2>13 DEF x, y
    <3>3. 2 * (c - (Mark1X(job.w) - x)) \in -u..u /\ 2 * (d - (y - Mark1Y)) \in -u..u
      BY <2>16
    <3> HIDE DEF c, d
    <3> QED BY <2>14, <2>15, <3>1, <3>2, <3>3, SMTT(30)
  <2> QED BY <2>8, <2>10, <2>17 DEF x, y, u
<1>2. IInv /\ CutInv => CutsWherePrinted
  BY <1>1 DEF CutsWherePrinted
<1> QED BY <1>2, Invariance, CutInvariance, PTL

-----------------------------------------------------------------------------
(* What the first invariant implies                                        *)

(* Every variable keeps its type, through both pipelines and the tour.     *)
THEOREM TypeCorrect == Spec => []TypeOK
<1>1. ASSUME IInv PROVE TypeOK
  <2>1. Area \subseteq StepPoint
    BY <1>1, AreaTyped
  <2>2. ints \in Seq(StepPoint \X StepPoint)
    <3>1. Area \X Area \subseteq StepPoint \X StepPoint
      BY <2>1
    <3> QED BY <1>1, <3>1, SeqMonotonic DEF IInv
  <2>3. draw \in Seq(StepPoint)
    BY <1>1, <2>1, SeqMonotonic DEF IInv
  <2>4. commands \in Seq([op : {"M", "D", "TB24"}, pts : Seq(StepPoint)])
    <3>1. Seq(Area) \subseteq Seq(StepPoint)
      BY <2>1, SeqMonotonic
    <3>2. Command \subseteq [op : {"M", "D", "TB24"}, pts : Seq(StepPoint)]
      BY <3>1 DEF Command
    <3> QED BY <1>1, <3>2, SeqMonotonic DEF IInv
  <2> QED BY <1>1, <2>2, <2>3, <2>4 DEF IInv, TypeOK, Stages
<1> QED BY <1>1, Invariance, PTL

(* No command of the tour is empty or carries more pairs than the limit,   *)
(* whatever the lines (pdf_to_gpgl.py 307-312).                            *)
THEOREM CommandsCorrect == Spec => []CommandsShort
<1>1. ASSUME IInv PROVE CommandsShort
  BY <1>1 DEF IInv, CommandsShort, Command
<1> QED BY <1>1, Invariance, PTL

(* A program for a sheet stays inside the rectangle of its own TB24,       *)
(* whatever the sheet's size and lines (print_prepare.py 107-127, marks.py *)
(* 212-238).                                                               *)
THEOREM InsideCorrect == Spec => []CutsInsideTheMarks
<1>1. ASSUME IInv PROVE CutsInsideTheMarks
  <2>1. SUFFICES ASSUME pc = "done", IsPrint, NEW k \in DOMAIN commands,
                        NEW p \in ToSet(commands[k].pts)
                 PROVE  /\ p[1] \in 0..commands[1].pts[1][1]
                        /\ p[2] \in 0..commands[1].pts[1][2]
    BY DEF CutsInsideTheMarks
  <2>2. commands[k].pts \in Seq(Area)
    BY <1>1 DEF IInv, Command
  <2>3. p \in Area
    BY <2>1, <2>2 DEF ToSet
  <2>4. commands[1] = BetweenMarks
    BY <1>1, <2>1 DEF IInv
  <2> QED BY <2>1, <2>3, <2>4 DEF Area, BetweenMarks
<1> QED BY <1>1, Invariance, PTL

(* A sheet that is not refused is laid out so that the sensor can read it, *)
(* with the text that is printed beside its code, and, printed in the box  *)
(* it is laid out for, none of its artwork lies under what is printed over *)
(* it, whatever its size and its objects (print_prepare.py 40-68, 125-132, *)
(* marks.py 99-201).                                                       *)
THEOREM MarksCorrect == Spec => []MarksAreClear
<1>1. ASSUME IInv PROVE MarksAreClear
  <2>1. SUFFICES ASSUME pc \in {"frame", "round", "lift", "draw", "done"}, IsPrint
                 PROVE  /\ SheetReadable(job.w, job.h, LinkLen)
                        /\ BoxIsLaidOut =>
                             \A k \in DOMAIN job.objects,
                                r \in Overlay(job.w, job.h, LinkLen) :
                               ~ Overlaps(BoundingBox(job.objects[k].path), RectOnPaper(r))
    BY DEF MarksAreClear
  <2>2. LayoutFits(job.w, job.h, LinkLen) /\ ClearOfMarks
    BY <1>1, <2>1 DEF IInv
  <2>3. job.w \in Int /\ job.h \in Int /\ LinkLen \in Nat
    BY <1>1, SizesTyped, CutJobAssumption
  <2>4. SheetReadable(job.w, job.h, LinkLen)
    BY <2>2, <2>3, LayoutReadable
  <2>5. ASSUME NEW k \in DOMAIN job.objects, NEW r \in Overlay(job.w, job.h, LinkLen)
        PROVE  ~ Overlaps(BoundingBox(job.objects[k].path), r)
    <3>1. PICK z \in KeepClearZones(job.w, job.h) : Within(r, z)
      BY <2>4 DEF SheetReadable
    <3>2. ~ Overlaps(BoundingBox(job.objects[k].path), z)
      BY <2>2 DEF ClearOfMarks, Intrudes
    <3>3. BoundingBox(job.objects[k].path) \in Int \X Int \X Int \X Int
      BY <1>1, JobsAssumption DEF IInv
    <3>4. z \in Int \X Int \X Int \X Int /\ r \in Int \X Int \X Int \X Int
      BY <2>3, OverlayTyped
    <3> QED BY <3>1, <3>2, <3>3, <3>4, ClearOfWhatIsWithin
  <2>6. ASSUME BoxIsLaidOut, NEW r \in Overlay(job.w, job.h, LinkLen)
        PROVE  RectOnPaper(r) = r
    BY <2>2, <2>3, <2>6, OverlayTyped, LaidOutHasASize, PrintedAsLaidOut
    DEF RectOnPaper, BoxIsLaidOut
  <2> QED BY <2>4, <2>5, <2>6
<1> QED BY <1>1, Invariance, PTL

(* A curve is cut along itself, however deep it is halved: the points of   *)
(* its polyline are points of the curve, in its order and from its         *)
(* beginning to its end, and what lies between two of them is no farther   *)
(* from their chord than the tolerance (pdf_to_gpgl.py 52-81).             *)
THEOREM CurvesCorrect == Spec => []CurvesAreFollowed
<1>1. ASSUME IInv PROVE CurvesAreFollowed
  <2>1. SUFFICES ASSUME NEW n \in DOMAIN job.objects, NEW q \in CurvesOf(job.objects[n].path)
                 PROVE  FollowsCurve(q)
    BY DEF CurvesAreFollowed
  <2> DEFINE path == job.objects[n].path
  <2>2. path \in Seq(Operator) /\ IsExact(q)
    <3>1. job \in Jobs
      BY <1>1 DEF IInv
    <3>2. job.objects[n] \in Objects
      BY <3>1, JobsAssumption
    <3>3. IsExact(q)
      BY <3>1, CurvesAssumption
    <3> QED BY <3>2, <3>3 DEF Objects
  <2>3. PICK k \in DOMAIN path : /\ IsCurve(path[k]) /\ Moved(path, k) # 0
                                 /\ q = Bezier(PenAt(path, k - 1), path[k])
    BY DEF CurvesOf
  <2> HIDE DEF path
  <2>4. PenAt(path, k - 1) \in Point /\ path[k] \in Operator
    <3>1. k \in 1..Len(path) /\ path[k] \in Operator /\ path[k].op # "m"
      BY <2>2, <2>3 DEF IsCurve
    <3>2. Moved(path, k) = Moved(path, k - 1)
      BY <2>2, <3>1, MovedFacts
    <3>3. k - 1 # 0
      BY <2>2, <2>3, <3>2, MovedFacts
    <3>4. k - 1 \in 1..Len(path)
      BY <3>1, <3>3
    <3> QED BY <2>2, <2>3, <3>1, <3>2, <3>4, PenFacts
  <2> DEFINE r == <<q[1], q[2], q[3], q[4]>>
  <2>5. q[1] \in Point /\ q[2] \in Point /\ q[3] \in Point /\ q[4] \in Point
    BY <2>3, <2>4, BezierFacts
  <2>6. r \in Quads /\ r[1] = q[1] /\ r[2] = q[2] /\ r[3] = q[3] /\ r[4] = q[4]
    BY <2>5 DEF Quads
  <2>7. Finest \in Nat \ {0}
    BY PartsFacts, PathWalkAssumption DEF Finest
  <2> HIDE DEF r
  <2>8. IsExact(r)
    BY <2>2, <2>6 DEF IsExact
  <2>9. OnGrid(r, Finest)
    BY <2>6, <2>7, <2>8, ExactIsOnGrid
  <2>10. PICK at \in Samplings(Finest) :
           Sampled(FlattenCubic(r[1], r[2], r[3], r[4]), r, Finest, at)
    BY <2>6, <2>9, FlattenFollows DEF Follows
  <2>11. \A k1, n1 : OnCurve(r, k1, n1) = OnCurve(q, k1, n1)
    BY <2>6 DEF OnCurve
  <2>12. Sampled(FlattenCubic(q[1], q[2], q[3], q[4]), q, Finest, at)
    BY <2>6, <2>10, <2>11 DEF Sampled
  <2> QED BY <2>10, <2>12 DEF FollowsCurve, Sampled, FinestSamplings
<1> QED BY <1>1, Invariance, PTL

=============================================================================
