-------------------------- MODULE TimestampsProofs --------------------------
(***************************************************************************)
(* What the text order of stored timestamps is, for every base and every   *)
(* number of digits: total, and by how much it differs from the order of   *)
(* the times.                                                              *)
(***************************************************************************)
EXTENDS Timestamps, SequenceTheorems, WellFoundedInduction, TLAPS

(* Every inhabited set of naturals has a least element. *)
LEMMA LeastElement ==
  ASSUME NEW S \in SUBSET Nat, S # {}
  PROVE  \E x \in S : \A y \in S : x <= y
<1> DEFINE R == OpToRel(<, Nat)
<1>1. IsWellFoundedOn(R, Nat)
  BY NatLessThanWellFounded
<1>2. \A x, y \in Nat : x < y => <<x, y>> \in R
  BY DEF OpToRel
<1> HIDE DEF R
<1>3. PICK x \in S : \A y \in S : ~ (<<y, x>> \in R)
  BY <1>1, WFMin
<1>4. ASSUME NEW y \in S PROVE x <= y
  <2>1. x \in Nat /\ y \in Nat
    OBVIOUS
  <2>2. ~(y < x)
    BY <1>2, <1>3, <2>1
  <2> QED
    BY <2>1, <2>2
<1> QED
  BY <1>4

LEMMA GreatestElement ==
  ASSUME NEW n \in Nat, NEW S \in SUBSET (0..n), S # {}
  PROVE  \E x \in S : \A y \in S : y <= x
<1> DEFINE T == {n - y : y \in S}
<1>1. T \in SUBSET Nat /\ T # {}
  <2>1. ASSUME NEW y \in S PROVE n - y \in Nat
    <3>1. y \in 0..n
      OBVIOUS
    <3> QED
      BY <3>1
  <2> QED
    BY <2>1
<1>2. PICK m \in T : \A k \in T : m <= k
  <2> HIDE DEF T
  <2> QED
    BY <1>1, LeastElement
<1>3. PICK x \in S : m = n - x
  OBVIOUS
<1>4. \A y \in S : n - x <= n - y
  BY <1>2, <1>3
<1>5. \A y \in S : y <= x
  BY <1>4
<1> QED
  BY <1>5

-----------------------------------------------------------------------------
(* Arithmetic: the powers of the base, and division by them. *)

LEMMA PowerType ==
  ASSUME NEW k \in 0..Places
  PROVE  Base ^ k \in Nat \ {0}
<1> DEFINE Bad == {i \in 0..Places : Base ^ i \notin Nat \ {0}}
<1>1. Places \in Nat /\ Base \in Nat \ {0}
  BY TimestampAssumption
<1>2. SUFFICES ASSUME Bad # {} PROVE FALSE
  OBVIOUS
<1>3. Bad \in SUBSET Nat
  BY <1>1
<1>4. PICK i \in Bad : \A n \in Bad : i <= n
  <2> HIDE DEF Bad
  <2> QED
    BY <1>2, <1>3, LeastElement
<1>5. i \in 1..Places
  <2>1. i # 0
    BY TimestampAssumption
  <2> QED
    BY <1>1, <2>1
<1>6. Base ^ (i - 1) \in Nat \ {0}
  <2>1. i - 1 \in 0..Places /\ ~(i <= i - 1)
    BY <1>1, <1>5
  <2>2. i - 1 \notin Bad
    BY <1>4, <2>1
  <2> QED
    BY <2>1, <2>2
<1> DEFINE last == Base ^ (i - 1)
<1>7. Base ^ i = Base * last
  BY <1>5, TimestampAssumption
<1> HIDE DEF last
<1>8. Base * last \in Nat \ {0}
  <2>1. last \in Nat \ {0}
    BY <1>6 DEF last
  <2> QED
    BY <1>1, <2>1
<1> QED
  BY <1>4, <1>7, <1>8

(* A number has one quotient and one remainder. *)
LEMMA OneDivision ==
  ASSUME NEW d \in Nat \ {0}, NEW q \in Nat, NEW x \in Nat,
         NEW r \in Nat, NEW y \in Nat, r < d, y < d, d * q + r = d * x + y
  PROVE  q = x /\ r = y
<1>1. ~(q < x)
  <2> SUFFICES ASSUME q < x PROVE FALSE
    OBVIOUS
  <2>1. PICK e \in Nat : x = q + 1 + e
    <3>1. x - q - 1 \in Nat /\ x = q + 1 + (x - q - 1)
      OBVIOUS
    <3> QED
      BY <3>1
  <2>2. d * x = d * q + d + d * e
    BY <2>1
  <2>3. d * e \in Nat /\ d * q \in Nat
    BY <2>1
  <2> QED
    BY <2>2, <2>3
<1>2. ~(x < q)
  <2> SUFFICES ASSUME x < q PROVE FALSE
    OBVIOUS
  <2>1. PICK e \in Nat : q = x + 1 + e
    <3>1. q - x - 1 \in Nat /\ q = x + 1 + (q - x - 1)
      OBVIOUS
    <3> QED
      BY <3>1
  <2>2. d * q = d * x + d + d * e
    BY <2>1
  <2>3. d * e \in Nat /\ d * x \in Nat
    BY <2>1
  <2> QED
    BY <2>2, <2>3
<1>3. q = x
  BY <1>1, <1>2
<1>4. d * q \in Nat
  OBVIOUS
<1> QED
  BY <1>3, <1>4

LEMMA Division ==
  ASSUME NEW t \in Nat, NEW d \in Nat \ {0}
  PROVE  /\ t \div d \in Nat /\ t % d \in Nat /\ t % d < d
         /\ t = d * (t \div d) + (t % d)
<1>1. t \div d \in Nat /\ t % d \in 0..(d - 1)
  OBVIOUS
<1>2. t % d = t - d * (t \div d)
  OBVIOUS
<1>3. d * (t \div d) \in Int
  BY <1>1
<1> QED
  BY <1>1, <1>2, <1>3

(* The quotient is what fits. *)
LEMMA QuotientIs ==
  ASSUME NEW t \in Nat, NEW d \in Nat \ {0}, NEW q \in Nat, NEW r \in Nat,
         r < d, t = d * q + r
  PROVE  t \div d = q /\ t % d = r
<1> DEFINE a == t \div d
           b == t % d
<1>1. a \in Nat /\ b \in Nat /\ b < d /\ t = d * a + b
  BY Division
<1> HIDE DEF a, b
<1>2. a = q /\ b = r
  BY <1>1, OneDivision
<1> QED
  BY <1>2 DEF a, b

LEMMA DivisionNests ==
  ASSUME NEW t \in Nat, NEW d \in Nat \ {0}, NEW b \in Nat \ {0}
  PROVE  t \div (b * d) = (t \div d) \div b
<1> DEFINE q == t \div d
           r == t % d
           x == q \div b
           y == q % b
<1>1. q \in Nat /\ r \in Nat /\ r < d /\ t = d * q + r
  BY Division
<1>2. x \in Nat /\ y \in Nat /\ y < b /\ q = b * x + y
  <2> HIDE DEF q, r
  <2> QED
    BY <1>1, Division
<1> HIDE DEF q, r, x, y
<1>3. t = (b * d) * x + (d * y + r)
  <2>1. d * q = d * (b * x) + d * y
    BY <1>2
  <2>2. d * (b * x) = (b * d) * x
    BY <1>2
  <2>3. /\ d * y \in Nat /\ (b * d) * x \in Nat
    BY <1>2
  <2> QED
    BY <1>1, <2>1, <2>2, <2>3
<1>4. d * y + r \in Nat /\ d * y + r < b * d
  <2>1. PICK e \in Nat : b = y + 1 + e
    <3>1. b - y - 1 \in Nat /\ b = y + 1 + (b - y - 1)
      BY <1>2
    <3> QED
      BY <3>1
  <2>2. b * d = d * y + d + d * e
    BY <1>2, <2>1
  <2>3. d * e \in Nat /\ d * y \in Nat
    BY <1>2, <2>1
  <2> QED
    BY <1>1, <2>2, <2>3
<1>5. b * d \in Nat \ {0}
  OBVIOUS
<1> DEFINE bd == b * d
           rest == d * y + r
<1>6. /\ bd \in Nat \ {0} /\ rest \in Nat /\ rest < bd
      /\ t = bd * x + rest
  BY <1>3, <1>4, <1>5
<1> HIDE DEF bd, rest
<1>7. t \div bd = x
  BY <1>2, <1>6, QuotientIs
<1> QED
  BY <1>7 DEF bd, x, q

(* A greater number has no smaller quotient. *)
LEMMA DivisionGrows ==
  ASSUME NEW s \in Nat, NEW t \in Nat, s <= t, NEW d \in Nat \ {0}
  PROVE  s \div d <= t \div d
<1> DEFINE q == s \div d
           r == s % d
           x == t \div d
           y == t % d
<1>1. q \in Nat /\ r \in Nat /\ r < d /\ s = d * q + r
  BY Division
<1>2. x \in Nat /\ y \in Nat /\ y < d /\ t = d * x + y
  BY Division
<1> HIDE DEF q, r, x, y
<1>3. ~(x < q)
  <2> SUFFICES ASSUME x < q PROVE FALSE
    OBVIOUS
  <2>1. PICK e \in Nat : q = x + 1 + e
    <3>1. q - x - 1 \in Nat /\ q = x + 1 + (q - x - 1)
      BY <1>1, <1>2
    <3> QED
      BY <3>1
  <2>2. d * q = d * x + d + d * e
    BY <1>2, <2>1
  <2>3. d * e \in Nat /\ d * x \in Nat
    BY <1>2, <2>1
  <2> QED
    BY <1>1, <1>2, <2>2, <2>3
<1>4. q <= x
  BY <1>1, <1>2, <1>3
<1> QED
  BY <1>4 DEF q, x

-----------------------------------------------------------------------------
(* Texts. *)

LEMMA DigitType ==
  ASSUME NEW t \in Nat, NEW k \in 1..Places
  PROVE  Digit(t, k) \in Nat /\ Digit(t, k) < Base
<1> DEFINE unit == Base ^ (Places - k)
           high == t \div unit
<1>1. Places - k \in 0..Places
  BY TimestampAssumption
<1>2. unit \in Nat \ {0}
  BY <1>1, PowerType
<1> HIDE DEF unit
<1>3. high \in Nat
  BY <1>2
<1>4. Base \in Nat \ {0}
  BY TimestampAssumption
<1> HIDE DEF high
<1>5. high % Base \in 0..(Base - 1)
  BY <1>3, <1>4
<1> QED
  BY <1>4, <1>5 DEF Digit, unit, high

LEMMA ShownType ==
  ASSUME NEW t \in Nat
  PROVE  Shown(t) \in 0..Places
<1> DEFINE nonzero == {k \in 1..Places : Digit(t, k) # 0}
<1>1. Places \in Nat
  BY TimestampAssumption
<1>2. CASE nonzero = {}
  BY <1>1, <1>2 DEF Shown
<1>3. CASE nonzero # {}
  <2>1. nonzero \in SUBSET (1..Places)
    OBVIOUS
  <2>2. Shown(t) = CHOOSE k \in nonzero : \A n \in nonzero : n <= k
    BY <1>3 DEF Shown
  <2> HIDE DEF nonzero
  <2>3. \E k \in nonzero : \A n \in nonzero : n <= k
    <3>1. nonzero \in SUBSET (0..Places)
      BY <1>1, <2>1
    <3> QED
      BY <1>1, <1>3, <3>1, GreatestElement
  <2>4. Shown(t) \in nonzero
    BY <2>2, <2>3
  <2>5. Shown(t) \in 1..Places
    BY <2>1, <2>4
  <2> QED
    BY <1>1, <2>5
<1> QED
  BY <1>2, <1>3

(* A text has at least the seconds and the final Z, and no character       *)
(* between the two is as great as that Z.                                  *)
LEMMA TextShape ==
  ASSUME NEW t \in Nat
  PROVE  /\ Text(t) \in Seq(Nat)
         /\ Len(Text(t)) \in Nat /\ Len(Text(t)) >= 2
         /\ Text(t)[Len(Text(t))] = Zulu
         /\ \A n \in 2..(Len(Text(t)) - 1) : Text(t)[n] < Zulu
<1> DEFINE seconds == t \div PerSecond
           digits == [k \in 1..Shown(t) |-> Numeral(Digit(t, k))]
           fraction == IF Shown(t) = 0 THEN <<>> ELSE <<Point>> \o digits
<1>1. Places \in Nat /\ Base \in Nat \ {0}
  BY TimestampAssumption
<1>2. seconds \in Nat
  <2>1. PerSecond \in Nat \ {0}
    BY <1>1, PowerType DEF PerSecond
  <2> QED
    BY <2>1
<1>3. Zulu \in Nat /\ Point \in Nat /\ Point < Zulu
  BY <1>1 DEF Zulu, Point
<1>4. Shown(t) \in 0..Places
  BY ShownType
<1>5. \A k \in 1..Shown(t) : Numeral(Digit(t, k)) \in Nat
                             /\ Numeral(Digit(t, k)) < Zulu
  <2> TAKE k \in 1..Shown(t)
  <2>1. k \in 1..Places
    BY <1>1, <1>4
  <2>2. Digit(t, k) \in Nat /\ Digit(t, k) < Base
    BY <2>1, DigitType
  <2> QED
    BY <1>1, <2>2 DEF Numeral, Zulu
<1>6. /\ digits \in Seq(Nat) /\ Len(digits) = Shown(t)
      /\ \A k \in 1..Shown(t) : digits[k] < Zulu
  <2>1. \A k \in 1..Shown(t) : Numeral(Digit(t, k)) \in Nat
    BY <1>5
  <2>2. Shown(t) \in Nat
    BY <1>1, <1>4
  <2> QED
    BY <1>5, <2>1, <2>2
<1> HIDE DEF digits
<1>7. /\ fraction \in Seq(Nat)
      /\ \A k \in 1..Len(fraction) : fraction[k] < Zulu
  <2>1. CASE Shown(t) = 0
    BY <2>1
  <2>2. CASE Shown(t) # 0
    <3>1. fraction = <<Point>> \o digits
      BY <2>2
    <3>2. <<Point>> \in Seq(Nat) /\ Len(<<Point>>) = 1 /\ <<Point>>[1] = Point
      BY <1>3
    <3>3. Len(fraction) = 1 + Len(digits) /\ fraction \in Seq(Nat)
      BY <1>6, <3>1, <3>2
    <3>4. ASSUME NEW k \in 1..Len(fraction) PROVE fraction[k] < Zulu
      <4>1. CASE k = 1
        BY <1>3, <1>6, <3>1, <3>2, <4>1
      <4>2. CASE k # 1
        <5>1. fraction[k] = digits[k - 1] /\ k - 1 \in 1..Shown(t)
          BY <1>4, <1>1, <1>6, <3>1, <3>2, <3>3, <4>2
        <5> QED
          BY <1>6, <5>1
      <4> QED
        BY <4>1, <4>2
    <3> QED
      BY <3>3, <3>4
  <2> QED
    BY <2>1, <2>2
<1>8. Text(t) = <<seconds>> \o fraction \o <<Zulu>>
  BY DEF Text, digits
<1> HIDE DEF fraction, seconds
<1>9. /\ <<seconds>> \o fraction \in Seq(Nat)
      /\ Len(<<seconds>> \o fraction) = 1 + Len(fraction)
      /\ \A k \in 2..1 + Len(fraction) :
           (<<seconds>> \o fraction)[k] = fraction[k - 1]
  BY <1>2, <1>7
<1> DEFINE front == <<seconds>> \o fraction
<1>10. /\ front \in Seq(Nat) /\ Len(front) >= 1
       /\ \A k \in 2..Len(front) : front[k] < Zulu
  <2>1. Len(fraction) \in Nat
    BY <1>7
  <2>2. \A k \in 2..1 + Len(fraction) : k - 1 \in 1..Len(fraction)
    BY <2>1
  <2> QED
    BY <1>7, <1>9, <2>1, <2>2
<1>11. Text(t) = front \o <<Zulu>>
  BY <1>8
<1> HIDE DEF front
<1>12. /\ Text(t) \in Seq(Nat)
       /\ Len(Text(t)) = Len(front) + 1
       /\ \A k \in 1..Len(front) : Text(t)[k] = front[k]
       /\ Text(t)[Len(front) + 1] = Zulu
  BY <1>3, <1>10, <1>11
<1>13. Len(front) \in Nat
  BY <1>10
<1>14. Len(Text(t)) - 1 = Len(front) /\ Len(Text(t)) \in Nat
  BY <1>12, <1>13
<1>15. \A n \in 2..(Len(Text(t)) - 1) : Text(t)[n] < Zulu
  <2> TAKE n \in 2..(Len(Text(t)) - 1)
  <2>1. n \in 2..Len(front) /\ n \in 1..Len(front)
    BY <1>13, <1>14
  <2> QED
    BY <1>10, <1>12, <2>1
<1> QED
  BY <1>10, <1>12, <1>13, <1>14, <1>15

(* No text comes before itself. *)
LEMMA NeverBeforeItself ==
  ASSUME NEW t \in Nat
  PROVE  ~TextLess(t, t)
<1>1. \A n \in 1..Len(Text(t)) : Text(t)[n] \in Nat
  BY TextShape, ElementOfSeq
<1>2. \A n \in 1..Len(Text(t)) : ~(Text(t)[n] < Text(t)[n])
  BY <1>1
<1> QED
  BY <1>2 DEF TextLess

(* Of two different texts one comes first: no text is a prefix of another  *)
(* because the Z that ends it is greater than what may follow the seconds. *)
LEMMA TextsCompare ==
  ASSUME NEW a \in Nat, NEW b \in Nat, Text(a) # Text(b)
  PROVE  TextLess(a, b) \/ TextLess(b, a)
<1> DEFINE A == Text(a)
           B == Text(b)
           D == {n \in 1..Len(A) : n <= Len(B) /\ A[n] # B[n]}
<1>a. /\ A \in Seq(Nat) /\ Len(A) \in Nat /\ Len(A) >= 2
      /\ A[Len(A)] = Zulu
      /\ \A n \in 2..(Len(A) - 1) : A[n] < Zulu
  BY TextShape
<1>b. /\ B \in Seq(Nat) /\ Len(B) \in Nat /\ Len(B) >= 2
      /\ B[Len(B)] = Zulu
      /\ \A n \in 2..(Len(B) - 1) : B[n] < Zulu
  BY TextShape
<1>z. ~(Zulu < Zulu)
  BY <1>a
<1>n. A # B
  OBVIOUS
<1>l. /\ TextLess(a, b) <=> \E n \in 1..Len(A) :
           n <= Len(B) /\ (\A m \in 1..n - 1 : A[m] = B[m]) /\ A[n] < B[n]
      /\ TextLess(b, a) <=> \E n \in 1..Len(B) :
           n <= Len(A) /\ (\A m \in 1..n - 1 : B[m] = A[m]) /\ B[n] < A[n]
  BY DEF TextLess
<1> HIDE DEF A, B
<1>1. CASE D = {}
  <2>1. \A n \in 1..Len(A) : n <= Len(B) => A[n] = B[n]
    BY <1>1
  <2>2. ~(Len(A) < Len(B))
    <3> SUFFICES ASSUME Len(A) < Len(B) PROVE FALSE
      OBVIOUS
    <3>1. Len(A) \in 2..(Len(B) - 1) /\ Len(A) \in 1..Len(A)
          /\ Len(A) <= Len(B)
      BY <1>a, <1>b
    <3>2. A[Len(A)] = B[Len(A)]
      BY <2>1, <3>1
    <3> QED
      BY <1>a, <1>b, <1>z, <3>1, <3>2
  <2>3. ~(Len(B) < Len(A))
    <3> SUFFICES ASSUME Len(B) < Len(A) PROVE FALSE
      OBVIOUS
    <3>1. Len(B) \in 2..(Len(A) - 1) /\ Len(B) \in 1..Len(A)
          /\ Len(B) <= Len(B)
      BY <1>a, <1>b
    <3>2. A[Len(B)] = B[Len(B)]
      BY <2>1, <3>1
    <3> QED
      BY <1>a, <1>b, <1>z, <3>1, <3>2
  <2>4. Len(A) = Len(B)
    BY <1>a, <1>b, <2>2, <2>3
  <2>5. A = B
    BY <1>a, <1>b, <2>1, <2>4, SeqEqual
  <2> QED
    BY <1>n, <2>5
<1>2. CASE D # {}
  <2>1. D \in SUBSET Nat
    BY <1>a
  <2>2. PICK n \in D : \A m \in D : n <= m
    <3> HIDE DEF D
    <3> QED
      BY <1>2, <2>1, LeastElement
  <2>3. /\ n \in 1..Len(A) /\ n \in 1..Len(B) /\ A[n] # B[n]
        /\ A[n] \in Nat /\ B[n] \in Nat
    <3>1. n \in 1..Len(A) /\ n <= Len(B) /\ A[n] # B[n]
      OBVIOUS
    <3>2. n \in 1..Len(B)
      BY <1>a, <1>b, <3>1
    <3> QED
      BY <1>a, <1>b, <3>1, <3>2, ElementOfSeq
  <2>4. \A m \in 1..n - 1 : A[m] = B[m]
    <3> SUFFICES ASSUME NEW m \in 1..n - 1, A[m] # B[m] PROVE FALSE
      OBVIOUS
    <3> HIDE DEF D
    <3>1. n \in Nat /\ m \in Nat /\ m < n /\ m \in 1..Len(A) /\ m <= Len(B)
      <4>1. /\ Len(A) \in Nat /\ Len(B) \in Nat
            /\ n \in Nat /\ n <= Len(A) /\ n <= Len(B)
        BY <1>a, <1>b, <2>3
      <4>2. m \in Nat /\ 1 <= m /\ m < n
        BY <4>1
      <4> QED
        BY <4>1, <4>2
    <3>2. m \in D
      BY <3>1 DEF D
    <3> QED
      <4>1. n <= m
        BY <2>2, <3>2
      <4> QED
        BY <3>1, <4>1
  <2>5. A[n] < B[n] \/ B[n] < A[n]
    BY <2>3
  <2>6. n <= Len(A) /\ n <= Len(B)
    BY <2>3
  <2> QED
    BY <1>l, <2>3, <2>4, <2>5, <2>6
<1> QED
  BY <1>1, <1>2
-----------------------------------------------------------------------------
(* How far the order of the texts is from that of the times. *)

(* The number that the text of an instant shows up to a place *)
Upto(t, j) == t \div Base ^ (Places - j)

(* Each place adds its digit; the last one is the instant itself. *)
LEMMA UptoFacts ==
  ASSUME NEW t \in Nat
  PROVE  /\ \A j \in 0..Places : Upto(t, j) \in Nat
         /\ Upto(t, 0) = t \div PerSecond /\ Upto(t, Places) = t
         /\ \A j \in 1..Places :
              /\ Digit(t, j) \in Nat /\ Digit(t, j) < Base
              /\ Digit(t, j) = Upto(t, j) % Base
              /\ Upto(t, j) = Base * Upto(t, j - 1) + Digit(t, j)
<1>1. Places \in Nat /\ Base \in Nat \ {0}
  BY TimestampAssumption
<1>2. \A j \in 0..Places : Places - j \in 0..Places
  BY <1>1
<1>3. ASSUME NEW j \in 0..Places PROVE Upto(t, j) \in Nat
  <2> DEFINE unit == Base ^ (Places - j)
  <2>1. unit \in Nat \ {0}
    BY <1>2, PowerType
  <2> HIDE DEF unit
  <2>2. t \div unit \in Nat
    BY <2>1, Division
  <2> QED
    BY <2>2 DEF Upto, unit
<1>4. Upto(t, 0) = t \div PerSecond
  <2>1. Places - 0 = Places
    BY <1>1
  <2> QED
    BY <2>1 DEF Upto, PerSecond
<1>5. Upto(t, Places) = t
  <2>1. Places - Places = 0
    BY <1>1
  <2>2. Upto(t, Places) = t \div 1
    BY <2>1, TimestampAssumption DEF Upto
  <2>3. t \div 1 = t
    OBVIOUS
  <2> QED
    BY <2>2, <2>3
<1>6. ASSUME NEW j \in 1..Places
      PROVE  /\ Digit(t, j) \in Nat /\ Digit(t, j) < Base
             /\ Digit(t, j) = Upto(t, j) % Base
             /\ Upto(t, j) = Base * Upto(t, j - 1) + Digit(t, j)
  <2> DEFINE unit == Base ^ (Places - j)
             wide == Base ^ (Places - (j - 1))
             high == Upto(t, j)
  <2>1. Digit(t, j) = high % Base
    BY DEF Digit, Upto
  <2>2. Digit(t, j) \in Nat /\ Digit(t, j) < Base
    BY DigitType
  <2>3. /\ unit \in Nat \ {0}
        /\ wide = Base * unit
    <3>1. /\ Places - (j - 1) \in 1..Places
          /\ (Places - (j - 1)) - 1 = Places - j
          /\ Places - j \in 0..Places
      BY <1>1
    <3> QED
      BY <3>1, PowerType, TimestampAssumption
  <2>4. high = t \div unit /\ Upto(t, j - 1) = t \div wide
    BY DEF Upto
  <2> HIDE DEF unit, wide
  <2>5. Upto(t, j - 1) = high \div Base
    <3>1. t \div (Base * unit) = (t \div unit) \div Base
      BY <1>1, <2>3, DivisionNests
    <3> QED
      BY <2>3, <2>4, <3>1
  <2>6. high \in Nat
    BY <1>1, <1>3
  <2> HIDE DEF high
  <2>7. high = Base * (high \div Base) + (high % Base)
    BY <1>1, <2>6, Division
  <2>8. high = Base * Upto(t, j - 1) + Digit(t, j)
    BY <2>1, <2>5, <2>7
  <2> QED
    BY <2>1, <2>2, <2>8 DEF high
<1> QED
  BY <1>3, <1>4, <1>5, <1>6

(* Two instants whose texts agree up to a place agree up to each earlier   *)
(* one.                                                                    *)
LEMMA UptoSame ==
  ASSUME NEW a \in Nat, NEW b \in Nat, NEW j \in 0..Places,
         Upto(a, j) = Upto(b, j)
  PROVE  \A i \in 0..j : Upto(a, i) = Upto(b, i)
<1> DEFINE Bad == {i \in 0..j : Upto(a, i) # Upto(b, i)}
<1>1. Places \in Nat /\ Base \in Nat \ {0} /\ j \in Nat
  BY TimestampAssumption
<1>2. SUFFICES ASSUME Bad # {} PROVE FALSE
  OBVIOUS
<1>3. PICK i \in Bad : \A n \in Bad : n <= i
  <2>1. Bad \in SUBSET (0..j)
    OBVIOUS
  <2> HIDE DEF Bad
  <2> QED
    BY <1>1, <1>2, <2>1, GreatestElement
<1>4. i \in 0..j /\ i # j
  OBVIOUS
<1>5. i + 1 \in 0..j /\ i + 1 \in 1..Places /\ (i + 1) - 1 = i
      /\ ~(i + 1 <= i) /\ i \in 0..Places
  BY <1>1, <1>4
<1>6. Upto(a, i + 1) = Upto(b, i + 1)
  BY <1>3, <1>5
<1>7. /\ Upto(a, i + 1) = Base * Upto(a, i) + Digit(a, i + 1)
      /\ Digit(a, i + 1) \in Nat /\ Digit(a, i + 1) < Base
      /\ Upto(a, i) \in Nat
  BY <1>5, UptoFacts
<1>8. /\ Upto(b, i + 1) = Base * Upto(b, i) + Digit(b, i + 1)
      /\ Digit(b, i + 1) \in Nat /\ Digit(b, i + 1) < Base
      /\ Upto(b, i) \in Nat
  BY <1>5, UptoFacts
<1> DEFINE q == Upto(a, i)
           r == Digit(a, i + 1)
           x == Upto(b, i)
           y == Digit(b, i + 1)
<1>9. /\ q \in Nat /\ r \in Nat /\ r < Base
      /\ x \in Nat /\ y \in Nat /\ y < Base
      /\ Base * q + r = Base * x + y
  BY <1>6, <1>7, <1>8
<1>10. q # x
  OBVIOUS
<1> HIDE DEF q, r, x, y
<1>11. q = x
  BY <1>1, <1>9, OneDivision
<1> QED
  BY <1>10, <1>11

(* An instant is what it shows up to a place, followed by zeros, exactly   *)
(* when its digits behind that place are zeros.                            *)
LEMMA ZeroTail ==
  ASSUME NEW t \in Nat, NEW m \in 0..Places
  PROVE  t = Upto(t, m) * Base ^ (Places - m) <=>
           \A i \in (m + 1)..Places : Digit(t, i) = 0
<1> DEFINE W(i) == Upto(t, m) * Base ^ (i - m)
           Differ == {i \in 0..Places : m <= i /\ Upto(t, i) # W(i)}
<1>1. Places \in Nat /\ Base \in Nat \ {0} /\ m \in Nat /\ m <= Places
  BY TimestampAssumption
<1>2. Upto(t, m) \in Nat /\ t = Upto(t, Places)
  BY UptoFacts
<1>3. W(m) = Upto(t, m)
  <2>1. m - m = 0
    BY <1>1
  <2>2. Upto(t, m) * 1 = Upto(t, m)
    BY <1>2
  <2> QED
    BY <2>1, <2>2, TimestampAssumption
<1>4. ASSUME NEW i \in (m + 1)..Places
      PROVE  /\ W(i) = Base * W(i - 1) /\ W(i - 1) \in Nat
             /\ Upto(t, i) = Base * Upto(t, i - 1) + Digit(t, i)
             /\ Upto(t, i - 1) \in Nat
             /\ Digit(t, i) \in Nat /\ Digit(t, i) < Base
  <2>1. i \in 1..Places /\ i - 1 \in 0..Places
    BY <1>1
  <2>2. /\ Upto(t, i) = Base * Upto(t, i - 1) + Digit(t, i)
        /\ Upto(t, i - 1) \in Nat
        /\ Digit(t, i) \in Nat /\ Digit(t, i) < Base
    BY <2>1, UptoFacts
  <2> DEFINE x == Base ^ (i - m)
             y == Base ^ ((i - 1) - m)
             u == Upto(t, m)
  <2>3. i - m \in 1..Places /\ (i - m) - 1 = (i - 1) - m
        /\ (i - 1) - m \in 0..Places
    BY <1>1
  <2>4. x = Base * y /\ y \in Nat
    BY <2>3, PowerType, TimestampAssumption
  <2>5. u \in Nat
    BY <1>2
  <2> HIDE DEF x, y, u
  <2>6. u * x = Base * (u * y) /\ u * y \in Nat
    BY <1>1, <2>4, <2>5
  <2>7. W(i) = Base * W(i - 1) /\ W(i - 1) \in Nat
    BY <2>6 DEF x, y, u
  <2> QED
    BY <2>2, <2>7
<1>5. t = W(Places) <=> Upto(t, Places) = W(Places)
  BY <1>2
<1> HIDE DEF W
<1>6. ASSUME \A i \in (m + 1)..Places : Digit(t, i) = 0
      PROVE  Upto(t, Places) = W(Places)
  <2>1. SUFFICES ASSUME Differ # {} PROVE FALSE
    <3>1. Places \in 0..Places /\ m <= Places
      BY <1>1
    <3> QED
      BY <3>1
  <2>2. PICK i \in Differ : \A n \in Differ : i <= n
    <3>1. Differ \in SUBSET Nat
      BY <1>1
    <3> HIDE DEF Differ
    <3> QED
      BY <2>1, <3>1, LeastElement
  <2>3. i # m
    BY <1>3
  <2>4. /\ i \in (m + 1)..Places /\ i - 1 \in 0..Places /\ m <= i - 1
        /\ ~(i <= i - 1)
    BY <1>1, <2>3
  <2>5. Upto(t, i - 1) = W(i - 1)
    BY <2>2, <2>4
  <2>6. Upto(t, i) = Base * Upto(t, i - 1) + 0 /\ Upto(t, i - 1) \in Nat
    BY <1>4, <1>6, <2>4
  <2>7. Upto(t, i) = Base * W(i - 1)
    <3>1. Base * Upto(t, i - 1) \in Nat
      BY <1>1, <2>6
    <3> QED
      BY <2>5, <2>6, <3>1
  <2> QED
    BY <1>4, <2>2, <2>4, <2>7
<1>7. ASSUME Upto(t, Places) = W(Places), NEW i \in (m + 1)..Places
      PROVE  Digit(t, i) = 0
  <2>1. ASSUME NEW k \in (m + 1)..Places, Upto(t, k) = W(k)
        PROVE  Upto(t, k - 1) = W(k - 1) /\ Digit(t, k) = 0
    <3>1. Base * W(k - 1) + 0 = Base * W(k - 1)
      <4>1. W(k - 1) \in Nat
        BY <1>4
      <4> DEFINE w == W(k - 1)
      <4>2. w \in Nat
        BY <4>1
      <4> HIDE DEF w
      <4>3. Base * w + 0 = Base * w
        BY <1>1, <4>2
      <4> QED
        BY <4>3 DEF w
    <3>2. /\ Base * Upto(t, k - 1) + Digit(t, k) = Base * W(k - 1) + 0
          /\ Upto(t, k - 1) \in Nat /\ W(k - 1) \in Nat
          /\ Digit(t, k) \in Nat /\ Digit(t, k) < Base
          /\ 0 < Base
      BY <1>1, <1>4, <2>1, <3>1
    <3> DEFINE q == Upto(t, k - 1)
               x == W(k - 1)
               r == Digit(t, k)
    <3>3. /\ Base * q + r = Base * x + 0
          /\ q \in Nat /\ x \in Nat /\ r \in Nat /\ r < Base /\ 0 < Base
      BY <3>2
    <3> HIDE DEF q, x, r
    <3>4. q = x /\ r = 0
      BY <1>1, <3>3, OneDivision
    <3> QED
      BY <3>4 DEF q, x, r
  <2>2. Differ = {}
    <3> SUFFICES ASSUME Differ # {} PROVE FALSE
      OBVIOUS
    <3>1. PICK k \in Differ : \A n \in Differ : n <= k
      <4>1. Differ \in SUBSET (0..Places)
        OBVIOUS
      <4> HIDE DEF Differ
      <4> QED
        BY <1>1, <4>1, GreatestElement
    <3>2. k # Places
      BY <1>7
    <3>3. /\ k + 1 \in 0..Places /\ k + 1 \in (m + 1)..Places
          /\ m <= k + 1 /\ ~(k + 1 <= k) /\ (k + 1) - 1 = k
      BY <1>1, <3>2
    <3>4. Upto(t, k + 1) = W(k + 1)
      BY <3>1, <3>3
    <3>5. Upto(t, k) = W(k)
      BY <2>1, <3>3, <3>4
    <3> QED
      BY <3>1, <3>5
  <2>3. i \in 0..Places /\ m <= i
    BY <1>1
  <2>4. Upto(t, i) = W(i)
    BY <2>2, <2>3
  <2> QED
    BY <2>1, <2>4
<1>8. t = W(Places) <=> \A i \in (m + 1)..Places : Digit(t, i) = 0
  BY <1>5, <1>6, <1>7
<1> QED
  BY <1>8 DEF W

(* Shown is the place of the last digit that is not zero. *)
LEMMA ShownFacts ==
  ASSUME NEW t \in Nat
  PROVE  /\ Shown(t) \in 0..Places
         /\ Shown(t) # 0 => Digit(t, Shown(t)) # 0
         /\ \A i \in 1..Places : Digit(t, i) # 0 => i <= Shown(t)
<1> DEFINE nonzero == {k \in 1..Places : Digit(t, k) # 0}
<1>1. Places \in Nat /\ Shown(t) \in 0..Places
  BY ShownType, TimestampAssumption
<1>2. CASE nonzero = {}
  BY <1>1, <1>2 DEF Shown
<1>3. CASE nonzero # {}
  <2>1. nonzero \in SUBSET (0..Places)
    BY <1>1
  <2>2. Shown(t) = CHOOSE k \in nonzero : \A n \in nonzero : n <= k
    BY <1>3 DEF Shown
  <2>3. \E k \in nonzero : \A n \in nonzero : n <= k
    <3> HIDE DEF nonzero
    <3> QED
      BY <1>1, <1>3, <2>1, GreatestElement
  <2>4. Shown(t) \in nonzero /\ \A n \in nonzero : n <= Shown(t)
    <3> HIDE DEF nonzero
    <3> QED
      BY <2>2, <2>3
  <2> QED
    BY <1>1, <2>4
<1> QED
  BY <1>2, <1>3
(* What a text has at each position: the seconds, then the point and the   *)
(* digits that are shown, then the Z. *)
LEMMA TextAt ==
  ASSUME NEW t \in Nat
  PROVE  /\ Text(t)[1] = Upto(t, 0)
         /\ Shown(t) = 0 => Len(Text(t)) = 2 /\ Text(t)[2] = Zulu
         /\ Shown(t) # 0 =>
              /\ Len(Text(t)) = Shown(t) + 3
              /\ Text(t)[2] = Point
              /\ \A i \in 1..Shown(t) : Text(t)[i + 2] = Numeral(Digit(t, i))
              /\ Text(t)[Shown(t) + 3] = Zulu
<1> DEFINE seconds == t \div PerSecond
           digits == [k \in 1..Shown(t) |-> Numeral(Digit(t, k))]
           n == Shown(t)
<1>1. n \in Nat
  BY ShownType, TimestampAssumption
<1>2. seconds \in Nat /\ seconds = Upto(t, 0)
  <2>1. 0 \in 0..Places
    BY TimestampAssumption
  <2> QED
    BY <2>1, UptoFacts
<1>3. /\ digits \in Seq(Nat) /\ Len(digits) = n
      /\ \A i \in 1..n : digits[i] = Numeral(Digit(t, i))
  <2>1. ASSUME NEW i \in 1..n PROVE Numeral(Digit(t, i)) \in Nat
    <3>1. i \in 1..Places
      BY ShownType, TimestampAssumption
    <3> QED
      BY <3>1, DigitType DEF Numeral
  <2> QED
    BY <1>1, <2>1
<1>4. CASE n = 0
  <2>1. Text(t) = <<seconds>> \o <<>> \o <<Zulu>>
    BY <1>4 DEF Text
  <2> HIDE DEF seconds
  <2>2. <<seconds>> \o <<>> = <<seconds>>
    OBVIOUS
  <2> DEFINE first == <<seconds>>
             last == <<Zulu>>
  <2>3. Zulu \in Nat
    BY TimestampAssumption DEF Zulu
  <2>4. /\ first \in Seq(Nat) /\ Len(first) = 1 /\ first[1] = seconds
        /\ last \in Seq(Nat) /\ Len(last) = 1 /\ last[1] = Zulu
    BY <1>2, <2>3
  <2>5. Text(t) = first \o last
    BY <2>1, <2>2
  <2> HIDE DEF first, last
  <2>6. /\ Len(first \o last) = 2
        /\ (first \o last)[1] = seconds /\ (first \o last)[2] = Zulu
    <3>1. /\ Len(first \o last) = Len(first) + Len(last)
          /\ \A i \in 1..Len(first) + Len(last) :
               (first \o last)[i] = IF i <= Len(first) THEN first[i]
                                   ELSE last[i - Len(first)]
      BY <2>4, ConcatProperties
    <3>2. 1 \in 1..1 + 1 /\ 2 \in 1..1 + 1 /\ ~(2 <= 1) /\ 2 - 1 = 1
      OBVIOUS
    <3> QED
      BY <2>4, <3>1, <3>2
  <2> QED
    BY <1>2, <1>4, <2>5, <2>6
<1>5. CASE n # 0
  <2>1. Text(t) = <<seconds>> \o (<<Point>> \o digits) \o <<Zulu>>
    BY <1>5 DEF Text
  <2>2. Zulu \in Nat /\ Point \in Nat
    BY TimestampAssumption DEF Zulu, Point
  <2> HIDE DEF digits, seconds, n
  <2> DEFINE fraction == <<Point>> \o digits
  <2>3. /\ fraction \in Seq(Nat) /\ Len(fraction) = n + 1
        /\ fraction[1] = Point
        /\ \A i \in 1..n : fraction[i + 1] = digits[i]
    BY <1>1, <1>3, <2>2
  <2> DEFINE front == <<seconds>> \o fraction
  <2> HIDE DEF fraction
  <2>4. /\ front \in Seq(Nat) /\ Len(front) = n + 2
        /\ front[1] = seconds /\ front[2] = Point
        /\ \A i \in 1..n : front[i + 2] = digits[i]
    <3>1. /\ front \in Seq(Nat) /\ Len(front) = n + 2
          /\ front[1] = seconds
      BY <1>1, <1>2, <2>3
    <3>2. \A k \in 1..(n + 1) : front[k + 1] = fraction[k]
      BY <1>1, <1>2, <2>3
    <3>3. front[2] = Point
      BY <1>1, <2>3, <3>2
    <3>4. ASSUME NEW i \in 1..n PROVE front[i + 2] = digits[i]
      <4>1. i + 1 \in 1..(n + 1) /\ (i + 1) + 1 = i + 2
        BY <1>1
      <4> QED
        BY <2>3, <3>2, <4>1
    <3> QED
      BY <3>1, <3>3, <3>4
  <2>5. Text(t) = front \o <<Zulu>>
    BY <2>1 DEF fraction
  <2> HIDE DEF front
  <2>6. /\ Len(Text(t)) = n + 3 /\ Text(t)[n + 3] = Zulu
        /\ \A k \in 1..(n + 2) : Text(t)[k] = front[k]
    BY <1>1, <2>2, <2>4, <2>5
  <2>7. /\ Text(t)[1] = seconds /\ Text(t)[2] = Point
        /\ \A i \in 1..n : Text(t)[i + 2] = digits[i]
    <3>1. 1 \in 1..(n + 2) /\ 2 \in 1..(n + 2)
      BY <1>1
    <3>2. \A i \in 1..n : i + 2 \in 1..(n + 2)
      BY <1>1
    <3> QED
      BY <2>4, <2>6, <3>1, <3>2
  <2> QED
    BY <1>2, <1>3, <1>5, <2>6, <2>7 DEF n
<1> QED
  BY <1>4, <1>5

(* At most one of two texts comes first, and then they differ. *)
LEMMA TextsOneWay ==
  ASSUME NEW a \in Nat, NEW b \in Nat, TextLess(a, b)
  PROVE  ~TextLess(b, a) /\ Text(a) # Text(b)
<1>1. PICK n \in 1..Len(Text(a)) :
        /\ n <= Len(Text(b))
        /\ \A m \in 1..n - 1 : Text(a)[m] = Text(b)[m]
        /\ Text(a)[n] < Text(b)[n]
  BY DEF TextLess
<1>2. /\ Text(a) \in Seq(Nat) /\ Len(Text(a)) \in Nat
      /\ Text(b) \in Seq(Nat) /\ Len(Text(b)) \in Nat
  BY TextShape
<1>3. /\ \A k \in 1..Len(Text(a)) : Text(a)[k] \in Nat
      /\ \A k \in 1..Len(Text(b)) : Text(b)[k] \in Nat
  BY <1>2, ElementOfSeq
<1>4. n \in Nat /\ n \in 1..Len(Text(b))
  BY <1>1, <1>2
<1>5. Text(a)[n] # Text(b)[n] /\ ~(Text(b)[n] < Text(a)[n])
  BY <1>1, <1>3, <1>4
<1>6. ASSUME TextLess(b, a) PROVE FALSE
  <2>1. PICK k \in 1..Len(Text(b)) :
          /\ k <= Len(Text(a))
          /\ \A m \in 1..k - 1 : Text(b)[m] = Text(a)[m]
          /\ Text(b)[k] < Text(a)[k]
    BY <1>6 DEF TextLess
  <2>2. k \in Nat /\ k \in 1..Len(Text(a))
    BY <1>2, <2>1
  <2>3. Text(a)[k] # Text(b)[k]
    BY <1>3, <2>1, <2>2
  <2>4. ~(k < n)
    <3>1. k < n => k \in 1..n - 1
      BY <1>4, <2>2
    <3> QED
      BY <1>1, <2>3, <3>1
  <2>5. ~(n < k)
    <3>1. n < k => n \in 1..k - 1
      BY <1>4, <2>2
    <3> QED
      BY <1>5, <2>1, <3>1
  <2>6. n = k
    BY <1>4, <2>2, <2>4, <2>5
  <2> QED
    BY <1>5, <2>1, <2>6
<1> QED
  BY <1>5, <1>6

(* Of two instants, the later one's text comes first exactly when the      *)
(* earlier one is the later one with its last digits cut off: the place    *)
(* where the digits first differ is not shown of the earlier one.          *)
LEMMA TextsAndTimes ==
  ASSUME NEW a \in Nat, NEW b \in Nat, a < b
  PROVE  /\ Text(a) # Text(b)
         /\ TextLess(b, a) <=> CutOff(a, b)
<1> USE DEF CutOff
<1> DEFINE Cut == CutOff(a, b)
           Bad == {i \in 0..Places : Upto(a, i) # Upto(b, i)}
<1>1. Places \in Nat /\ Base \in Nat \ {0} /\ Zulu \in Nat /\ Point \in Nat
      /\ Point < Zulu
  BY TimestampAssumption DEF Zulu, Point
<1>2. PICK j \in Bad : \A i \in Bad : j <= i
  <2>1. Upto(a, Places) # Upto(b, Places)
    BY UptoFacts
  <2>2. Places \in Bad
    BY <1>1, <2>1
  <2>3. Bad \in SUBSET Nat /\ Bad # {}
    BY <1>1, <2>2
  <2> HIDE DEF Bad
  <2> QED
    BY <2>3, LeastElement
<1>3. /\ j \in 0..Places /\ j \in Nat /\ j <= Places
      /\ Upto(a, j) # Upto(b, j)
  BY <1>1
<1>4. \A i \in 0..Places : i < j => Upto(a, i) = Upto(b, i)
  <2> TAKE i \in 0..Places
  <2>1. i < j => ~(j <= i)
    BY <1>1, <1>3
  <2> QED
    BY <1>2, <2>1
<1> HIDE DEF Bad
<1>5. Upto(a, j) < Upto(b, j) /\ Upto(a, j) \in Nat /\ Upto(b, j) \in Nat
  <2> DEFINE unit == Base ^ (Places - j)
  <2>1. unit \in Nat \ {0}
    <3>1. Places - j \in 0..Places
      BY <1>1, <1>3
    <3> QED
      BY <3>1, PowerType
  <2> HIDE DEF unit
  <2>2. a \div unit <= b \div unit
    BY <2>1, DivisionGrows
  <2>3. Upto(a, j) <= Upto(b, j)
    BY <2>2 DEF Upto, unit
  <2>4. Upto(a, j) \in Nat /\ Upto(b, j) \in Nat
    BY <1>3, UptoFacts
  <2> QED
    BY <1>3, <2>3, <2>4
<1>6. /\ Text(a) \in Seq(Nat) /\ Len(Text(a)) \in Nat /\ Len(Text(a)) >= 2
      /\ Text(b) \in Seq(Nat) /\ Len(Text(b)) \in Nat /\ Len(Text(b)) >= 2
  BY TextShape
<1>7. /\ Shown(a) \in Nat /\ Shown(a) <= Places
      /\ Shown(b) \in Nat /\ Shown(b) <= Places
  <2>1. Shown(a) \in 0..Places /\ Shown(b) \in 0..Places
    BY ShownType
  <2> QED
    BY <1>1, <2>1
(* A cut leaves a as it is up to the cut and zeros behind it. *)
<1>8. ASSUME NEW k \in 1..Places, (b \div Base ^ k) * Base ^ k = a
      PROVE  /\ Places - k \in 0..Places /\ Places - k < j
             /\ \A i \in (Places - k + 1)..Places : Digit(a, i) = 0
  <2> DEFINE m == Places - k
             unit == Base ^ k
             q == b \div unit
  <2>1. m \in 0..Places /\ Places - m = k /\ k \in 0..Places /\ m \in Nat
    BY <1>1
  <2>2. unit \in Nat \ {0}
    BY <2>1, PowerType
  <2>3. Upto(a, m) = a \div unit /\ Upto(b, m) = q
    BY <2>1 DEF Upto
  <2>4. q * unit = a
    BY <1>8
  <2>5. q \in Nat
    <3> HIDE DEF unit
    <3> QED
      BY <2>2, Division
  <2> HIDE DEF unit, q
  <2>6. a = unit * q + 0 /\ 0 < unit
    <3>1. q * unit = unit * q /\ unit * q \in Nat
      BY <2>2, <2>5
    <3> QED
      BY <2>2, <2>4, <3>1
  <2>7. a \div unit = q
    BY <2>2, <2>5, <2>6, QuotientIs
  <2>8. Upto(a, m) = Upto(b, m)
    BY <2>3, <2>7
  <2>9. a = Upto(a, m) * Base ^ (Places - m)
    BY <2>1, <2>3, <2>4, <2>7 DEF unit
  <2> HIDE DEF m
  <2>10. m < j
    <3>1. ~(j <= m)
      <4>1. j <= m => j \in 0..m
        BY <1>3, <2>1
      <4> QED
        BY <1>3, <2>1, <2>8, <4>1, UptoSame
    <3> QED
      BY <1>3, <2>1, <3>1
  <2>11. \A i \in (m + 1)..Places : Digit(a, i) = 0
    BY <2>1, <2>9, ZeroTail
  <2> QED
    BY <2>1, <2>10, <2>11 DEF m
(* The texts agree up to the first difference of the digits. *)
<1>9. Text(a)[1] = Upto(a, 0) /\ Text(b)[1] = Upto(b, 0)
  BY TextAt
<1>10. CASE j = 0
  <2>1. TextLess(a, b)
    <3>1. Text(a)[1] < Text(b)[1]
      BY <1>5, <1>9, <1>10
    <3>2. 1 \in 1..Len(Text(a)) /\ 1 <= Len(Text(b))
      BY <1>6
    <3>3. \A m \in 1..1 - 1 : Text(a)[m] = Text(b)[m]
      OBVIOUS
    <3> QED
      BY <3>1, <3>2, <3>3 DEF TextLess
  <2>2. ~Cut
    <3>1. ASSUME NEW k \in 1..Places, (b \div Base ^ k) * Base ^ k = a
          PROVE  FALSE
      <4>1. Places - k \in 0..Places /\ Places - k < 0
        BY <1>8, <1>10, <3>1
      <4> QED
        BY <1>1, <4>1
    <3> QED
      BY <3>1
  <2> QED
    BY <2>1, <2>2, TextsOneWay
<1>11. CASE j # 0
  <2>1. /\ j \in 1..Places /\ j - 1 \in 0..Places /\ j - 1 < j
        /\ 0 \in 0..Places /\ 0 < j
    BY <1>1, <1>3, <1>11
  <2>2. Text(a)[1] = Text(b)[1]
    BY <1>4, <1>9, <2>1
  <2>3. \A i \in 1..(j - 1) : Digit(a, i) = Digit(b, i)
    <3> TAKE i \in 1..(j - 1)
    <3>1. i \in 1..Places /\ i \in 0..Places /\ i < j
      BY <1>1, <1>3, <2>1
    <3> QED
      BY <1>4, <3>1, UptoFacts
  <2>4. Digit(a, j) < Digit(b, j) /\ Digit(a, j) \in Nat /\ Digit(b, j) \in Nat
    <3> DEFINE q == Upto(a, j - 1)
               x == Upto(b, j - 1)
               r == Digit(a, j)
               y == Digit(b, j)
    <3>1. q = x
      BY <1>4, <2>1
    <3>2. /\ Upto(a, j) = Base * q + r /\ r \in Nat
          /\ Upto(b, j) = Base * x + y /\ y \in Nat
          /\ q \in Nat
      BY <2>1, UptoFacts
    <3> HIDE DEF q, x, r, y
    <3>3. Base * q \in Nat
      BY <1>1, <3>2
    <3>4. r < y
      BY <1>5, <3>1, <3>2, <3>3
    <3> QED
      BY <3>2, <3>4 DEF r, y
  <2>5. Shown(b) >= j
    BY <2>1, <2>4, ShownFacts
  <2>6. /\ Len(Text(b)) = Shown(b) + 3 /\ Text(b)[2] = Point
        /\ \A i \in 1..Shown(b) : Text(b)[i + 2] = Numeral(Digit(b, i))
    <3>1. Shown(b) # 0
      BY <1>7, <2>1, <2>5
    <3> QED
      BY <3>1, TextAt
  <2>7. CASE Shown(a) >= j
    <3>1. /\ Len(Text(a)) = Shown(a) + 3 /\ Text(a)[2] = Point
          /\ \A i \in 1..Shown(a) : Text(a)[i + 2] = Numeral(Digit(a, i))
      <4>1. Shown(a) # 0
        BY <1>7, <2>1, <2>7
      <4> QED
        BY <4>1, TextAt
    <3>2. /\ j + 2 \in 1..Len(Text(a)) /\ j + 2 <= Len(Text(b))
          /\ j \in 1..Shown(a) /\ j \in 1..Shown(b)
      BY <1>3, <1>7, <2>1, <2>5, <2>6, <2>7, <3>1
    <3>3. Text(a)[j + 2] < Text(b)[j + 2]
      BY <2>4, <2>6, <3>1, <3>2 DEF Numeral
    <3>4. ASSUME NEW m \in 1..(j + 2) - 1 PROVE Text(a)[m] = Text(b)[m]
      <4>1. CASE m = 1
        BY <2>2, <4>1
      <4>2. CASE m = 2
        BY <2>6, <3>1, <4>2
      <4>3. CASE m # 1 /\ m # 2
        <5>1. /\ m - 2 \in 1..(j - 1) /\ (m - 2) + 2 = m
              /\ m - 2 \in 1..Shown(a) /\ m - 2 \in 1..Shown(b)
          BY <1>3, <1>7, <2>1, <2>5, <2>7, <4>3
        <5> QED
          BY <2>3, <2>6, <3>1, <5>1
      <4> QED
        BY <4>1, <4>2, <4>3
    <3>5. TextLess(a, b)
      BY <3>2, <3>3, <3>4 DEF TextLess
    <3>6. ~Cut
      <4>1. ASSUME NEW k \in 1..Places, (b \div Base ^ k) * Base ^ k = a
            PROVE  FALSE
        <5>1. /\ Places - k \in 0..Places /\ Places - k < j
              /\ \A i \in (Places - k + 1)..Places : Digit(a, i) = 0
          BY <1>8, <4>1
        <5>2. Shown(a) \in (Places - k + 1)..Places /\ Shown(a) # 0
          BY <1>1, <1>3, <1>7, <2>1, <2>7, <5>1
        <5>3. Digit(a, Shown(a)) # 0
          BY <5>2, ShownFacts
        <5> QED
          BY <5>1, <5>2, <5>3
      <4> QED
        BY <4>1
    <3> QED
      BY <3>5, <3>6, TextsOneWay
  <2>8. CASE ~(Shown(a) >= j)
    <3>1. Shown(a) < j /\ Shown(a) < Shown(b)
      BY <1>3, <1>7, <2>5, <2>8
    <3> DEFINE n == IF Shown(a) = 0 THEN 2 ELSE Shown(a) + 3
    <3>2. n = Len(Text(a)) /\ Text(a)[n] = Zulu
      BY TextAt
    <3>3. n \in 1..Len(Text(b)) /\ n <= Len(Text(a))
          /\ n \in 2..(Len(Text(b)) - 1)
      <4>1. n \in Nat /\ 2 <= n /\ n <= Shown(b) + 2
        BY <1>7, <3>1
      <4> HIDE DEF n
      <4> QED
        BY <1>7, <2>6, <3>2, <4>1
    <3>4. Text(b)[n] < Text(a)[n]
      BY <3>2, <3>3, TextShape
    <3>5. ASSUME NEW m \in 1..n - 1 PROVE Text(b)[m] = Text(a)[m]
      <4>1. CASE m = 1
        BY <2>2, <4>1
      <4>2. CASE m # 1
        <5>1. Shown(a) # 0 /\ m \in 2..(Shown(a) + 2)
          BY <1>7, <4>2
        <5>2. /\ Text(a)[2] = Point
              /\ \A i \in 1..Shown(a) : Text(a)[i + 2] = Numeral(Digit(a, i))
          BY <5>1, TextAt
        <5>3. CASE m = 2
          BY <2>6, <5>2, <5>3
        <5>4. CASE m # 2
          <6>1. /\ m - 2 \in 1..(j - 1) /\ (m - 2) + 2 = m
                /\ m - 2 \in 1..Shown(a) /\ m - 2 \in 1..Shown(b)
            BY <1>3, <1>7, <3>1, <5>1, <5>4
          <6> QED
            BY <2>3, <2>6, <5>2, <6>1
        <5> QED
          BY <5>3, <5>4
      <4> QED
        BY <4>1, <4>2
    <3>6. TextLess(b, a)
      <4> HIDE DEF n
      <4> QED
        BY <3>3, <3>4, <3>5 DEF TextLess
    <3>7. Cut
      <4>1. Places - (j - 1) \in 1..Places
        BY <1>1, <2>1
      <4>2. \A i \in ((j - 1) + 1)..Places : Digit(a, i) = 0
        <5> TAKE i \in ((j - 1) + 1)..Places
        <5>1. i \in 1..Places /\ ~(i <= Shown(a))
          BY <1>1, <1>3, <1>7, <2>1, <3>1
        <5> QED
          BY <5>1, ShownFacts
      <4>3. a = Upto(a, j - 1) * Base ^ (Places - (j - 1))
        BY <2>1, <4>2, ZeroTail
      <4>4. Upto(a, j - 1) = b \div Base ^ (Places - (j - 1))
        BY <1>4, <2>1 DEF Upto
      <4> QED
        BY <4>1, <4>3, <4>4
    <3> QED
      BY <3>6, <3>7, TextsOneWay
  <2> QED
    BY <2>7, <2>8
<1> QED
  BY <1>10, <1>11

(* Times that are a second or more apart are in order as texts: the digits *)
(* that are cut off are less than a second.                                *)
THEOREM TextsSettle ==
  ASSUME NEW a \in Nat, NEW b \in Nat, a + PerSecond <= b
  PROVE  TextLess(a, b) /\ ~CutOff(a, b)
<1> DEFINE q == a \div PerSecond
           r == a % PerSecond
           x == b \div PerSecond
<1>1. PerSecond \in Nat \ {0}
  BY PowerType, TimestampAssumption DEF PerSecond
<1>2. /\ q \in Nat /\ r \in Nat /\ r < PerSecond /\ a = PerSecond * q + r
      /\ x \in Nat
  <2> HIDE DEF q, r, x
  <2> QED
    BY <1>1, Division DEF q, r, x
<1>3. q < x
  <2>1. (a + PerSecond) \div PerSecond <= x
    BY <1>1, DivisionGrows
  <2>2. (a + PerSecond) \div PerSecond = q + 1
    <3> HIDE DEF q, r
    <3>1. PerSecond * (q + 1) = PerSecond * q + PerSecond
      BY <1>1, <1>2
    <3>2. PerSecond * q \in Nat
      BY <1>1, <1>2
    <3>3. a + PerSecond = PerSecond * (q + 1) + r
      BY <1>1, <1>2, <3>1, <3>2
    <3> QED
      BY <1>1, <1>2, <3>3, QuotientIs
  <2> HIDE DEF q, x
  <2> QED
    BY <1>2, <2>1, <2>2
<1>4. Text(a)[1] = q /\ Text(b)[1] = x
  BY TextAt, UptoFacts
<1>5. TextLess(a, b)
  <2>0. /\ Len(Text(a)) \in Nat /\ Len(Text(a)) >= 2
        /\ Len(Text(b)) \in Nat /\ Len(Text(b)) >= 2
    BY TextShape
  <2>1. 1 \in 1..Len(Text(a)) /\ 1 <= Len(Text(b))
    BY <2>0
  <2>2. \A m \in 1..1 - 1 : Text(a)[m] = Text(b)[m]
    OBVIOUS
  <2> HIDE DEF q, x
  <2> QED
    BY <1>3, <1>4, <2>1, <2>2 DEF TextLess
<1>6. a < b
  BY <1>1
<1> QED
  BY <1>5, <1>6, TextsOneWay, TextsAndTimes
=============================================================================
