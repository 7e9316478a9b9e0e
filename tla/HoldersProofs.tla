---------------------------- MODULE HoldersProofs ---------------------------
(***************************************************************************)
(* Proofs about Holders, TypeContext and Chrono.  For counts and units of  *)
(* any size, the parts of a duration or a time point add up to it, in the  *)
(* text, in the children that keep it and in those that read it again.     *)
(* For any code model, a type is found by its name if its parts can be.    *)
(* What is shown of a holder the library has left alone is what the        *)
(* program has stored in it, kind by kind.                                 *)
(***************************************************************************)
EXTENDS Holders, NumberLemmas

-----------------------------------------------------------------------------
(* Division towards zero *)

(* Between zero and s, on the same side *)
Within(x, s) == (0 <= x /\ x <= s) \/ (s <= x /\ x <= 0)

(* The multiple of b next to a, on the way to zero *)
IsQuotient(q, a, b) ==
    /\ a >= 0 => 0 <= b * q /\ b * q <= a /\ a < b * q + b
    /\ a <= 0 => a <= b * q /\ b * q <= 0 /\ b * q - b < a

(* What the division of a count leaves out is less than the divisor *)
LEMMA QuotientIs ==
  ASSUME NEW a \in Int, NEW b \in Nat \ {0}
  PROVE  Quotient(a, b) \in Int /\ IsQuotient(Quotient(a, b), a, b)
<1>1. CASE a >= 0
  <2> DEFINE d == a \div b
             r == a % b
  <2>1. a \in Nat
    BY <1>1
  <2>2. d \in Nat /\ r \in Nat /\ r < b /\ a = b * d + r
    BY <2>1, Divided
  <2>3. Quotient(a, b) = d
    BY <1>1 DEF Quotient
  <2>4. a = 0 => d = 0
    BY <2>1, Divided
  <2> HIDE DEF d, r
  <2>5. b * d \in Nat /\ (d = 0 => b * d = 0)
    BY <2>2
  <2>6. IsQuotient(d, a, b)
    BY <1>1, <2>1, <2>2, <2>4, <2>5 DEF IsQuotient
  <2>7. QED
    BY <2>2, <2>3, <2>6
<1>2. CASE a < 0
  <2> DEFINE d == (-a) \div b
             r == (-a) % b
  <2>1. -a \in Nat
    BY <1>2
  <2>2. d \in Nat /\ r \in Nat /\ r < b /\ -a = b * d + r
    BY <2>1, Divided
  <2>3. Quotient(a, b) = -d
    BY <1>2 DEF Quotient
  <2> HIDE DEF d, r
  <2>4. b * d \in Nat /\ b * (-d) = -(b * d)
    BY <2>2
  <2>5. IsQuotient(-d, a, b)
    BY <1>2, <2>1, <2>2, <2>4 DEF IsQuotient
  <2>6. -d \in Int
    BY <2>2
  <2>7. QED
    BY <2>3, <2>5, <2>6
<1>3. QED
  BY <1>1, <1>2

(* A multiple of b that is less than b is zero *)
LEMMA SmallMultiple ==
  ASSUME NEW b \in Nat \ {0}, NEW k \in Int, -b < b * k, b * k < b
  PROVE  k = 0
<1>1. CASE k >= 1
  <2>1. b * (k - 1) \in Nat
    BY <1>1
  <2>2. b * (k - 1) = b * k - b /\ b * k \in Int
    OBVIOUS
  <2>3. QED
    BY <2>1, <2>2
<1>2. CASE k <= -1
  <2>1. -1 - k \in Nat
    BY <1>2
  <2>2. b * (-1 - k) \in Nat
    BY <2>1
  <2>3. b * (-1 - k) = -b - b * k /\ b * k \in Int
    OBVIOUS
  <2>4. QED
    BY <2>2, <2>3
<1>3. QED
  BY <1>1, <1>2

(* There is one such multiple *)
LEMMA QuotientOnce ==
  ASSUME NEW a \in Int, NEW b \in Nat \ {0}, NEW q \in Int, IsQuotient(q, a, b)
  PROVE  Quotient(a, b) = q
<1> DEFINE p == Quotient(a, b)
<1>1. p \in Int /\ IsQuotient(p, a, b)
  BY QuotientIs
<1> HIDE DEF p
<1>2. b * (p - q) = b * p - b * q /\ b * p \in Int /\ b * q \in Int
  BY <1>1
<1>3. -b < b * (p - q) /\ b * (p - q) < b
  BY <1>1, <1>2 DEF IsQuotient
<1>4. p - q = 0
  <2>1. p - q \in Int
    BY <1>1
  <2>2. QED
    BY <1>3, <2>1, SmallMultiple
<1>5. p = q
  BY <1>1, <1>4
<1>6. QED
  BY <1>5 DEF p

(* Multiples are divided without a remainder *)
LEMMA QuotientExact ==
  ASSUME NEW b \in Nat \ {0}, NEW q \in Int
  PROVE  Quotient(b * q, b) = q
<1>1. b * q \in Int
  OBVIOUS
<1>2. IsQuotient(q, b * q, b)
  BY <1>1 DEF IsQuotient
<1>3. QED
  BY <1>1, <1>2, QuotientOnce

(* Multiples are in the order of what they are multiples of *)
LEMMA Stretched ==
  ASSUME NEW k \in Nat \ {0}, NEW x \in Int, NEW y \in Int
  PROVE  (x <= y => k * x <= k * y) /\ (x < y => k * x < k * y)
<1>1. k * (y - x) = k * y - k * x /\ k * x \in Int /\ k * y \in Int
  OBVIOUS
<1>2. x <= y => k * (y - x) \in Nat
  <2>1. x <= y => y - x \in Nat
    OBVIOUS
  <2>2. QED
    BY <2>1
<1>3. x < y => k * (y - x) \in Nat \ {0}
  <2>1. x < y => y - x \in Nat \ {0}
    OBVIOUS
  <2>2. QED
    BY <2>1
<1>4. QED
  BY <1>1, <1>2, <1>3

(* A common factor makes no difference *)
LEMMA QuotientScaled ==
  ASSUME NEW a \in Int, NEW b \in Nat \ {0}, NEW k \in Nat \ {0}
  PROVE  Quotient(k * a, k * b) = Quotient(a, b)
<1> DEFINE q == Quotient(a, b)
           m == b * q
<1>1. q \in Int /\ IsQuotient(q, a, b)
  BY QuotientIs
<1> HIDE DEF q
<1>2. m \in Int
  BY <1>1
<1>3. (k * b) * q = k * m /\ k * m \in Int /\ k * a \in Int /\ k * b \in Nat \ {0}
  BY <1>1
<1>4. /\ a >= 0 => 0 <= m /\ m <= a /\ a < m + b
      /\ a <= 0 => a <= m /\ m <= 0 /\ m - b < a
  BY <1>1 DEF IsQuotient
<1> HIDE DEF m
<1>6. a >= 0 => 0 <= k * m /\ k * m <= k * a /\ k * a < k * m + k * b
  <2>1. a >= 0 => k * 0 <= k * m /\ k * m <= k * a /\ k * a < k * (m + b)
    <3>1. m + b \in Int
      BY <1>2
    <3>2. QED
      BY <1>2, <1>4, <3>1, Stretched
  <2>2. k * 0 = 0 /\ k * (m + b) = k * m + k * b
    BY <1>2
  <2>3. QED
    BY <2>1, <2>2
<1>7. a <= 0 => k * a <= k * m /\ k * m <= 0 /\ k * m - k * b < k * a
  <2>1. a <= 0 => k * a <= k * m /\ k * m <= k * 0 /\ k * (m - b) < k * a
    <3>1. m - b \in Int
      BY <1>2
    <3>2. QED
      BY <1>2, <1>4, <3>1, Stretched
  <2>2. k * 0 = 0 /\ k * (m - b) = k * m - k * b
    BY <1>2
  <2>3. QED
    BY <2>1, <2>2
<1>8. (k * a >= 0 => a >= 0) /\ (k * a <= 0 => a <= 0)
  <2>1. a < 0 => k * a < k * 0
    BY Stretched
  <2>2. a > 0 => k * 0 < k * a
    BY Stretched
  <2>3. k * 0 = 0 /\ k * a \in Int
    OBVIOUS
  <2>4. QED
    BY <2>1, <2>2, <2>3
<1>9. IsQuotient(q, k * a, k * b)
  <2> DEFINE ka == k * a
             kb == k * b
  <2>1. kb * q = k * m
    BY <1>3
  <2>2. ka >= 0 => a >= 0 /\ (ka <= 0 => a <= 0)
    BY <1>8
  <2>3. QED
    BY <1>3, <1>6, <1>7, <1>8 DEF IsQuotient
<1>10. QED
  BY <1>1, <1>3, <1>9, QuotientOnce DEF q

(* Dividing twice is dividing by the product *)
LEMMA QuotientTwice ==
  ASSUME NEW a \in Int, NEW b \in Nat \ {0}, NEW k \in Nat \ {0}
  PROVE  Quotient(Quotient(a, b), k) = Quotient(a, b * k)
<1> DEFINE q == Quotient(a, b)
           p == Quotient(q, k)
           m == k * p
<1>1. q \in Int /\ IsQuotient(q, a, b)
  BY QuotientIs
<1> HIDE DEF q
<1>2. p \in Int /\ IsQuotient(p, q, k)
  BY <1>1, QuotientIs
<1> HIDE DEF p
<1>3. m \in Int /\ b * k \in Nat \ {0} /\ (b * k) * p = b * m /\ b * m \in Int /\ b * q \in Int
  BY <1>1, <1>2
<1>4. /\ q >= 0 => 0 <= m /\ m <= q /\ q + 1 <= m + k
      /\ q <= 0 => q <= m /\ m <= 0 /\ m - k <= q - 1
  BY <1>1, <1>2, <1>3 DEF IsQuotient
<1> HIDE DEF m
<1>5. b * 0 = 0 /\ b * (q + 1) = b * q + b /\ b * (q - 1) = b * q - b
      /\ b * (m + k) = b * m + b * k /\ b * (m - k) = b * m - b * k
  BY <1>1, <1>3
<1>6. ASSUME a >= 0 PROVE 0 <= b * m /\ b * m <= a /\ a < b * m + b * k
  <2>1. q >= 0
    <3>1. q < 0 => b * q < b * 0
      BY <1>1, Stretched
    <3>2. QED
      BY <1>1, <1>5, <1>6, <3>1 DEF IsQuotient
  <2>2. b * 0 <= b * m /\ b * m <= b * q
    BY <1>1, <1>3, <1>4, <2>1, Stretched
  <2>3. b * (q + 1) <= b * (m + k)
    <3>1. q + 1 \in Int /\ m + k \in Int
      BY <1>1, <1>3
    <3>2. QED
      BY <1>4, <2>1, <3>1, Stretched
  <2>4. b * q <= a /\ a < b * q + b
    BY <1>1, <1>6 DEF IsQuotient
  <2>5. QED
    BY <1>3, <1>5, <2>2, <2>3, <2>4
<1>7. ASSUME a <= 0 PROVE a <= b * m /\ b * m <= 0 /\ b * m - b * k < a
  <2>1. q <= 0
    <3>1. q > 0 => b * 0 < b * q
      BY <1>1, Stretched
    <3>2. QED
      BY <1>1, <1>5, <1>7, <3>1 DEF IsQuotient
  <2>2. b * m <= b * 0 /\ b * q <= b * m
    BY <1>1, <1>3, <1>4, <2>1, Stretched
  <2>3. b * (m - k) <= b * (q - 1)
    <3>1. q - 1 \in Int /\ m - k \in Int
      BY <1>1, <1>3
    <3>2. QED
      BY <1>4, <2>1, <3>1, Stretched
  <2>4. a <= b * q /\ b * q - b < a
    BY <1>1, <1>7 DEF IsQuotient
  <2>5. QED
    BY <1>3, <1>5, <2>2, <2>3, <2>4
<1>8. IsQuotient(p, a, b * k)
  <2> DEFINE bk == b * k
  <2>1. bk * p = b * m
    BY <1>3
  <2>2. QED
    BY <1>6, <1>7, <2>1 DEF IsQuotient
<1>9. Quotient(a, b * k) = p
  BY <1>2, <1>3, <1>8, QuotientOnce
<1>10. QED
  BY <1>9 DEF p, q

(* The quotient of what is nearer to zero is nearer to zero, *)
(* and so is what a quotient stands for                      *)
LEMMA QuotientWithin ==
  ASSUME NEW a \in Int, NEW c \in Int, NEW b \in Nat \ {0}, Within(a, c)
  PROVE  /\ Within(Quotient(a, b), Quotient(c, b))
         /\ Within(b * Quotient(c, b), c) /\ Within(Quotient(c, b), c)
<1> DEFINE q == Quotient(a, b)
           p == Quotient(c, b)
<1>1. q \in Int /\ p \in Int /\ IsQuotient(q, a, b) /\ IsQuotient(p, c, b)
  BY QuotientIs
<1> HIDE DEF p, q
<1>2. b * q \in Int /\ b * p \in Int /\ b * 0 = 0 /\ b * (q + 1) = b * q + b /\ b * (p + 1) = b * p + b
  BY <1>1
<1>3. \A x, y \in {0, q, p, q + 1, p + 1} : b * x < b * y => x < y
  <2> SUFFICES ASSUME NEW x \in {0, q, p, q + 1, p + 1}, NEW y \in {0, q, p, q + 1, p + 1}, y <= x
               PROVE  ~(b * x < b * y)
    BY <1>1
  <2>1. x \in Int /\ y \in Int
    BY <1>1
  <2>2. b * y <= b * x
    BY <2>1, Stretched
  <2>3. b * x \in Int /\ b * y \in Int
    BY <2>1
  <2>4. QED
    BY <2>2, <2>3
<1>4. ASSUME 0 <= c PROVE 0 <= q /\ q <= p /\ 0 <= b * p /\ b * p <= c /\ p <= c
  <2>1. 0 <= a /\ a <= c
    BY <1>4 DEF Within
  <2>2. 0 <= b * q /\ b * q <= a /\ 0 <= b * p /\ b * p <= c /\ c < b * p + b
    BY <1>1, <1>4, <2>1 DEF IsQuotient
  <2>3. 0 < q + 1 /\ q < p + 1 /\ 0 < p + 1
    BY <1>2, <1>3, <2>1, <2>2
  <2>4. b * p - p = (b - 1) * p /\ (b - 1) * p \in Nat
    <3>1. b - 1 \in Nat /\ p \in Nat
      BY <1>1, <2>3
    <3>2. QED
      BY <3>1
  <2>5. QED
    BY <1>1, <1>2, <2>2, <2>3, <2>4
<1>5. ASSUME c <= 0 PROVE q <= 0 /\ p <= q /\ b * p <= 0 /\ c <= b * p /\ c <= p
  <2>1. a <= 0 /\ c <= a
    BY <1>5 DEF Within
  <2>2. b * q <= 0 /\ a <= b * q /\ b * q - b < a /\ b * p <= 0 /\ c <= b * p /\ b * p - b < c
    BY <1>1, <1>5, <2>1 DEF IsQuotient
  <2>3. b * p < b * (q + 1)
    BY <1>2, <2>1, <2>2
  <2>4. p < q + 1
    BY <1>3, <2>3
  <2>5. q <= 0 /\ p <= 0
    <3>1. q > 0 => b * 0 < b * q
      BY <1>1, Stretched
    <3>2. p > 0 => b * 0 < b * p
      BY <1>1, Stretched
    <3>3. QED
      BY <1>1, <1>2, <2>2, <3>1, <3>2
  <2>6. p - b * p = (b - 1) * (-p) /\ (b - 1) * (-p) \in Nat
    <3>1. b - 1 \in Nat /\ -p \in Nat
      BY <1>1, <2>5
    <3>2. (b - 1) * (-p) \in Nat
      BY <3>1
    <3>3. (b - 1) * (-p) = p - b * p
      BY <1>1
    <3>4. QED
      BY <3>2, <3>3
  <2>7. QED
    BY <1>1, <1>2, <2>2, <2>4, <2>5, <2>6
<1>6. QED
  BY <1>1, <1>4, <1>5 DEF Within, p, q

-----------------------------------------------------------------------------
(* Casts *)

(* The units are positive numbers, and the constants' types *)
LEMMA UnitTypes ==
  /\ CountLimit \in Nat \ {0} /\ UnitLength \in [1 .. 10 -> Nat \ {0}]
  /\ \A i \in Units : UnitLength[i] \in Nat \ {0}
  /\ UnitLength[1] = 1
<1>1. UnitLength \in [1 .. Len(UnitLength) -> Nat \ {0}] /\ Len(UnitLength) = 10
  BY UnitsAssumption
<1>2. UnitLength \in [1 .. 10 -> Nat \ {0}]
  BY Zenon, <1>1
<1>3. QED
  BY <1>2, UnitsAssumption DEF Units

(* What the host's integers can count *)
InRange(x) == -CountLimit <= x /\ x < CountLimit

(* In range, nothing wraps *)
LEMMA WrapKeeps ==
  ASSUME NEW x \in Int
  PROVE  InRange(x) <=> Wrap(x) = x
<1> DEFINE y == x + CountLimit
           m == 2 * CountLimit
<1>1. m \in Nat \ {0} /\ CountLimit \in Nat /\ y \in Int
  BY UnitTypes
<1>2. y % m \in 0 .. m - 1
  BY <1>1
<1>3. y \in 0 .. m - 1 => y % m = y
  BY <1>1, Divided
<1>4. Wrap(x) = (y % m) - CountLimit
  BY DEF Wrap
<1>5. InRange(x) <=> y \in 0 .. m - 1
  BY <1>1 DEF InRange
<1>6. y % m = y <=> (y % m) - CountLimit = x
  BY <1>1, <1>2
<1> HIDE DEF y, m
<1>7. QED
  BY <1>2, <1>3, <1>4, <1>5, <1>6

(* What is nearer to zero is in range too *)
LEMMA RangeWithin ==
  ASSUME NEW s \in Int, NEW x \in Int, InRange(s), Within(x, s)
  PROVE  InRange(x)
BY UnitTypes DEF InRange, Within

(* Two numbers have a greatest common divisor *)
LEMMA CommonDivisorIs ==
  ASSUME NEW a \in Nat \ {0}, NEW b \in Nat \ {0}
  PROVE  /\ CommonDivisor(a, b) \in 1 .. b
         /\ a % CommonDivisor(a, b) = 0 /\ b % CommonDivisor(a, b) = 0
<1> DEFINE D == {d \in 1 .. b : a % d = 0 /\ b % d = 0}
           T == {b - d : d \in D}
           Is(d) == /\ a % d = 0 /\ b % d = 0
                    /\ \A e \in d + 1 .. b : ~(a % e = 0 /\ b % e = 0)
<1>1. 1 \in D
  OBVIOUS
<1>2. T \in SUBSET Nat /\ T # {}
  BY <1>1
<1>3. PICK n \in T : \A m \in T : n <= m
  <2> HIDE DEF T
  <2>1. QED
    BY <1>2, Smallest
<1>4. PICK d \in D : n = b - d
  OBVIOUS
<1>5. \A e \in D : e <= d
  <2> SUFFICES ASSUME NEW e \in D PROVE e <= d
    OBVIOUS
  <2>1. b - e \in T
    OBVIOUS
  <2>2. n <= b - e
    BY Zenon, <1>3, <2>1
  <2>3. e \in Nat /\ d \in Nat
    OBVIOUS
  <2>4. QED
    BY <1>4, <2>2, <2>3
<1>6. d \in 1 .. b /\ Is(d)
  <2>1. \A e \in d + 1 .. b : e \in 1 .. b /\ ~(e <= d)
    OBVIOUS
  <2>2. QED
    BY <1>5, <2>1
<1>7. CommonDivisor(a, b) = CHOOSE e \in 1 .. b : Is(e)
  BY DEF CommonDivisor
<1> HIDE DEF Is
<1>8. CommonDivisor(a, b) \in 1 .. b /\ Is(CommonDivisor(a, b))
  BY <1>6, <1>7
<1>9. QED
  BY <1>8 DEF Is

(* The factors of a cast are the units without their common divisor *)
LEMMA CastFactors ==
  ASSUME NEW f \in Units, NEW t \in Units
  PROVE  \E g \in Nat \ {0} :
            /\ Numerator(f, t) \in Nat \ {0} /\ Denominator(f, t) \in Nat \ {0}
            /\ UnitLength[f] = g * Numerator(f, t) /\ UnitLength[t] = g * Denominator(f, t)
<1> DEFINE a == UnitLength[f]
           b == UnitLength[t]
           g == CommonDivisor(a, b)
           num == a \div g
           den == b \div g
<1>1. a \in Nat \ {0} /\ b \in Nat \ {0}
  BY UnitTypes
<1> HIDE DEF a, b
<1>2. g \in Nat \ {0} /\ a % g = 0 /\ b % g = 0
  BY <1>1, CommonDivisorIs
<1> HIDE DEF g
<1>3. num \in Nat /\ a = g * num
  BY <1>1, <1>2, Divided
<1>4. den \in Nat /\ b = g * den
  BY <1>1, <1>2, Divided
<1>5. num = Numerator(f, t) /\ den = Denominator(f, t)
  BY DEF Numerator, Denominator, a, b, g
<1> HIDE DEF num, den
<1>6. num # 0 /\ den # 0
  BY <1>1, <1>2, <1>3, <1>4
<1>7. /\ num \in Nat \ {0} /\ den \in Nat \ {0} /\ a = g * num /\ b = g * den
  BY <1>3, <1>4, <1>6
<1>8. QED
  BY Zenon, <1>2, <1>5, <1>7 DEF a, b

(* A multiple is not nearer to zero *)
LEMMA MultipleWithin ==
  ASSUME NEW k \in Nat \ {0}, NEW x \in Int
  PROVE  Within(x, k * x)
<1>1. k * x = x + (k - 1) * x /\ k * x = x - (k - 1) * (-x) /\ k - 1 \in Nat
  OBVIOUS
<1>2. x >= 0 => (k - 1) * x \in Nat
  <2>1. x >= 0 => x \in Nat
    OBVIOUS
  <2>2. QED
    BY <1>1, <2>1
<1>3. x <= 0 => (k - 1) * (-x) \in Nat
  <2>1. x <= 0 => -x \in Nat
    OBVIOUS
  <2>2. QED
    BY <1>1, <2>1
<1>4. QED
  BY <1>1, <1>2, <1>3 DEF Within

(* A cast of what fits has the whole units of the other kind *)
LEMMA CastIs ==
  ASSUME NEW f \in Units, NEW t \in Units, NEW x \in Int, InRange(x * UnitLength[f])
  PROVE  Cast(x, f, t) = Quotient(x * UnitLength[f], UnitLength[t])
<1>1. PICK g \in Nat \ {0} :
            /\ Numerator(f, t) \in Nat \ {0} /\ Denominator(f, t) \in Nat \ {0}
            /\ UnitLength[f] = g * Numerator(f, t) /\ UnitLength[t] = g * Denominator(f, t)
  BY CastFactors
<1> DEFINE num == Numerator(f, t)
           den == Denominator(f, t)
           s == x * num
<1>2. num \in Nat \ {0} /\ den \in Nat \ {0}
  BY <1>1
<1>3. UnitLength[f] = g * num /\ UnitLength[t] = g * den
  BY <1>1
<1>4. Cast(x, f, t) = Quotient(Wrap(s), den)
  BY DEF Cast
<1> HIDE DEF num, den
<1>5. s \in Int /\ x * UnitLength[f] = g * s /\ g * s \in Int
  BY <1>2, <1>3
<1> HIDE DEF s
<1>6. Within(s, g * s) /\ InRange(g * s)
  BY <1>5, MultipleWithin
<1>7. Wrap(s) = s
  BY <1>5, <1>6, RangeWithin, WrapKeeps
<1>8. Quotient(g * s, g * den) = Quotient(s, den)
  BY <1>2, <1>5, QuotientScaled
<1>9. QED
  BY Zenon, <1>3, <1>4, <1>5, <1>7, <1>8

-----------------------------------------------------------------------------
(* Sums of parts *)

(* e has what the first parts add up to *)
AddsUp(e, s, lengths) ==
    e[0] = 0 /\ \A i \in 1 .. Len(s) : e[i] = e[i - 1] + s[i] * lengths[i]

(* Their sum is the last of it *)
LEMMA SumIs ==
  ASSUME NEW s, NEW lengths, Len(s) \in Nat, NEW e, AddsUp(e, s, lengths)
  PROVE  Sum(s, lengths) = e[Len(s)]
<1> DEFINE n == Len(s)
<1>0. n \in Nat /\ e[0] = 0 /\ \A i \in 1 .. n : e[i] = e[i - 1] + s[i] * lengths[i]
  BY DEF AddsUp
<1> DEFINE G(f, i) == IF i = 0 THEN 0 ELSE f[i - 1] + s[i] * lengths[i]
           total == CHOOSE f : f = [i \in 0 .. n |-> G(f, i)]
           w == [i \in 0 .. n |-> e[i]]
<1>1. Sum(s, lengths) = total[n]
  BY DEF Sum
<1> HIDE DEF n
<1>2. \A i \in 0 .. n : w[i] = G(w, i)
  <2> SUFFICES ASSUME NEW i \in 0 .. n PROVE w[i] = G(w, i)
    OBVIOUS
  <2>1. CASE i = 0
    BY <1>0, <2>1
  <2>2. CASE i # 0
    <3>1. i \in 1 .. n /\ i - 1 \in 0 .. n
      BY <1>0, <2>2
    <3>2. w[i] = e[i] /\ w[i - 1] = e[i - 1]
      BY <3>1
    <3>3. e[i] = e[i - 1] + s[i] * lengths[i]
      BY Zenon, <1>0, <3>1
    <3>4. QED
      BY Zenon, <2>2, <3>2, <3>3
  <2>3. QED
    BY <2>1, <2>2
<1>3. w = [i \in 0 .. n |-> w[i]]
  OBVIOUS
<1> HIDE DEF G
<1>4. w = [i \in 0 .. n |-> G(w, i)]
  BY <1>2, <1>3
<1>5. total = [i \in 0 .. n |-> G(total, i)]
  <2>1. \E f : f = [i \in 0 .. n |-> G(f, i)]
    BY <1>4
  <2>2. QED
    BY <2>1, Zenon
<1> HIDE DEF total
<1>6. \A i \in 0 .. n : total[i] = G(total, i)
  BY <1>5
<1> DEFINE T == {i \in 0 .. n : total[i] # w[i]}
<1>7. ASSUME T # {} PROVE FALSE
  <2>1. PICK i \in T : \A j \in T : i <= j
    <3>1. T \in SUBSET Nat
      BY <1>0
    <3> HIDE DEF T
    <3>2. QED
      BY <1>7, <3>1, Smallest
  <2> HIDE DEF w
  <2>2. i \in 0 .. n /\ total[i] # w[i] /\ total[i] = G(total, i) /\ w[i] = G(w, i)
    BY <1>2, <1>6, <2>1 DEF G
  <2>3. i # 0
    BY <2>2 DEF G
  <2>4. i - 1 \in 0 .. n /\ ~(i <= i - 1)
    BY <1>0, <2>2, <2>3
  <2>5. total[i - 1] = w[i - 1]
    BY <2>1, <2>4
  <2>6. QED
    BY <2>2, <2>3, <2>5 DEF G
<1>8. total[n] = w[n]
  BY <1>0, <1>7
<1>9. w[n] = e[n]
  BY <1>0
<1>10. QED
  BY Zenon, <1>1, <1>8, <1>9 DEF n

(* A larger unit has a whole number of the next smaller one that is written, *)
(* but for a month's days                                                    *)
LEMMA Neighbours ==
  ASSUME NEW i \in 2 .. 9, i # 3
  PROVE  \E k \in Nat \ {0} : UnitLength[Written[i - 1]] = UnitLength[Written[i]] * k
<1> DEFINE a == UnitLength[Written[i - 1]]
           b == UnitLength[Written[i]]
<1>1. a \in Nat \ {0} /\ b \in Nat \ {0}
  BY UnitTypes DEF Written, Units, Year, Month, Day
<1>2. a % b = 0
  BY UnitsAssumption DEF Written, Year, Month, Day
<1> HIDE DEF a, b
<1>3. a \div b \in Nat /\ a = b * (a \div b)
  BY <1>1, <1>2, Divided
<1>4. a \div b # 0
  BY <1>1, <1>3
<1>5. a \div b \in Nat \ {0} /\ a = b * (a \div b)
  BY <1>3, <1>4
<1>6. QED
  BY <1>5 DEF a, b

(* A component is what the units it is written in have beyond the larger ones *)
LEMMA ComponentIs ==
  ASSUME NEW u \in Units, NEW r \in Units, NEW m \in Units, NEW c \in Int,
         InRange(c * UnitLength[u])
  PROVE  Component(c, u, r, m)
           = Quotient(c * UnitLength[u], UnitLength[r])
             - Quotient(UnitLength[m] * Quotient(c * UnitLength[u], UnitLength[m]), UnitLength[r])
<1> DEFINE span == c * UnitLength[u]
           lr == UnitLength[r]
           lm == UnitLength[m]
           q == Quotient(span, lm)
           p == Quotient(span, lr)
           part == Quotient(lm * q, lr)
<1>1. span \in Int /\ lr \in Nat \ {0} /\ lm \in Nat \ {0} /\ InRange(span)
  BY UnitTypes
<1>2. Cast(c, u, r) = p /\ Cast(c, u, m) = q
  BY CastIs
<1>3. Component(c, u, r, m) = Wrap(Cast(c, u, r) - Cast(Cast(c, u, m), m, r))
  BY DEF Component
<1> HIDE DEF span
<1>4. q \in Int /\ p \in Int
  BY <1>1, QuotientIs
<1>5. Within(span, span)
  BY <1>1 DEF Within
<1>6. Within(lm * q, span) /\ Within(p, span)
  BY <1>1, <1>5, QuotientWithin
<1> HIDE DEF q
<1>7. lm * q \in Int /\ lm * q = q * lm
  BY <1>1, <1>4
<1>8. InRange(q * UnitLength[m])
  BY <1>1, <1>6, <1>7, RangeWithin
<1>9. Cast(q, m, r) = Quotient(q * UnitLength[m], UnitLength[r])
  BY <1>4, <1>8, CastIs
<1>10. Cast(q, m, r) = part
  BY Zenon, <1>7, <1>9
<1>11. Within(part, p) /\ part \in Int
  BY <1>1, <1>6, <1>7, QuotientIs, QuotientWithin
<1> HIDE DEF p, part
<1>12. Within(p - part, span) /\ p - part \in Int
  BY <1>1, <1>4, <1>6, <1>11 DEF Within
<1>13. Wrap(p - part) = p - part
  BY <1>1, <1>12, RangeWithin, WrapKeeps
<1>14. Component(c, u, r, m) = p - part
  BY Zenon, <1>2, <1>3, <1>10, <1>13
<1>15. QED
  BY Zenon, <1>14 DEF p, part, q, span

(* The whole nanoseconds are the count itself *)
LEMMA QuotientByOne ==
  ASSUME NEW a \in Int
  PROVE  Quotient(a, 1) = a
<1>1. Quotient(1 * a, 1) = a
  BY QuotientExact
<1>2. 1 * a = a
  OBVIOUS
<1>3. QED
  BY Zenon, <1>1, <1>2

(* The remainder is what the multiple leaves *)
LEMMA RemainderIs ==
  ASSUME NEW a \in Int, NEW b \in Nat \ {0}
  PROVE  Remainder(a, b) \in Int /\ b * Quotient(a, b) + Remainder(a, b) = a
<1> DEFINE q == Quotient(a, b)
<1>1. q \in Int /\ Remainder(a, b) = a - b * q
  BY QuotientIs DEF Remainder
<1> HIDE DEF q
<1>2. Remainder(a, b) \in Int /\ b * q + Remainder(a, b) = a
  BY <1>1
<1>3. QED
  BY <1>2 DEF q

(* The lengths of the parts as they are written *)
WrittenLengths == [i \in 1 .. 9 |-> UnitLength[Written[i]]]

(* What the months have beyond whole days *)
Twice(span) ==
    Remainder(Quotient(span, UnitLength[Month]) * UnitLength[Month], UnitLength[Day])

(* The parts of a duration add up to it, and what its months have beyond *)
(* whole days is written twice                                           *)
LEMMA NormalizedSums ==
  ASSUME NEW u \in Units, NEW c \in Int, InRange(c * UnitLength[u])
  PROVE  Sum(Normalized(c, u), WrittenLengths)
           = c * UnitLength[u] + Twice(c * UnitLength[u])
<1> DEFINE span == c * UnitLength[u]
           W(i) == UnitLength[Written[i]]
           Q(i) == Quotient(span, W(i))
           tw == Twice(span)
           e == [i \in 0 .. 9 |-> IF i = 0 THEN 0 ELSE IF i < 3 THEN W(i) * Q(i) ELSE W(i) * Q(i) + tw]
           s == Normalized(c, u)
<1>1. span \in Int /\ InRange(span)
  BY UnitTypes
<1>2. \A i \in 1 .. 9 : Written[i] \in Units /\ W(i) \in Nat \ {0}
  <2>1. \A i \in 1 .. 9 : Written[i] \in Units
    BY DEF Written, Units, Year, Month, Day
  <2>2. QED
    BY <2>1, UnitTypes
<1>3. s[1] = Q(1)
  <2>1. s[1] = Cast(c, u, Year) /\ Written[1] = Year
    BY DEF Normalized, DurationValue, Written
  <2>2. Written[1] \in Units
    BY <1>2
  <2>3. Cast(c, u, Written[1]) = Q(1)
    BY <2>2, CastIs
  <2>4. QED
    BY Zenon, <2>1, <2>3
<1>4. ASSUME NEW i \in 2 .. 9
      PROVE  s[i] = Q(i) - Quotient(W(i - 1) * Q(i - 1), W(i))
  <2>1. s[i] = Component(c, u, Written[i], Written[i - 1])
    BY DEF Normalized
  <2>2. Written[i] \in Units /\ Written[i - 1] \in Units
    BY <1>2
  <2>3. Component(c, u, Written[i], Written[i - 1]) = Q(i) - Quotient(W(i - 1) * Q(i - 1), W(i))
    BY <2>2, ComponentIs
  <2>4. QED
    BY Zenon, <2>1, <2>3
<1> HIDE DEF span, s
<1>5. \A i \in 1 .. 9 : Q(i) \in Int
  BY <1>1, <1>2, QuotientIs
<1>6. tw \in Int
  <2>1. Month \in Units /\ Day \in Units
    BY DEF Month, Day, Units
  <2>2. Quotient(span, UnitLength[Month]) * UnitLength[Month] \in Int
    <3> DEFINE q == Quotient(span, UnitLength[Month])
    <3>1. UnitLength[Month] \in Nat \ {0}
      BY <2>1, UnitTypes
    <3>2. q \in Int
      BY <1>1, <3>1, QuotientIs
    <3> HIDE DEF q
    <3>3. q * UnitLength[Month] \in Int
      BY <3>1, <3>2
    <3>4. QED
      BY <3>3 DEF q
  <2>3. QED
    BY <2>1, <2>2, UnitTypes, RemainderIs DEF Twice
<1> HIDE DEF Q, W
<1>7. e[0] = 0 /\ e[1] = W(1) * Q(1) /\ e[2] = W(2) * Q(2)
  OBVIOUS
<1>8. \A i \in 3 .. 9 : e[i] = W(i) * Q(i) + tw
  OBVIOUS
<1> HIDE DEF e, tw
<1>9. ASSUME NEW i \in 2 .. 9, i # 3
      PROVE  s[i] * W(i) = W(i) * Q(i) - W(i - 1) * Q(i - 1)
  <2>1. PICK k \in Nat \ {0} : W(i - 1) = W(i) * k
    <3>1. \E k \in Nat \ {0} : UnitLength[Written[i - 1]] = UnitLength[Written[i]] * k
      BY <1>9, Neighbours
    <3>2. QED
      BY Zenon, <3>1 DEF W
  <2>2. i - 1 \in 1 .. 9
    OBVIOUS
  <2>3. Q(i) \in Int /\ Q(i - 1) \in Int /\ W(i) \in Nat \ {0}
    BY <1>2, <1>5, <2>2
  <2>4. W(i - 1) * Q(i - 1) = W(i) * (k * Q(i - 1)) /\ k * Q(i - 1) \in Int
    BY <2>1, <2>3
  <2>5. Quotient(W(i) * (k * Q(i - 1)), W(i)) = k * Q(i - 1)
    BY <2>3, <2>4, QuotientExact
  <2>6. s[i] = Q(i) - k * Q(i - 1)
    BY Zenon, <1>4, <2>4, <2>5
  <2>7. (Q(i) - k * Q(i - 1)) * W(i) = W(i) * Q(i) - W(i) * (k * Q(i - 1))
    BY <2>3, <2>4
  <2>8. QED
    BY Zenon, <2>4, <2>6, <2>7
<1>10. s[3] * W(3) = W(3) * Q(3) - W(2) * Q(2) + tw
  <2> DEFINE months == W(2) * Q(2)
             p == Quotient(months, W(3))
  <2>1. W(2) \in Nat \ {0} /\ W(3) \in Nat \ {0} /\ Q(2) \in Int /\ Q(3) \in Int
    BY <1>2, <1>5
  <2>2. W(2) = UnitLength[Month] /\ W(3) = UnitLength[Day]
    BY DEF W, Written
  <2>3. Q(2) * W(2) = months /\ months \in Int
    BY <2>1
  <2>4. tw = Remainder(months, W(3))
    BY Zenon, <2>2, <2>3 DEF tw, Twice, Q
  <2>5. s[3] = Q(3) - p
    <3>1. 3 \in 2 .. 9 /\ 3 - 1 = 2
      OBVIOUS
    <3>2. s[3] = Q(3) - Quotient(W(3 - 1) * Q(3 - 1), W(3))
      BY <1>4, <3>1
    <3>3. QED
      BY Zenon, <3>1, <3>2
  <2> HIDE DEF months
  <2>6. p \in Int /\ W(3) * p + tw = months
    BY <2>1, <2>3, <2>4, QuotientIs, RemainderIs
  <2> HIDE DEF p
  <2>7. (Q(3) - p) * W(3) = W(3) * Q(3) - W(3) * p
    BY <2>1, <2>6
  <2>8. W(3) * Q(3) \in Int /\ W(3) * p \in Int
    BY <2>1, <2>6
  <2>9. (Q(3) - p) * W(3) = W(3) * Q(3) - months + tw
    BY <1>6, <2>3, <2>6, <2>7, <2>8
  <2>10. QED
    BY Zenon, <2>5, <2>9 DEF months
<1>11. \A i \in 1 .. 9 : W(i) * Q(i) \in Int
  BY <1>2, <1>5
<1>12. \A i \in 1 .. 9 : e[i] = e[i - 1] + s[i] * W(i)
  <2> SUFFICES ASSUME NEW i \in 1 .. 9 PROVE e[i] = e[i - 1] + s[i] * W(i)
    OBVIOUS
  <2>1. CASE i = 1
    <3>1. Q(1) * W(1) = W(1) * Q(1) /\ 0 + W(1) * Q(1) = W(1) * Q(1)
      BY <1>2, <1>5
    <3>2. QED
      BY <1>3, <1>7, <2>1, <3>1
  <2>2. CASE i = 2
    <3>1. s[2] * W(2) = W(2) * Q(2) - W(1) * Q(1)
      BY <1>9
    <3>2. QED
      BY <1>7, <1>11, <2>2, <3>1
  <2>3. CASE i = 3
    BY <1>6, <1>7, <1>8, <1>10, <1>11, <2>3
  <2>4. CASE i \in 4 .. 9
    <3>1. s[i] * W(i) = W(i) * Q(i) - W(i - 1) * Q(i - 1)
      BY <1>9, <2>4
    <3>2. e[i] = W(i) * Q(i) + tw /\ e[i - 1] = W(i - 1) * Q(i - 1) + tw
      BY <1>8, <2>4
    <3>3. W(i) * Q(i) \in Int /\ W(i - 1) * Q(i - 1) \in Int
      BY <1>11, <2>4
    <3>4. QED
      BY <1>6, <3>1, <3>2, <3>3
  <2>5. QED
    BY <2>1, <2>2, <2>3, <2>4
<1>13. e[9] = span + tw
  <2>1. W(9) = 1
    BY UnitTypes DEF W, Written
  <2>2. Q(9) = span
    BY <1>1, <2>1, QuotientByOne DEF Q
  <2>3. 1 * span = span
    BY <1>1
  <2>4. e[9] = W(9) * Q(9) + tw
    BY <1>8
  <2>5. QED
    BY Zenon, <2>1, <2>2, <2>3, <2>4
<1>14. Len(s) = 9
  BY DEF s, Normalized
<1>15. \A i \in 1 .. 9 : e[i] = e[i - 1] + s[i] * WrittenLengths[i]
  <2>1. \A i \in 1 .. 9 : WrittenLengths[i] = W(i)
    BY DEF WrittenLengths, W
  <2>2. QED
    BY Zenon, <1>12, <2>1
<1>16. Sum(s, WrittenLengths) = e[9]
  <2>1. Len(s) \in Nat /\ AddsUp(e, s, WrittenLengths)
    BY <1>7, <1>14, <1>15 DEF AddsUp
  <2>2. QED
    BY Zenon, <1>14, <2>1, SumIs
<1>17. QED
  BY Zenon, <1>13, <1>16 DEF s, span, tw

(* A time point's whole seconds and their fraction add up to it *)
LEMMA SecondsSum ==
  ASSUME NEW u \in Units, NEW c \in Int, InRange(c * UnitLength[u])
  PROVE  /\ TimeT(c, u) = Quotient(c * UnitLength[u], UnitLength[Second])
         /\ TimeT(c, u) * UnitLength[Second] + Fraction(c, u) = c * UnitLength[u]
<1> DEFINE span == c * UnitLength[u]
           l == UnitLength[Second]
           q == Quotient(span, l)
           r == Remainder(span, l)
<1>1. /\ Nanosecond \in Units /\ Second \in Units /\ span \in Int /\ l \in Nat \ {0}
      /\ UnitLength[Nanosecond] = 1
  BY UnitTypes DEF Nanosecond, Second, Units
<1>2. Cast(c, u, Nanosecond) = Quotient(span, UnitLength[Nanosecond])
  BY <1>1, CastIs
<1> HIDE DEF span
<1>3. Cast(c, u, Nanosecond) = span
  <2>1. Quotient(span, 1) = span
    BY <1>1, QuotientByOne
  <2>2. QED
    BY Zenon, <1>1, <1>2, <2>1
<1>4. span * 1 = span /\ InRange(span)
  BY <1>1 DEF span
<1>5. Cast(span, Nanosecond, Second) = Quotient(span * UnitLength[Nanosecond], UnitLength[Second])
  <2>1. InRange(span * UnitLength[Nanosecond])
    BY Zenon, <1>1, <1>4
  <2>2. QED
    BY Zenon, <1>1, <2>1, CastIs
<1>6. TimeT(c, u) = q
  BY Zenon, <1>1, <1>3, <1>4, <1>5 DEF TimeT
<1>7. Fraction(c, u) = r
  BY Zenon, <1>3 DEF Fraction
<1>8. q \in Int /\ r \in Int /\ l * q + r = span
  BY <1>1, QuotientIs, RemainderIs
<1> HIDE DEF q, r, l
<1>9. q * l + r = span
  BY <1>1, <1>8
<1>10. QED
  BY Zenon, <1>6, <1>7, <1>9 DEF span, q, r, l

(* The lengths of the seconds and the parts of one *)
SecondLengths == <<UnitLength[4], UnitLength[3], UnitLength[2], 1>>

(* The seconds of a time point and the parts of one add up to it *)
LEMMA SubSecondSums ==
  ASSUME NEW u \in Units, NEW c \in Int, InRange(c * UnitLength[u])
  PROVE  Sum(<<TimeT(c, u)>> \o SubSecond(c, u), SecondLengths) = c * UnitLength[u]
<1> DEFINE span == c * UnitLength[u]
           L(i) == UnitLength[5 - i]
           Q(i) == Quotient(span, L(i))
           s == <<TimeT(c, u)>> \o SubSecond(c, u)
           e == [i \in 0 .. 4 |-> IF i = 0 THEN 0 ELSE L(i) * Q(i)]
<1>1. span \in Int /\ InRange(span)
  BY UnitTypes
<1>2. \A i \in 1 .. 4 : 5 - i \in Units /\ L(i) \in Nat \ {0}
  <2>1. \A i \in 1 .. 4 : 5 - i \in Units
    BY DEF Units
  <2>2. QED
    BY <2>1, UnitTypes
<1>3. Len(s) = 4 /\ s[1] = TimeT(c, u) /\ \A i \in 2 .. 4 : s[i] = SubSecond(c, u)[i - 1]
  <2> DEFINE t == SubSecond(c, u)
             x == TimeT(c, u)
             V == {x, t[1], t[2], t[3]}
  <2>1. t = [i \in 1 .. 3 |-> t[i]] /\ Len(t) = 3
    BY DEF SubSecond
  <2> HIDE DEF t, x
  <2>2. t \in Seq(V) /\ <<x>> \in Seq(V) /\ Len(<<x>>) = 1 /\ <<x>>[1] = x
    BY <2>1
  <2> HIDE DEF V
  <2>3. Len(<<x>> \o t) = 4 /\ (<<x>> \o t)[1] = x /\ \A i \in 2 .. 4 : (<<x>> \o t)[i] = t[i - 1]
    BY <2>1, <2>2
  <2>4. QED
    BY Zenon, <2>3 DEF t, x
<1>4. s[1] = Q(1)
  <2>1. L(1) = UnitLength[Second]
    BY DEF Second
  <2>2. TimeT(c, u) = Quotient(span, UnitLength[Second])
    BY SecondsSum
  <2>3. QED
    BY Zenon, <1>3, <2>1, <2>2
<1>5. ASSUME NEW i \in 2 .. 4
      PROVE  s[i] = Remainder(Q(i), L(i - 1) \div L(i))
  <2>1. s[i] = Remainder(Cast(c, u, Second - (i - 1)),
                         UnitLength[Second - (i - 1) + 1] \div UnitLength[Second - (i - 1)])
    <3>1. i - 1 \in 1 .. 3
      OBVIOUS
    <3>2. SubSecond(c, u)[i - 1] = Remainder(Cast(c, u, Second - (i - 1)),
                         UnitLength[Second - (i - 1) + 1] \div UnitLength[Second - (i - 1)])
      BY <3>1 DEF SubSecond
    <3>3. QED
      BY Zenon, <1>3, <3>2
  <2>2. Second - (i - 1) = 5 - i /\ Second - (i - 1) + 1 = 5 - (i - 1)
    BY DEF Second
  <2>3. Cast(c, u, 5 - i) = Q(i)
    <3>1. 5 - i \in Units
      BY <1>2
    <3>2. QED
      BY <3>1, CastIs
  <2>4. QED
    BY Zenon, <2>1, <2>2, <2>3
<1> HIDE DEF span, s
<1>6. \A i \in 1 .. 4 : Q(i) \in Int
  BY <1>1, <1>2, QuotientIs
<1>7. ASSUME NEW i \in 2 .. 4
      PROVE  s[i] * L(i) = L(i) * Q(i) - L(i - 1) * Q(i - 1)
  <2> DEFINE a == L(i - 1)
             b == L(i)
             k == a \div b
             q == Q(i)
             p == Q(i - 1)
  <2>1. i - 1 \in 1 .. 4
    OBVIOUS
  <2>2. a \in Nat \ {0} /\ b \in Nat \ {0} /\ q \in Int /\ p \in Int
    BY <1>2, <1>6, <2>1
  <2>3. a % b = 0
    <3>1. 5 - i \in 1 .. 7 /\ (5 - i) + 1 = 5 - (i - 1)
      OBVIOUS
    <3>2. UnitLength[(5 - i) + 1] % UnitLength[5 - i] = 0
      BY <3>1, UnitsAssumption
    <3>3. QED
      BY Zenon, <3>1, <3>2
  <2>4. s[i] = Remainder(q, k)
    BY <1>5
  <2>5. q = Quotient(span, b) /\ p = Quotient(span, a)
    OBVIOUS
  <2> HIDE DEF a, b, q, p
  <2>6. k \in Nat /\ a = b * k
    BY <2>2, <2>3, Divided
  <2>7. k \in Nat \ {0}
    BY <2>2, <2>6
  <2> HIDE DEF k
  <2>8. Quotient(q, k) = p
    <3>1. Quotient(Quotient(span, b), k) = Quotient(span, b * k)
      BY <1>1, <2>2, <2>7, QuotientTwice
    <3>2. QED
      BY Zenon, <2>5, <2>6, <3>1
  <2>9. s[i] = q - k * p
    BY Zenon, <2>4, <2>8 DEF Remainder
  <2>10. (q - k * p) * b = b * q - (b * k) * p
    BY <2>2, <2>7
  <2>11. QED
    BY Zenon, <2>6, <2>9, <2>10 DEF a, b, q, p
<1> HIDE DEF Q, L
<1>8. e[0] = 0 /\ \A i \in 1 .. 4 : e[i] = L(i) * Q(i)
  OBVIOUS
<1>9. \A i \in 1 .. 4 : L(i) * Q(i) \in Int
  BY <1>2, <1>6
<1> HIDE DEF e
<1>10. \A i \in 1 .. 4 : e[i] = e[i - 1] + s[i] * L(i)
  <2> SUFFICES ASSUME NEW i \in 1 .. 4 PROVE e[i] = e[i - 1] + s[i] * L(i)
    OBVIOUS
  <2>1. CASE i = 1
    <3>1. Q(1) * L(1) = L(1) * Q(1) /\ 0 + L(1) * Q(1) = L(1) * Q(1)
      BY <1>2, <1>6
    <3>2. QED
      BY <1>4, <1>8, <2>1, <3>1
  <2>2. CASE i \in 2 .. 4
    <3>1. s[i] * L(i) = L(i) * Q(i) - L(i - 1) * Q(i - 1)
      BY <1>7, <2>2
    <3>2. i - 1 \in 1 .. 4
      BY <2>2
    <3>3. e[i] = L(i) * Q(i) /\ e[i - 1] = L(i - 1) * Q(i - 1)
      BY <1>8, <3>2
    <3>4. L(i) * Q(i) \in Int /\ L(i - 1) * Q(i - 1) \in Int
      BY <1>9, <3>2
    <3>5. QED
      BY <3>1, <3>3, <3>4
  <2>3. QED
    BY <2>1, <2>2
<1>11. e[4] = span
  <2>1. L(4) = 1
    BY UnitTypes DEF L
  <2>2. Q(4) = span
    BY <1>1, <2>1, QuotientByOne DEF Q
  <2>3. 1 * span = span
    BY <1>1
  <2>4. e[4] = L(4) * Q(4)
    BY <1>8
  <2>5. QED
    BY Zenon, <2>1, <2>2, <2>3, <2>4
<1>12. \A i \in 1 .. 4 : SecondLengths[i] = L(i)
  BY UnitTypes DEF SecondLengths, L
<1>13. Len(s) \in Nat /\ AddsUp(e, s, SecondLengths)
  <2>1. \A i \in 1 .. 4 : e[i] = e[i - 1] + s[i] * SecondLengths[i]
    BY Zenon, <1>10, <1>12
  <2>2. QED
    BY <1>3, <1>8, <2>1 DEF AddsUp
<1>14. Sum(s, SecondLengths) = e[4]
  <2>1. Sum(s, SecondLengths) = e[Len(s)]
    BY Zenon, <1>13, SumIs
  <2>2. Len(s) = 4
    BY Zenon, <1>3
  <2>3. QED
    BY Zenon, <2>1, <2>2
<1>15. QED
  BY Zenon, <1>11, <1>14 DEF s, span

-----------------------------------------------------------------------------
(* Objects *)

(* The parts of an object *)
LEMMA ObjectFacts ==
  ASSUME NEW id, NEW fs, NEW bs
  PROVE  Obj(id, fs, bs).id = id /\ Obj(id, fs, bs).fields = fs /\ Obj(id, fs, bs).bases = bs
BY DEF Obj

(* ... of one without a name *)
LEMMA PlainObject ==
  ASSUME NEW fs, NEW bs
  PROVE  Obj("", fs, bs).fields = fs /\ Obj("", fs, bs).bases = bs
<1>1. \A id : Obj(id, fs, bs).fields = fs /\ Obj(id, fs, bs).bases = bs
  BY ObjectFacts
<1>2. QED
  BY Zenon, <1>1

(* ... of what has none *)
LEMMA LeafFacts ==
  ASSUME NEW nm
  PROVE  /\ Leaf(nm).holds = nm /\ Leaf(nm).bases = <<>> /\ Leaf(nm).id = ""
         /\ Leaf(nm).fields = NoFields /\ nm \notin DOMAIN NoFields
BY DEF Leaf, NoFields

(* ... and of what has one field *)
LEMMA FieldFacts ==
  ASSUME NEW nm, NEW o
  PROVE  DOMAIN Field(nm, o) = {nm} /\ Field(nm, o)[nm] = o
BY DEF Field

(* Reading one object *)
LEMMA ReadingOne ==
  ASSUME NEW o, NEW nm, NEW i
  PROVE  /\ Get({o}, nm) = IF Has(o, nm) THEN {o.fields[nm]} ELSE {}
         /\ Base({o}, i) = IF i < Len(o.bases) THEN {o.bases[i + 1]} ELSE {}
         /\ FieldOrBase({o}, nm) = IF Has(o, nm) THEN {o.fields[nm]} ELSE Base({o}, 0)
<1>1. Get({o}, nm) = IF Has(o, nm) THEN {o.fields[nm]} ELSE {}
  BY DEF Get, Has
<1>2. Base({o}, i) = IF i < Len(o.bases) THEN {o.bases[i + 1]} ELSE {}
  BY DEF Base
<1>3. FieldOrBase({o}, nm) = IF Has(o, nm) THEN {o.fields[nm]} ELSE Base({o}, 0)
  <2>1. FieldOrBase({o}, nm) = UNION {IF Has(x, nm) THEN Get({x}, nm) ELSE Base({x}, 0) : x \in {o}}
    BY DEF FieldOrBase
  <2> DEFINE F(x) == IF Has(x, nm) THEN Get({x}, nm) ELSE Base({x}, 0)
  <2>2. FieldOrBase({o}, nm) = UNION {F(x) : x \in {o}}
    BY <2>1
  <2>3. F(o) = IF Has(o, nm) THEN {o.fields[nm]} ELSE Base({o}, 0)
    BY <1>1
  <2> HIDE DEF F
  <2>4. UNION {F(x) : x \in {o}} = F(o)
    OBVIOUS
  <2>5. QED
    BY Zenon, <2>2, <2>3, <2>4
<1>4. QED
  BY <1>1, <1>2, <1>3

(* An object with one field has that one and no other *)
LEMMA OneField ==
  ASSUME NEW id, NEW nm, NEW x, NEW bs
  PROVE  LET o == Obj(id, Field(nm, x), bs)
         IN  /\ Has(o, nm) /\ Get({o}, nm) = {x} /\ o.fields[nm] = x
             /\ \A other : other # nm => ~Has(o, other)
<1> DEFINE o == Obj(id, Field(nm, x), bs)
<1>1. o.fields = Field(nm, x)
  BY ObjectFacts
<1> HIDE DEF o
<1>2. DOMAIN o.fields = {nm} /\ o.fields[nm] = x
  BY Zenon, <1>1, FieldFacts
<1>3. Has(o, nm) /\ \A other : other # nm => ~Has(o, other)
  BY <1>2 DEF Has
<1>4. Get({o}, nm) = {x}
  BY Zenon, <1>2, <1>3, ReadingOne
<1>5. QED
  BY Zenon, <1>2, <1>3, <1>4 DEF o

(* What holds nothing but its name shows that *)
LEMMA LeafShown ==
  ASSUME NEW nm
  PROVE  {<<o.holds>> : o \in {Leaf(nm)}} = {<<nm>>} /\ {o.holds : o \in {Leaf(nm)}} = {nm}
<1>1. Leaf(nm).holds = nm
  BY Zenon, LeafFacts
<1>2. QED
  BY <1>1

-----------------------------------------------------------------------------
(* What is in a variant *)

VariantReps == [alternatives : Nat, boxed : SUBSET Nat, index : Nat]

(* The union from alternative number i on, if h has those after it *)
UnionWith(h, n, b, i) ==
    Obj("_Variadic_union",
        IF i > n THEN NoFields
        ELSE [f \in {"_M_first", "_M_rest"} |->
                IF f = "_M_first" THEN Alternative(i, b) ELSE h[i + 1]], <<>>)

Unions(n, b) == CHOOSE f : f = [i \in 1 .. n + 1 |-> UnionWith(f, n, b, i)]

(* The unions are made from the empty one back *)
LEMMA UnionsAre ==
  ASSUME NEW n \in Nat, NEW b
  PROVE  /\ Unions(n, b) = [i \in 1 .. n + 1 |-> UnionWith(Unions(n, b), n, b, i)]
         /\ VariantUnion(n, b) = Unions(n, b)[1]
<1> DEFINE S(k) == {i \in 1 .. n + 1 : (n + 1) - i < k}
           Known(f, k) == f = [i \in S(k) |-> UnionWith(f, n, b, i)]
           T == {k \in Nat : ~ \E f : Known(f, k)}
<1>1. ASSUME T # {} PROVE FALSE
  <2>1. PICK k \in T : \A j \in T : k <= j
    <3>1. T \in SUBSET Nat
      OBVIOUS
    <3> HIDE DEF T
    <3>2. QED
      BY <1>1, <3>1, Smallest
  <2>2. k \in Nat /\ ~ \E f : Known(f, k)
    BY <2>1
  <2>3. CASE k = 0
    <3> DEFINE f == [i \in {} |-> 0]
    <3>1. f = [i \in {} |-> UnionWith(f, n, b, i)]
      OBVIOUS
    <3>2. S(0) = {}
      OBVIOUS
    <3>3. Known(f, 0)
      BY Zenon, <3>1, <3>2
    <3>4. QED
      BY Zenon, <2>2, <2>3, <3>3
  <2>4. CASE k # 0
    <3>1. k - 1 \in Nat /\ ~(k <= k - 1)
      BY <2>2, <2>4
    <3>2. PICK f : Known(f, k - 1)
      BY <2>1, <3>1
    <3> DEFINE g == [i \in S(k) |-> IF i \in S(k - 1) THEN f[i] ELSE UnionWith(f, n, b, i)]
    <3>3. ASSUME NEW i \in S(k) PROVE g[i] = UnionWith(g, n, b, i)
      <4>1. ~(i > n) => i + 1 \in S(k - 1) /\ i + 1 \in S(k)
        BY <2>2, <3>1, <3>3
      <4>2. ~(i > n) => g[i + 1] = f[i + 1]
        BY <4>1
      <4>3. UnionWith(f, n, b, i) = UnionWith(g, n, b, i)
        <5> HIDE DEF g
        <5>1. CASE ~(i > n)
          <6>1. f[i + 1] = g[i + 1]
            BY Zenon, <4>2, <5>1
          <6>2. QED
            BY Zenon, <5>1, <6>1 DEF UnionWith
        <5>2. CASE i > n
          BY Zenon, <5>2 DEF UnionWith
        <5>3. QED
          BY <5>1, <5>2
      <4>4. i \in S(k - 1) => f[i] = UnionWith(f, n, b, i)
        BY <3>2
      <4>5. g[i] = UnionWith(f, n, b, i)
        BY <3>3, <4>4
      <4>6. QED
        BY Zenon, <4>3, <4>5
    <3>4. g = [i \in S(k) |-> g[i]]
      OBVIOUS
    <3>5. Known(g, k)
      <4> HIDE DEF g, S
      <4>1. QED
        BY <3>3, <3>4
    <3>6. QED
      BY Zenon, <2>2, <3>5
  <2>5. QED
    BY <2>3, <2>4
<1>2. S(n + 1) = 1 .. n + 1
  OBVIOUS
<1>3. \E f : f = [i \in 1 .. n + 1 |-> UnionWith(f, n, b, i)]
  <2>0. n + 1 \in Nat
    OBVIOUS
  <2>1. n + 1 \notin T
    <3> HIDE DEF T
    <3>1. QED
      BY <1>1
  <2>2. \E f : Known(f, n + 1)
    <3> HIDE DEF Known
    <3>1. QED
      BY <2>0, <2>1
  <2> HIDE DEF S
  <2>3. QED
    BY Zenon, <1>2, <2>2
<1>4. Unions(n, b) = [i \in 1 .. n + 1 |-> UnionWith(Unions(n, b), n, b, i)]
  BY Zenon, <1>3 DEF Unions
<1>5. VariantUnion(n, b) = Unions(n, b)[1]
  BY DEF VariantUnion, Unions, UnionWith
<1>6. QED
  BY Zenon, <1>4, <1>5

(* One of them has the first alternative and the rest, the last has none *)
LEMMA UnionFacts ==
  ASSUME NEW n \in Nat, NEW b, NEW i \in 1 .. n + 1
  PROVE  /\ i <= n => /\ Get({Unions(n, b)[i]}, "_M_first") = {Alternative(i, b)}
                      /\ Get({Unions(n, b)[i]}, "_M_rest") = {Unions(n, b)[i + 1]}
         /\ ~(i <= n) => /\ Get({Unions(n, b)[i]}, "_M_first") = {}
                         /\ Get({Unions(n, b)[i]}, "_M_rest") = {}
<1> DEFINE U == Unions(n, b)
           fs == IF i > n THEN NoFields
                 ELSE [f \in {"_M_first", "_M_rest"} |->
                        IF f = "_M_first" THEN Alternative(i, b) ELSE U[i + 1]]
<1>1. U = [j \in 1 .. n + 1 |-> UnionWith(U, n, b, j)]
  BY Zenon, UnionsAre
<1>2. U[i] = UnionWith(U, n, b, i)
  <2> HIDE DEF U
  <2>1. QED
    BY <1>1
<1>3. U[i] = Obj("_Variadic_union", fs, <<>>)
  BY Zenon, <1>2 DEF UnionWith
<1>4. U[i].fields = fs
  <2> HIDE DEF U, fs
  <2>1. \A id : Obj(id, fs, <<>>).fields = fs
    BY ObjectFacts
  <2>2. QED
    BY Zenon, <1>3, <2>1
<1>5. /\ Get({U[i]}, "_M_first") = IF Has(U[i], "_M_first") THEN {U[i].fields["_M_first"]} ELSE {}
      /\ Get({U[i]}, "_M_rest") = IF Has(U[i], "_M_rest") THEN {U[i].fields["_M_rest"]} ELSE {}
  BY Zenon, ReadingOne
<1>6. CASE i <= n
  <2>1. fs = [f \in {"_M_first", "_M_rest"} |->
                IF f = "_M_first" THEN Alternative(i, b) ELSE U[i + 1]]
    BY <1>6
  <2> HIDE DEF U, fs
  <2>2. /\ DOMAIN fs = {"_M_first", "_M_rest"}
        /\ fs["_M_first"] = Alternative(i, b) /\ fs["_M_rest"] = U[i + 1]
    BY <2>1
  <2>3. Has(U[i], "_M_first") /\ Has(U[i], "_M_rest")
    BY <1>4, <2>2 DEF Has
  <2>4. QED
    BY <1>4, <1>5, <1>6, <2>2, <2>3 DEF U
<1>7. CASE ~(i <= n)
  <2>1. fs = NoFields
    BY <1>7
  <2>2. ~Has(U[i], "_M_first") /\ ~Has(U[i], "_M_rest")
    BY Zenon, <1>4, <2>1, LeafFacts DEF Has
  <2> HIDE DEF U
  <2>3. QED
    BY <1>5, <1>7, <2>2 DEF U
<1>8. QED
  BY <1>6, <1>7

(* Down the rests are the unions one after another, and then there is none *)
LEMMA RestIs ==
  ASSUME NEW r \in VariantReps, NEW index \in Nat
  PROVE  Rest(r, index) = IF index <= r.alternatives
                          THEN {Unions(r.alternatives, r.boxed)[index + 1]} ELSE {}
<1> DEFINE n == r.alternatives
           b == r.boxed
           U == Unions(n, b)
           With(f) == [i \in 0 .. index |->
                        IF i = 0 THEN {VariantUnion(n, b)} ELSE Get(f[i - 1], "_M_rest")]
           rest == CHOOSE f : f = With(f)
           At(i) == IF i <= n THEN {U[i + 1]} ELSE {}
           w == [i \in 0 .. index |-> At(i)]
<1>1. Rest(r, index) = rest[index]
  BY Zenon DEF Rest
<1>2. n \in Nat
  BY DEF VariantReps
<1> HIDE DEF n, b
<1>3. VariantUnion(n, b) = U[1]
  BY Zenon, <1>2, UnionsAre
<1>0. ASSUME NEW i \in 1 .. n + 1
      PROVE  /\ i <= n => Get({U[i]}, "_M_rest") = {U[i + 1]}
             /\ ~(i <= n) => Get({U[i]}, "_M_rest") = {}
  <2>1. i \in 1 .. n + 1
    BY <1>0
  <2> HIDE DEF U, rest, At, w, With
  <2>2. ASSUME i <= n PROVE Get({Unions(n, b)[i]}, "_M_rest") = {Unions(n, b)[i + 1]}
    BY Zenon, <1>2, <2>1, <2>2, UnionFacts
  <2>3. ASSUME ~(i <= n) PROVE Get({Unions(n, b)[i]}, "_M_rest") = {}
    BY Zenon, <1>2, <2>1, <2>3, UnionFacts
  <2>4. QED
    BY <2>2, <2>3 DEF U
<1> HIDE DEF U
<1>4. At(0) = {VariantUnion(n, b)}
  BY <1>2, <1>3
<1>5. ASSUME NEW i \in 1 .. index PROVE At(i) = Get(At(i - 1), "_M_rest")
  <2>1. CASE i - 1 <= n
    <3>1. i \in 1 .. n + 1 /\ At(i - 1) = {U[i]}
      <4>1. i \in 1 .. n + 1 /\ (i - 1) + 1 = i
        BY <1>2, <2>1
      <4>2. QED
        BY <2>1, <4>1
    <3>2. /\ i <= n => Get({U[i]}, "_M_rest") = {U[i + 1]}
          /\ ~(i <= n) => Get({U[i]}, "_M_rest") = {}
      BY <1>0, <3>1
    <3>3. QED
      BY <3>1, <3>2
  <2>2. CASE ~(i - 1 <= n)
    <3>1. At(i - 1) = {} /\ At(i) = {}
      BY <1>2, <2>2
    <3>2. Get({}, "_M_rest") = {}
      BY DEF Get
    <3> HIDE DEF At
    <3>3. QED
      BY <3>1, <3>2
  <2>3. QED
    BY <2>1, <2>2
<1> HIDE DEF At
<1>6. w = With(w)
  <2>1. ASSUME NEW i \in 0 .. index
        PROVE  w[i] = IF i = 0 THEN {VariantUnion(n, b)} ELSE Get(w[i - 1], "_M_rest")
    <3>1. w[i] = At(i)
      OBVIOUS
    <3>2. CASE i = 0
      BY <1>4, <3>1, <3>2
    <3>3. CASE i # 0
      <4>1. i - 1 \in 0 .. index /\ i \in 1 .. index
        BY <3>3
      <4>2. w[i - 1] = At(i - 1)
        BY <4>1
      <4> HIDE DEF w
      <4>3. QED
        BY <1>5, <3>1, <3>3, <4>1, <4>2
    <3>4. QED
      BY <3>2, <3>3
  <2>2. w = [i \in 0 .. index |-> w[i]]
    OBVIOUS
  <2> HIDE DEF w
  <2>3. QED
    BY <2>1, <2>2
<1>7. rest = With(rest)
  <2> HIDE DEF w, With
  <2>1. QED
    BY Zenon, <1>6
<1>8. \A i \in 0 .. index :
        rest[i] = IF i = 0 THEN {VariantUnion(n, b)} ELSE Get(rest[i - 1], "_M_rest")
  <2> HIDE DEF rest
  <2>1. QED
    BY <1>7
<1> HIDE DEF rest
<1>9. rest[index] = At(index)
  <2> DEFINE T == {i \in 0 .. index : rest[i] # At(i)}
  <2>1. T = {}
    <3> SUFFICES ASSUME T # {} PROVE FALSE
      OBVIOUS
    <3>1. PICK i \in T : \A j \in T : i <= j
      <4>1. T \in SUBSET Nat
        OBVIOUS
      <4> HIDE DEF T
      <4>2. QED
        BY <4>1, Smallest
    <3>2. i \in 0 .. index /\ rest[i] # At(i)
      BY <3>1
    <3>3. i # 0
      BY <1>4, <1>8, <3>2
    <3>4. i - 1 \in 0 .. index /\ ~(i <= i - 1) /\ i \in 1 .. index
      BY <3>2, <3>3
    <3>5. rest[i - 1] = At(i - 1)
      BY <3>1, <3>4
    <3>6. rest[i] = Get(At(i - 1), "_M_rest")
      BY <1>8, <3>2, <3>3, <3>5
    <3>7. QED
      BY <1>5, <3>2, <3>4, <3>6
  <2>2. index \in 0 .. index
    OBVIOUS
  <2>3. QED
    BY <2>1, <2>2
<1>10. QED
  BY Zenon, <1>1, <1>9 DEF At, U, n, b

(* What is found is the alternative of the index, if there is one *)
LEMMA StorageIs ==
  ASSUME NEW r \in VariantReps
  PROVE  /\ r.index < r.alternatives =>
                VariantStorage(r) = {IF r.index + 1 \in r.boxed
                                     THEN Obj("__aligned_membuf", NoFields, <<>>)
                                     ELSE Leaf(Item[r.index + 1])}
         /\ ~(r.index < r.alternatives) => VariantStorage(r) = {}
<1> DEFINE n == r.alternatives
           b == r.boxed
           k == r.index
           U == Unions(n, b)
           x == IF k + 1 \in b THEN Obj("__aligned_membuf", NoFields, <<>>) ELSE Leaf(Item[k + 1])
<1>1. n \in Nat /\ k \in Nat
  BY DEF VariantReps
<1>2. Rest(r, k) = IF k <= n THEN {U[k + 1]} ELSE {}
  BY Zenon, <1>1, RestIs
<1>3. VariantStorage(r) = Get(Get(Rest(r, k), "_M_first"), "_M_storage")
  BY Zenon DEF VariantStorage
<1>4. Get({}, "_M_first") = {} /\ Get({}, "_M_storage") = {}
  BY DEF Get
<1>5. Alternative(k + 1, b) = Obj("_Uninitialized", Field("_M_storage", x), <<>>)
  BY Zenon DEF Alternative
<1> HIDE DEF n, b, k, x
<1>6. CASE k < n
  <2>1. k <= n /\ k + 1 \in 1 .. n + 1 /\ k + 1 <= n
    BY <1>1, <1>6
  <2>2. Get({U[k + 1]}, "_M_first") = {Alternative(k + 1, b)}
    BY Zenon, <1>1, <2>1, UnionFacts
  <2>3. Get({Alternative(k + 1, b)}, "_M_storage") = {x}
    <3>1. \A id : Get({Obj(id, Field("_M_storage", x), <<>>)}, "_M_storage") = {x}
      BY OneField
    <3>2. QED
      BY Zenon, <1>5, <3>1
  <2> HIDE DEF U
  <2>4. VariantStorage(r) = {x}
    BY Zenon, <1>2, <1>3, <2>1, <2>2, <2>3
  <2>5. QED
    BY Zenon, <1>6, <2>4 DEF n, b, k, x
<1>7. CASE ~(k < n)
  <2>1. Get(Rest(r, k), "_M_first") = {}
    <3>1. CASE k <= n
      <4>1. k + 1 \in 1 .. n + 1 /\ ~(k + 1 <= n)
        BY <1>1, <1>7, <3>1
      <4>2. Get({U[k + 1]}, "_M_first") = {}
        BY Zenon, <1>1, <4>1, UnionFacts
      <4> HIDE DEF U
      <4>3. QED
        BY Zenon, <1>2, <3>1, <4>2
    <3>2. CASE ~(k <= n)
      BY Zenon, <1>2, <1>4, <3>2
    <3>3. QED
      BY <3>1, <3>2
  <2>2. VariantStorage(r) = {}
    BY Zenon, <1>3, <1>4, <2>1
  <2>3. QED
    BY Zenon, <1>7, <2>2 DEF n, k
<1>8. QED
  BY <1>6, <1>7

-----------------------------------------------------------------------------
(* The invariant *)

(* What a holder of a time has *)
TimeReps == [count : Counts, unit : {OtherRatio} \cup Units, clock : {""} \cup Clocks]

(* What a holder of a time has, and what a result keeps of it *)
TimeKept ==
    kind \in Times =>
        /\ rep \in TimeReps
        /\ kept.what = "time" =>
            /\ rep.unit # OtherRatio /\ kept.unit = AppliedUnit(rep.unit)
            /\ kept.count \in Counts
            /\ fresh => kept.count = rep.count

(* A variant has a number of alternatives, and an index, damaged or not *)
VariantCounts ==
    kind = "variant" => rep \in VariantReps

HInv == TypeOK /\ TimeKept /\ VariantCounts /\ TimesAgree

-----------------------------------------------------------------------------
(* What the formatters show of a time *)

(* A count that nothing overflows of is in range in nanoseconds *)
LEMMA FitsInRange ==
  ASSUME NEW u \in Units, NEW c \in Int, Fits(c, u)
  PROVE  InRange(c * UnitLength[u])
<1> DEFINE l == UnitLength[u]
<1>1. l \in Nat \ {0} /\ UnitLength[1] = 1 /\ 1 \in Units
  BY UnitTypes DEF Units
<1>2. CommonDivisor(l, 1) = 1
  <2>1. CommonDivisor(l, 1) \in 1 .. 1
    BY <1>1, CommonDivisorIs
  <2>2. QED
    BY <2>1
<1>3. Numerator(u, 1) = l \div 1
  BY Zenon, <1>1, <1>2 DEF Numerator
<1> HIDE DEF l
<1>4. l \div 1 = l
  BY <1>1
<1>5. Wrap(c * l) = c * l
  BY Zenon, <1>1, <1>3, <1>4 DEF Fits
<1>6. c * l \in Int
  BY <1>1
<1>7. InRange(c * l)
  BY <1>5, <1>6, WrapKeeps
<1>8. QED
  BY Zenon, <1>7 DEF l

(* The times of which the properties speak *)
Exact(r) == r.unit \in Units /\ r.unit \notin {Week, Month} /\ Fits(r.count, r.unit)
Span(r)  == r.count * UnitLength[r.unit]

(* What an answer about r must say, if r is one of them *)
TimesRight(r, a, f) ==
    Exact(r) =>
        /\ a.what = "duration" =>
            /\ a.count = r.count /\ a.unit = r.unit
            /\ Sum(a.parts, WrittenLengths) = Span(r) + Twice(Span(r))
        /\ a.what = "epoch" =>
            a.plus = (Span(r) > 0) /\ Sum(a.parts, WrittenLengths) = Span(r) + Twice(Span(r))
        /\ a.what = "time" => a.second * UnitLength[Second] + a.fraction = Span(r)
        /\ a.what = "child" /\ a.name = "rep" => a.value = r.count
        /\ a.what = "child" /\ a.name = "UTC" =>
            a.value[1] * UnitLength[Second] + a.value[2] = Span(r)
        /\ a.what = "child" /\ f =>
            /\ a.name = "total" =>
                \A i \in 1 .. 9 : a.value[i] = Quotient(Span(r), WrittenLengths[i])
            /\ a.name = "normalized" => Sum(a.value, WrittenLengths) = Span(r) + Twice(Span(r))
            /\ a.name = "parts" => Sum(a.value, SecondLengths) = Span(r)

(* That is what TimesAgree says of the next state *)
LEMMA TimesNext ==
  ASSUME kind' \in Times => TimesRight(rep', answer', fresh')
  PROVE  TimesAgree'
BY DEF TimesAgree, TimesRight, Exact, Span, WrittenLengths, Twice, SecondLengths

(* Answers of the other kinds say nothing about times *)
LEMMA OtherAnswers ==
  ASSUME NEW r, NEW a, NEW f, a.what \notin {"duration", "epoch", "time", "child"}
  PROVE  TimesRight(r, a, f)
BY DEF TimesRight

(* Every duration and time point shown is right *)
LEMMA ShownTimes ==
  ASSUME NEW r, r.count \in Counts, Exact(r)
  PROVE  /\ r.count \in Int /\ r.unit \in Units /\ AppliedUnit(r.unit) = r.unit
         /\ InRange(r.count * UnitLength[r.unit])
         /\ Sum(Normalized(r.count, r.unit), WrittenLengths) = Span(r) + Twice(Span(r))
         /\ (r.count > 0) = (Span(r) > 0)
         /\ TimeT(r.count, r.unit) * UnitLength[Second] + Fraction(r.count, r.unit) = Span(r)
         /\ Sum(<<TimeT(r.count, r.unit)>> \o SubSecond(r.count, r.unit), SecondLengths) = Span(r)
         /\ \A i \in 1 .. 9 : DurationValue(r.count, r.unit, Written[i])
                              = Quotient(Span(r), WrittenLengths[i])
<1> DEFINE c == r.count
           u == r.unit
<1>1. c \in Int /\ u \in Units /\ u \notin {Week, Month} /\ Fits(c, u)
  BY HoldersAssumption DEF Exact
<1>2. AppliedUnit(u) = u
  BY <1>1 DEF AppliedUnit
<1>3. InRange(c * UnitLength[u])
  BY <1>1, FitsInRange
<1>4. Span(r) = c * UnitLength[u]
  BY DEF Span
<1> HIDE DEF c, u
<1>5. Sum(Normalized(c, u), WrittenLengths) = Span(r) + Twice(Span(r))
  <2>1. Sum(Normalized(c, u), WrittenLengths) = c * UnitLength[u] + Twice(c * UnitLength[u])
    BY Zenon, <1>1, <1>3, NormalizedSums
  <2>2. QED
    BY Zenon, <1>4, <2>1
<1>6. (c > 0) = (Span(r) > 0)
  <2> DEFINE l == UnitLength[u]
  <2>1. l \in Nat \ {0}
    BY <1>1, UnitTypes
  <2> HIDE DEF l
  <2>2. l * 0 = 0 /\ l * c = c * l
    BY <1>1, <2>1
  <2>3. (0 < c => l * 0 < l * c) /\ (c <= 0 => l * c <= l * 0)
    BY <1>1, <2>1, Stretched
  <2>4. l * c \in Int
    BY <1>1, <2>1
  <2>5. (c > 0) <=> (c * l > 0)
    BY <1>1, <2>2, <2>3, <2>4
  <2>6. QED
    BY <1>4, <2>5 DEF l
<1>7. TimeT(c, u) * UnitLength[Second] + Fraction(c, u) = Span(r)
  BY Zenon, <1>1, <1>3, <1>4, SecondsSum
<1>8. Sum(<<TimeT(c, u)>> \o SubSecond(c, u), SecondLengths) = Span(r)
  BY Zenon, <1>1, <1>3, <1>4, SubSecondSums
<1>9. ASSUME NEW i \in 1 .. 9
      PROVE  DurationValue(c, u, Written[i]) = Quotient(Span(r), WrittenLengths[i])
  <2>1. Written[i] \in Units /\ WrittenLengths[i] = UnitLength[Written[i]]
    BY DEF Written, Units, Year, Month, Day, WrittenLengths
  <2>2. Cast(c, u, Written[i]) = Quotient(c * UnitLength[u], UnitLength[Written[i]])
    BY Zenon, <1>1, <1>3, <2>1, CastIs
  <2>3. QED
    BY Zenon, <1>4, <2>1, <2>2 DEF DurationValue
<1>10. QED
  BY Zenon, <1>1, <1>2, <1>3, <1>5, <1>6, <1>7, <1>8, <1>9 DEF c, u

-----------------------------------------------------------------------------
(* The steps *)

(* What is left alone keeps its type *)
LEMMA SameTypes ==
  ASSUME TypeOK, UNCHANGED <<typeVars, kind, intact, changes>>, fresh' \in BOOLEAN,
         kept'.what \in {"none", "items", "time", "epoch"},
         answer'.what \in {"none", "error", "shown", "duration", "time", "epoch", "child",
                           "type", "field"},
         kind = "variant" /\ kept'.what = "items" => kept'.index \in 0 .. rep'.alternatives - 1
  PROVE  TypeOK'
BY DEF TypeOK, typeVars

(* Formatting a duration keeps the invariant *)
LEMMA DurationKeeps ==
  ASSUME HInv, FormatDuration
  PROVE  HInv'
<1> DEFINE u == AppliedUnit(rep.unit)
<1>1. /\ kind = "duration" /\ kind \in Times /\ kind # "variant" /\ fresh' = TRUE
      /\ UNCHANGED <<typeVars, kind, rep, intact, changes>>
  BY DEF FormatDuration, Times, holder
<1>2. rep \in TimeReps /\ rep.count \in Counts /\ rep.unit \in {OtherRatio} \cup Units
  <2>1. rep \in TimeReps
    BY <1>1 DEF HInv, TimeKept
  <2>2. QED
    BY <2>1 DEF TimeReps
<1>3. CASE ~HasRatio(rep)
  <2>1. answer' = [what |-> "error"] /\ kept' = [what |-> "none"]
    BY <1>3 DEF FormatDuration, None
  <2>2. answer'.what = "error" /\ kept'.what = "none"
    BY <2>1
  <2>3. TypeOK'
    BY <1>1, <2>2, SameTypes DEF HInv
  <2>4. TimeKept' /\ VariantCounts'
    BY <1>1, <1>2, <2>2 DEF TimeKept, VariantCounts
  <2>5. TimesAgree'
    BY <2>2, OtherAnswers, TimesNext
  <2>6. QED
    BY <2>3, <2>4, <2>5 DEF HInv
<1>4. CASE HasRatio(rep)
  <2>1. /\ answer' = [what |-> "duration", count |-> rep.count, unit |-> u,
                      parts |-> Normalized(rep.count, u)]
        /\ kept' = [what |-> "time", count |-> rep.count, unit |-> u]
    BY <1>4 DEF FormatDuration
  <2> HIDE DEF u
  <2>2. /\ answer'.what = "duration" /\ answer'.count = rep.count /\ answer'.unit = u
        /\ answer'.parts = Normalized(rep.count, u)
        /\ kept'.what = "time" /\ kept'.count = rep.count /\ kept'.unit = u
    BY <2>1
  <2>3. TypeOK'
    BY <1>1, <2>2, SameTypes DEF HInv
  <2>4. TimeKept' /\ VariantCounts'
    BY <1>1, <1>2, <1>4, <2>2 DEF TimeKept, VariantCounts, HasRatio, u
  <2>5. TimesRight(rep, answer', fresh')
    <3> SUFFICES ASSUME Exact(rep) PROVE TimesRight(rep, answer', fresh')
      BY DEF TimesRight
    <3>1. u = rep.unit /\ Sum(Normalized(rep.count, rep.unit), WrittenLengths) = Span(rep) + Twice(Span(rep))
      BY Zenon, <1>2, ShownTimes DEF u
    <3>2. Sum(answer'.parts, WrittenLengths) = Span(rep) + Twice(Span(rep))
      BY Zenon, <2>2, <3>1
    <3>3. QED
      BY <2>2, <3>1, <3>2 DEF TimesRight
  <2>6. TimesAgree'
    BY <1>1, <2>5, TimesNext
  <2>7. QED
    BY <2>3, <2>4, <2>6 DEF HInv
<1>5. QED
  BY <1>3, <1>4

(* Formatting a time point keeps it *)
LEMMA TimePointKeeps ==
  ASSUME HInv, FormatTimePoint
  PROVE  HInv'
<1> DEFINE u == AppliedUnit(rep.unit)
<1>1. /\ kind = "time_point" /\ kind \in Times /\ kind # "variant" /\ fresh' = TRUE
      /\ UNCHANGED <<typeVars, kind, rep, intact, changes>>
  BY DEF FormatTimePoint, Times, holder
<1>2. rep \in TimeReps /\ rep.count \in Counts /\ rep.unit \in {OtherRatio} \cup Units
  <2>1. rep \in TimeReps
    BY <1>1 DEF HInv, TimeKept
  <2>2. QED
    BY <2>1 DEF TimeReps
<1>3. CASE rep.clock # "system_clock"
  <2> DEFINE ps == IF ~HasRatio(rep) THEN <<>> ELSE Normalized(rep.count, u)
  <2>1. /\ answer' = [what |-> "epoch", plus |-> rep.count > 0, count |-> rep.count, parts |-> ps]
        /\ kept' = [what |-> "epoch"]
    BY <1>3 DEF FormatTimePoint
  <2> HIDE DEF ps
  <2>2. /\ answer'.what = "epoch" /\ answer'.plus = (rep.count > 0) /\ answer'.parts = ps
        /\ kept'.what = "epoch"
    BY <2>1
  <2>3. TypeOK'
    BY <1>1, <2>2, SameTypes DEF HInv
  <2>4. TimeKept' /\ VariantCounts'
    BY <1>1, <1>2, <2>2 DEF TimeKept, VariantCounts
  <2>5. TimesRight(rep, answer', fresh')
    <3> SUFFICES ASSUME Exact(rep) PROVE TimesRight(rep, answer', fresh')
      BY DEF TimesRight
    <3>1. /\ u = rep.unit /\ (rep.count > 0) = (Span(rep) > 0)
          /\ Sum(Normalized(rep.count, rep.unit), WrittenLengths) = Span(rep) + Twice(Span(rep))
      BY Zenon, <1>2, ShownTimes DEF u
    <3>2. ps = Normalized(rep.count, u)
      BY DEF ps, HasRatio, OtherRatio, Exact, Units
    <3>3. Sum(answer'.parts, WrittenLengths) = Span(rep) + Twice(Span(rep))
      BY Zenon, <2>2, <3>1, <3>2
    <3>4. answer'.plus = (Span(rep) > 0)
      BY Zenon, <2>2, <3>1
    <3>5. QED
      BY <2>2, <3>3, <3>4 DEF TimesRight
  <2>6. TimesAgree'
    BY <1>1, <2>5, TimesNext
  <2>7. QED
    BY <2>3, <2>4, <2>6 DEF HInv
<1>4. CASE rep.clock = "system_clock" /\ ~HasRatio(rep)
  <2>1. answer' = [what |-> "error"] /\ kept' = [what |-> "none"]
    BY <1>4 DEF FormatTimePoint, None
  <2>2. answer'.what = "error" /\ kept'.what = "none"
    BY <2>1
  <2>3. TypeOK'
    BY <1>1, <2>2, SameTypes DEF HInv
  <2>4. TimeKept' /\ VariantCounts'
    BY <1>1, <1>2, <2>2 DEF TimeKept, VariantCounts
  <2>5. TimesAgree'
    BY <2>2, OtherAnswers, TimesNext
  <2>6. QED
    BY <2>3, <2>4, <2>5 DEF HInv
<1>5. CASE rep.clock = "system_clock" /\ HasRatio(rep)
  <2>1. /\ answer' = [what |-> "time", second |-> TimeT(rep.count, u),
                      fraction |-> Fraction(rep.count, u)]
        /\ kept' = [what |-> "time", count |-> rep.count, unit |-> u]
    BY <1>5 DEF FormatTimePoint
  <2> HIDE DEF u
  <2>2. /\ answer'.what = "time" /\ answer'.second = TimeT(rep.count, u)
        /\ answer'.fraction = Fraction(rep.count, u)
        /\ kept'.what = "time" /\ kept'.count = rep.count /\ kept'.unit = u
    BY <2>1
  <2>3. TypeOK'
    BY <1>1, <2>2, SameTypes DEF HInv
  <2>4. TimeKept' /\ VariantCounts'
    BY <1>1, <1>2, <1>5, <2>2 DEF TimeKept, VariantCounts, HasRatio, u
  <2>5. TimesRight(rep, answer', fresh')
    <3> SUFFICES ASSUME Exact(rep) PROVE TimesRight(rep, answer', fresh')
      BY DEF TimesRight
    <3>1. /\ u = rep.unit
          /\ TimeT(rep.count, rep.unit) * UnitLength[Second] + Fraction(rep.count, rep.unit) = Span(rep)
      BY Zenon, <1>2, ShownTimes DEF u
    <3>2. answer'.second * UnitLength[Second] + answer'.fraction = Span(rep)
      BY Zenon, <2>2, <3>1
    <3>3. QED
      BY <2>2, <3>2 DEF TimesRight
  <2>6. TimesAgree'
    BY <1>1, <2>5, TimesNext
  <2>7. QED
    BY <2>3, <2>4, <2>6 DEF HInv
<1>6. QED
  BY <1>3, <1>4, <1>5

(* Making type objects keeps the types of what is made *)
LEMMA GetOrCreateKeeps ==
  ASSUME TypeOK, NEW m \in [Followed -> {NotMade} \cup 0 .. MaxFields], NEW t
  PROVE  GetOrCreate(m, t) \in [Followed -> {NotMade} \cup 0 .. MaxFields]
<1>1. CASE t \in Followed /\ m[t] = NotMade
  <2>1. Plain(t) \in Growing
    BY <1>1 DEF Followed
  <2>2. Constructed(t) \in 0 .. MaxFields
    BY <2>1 DEF TypeOK, Constructed
  <2>3. [m EXCEPT ![t] = Constructed(t)] \in [Followed -> {NotMade} \cup 0 .. MaxFields]
    BY <2>2
  <2>4. QED
    BY <1>1, <2>3 DEF GetOrCreate
<1>2. CASE ~(t \in Followed /\ m[t] = NotMade)
  <2>1. GetOrCreate(m, t) = m
    BY <1>2 DEF GetOrCreate
  <2>2. QED
    BY Zenon, <2>1
<1>3. QED
  BY <1>1, <1>2

(* What formatting a holder answers, and keeps *)
LEMMA HolderAnswers ==
  ASSUME FormatHolder
  PROVE  \/ Shown(kind, rep) = {} /\ answer' = [what |-> "error"] /\ kept' = [what |-> "none"]
         \/ \E shown \in Shown(kind, rep) :
                /\ answer' = [what |-> "shown", items |-> shown]
                /\ kept' = [what |-> "items", items |-> shown,
                            index |-> IF kind = "variant" THEN rep.index ELSE 0]
<1> DEFINE items == Shown(kind, rep)
<1>1. CASE items = {}
  BY <1>1 DEF FormatHolder, None
<1>2. CASE items # {}
  <2>1. (CHOOSE i \in items : TRUE) \in items
    BY <1>2
  <2>2. QED
    BY <1>2, <2>1 DEF FormatHolder
<1>3. QED
  BY <1>1, <1>2

(* Formatting any other holder keeps it *)
LEMMA HolderKeeps ==
  ASSUME HInv, FormatHolder
  PROVE  HInv'
<1> DEFINE items == Shown(kind, rep)
           M == [Followed -> {NotMade} \cup 0 .. MaxFields]
<1>1. /\ kind \notin Times /\ fresh' = TRUE
      /\ UNCHANGED <<fields, grown, params, kind, rep, intact, changes>>
  BY DEF FormatHolder, holder
<1>2. made' = Touched(kind, rep, items)
  BY DEF FormatHolder
<1>3. made' \in M
  <2>1. TypeOK /\ made \in M
    BY DEF HInv, TypeOK
  <2>2. \E s, t : made' = GetOrCreate(GetOrCreate(made, s), t)
    BY Zenon, <1>2 DEF Touched
  <2>3. PICK s, t : made' = GetOrCreate(GetOrCreate(made, s), t)
    BY Zenon, <2>2
  <2>4. GetOrCreate(made, s) \in M
    BY <2>1, GetOrCreateKeeps
  <2>5. GetOrCreate(GetOrCreate(made, s), t) \in M
    BY <2>1, <2>4, GetOrCreateKeeps
  <2>6. QED
    BY Zenon, <2>3, <2>5
<1>4. \/ items = {} /\ answer' = [what |-> "error"] /\ kept' = [what |-> "none"]
      \/ \E shown \in items :
            /\ answer' = [what |-> "shown", items |-> shown]
            /\ kept' = [what |-> "items", items |-> shown,
                        index |-> IF kind = "variant" THEN rep.index ELSE 0]
  BY Zenon, HolderAnswers
<1>5. kind = "variant" /\ items # {} => rep.index \in 0 .. rep.alternatives - 1
  <2> SUFFICES ASSUME kind = "variant", items # {} PROVE rep.index \in 0 .. rep.alternatives - 1
    OBVIOUS
  <2>1. rep.alternatives \in Nat /\ rep.index \in Nat
    BY DEF HInv, VariantCounts, VariantReps
  <2>2. VariantStorage(rep) # {}
    <3>1. items = {<<o.holds>> : o \in VariantStorage(rep)}
      BY DEF Shown
    <3>2. QED
      BY <3>1
  <2>3. rep.index < rep.alternatives
    BY Zenon, <2>2, StorageIs DEF HInv, VariantCounts
  <2>4. QED
    BY <2>1, <2>3
<1> HIDE DEF items
<1>6. /\ answer'.what \in {"error", "shown"} /\ kept'.what \in {"none", "items"}
      /\ kind = "variant" /\ kept'.what = "items" => items # {} /\ kept'.index = rep.index
  BY <1>4
<1>7. TypeOK'
  BY <1>1, <1>3, <1>5, <1>6 DEF HInv, TypeOK
<1>8. TimeKept' /\ VariantCounts'
  BY <1>1 DEF HInv, TimeKept, VariantCounts
<1>9. TimesAgree'
  BY <1>1, TimesNext
<1>10. QED
  BY <1>7, <1>8, <1>9 DEF HInv

(* The children of a time *)
LEMMA TimeChildren ==
  ASSUME TimeKept, Expand, kind \in Times
  PROVE  TimesRight(rep, answer', fresh)
<1> DEFINE c == rep.count
           u == rep.unit
<1>1. c \in Counts /\ u \in {OtherRatio} \cup Units
  <2>1. rep \in TimeReps
    BY DEF TimeKept
  <2>2. QED
    BY <2>1 DEF TimeReps
<1> SUFFICES ASSUME Exact(rep) PROVE TimesRight(rep, answer', fresh)
  BY DEF TimesRight
<1>2. kept.what = "time" => kept.unit = u /\ (fresh => kept.count = c)
  <2>1. AppliedUnit(u) = u
    BY Zenon, <1>1, ShownTimes
  <2>2. QED
    BY Zenon, <2>1 DEF TimeKept
<1>3. CASE answer' \in KeptChild
  <2>1. CASE kept.what = "time" /\ kind = "duration"
    <3> DEFINE tot == [i \in 1 .. 9 |-> DurationValue(kept.count, kept.unit, Written[i])]
               nor == Normalized(kept.count, kept.unit)
    <3>1. answer' = Child("total", tot) \/ answer' = Child("normalized", nor)
      BY <1>3, <2>1 DEF KeptChild
    <3>2. fresh => /\ \A i \in 1 .. 9 : tot[i] = Quotient(Span(rep), WrittenLengths[i])
                   /\ Sum(nor, WrittenLengths) = Span(rep) + Twice(Span(rep))
      <4> SUFFICES ASSUME fresh
                   PROVE  /\ \A i \in 1 .. 9 : tot[i] = Quotient(Span(rep), WrittenLengths[i])
                          /\ Sum(nor, WrittenLengths) = Span(rep) + Twice(Span(rep))
        OBVIOUS
      <4>1. kept.unit = rep.unit /\ kept.count = rep.count
        BY <1>2, <2>1
      <4>2. /\ \A i \in 1 .. 9 : DurationValue(kept.count, kept.unit, Written[i])
                                 = Quotient(Span(rep), WrittenLengths[i])
            /\ Sum(nor, WrittenLengths) = Span(rep) + Twice(Span(rep))
        BY Zenon, <1>1, <4>1, ShownTimes
      <4>3. QED
        BY <4>2
    <3> HIDE DEF tot, nor
    <3>3. /\ answer'.what = "child"
          /\ \/ answer'.name = "total" /\ answer'.value = tot
             \/ answer'.name = "normalized" /\ answer'.value = nor
      BY <3>1 DEF Child
    <3>4. QED
      BY <3>2, <3>3 DEF TimesRight
  <2>2. CASE kept.what = "time" /\ kind = "time_point"
    <3> DEFINE par == <<TimeT(kept.count, kept.unit)>> \o SubSecond(kept.count, kept.unit)
    <3>1. answer' = Child("parts", par)
      BY <1>3, <2>2 DEF KeptChild
    <3>2. fresh => Sum(par, SecondLengths) = Span(rep)
      <4> SUFFICES ASSUME fresh PROVE Sum(par, SecondLengths) = Span(rep)
        OBVIOUS
      <4>1. kept.unit = rep.unit /\ kept.count = rep.count
        BY <1>2, <2>2
      <4>2. QED
        BY Zenon, <1>1, <4>1, ShownTimes
    <3> HIDE DEF par
    <3>3. answer'.what = "child" /\ answer'.name = "parts" /\ answer'.value = par
      BY <3>1 DEF Child
    <3>4. QED
      BY <3>2, <3>3 DEF TimesRight
  <2>3. CASE kept.what # "time"
    <3>1. kept.what = "items" /\ answer' = Child("value", kept.items)
      BY <1>3, <2>3 DEF KeptChild, Times
    <3>2. answer'.what = "child" /\ answer'.name = "value"
      BY <3>1 DEF Child
    <3>3. QED
      BY <3>2 DEF TimesRight
  <2>4. QED
    BY <2>1, <2>2, <2>3 DEF Times
<1>4. CASE answer' \in ReadChild
  <2> DEFINE utc == <<TimeT(rep.count, kept.unit), Fraction(rep.count, kept.unit)>>
  <2>1. answer' = Child("rep", rep.count) \/ (kept.what = "time" /\ answer' = Child("UTC", utc))
    BY <1>4 DEF ReadChild, Times
  <2>2. kept.what = "time" => utc[1] * UnitLength[Second] + utc[2] = Span(rep)
    <3> SUFFICES ASSUME kept.what = "time"
                 PROVE  utc[1] * UnitLength[Second] + utc[2] = Span(rep)
      OBVIOUS
    <3>1. utc[1] = TimeT(rep.count, rep.unit) /\ utc[2] = Fraction(rep.count, rep.unit)
      BY <1>2
    <3>2. TimeT(rep.count, rep.unit) * UnitLength[Second] + Fraction(rep.count, rep.unit) = Span(rep)
      BY Zenon, <1>1, ShownTimes
    <3> HIDE DEF utc
    <3>3. QED
      BY Zenon, <3>1, <3>2
  <2> HIDE DEF utc
  <2>3. /\ answer'.what = "child"
        /\ \/ answer'.name = "rep" /\ answer'.value = rep.count
           \/ kept.what = "time" /\ answer'.name = "UTC" /\ answer'.value = utc
    BY <2>1 DEF Child
  <2>4. QED
    BY <2>2, <2>3 DEF TimesRight
<1>5. QED
  BY <1>3, <1>4 DEF Expand

(* Every child is one *)
LEMMA ChildrenAre ==
  ASSUME Expand
  PROVE  answer'.what = "child"
<1>1. \A name, v : Child(name, v).what = "child"
  BY DEF Child
<1>2. \A a \in KeptChild : \E name, v : a = Child(name, v)
  BY DEF KeptChild
<1>3. \A a \in ReadChild : \E name, v : a = Child(name, v)
  BY DEF ReadChild
<1>4. QED
  BY <1>1, <1>2, <1>3 DEF Expand

(* Expanding a child keeps it *)
LEMMA ExpandKeeps ==
  ASSUME HInv, Expand
  PROVE  HInv'
<1>1. UNCHANGED <<typeVars, kind, rep, intact, changes, fresh, kept>>
  BY DEF Expand, holder
<1>2. TypeOK'
  BY <1>1, ChildrenAre, SameTypes DEF HInv, TypeOK
<1>3. TimeKept' /\ VariantCounts'
  BY <1>1 DEF HInv, TimeKept, VariantCounts
<1>4. TimesAgree'
  <2>1. kind \in Times => TimesRight(rep, answer', fresh)
    BY TimeChildren DEF HInv
  <2>2. QED
    BY Zenon, <1>1, <2>1, TimesNext
<1>5. QED
  BY <1>2, <1>3, <1>4 DEF HInv

(* Times and variants, as the library leaves them *)
LEMMA IntactReps ==
  ASSUME NEW kd, NEW h \in IntactOf(kd)
  PROVE  /\ kd \in Times => h.rep \in TimeReps
         /\ kd = "variant" => h.rep \in VariantReps
<1>1. CASE kd \in Times
  <2>1. h \in IntactTime({""}) \/ h \in IntactTime(Clocks)
    BY <1>1 DEF IntactOf, Times
  <2>2. ASSUME NEW ls \in SUBSET ({""} \cup Clocks), h \in IntactTime(ls)
        PROVE  h.rep \in TimeReps
    <3>1. PICK r \in [count : Counts, unit : {OtherRatio} \cup Units, clock : ls] : h = Held(r, <<>>)
      BY Zenon, <2>2 DEF IntactTime
    <3>2. h.rep = r
      BY <3>1 DEF Held
    <3>3. r \in TimeReps
      BY <3>1 DEF TimeReps
    <3>4. QED
      BY Zenon, <3>2, <3>3
  <2>3. {""} \in SUBSET ({""} \cup Clocks) /\ Clocks \in SUBSET ({""} \cup Clocks)
    OBVIOUS
  <2>4. h.rep \in TimeReps
    BY Zenon, <2>1, <2>2, <2>3
  <2>5. QED
    BY <1>1, <2>4 DEF Times
<1>2. CASE kd = "variant"
  <2>1. h \in IntactVariant
    BY <1>2 DEF IntactOf
  <2>2. PICK p \in (1 .. MaxElems) \X (0 .. NoAlternative), b \in SUBSET Nat :
            h = Held([alternatives |-> p[1], boxed |-> b, index |-> p[2]],
                     IF p[2] = NoAlternative THEN <<>> ELSE <<Item[p[2] + 1]>>)
    <3>1. PICK p \in (1 .. MaxElems) \X (0 .. NoAlternative) :
              \E b \in SUBSET (1 .. p[1]) :
                h = Held([alternatives |-> p[1], boxed |-> b, index |-> p[2]],
                         IF p[2] = NoAlternative THEN <<>> ELSE <<Item[p[2] + 1]>>)
      BY Zenon, <2>1 DEF IntactVariant
    <3>2. PICK b \in SUBSET (1 .. p[1]) :
                h = Held([alternatives |-> p[1], boxed |-> b, index |-> p[2]],
                         IF p[2] = NoAlternative THEN <<>> ELSE <<Item[p[2] + 1]>>)
      BY Zenon, <3>1
    <3>3. b \in SUBSET Nat
      OBVIOUS
    <3>4. QED
      BY Zenon, <3>2, <3>3
  <2>3. h.rep = [alternatives |-> p[1], boxed |-> b, index |-> p[2]]
    BY <2>2 DEF Held
  <2>4. p[1] \in Nat /\ p[2] \in Nat /\ b \in SUBSET Nat
    BY HoldersAssumption DEF NoAlternative
  <2>5. h.rep \in VariantReps
    BY <2>3, <2>4 DEF VariantReps
  <2>6. QED
    BY <1>2, <2>5 DEF Times
<1>3. QED
  BY <1>1, <1>2

(* Whatever the debuggee does to a holder's contents *)
LEMMA RanKeeps ==
  ASSUME HInv, Ran, intact' \in BOOLEAN,
         kind \in Times => rep' \in TimeReps /\ rep'.unit = rep.unit,
         kind = "variant" => rep' \in VariantReps /\ rep'.alternatives = rep.alternatives
  PROVE  HInv'
<1>1. /\ UNCHANGED <<typeVars, kind, kept>> /\ fresh' = FALSE /\ changes' = changes + 1
      /\ changes < MaxChanges /\ answer' = [what |-> "none"]
  BY DEF Ran, None
<1>2. answer'.what = "none"
  BY <1>1
<1>3. TypeOK'
  <2>1. changes' \in 0 .. MaxChanges
    BY <1>1, HoldersAssumption DEF HInv, TypeOK
  <2>2. QED
    BY <1>1, <1>2, <2>1 DEF HInv, TypeOK, typeVars
<1>4. TimeKept' /\ VariantCounts'
  BY <1>1 DEF HInv, TimeKept, VariantCounts
<1>5. TimesAgree'
  BY <1>2, OtherAnswers, TimesNext
<1>6. QED
  BY <1>3, <1>4, <1>5 DEF HInv

(* Storing something else keeps it *)
LEMMA ChangeKeeps ==
  ASSUME HInv, Change
  PROVE  HInv'
<1>1. PICK h \in IntactOf(kind) : SameType(rep, h.rep) /\ rep' = h.rep
  BY DEF Change
<1>2. Ran /\ intact' = TRUE
  BY DEF Change
<1>3. kind \in Times => rep' \in TimeReps /\ rep'.unit = rep.unit
  <2> SUFFICES ASSUME kind \in Times PROVE rep' \in TimeReps /\ rep'.unit = rep.unit
    OBVIOUS
  <2>1. rep' \in TimeReps
    BY Zenon, <1>1, IntactReps
  <2>2. rep \in TimeReps
    BY DEF HInv, TimeKept
  <2>3. "unit" \in DOMAIN rep
    BY <2>2 DEF TimeReps
  <2>4. rep["unit"] = h.rep["unit"]
    BY <1>1, <2>3 DEF SameType
  <2>5. QED
    BY <1>1, <2>1, <2>4
<1>4. kind = "variant" => rep' \in VariantReps /\ rep'.alternatives = rep.alternatives
  <2> SUFFICES ASSUME kind = "variant"
               PROVE  rep' \in VariantReps /\ rep'.alternatives = rep.alternatives
    OBVIOUS
  <2>1. rep' \in VariantReps
    BY Zenon, <1>1, IntactReps
  <2>2. rep \in VariantReps
    BY DEF HInv, VariantCounts
  <2>3. "alternatives" \in DOMAIN rep
    BY <2>2 DEF VariantReps
  <2>4. rep["alternatives"] = h.rep["alternatives"]
    BY <1>1, <2>3 DEF SameType
  <2>5. QED
    BY <1>1, <2>1, <2>4
<1>5. QED
  BY <1>2, <1>3, <1>4, RanKeeps

(* Damage keeps it *)
LEMMA DamageKeeps ==
  ASSUME HInv, Damage
  PROVE  HInv'
<1>1. Ran /\ intact' = FALSE
  BY DEF Damage
<1>2. kind \notin Times
  BY DEF Damage, Times
<1>3. kind = "variant" => rep' \in VariantReps /\ rep'.alternatives = rep.alternatives
  <2> SUFFICES ASSUME kind = "variant"
               PROVE  rep' \in VariantReps /\ rep'.alternatives = rep.alternatives
    OBVIOUS
  <2>1. PICK i \in 0 .. NoAlternative : rep' = [rep EXCEPT !.index = i]
    BY DEF Damage
  <2>2. i \in Nat
    BY HoldersAssumption DEF NoAlternative
  <2>3. rep \in VariantReps
    BY DEF HInv, VariantCounts
  <2>4. QED
    BY <2>1, <2>2, <2>3 DEF VariantReps
<1>4. QED
  BY <1>1, <1>2, <1>3, RanKeeps

(* The type context answers for itself *)
LEMMA AskKeeps ==
  ASSUME HInv, Ask
  PROVE  HInv'
<1>1. TypeNext /\ UNCHANGED <<kind, rep, intact, changes, fresh, kept>>
  BY DEF Ask, holder
<1>2. /\ params' = params /\ answer'.what \in {"none", "type", "field"}
      /\ made' \in [Followed -> {NotMade} \cup 0 .. MaxFields]
      /\ fields' \in [Growing -> 0 .. MaxFields] /\ grown' \subseteq Growing
  <2>1. /\ fields \in [Growing -> 0 .. MaxFields] /\ grown \subseteq Growing
        /\ made \in [Followed -> {NotMade} \cup 0 .. MaxFields]
    BY DEF HInv, TypeOK
  <2>2. ASSUME NEW n \in Names, AskName(n)
        PROVE  /\ UNCHANGED <<fields, grown, params>> /\ answer'.what = "type"
               /\ made' \in [Followed -> {NotMade} \cup 0 .. MaxFields]
    <3>1. made' = GetOrCreate(made, FindType(n))
      BY <2>2 DEF AskName
    <3>2. GetOrCreate(made, FindType(n)) \in [Followed -> {NotMade} \cup 0 .. MaxFields]
      BY <2>1, GetOrCreateKeeps DEF HInv
    <3>3. UNCHANGED <<fields, grown, params>> /\ answer'.what = "type"
      BY <2>2 DEF AskName
    <3>4. QED
      BY <3>1, <3>2, <3>3
  <2>3. ASSUME NEW t \in Followed, NEW i \in 0 .. MaxFields, AskField(t, i)
        PROVE  UNCHANGED typeVars /\ answer'.what = "field"
    BY <2>3 DEF AskField
  <2>4. ASSUME NEW c \in Growing, AddField(c)
        PROVE  /\ UNCHANGED <<made, params>> /\ answer'.what = "none"
               /\ fields' \in [Growing -> 0 .. MaxFields] /\ grown' \subseteq Growing
    <3>1. fields[c] + 1 \in 0 .. MaxFields
      BY <2>1, <2>4, TermsAssumption DEF AddField
    <3>2. QED
      BY <2>1, <2>4, <3>1 DEF AddField
  <2>5. QED
    BY <1>1, <2>1, <2>2, <2>3, <2>4 DEF TypeNext, typeVars
<1>3. TypeOK'
  BY <1>1, <1>2 DEF HInv, TypeOK
<1>4. TimeKept' /\ VariantCounts'
  BY <1>1 DEF HInv, TimeKept, VariantCounts
<1>5. TimesAgree'
  BY <1>2, OtherAnswers, TimesNext
<1>6. QED
  BY <1>3, <1>4, <1>5 DEF HInv

(* A holder as the library has left it, before any result *)
LEMMA InitHolds == Init => HInv
<1> SUFFICES ASSUME Init PROVE HInv
  OBVIOUS
<1>1. PICK h \in IntactOf(kind) : rep = h.rep
  BY DEF Init
<1>2. kept.what = "none" /\ answer.what = "none"
  BY DEF Init, None
<1>3. TypeOK
  <2>1. 0 \in 0 .. MaxFields /\ 0 \in 0 .. MaxChanges
    BY TermsAssumption, HoldersAssumption
  <2>2. QED
    BY <1>2, <2>1 DEF Init, TypeInit, TypeOK
<1>4. TimeKept /\ VariantCounts
  <2>1. (kind \in Times => rep \in TimeReps) /\ (kind = "variant" => rep \in VariantReps)
    BY Zenon, <1>1, IntactReps
  <2>2. QED
    BY <1>2, <2>1 DEF TimeKept, VariantCounts
<1>5. TimesAgree
  BY <1>2 DEF TimesAgree
<1>6. QED
  BY <1>3, <1>4, <1>5 DEF HInv

(* Every step keeps it *)
LEMMA StepHolds == HInv /\ [Next]_vars => HInv'
<1> SUFFICES ASSUME HInv, [Next]_vars PROVE HInv'
  OBVIOUS
<1>1. CASE FormatHolder
  BY <1>1, HolderKeeps
<1>2. CASE FormatDuration
  BY <1>2, DurationKeeps
<1>3. CASE FormatTimePoint
  BY <1>3, TimePointKeeps
<1>4. CASE Expand
  BY <1>4, ExpandKeeps
<1>5. CASE Change
  BY <1>5, ChangeKeeps
<1>6. CASE Damage
  BY <1>6, DamageKeeps
<1>7. CASE Ask
  BY <1>7, AskKeeps
<1>8. CASE UNCHANGED vars
  <2>1. UNCHANGED <<typeVars, answer, kind, rep, intact, changes, fresh, kept>>
    BY <1>8 DEF vars, holder
  <2>2. TypeOK'
    BY <2>1 DEF HInv, TypeOK, typeVars
  <2>3. TimeKept' /\ VariantCounts'
    BY <2>1 DEF HInv, TimeKept, VariantCounts
  <2>4. TimesAgree'
    BY <2>1 DEF HInv, TimesAgree
  <2>5. QED
    BY <2>2, <2>3, <2>4 DEF HInv
<1>9. QED
  BY <1>1, <1>2, <1>3, <1>4, <1>5, <1>6, <1>7, <1>8 DEF Next

(* Holders, results and type objects keep their types; a variant that is *)
(* shown has the alternative that is shown.                              *)
THEOREM HolderTypeCorrect == Spec => []TypeOK
<1>1. HInv => TypeOK
  BY DEF HInv
<1>2. QED
  BY <1>1, InitHolds, StepHolds, PTL DEF Spec

(* The parts of a duration or a time point add up to it, in the text and in *)
(* the children, before the epoch and after it.                             *)
THEOREM TimesAddUp == Spec => []TimesAgree
<1>1. HInv => TimesAgree
  BY DEF HInv
<1>2. QED
  BY <1>1, InitHolds, StepHolds, PTL DEF Spec

-----------------------------------------------------------------------------
(* Terms *)

(* The parts of which a term is made *)
Children(t) == Part(t.args) \cup Part(t.scope)

(* The terms nested less deep than k *)
Below(k) == {t \in Terms : Nesting[t] < k}

(* What a term is *)
LEMMA TermFacts ==
  ASSUME NEW t \in Terms
  PROVE  /\ t.k \in {"builtin", "instance"} \cup Declared \cup Built /\ t.const \in BOOLEAN
         /\ t = [k |-> t.k, id |-> t.id, scope |-> t.scope, args |-> t.args, const |-> t.const]
         /\ Plain(t) = [k |-> t.k, id |-> t.id, scope |-> t.scope, args |-> t.args, const |-> FALSE]
         /\ t.scope \in Seq(Contexts) /\ t.args \in Seq({p \in Terms : p.k # "namespace"})
         /\ Plain(t) \in Terms
<1> DEFINE S == Seq(Contexts)
           A == Seq({p \in Terms : p.k # "namespace"})
           K == {"builtin", "instance"} \cup Declared \cup Built
           R == [k : K, id : STRING, scope : S, args : A, const : BOOLEAN]
<1>1. Terms \subseteq R
  BY CodeModelAssumption
<1>2. [t EXCEPT !.const = FALSE] \in Terms
  BY TermsAssumption
<1> HIDE DEF S, A, K
<1>3. t \in R
  BY <1>1
<1>4. /\ t.k \in K /\ t.const \in BOOLEAN /\ t.scope \in S /\ t.args \in A
      /\ t = [k |-> t.k, id |-> t.id, scope |-> t.scope, args |-> t.args, const |-> t.const]
  BY <1>3
<1>5. [t EXCEPT !.const = FALSE]
      = [k |-> t.k, id |-> t.id, scope |-> t.scope, args |-> t.args, const |-> FALSE]
  <2> DEFINE p == [t EXCEPT !.const = FALSE]
  <2>1. p \in R /\ p.k = t.k /\ p.id = t.id /\ p.scope = t.scope /\ p.args = t.args /\ p.const = FALSE
    BY <1>3
  <2> HIDE DEF p
  <2>2. p = [k |-> p.k, id |-> p.id, scope |-> p.scope, args |-> p.args, const |-> p.const]
    BY <2>1
  <2>3. QED
    BY Zenon, <2>1, <2>2 DEF p
<1>6. QED
  BY Zenon, <1>2, <1>4, <1>5 DEF Plain, S, A, K

(* What its parts are *)
LEMMA ChildFacts ==
  ASSUME NEW t \in Terms
  PROVE  /\ \A p \in Children(t) : p \in Terms /\ Nesting[p] < Nesting[t] /\ Nesting[p] \in Nat
         /\ Nesting[t] \in Nat
         /\ \A i \in DOMAIN t.scope :
                t.scope[i] \in Children(t) /\ t.scope[i] \in Contexts /\ Plain(t.scope[i]) = t.scope[i]
         /\ \A i \in DOMAIN t.args : t.args[i] \in Children(t) /\ t.args[i].k # "namespace"
<1>1. t.scope \in Seq(Contexts) /\ t.args \in Seq({p \in Terms : p.k # "namespace"})
  BY TermFacts
<1>2. \A i \in DOMAIN t.scope : t.scope[i] \in Contexts
  BY <1>1
<1>3. \A i \in DOMAIN t.args : t.args[i] \in Terms /\ t.args[i].k # "namespace"
  BY <1>1
<1>4. \A c \in Contexts : c \in Terms /\ Plain(c) = c
  <2> SUFFICES ASSUME NEW c \in Contexts PROVE c \in Terms /\ Plain(c) = c
    OBVIOUS
  <2>1. c \in Terms /\ ~c.const
    BY DEF Contexts
  <2>2. /\ c = [k |-> c.k, id |-> c.id, scope |-> c.scope, args |-> c.args, const |-> c.const]
        /\ Plain(c) = [k |-> c.k, id |-> c.id, scope |-> c.scope, args |-> c.args, const |-> FALSE]
        /\ c.const = FALSE
    BY <2>1, TermFacts
  <2>3. QED
    BY Zenon, <2>1, <2>2
<1>5. \A p \in Children(t) : p \in Terms
  BY <1>2, <1>3, <1>4 DEF Children, Part
<1>6. Cardinality(Terms) \in Nat
  BY TermsAssumption, FS_CardinalityType
<1>7. \A p \in Terms : Nesting[p] \in Nat
  <2>1. \A p \in Terms : Nesting[p] \in 0 .. Cardinality(Terms)
    BY CodeModelAssumption
  <2>2. QED
    BY <1>6, <2>1
<1>8. \A p \in Children(t) : Nesting[p] < Nesting[t]
  BY CodeModelAssumption DEF Children
<1>9. \A i \in DOMAIN t.scope : t.scope[i] \in Children(t)
  BY DEF Children, Part
<1>10. \A i \in DOMAIN t.args : t.args[i] \in Children(t)
  BY DEF Children, Part
<1>11. QED
  BY <1>2, <1>3, <1>4, <1>5, <1>7, <1>8, <1>9, <1>10

(* Every term is in one of the finitely many sets of those below a depth *)
LEMMA AllBelow ==
  /\ Below(0) = {}
  /\ \E k \in Nat : Below(k) = Terms
  /\ \A k \in Nat : \A t \in Below(k + 1) : t \in Terms /\ Children(t) \subseteq Below(k)
<1>1. Cardinality(Terms) \in Nat
  BY TermsAssumption, FS_CardinalityType
<1>2. \A t \in Terms : Nesting[t] \in Nat /\ Nesting[t] <= Cardinality(Terms)
  <2>1. \A p \in Terms : Nesting[p] \in 0 .. Cardinality(Terms)
    BY CodeModelAssumption
  <2>2. QED
    BY <1>1, <2>1
<1>3. Below(0) = {}
  BY <1>2 DEF Below
<1>4. Below(Cardinality(Terms) + 1) = Terms
  BY <1>1, <1>2 DEF Below
<1>5. Cardinality(Terms) + 1 \in Nat
  BY <1>1
<1>6. ASSUME NEW k \in Nat, NEW t \in Below(k + 1)
      PROVE  t \in Terms /\ Children(t) \subseteq Below(k)
  <2>1. t \in Terms /\ Nesting[t] < k + 1
    BY DEF Below
  <2>2. \A p \in Children(t) : p \in Terms /\ Nesting[p] < Nesting[t] /\ Nesting[p] \in Nat
    BY <2>1, ChildFacts
  <2>3. Nesting[t] \in Nat
    BY <1>2, <2>1
  <2>4. \A p \in Children(t) : p \in Terms /\ Nesting[p] < k
    BY <2>1, <2>2, <2>3
  <2>5. QED
    BY <2>1, <2>4 DEF Below
<1>7. QED
  BY <1>3, <1>4, <1>5, <1>6

(* What the name of a term is made of, if h has those of its parts *)
NameWith(h, t) ==
    [k     |-> NameKind(t.k), id |-> t.id, const |-> t.const,
     scope |-> [i \in DOMAIN t.scope |-> h[t.scope[i]]],
     args  |-> [i \in DOMAIN t.args |-> h[t.args[i]]]]

(* Only the names of the parts matter *)
LEMMA NameFromParts ==
  ASSUME NEW t \in Terms, NEW f, NEW g, \A p \in Children(t) : f[p] = g[p]
  PROVE  NameWith(f, t) = NameWith(g, t)
<1>1. [i \in DOMAIN t.scope |-> f[t.scope[i]]] = [i \in DOMAIN t.scope |-> g[t.scope[i]]]
  BY DEF Children, Part
<1>2. [i \in DOMAIN t.args |-> f[t.args[i]]] = [i \in DOMAIN t.args |-> g[t.args[i]]]
  BY DEF Children, Part
<1>3. QED
  BY Zenon, <1>1, <1>2 DEF NameWith

(* Names are made from the names of the parts, in depth as far as there is *)
LEMMA PrintedIs ==
  \A t \in Terms : Printed[t] = NameWith(Printed, t)
<1> DEFINE Named(f, k) == f = [t \in Below(k) |-> NameWith(f, t)]
           T == {k \in Nat : ~ \E f : Named(f, k)}
<1>1. ASSUME T # {} PROVE FALSE
  <2>1. PICK k \in T : \A j \in T : k <= j
    <3>1. T \in SUBSET Nat
      OBVIOUS
    <3> HIDE DEF T
    <3>2. QED
      BY <1>1, <3>1, Smallest
  <2>2. k \in Nat /\ ~ \E f : Named(f, k)
    BY <2>1
  <2>3. CASE k = 0
    <3> DEFINE f == [t \in {} |-> 0]
    <3>1. f = [t \in {} |-> NameWith(f, t)]
      OBVIOUS
    <3>2. Named(f, 0)
      BY Zenon, <3>1, AllBelow
    <3>3. QED
      BY Zenon, <2>2, <2>3, <3>2
  <2>4. CASE k # 0
    <3>1. k - 1 \in Nat /\ ~(k <= k - 1) /\ (k - 1) + 1 = k
      BY <2>2, <2>4
    <3>2. PICK f : Named(f, k - 1)
      BY <2>1, <3>1
    <3> DEFINE g == [t \in Below(k) |-> IF t \in Below(k - 1) THEN f[t] ELSE NameWith(f, t)]
    <3>3. ASSUME NEW t \in Below(k) PROVE g[t] = NameWith(g, t)
      <4>1. t \in Terms /\ Children(t) \subseteq Below(k - 1)
        BY <3>1, <3>3, AllBelow
      <4>2. Below(k - 1) \subseteq Below(k)
        <5>1. \A p \in Below(k - 1) : p \in Terms /\ Nesting[p] < k - 1 /\ Nesting[p] \in Nat
          BY ChildFacts DEF Below
        <5>2. QED
          BY <2>2, <5>1 DEF Below
      <4>3. \A p \in Children(t) : f[p] = g[p]
        BY <4>1, <4>2
      <4>4. NameWith(f, t) = NameWith(g, t)
        BY <4>1, <4>3, NameFromParts
      <4>5. t \in Below(k - 1) => f[t] = NameWith(f, t)
        BY <3>2
      <4>6. g[t] = NameWith(f, t)
        BY <3>3, <4>5
      <4>7. QED
        BY Zenon, <4>4, <4>6
    <3>4. g = [t \in Below(k) |-> g[t]]
      OBVIOUS
    <3>5. Named(g, k)
      <4> HIDE DEF g
      <4>1. QED
        BY <3>3, <3>4
    <3>6. QED
      BY Zenon, <2>2, <3>5
  <2>5. QED
    BY <2>3, <2>4
<1>2. PICK k \in Nat : Below(k) = Terms
  BY AllBelow
<1>3. \E f : f = [t \in Terms |-> NameWith(f, t)]
  <2>1. k \notin T
    BY <1>1
  <2>2. \E f : Named(f, k)
    BY <2>1
  <2>3. QED
    BY Zenon, <1>2, <2>2
<1>4. Printed = CHOOSE f : f = [t \in Terms |-> NameWith(f, t)]
  BY DEF Printed, NameWith
<1>5. Printed = [t \in Terms |-> NameWith(Printed, t)]
  BY Zenon, <1>3, <1>4
<1>6. QED
  <2> DEFINE P == Printed
  <2>1. P = [t \in Terms |-> NameWith(P, t)]
    BY <1>5
  <2> HIDE DEF P
  <2>2. \A t \in Terms : P[t] = NameWith(P, t)
    BY <2>1
  <2>3. QED
    BY <2>2 DEF P

(* The parts of a term are the term, and the parts of its own *)
PartsWith(h, t) == {t} \cup UNION {h[p] : p \in Children(t)}

(* PartsWith gives the parts of every term *)
LEMMA PartsIs ==
  \A t \in Terms : Parts[t] = PartsWith(Parts, t)
<1> DEFINE Known(f, k) == f = [t \in Below(k) |-> PartsWith(f, t)]
           T == {k \in Nat : ~ \E f : Known(f, k)}
<1>1. ASSUME T # {} PROVE FALSE
  <2>1. PICK k \in T : \A j \in T : k <= j
    <3>1. T \in SUBSET Nat
      OBVIOUS
    <3> HIDE DEF T
    <3>2. QED
      BY <1>1, <3>1, Smallest
  <2>2. k \in Nat /\ ~ \E f : Known(f, k)
    BY <2>1
  <2>3. CASE k = 0
    <3> DEFINE f == [t \in {} |-> 0]
    <3>1. f = [t \in {} |-> PartsWith(f, t)]
      OBVIOUS
    <3>2. Known(f, 0)
      BY Zenon, <3>1, AllBelow
    <3>3. QED
      BY Zenon, <2>2, <2>3, <3>2
  <2>4. CASE k # 0
    <3>1. k - 1 \in Nat /\ ~(k <= k - 1) /\ (k - 1) + 1 = k
      BY <2>2, <2>4
    <3>2. PICK f : Known(f, k - 1)
      BY <2>1, <3>1
    <3> DEFINE g == [t \in Below(k) |-> IF t \in Below(k - 1) THEN f[t] ELSE PartsWith(f, t)]
    <3>3. ASSUME NEW t \in Below(k) PROVE g[t] = PartsWith(g, t)
      <4>1. t \in Terms /\ Children(t) \subseteq Below(k - 1)
        BY <3>1, <3>3, AllBelow
      <4>2. Below(k - 1) \subseteq Below(k)
        <5>1. \A p \in Below(k - 1) : p \in Terms /\ Nesting[p] < k - 1 /\ Nesting[p] \in Nat
          BY ChildFacts DEF Below
        <5>2. QED
          BY <2>2, <5>1 DEF Below
      <4>3. \A p \in Children(t) : f[p] = g[p]
        BY <4>1, <4>2
      <4>4. PartsWith(f, t) = PartsWith(g, t)
        <5> HIDE DEF g
        <5>1. {f[p] : p \in Children(t)} = {g[p] : p \in Children(t)}
          BY <4>3
        <5>2. QED
          BY Zenon, <5>1 DEF PartsWith
      <4>5. t \in Below(k - 1) => f[t] = PartsWith(f, t)
        BY <3>2
      <4>6. g[t] = PartsWith(f, t)
        BY <3>3, <4>5
      <4>7. QED
        BY Zenon, <4>4, <4>6
    <3>4. g = [t \in Below(k) |-> g[t]]
      OBVIOUS
    <3>5. Known(g, k)
      <4> HIDE DEF g
      <4>1. QED
        BY <3>3, <3>4
    <3>6. QED
      BY Zenon, <2>2, <3>5
  <2>5. QED
    BY <2>3, <2>4
<1>2. PICK k \in Nat : Below(k) = Terms
  BY AllBelow
<1>3. \E f : f = [t \in Terms |-> PartsWith(f, t)]
  <2>1. k \notin T
    BY <1>1
  <2>2. \E f : Known(f, k)
    BY <2>1
  <2>3. QED
    BY Zenon, <1>2, <2>2
<1>4. Parts = CHOOSE f : f = [t \in Terms |-> PartsWith(f, t)]
  BY DEF Parts, PartsWith, Children
<1>5. Parts = [t \in Terms |-> PartsWith(Parts, t)]
  BY Zenon, <1>3, <1>4
<1>6. QED
  <2> DEFINE P == Parts
  <2>1. P = [t \in Terms |-> PartsWith(P, t)]
    BY <1>5
  <2> HIDE DEF P
  <2>2. \A t \in Terms : P[t] = PartsWith(P, t)
    BY <2>1
  <2>3. QED
    BY <2>2 DEF P

(* What a name is made of *)
LEMMA NameFacts ==
  ASSUME NEW t \in Terms
  PROVE  /\ Printed[t].k = NameKind(t.k) /\ Printed[t].id = t.id /\ Printed[t].const = t.const
         /\ DOMAIN Printed[t].scope = DOMAIN t.scope /\ DOMAIN Printed[t].args = DOMAIN t.args
         /\ \A i \in DOMAIN t.scope : Printed[t].scope[i] = Printed[t.scope[i]]
         /\ \A i \in DOMAIN t.args : Printed[t].args[i] = Printed[t.args[i]]
<1> DEFINE n == Printed[t]
           sc == [i \in DOMAIN t.scope |-> Printed[t.scope[i]]]
           as == [i \in DOMAIN t.args |-> Printed[t.args[i]]]
<1>1. n = [k |-> NameKind(t.k), id |-> t.id, const |-> t.const, scope |-> sc, args |-> as]
  BY Zenon, PrintedIs DEF NameWith
<1>2. /\ DOMAIN sc = DOMAIN t.scope /\ DOMAIN as = DOMAIN t.args
      /\ \A i \in DOMAIN t.scope : sc[i] = Printed[t.scope[i]]
      /\ \A i \in DOMAIN t.args : as[i] = Printed[t.args[i]]
  OBVIOUS
<1> HIDE DEF n, sc, as
<1>3. n.k = NameKind(t.k) /\ n.id = t.id /\ n.const = t.const /\ n.scope = sc /\ n.args = as
  BY <1>1
<1>4. QED
  BY Zenon, <1>2, <1>3 DEF n

(* The names of the terms nested less deep than k *)
NamesBelow(k) == {Printed[t] : t \in Below(k)}

(* Every name is one of a depth, and made of names less deep *)
LEMMA AllNamesBelow ==
  /\ NamesBelow(0) = {}
  /\ \E k \in Nat : NamesBelow(k) = Names
  /\ \A k \in Nat : NamesBelow(k) \subseteq NamesBelow(k + 1)
  /\ \A k \in Nat : \A n \in NamesBelow(k + 1) :
        /\ \A i \in DOMAIN n.scope : n.scope[i] \in NamesBelow(k)
        /\ \A i \in DOMAIN n.args : n.args[i] \in NamesBelow(k)
<1>1. NamesBelow(0) = {}
  BY AllBelow DEF NamesBelow
<1>2. \E k \in Nat : NamesBelow(k) = Names
  BY AllBelow DEF NamesBelow, Names
<1>3. ASSUME NEW k \in Nat
      PROVE  NamesBelow(k) \subseteq NamesBelow(k + 1)
  <2>1. \A p \in Below(k) : p \in Terms /\ Nesting[p] < k /\ Nesting[p] \in Nat
    BY ChildFacts DEF Below
  <2>2. Below(k) \subseteq Below(k + 1)
    BY <2>1 DEF Below
  <2>3. QED
    BY <2>2 DEF NamesBelow
<1>4. ASSUME NEW k \in Nat, NEW n \in NamesBelow(k + 1)
      PROVE  /\ \A i \in DOMAIN n.scope : n.scope[i] \in NamesBelow(k)
             /\ \A i \in DOMAIN n.args : n.args[i] \in NamesBelow(k)
  <2>1. PICK t \in Below(k + 1) : n = Printed[t]
    BY <1>4 DEF NamesBelow
  <2>2. t \in Terms /\ Children(t) \subseteq Below(k)
    BY AllBelow
  <2>3. /\ DOMAIN n.scope = DOMAIN t.scope /\ DOMAIN n.args = DOMAIN t.args
        /\ \A i \in DOMAIN t.scope : n.scope[i] = Printed[t.scope[i]]
        /\ \A i \in DOMAIN t.args : n.args[i] = Printed[t.args[i]]
    BY <2>1, <2>2, NameFacts
  <2>4. /\ \A i \in DOMAIN t.scope : t.scope[i] \in Below(k)
        /\ \A i \in DOMAIN t.args : t.args[i] \in Below(k)
    BY <2>2, ChildFacts
  <2>5. QED
    BY <2>3, <2>4 DEF NamesBelow
<1>5. QED
  BY <1>1, <1>2, <1>3, <1>4

(* What a name finds, if h has what the names in it find *)
FoundWith(h, n) ==
    LET scope == [i \in DOMAIN n.scope |-> h[n.scope[i]]]
        args  == [i \in DOMAIN n.args |-> AsType(h[n.args[i]], n.args[i].const)]
    IN  IF Nothing \in Part(scope) \cup Part(args) THEN Nothing ELSE Lookup(n, scope, args)

(* Only what the names in it find matters *)
LEMMA FoundFromParts ==
  ASSUME NEW n, NEW f, NEW g,
         \A i \in DOMAIN n.scope : f[n.scope[i]] = g[n.scope[i]],
         \A i \in DOMAIN n.args : f[n.args[i]] = g[n.args[i]]
  PROVE  FoundWith(f, n) = FoundWith(g, n)
<1>1. [i \in DOMAIN n.scope |-> f[n.scope[i]]] = [i \in DOMAIN n.scope |-> g[n.scope[i]]]
  OBVIOUS
<1>2. [i \in DOMAIN n.args |-> AsType(f[n.args[i]], n.args[i].const)]
      = [i \in DOMAIN n.args |-> AsType(g[n.args[i]], n.args[i].const)]
  OBVIOUS
<1>3. QED
  BY Zenon, <1>1, <1>2 DEF FoundWith

(* FoundWith gives what every name finds *)
LEMMA FindIs ==
  \A n \in Names : Find[n] = FoundWith(Find, n)
<1> DEFINE Known(f, k) == f = [n \in NamesBelow(k) |-> FoundWith(f, n)]
           T == {k \in Nat : ~ \E f : Known(f, k)}
<1>1. ASSUME T # {} PROVE FALSE
  <2>1. PICK k \in T : \A j \in T : k <= j
    <3>1. T \in SUBSET Nat
      OBVIOUS
    <3> HIDE DEF T
    <3>2. QED
      BY <1>1, <3>1, Smallest
  <2>2. k \in Nat /\ ~ \E f : Known(f, k)
    BY <2>1
  <2>3. CASE k = 0
    <3> DEFINE f == [n \in {} |-> 0]
    <3>1. f = [n \in {} |-> FoundWith(f, n)]
      OBVIOUS
    <3>2. Known(f, 0)
      BY Zenon, <3>1, AllNamesBelow
    <3>3. QED
      BY Zenon, <2>2, <2>3, <3>2
  <2>4. CASE k # 0
    <3>1. k - 1 \in Nat /\ ~(k <= k - 1) /\ (k - 1) + 1 = k
      BY <2>2, <2>4
    <3>2. PICK f : Known(f, k - 1)
      BY <2>1, <3>1
    <3> DEFINE g == [n \in NamesBelow(k) |->
                        IF n \in NamesBelow(k - 1) THEN f[n] ELSE FoundWith(f, n)]
    <3>3. ASSUME NEW n \in NamesBelow(k) PROVE g[n] = FoundWith(g, n)
      <4>1. /\ \A i \in DOMAIN n.scope : n.scope[i] \in NamesBelow(k - 1)
            /\ \A i \in DOMAIN n.args : n.args[i] \in NamesBelow(k - 1)
        BY <3>1, <3>3, AllNamesBelow
      <4>2. NamesBelow(k - 1) \subseteq NamesBelow(k)
        BY <3>1, AllNamesBelow
      <4>3. \A m \in NamesBelow(k - 1) : f[m] = g[m]
        BY <4>2
      <4>4. FoundWith(f, n) = FoundWith(g, n)
        <5> HIDE DEF g
        <5>1. /\ \A i \in DOMAIN n.scope : f[n.scope[i]] = g[n.scope[i]]
              /\ \A i \in DOMAIN n.args : f[n.args[i]] = g[n.args[i]]
          BY <4>1, <4>3
        <5>2. QED
          BY Zenon, <5>1, FoundFromParts
      <4>5. n \in NamesBelow(k - 1) => f[n] = FoundWith(f, n)
        BY <3>2
      <4>6. g[n] = FoundWith(f, n)
        BY <3>3, <4>5
      <4>7. QED
        BY Zenon, <4>4, <4>6
    <3>4. g = [n \in NamesBelow(k) |-> g[n]]
      OBVIOUS
    <3>5. Known(g, k)
      <4> HIDE DEF g
      <4>1. QED
        BY <3>3, <3>4
    <3>6. QED
      BY Zenon, <2>2, <3>5
  <2>5. QED
    BY <2>3, <2>4
<1>2. PICK k \in Nat : NamesBelow(k) = Names
  BY AllNamesBelow
<1>3. \E f : f = [n \in Names |-> FoundWith(f, n)]
  <2>1. k \notin T
    BY <1>1
  <2>2. \E f : Known(f, k)
    BY <2>1
  <2>3. QED
    BY Zenon, <1>2, <2>2
<1>4. Find = CHOOSE f : f = [n \in Names |-> FoundWith(f, n)]
  BY DEF Find, FoundWith
<1>5. Find = [n \in Names |-> FoundWith(Find, n)]
  BY Zenon, <1>3, <1>4
<1>6. QED
  <2> DEFINE P == Find
  <2>1. P = [n \in Names |-> FoundWith(P, n)]
    BY <1>5
  <2> HIDE DEF P
  <2>2. \A n \in Names : P[n] = FoundWith(P, n)
    BY <2>1
  <2>3. QED
    BY <2>2 DEF P

(* What the name of a term finds follows from what the names of its parts find *)
LEMMA FindOf ==
  ASSUME NEW t \in Terms
  PROVE  LET scope == [i \in DOMAIN t.scope |-> Find[Printed[t.scope[i]]]]
             args  == [i \in DOMAIN t.args |-> FindType(Printed[t.args[i]])]
         IN  Find[Printed[t]] = IF Nothing \in Part(scope) \cup Part(args) THEN Nothing
                                ELSE Lookup(Printed[t], scope, args)
<1> DEFINE n == Printed[t]
           sc == [i \in DOMAIN n.scope |-> Find[n.scope[i]]]
           as == [i \in DOMAIN n.args |-> AsType(Find[n.args[i]], n.args[i].const)]
           scope == [i \in DOMAIN t.scope |-> Find[Printed[t.scope[i]]]]
           args  == [i \in DOMAIN t.args |-> FindType(Printed[t.args[i]])]
<1>1. n \in Names
  BY DEF Names
<1>2. Find[n] = IF Nothing \in Part(sc) \cup Part(as) THEN Nothing ELSE Lookup(n, sc, as)
  BY Zenon, <1>1, FindIs DEF FoundWith
<1>3. /\ DOMAIN n.scope = DOMAIN t.scope /\ DOMAIN n.args = DOMAIN t.args
      /\ \A i \in DOMAIN t.scope : n.scope[i] = Printed[t.scope[i]]
      /\ \A i \in DOMAIN t.args : n.args[i] = Printed[t.args[i]]
  BY NameFacts
<1> HIDE DEF n
<1>4. sc = scope
  BY <1>3
<1>5. as = args
  BY <1>3 DEF FindType
<1> HIDE DEF sc, as, scope, args
<1>6. Find[n] = IF Nothing \in Part(scope) \cup Part(args) THEN Nothing ELSE Lookup(n, scope, args)
  BY Zenon, <1>2, <1>4, <1>5
<1>7. QED
  BY Zenon, <1>6 DEF n, scope, args

(* A type can be named when it can itself, and its parts can *)
LEMMA NameableParts ==
  ASSUME NEW t \in Terms
  PROVE  /\ Nameable(t) <=> ~IsLost(t) /\ t.k # "rref" /\ \A p \in Children(t) : Nameable(p)
         /\ HasRvalue(t) <=> t.k = "rref" \/ \E p \in Children(t) : HasRvalue(p)
<1>1. \A x : x \in Parts[t] <=> x = t \/ \E p \in Children(t) : x \in Parts[p]
  <2>1. Parts[t] = {t} \cup UNION {Parts[p] : p \in Children(t)}
    BY Zenon, PartsIs DEF PartsWith
  <2>2. QED
    BY <2>1
<1>2. QED
  BY Zenon, <1>1 DEF Nameable, HasRvalue

(* No term is Nothing *)
LEMMA SomeTerm ==
  ASSUME NEW t \in Terms
  PROVE  /\ ~IsNothing(t) /\ t # Nothing /\ Plain(t) # Nothing /\ ~IsNothing(Plain(t))
         /\ t.k # "namespace" => AsType(Plain(t), t.const) = t
<1>1. /\ t.k \in {"builtin", "instance"} \cup Declared \cup Built
      /\ t = [k |-> t.k, id |-> t.id, scope |-> t.scope, args |-> t.args, const |-> t.const]
      /\ Plain(t) = [k |-> t.k, id |-> t.id, scope |-> t.scope, args |-> t.args, const |-> FALSE]
  BY TermFacts
<1>2. t.k # "nothing"
  BY <1>1 DEF Declared, Built
<1>3. Plain(t).k = t.k
  BY <1>1
<1>4. Nothing.k = "nothing"
  BY DEF Nothing
<1>5. [Plain(t) EXCEPT !.const = t.const] = t
  <2> DEFINE p == [k |-> t.k, id |-> t.id, scope |-> t.scope, args |-> t.args, const |-> FALSE]
  <2>1. [p EXCEPT !.const = t.const]
        = [k |-> t.k, id |-> t.id, scope |-> t.scope, args |-> t.args, const |-> t.const]
    OBVIOUS
  <2>2. QED
    BY Zenon, <1>1, <2>1
<1>6. /\ ~IsNothing(t) /\ t # Nothing /\ Plain(t) # Nothing /\ ~IsNothing(Plain(t))
  BY Zenon, <1>2, <1>3, <1>4 DEF IsNothing
<1>7. QED
  BY Zenon, <1>3, <1>5, <1>6 DEF AsType

(* Terms made from Nothing *)
LEMMA NothingWith ==
  ASSUME NEW k, NEW id, NEW args
  PROVE  /\ [Nothing EXCEPT !.k = k, !.id = id]
            = [k |-> k, id |-> id, scope |-> <<>>, args |-> <<>>, const |-> FALSE]
         /\ [Nothing EXCEPT !.k = k, !.args = args]
            = [k |-> k, id |-> "", scope |-> <<>>, args |-> args, const |-> FALSE]
<1> DEFINE e == <<>>
           R == [k : {k, "nothing"}, id : {id, ""}, scope : {e}, args : {e, args}, const : BOOLEAN]
           q1 == [Nothing EXCEPT !.k = k, !.id = id]
           q2 == [Nothing EXCEPT !.k = k, !.args = args]
<1>1. /\ Nothing \in R /\ Nothing.id = "" /\ Nothing.scope = e /\ Nothing.args = e
      /\ Nothing.const = FALSE
  BY DEF Nothing
<1> HIDE DEF e
<1>2. /\ q1 \in R /\ q1.k = k /\ q1.id = id /\ q1.scope = e /\ q1.args = e /\ q1.const = FALSE
      /\ q2 \in R /\ q2.k = k /\ q2.id = "" /\ q2.scope = e /\ q2.args = args /\ q2.const = FALSE
  BY <1>1
<1> HIDE DEF q1, q2
<1>3. /\ q1 = [k |-> q1.k, id |-> q1.id, scope |-> q1.scope, args |-> q1.args, const |-> q1.const]
      /\ q2 = [k |-> q2.k, id |-> q2.id, scope |-> q2.scope, args |-> q2.args, const |-> q2.const]
  BY <1>2
<1>4. QED
  BY Zenon, <1>2, <1>3 DEF q1, q2, e

(* Looking up a type under its name, with its own scope and parts, finds   *)
(* it, or nothing if it is lost                                            *)
LEMMA LookupIs ==
  ASSUME NEW t \in Terms, t.k # "rref"
  PROVE  Lookup(Printed[t], t.scope, t.args) = IF IsLost(t) THEN Nothing ELSE Plain(t)
<1> DEFINE n == Printed[t]
           p == Plain(t)
<1>1. n.k = NameKind(t.k) /\ n.id = t.id
  BY NameFacts
<1>2. /\ t.k \in {"builtin", "instance"} \cup Declared \cup Built
      /\ p = [k |-> t.k, id |-> t.id, scope |-> t.scope, args |-> t.args, const |-> FALSE]
      /\ p \in Terms
  BY TermFacts
<1>3. /\ t.k = "builtin" => t.scope = <<>> /\ t.args = <<>>
      /\ t.k \in Declared => t.args = <<>>
      /\ t.k \in Built => t.id = "" /\ t.scope = <<>>
  BY CodeModelAssumption
<1>4. p.k = t.k /\ p.id = t.id /\ p.scope = t.scope /\ p.args = t.args /\ p.const = FALSE
  BY <1>2
<1> HIDE DEF n, p
<1>5. ASSUME NEW e \in Contexts
      PROVE  /\ e.k \in Declared /\ t.k \in Declared /\ e.id = t.id /\ e.scope = t.scope => e.k = t.k
             /\ e.k = t.k /\ e.id = t.id /\ e.scope = t.scope /\ e.args = t.args => e = p
             /\ e.k \in Declared => e.args = <<>>
  <2>1. e \in Terms /\ ~e.const
    BY DEF Contexts
  <2>2. /\ e = [k |-> e.k, id |-> e.id, scope |-> e.scope, args |-> e.args, const |-> e.const]
        /\ e.const \in BOOLEAN
    BY <2>1, TermFacts
  <2>3. e.k \in Declared => e.args = <<>>
    BY <2>1, CodeModelAssumption
  <2>4. e.k \in Declared /\ t.k \in Declared /\ e.id = t.id /\ e.scope = t.scope => e.k = t.k
    BY Zenon, <2>1, CodeModelAssumption
  <2>5. e.const = FALSE
    BY <2>1, <2>2
  <2>6. QED
    BY Zenon, <1>2, <2>2, <2>3, <2>4, <2>5
<1>6. t.k = "namespace" \/ IsRecord(t) => p \in Contexts
  BY <1>2, <1>4 DEF Contexts, IsRecord
<1>7. CASE t.k = "builtin"
  <2>1. [Nothing EXCEPT !.k = "builtin", !.id = t.id] = p
    <3>1. [Nothing EXCEPT !.k = "builtin", !.id = t.id]
          = [k |-> "builtin", id |-> t.id, scope |-> <<>>, args |-> <<>>, const |-> FALSE]
      BY Zenon, NothingWith
    <3>2. QED
      BY Zenon, <1>2, <1>3, <1>7, <3>1
  <2>2. n.k = "builtin"
    BY <1>1, <1>7 DEF NameKind
  <2>3. IsLost(t) <=> t.id \notin NamedBuiltins
    BY <1>7 DEF IsLost
  <2> HIDE DEF n
  <2>4. Lookup(n, t.scope, t.args) = IF t.id \in NamedBuiltins THEN p ELSE Nothing
    BY <1>1, <2>1, <2>2 DEF Lookup
  <2>5. QED
    BY Zenon, <2>3, <2>4 DEF n, p
<1>8. CASE t.k \in Declared
  <2>1. Lookup(n, t.scope, t.args) = FindBasic(t.id, t.scope)
    <3>1. n.k = "basic"
      BY <1>1, <1>8 DEF NameKind, Declared
    <3>2. QED
      BY <1>1, <3>1 DEF Lookup
  <2> DEFINE Of(k) == {e \in Contexts : e.k = k /\ e.id = t.id /\ e.scope = t.scope}
  <2>2. FindBasic(t.id, t.scope)
        = IF Of("namespace") # {} THEN CHOOSE e \in Of("namespace") : TRUE
          ELSE IF Of("named_record") # {} THEN CHOOSE e \in Of("named_record") : TRUE ELSE Nothing
    BY Zenon DEF FindBasic
  <2>3. \A k \in {"namespace", "named_record"} :
            /\ k # t.k => Of(k) = {}
            /\ k = t.k => Of(k) # {} /\ \A e \in Of(k) : e = p
    <3> SUFFICES ASSUME NEW k \in {"namespace", "named_record"}
                 PROVE  /\ k # t.k => Of(k) = {}
                        /\ k = t.k => Of(k) # {} /\ \A e \in Of(k) : e = p
      OBVIOUS
    <3>1. k \in Declared
      BY DEF Declared
    <3>2. k # t.k => Of(k) = {}
      BY <1>5, <1>8, <3>1
    <3>3. k = t.k => p \in Of(k)
      BY <1>4, <1>6 DEF IsRecord
    <3>4. k = t.k => \A e \in Of(k) : e = p
      BY <1>3, <1>5, <1>8, <3>1
    <3>5. QED
      BY <3>2, <3>3, <3>4
  <2>4. IsLost(t) <=> t.k \notin {"namespace", "named_record"}
    BY <1>8 DEF IsLost, Declared
  <2>5. \A k \in {"namespace", "named_record"} : k = t.k => (CHOOSE e \in Of(k) : TRUE) = p
    BY <2>3
  <2> HIDE DEF Of
  <2>6. FindBasic(t.id, t.scope) = IF IsLost(t) THEN Nothing ELSE p
    <3>1. CASE t.k = "namespace"
      BY <2>2, <2>3, <2>4, <2>5, <3>1
    <3>2. CASE t.k = "named_record"
      BY <2>2, <2>3, <2>4, <2>5, <3>2
    <3>3. CASE t.k \notin {"namespace", "named_record"}
      BY <2>2, <2>3, <2>4, <3>3
    <3>4. QED
      BY <3>1, <3>2, <3>3
  <2>7. QED
    BY Zenon, <2>1, <2>6 DEF n, p
<1>9. CASE t.k = "instance"
  <2>1. Lookup(n, t.scope, t.args) = FindInstance(t.id, t.scope, t.args)
    <3>1. n.k = "template"
      BY <1>1, <1>9 DEF NameKind
    <3>2. QED
      BY <1>1, <3>1 DEF Lookup
  <2> DEFINE is == {e \in Contexts : e.k = "instance" /\ e.id = t.id /\ e.scope = t.scope
                                     /\ e.args = t.args}
  <2>2. FindInstance(t.id, t.scope, t.args) = IF is = {} THEN Nothing ELSE CHOOSE e \in is : TRUE
    BY Zenon DEF FindInstance
  <2>3. p \in is
    BY <1>4, <1>6, <1>9 DEF IsRecord
  <2>4. \A e \in is : e = p
    BY <1>5, <1>9
  <2>5. ~IsLost(t)
    BY <1>9 DEF IsLost
  <2>6. (CHOOSE e \in is : TRUE) = p
    BY <2>3, <2>4
  <2> HIDE DEF is
  <2>7. FindInstance(t.id, t.scope, t.args) = p
    BY <2>2, <2>3, <2>6
  <2>8. QED
    BY Zenon, <2>1, <2>5, <2>7 DEF n, p
<1>10. CASE t.k \in Built
  <2>1. t.k \in {"function", "pointer", "lref", "array", "mem_ptr"}
    BY <1>10 DEF Built
  <2>2. Composite(t.k, t.args) = p
    <3>1. Composite(t.k, t.args)
          = [k |-> t.k, id |-> "", scope |-> <<>>, args |-> t.args, const |-> FALSE]
      BY Zenon, NothingWith DEF Composite
    <3>2. QED
      BY Zenon, <1>2, <1>3, <1>10, <3>1
  <2>3. CASE t.k \in {"function", "pointer"}
    <3>1. n.k = t.k /\ ~IsLost(t)
      BY <1>1, <2>3 DEF NameKind, IsLost
    <3>2. Lookup(n, t.scope, t.args) = Composite(t.k, t.args)
      BY <2>3, <3>1 DEF Lookup
    <3>3. QED
      BY Zenon, <2>2, <3>1, <3>2 DEF n, p
  <2>4. CASE t.k = "lref"
    <3>1. n.k = "reference" /\ ~IsLost(t)
      BY <1>1, <2>4 DEF NameKind, IsLost
    <3>2. Lookup(n, t.scope, t.args) = Composite(t.k, t.args)
      BY <2>4, <3>1 DEF Lookup
    <3>3. QED
      BY Zenon, <2>2, <3>1, <3>2 DEF n, p
  <2>5. CASE t.k \in {"array", "mem_ptr"}
    <3>1. n.k = t.k /\ IsLost(t)
      BY <1>1, <2>5 DEF NameKind, IsLost
    <3>2. Lookup(n, t.scope, t.args) = Nothing
      BY <2>5, <3>1 DEF Lookup
    <3>3. QED
      BY Zenon, <3>1, <3>2 DEF n
  <2>6. QED
    BY <2>1, <2>3, <2>4, <2>5
<1>11. QED
  BY <1>2, <1>7, <1>8, <1>9, <1>10

(* What finding a term by its name should give *)
FoundRight(t) ==
    /\ Nameable(t) => Find[Printed[t]] = Plain(t)
    /\ ~Nameable(t) /\ ~HasRvalue(t) => Find[Printed[t]] = Nothing

(* ... for a term that is a type *)
LEMMA TypeFoundRight ==
  ASSUME NEW t \in Terms, FoundRight(t), t.k # "namespace"
  PROVE  /\ Nameable(t) => FindType(Printed[t]) = t
         /\ ~Nameable(t) /\ ~HasRvalue(t) => FindType(Printed[t]) = Nothing
<1>1. FindType(Printed[t]) = AsType(Find[Printed[t]], t.const)
  BY Zenon, NameFacts DEF FindType
<1>2. AsType(Plain(t), t.const) = t
  BY SomeTerm
<1>3. AsType(Nothing, t.const) = Nothing
  BY DEF AsType, IsNothing, Nothing
<1>4. QED
  BY Zenon, <1>1, <1>2, <1>3 DEF FoundRight

(* A term whose parts are found by their names is found by its own *)
LEMMA FoundStep ==
  ASSUME NEW t \in Terms, \A p \in Children(t) : FoundRight(p)
  PROVE  FoundRight(t)
<1> DEFINE n == Printed[t]
           scope == [i \in DOMAIN t.scope |-> Find[Printed[t.scope[i]]]]
           args  == [i \in DOMAIN t.args |-> FindType(Printed[t.args[i]])]
<1>1. Find[n] = IF Nothing \in Part(scope) \cup Part(args) THEN Nothing ELSE Lookup(n, scope, args)
  BY Zenon, FindOf
<1>2. /\ \A i \in DOMAIN t.scope :
            t.scope[i] \in Children(t) /\ t.scope[i] \in Terms /\ Plain(t.scope[i]) = t.scope[i]
      /\ \A i \in DOMAIN t.args :
            t.args[i] \in Children(t) /\ t.args[i] \in Terms /\ t.args[i].k # "namespace"
  BY ChildFacts
<1>3. /\ DOMAIN scope = DOMAIN t.scope /\ DOMAIN args = DOMAIN t.args
      /\ \A i \in DOMAIN t.scope : scope[i] = Find[Printed[t.scope[i]]]
      /\ \A i \in DOMAIN t.args : args[i] = FindType(Printed[t.args[i]])
      /\ scope = [i \in DOMAIN scope |-> scope[i]] /\ args = [i \in DOMAIN args |-> args[i]]
  OBVIOUS
<1>4. /\ Nameable(t) <=> ~IsLost(t) /\ t.k # "rref" /\ \A p \in Children(t) : Nameable(p)
      /\ HasRvalue(t) <=> t.k = "rref" \/ \E p \in Children(t) : HasRvalue(p)
  BY NameableParts
<1> HIDE DEF n, scope, args
<1>5. CASE \A p \in Children(t) : Nameable(p)
  <2>1. \A i \in DOMAIN t.scope : scope[i] = t.scope[i] /\ t.scope[i] # Nothing
    <3> TAKE i \in DOMAIN t.scope
    <3>1. FoundRight(t.scope[i]) /\ Nameable(t.scope[i])
      BY <1>2, <1>5
    <3>2. scope[i] = Plain(t.scope[i])
      BY Zenon, <1>3, <3>1 DEF FoundRight
    <3>3. QED
      BY <1>2, <3>2, SomeTerm
  <2>2. \A i \in DOMAIN t.args : args[i] = t.args[i] /\ t.args[i] # Nothing
    <3> TAKE i \in DOMAIN t.args
    <3>1. FoundRight(t.args[i]) /\ Nameable(t.args[i]) /\ t.args[i] \in Terms
      BY <1>2, <1>5
    <3>2. FindType(Printed[t.args[i]]) = t.args[i]
      BY <1>2, <3>1, TypeFoundRight
    <3>3. QED
      BY <1>3, <3>1, <3>2, SomeTerm
  <2>3. Nothing \notin Part(scope) \cup Part(args)
    BY <1>3, <2>1, <2>2 DEF Part
  <2>4. scope = t.scope
    <3>1. t.scope \in Seq(Contexts)
      BY TermFacts
    <3>2. t.scope = [i \in DOMAIN t.scope |-> t.scope[i]]
      BY <3>1
    <3>3. QED
      BY <1>3, <2>1, <3>2
  <2>5. args = t.args
    <3>1. t.args \in Seq({p \in Terms : p.k # "namespace"})
      BY TermFacts
    <3>2. t.args = [i \in DOMAIN t.args |-> t.args[i]]
      BY <3>1
    <3>3. QED
      BY <1>3, <2>2, <3>2
  <2>6. Find[n] = Lookup(n, t.scope, t.args)
    BY Zenon, <1>1, <2>3, <2>4, <2>5
  <2>7. t.k # "rref" => Find[n] = IF IsLost(t) THEN Nothing ELSE Plain(t)
    BY <2>6, LookupIs DEF n
  <2>8. QED
    BY <1>4, <1>5, <2>7 DEF FoundRight, n
<1>6. CASE ~ \A p \in Children(t) : Nameable(p)
  <2> SUFFICES ASSUME ~HasRvalue(t) PROVE Find[n] = Nothing
    BY <1>4, <1>6 DEF FoundRight, n
  <2>1. PICK p \in Children(t) : ~Nameable(p)
    BY <1>6
  <2>2. FoundRight(p) /\ ~HasRvalue(p)
    BY <1>4
  <2>3. CASE \E i \in DOMAIN t.scope : p = t.scope[i]
    <3>1. PICK i \in DOMAIN t.scope : p = t.scope[i]
      BY <2>3
    <3>2. scope[i] = Nothing
      BY Zenon, <1>3, <2>1, <2>2, <3>1 DEF FoundRight
    <3>3. Nothing \in Part(scope)
      BY <1>3, <3>1, <3>2 DEF Part
    <3>4. QED
      BY <1>1, <3>3
  <2>4. CASE \E i \in DOMAIN t.args : p = t.args[i]
    <3>1. PICK i \in DOMAIN t.args : p = t.args[i]
      BY <2>4
    <3>2. FindType(Printed[p]) = Nothing
      BY <1>2, <2>1, <2>2, <3>1, TypeFoundRight
    <3>3. args[i] = Nothing
      BY <1>3, <3>1, <3>2
    <3>4. Nothing \in Part(args)
      BY <1>3, <3>1, <3>3 DEF Part
    <3>5. QED
      BY <1>1, <3>4
  <2>5. QED
    BY <2>1, <2>3, <2>4 DEF Children, Part
<1>7. QED
  BY <1>5, <1>6

(* By depth: the least depth at which a term is not found has none below *)
LEMMA AllFound ==
  \A t \in Terms : FoundRight(t)
<1> DEFINE T == {k \in Nat : \E t \in Terms : Nesting[t] = k /\ ~FoundRight(t)}
<1>1. T = {}
  <2> SUFFICES ASSUME T # {} PROVE FALSE
    OBVIOUS
  <2>1. PICK k \in T : \A j \in T : k <= j
    <3>1. T \in SUBSET Nat
      OBVIOUS
    <3> HIDE DEF T
    <3>2. QED
      BY <3>1, Smallest
  <2>2. PICK t \in Terms : Nesting[t] = k /\ ~FoundRight(t)
    BY <2>1
  <2>3. k \in Nat
    BY <2>1
  <2>4. ASSUME NEW p \in Children(t) PROVE FoundRight(p)
    <3>1. p \in Terms /\ Nesting[p] < k /\ Nesting[p] \in Nat
      BY <2>2, ChildFacts
    <3>2. Nesting[p] \notin T
      BY <2>1, <2>3, <3>1
    <3>3. QED
      BY <3>1, <3>2
  <2>5. QED
    BY <2>2, <2>4, FoundStep
<1>2. \A t \in Terms : Nesting[t] \in Nat
  BY ChildFacts
<1>3. QED
  BY <1>1, <1>2

(* Every type is found by its name if its parts can be, and no other is *)
LEMMA NamesFindTypes == NamesAgree
<1> SUFFICES ASSUME NEW t \in Terms, t.k # "namespace"
             PROVE  IF Nameable(t) THEN FindType(Printed[t]) = t
                    ELSE IsNothing(FindType(Printed[t])) \/ HasRvalue(t)
  BY DEF NamesAgree
<1>1. FoundRight(t)
  BY AllFound
<1>2. IsNothing(Nothing)
  BY DEF IsNothing, Nothing
<1>3. QED
  BY Zenon, <1>1, <1>2, TypeFoundRight

(* The functions of a class are found by their names, the first of a name  *)
(* with its address                                                        *)
LEMMA FunctionsFound == FunctionsAgree
<1> SUFFICES ASSUME NEW fs \in FunLists, NEW f \in MemFuncs(fs)
             PROVE  /\ MemFun(fs, f.name) # 0 /\ fs[MemFun(fs, f.name)].name = f.name
                    /\ (\A g \in Part(fs) : g.name = f.name => g = f) =>
                            MemFunAddr(fs, f.name) = f.addr
  BY DEF FunctionsAgree
<1> DEFINE is == {i \in DOMAIN fs : fs[i].name = f.name}
<1>1. DOMAIN fs = 1 .. Len(fs) /\ Len(fs) \in Nat
  <2>1. fs \in Seq([name : STRING, template : BOOLEAN, addr : Nat])
    BY TermsAssumption
  <2>2. QED
    BY <2>1
<1>2. is \in SUBSET Nat /\ \A i \in is : i # 0
  BY <1>1
<1>3. PICK j \in DOMAIN fs : f = fs[j]
  BY DEF MemFuncs, Part
<1>4. is # {}
  BY <1>3
<1>5. MemFun(fs, f.name) = CHOOSE i \in is : \A j1 \in is : i <= j1
  BY <1>4 DEF MemFun
<1>6. \E i \in is : \A j1 \in is : i <= j1
  <2> HIDE DEF is
  <2>1. QED
    BY <1>2, <1>4, Smallest
<1>7. MemFun(fs, f.name) \in is
  BY Zenon, <1>5, <1>6
<1>8. MemFun(fs, f.name) # 0 /\ MemFun(fs, f.name) \in DOMAIN fs /\ fs[MemFun(fs, f.name)].name = f.name
  BY <1>2, <1>7
<1>9. MemFunAddr(fs, f.name) = fs[MemFun(fs, f.name)].addr
  BY <1>8 DEF MemFunAddr
<1>10. fs[MemFun(fs, f.name)] \in Part(fs)
  BY <1>8 DEF Part
<1>11. QED
  BY Zenon, <1>8, <1>9, <1>10

(* Pointers that can be dereferenced *)
LEMMA PointersAgree ==
  ASSUME NEW t \in Terms, t.k = "pointer", CanDereference(t)
  PROVE  t.args[1].k # "function" /\ (t.args[1].id = "void" => t.args[1].const)
<1> DEFINE p == t.args[1]
<1>1. p \in Terms
  <2>1. Len(t.args) = 1
    BY CodeModelAssumption
  <2>2. t.args \in Seq({q \in Terms : q.k # "namespace"})
    BY TermFacts
  <2>3. QED
    BY <2>1, <2>2
<1>2. /\ p = [k |-> p.k, id |-> p.id, scope |-> p.scope, args |-> p.args, const |-> p.const]
      /\ p.const \in BOOLEAN
  BY <1>1, TermFacts
<1>3. ASSUME p.id = "void", ~p.const PROVE FALSE
  <2>1. p.k = "builtin"
    BY <1>1, <1>3, CodeModelAssumption
  <2>2. p.scope = <<>> /\ p.args = <<>>
    BY <1>1, <2>1, CodeModelAssumption
  <2>3. p.const = FALSE
    BY <1>2, <1>3
  <2>4. p = [Nothing EXCEPT !.k = "builtin", !.id = "void"]
    <3>1. p = [k |-> "builtin", id |-> "void", scope |-> <<>>, args |-> <<>>, const |-> FALSE]
      BY Zenon, <1>2, <1>3, <2>1, <2>2, <2>3
    <3>2. QED
      BY Zenon, <3>1, NothingWith
  <2>5. QED
    BY <2>4 DEF CanDereference
<1>4. QED
  BY <1>2, <1>3 DEF CanDereference

-----------------------------------------------------------------------------
(* Fields *)

(* A type object has the fields of its class, or fewer if the class grew *)
MadeInOrder(m, f, g) ==
    \A t \in Followed : m[t] # NotMade =>
        m[t] = f[Plain(t)] \/ (m[t] < f[Plain(t)] /\ Plain(t) \in g)

(* An answer about a field *)
FieldAnswered(a, g) ==
    a.what = "field" =>
        /\ a.known => a.found
        /\ a.found /\ ~a.known => Plain(a.of) \in g

FieldInv == MadeInOrder(made, fields, grown) /\ FieldAnswered(answer, grown)

(* A type object is made with the fields of its class *)
LEMMA GetOrCreateInOrder ==
  ASSUME NEW m \in [Followed -> {NotMade} \cup 0 .. MaxFields], NEW t,
         MadeInOrder(m, fields, grown)
  PROVE  MadeInOrder(GetOrCreate(m, t), fields, grown)
<1>1. CASE t \in Followed /\ m[t] = NotMade
  <2>1. GetOrCreate(m, t) = [m EXCEPT ![t] = fields[Plain(t)]]
    BY <1>1 DEF GetOrCreate, Constructed
  <2>2. QED
    BY <1>1, <2>1 DEF MadeInOrder
<1>2. CASE ~(t \in Followed /\ m[t] = NotMade)
  <2>1. GetOrCreate(m, t) = m
    BY <1>2 DEF GetOrCreate
  <2>2. QED
    BY Zenon, <2>1
<1>3. QED
  BY <1>1, <1>2

(* The type context keeps it *)
LEMMA AskInOrder ==
  ASSUME TypeOK, FieldInv, TypeNext
  PROVE  FieldInv'
<1>1. /\ fields \in [Growing -> 0 .. MaxFields] /\ grown \subseteq Growing
      /\ made \in [Followed -> {NotMade} \cup 0 .. MaxFields] /\ MaxFields \in Nat
  BY TermsAssumption DEF TypeOK
<1>2. ASSUME NEW n \in Names, AskName(n) PROVE FieldInv'
  <2>1. /\ made' = GetOrCreate(made, FindType(n)) /\ UNCHANGED <<fields, grown>>
        /\ answer'.what = "type"
    BY <1>2 DEF AskName
  <2>2. MadeInOrder(made', fields, grown)
    BY <1>1, <2>1, GetOrCreateInOrder DEF FieldInv
  <2>3. QED
    BY <2>1, <2>2 DEF FieldInv, MadeInOrder, FieldAnswered
<1>3. ASSUME NEW t \in Followed, NEW i \in 0 .. MaxFields, AskField(t, i) PROVE FieldInv'
  <2>1. /\ made[t] # NotMade /\ UNCHANGED <<made, fields, grown>>
        /\ answer'.of = t /\ (answer'.known <=> i < made[t]) /\ (answer'.found <=> i < fields[Plain(t)])
    BY <1>3 DEF AskField, typeVars, FieldKnown, FieldFound, FieldsSize
  <2>2. made[t] = fields[Plain(t)] \/ (made[t] < fields[Plain(t)] /\ Plain(t) \in grown)
    BY <2>1 DEF FieldInv, MadeInOrder
  <2>3. made[t] \in Nat /\ fields[Plain(t)] \in Nat /\ i \in Nat
    BY <1>1, <2>1 DEF Followed
  <2>4. FieldAnswered(answer', grown')
    BY <2>1, <2>2, <2>3 DEF FieldAnswered
  <2>5. QED
    BY <2>1, <2>4 DEF FieldInv, MadeInOrder, FieldAnswered
<1>4. ASSUME NEW c \in Growing, AddField(c) PROVE FieldInv'
  <2>1. /\ made' = made /\ fields' = [fields EXCEPT ![c] = @ + 1] /\ answer'.what = "none"
        /\ grown' = IF \E t \in Followed : Plain(t) = c /\ made[t] # NotMade
                    THEN grown \cup {c} ELSE grown
    BY <1>4 DEF AddField
  <2>2. ASSUME NEW t \in Followed, made[t] # NotMade
        PROVE  \/ made[t] = fields'[Plain(t)]
               \/ made[t] < fields'[Plain(t)] /\ Plain(t) \in grown'
    <3>1. made[t] = fields[Plain(t)] \/ (made[t] < fields[Plain(t)] /\ Plain(t) \in grown)
      BY <2>2 DEF FieldInv, MadeInOrder
    <3>2. made[t] \in Nat /\ fields[Plain(t)] \in Nat /\ Plain(t) \in Growing
      BY <1>1, <2>2 DEF Followed
    <3>3. CASE Plain(t) = c
      <4>1. fields'[Plain(t)] = fields[Plain(t)] + 1 /\ Plain(t) \in grown'
        BY <1>1, <2>1, <2>2, <3>3
      <4>2. QED
        BY <3>1, <3>2, <4>1
    <3>4. CASE Plain(t) # c
      <4>1. fields'[Plain(t)] = fields[Plain(t)]
        BY <1>1, <2>1, <3>2, <3>4
      <4>2. grown \subseteq grown'
        BY <2>1
      <4>3. QED
        BY <3>1, <4>1, <4>2
    <3>5. QED
      BY <3>3, <3>4
  <2>3. QED
    BY <2>1, <2>2 DEF FieldInv, MadeInOrder, FieldAnswered
<1>5. QED
  BY <1>2, <1>3, <1>4 DEF TypeNext

(* So does everything else, which makes type objects at most *)
LEMMA FieldStep == HInv /\ FieldInv /\ [Next]_vars => FieldInv'
<1> SUFFICES ASSUME HInv, FieldInv, [Next]_vars PROVE FieldInv'
  OBVIOUS
<1>1. made \in [Followed -> {NotMade} \cup 0 .. MaxFields] /\ TypeOK
  BY DEF HInv, TypeOK
<1>2. ASSUME UNCHANGED <<fields, made, grown>>, answer'.what # "field" PROVE FieldInv'
  BY <1>2 DEF FieldInv, MadeInOrder, FieldAnswered
<1>3. CASE FormatHolder
  <2>1. PICK s, t : made' = GetOrCreate(GetOrCreate(made, s), t)
    BY Zenon, <1>3 DEF FormatHolder, Touched
  <2>2. GetOrCreate(made, s) \in [Followed -> {NotMade} \cup 0 .. MaxFields]
    BY <1>1, GetOrCreateKeeps
  <2>3. MadeInOrder(GetOrCreate(made, s), fields, grown)
    BY <1>1, GetOrCreateInOrder DEF FieldInv
  <2>4. MadeInOrder(made', fields, grown)
    BY <2>1, <2>2, <2>3, GetOrCreateInOrder
  <2>5. UNCHANGED <<fields, grown>> /\ answer'.what \in {"error", "shown"}
    BY <1>3 DEF FormatHolder
  <2>6. QED
    BY <2>4, <2>5 DEF FieldInv, MadeInOrder, FieldAnswered
<1>4. CASE FormatDuration
  <2>1. UNCHANGED <<fields, made, grown>> /\ answer'.what \in {"error", "duration"}
    BY <1>4 DEF FormatDuration, typeVars
  <2>2. QED
    BY <1>2, <2>1
<1>5. CASE FormatTimePoint
  <2>1. UNCHANGED <<fields, made, grown>> /\ answer'.what \in {"error", "epoch", "time"}
    BY <1>5 DEF FormatTimePoint, typeVars
  <2>2. QED
    BY <1>2, <2>1
<1>6. CASE Expand
  <2>1. UNCHANGED <<fields, made, grown>> /\ answer'.what = "child"
    BY <1>6, ChildrenAre DEF Expand, typeVars
  <2>2. QED
    BY <1>2, <2>1
<1>7. CASE Change \/ Damage
  <2>1. UNCHANGED <<fields, made, grown>> /\ answer'.what = "none"
    BY <1>7 DEF Change, Damage, Ran, None, typeVars
  <2>2. QED
    BY <1>2, <2>1
<1>8. CASE Ask
  BY <1>1, <1>8, AskInOrder DEF Ask
<1>9. CASE UNCHANGED vars
  BY <1>9 DEF vars, typeVars, FieldInv, MadeInOrder, FieldAnswered
<1>10. QED
  BY <1>3, <1>4, <1>5, <1>6, <1>7, <1>8, <1>9 DEF Next

(* What types answer agrees with the code model, whatever happens to the   *)
(* holder and however the classes grow; every type whose parts can be found *)
(* is found under its name, and no other.                                  *)
THEOREM TypesAreFound == Spec => []TypesAgree
<1>1. HInv /\ FieldInv => TypesAgree
  <2>1. \A k \in BuiltinKinds : BtType(k) = k \/ k \in {"double", "nullptr_t"}
    BY Zenon DEF BtType
  <2>2. \A t \in {t \in Terms : t.k = "pointer"} : CanDereference(t) =>
            t.args[1].k # "function" /\ (t.args[1].id = "void" => t.args[1].const)
    BY PointersAgree
  <2>3. FieldInv =>
            /\ answer.what = "field" =>
                /\ answer.known => answer.found
                /\ answer.found /\ ~answer.known => Plain(answer.of) \in grown
            /\ \A t \in Followed : made[t] # NotMade =>
                    made[t] = fields[Plain(t)] \/ (made[t] < fields[Plain(t)] /\ Plain(t) \in grown)
    BY DEF FieldInv, MadeInOrder, FieldAnswered
  <2>4. QED
    BY Zenon, <2>1, <2>2, <2>3, NamesFindTypes, FunctionsFound DEF TypesAgree
<1>2. Init => FieldInv
  <2>1. Init => answer.what = "none" /\ made = [t \in Followed |-> NotMade]
    BY DEF Init, TypeInit, None
  <2>2. QED
    BY <2>1 DEF FieldInv, MadeInOrder, FieldAnswered
<1>3. QED
  BY <1>1, <1>2, InitHolds, StepHolds, FieldStep, PTL DEF Spec

-----------------------------------------------------------------------------
(* What holders show *)

(* An element is in its field, or it is the base *)
LEMMA ElementHeld ==
  ASSUME NEW nm, NEW name, NEW empty \in BOOLEAN
  PROVE  /\ FieldOrBase({InBase(nm, name, empty)}, nm) = {Leaf(name)}
         /\ Len(InBase(nm, name, empty).bases) <= 1
<1> DEFINE o == InBase(nm, name, empty)
<1>1. CASE empty
  <2>1. o = Obj("", NoFields, <<Leaf(name)>>)
    BY <1>1 DEF InBase
  <2> HIDE DEF o
  <2>2. ~Has(o, nm) /\ o.bases = <<Leaf(name)>>
    <3>1. o.fields = NoFields /\ o.bases = <<Leaf(name)>>
      BY Zenon, <2>1, PlainObject
    <3>2. QED
      BY Zenon, <3>1, LeafFacts DEF Has
  <2>3. FieldOrBase({o}, nm) = Base({o}, 0)
    BY <2>2, ReadingOne
  <2>4. Base({o}, 0) = {Leaf(name)}
    <3>1. Base({o}, 0) = IF 0 < Len(o.bases) THEN {o.bases[0 + 1]} ELSE {}
      BY Zenon, ReadingOne
    <3>2. Len(o.bases) = 1 /\ o.bases[1] = Leaf(name)
      BY <2>2
    <3>3. QED
      BY <3>1, <3>2
  <2>5. Len(o.bases) <= 1
    BY <2>2
  <2>6. QED
    BY <2>3, <2>4, <2>5 DEF o
<1>2. CASE ~empty
  <2>1. o = Obj("", Field(nm, Leaf(name)), <<>>)
    BY <1>2 DEF InBase
  <2> HIDE DEF o
  <2>2. Has(o, nm) /\ o.fields[nm] = Leaf(name) /\ o.bases = <<>>
    <3>1. o.fields = Field(nm, Leaf(name)) /\ o.bases = <<>>
      BY Zenon, <2>1, PlainObject
    <3>2. DOMAIN o.fields = {nm} /\ o.fields[nm] = Leaf(name)
      BY Zenon, <3>1, FieldFacts
    <3>3. QED
      BY <3>1, <3>2 DEF Has
  <2>3. FieldOrBase({o}, nm) = {Leaf(name)}
    BY <2>2, ReadingOne
  <2>4. Len(o.bases) <= 1
    BY <2>2
  <2>5. QED
    BY <2>3, <2>4 DEF o
<1>3. QED
  BY <1>1, <1>2

(* Number i of the impls of a tuple, if h has the others *)
ImplWith(h, n, e, i) ==
    Obj("", NoFields, IF i >= n THEN <<InBase("_M_head_impl", Item[i], i \in e)>>
                      ELSE <<h[i + 1], InBase("_M_head_impl", Item[i], i \in e)>>)

Impls(n, e) == CHOOSE f : f = [i \in 1 .. n |-> ImplWith(f, n, e, i)]

(* The impls are made from the last one back *)
LEMMA ImplsAre ==
  ASSUME NEW n \in Nat, NEW e
  PROVE  /\ Impls(n, e) = [i \in 1 .. n |-> ImplWith(Impls(n, e), n, e, i)]
         /\ TupleTree(n, e) = Obj("std::tuple", NoFields, IF n = 0 THEN <<>> ELSE <<Impls(n, e)[1]>>)
<1> DEFINE S(k) == {i \in 1 .. n : n - i < k}
           Known(f, k) == f = [i \in S(k) |-> ImplWith(f, n, e, i)]
           T == {k \in Nat : ~ \E f : Known(f, k)}
<1>1. ASSUME T # {} PROVE FALSE
  <2>1. PICK k \in T : \A j \in T : k <= j
    <3>1. T \in SUBSET Nat
      OBVIOUS
    <3> HIDE DEF T
    <3>2. QED
      BY <1>1, <3>1, Smallest
  <2>2. k \in Nat /\ ~ \E f : Known(f, k)
    BY <2>1
  <2>3. CASE k = 0
    <3> DEFINE f == [i \in {} |-> 0]
    <3>1. f = [i \in {} |-> ImplWith(f, n, e, i)]
      OBVIOUS
    <3>2. S(0) = {}
      OBVIOUS
    <3>3. Known(f, 0)
      BY Zenon, <3>1, <3>2
    <3>4. QED
      BY Zenon, <2>2, <2>3, <3>3
  <2>4. CASE k # 0
    <3>1. k - 1 \in Nat /\ ~(k <= k - 1)
      BY <2>2, <2>4
    <3>2. PICK f : Known(f, k - 1)
      BY <2>1, <3>1
    <3> DEFINE g == [i \in S(k) |-> IF i \in S(k - 1) THEN f[i] ELSE ImplWith(f, n, e, i)]
    <3>3. ASSUME NEW i \in S(k) PROVE g[i] = ImplWith(g, n, e, i)
      <4>1. i < n => i + 1 \in S(k - 1) /\ i + 1 \in S(k)
        BY <2>2, <3>1, <3>3
      <4>2. i < n => g[i + 1] = f[i + 1]
        BY <4>1
      <4>3. ImplWith(f, n, e, i) = ImplWith(g, n, e, i)
        <5> HIDE DEF g
        <5>1. CASE i < n
          <6>1. ~(i >= n)
            BY <3>3, <5>1
          <6>2. f[i + 1] = g[i + 1]
            BY Zenon, <4>2, <5>1
          <6>3. QED
            BY Zenon, <6>1, <6>2 DEF ImplWith
        <5>2. CASE ~(i < n)
          <6>1. i >= n
            BY <3>3, <5>2
          <6>2. QED
            BY Zenon, <6>1 DEF ImplWith
        <5>3. QED
          BY <5>1, <5>2
      <4>4. i \in S(k - 1) => f[i] = ImplWith(f, n, e, i)
        BY <3>2
      <4>5. g[i] = ImplWith(f, n, e, i)
        BY <3>3, <4>4
      <4>6. QED
        BY Zenon, <4>3, <4>5
    <3>4. g = [i \in S(k) |-> g[i]]
      OBVIOUS
    <3>5. Known(g, k)
      <4> HIDE DEF g, S
      <4>1. QED
        BY <3>3, <3>4
    <3>6. QED
      BY Zenon, <2>2, <3>5
  <2>5. QED
    BY <2>3, <2>4
<1>2. S(n) = 1 .. n
  OBVIOUS
<1>3. \E f : f = [i \in 1 .. n |-> ImplWith(f, n, e, i)]
  <2>1. n \notin T
    BY <1>1
  <2>2. \E f : Known(f, n)
    BY <2>1
  <2> HIDE DEF S
  <2>3. QED
    BY Zenon, <1>2, <2>2
<1>4. Impls(n, e) = [i \in 1 .. n |-> ImplWith(Impls(n, e), n, e, i)]
  BY Zenon, <1>3 DEF Impls
<1>5. TupleTree(n, e) = Obj("std::tuple", NoFields, IF n = 0 THEN <<>> ELSE <<Impls(n, e)[1]>>)
  BY DEF TupleTree, Impls, ImplWith
<1>6. QED
  BY Zenon, <1>4, <1>5

(* What one of the impls has *)
LEMMA ImplFacts ==
  ASSUME NEW n \in Nat, NEW e, NEW i \in 1 .. n
  PROVE  LET o == Impls(n, e)[i]
             head == InBase("_M_head_impl", Item[i], i \in e)
         IN  o.bases = IF i >= n THEN <<head>> ELSE <<Impls(n, e)[i + 1], head>>
<1> DEFINE P == Impls(n, e)
           head == InBase("_M_head_impl", Item[i], i \in e)
           bs == IF i >= n THEN <<head>> ELSE <<P[i + 1], head>>
<1>1. P = [j \in 1 .. n |-> ImplWith(P, n, e, j)]
  BY Zenon, ImplsAre
<1>2. P[i] = ImplWith(P, n, e, i)
  <2> HIDE DEF P
  <2>1. QED
    BY <1>1
<1>3. P[i] = Obj("", NoFields, bs)
  BY Zenon, <1>2 DEF ImplWith
<1>4. QED
  <2> HIDE DEF P, bs
  <2>1. Obj("", NoFields, bs).bases = bs
    BY Zenon, PlainObject
  <2>2. P[i].bases = bs
    BY Zenon, <1>3, <2>1
  <2>3. QED
    BY Zenon, <2>2 DEF P, bs

(* Down the bases of a tuple are its impls, one after another *)
LEMMA TupleImplIs ==
  ASSUME NEW n \in Nat, NEW e, NEW index \in 0 .. n - 1
  PROVE  TupleImpl(TupleTree(n, e), index) = {Impls(n, e)[index + 1]}
<1> DEFINE o == TupleTree(n, e)
           P == Impls(n, e)
           With(f) == [i \in 0 .. index |-> IF i = 0 THEN Base({o}, 0) ELSE Base(f[i - 1], 0)]
           impl == CHOOSE f : f = With(f)
           w == [i \in 0 .. index |-> {P[i + 1]}]
<1>1. TupleImpl(o, index) = impl[index]
  BY Zenon DEF TupleImpl
<1>2. n # 0
  OBVIOUS
<1>3. Base({o}, 0) = {P[1]}
  <2>1. o = Obj("std::tuple", NoFields, <<P[1]>>)
    BY Zenon, <1>2, ImplsAre
  <2> HIDE DEF o, P
  <2>2. o.bases = <<P[1]>>
    BY <2>1, ObjectFacts
  <2>3. Base({o}, 0) = IF 0 < Len(o.bases) THEN {o.bases[0 + 1]} ELSE {}
    BY Zenon, ReadingOne
  <2>4. Len(o.bases) = 1 /\ o.bases[1] = P[1]
    BY <2>2
  <2>5. QED
    BY <2>3, <2>4
<1>4. ASSUME NEW i \in 1 .. n - 1 PROVE Base({P[i]}, 0) = {P[i + 1]}
  <2>1. i \in 1 .. n /\ ~(i >= n)
    BY <1>4
  <2>2. P[i].bases = <<P[i + 1], InBase("_M_head_impl", Item[i], i \in e)>>
    BY Zenon, <2>1, ImplFacts
  <2> HIDE DEF P
  <2>3. Base({P[i]}, 0) = IF 0 < Len(P[i].bases) THEN {P[i].bases[0 + 1]} ELSE {}
    BY Zenon, ReadingOne
  <2>4. Len(P[i].bases) = 2 /\ P[i].bases[1] = P[i + 1]
    BY <2>2
  <2>5. QED
    BY <2>3, <2>4
<1>5. w = With(w)
  <2>1. ASSUME NEW i \in 0 .. index
        PROVE  w[i] = IF i = 0 THEN Base({o}, 0) ELSE Base(w[i - 1], 0)
    <3>1. w[i] = {P[i + 1]}
      OBVIOUS
    <3>2. CASE i = 0
      BY <1>3, <3>2
    <3>3. CASE i # 0
      <4>1. i - 1 \in 0 .. index /\ i \in 1 .. n - 1 /\ (i - 1) + 1 = i
        BY <3>3
      <4>2. w[i - 1] = {P[i]}
        BY <4>1
      <4>3. Base({P[i]}, 0) = {P[i + 1]}
        BY <1>4, <4>1
      <4> HIDE DEF w, P
      <4>4. QED
        BY <3>1, <3>3, <4>2, <4>3
    <3>4. QED
      BY <3>2, <3>3
  <2>2. w = [i \in 0 .. index |-> w[i]]
    OBVIOUS
  <2> HIDE DEF w, o
  <2>3. QED
    BY <2>1, <2>2
<1>6. impl = With(impl)
  <2> HIDE DEF w, With
  <2>1. QED
    BY Zenon, <1>5
<1>7. \A i \in 0 .. index : impl[i] = IF i = 0 THEN Base({o}, 0) ELSE Base(impl[i - 1], 0)
  <2> HIDE DEF impl, o
  <2>1. QED
    BY <1>6
<1>8. impl[index] = {P[index + 1]}
  <2> DEFINE T == {i \in 0 .. index : impl[i] # {P[i + 1]}}
  <2>1. T = {}
    <3> SUFFICES ASSUME T # {} PROVE FALSE
      OBVIOUS
    <3>1. PICK i \in T : \A j \in T : i <= j
      <4>1. T \in SUBSET Nat
        OBVIOUS
      <4> HIDE DEF T
      <4>2. QED
        BY <4>1, Smallest
    <3>2. i \in 0 .. index /\ impl[i] # {P[i + 1]}
      BY <3>1
    <3>3. i # 0
      <4> SUFFICES ASSUME i = 0 PROVE FALSE
        OBVIOUS
      <4> HIDE DEF impl, P, o
      <4>1. impl[0] = {P[1]}
        BY <1>3, <1>7, <3>2
      <4>2. QED
        BY <3>2, <4>1
    <3>4. i - 1 \in 0 .. index /\ ~(i <= i - 1) /\ i \in 1 .. n - 1 /\ (i - 1) + 1 = i
      BY <3>2, <3>3
    <3> HIDE DEF impl, P, o
    <3>5. impl[i - 1] = {P[i]}
      BY <3>1, <3>4
    <3>6. impl[i] = Base({P[i]}, 0)
      BY <1>7, <3>2, <3>3, <3>5
    <3>7. QED
      BY <1>4, <3>2, <3>4, <3>6
  <2>2. index \in 0 .. index
    OBVIOUS
  <2> HIDE DEF impl, P
  <2>3. QED
    BY <2>1, <2>2
<1>9. QED
  BY Zenon, <1>1, <1>8

(* So elements are found, and counted *)
LEMMA TupleFound ==
  ASSUME NEW n \in Nat, NEW e
  PROVE  /\ \A i \in 0 .. n - 1 : TupleElement(TupleTree(n, e), i) = {Leaf(Item[i + 1])}
         /\ n <= MaxElems => TupleSize(TupleTree(n, e)) = n
<1> DEFINE o == TupleTree(n, e)
           P == Impls(n, e)
           HeadAt(i) == InBase("_M_head_impl", Item[i], i \in e)
<1>1. ASSUME NEW i \in 0 .. n - 1 PROVE TupleElement(o, i) = {Leaf(Item[i + 1])}
  <2> DEFINE impl == P[i + 1]
             HeadBase(x) == Base({x}, IF Len(x.bases) > 1 THEN 1 ELSE 0)
  <2>1. i + 1 \in 1 .. n
    BY <1>1
  <2>2. impl.bases = IF i + 1 >= n THEN <<HeadAt(i + 1)>> ELSE <<P[i + 1 + 1], HeadAt(i + 1)>>
    BY Zenon, <2>1, ImplFacts
  <2>3. HeadBase(impl) = {HeadAt(i + 1)}
    <3> DEFINE k == IF Len(impl.bases) > 1 THEN 1 ELSE 0
    <3>1. Base({impl}, k) = IF k < Len(impl.bases) THEN {impl.bases[k + 1]} ELSE {}
      BY Zenon, ReadingOne
    <3> HIDE DEF impl, HeadAt, P
    <3>2. k < Len(impl.bases) /\ impl.bases[k + 1] = HeadAt(i + 1)
      BY <2>2
    <3>3. QED
      BY <3>1, <3>2
  <2>4. TupleElement(o, i) = FieldOrBase(UNION {HeadBase(x) : x \in TupleImpl(o, i)}, "_M_head_impl")
    BY Zenon DEF TupleElement
  <2>5. TupleImpl(o, i) = {impl}
    BY Zenon, <1>1, TupleImplIs
  <2>6. UNION {HeadBase(x) : x \in {impl}} = HeadBase(impl)
    <3> HIDE DEF HeadBase, impl
    <3>1. QED
      OBVIOUS
  <2>7. TupleElement(o, i) = FieldOrBase({HeadAt(i + 1)}, "_M_head_impl")
    <3> HIDE DEF HeadBase, impl, HeadAt, o
    <3>1. QED
      BY Zenon, <2>3, <2>4, <2>5, <2>6
  <2>8. (i + 1 \in e) \in BOOLEAN
    OBVIOUS
  <2>9. QED
    BY Zenon, <2>7, <2>8, ElementHeld
<1>2. ASSUME n <= MaxElems PROVE TupleSize(o) = n
  <2> DEFINE IsLast(i) == \A impl \in TupleImpl(o, i) : Len(impl.bases) <= 1
             Is(m) == IsLast(m - 1) /\ \A j \in 1 .. m - 1 : ~IsLast(j - 1)
  <2>1. o = Obj("std::tuple", NoFields, IF n = 0 THEN <<>> ELSE <<P[1]>>)
    BY Zenon, ImplsAre
  <2>2. o.bases = IF n = 0 THEN <<>> ELSE <<P[1]>>
    <3> HIDE DEF o, P
    <3>1. QED
      BY <2>1, ObjectFacts
  <2>3. Len(o.bases) = 0 <=> n = 0
    <3> HIDE DEF o, P
    <3>1. QED
      BY <2>2
  <2>4. TupleSize(o) = IF Len(o.bases) = 0 THEN 0 ELSE CHOOSE m \in 1 .. MaxElems + 2 : Is(m)
    BY Zenon DEF TupleSize
  <2>5. ASSUME NEW i \in 0 .. n - 1 PROVE IsLast(i) <=> i = n - 1
    <3>1. i + 1 \in 1 .. n
      BY <2>5
    <3>2. P[i + 1].bases = IF i + 1 >= n THEN <<HeadAt(i + 1)>> ELSE <<P[i + 1 + 1], HeadAt(i + 1)>>
      BY Zenon, <3>1, ImplFacts
    <3>3. TupleImpl(o, i) = {P[i + 1]}
      BY Zenon, <2>5, TupleImplIs
    <3> HIDE DEF P, HeadAt, o
    <3>4. Len(P[i + 1].bases) = IF i + 1 >= n THEN 1 ELSE 2
      BY <3>2
    <3>5. IsLast(i) <=> Len(P[i + 1].bases) <= 1
      BY <3>3
    <3> HIDE DEF IsLast
    <3>6. QED
      BY <2>5, <3>4, <3>5
  <2>6. CASE n # 0
    <3> HIDE DEF IsLast
    <3>1. n \in 1 .. MaxElems + 2 /\ Is(n)
      <4>1. MaxElems \in Nat
        BY HoldersAssumption
      <4>2. n - 1 \in 0 .. n - 1 /\ \A j \in 1 .. n - 1 : j - 1 \in 0 .. n - 1 /\ j - 1 # n - 1
        BY <2>6
      <4>3. QED
        BY <1>2, <2>5, <2>6, <4>1, <4>2
    <3>2. \A m \in 1 .. MaxElems + 2 : Is(m) => m = n
      <4> SUFFICES ASSUME NEW m \in 1 .. MaxElems + 2, Is(m), m # n PROVE FALSE
        OBVIOUS
      <4>1. CASE m < n
        <5>1. m - 1 \in 0 .. n - 1 /\ m - 1 # n - 1
          BY <4>1
        <5>2. QED
          BY <2>5, <5>1
      <4>2. CASE m > n
        <5>1. n \in 1 .. m - 1
          BY <2>6, <4>2
        <5>2. QED
          BY <3>1, <5>1
      <4>3. QED
        BY <4>1, <4>2
    <3> HIDE DEF Is
    <3>3. (CHOOSE m \in 1 .. MaxElems + 2 : Is(m)) = n
      BY <3>1, <3>2
    <3>4. QED
      BY <2>3, <2>4, <2>6, <3>3
  <2>7. CASE n = 0
    BY Zenon, <2>3, <2>4, <2>7
  <2>8. QED
    BY <2>6, <2>7
<1>3. QED
  BY <1>1, <1>2

(* Elements that have all been found are listed in order *)
LEMMA ListedIs ==
  ASSUME NEW n \in Nat, n <= Len(Item), NEW es, DOMAIN es = 0 .. n - 1,
         \A i \in 0 .. n - 1 : es[i] = {Leaf(Item[i + 1])}
  PROVE  Listed(es) = {Elements(n)}
<1>2. Cardinality(DOMAIN es) = n
  BY FS_Interval
<1>3. ~ \E i \in DOMAIN es : es[i] = {}
  OBVIOUS
<1>4. Listed(es) = {[i \in 1 .. n |-> (CHOOSE x \in es[i - 1] : TRUE).holds]}
  BY Zenon, <1>2, <1>3 DEF Listed
<1>5. ASSUME NEW i \in 1 .. n PROVE (CHOOSE x \in es[i - 1] : TRUE).holds = Item[i]
  <2>1. i - 1 \in 0 .. n - 1 /\ (i - 1) + 1 = i
    OBVIOUS
  <2>2. es[i - 1] = {Leaf(Item[i])}
    BY <2>1
  <2>3. (CHOOSE x \in es[i - 1] : TRUE) = Leaf(Item[i])
    BY <2>2
  <2>4. QED
    BY Zenon, <2>3, LeafFacts
<1>6. Elements(n) = [i \in 1 .. n |-> Item[i]]
  <2>1. Item \in Seq(STRING)
    BY HoldersAssumption
  <2>2. QED
    BY <2>1 DEF Elements
<1>7. [i \in 1 .. n |-> (CHOOSE x \in es[i - 1] : TRUE).holds] = Elements(n)
  BY <1>5, <1>6
<1>8. QED
  BY Zenon, <1>4, <1>7

(* An object with bases has the first of them first *)
LEMMA FirstBase ==
  ASSUME NEW id, NEW fs, NEW x
  PROVE  Base({Obj(id, fs, <<x>>)}, 0) = {x}
<1> DEFINE o == Obj(id, fs, <<x>>)
<1>1. o.bases = <<x>>
  BY ObjectFacts
<1>2. Base({o}, 0) = IF 0 < Len(o.bases) THEN {o.bases[0 + 1]} ELSE {}
  BY Zenon, ReadingOne
<1> HIDE DEF o
<1>3. Len(o.bases) = 1 /\ o.bases[1] = x
  BY <1>1
<1>4. Base({o}, 0) = {x}
  BY <1>2, <1>3
<1>5. QED
  BY Zenon, <1>4 DEF o

(* Tuples show their elements, and so do their children *)
LEMMA TuplesShown ==
  ASSUME NEW h \in IntactTuple
  PROVE  /\ Shown("tuple", h.rep) = {h.stored}
         /\ \A i \in DOMAIN h.stored :
                h.stored[i] \in Part(Item) /\ TupleElement(h.rep, i - 1) = {Leaf(h.stored[i])}
<1>0. PICK n \in 0 .. MaxElems : \E e \in SUBSET (1 .. n) : h = Held(TupleTree(n, e), Elements(n))
  BY DEF IntactTuple
<1>1. PICK e \in SUBSET (1 .. n) : h = Held(TupleTree(n, e), Elements(n))
  BY <1>0
<1>2. n \in Nat /\ n <= MaxElems /\ n <= Len(Item)
  BY HoldersAssumption
<1>3. h.rep = TupleTree(n, e) /\ h.stored = Elements(n)
  BY <1>1 DEF Held
<1>4. /\ \A i \in 0 .. n - 1 : TupleElement(h.rep, i) = {Leaf(Item[i + 1])}
      /\ TupleSize(h.rep) = n
  <2>1. /\ \A i \in 0 .. n - 1 : TupleElement(TupleTree(n, e), i) = {Leaf(Item[i + 1])}
        /\ TupleSize(TupleTree(n, e)) = n
    BY Zenon, <1>2, TupleFound
  <2>2. QED
    BY Zenon, <1>3, <2>1
<1>5. Shown("tuple", h.rep) = {Elements(n)}
  <2> DEFINE es == [i \in 0 .. TupleSize(h.rep) - 1 |-> TupleElement(h.rep, i)]
  <2>1. Shown("tuple", h.rep) = Listed(es)
    BY DEF Shown
  <2>2. DOMAIN es = 0 .. n - 1 /\ \A i \in 0 .. n - 1 : es[i] = {Leaf(Item[i + 1])}
    BY <1>4
  <2> HIDE DEF es
  <2>3. QED
    BY <1>2, <2>1, <2>2, ListedIs
<1>6. \A i \in DOMAIN Elements(n) :
            /\ i - 1 \in 0 .. n - 1 /\ (i - 1) + 1 = i
            /\ Elements(n)[i] = Item[i] /\ Item[i] \in Part(Item)
  <2>1. Item \in Seq(STRING)
    BY HoldersAssumption
  <2>2. DOMAIN Elements(n) = 1 .. n /\ \A i \in 1 .. n : Elements(n)[i] = Item[i]
    BY <1>2, <2>1 DEF Elements
  <2>3. \A i \in 1 .. n : i \in DOMAIN Item
    BY <1>2, <2>1
  <2>4. \A i \in DOMAIN Item : Item[i] \in Part(Item)
    BY Zenon DEF Part
  <2>5. QED
    BY <1>2, <2>2, <2>3, <2>4
<1>7. ASSUME NEW i \in DOMAIN h.stored
      PROVE  h.stored[i] \in Part(Item) /\ TupleElement(h.rep, i - 1) = {Leaf(h.stored[i])}
  <2>1. i \in DOMAIN Elements(n)
    BY Zenon, <1>3, <1>7
  <2>2. TupleElement(h.rep, i - 1) = {Leaf(Item[i])}
    BY Zenon, <1>4, <1>6, <2>1
  <2>3. QED
    BY Zenon, <1>3, <1>6, <2>1, <2>2
<1>8. QED
  BY Zenon, <1>3, <1>5, <1>7

(* ... libc++'s too *)
LEMMA LibcxxTuplesShown ==
  ASSUME NEW h \in IntactLibcxxTuple
  PROVE  /\ Shown("libcxx_tuple", h.rep) = {h.stored}
         /\ \A i \in DOMAIN h.stored :
                /\ h.stored[i] \in Part(Item)
                /\ LibcxxTupleElement(h.rep, i - 1) = {Leaf(h.stored[i])}
<1> DEFINE Bases(n, e) == [i \in 1 .. n |-> InBase("__value_", Item[i], i \in e)]
           Tree(n, e)  == Obj("", Field("__base_", Obj("", NoFields, Bases(n, e))), <<>>)
<1>1. PICK n \in Nat : /\ n <= MaxElems /\ h.stored = Elements(n) /\ LibcxxTupleSize(h.rep) = n
                       /\ \A i \in 0 .. n - 1 : LibcxxTupleElement(h.rep, i) = {Leaf(Item[i + 1])}
  <2>1. CASE h = Held(Obj("", NoFields, <<>>), <<>>)
    <3>1. \A id : LibcxxTupleSize(Obj(id, NoFields, <<>>)) = 0
      <4> TAKE id
      <4>1. Obj(id, NoFields, <<>>).fields = NoFields
        BY ObjectFacts
      <4>2. ~Has(Obj(id, NoFields, <<>>), "__base_")
        BY Zenon, <4>1, LeafFacts DEF Has
      <4>3. QED
        BY Zenon, <4>2 DEF LibcxxTupleSize
    <3>2. \A r, s : Held(r, s).rep = r /\ Held(r, s).stored = s
      BY DEF Held
    <3>3. h.rep = Obj("", NoFields, <<>>) /\ h.stored = <<>>
      BY Zenon, <2>1, <3>2
    <3>6. LibcxxTupleSize(h.rep) = 0
      BY Zenon, <3>1, <3>3
    <3>4. Elements(0) = <<>> /\ 0 <= MaxElems /\ 0 \in Nat /\ 0 .. 0 - 1 = {}
      BY HoldersAssumption DEF Elements
    <3>5. \A i \in 0 .. 0 - 1 : LibcxxTupleElement(h.rep, i) = {Leaf(Item[i + 1])}
      BY Zenon, <3>4
    <3>7. QED
      BY Zenon, <3>3, <3>4, <3>5, <3>6
  <2>2. CASE \E n \in 1 .. MaxElems : \E e \in SUBSET (1 .. n) : h = Held(Tree(n, e), Elements(n))
    <3>0. PICK n \in 1 .. MaxElems : \E e \in SUBSET (1 .. n) : h = Held(Tree(n, e), Elements(n))
      BY Zenon, <2>2
    <3>1. PICK e \in SUBSET (1 .. n) : h = Held(Tree(n, e), Elements(n))
      BY Zenon, <3>0
    <3>2. \A r, s : Held(r, s).rep = r /\ Held(r, s).stored = s
      BY DEF Held
    <3>3. h.rep = Tree(n, e) /\ h.stored = Elements(n)
      BY Zenon, <3>1, <3>2
    <3>4. n \in Nat /\ n <= MaxElems
      BY HoldersAssumption
    <3> DEFINE bs == Bases(n, e)
               b == Obj("", NoFields, bs)
    <3>5. b.bases = bs
      BY Zenon, PlainObject
    <3>6. Has(h.rep, "__base_") /\ Get({h.rep}, "__base_") = {b} /\ h.rep.fields["__base_"] = b
      <4> HIDE DEF b
      <4>1. \A id : LET o == Obj(id, Field("__base_", b), <<>>)
                    IN  Has(o, "__base_") /\ Get({o}, "__base_") = {b} /\ o.fields["__base_"] = b
        BY OneField
      <4>2. h.rep = Obj("", Field("__base_", b), <<>>)
        BY Zenon, <3>3 DEF b
      <4>3. QED
        BY Zenon, <4>1, <4>2
    <3>7. LibcxxTupleSize(h.rep) = Len(b.bases)
      BY Zenon, <3>6 DEF LibcxxTupleSize
    <3>8. Len(bs) = n
      BY <3>4
    <3>9. ASSUME NEW i \in 0 .. n - 1
          PROVE  LibcxxTupleElement(h.rep, i) = {Leaf(Item[i + 1])}
      <4> DEFINE x == InBase("__value_", Item[i + 1], i + 1 \in e)
      <4>1. i < Len(bs) /\ bs[i + 1] = x
        BY <3>8
      <4>2. Base({b}, i) = IF i < Len(b.bases) THEN {b.bases[i + 1]} ELSE {}
        BY Zenon, ReadingOne
      <4>3. Base({b}, i) = {x}
        BY Zenon, <3>5, <4>1, <4>2
      <4>4. LibcxxTupleElement(h.rep, i) = FieldOrBase({x}, "__value_")
        BY Zenon, <3>6, <4>3 DEF LibcxxTupleElement
      <4>5. (i + 1 \in e) \in BOOLEAN
        OBVIOUS
      <4>6. QED
        BY Zenon, <4>4, <4>5, ElementHeld
    <3>10. LibcxxTupleSize(h.rep) = n
      BY Zenon, <3>5, <3>7, <3>8
    <3>11. QED
      BY Zenon, <3>3, <3>4, <3>9, <3>10
  <2>3. \/ h = Held(Obj("", NoFields, <<>>), <<>>)
        \/ \E n \in 1 .. MaxElems : \E e \in SUBSET (1 .. n) : h = Held(Tree(n, e), Elements(n))
    BY Zenon DEF IntactLibcxxTuple
  <2>4. QED
    BY Zenon, <2>1, <2>2, <2>3
<1>2. n <= Len(Item)
  BY <1>1, HoldersAssumption
<1>3. Shown("libcxx_tuple", h.rep) = {Elements(n)}
  <2> DEFINE es == [i \in 0 .. LibcxxTupleSize(h.rep) - 1 |-> LibcxxTupleElement(h.rep, i)]
  <2>1. Shown("libcxx_tuple", h.rep) = Listed(es)
    BY DEF Shown
  <2>2. DOMAIN es = 0 .. n - 1 /\ \A i \in 0 .. n - 1 : es[i] = {Leaf(Item[i + 1])}
    BY <1>1
  <2> HIDE DEF es
  <2>3. QED
    BY <1>1, <1>2, <2>1, <2>2, ListedIs
<1>4. \A i \in DOMAIN Elements(n) :
            /\ i - 1 \in 0 .. n - 1 /\ (i - 1) + 1 = i
            /\ Elements(n)[i] = Item[i] /\ Item[i] \in Part(Item)
  <2>1. Item \in Seq(STRING)
    BY HoldersAssumption
  <2>2. DOMAIN Elements(n) = 1 .. n /\ \A i \in 1 .. n : Elements(n)[i] = Item[i]
    BY <1>1, <1>2, <2>1 DEF Elements
  <2>3. \A i \in 1 .. n : i \in DOMAIN Item
    BY <1>1, <1>2, <2>1
  <2>4. \A i \in DOMAIN Item : Item[i] \in Part(Item)
    BY Zenon DEF Part
  <2>5. QED
    BY <1>1, <2>2, <2>3, <2>4
<1>5. ASSUME NEW i \in DOMAIN h.stored
      PROVE  h.stored[i] \in Part(Item) /\ LibcxxTupleElement(h.rep, i - 1) = {Leaf(h.stored[i])}
  <2>1. i \in DOMAIN Elements(n)
    BY Zenon, <1>1, <1>5
  <2>2. LibcxxTupleElement(h.rep, i - 1) = {Leaf(Item[i])}
    BY Zenon, <1>1, <1>4, <2>1
  <2>3. QED
    BY Zenon, <1>1, <1>4, <2>1, <2>2
<1>6. QED
  BY Zenon, <1>1, <1>3, <1>5

(* A unique pointer shows its pointer, whatever its tuple is in *)
LEMMA UniqueShown ==
  ASSUME NEW h \in IntactUnique
  PROVE  Shown("unique_ptr", h.rep) = {h.stored}
<1> DEFINE Outer(x) == Obj("std::unique_ptr", Field("_M_t", x), <<>>)
           Impl(x)  == Obj("std::__uniq_ptr_impl", Field("_M_t", x), <<>>)
           Data(x)  == Obj("std::__uniq_ptr_data", Field("_M_t", x), <<>>)
           Inner(c) == IF c.id \in {"std::__uniq_ptr_impl", "std::__uniq_ptr_data"}
                       THEN Get({c}, "_M_t") ELSE {c}
           tuple(e) == TupleTree(2, IF e THEN {2} ELSE {})
<1>1. PICK e \in BOOLEAN : \/ h = Held(Outer(tuple(e)), <<Item[1]>>)
                           \/ h = Held(Outer(Impl(tuple(e))), <<Item[1]>>)
                           \/ h = Held(Outer(Data(tuple(e))), <<Item[1]>>)
  BY Zenon DEF IntactUnique
<1> DEFINE t == tuple(e)
<1>2. h.stored = <<Item[1]>> /\ \E x \in {t, Impl(t), Data(t)} : h.rep = Outer(x)
  <2>1. \A r, s : Held(r, s).rep = r /\ Held(r, s).stored = s
    BY DEF Held
  <2> HIDE DEF Outer, Impl, Data, t
  <2>2. \/ h = Held(Outer(t), <<Item[1]>>)
        \/ h = Held(Outer(Impl(t)), <<Item[1]>>)
        \/ h = Held(Outer(Data(t)), <<Item[1]>>)
    BY Zenon, <1>1 DEF t
  <2>3. QED
    BY <2>1, <2>2
<1>3. PICK x \in {t, Impl(t), Data(t)} : h.rep = Outer(x)
  BY Zenon, <1>2
<1>4. t.id = "std::tuple" /\ TupleElement(t, 0) = {Leaf(Item[1])}
  <2>1. \A E : TupleTree(2, E).id = "std::tuple"
    <3> TAKE E
    <3> DEFINE bs == IF 2 = 0 THEN <<>> ELSE <<Impls(2, E)[1]>>
    <3>1. 2 \in Nat
      OBVIOUS
    <3>2. TupleTree(2, E) = Obj("std::tuple", NoFields, bs)
      BY Zenon, <3>1, ImplsAre
    <3> HIDE DEF bs
    <3>3. QED
      BY <3>2, ObjectFacts
  <2>2. \A E : TupleElement(TupleTree(2, E), 0) = {Leaf(Item[0 + 1])}
    BY TupleFound
  <2>3. 0 + 1 = 1
    OBVIOUS
  <2>4. QED
    BY Zenon, <2>1, <2>2, <2>3
<1> HIDE DEF t
<1>5. ASSUME NEW y PROVE Get({Impl(y)}, "_M_t") = {y} /\ Get({Data(y)}, "_M_t") = {y}
                         /\ Get({Outer(y)}, "_M_t") = {y}
  <2>1. \A id : Get({Obj(id, Field("_M_t", y), <<>>)}, "_M_t") = {y}
    BY Zenon, OneField
  <2>2. QED
    BY Zenon, <2>1
<1>6. Impl(t).id = "std::__uniq_ptr_impl" /\ Data(t).id = "std::__uniq_ptr_data"
  BY ObjectFacts
<1>7. Inner(x) = {t}
  <2>1. CASE x = t
    BY <1>4, <2>1
  <2>2. CASE x = Impl(t)
    BY Zenon, <1>5, <1>6, <2>2
  <2>3. CASE x = Data(t)
    BY Zenon, <1>5, <1>6, <2>3
  <2>4. QED
    BY <2>1, <2>2, <2>3
<1>8. Get({h.rep}, "_M_t") = {x}
  BY Zenon, <1>3, <1>5
<1>9. UniquePointer(h.rep) = UNION {TupleElement(c, 0) : c \in UNION {Inner(c) : c \in Get({h.rep}, "_M_t")}}
  BY Zenon DEF UniquePointer
<1> HIDE DEF Inner
<1>10. UNION {Inner(c) : c \in Get({h.rep}, "_M_t")} = {t}
  BY <1>7, <1>8
<1>11. UniquePointer(h.rep) = {Leaf(Item[1])}
  BY <1>4, <1>9, <1>10
<1>12. Shown("unique_ptr", h.rep) = {<<o.holds>> : o \in UniquePointer(h.rep)}
  BY DEF Shown
<1>13. QED
  BY Zenon, <1>2, <1>11, <1>12, LeafShown

(* Optionals and variants show what they have, or that it is in a union or *)
(* in bytes; a variant without a value is not shown                        *)
LEMMA ChoicesShown ==
  /\ \A h \in IntactOptional :
        Shown("optional", h.rep) = {IF Boxed("optional", h.rep, h.stored) THEN <<"">> ELSE h.stored}
  /\ \A h \in IntactVariant :
        \/ Shown("variant", h.rep) = {IF Boxed("variant", h.rep, h.stored) THEN <<"">> ELSE h.stored}
        \/ Shown("variant", h.rep) = {} /\ h.stored = <<>>
<1>1. ASSUME NEW h \in IntactOptional
      PROVE  Shown("optional", h.rep) =
                {IF Boxed("optional", h.rep, h.stored) THEN <<"">> ELSE h.stored}
  <2>1. Shown("optional", h.rep) = OptionalShown(h.rep)
    BY DEF Shown
  <2>2. PICK e \in BOOLEAN, b \in BOOLEAN :
            h = Held([engaged |-> e, boxed |-> b], IF e THEN <<Item[1]>> ELSE <<>>)
    BY <1>1 DEF IntactOptional
  <2>3. h.rep.engaged = e /\ h.rep.boxed = b /\ h.stored = IF e THEN <<Item[1]>> ELSE <<>>
    BY <2>2 DEF Held
  <2>4. Payload(b).holds = IF b THEN "" ELSE Item[1]
    BY DEF Payload, Obj, Leaf
  <2>5. Boxed("optional", h.rep, h.stored) <=> e /\ b
    BY <2>3 DEF Boxed
  <2>6. OptionalShown(h.rep) = {IF e THEN <<Payload(b).holds>> ELSE <<>>}
    BY <2>3 DEF OptionalShown
  <2>7. QED
    BY <2>1, <2>3, <2>4, <2>5, <2>6
<1>2. ASSUME NEW h \in IntactVariant
      PROVE  \/ Shown("variant", h.rep) =
                    {IF Boxed("variant", h.rep, h.stored) THEN <<"">> ELSE h.stored}
             \/ Shown("variant", h.rep) = {} /\ h.stored = <<>>
  <2> DEFINE r == h.rep
             k == h.rep.index
             x == IF k + 1 \in r.boxed THEN Obj("__aligned_membuf", NoFields, <<>>)
                  ELSE Leaf(Item[k + 1])
  <2>1. PICK p \in (1 .. MaxElems) \X (0 .. NoAlternative), b \in SUBSET Nat :
            /\ p[2] < p[1] \/ p[2] = NoAlternative
            /\ h = Held([alternatives |-> p[1], boxed |-> b, index |-> p[2]],
                        IF p[2] = NoAlternative THEN <<>> ELSE <<Item[p[2] + 1]>>)
    <3>1. PICK p \in (1 .. MaxElems) \X (0 .. NoAlternative) :
              /\ p[2] < p[1] \/ p[2] = NoAlternative
              /\ \E b \in SUBSET (1 .. p[1]) :
                    h = Held([alternatives |-> p[1], boxed |-> b, index |-> p[2]],
                             IF p[2] = NoAlternative THEN <<>> ELSE <<Item[p[2] + 1]>>)
      BY Zenon, <1>2 DEF IntactVariant
    <3>2. PICK b \in SUBSET (1 .. p[1]) :
                h = Held([alternatives |-> p[1], boxed |-> b, index |-> p[2]],
                         IF p[2] = NoAlternative THEN <<>> ELSE <<Item[p[2] + 1]>>)
      BY Zenon, <3>1
    <3>3. b \in SUBSET Nat
      OBVIOUS
    <3>4. QED
      BY Zenon, <3>1, <3>2, <3>3
  <2>2. /\ r = [alternatives |-> p[1], boxed |-> b, index |-> p[2]]
        /\ h.stored = IF p[2] = NoAlternative THEN <<>> ELSE <<Item[p[2] + 1]>>
    BY <2>1 DEF Held
  <2>3. r.index = p[2] /\ r.alternatives = p[1] /\ r \in VariantReps
    <3>1. h \in IntactOf("variant")
      BY <1>2 DEF IntactOf
    <3>2. r \in VariantReps
      BY Zenon, <3>1, IntactReps
    <3>3. QED
      BY <2>2, <3>2
  <2>4. p[1] \in 1 .. MaxElems /\ p[2] \in 0 .. NoAlternative /\ MaxElems \in Nat
    BY HoldersAssumption
  <2>5. Shown("variant", r) = {<<o.holds>> : o \in VariantStorage(r)}
    BY DEF Shown
  <2>6. CASE p[2] = NoAlternative
    <3>1. ~(r.index < r.alternatives)
      BY <2>3, <2>4, <2>6 DEF NoAlternative
    <3>2. VariantStorage(r) = {}
      BY Zenon, <2>3, <3>1, StorageIs
    <3> HIDE DEF r
    <3>3. Shown("variant", r) = {}
      BY <2>5, <3>2
    <3>4. QED
      BY <2>2, <2>6, <3>3 DEF r
  <2>7. CASE p[2] # NoAlternative
    <3>1. r.index < r.alternatives
      BY <2>1, <2>3, <2>7
    <3>2. VariantStorage(r) = {x}
      BY Zenon, <2>3, <3>1, StorageIs
    <3>3. h.stored = <<Item[k + 1]>>
      BY <2>2, <2>3, <2>7
    <3>4. Boxed("variant", r, h.stored) <=> k + 1 \in r.boxed
      BY <3>3 DEF Boxed
    <3>5. x.holds = IF k + 1 \in r.boxed THEN "" ELSE Item[k + 1]
      BY DEF Obj, Leaf
    <3> HIDE DEF r, k, x
    <3>6. Shown("variant", r) = {<<x.holds>>}
      BY <2>5, <3>2
    <3>7. Shown("variant", r) = {IF Boxed("variant", r, h.stored) THEN <<"">> ELSE h.stored}
      BY <3>3, <3>4, <3>5, <3>6
    <3>8. QED
      BY Zenon, <3>7 DEF r
  <2>8. QED
    BY <2>6, <2>7
<1>3. QED
  BY Zenon, <1>1, <1>2

(* libc++'s function shows what it holds, in the layout of each version *)
LEMMA LibcxxFunctionsShown ==
  ASSUME NEW h \in IntactLibcxxFunction
  PROVE  Shown("libcxx_function", h.rep) = {h.stored}
<1> DEFINE f == Leaf(Item[1])
           Func(fs) == Obj("__func", fs, <<>>)
           pair(e) == Obj("__compressed_pair", NoFields, <<InBase("__value_", Item[1], e)>>)
           Plain1(x) == Obj("", Field("__func_", x), <<>>)
           Paired(x) == Obj("", Field("__f_", x), <<>>)
           Inside(x) == IF Has(x, "__func_") THEN Get({x}, "__func_")
                        ELSE FieldOrBase(Base(Get({x}, "__f_"), 0), "__value_")
<1>1. Shown("libcxx_function", h.rep) =
        IF h.rep.isNull THEN {<<>>} ELSE {<<o.holds>> : o \in LibcxxFunctor(h.rep.func)}
  BY DEF Shown
<1>2. \/ h = Held([isNull |-> TRUE, func |-> f], <<>>)
      \/ h = Held([isNull |-> FALSE, func |-> Func(Field("__func_", f))], <<Item[1]>>)
      \/ \E x \in {Plain1(f)} \cup {Paired(pair(e)) : e \in BOOLEAN} :
            h = Held([isNull |-> FALSE, func |-> Func(Field("__f_", x))], <<Item[1]>>)
  BY Zenon DEF IntactLibcxxFunction
<1>3. ASSUME NEW n, NEW r, NEW s, h = Held([isNull |-> n, func |-> r], s)
      PROVE  h.rep.isNull = n /\ h.rep.func = r /\ h.stored = s
  BY <1>3 DEF Held
<1>4. ASSUME NEW x, NEW s
      PROVE  \A id : LET o == Obj(id, Field(s, x), <<>>)
                     IN  Has(o, s) /\ Get({o}, s) = {x} /\ \A other : other # s => ~Has(o, other)
  BY OneField
<1>5. "__f_" # "__func_"
  OBVIOUS
<1>6. LibcxxFunctor(Func(Field("__func_", f))) = {f}
  BY Zenon, <1>4 DEF LibcxxFunctor
<1>7. Inside(Plain1(f)) = {f}
  BY Zenon, <1>4
<1>8. ASSUME NEW e \in BOOLEAN PROVE Inside(Paired(pair(e))) = {f}
  <2>1. ~Has(Paired(pair(e)), "__func_") /\ Get({Paired(pair(e))}, "__f_") = {pair(e)}
    BY Zenon, <1>4, <1>5
  <2>2. Base({pair(e)}, 0) = {InBase("__value_", Item[1], e)}
    BY Zenon, FirstBase
  <2>3. FieldOrBase({InBase("__value_", Item[1], e)}, "__value_") = {f}
    BY Zenon, ElementHeld
  <2>4. QED
    BY Zenon, <2>1, <2>2, <2>3
<1>9. ASSUME NEW x, Inside(x) = {f} PROVE LibcxxFunctor(Func(Field("__f_", x))) = {f}
  <2> DEFINE o == Func(Field("__f_", x))
  <2>1. ~Has(o, "__func_") /\ Get({o}, "__f_") = {x}
    BY Zenon, <1>4, <1>5
  <2>2. LibcxxFunctor(o) = IF Has(o, "__func_") THEN Get({o}, "__func_")
                           ELSE UNION {Inside(y) : y \in Get({o}, "__f_")}
    BY Zenon DEF LibcxxFunctor
  <2> HIDE DEF o, Inside, f
  <2>3. UNION {Inside(y) : y \in {x}} = {f}
    BY <1>9
  <2>4. LibcxxFunctor(o) = {f}
    BY Zenon, <2>1, <2>2, <2>3
  <2>5. QED
    BY Zenon, <2>4 DEF o
<1>10. CASE h = Held([isNull |-> TRUE, func |-> f], <<>>)
  BY Zenon, <1>1, <1>3, <1>10
<1>11. ASSUME NEW r, LibcxxFunctor(r) = {f}, h = Held([isNull |-> FALSE, func |-> r], <<Item[1]>>)
       PROVE  Shown("libcxx_function", h.rep) = {h.stored}
  <2>1. h.rep.isNull = FALSE /\ h.rep.func = r /\ h.stored = <<Item[1]>>
    BY Zenon, <1>3, <1>11
  <2>2. Shown("libcxx_function", h.rep) = {<<o.holds>> : o \in {f}}
    BY Zenon, <1>1, <1>11, <2>1
  <2>3. {<<o.holds>> : o \in {f}} = {<<Item[1]>>}
    BY Zenon, LeafShown
  <2>4. QED
    BY Zenon, <2>1, <2>2, <2>3
<1>12. CASE \E x \in {Plain1(f)} \cup {Paired(pair(e)) : e \in BOOLEAN} :
                h = Held([isNull |-> FALSE, func |-> Func(Field("__f_", x))], <<Item[1]>>)
  <2>1. PICK x \in {Plain1(f)} \cup {Paired(pair(e)) : e \in BOOLEAN} :
                h = Held([isNull |-> FALSE, func |-> Func(Field("__f_", x))], <<Item[1]>>)
    BY Zenon, <1>12
  <2>2. Inside(x) = {f}
    BY Zenon, <1>7, <1>8
  <2>3. QED
    BY Zenon, <1>9, <1>11, <2>1, <2>2
<1>13. QED
  BY Zenon, <1>2, <1>6, <1>10, <1>11, <1>12

(* A bind shows its target, in a std::_Mem_fn or not, and its arguments *)
LEMMA BindsShown ==
  ASSUME NEW h \in IntactBind
  PROVE  /\ Shown("bind", h.rep) = {h.stored} /\ h.stored # <<>>
         /\ {o.holds : o \in BindTarget(h.rep)} = {h.stored[1]}
         /\ BoundArguments(h.rep) = {SubSeq(h.stored, 2, Len(h.stored))}
<1> DEFINE target == Leaf("target")
           MemFn == Obj("std::_Mem_fn", Field("_M_pmf", target), <<>>)
           In(w) == IF w THEN MemFn ELSE target
           fs(n, w) == [f \in {"_M_f", "_M_bound_args"} |->
                            IF f = "_M_bound_args" THEN TupleTree(n, {})
                            ELSE IF w THEN MemFn ELSE target]
<1>1. PICK n \in 0 .. MaxElems, w \in BOOLEAN :
            h = Held(Obj("std::_Bind", fs(n, w), <<>>), <<"target">> \o Elements(n))
  BY Zenon DEF IntactBind
<1> DEFINE tree == TupleTree(n, {})
           args == Elements(n)
<1>2. n \in Nat /\ n <= MaxElems /\ n <= Len(Item)
  BY HoldersAssumption
<1>3. /\ h.rep.fields = fs(n, w) /\ h.stored = <<"target">> \o args
  <2>1. \A r, s : Held(r, s).rep = r /\ Held(r, s).stored = s
    BY DEF Held
  <2> HIDE DEF fs
  <2>2. h.rep = Obj("std::_Bind", fs(n, w), <<>>) /\ h.stored = <<"target">> \o args
    BY Zenon, <1>1, <2>1
  <2>3. QED
    BY <2>2, ObjectFacts
<1>4. Get({h.rep}, "_M_f") = {In(w)} /\ Get({h.rep}, "_M_bound_args") = {tree}
  <2> HIDE DEF MemFn, target, tree
  <2>1. /\ DOMAIN fs(n, w) = {"_M_f", "_M_bound_args"}
        /\ fs(n, w)["_M_f"] = In(w) /\ fs(n, w)["_M_bound_args"] = tree
    BY DEF tree
  <2>2. /\ Has(h.rep, "_M_f") /\ Has(h.rep, "_M_bound_args")
        /\ h.rep.fields["_M_f"] = In(w) /\ h.rep.fields["_M_bound_args"] = tree
    BY <1>3, <2>1 DEF Has
  <2>3. QED
    BY Zenon, <2>2, ReadingOne
<1>5. BindTarget(h.rep) = {target}
  <2> DEFINE Of(t) == IF t.id = "std::_Mem_fn" THEN Get({t}, "_M_pmf") ELSE {t}
  <2>1. Of(In(w)) = {target}
    <3>1. CASE w
      <4>1. MemFn.id = "std::_Mem_fn" /\ Get({MemFn}, "_M_pmf") = {target}
        BY ObjectFacts, OneField
      <4>2. QED
        BY Zenon, <3>1, <4>1
    <3>2. CASE ~w
      <4>1. \A id : id = "std::_Mem_fn" => id # ""
        BY Zenon
      <4>2. target.id # "std::_Mem_fn"
        BY Zenon, <4>1, LeafFacts
      <4>3. QED
        BY Zenon, <3>2, <4>2
    <3>3. QED
      BY Zenon, <3>1, <3>2
  <2>2. BindTarget(h.rep) = UNION {Of(t) : t \in Get({h.rep}, "_M_f")}
    BY Zenon DEF BindTarget
  <2> HIDE DEF Of, In, target
  <2>3. QED
    BY <1>4, <2>1, <2>2
<1>6. BoundArguments(h.rep) = {args}
  <2> DEFINE es(a) == [i \in 0 .. TupleSize(a) - 1 |-> TupleElement(a, i)]
  <2>1. BoundArguments(h.rep) = UNION {Listed(es(a)) : a \in Get({h.rep}, "_M_bound_args")}
    BY Zenon DEF BoundArguments
  <2>2. /\ \A i \in 0 .. n - 1 : TupleElement(tree, i) = {Leaf(Item[i + 1])}
        /\ TupleSize(tree) = n
    BY Zenon, <1>2, TupleFound
  <2> HIDE DEF tree, args
  <2>3. DOMAIN es(tree) = 0 .. n - 1 /\ \A i \in 0 .. n - 1 : es(tree)[i] = {Leaf(Item[i + 1])}
    BY <2>2
  <2> HIDE DEF es
  <2>4. Listed(es(tree)) = {args}
    BY <1>2, <2>3, ListedIs DEF args
  <2>5. QED
    BY <1>4, <2>1, <2>4
<1>7. args \in Seq(STRING) /\ Len(h.stored) = Len(args) + 1
      /\ h.stored[1] = "target" /\ SubSeq(h.stored, 2, Len(h.stored)) = args
  <2>1. args \in Seq(STRING)
    BY <1>2, HoldersAssumption DEF Elements
  <2> HIDE DEF args
  <2>2. QED
    BY <1>3, <2>1
<1>8. target.holds = "target"
  BY Zenon, LeafFacts
<1>9. Shown("bind", h.rep) = {<<t.holds>> \o as : t \in BindTarget(h.rep), as \in BoundArguments(h.rep)}
  BY DEF Shown
<1> HIDE DEF target, args
<1>10. Shown("bind", h.rep) = {<<"target">> \o args}
  BY <1>5, <1>6, <1>8, <1>9
<1>11. {o.holds : o \in BindTarget(h.rep)} = {h.stored[1]}
  BY <1>5, <1>7, <1>8
<1>12. h.stored # <<>>
  BY <1>7
<1>13. QED
  BY <1>3, <1>6, <1>7, <1>10, <1>11, <1>12

(* A type that any or function hold is found by its name, or it cannot be *)
LEMMA HeldTypeFound ==
  ASSUME NEW t \in Functors
  PROVE  /\ t # Nothing
         /\ Nameable(t) => FindType(Printed[t]) = t
         /\ ~Nameable(t) /\ ~HasRvalue(t) => FindType(Printed[t]) = Nothing
<1>1. t \in Terms /\ t.k # "namespace"
  BY HoldersAssumption, ManagersAssumption
<1>2. t # Nothing
  BY <1>1, SomeTerm
<1>3. FoundRight(t)
  BY <1>1, AllFound
<1>4. QED
  BY <1>1, <1>2, <1>3, TypeFoundRight

(* What a formatter that goes by a name shows, if the holder is intact *)
ByNameRight(S, s) ==
    /\ S = {} => s # <<>> /\ ~Nameable(s[1].type)
    /\ \A items \in S : ~(s # <<>> /\ HasRvalue(s[1].type)) => items = s

(* std::any shows what it holds, if that can be found *)
LEMMA AnysShown ==
  ASSUME NEW h \in IntactAny
  PROVE  ByNameRight(Shown("any", h.rep), h.stored)
<1>1. Shown("any", h.rep) = AnyShown(h.rep)
  BY DEF Shown
<1>2. ASSUME NEW m, NEW n, NEW s, h = Held([manager |-> m, isNull |-> n], s)
      PROVE  h.rep.manager = m /\ h.rep.isNull = n /\ h.stored = s
  BY <1>2 DEF Held
<1>3. CASE h = Held([manager |-> NoObject, isNull |-> TRUE], <<>>)
  <2>1. h.rep.isNull /\ h.stored = <<>>
    BY Zenon, <1>2, <1>3
  <2>2. AnyShown(h.rep) = {<<>>}
    BY <2>1 DEF AnyShown
  <2>3. QED
    BY <1>1, <2>1, <2>2 DEF ByNameRight
<1>4. ASSUME NEW c \in Managers, c.id \in {"_Manager_internal", "_Manager_external"},
             h = Held([manager |-> Member(c), isNull |-> FALSE],
                      <<Stored(HeldBy(c), IF c.id = "_Manager_internal" THEN "buffer" ELSE "heap")>>)
      PROVE  ByNameRight(Shown("any", h.rep), h.stored)
  <2> DEFINE t  == c.args[1]
             at == IF c.id = "_Manager_internal" THEN "buffer" ELSE "heap"
             ft == FindType(Printed[t])
             S  == {<<Stored(x, at)>> : x \in {ft} \ {Nothing}}
  <2>1. h.rep.manager = Member(c) /\ h.rep.isNull = FALSE /\ h.stored = <<Stored(HeldBy(c), at)>>
    BY Zenon, <1>2, <1>4
  <2>2. HeldBy(c) = t /\ ParamIndex(c) = 0
    BY <1>4 DEF HeldBy, ParamIndex
  <2>3. t \in Functors /\ c.k = "instance" /\ c.args # <<>>
    BY <1>4, <2>2, ManagersAssumption
  <2>4. ManagerClass(Member(c)) = {c}
    BY DEF ManagerClass, Member
  <2>5. AnyShown(h.rep) = S
    <3>1. \A items : items \in AnyShown(h.rep) <=>
                \E d \in {c} : /\ ~(d.k # "instance" \/ d.args = <<>>)
                               /\ \E x \in {FindType(Printed[d.args[1]])} \ {Nothing} :
                                    \/ d.id = "_Manager_internal" /\ items = <<Stored(x, "buffer")>>
                                    \/ d.id = "_Manager_external" /\ items = <<Stored(x, "heap")>>
      <4> HIDE DEF t, ft, S
      <4>1. QED
        BY <2>1, <2>4 DEF AnyShown
    <3>2. \A items : items \in S <=> \E x \in {ft} \ {Nothing} : items = <<Stored(x, at)>>
      OBVIOUS
    <3>3. \A items : items \in AnyShown(h.rep) <=> items \in S
      <4> HIDE DEF ft, S
      <4>1. QED
        BY <1>4, <2>3, <3>1, <3>2 DEF ft
    <3> HIDE DEF S
    <3>4. QED
      BY <3>3
  <2>6. \A x, p : Stored(x, p).type = x
    BY DEF Stored
  <2>7. h.stored # <<>> /\ h.stored[1].type = t /\ h.stored = <<Stored(t, at)>>
    BY <2>1, <2>2, <2>6
  <2>8. /\ t # Nothing /\ (Nameable(t) => ft = t)
        /\ ~Nameable(t) /\ ~HasRvalue(t) => ft = Nothing
    BY <2>3, HeldTypeFound
  <2> HIDE DEF ft, at, t
  <2>9. S = {} => ~Nameable(t)
    BY <2>8
  <2>10. \A items \in S : ~HasRvalue(t) => items = <<Stored(t, at)>>
    BY <2>8
  <2>11. QED
    BY <1>1, <2>5, <2>7, <2>9, <2>10 DEF ByNameRight
<1>5. QED
  BY Zenon, <1>3, <1>4 DEF IntactAny

(* The formatter looks where libstdc++ has put the functor *)
LEMMA PlaceRight ==
  ASSUME NEW t \in Functors, ~Misplaced(t)
  PROVE  PlaceOf(t) = IF StoredLocally(t) THEN "buffer" ELSE "heap"
<1>1. SizeOf[t] \in Nat /\ AddressSize \in Nat /\ Bytes(t) = SizeOf[t]
  BY HoldersAssumption DEF Bytes
<1>2. IsFunctionPointer(t) => t \in Trivial /\ SizeOf[t] <= 2 * AddressSize
  BY ManagersAssumption
<1>3. QED
  BY <1>1, <1>2 DEF PlaceOf, StoredLocally, Misplaced, IsInline

(* What function shows of what it holds *)
FunctionRight(S, s) ==
    /\ S = {} => s # <<>> /\ ~params /\ ~Nameable(s[1].type)
    /\ \A items \in S :
            ~(s # <<>> /\ (Misplaced(s[1].type) \/ (~params /\ HasRvalue(s[1].type)))) => items = s

(* std::function shows what it holds, by the template parameter of the  *)
(* manager or by its name, and where it is                              *)
LEMMA FunctionsShown ==
  ASSUME NEW h \in IntactFunction, params \in BOOLEAN
  PROVE  FunctionRight(Shown("function", h.rep), h.stored)
<1>1. Shown("function", h.rep) = FunctionShown(h.rep)
  BY DEF Shown
<1>2. ASSUME NEW m, NEW n, NEW s, h = Held([manager |-> m, isNull |-> n], s)
      PROVE  h.rep.manager = m /\ h.rep.isNull = n /\ h.stored = s
  BY <1>2 DEF Held
<1>3. CASE h = Held([manager |-> NoObject, isNull |-> TRUE], <<>>)
  <2>1. h.rep.isNull /\ h.stored = <<>>
    BY Zenon, <1>2, <1>3
  <2>2. FunctionShown(h.rep) = {<<>>}
    BY <2>1 DEF FunctionShown
  <2>3. QED
    BY <1>1, <2>1, <2>2 DEF FunctionRight
<1>4. ASSUME NEW c \in Managers, c.id \in {"_Function_handler", "_Base_manager"},
             h = Held([manager |-> Member(c), isNull |-> FALSE],
                      <<Stored(HeldBy(c), IF StoredLocally(HeldBy(c)) THEN "buffer" ELSE "heap")>>)
      PROVE  FunctionRight(Shown("function", h.rep), h.stored)
  <2> DEFINE t  == HeldBy(c)
             at == IF StoredLocally(t) THEN "buffer" ELSE "heap"
             ft == FindType(Printed[t])
             m  == Member(c)
  <2>1. h.rep.manager = m /\ h.rep.isNull = FALSE /\ h.stored = <<Stored(t, at)>>
    BY Zenon, <1>2, <1>4
  <2>2. /\ t = c.args[ParamIndex(c) + 1] /\ t \in Functors
        /\ c.k = "instance" /\ ParamIndex(c) < Len(c.args) /\ t.k # "value"
        /\ ~(ParamIndex(c) >= Len(c.args)) /\ ~(Len(c.args) <= ParamIndex(c)) /\ ParamIndex(c) >= 0
    <3>1. c.args[ParamIndex(c) + 1] = t /\ ParamIndex(c) \in Nat
      BY <1>4 DEF HeldBy, ParamIndex
    <3>2. Len(c.args) \in Nat
      BY <1>4, HoldersAssumption, TermFacts
    <3>3. /\ t \in Functors /\ c.k = "instance" /\ ParamIndex(c) < Len(c.args)
      BY Zenon, ManagersAssumption
    <3>4. t.k # "value"
      BY <3>3, ManagersAssumption
    <3>5. QED
      BY <3>1, <3>2, <3>3, <3>4
  <2>3. ManagerClass(m) = {c}
    BY DEF ManagerClass, Member
  <2> HIDE DEF m, t
  <2>4. TypeOfFunctor(m) = IF params THEN {t} ELSE {}
    <3>1. TypeOfFunctor(m) = UNION {TemplateParamType(d, ParamIndex(d)) : d \in {c}}
      BY Zenon, <2>3 DEF TypeOfFunctor
    <3>2. TemplateParamType(c, ParamIndex(c)) = IF params THEN {t} ELSE {}
      BY <2>2 DEF TemplateParamType, TemplateParamsSize
    <3>3. QED
      BY <3>1, <3>2
  <2>5. NamedFunctor(m) = IF IsFunctionPointer(t) THEN {t} ELSE {ft} \ {Nothing}
    <3> DEFINE NamedIn(d) ==
                IF d.k # "instance" \/ Len(d.args) <= ParamIndex(d) THEN {}
                ELSE LET x == d.args[ParamIndex(d) + 1]
                     IN  IF IsFunctionPointer(x) THEN {x} ELSE {FindType(Printed[x])} \ {Nothing}
    <3>1. NamedFunctor(m) = UNION {NamedIn(d) : d \in {c}}
      BY <2>3 DEF NamedFunctor
    <3>2. NamedIn(c) = IF IsFunctionPointer(t) THEN {t} ELSE {ft} \ {Nothing}
      BY Zenon, <2>2
    <3> HIDE DEF NamedIn, ft
    <3>3. QED
      BY <3>1, <3>2
  <2> DEFINE ts == IF params \/ IsFunctionPointer(t) THEN {t} ELSE {ft} \ {Nothing}
             S  == {<<Stored(x, PlaceOf(x))>> : x \in ts}
  <2>6. FunctionShown(h.rep) = S
    <3>1. FunctionShown(h.rep) = {<<Stored(x, PlaceOf(x))>> :
              x \in IF TypeOfFunctor(m) # {} THEN TypeOfFunctor(m) ELSE NamedFunctor(m)}
      BY <2>1 DEF FunctionShown
    <3> HIDE DEF ft
    <3>2. (IF TypeOfFunctor(m) # {} THEN TypeOfFunctor(m) ELSE NamedFunctor(m)) = ts
      BY <2>4, <2>5
    <3>3. QED
      BY Zenon, <3>1, <3>2
  <2>7. \A x, p : Stored(x, p).type = x
    BY DEF Stored
  <2>8. h.stored # <<>> /\ h.stored[1].type = t /\ h.stored = <<Stored(t, at)>>
    BY <2>1, <2>7
  <2>9. /\ t # Nothing /\ (Nameable(t) => ft = t)
        /\ ~Nameable(t) /\ ~HasRvalue(t) => ft = Nothing
    BY <2>2, HeldTypeFound
  <2> HIDE DEF ft
  <2>10. S = {} => ~params /\ ~Nameable(t)
    BY <2>9
  <2>11. \A items \in S : ~(Misplaced(t) \/ (~params /\ HasRvalue(t))) => items = <<Stored(t, at)>>
    <3>1. \A x \in ts : ~(~params /\ HasRvalue(t)) => x = t
      BY <2>9
    <3>2. ~Misplaced(t) => PlaceOf(t) = at
      BY <2>2, PlaceRight
    <3> HIDE DEF ts, at
    <3>3. QED
      BY <3>1, <3>2
  <2> HIDE DEF S, at
  <2>12. QED
    BY <1>1, <2>6, <2>8, <2>10, <2>11 DEF FunctionRight
<1>5. QED
  BY Zenon, <1>3, <1>4 DEF IntactFunction

(* The counts of a shared pointer, beside how many own and observe it *)
LEMMA CountsShown ==
  ASSUME NEW l \in BOOLEAN, NEW h \in IntactShared(l)
  PROVE  /\ UseCount(h.rep) = h.stored[1]
         /\ WeakCount(h.rep) =
                h.stored[2] + (IF h.stored = <<0, 0>> THEN 0
                               ELSE IF ~l /\ h.stored[1] > 0 THEN 1
                               ELSE IF l /\ h.stored[1] = 0 THEN -1
                               ELSE 0)
<1> USE HoldersAssumption
<1>1. CASE h = Held([block |-> FALSE, use |-> 0, weak |-> 0, libcxx |-> l], <<0, 0>>)
  BY <1>1 DEF Held, UseCount, WeakCount
<1>2. ASSUME NEW u \in 0 .. MaxOwners, NEW w \in 0 .. MaxOwners, <<u, w>> # <<0, 0>>,
             h = Held([block |-> TRUE, use |-> Raw(l, u, w).use, weak |-> Raw(l, u, w).weak,
                       libcxx |-> l], <<u, w>>)
      PROVE  /\ UseCount(h.rep) = h.stored[1]
             /\ WeakCount(h.rep) =
                    h.stored[2] + (IF h.stored = <<0, 0>> THEN 0
                                   ELSE IF ~l /\ h.stored[1] > 0 THEN 1
                                   ELSE IF l /\ h.stored[1] = 0 THEN -1
                                   ELSE 0)
  <2> DEFINE all == w + IF u > 0 THEN 1 ELSE 0
             use == Raw(l, u, w).use
             weak == Raw(l, u, w).weak
  <2>1. h.rep = [block |-> TRUE, use |-> use, weak |-> weak, libcxx |-> l] /\ h.stored = <<u, w>>
    BY <1>2 DEF Held
  <2>2. /\ use = IF l THEN (u - 1) % Word ELSE u
        /\ weak = IF l THEN (all - 1) % Word ELSE all
    BY DEF Raw
  <2> HIDE DEF use, weak
  <2>3. UseCount(h.rep) = (IF l THEN (use + 1) % Word ELSE use) /\ WeakCount(h.rep) = weak
    BY <2>1 DEF UseCount, WeakCount
  <2>4. h.stored # <<0, 0>> /\ h.stored[1] = u /\ h.stored[2] = w
    <3>1. h.stored = <<u, w>>
      BY Zenon, <2>1
    <3>2. h.stored # <<0, 0>>
      BY Zenon, <1>2, <3>1
    <3>3. QED
      BY <3>1, <3>2
  <2>5. u \in Nat /\ w \in Nat /\ (u # 0 \/ w # 0) /\ u + 1 < Word /\ w + 1 < Word
        /\ Word \in Nat \ {0}
    BY <1>2
  <2>6. all \in Nat /\ all - 1 \in 0 .. Word - 1
    BY <2>5
  <2>7. all - 1 = w + (IF u > 0 THEN 0 ELSE -1)
    BY <2>5
  <2> HIDE DEF all
  <2>8. l => weak = all - 1
    <3>1. (all - 1) % Word = all - 1
      <4>1. all - 1 \in Nat /\ all - 1 < Word
        BY <2>5, <2>6
      <4>2. QED
        BY <2>5, <4>1, Divided
    <3>2. QED
      BY <2>2, <3>1
  <2>9. use \in Int /\ (l => (use + 1) % Word = u)
    <3>1. CASE l /\ u # 0
      <4>1. u - 1 \in 0 .. Word - 1 /\ u \in 0 .. Word - 1
        BY <2>5, <3>1
      <4>2. (u - 1) % Word = u - 1 /\ u % Word = u
        BY <2>5, <4>1, Divided
      <4>3. use = u - 1 /\ use + 1 = u
        BY <2>2, <2>5, <3>1, <4>2
      <4>4. QED
        BY <2>5, <4>2, <4>3
    <3>2. CASE l /\ u = 0
      <4>1. -1 = Word * (-1) + (Word - 1) /\ Word - 1 \in 0 .. Word - 1
        BY <2>5
      <4>2. (-1) % Word = Word - 1
        <5> DEFINE q == (-1) \div Word
                   r == (-1) % Word
        <5>1. q \in Int /\ r \in 0 .. Word - 1 /\ -1 = Word * q + r
          BY <2>5
        <5> HIDE DEF q, r
        <5>2. q >= 0 => Word * q >= 0
          BY <2>5, <5>1
        <5>3. q <= -2 => Word * q <= Word * (-2)
          BY <2>5, <5>1
        <5>4. Word * (-2) < -Word /\ Word * (-1) = -Word
          BY <2>5
        <5>5. q = -1
          BY <2>5, <5>1, <5>2, <5>3, <5>4
        <5>6. r = Word - 1
          BY <2>5, <5>1, <5>4, <5>5
        <5>7. QED
          BY <5>6 DEF r
      <4>3. use = Word - 1 /\ use + 1 = Word
        BY <2>2, <2>5, <3>2, <4>2
      <4>4. Word % Word = 0
        BY <2>5
      <4>5. QED
        BY <2>5, <3>2, <4>3, <4>4
    <3>3. CASE ~l
      BY <2>2, <2>5, <3>3
    <3>4. QED
      BY <3>1, <3>2, <3>3
  <2>10. ~l => weak = w + IF u > 0 THEN 1 ELSE 0
    BY <2>2 DEF all
  <2>11. UseCount(h.rep) = u
    BY <2>2, <2>3, <2>9
  <2>12. WeakCount(h.rep) = w + (IF ~l /\ u > 0 THEN 1 ELSE IF l /\ u = 0 THEN -1 ELSE 0)
    BY <2>3, <2>5, <2>7, <2>8, <2>10
  <2>13. QED
    BY Zenon, <2>4, <2>11, <2>12
<1>3. QED
  <2>1. ASSUME h # Held([block |-> FALSE, use |-> 0, weak |-> 0, libcxx |-> l], <<0, 0>>)
        PROVE  \E u, w \in 0 .. MaxOwners : /\ <<u, w>> # <<0, 0>>
                  /\ h = Held([block |-> TRUE, use |-> Raw(l, u, w).use,
                               weak |-> Raw(l, u, w).weak, libcxx |-> l], <<u, w>>)
    <3>1. PICK p \in {p \in (0 .. MaxOwners) \X (0 .. MaxOwners) : p # <<0, 0>>} :
              h = Held([block |-> TRUE, use |-> Raw(l, p[1], p[2]).use,
                        weak |-> Raw(l, p[1], p[2]).weak, libcxx |-> l], p)
      BY <2>1 DEF IntactShared
    <3>2. p = <<p[1], p[2]>> /\ p[1] \in 0 .. MaxOwners /\ p[2] \in 0 .. MaxOwners /\ p # <<0, 0>>
      OBVIOUS
    <3>3. QED
      BY Zenon, <3>1, <3>2
  <2>2. QED
    BY <1>1, <1>2, <2>1

(* A kind of holder whose formatter goes by the name of what it holds *)
GoesByName(k) == k = "any" \/ (k = "function" /\ ~params)

(* What libstdc++ keeps elsewhere, or what a name finds another type for *)
Excepted(k, s) ==
    \/ k = "function" /\ s # <<>> /\ Misplaced(s[1].type)
    \/ GoesByName(k) /\ s # <<>> /\ HasRvalue(s[1].type)

(* What is shown of a holder of the kind, and what is stored in it, r and s *)
ContentRight(k, S, r, s) ==
    /\ S = {} => (k = "variant" /\ s = <<>>) \/ (GoesByName(k) /\ ~Nameable(s[1].type))
    /\ k \notin {"shared_ptr", "libcxx_shared_ptr"} => 
        \A items \in S : items = (IF Boxed(k, r, s) THEN <<"">> ELSE s) \/ Excepted(k, s)
    /\ k \in {"tuple", "libcxx_tuple"} => S = {s}

(* What the formatter of a kind shows of a holder as the library leaves it *)
LEMMA ShownRight ==
  ASSUME NEW k \in Kinds, k \notin Times, NEW h \in IntactOf(k), params \in BOOLEAN
  PROVE  ContentRight(k, Shown(k, h.rep), h.rep, h.stored)
<1> DEFINE S == Shown(k, h.rep)
           r == h.rep
           s == h.stored
<1> SUFFICES ContentRight(k, S, r, s)
  OBVIOUS
<1>1. ASSUME S = {s}, k \notin {"optional", "variant"} PROVE ContentRight(k, S, r, s)
  <2>1. ~Boxed(k, r, s)
    BY Zenon, <1>1 DEF Boxed
  <2> HIDE DEF S, r, s
  <2>2. QED
    BY <1>1, <2>1 DEF ContentRight
<1>0. ASSUME S = {IF Boxed(k, r, s) THEN <<"">> ELSE s}, k \notin {"tuple", "libcxx_tuple"}
      PROVE  ContentRight(k, S, r, s)
  <2> HIDE DEF S, r, s
  <2>1. QED
    BY <1>0 DEF ContentRight
<1>2. CASE k = "tuple"
  <2>1. h \in IntactTuple
    BY <1>2 DEF IntactOf
  <2>2. QED
    BY Zenon, <1>1, <1>2, <2>1, TuplesShown
<1>3. CASE k = "libcxx_tuple"
  <2>1. h \in IntactLibcxxTuple
    BY <1>3 DEF IntactOf
  <2>2. QED
    BY Zenon, <1>1, <1>3, <2>1, LibcxxTuplesShown
<1>4. CASE k = "unique_ptr"
  <2>1. h \in IntactUnique
    BY <1>4 DEF IntactOf
  <2>2. QED
    BY Zenon, <1>1, <1>4, <2>1, UniqueShown
<1>5. CASE k = "optional"
  <2>1. h \in IntactOptional
    BY <1>5 DEF IntactOf
  <2>2. QED
    BY Zenon, <1>0, <1>5, <2>1, ChoicesShown
<1>6. CASE k = "variant"
  <2>1. h \in IntactVariant
    BY <1>6 DEF IntactOf
  <2>2. S = {IF Boxed(k, r, s) THEN <<"">> ELSE s} \/ (S = {} /\ s = <<>>)
    BY Zenon, <1>6, <2>1, ChoicesShown
  <2> HIDE DEF S, r, s
  <2>3. QED
    BY <1>0, <1>6, <2>2 DEF ContentRight
<1>7. CASE k = "libcxx_function"
  <2>1. h \in IntactLibcxxFunction
    BY <1>7 DEF IntactOf
  <2>2. QED
    BY Zenon, <1>1, <1>7, <2>1, LibcxxFunctionsShown
<1>8. CASE k = "bind"
  <2>1. h \in IntactBind
    BY <1>8 DEF IntactOf
  <2>2. QED
    BY Zenon, <1>1, <1>8, <2>1, BindsShown
<1>9. CASE k = "any"
  <2>1. h \in IntactAny
    BY <1>9 DEF IntactOf
  <2>2. ByNameRight(S, s)
    BY Zenon, <1>9, <2>1, AnysShown
  <2>3. ~Boxed(k, r, s)
    BY Zenon, <1>9 DEF Boxed
  <2> HIDE DEF S, r, s
  <2>4. QED
    BY <1>9, <2>2, <2>3 DEF ByNameRight, ContentRight, Excepted, GoesByName
<1>10. CASE k = "function"
  <2>1. h \in IntactFunction
    BY <1>10 DEF IntactOf
  <2>2. FunctionRight(S, s)
    BY Zenon, <1>10, <2>1, FunctionsShown
  <2>3. ~Boxed(k, r, s)
    BY Zenon, <1>10 DEF Boxed
  <2> HIDE DEF S, r, s
  <2>4. QED
    BY <1>10, <2>2, <2>3 DEF FunctionRight, ContentRight, Excepted, GoesByName
<1>11. CASE k \in {"shared_ptr", "libcxx_shared_ptr"}
  <2>1. S = {<<"pointer">>}
    BY <1>11 DEF Shown
  <2> HIDE DEF S, r, s
  <2>2. QED
    BY <1>11, <2>1 DEF ContentRight
<1>12. k \in {"tuple", "libcxx_tuple", "unique_ptr", "shared_ptr", "libcxx_shared_ptr", "optional",
              "variant", "function", "any", "libcxx_function", "bind"}
  BY HoldersAssumption DEF Times
<1> HIDE DEF S, r, s
<1>13. QED
  BY <1>2, <1>3, <1>4, <1>5, <1>6, <1>7, <1>8, <1>9, <1>10, <1>11, <1>12

-----------------------------------------------------------------------------
(* ... and after every step *)

(* While only the library has changed the holder, it is as the library     *)
(* leaves it, and a tuple's result keeps its elements                      *)
ContentKept ==
    intact =>
        /\ \E h \in IntactOf(kind) : rep = h.rep /\ stored = h.stored
        /\ kind \in {"tuple", "libcxx_tuple"} /\ kept.what # "none" => kept.items = stored

(* Formatting the holder *)
LEMMA HolderContent ==
  ASSUME TypeOK, ContentKept, FormatHolder
  PROVE  ContentKept' /\ ContentShown'
<1>1. /\ kind \notin Times /\ fresh' = TRUE
      /\ UNCHANGED <<params, kind, rep, stored, intact>>
  BY DEF FormatHolder, holder
<1>0. CASE ~intact
  BY <1>0, <1>1 DEF ContentKept, ContentShown
<1> SUFFICES ASSUME intact PROVE ContentKept' /\ ContentShown'
  BY Zenon, <1>0
<1>2. PICK h \in IntactOf(kind) : rep = h.rep /\ stored = h.stored
  BY DEF ContentKept
<1> DEFINE S == Shown(kind, rep)
<1>3. ContentRight(kind, S, rep, stored)
  <2>1. kind \in Kinds /\ params \in BOOLEAN
    BY DEF TypeOK
  <2>2. QED
    BY Zenon, <1>1, <1>2, <2>1, ShownRight
<1>4. \/ S = {} /\ answer' = [what |-> "error"] /\ kept' = [what |-> "none"]
      \/ \E shown \in S :
            /\ answer' = [what |-> "shown", items |-> shown]
            /\ kept' = [what |-> "items", items |-> shown,
                        index |-> IF kind = "variant" THEN rep.index ELSE 0]
  BY Zenon, HolderAnswers
<1> HIDE DEF S
<1>5. \/ S = {} /\ answer'.what = "error" /\ kept'.what = "none"
      \/ \E shown \in S : /\ answer'.what = "shown" /\ answer'.items = shown
                          /\ kept'.what = "items" /\ kept'.items = shown
  BY <1>4
<1>6. ContentKept'
  BY <1>1, <1>2, <1>3, <1>5 DEF ContentKept, ContentRight
<1>7. ContentShown'
  BY <1>1, <1>3, <1>5 DEF ContentShown, ContentRight, Excepted, GoesByName
<1>8. QED
  BY <1>6, <1>7

(* A child has a name, and what it shows *)
LEMMA ChildParts ==
  ASSUME NEW nm, NEW v
  PROVE  Child(nm, v).what = "child" /\ Child(nm, v).name = nm /\ Child(nm, v).value = v
BY DEF Child

(* Children that keep what was formatted *)
LEMMA KeptChildren ==
  ASSUME NEW a \in KeptChild
  PROVE  /\ a.name \in {"value", "index", "total", "normalized", "parts"}
         /\ a.name = "value" => a.value = kept.items
         /\ kind \notin {"tuple", "libcxx_tuple", "bind"}
<1>1. \/ /\ kept.what = "items" /\ kind \notin {"tuple", "libcxx_tuple", "bind"}
         /\ a = Child("value", kept.items) \/ a = Child("index", kept.index)
      \/ /\ kind \in Times
         /\ \E nm \in {"total", "normalized", "parts"} : \E v : a = Child(nm, v)
  <2>1. CASE kept.what = "items" /\ kind \notin {"tuple", "libcxx_tuple", "bind"}
    BY <2>1 DEF KeptChild
  <2>2. CASE ~(kept.what = "items" /\ kind \notin {"tuple", "libcxx_tuple", "bind"})
    <3>1. kept.what = "time" /\ kind \in Times
      BY <2>2 DEF KeptChild, Times
    <3>2. \/ \E v : a = Child("total", v)
          \/ \E v : a = Child("normalized", v)
          \/ \E v : a = Child("parts", v)
      BY <3>1 DEF KeptChild, Times
    <3>3. QED
      BY <3>1, <3>2
  <2>3. QED
    BY <2>1, <2>2
<1>2. CASE kept.what = "items" /\ kind \notin {"tuple", "libcxx_tuple", "bind"}
           /\ (a = Child("value", kept.items) \/ a = Child("index", kept.index))
  BY <1>2, ChildParts
<1>3. CASE kind \in Times /\ \E nm \in {"total", "normalized", "parts"} : \E v : a = Child(nm, v)
  <2>1. a.name \in {"total", "normalized", "parts"}
    BY <1>3, ChildParts
  <2>2. QED
    BY <1>3, <2>1 DEF Times
<1>4. QED
  BY Zenon, <1>1, <1>2, <1>3

(* Children that read the holder once more *)
LEMMA ReadChildren ==
  ASSUME NEW a \in ReadChild
  PROVE  /\ kind \in {"tuple", "libcxx_tuple"} =>
                kept.what # "none" /\ \E i \in DOMAIN kept.items :
                    /\ a.name = kept.items[i]
                    /\ a.value = {o.holds : o \in IF kind = "tuple" THEN TupleElement(rep, i - 1)
                                                  ELSE LibcxxTupleElement(rep, i - 1)}
         /\ kind = "bind" => \/ a.name = "target" /\ a.value = {o.holds : o \in BindTarget(rep)}
                             \/ a.name = "args" /\ a.value = BoundArguments(rep)
         /\ kind \in {"shared_ptr", "libcxx_shared_ptr"} =>
                \/ a.name = "use count" /\ a.value = UseCount(rep)
                \/ a.name = "weak count" /\ a.value = WeakCount(rep)
         /\ kind \notin {"tuple", "libcxx_tuple"} => a.name # "value"
<1> DEFINE V(i) == {o.holds : o \in IF kind = "tuple" THEN TupleElement(rep, i - 1)
                                    ELSE LibcxxTupleElement(rep, i - 1)}
           Target == {o.holds : o \in BindTarget(rep)}
           Use    == UseCount(rep)
           Weak   == WeakCount(rep)
           UTC    == <<TimeT(rep.count, kept.unit), Fraction(rep.count, kept.unit)>>
           ofTuple  == {Child(kept.items[i], V(i)) : i \in DOMAIN kept.items}
           ofBind   == {Child("target", Target), Child("args", BoundArguments(rep))}
           ofShared == {Child("use count", Use), Child("weak count", Weak)}
           ofTime   == {Child("rep", rep.count)}
                       \cup IF kind = "time_point" /\ kept.what = "time" THEN {Child("UTC", UTC)} ELSE {}
<1>1. ReadChild = IF kept.what = "none" THEN {}
                  ELSE CASE kind \in {"tuple", "libcxx_tuple"} -> ofTuple
                         [] kind = "bind" -> ofBind
                         [] kind \in {"shared_ptr", "libcxx_shared_ptr"} -> ofShared
                         [] kind \in Times -> ofTime
                         [] OTHER -> {}
  BY Zenon DEF ReadChild
<1>2. a \in ofTime => \E nm \in {"rep", "UTC"} : \E v : a = Child(nm, v)
  <2> HIDE DEF UTC
  <2>1. QED
    OBVIOUS
<1>3. a \in ofTuple => \E i \in DOMAIN kept.items : a = Child(kept.items[i], V(i))
  <2> HIDE DEF V
  <2>1. QED
    OBVIOUS
<1>4. a \in ofBind => a = Child("target", Target) \/ a = Child("args", BoundArguments(rep))
  <2> HIDE DEF Target
  <2>1. QED
    OBVIOUS
<1>5. a \in ofShared => a = Child("use count", Use) \/ a = Child("weak count", Weak)
  <2> HIDE DEF Use, Weak
  <2>1. QED
    OBVIOUS
<1> HIDE DEF ofTuple, ofBind, ofShared, ofTime, V, Target, Use, Weak
<1>6. kept.what # "none"
  BY <1>1
<1>7. CASE kind \in {"tuple", "libcxx_tuple"}
  <2>1. a \in ofTuple
    BY <1>1, <1>6, <1>7 DEF Times
  <2>2. \E i \in DOMAIN kept.items : a.name = kept.items[i] /\ a.value = V(i)
    BY <1>3, <2>1, ChildParts
  <2>3. kind \notin {"bind", "shared_ptr", "libcxx_shared_ptr"}
    BY <1>7
  <2>4. QED
    BY Zenon, <1>6, <1>7, <2>2, <2>3 DEF V
<1>8. CASE kind = "bind"
  <2>1. a \in ofBind
    BY <1>1, <1>6, <1>8 DEF Times
  <2>2. \/ a.name = "target" /\ a.value = Target
        \/ a.name = "args" /\ a.value = BoundArguments(rep)
    BY <1>4, <2>1, ChildParts
  <2>3. a.name # "value" /\ kind \notin {"tuple", "libcxx_tuple", "shared_ptr", "libcxx_shared_ptr"}
    BY <1>8, <2>2
  <2>4. QED
    BY Zenon, <2>2, <2>3 DEF Target
<1>9. CASE kind \in {"shared_ptr", "libcxx_shared_ptr"}
  <2>1. a \in ofShared
    BY <1>1, <1>6, <1>9 DEF Times
  <2> HIDE DEF Use, Weak
  <2>2. \A nm, v : a = Child(nm, v) => a.name = nm /\ a.value = v
    BY ChildParts
  <2>3. \/ a.name = "use count" /\ a.value = Use
        \/ a.name = "weak count" /\ a.value = Weak
    BY Zenon, <1>5, <2>1, <2>2
  <2>4. a.name # "value" /\ kind \notin {"tuple", "libcxx_tuple", "bind"}
    BY Zenon, <1>9, <2>3
  <2>5. QED
    BY Zenon, <2>3, <2>4 DEF Use, Weak
<1>10. CASE kind \notin {"tuple", "libcxx_tuple", "bind", "shared_ptr", "libcxx_shared_ptr"}
  <2>1. a \in ofTime
    BY <1>1, <1>6, <1>10 DEF Times
  <2>2. a.name # "value"
    BY <1>2, <2>1, ChildParts
  <2>3. QED
    BY Zenon, <1>10, <2>2
<1>11. QED
  BY <1>7, <1>8, <1>9, <1>10

(* The holder as the library leaves it, while a result is expanded *)
LEMMA ExpandContent ==
  ASSUME TypeOK, ContentKept, Expand
  PROVE  ContentKept' /\ ContentShown'
<1>1. UNCHANGED <<params, kind, rep, stored, intact, fresh, kept>> /\ answer'.what = "child"
  BY ChildrenAre DEF Expand, typeVars, holder
<1>2. ContentKept'
  BY <1>1 DEF ContentKept
<1> DEFINE a == answer'
           Counts1 == stored[2] + (IF stored = <<0, 0>> THEN 0
                                   ELSE IF kind = "shared_ptr" /\ stored[1] > 0 THEN 1
                                   ELSE IF kind # "shared_ptr" /\ stored[1] = 0 THEN -1
                                   ELSE 0)
           Goal == /\ a.name = "value" => a.value = kept.items
                   /\ kind = "bind" =>
                        /\ a.name = "target" => a.value = {stored[1]}
                        /\ a.name = "args" => a.value = {SubSeq(stored, 2, Len(stored))}
                   /\ kind \in {"tuple", "libcxx_tuple"} => a.value = {a.name}
                   /\ kind \in {"shared_ptr", "libcxx_shared_ptr"} =>
                        /\ a.name = "use count" => a.value = stored[1]
                        /\ a.name = "weak count" => a.value = Counts1
<1>3. intact => Goal
  <2> SUFFICES ASSUME intact PROVE Goal
    OBVIOUS
  <2>1. PICK h \in IntactOf(kind) : rep = h.rep /\ stored = h.stored
    BY DEF ContentKept
  <2> HIDE DEF a
  <2>2. CASE a \in KeptChild
    <3>1. /\ a.name \in {"value", "index", "total", "normalized", "parts"}
          /\ a.name = "value" => a.value = kept.items
          /\ kind \notin {"tuple", "libcxx_tuple", "bind"}
      BY Zenon, <2>2, KeptChildren
    <3>2. a.name # "use count" /\ a.name # "weak count"
      BY Zenon, <3>1
    <3>3. kind # "bind"
      BY Zenon, <3>1
    <3>4. QED
      BY Zenon, <3>1, <3>2, <3>3
  <2>3. CASE a \in ReadChild /\ kind \in {"tuple", "libcxx_tuple"}
    <3>1. PICK i \in DOMAIN kept.items :
              /\ a.name = kept.items[i]
              /\ a.value = {o.holds : o \in IF kind = "tuple" THEN TupleElement(rep, i - 1)
                                            ELSE LibcxxTupleElement(rep, i - 1)}
      BY Zenon, <2>3, ReadChildren
    <3>2. kept.items = stored
      <4>1. kept.what # "none"
        BY Zenon, <2>3, ReadChildren
      <4>2. QED
        BY Zenon, <2>3, <4>1 DEF ContentKept
    <3>3. stored[i] \in Part(Item) /\ a.value = {o.holds : o \in {Leaf(stored[i])}}
      <4>0. i \in DOMAIN h.stored
        BY Zenon, <2>1, <3>1, <3>2
      <4>1. CASE kind = "tuple"
        <5>1. h \in IntactTuple
          BY <4>1 DEF IntactOf
        <5>2. stored[i] \in Part(Item) /\ TupleElement(rep, i - 1) = {Leaf(stored[i])}
          BY Zenon, <2>1, <4>0, <5>1, TuplesShown
        <5>3. QED
          BY Zenon, <3>1, <4>1, <5>2
      <4>2. CASE kind = "libcxx_tuple"
        <5>1. h \in IntactLibcxxTuple
          BY <4>2 DEF IntactOf
        <5>2. stored[i] \in Part(Item) /\ LibcxxTupleElement(rep, i - 1) = {Leaf(stored[i])}
          BY Zenon, <2>1, <4>0, <5>1, LibcxxTuplesShown
        <5>3. kind # "tuple"
          BY <4>2
        <5>4. QED
          BY Zenon, <3>1, <5>2, <5>3
      <4>3. QED
        BY Zenon, <2>3, <4>1, <4>2
    <3>4. a.value = {a.name}
      BY Zenon, <3>1, <3>2, <3>3, LeafShown
    <3>5. a.name # "value"
      BY Zenon, <3>1, <3>2, <3>3, HoldersAssumption
    <3>6. kind \notin {"bind", "shared_ptr", "libcxx_shared_ptr"} /\ kind # "bind"
      BY <2>3
    <3>7. QED
      BY Zenon, <3>4, <3>5, <3>6
  <2>4. CASE a \in ReadChild /\ kind = "bind"
    <3>1. h \in IntactBind
      BY <2>4 DEF IntactOf
    <3>2. /\ {o.holds : o \in BindTarget(rep)} = {stored[1]}
          /\ BoundArguments(rep) = {SubSeq(stored, 2, Len(stored))}
      BY Zenon, <2>1, <3>1, BindsShown
    <3>3. \/ a.name = "target" /\ a.value = {stored[1]}
          \/ a.name = "args" /\ a.value = {SubSeq(stored, 2, Len(stored))}
      BY Zenon, <2>4, <3>2, ReadChildren
    <3>4. kind \notin {"tuple", "libcxx_tuple", "shared_ptr", "libcxx_shared_ptr"}
          /\ "target" # "args" /\ a.name # "value"
      BY Zenon, <2>4, <3>3
    <3>5. QED
      BY Zenon, <3>3, <3>4
  <2>5. CASE a \in ReadChild /\ kind \in {"shared_ptr", "libcxx_shared_ptr"}
    <3> DEFINE l == kind = "libcxx_shared_ptr"
    <3>1. h \in IntactShared(l)
      <4>1. CASE kind = "shared_ptr"
        BY Zenon, <4>1 DEF IntactOf
      <4>2. CASE kind = "libcxx_shared_ptr"
        BY Zenon, <4>2 DEF IntactOf
      <4>3. QED
        BY Zenon, <2>5, <4>1, <4>2
    <3>2. (~l <=> kind = "shared_ptr") /\ (l <=> kind # "shared_ptr") /\ l \in BOOLEAN
      BY Zenon, <2>5
    <3>3. UseCount(rep) = stored[1] /\ WeakCount(rep) = Counts1
      <4> HIDE DEF l
      <4>1. /\ UseCount(h.rep) = h.stored[1]
            /\ WeakCount(h.rep) =
                  h.stored[2] + (IF h.stored = <<0, 0>> THEN 0
                                 ELSE IF ~l /\ h.stored[1] > 0 THEN 1
                                 ELSE IF l /\ h.stored[1] = 0 THEN -1
                                 ELSE 0)
        BY Zenon, <3>1, <3>2, CountsShown
      <4>2. QED
        BY Zenon, <2>1, <3>2, <4>1
    <3> HIDE DEF Counts1
    <3>4. \/ a.name = "use count" /\ a.value = UseCount(rep)
          \/ a.name = "weak count" /\ a.value = WeakCount(rep)
      BY Zenon, <2>5, ReadChildren
    <3>5. /\ kind \notin {"tuple", "libcxx_tuple"} /\ kind # "bind" /\ a.name # "value"
          /\ "use count" # "weak count"
      BY Zenon, <2>5, <3>4
    <3>6. QED
      BY Zenon, <3>3, <3>4, <3>5
  <2>6. CASE a \in ReadChild
             /\ kind \notin {"tuple", "libcxx_tuple", "bind", "shared_ptr", "libcxx_shared_ptr"}
    <3>1. a.name # "value"
      BY Zenon, <2>6, ReadChildren
    <3>2. kind # "bind"
      BY Zenon, <2>6
    <3>3. QED
      BY Zenon, <2>6, <3>1, <3>2
  <2>7. a \in KeptChild \cup ReadChild
    BY DEF Expand, a
  <2> HIDE DEF Goal
  <2>8. QED
    BY Zenon, <2>2, <2>3, <2>4, <2>5, <2>6, <2>7
<1>4. ContentShown'
  BY Zenon, <1>1, <1>3 DEF ContentShown
<1>5. QED
  BY <1>2, <1>4

(* Nothing is on display any more *)
LEMMA NothingShown ==
  ASSUME answer'.what \notin {"shown", "error", "child"}
  PROVE  ContentShown'
BY Zenon DEF ContentShown

(* The steps that format nothing *)
LEMMA OtherContent ==
  ASSUME ContentKept, Change \/ Damage \/ Ask
  PROVE  ContentKept' /\ ContentShown'
<1>1. CASE Change
  <2>1. /\ kind \notin FixedKinds /\ kind' = kind /\ answer'.what = "none"
        /\ \E h \in IntactOf(kind) : rep' = h.rep /\ stored' = h.stored
    BY <1>1 DEF Change, Ran, None
  <2>2. kind' \notin {"tuple", "libcxx_tuple"}
    BY <2>1 DEF FixedKinds
  <2>3. ContentKept'
    BY Zenon, <2>1, <2>2 DEF ContentKept
  <2>4. QED
    BY <2>1, <2>3, NothingShown
<1>2. CASE Damage
  <2>1. intact' = FALSE
    BY <1>2 DEF Damage
  <2>2. QED
    BY Zenon, <2>1 DEF ContentKept, ContentShown
<1>3. CASE Ask
  <2>1. UNCHANGED <<kind, rep, stored, intact, kept>>
    BY <1>3 DEF Ask, holder
  <2>2. answer'.what \in {"none", "type", "field"}
    BY <1>3 DEF Ask, TypeNext, AskName, AskField, AddField
  <2>3. ContentKept'
    BY <2>1 DEF ContentKept
  <2>4. QED
    BY <2>2, <2>3, NothingShown
<1>4. QED
  BY <1>1, <1>2, <1>3

(* Times have a content that no property is about *)
LEMMA TimeContent ==
  ASSUME ContentKept, FormatDuration \/ FormatTimePoint
  PROVE  ContentKept' /\ ContentShown'
<1>1. UNCHANGED <<kind, rep, stored, intact>> /\ kind \in Times
  BY DEF FormatDuration, FormatTimePoint, holder, Times
<1>2. ContentKept'
  <2>1. kind \notin {"tuple", "libcxx_tuple"}
    BY <1>1 DEF Times
  <2>2. QED
    BY <1>1, <2>1 DEF ContentKept
<1>3. answer'.what \in {"error", "duration", "epoch", "time"}
  BY DEF FormatDuration, FormatTimePoint
<1>4. ContentShown'
  <2>1. kind' \in Times /\ answer'.what \notin {"shown", "child"}
    BY <1>1, <1>3
  <2>2. QED
    BY Zenon, <2>1 DEF ContentShown
<1>5. QED
  BY <1>2, <1>4

(* Every step *)
LEMMA ContentStep ==
  HInv /\ ContentKept /\ ContentShown /\ [Next]_vars => ContentKept' /\ ContentShown'
<1> SUFFICES ASSUME HInv, ContentKept, ContentShown, [Next]_vars PROVE ContentKept' /\ ContentShown'
  OBVIOUS
<1>1. TypeOK
  BY DEF HInv
<1>2. CASE FormatHolder
  BY Zenon, <1>1, <1>2, HolderContent
<1>3. CASE FormatDuration \/ FormatTimePoint
  BY Zenon, <1>3, TimeContent
<1>4. CASE Expand
  BY Zenon, <1>1, <1>4, ExpandContent
<1>5. CASE Change \/ Damage \/ Ask
  BY Zenon, <1>5, OtherContent
<1>6. CASE UNCHANGED vars
  <2>1. UNCHANGED <<params, answer, kind, rep, stored, intact, fresh, kept>>
    BY <1>6 DEF vars, typeVars, holder
  <2>2. ContentKept'
    BY <2>1 DEF ContentKept
  <2>3. ContentShown'
    BY Zenon, <2>1 DEF ContentShown
  <2>4. QED
    BY <2>2, <2>3
<1>7. QED
  BY <1>2, <1>3, <1>4, <1>5, <1>6 DEF Next

(* What a holder shows is what the program has stored in it, at the place  *)
(* where the library keeps it, and so do its children; it is refused only  *)
(* if nothing is stored, or if the type of what is stored has no name that *)
(* finds it.  For tuples, variants and binds of any size, counts up to any *)
(* bound and any code model.                                               *)
THEOREM ContentIsShown == Spec => []ContentShown
<1>1. Init => ContentKept /\ ContentShown
  <2> SUFFICES ASSUME Init PROVE ContentKept /\ ContentShown
    OBVIOUS
  <2>1. kept.what = "none" /\ answer.what = "none"
    BY DEF Init, None
  <2>2. \E h \in IntactOf(kind) : rep = h.rep /\ stored = h.stored
    BY Zenon DEF Init
  <2>3. ContentKept
    BY Zenon, <2>1, <2>2 DEF ContentKept
  <2>4. answer.what \notin {"shown", "error", "child"}
    BY <2>1
  <2>5. ContentShown
    BY Zenon, <2>4 DEF ContentShown
  <2>6. QED
    BY <2>3, <2>5
<1>2. QED
  BY <1>1, InitHolds, StepHolds, ContentStep, PTL DEF Spec
=============================================================================
