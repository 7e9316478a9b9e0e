-------------------------- MODULE ValueLayerProofs --------------------------
(***************************************************************************)
(* Proofs about ValueLayer, for bytes and memories of any size and any     *)
(* declared types: the types of its state, what writes change, that        *)
(* pointers compute as in C++, and that navigation from an object leads to *)
(* objects, shown with their dynamic types.                                *)
(***************************************************************************)
EXTENDS ValueLayer, NumberLemmas, SequenceTheorems

-----------------------------------------------------------------------------
(* Recursive functions of numbers *)

(* f starts with a, and g makes each of its values from the one before *)
Iterates(f, n, a, g) ==
    /\ f \in [0 .. n -> Int] /\ f[0] = a
    /\ \A k \in 1 .. n : f[k] = g[<<k, f[k - 1]>>]

(* There is such a function *)
LEMMA IterationExists ==
  ASSUME NEW n \in Nat, NEW a \in Int, NEW g \in [Nat \X Int -> Int]
  PROVE  \E f : Iterates(f, n, a, g)
<1> DEFINE T == {m \in Nat : ~ \E f : Iterates(f, m, a, g)}
<1>1. SUFFICES ASSUME T # {} PROVE FALSE
  OBVIOUS
<1>2. PICK m \in T : \A k \in T : m <= k
  <2>1. T \in SUBSET Nat
    OBVIOUS
  <2> HIDE DEF T
  <2>2. QED
    BY <1>1, <2>1, Smallest
<1>3. CASE m = 0
  <2>1. Iterates([k \in 0 .. 0 |-> a], 0, a, g)
    BY DEF Iterates
  <2>2. QED
    BY <1>3, <2>1
<1>4. CASE m # 0
  <2>1. m - 1 \in Nat /\ m - 1 \notin T
    BY <1>2, <1>4
  <2>2. PICK f : Iterates(f, m - 1, a, g)
    BY <2>1
  <2> DEFINE h == [k \in 0 .. m |-> IF k = m THEN g[<<m, f[m - 1]>>] ELSE f[k]]
  <2>3. f[m - 1] \in Int /\ g[<<m, f[m - 1]>>] \in Int
    BY <2>1, <2>2 DEF Iterates
  <2>4. \A k \in 0 .. m - 1 : f[k] \in Int /\ h[k] = f[k]
    BY <2>1, <2>2 DEF Iterates
  <2>5. h \in [0 .. m -> Int] /\ h[0] = a /\ h[m] = g[<<m, f[m - 1]>>]
    BY <1>4, <2>1, <2>2, <2>3, <2>4 DEF Iterates
  <2>6. ASSUME NEW k \in 1 .. m PROVE h[k] = g[<<k, h[k - 1]>>]
    <3>1. CASE k = m
      <4>1. m - 1 \in 0 .. m - 1
        BY <2>1
      <4>2. h[m - 1] = f[m - 1]
        BY <2>4, <4>1
      <4> HIDE DEF h
      <4>3. QED
        BY <2>5, <3>1, <4>2
    <3>2. CASE k # m
      <4>1. k \in 1 .. m - 1 /\ k \in 0 .. m - 1 /\ k - 1 \in 0 .. m - 1
        BY <3>2
      <4>2. QED
        BY <2>2, <2>4, <4>1 DEF Iterates
    <3>3. QED
      BY <3>1, <3>2
  <2> HIDE DEF h
  <2>7. Iterates(h, m, a, g)
    BY <2>5, <2>6 DEF Iterates
  <2>8. QED
    BY <2>7
<1>5. QED
  BY <1>3, <1>4

(* The powers of b, up to k *)
PowersTo(b, k) == CHOOSE p : p = [i \in 0 .. k |-> IF i = 0 THEN 1 ELSE b * p[i - 1]]

(* Powers are what their recursive definition says *)
LEMMA PowersAre ==
  ASSUME NEW b \in Int, NEW k \in Nat
  PROVE  /\ Power(b, k) = PowersTo(b, k)[k]
         /\ PowersTo(b, k) = [i \in 0 .. k |-> IF i = 0 THEN 1 ELSE b * PowersTo(b, k)[i - 1]]
<1>1. Power(b, k) = PowersTo(b, k)[k]
  BY DEF Power, PowersTo
<1> DEFINE g == [q \in Nat \X Int |-> b * q[2]]
<1>2. g \in [Nat \X Int -> Int]
  OBVIOUS
<1>3. PICK f : Iterates(f, k, 1, g)
  <2> HIDE DEF g
  <2>1. QED
    BY <1>2, IterationExists
<1>4. f = [i \in 0 .. k |-> IF i = 0 THEN 1 ELSE b * f[i - 1]]
  <2>1. \A i \in 1 .. k : i - 1 \in 0 .. k /\ f[i] = b * f[i - 1]
    <3>1. ASSUME NEW i \in 1 .. k PROVE i - 1 \in 0 .. k /\ f[i] = b * f[i - 1]
      <4>1. i - 1 \in 0 .. k /\ f[i - 1] \in Int
        BY <1>3 DEF Iterates
      <4>2. f[i] = g[<<i, f[i - 1]>>]
        BY <1>3 DEF Iterates
      <4>3. g[<<i, f[i - 1]>>] = b * f[i - 1]
        BY <4>1
      <4>4. QED
        BY <4>1, <4>2, <4>3
    <3>2. QED
      BY <3>1
  <2>2. QED
    BY <1>3, <2>1 DEF Iterates
<1>5. QED
  BY Zenon, <1>1, <1>4 DEF PowersTo

(* Powers are numbers, and each is b times the one before *)
LEMMA PowersStep ==
  ASSUME NEW b \in Nat \ {0}, NEW k \in Nat
  PROVE  Power(b, 0) = 1 /\ Power(b, k) \in Nat \ {0} /\ Power(b, k + 1) = b * Power(b, k)
<1>1. Power(b, 0) = 1
  <2>1. PowersTo(b, 0)[0] = 1
    BY PowersAre
  <2>2. QED
    BY <2>1, PowersAre
<1> DEFINE T == {m \in Nat : ~ \A j \in Nat : m <= j => PowersTo(b, j)[m] = Power(b, m)
                                                        /\ Power(b, m) \in Nat \ {0}}
<1>2. ASSUME T # {} PROVE FALSE
  <2>0. PICK m \in T : \A n \in T : m <= n
    <3>1. T \in SUBSET Nat
      OBVIOUS
    <3> HIDE DEF T
    <3>2. QED
      BY <1>2, <3>1, Smallest
  <2>1. CASE m = 0
    <3>1. ASSUME NEW j \in Nat PROVE PowersTo(b, j)[m] = Power(b, m)
      <4>1. PowersTo(b, j)[0] = 1
        BY PowersAre
      <4>2. QED
        BY <1>1, <2>1, <4>1
    <3>2. QED
      BY <1>1, <2>1, <3>1
  <2>2. CASE m # 0
    <3>1. m - 1 \in Nat /\ m - 1 \notin T
      BY <2>0, <2>2
    <3>2. \A j \in Nat : m <= j => PowersTo(b, j)[m - 1] = Power(b, m - 1)
                                    /\ Power(b, m - 1) \in Nat \ {0}
      BY <3>1
    <3>3. ASSUME NEW j \in Nat, m <= j PROVE PowersTo(b, j)[m] = b * Power(b, m - 1)
      <4>1. m \in 0 .. j
        BY <3>3
      <4>2. PowersTo(b, j)[m] = b * PowersTo(b, j)[m - 1]
        BY <2>2, <4>1, PowersAre
      <4>3. QED
        BY <3>2, <3>3, <4>2
    <3>4. Power(b, m) = b * Power(b, m - 1) /\ Power(b, m - 1) \in Nat \ {0}
      BY <3>2, <3>3, PowersAre
    <3>5. b * Power(b, m - 1) \in Nat \ {0}
      BY <3>4
    <3>6. QED
      BY <3>3, <3>4, <3>5
  <2>3. QED
    BY <2>1, <2>2
<1>3. \A m \in Nat : \A j \in Nat : m <= j => PowersTo(b, j)[m] = Power(b, m)
                                            /\ Power(b, m) \in Nat \ {0}
  BY <1>2
<1>4. Power(b, k) \in Nat \ {0}
  BY <1>3
<1>5. Power(b, k + 1) = b * Power(b, k)
  <2>1. k + 1 \in Nat /\ k + 1 \in 0 .. k + 1 /\ (k + 1) - 1 = k
    OBVIOUS
  <2>2. PowersTo(b, k + 1)[k + 1] = b * PowersTo(b, k + 1)[k]
    BY <2>1, PowersAre
  <2>3. Power(b, k + 1) = PowersTo(b, k + 1)[k + 1]
    BY <2>1, PowersAre
  <2>4. PowersTo(b, k + 1)[k] = Power(b, k)
    BY <1>3, <2>1
  <2>5. QED
    BY <2>2, <2>3, <2>4
<1>6. QED
  BY <1>1, <1>4, <1>5

(* Powers add up *)
LEMMA PowersLarger ==
  ASSUME NEW b \in Nat \ {0}, NEW j \in Nat, NEW k \in Nat
  PROVE  Power(b, j + k) = Power(b, j) * Power(b, k)
<1> DEFINE T == {m \in Nat : Power(b, j + m) # Power(b, j) * Power(b, m)}
<1>1. SUFFICES ASSUME T # {} PROVE FALSE
  OBVIOUS
<1>2. PICK m \in T : \A n \in T : m <= n
  <2>1. T \in SUBSET Nat
    OBVIOUS
  <2> HIDE DEF T
  <2>2. QED
    BY <1>1, <2>1, Smallest
<1>3. m # 0
  <2>1. Power(b, j) * 1 = Power(b, j) /\ Power(b, 0) = 1 /\ j + 0 = j
    BY PowersStep
  <2>2. QED
    BY <2>1
<1>4. m - 1 \in Nat /\ (m - 1) + 1 = m /\ (j + (m - 1)) + 1 = j + m /\ m - 1 \notin T
  BY <1>2, <1>3
<1>5. Power(b, j + (m - 1)) = Power(b, j) * Power(b, m - 1)
  BY <1>4
<1>6. Power(b, j + m) = b * Power(b, j + (m - 1)) /\ Power(b, m) = b * Power(b, m - 1)
  <2>1. j + (m - 1) \in Nat
    BY <1>4
  <2>2. QED
    BY <1>4, <2>1, PowersStep
<1>7. b * (Power(b, j) * Power(b, m - 1)) = Power(b, j) * (b * Power(b, m - 1))
  <2>1. Power(b, j) \in Nat /\ Power(b, m - 1) \in Nat
    BY <1>4, PowersStep
  <2>2. QED
    BY <2>1
<1>8. QED
  BY <1>5, <1>6, <1>7

-----------------------------------------------------------------------------
(* Division of numbers of either sign *)

(* The remainder is between zero and the divisor *)
LEMMA IntDivided ==
  ASSUME NEW a \in Int, NEW b \in Nat \ {0}
  PROVE  a \div b \in Int /\ a % b \in Int /\ a % b \in 0 .. b - 1 /\ a = b * (a \div b) + (a % b)
<1>1. a \div b \in Int /\ a % b \in 0 .. b - 1
  OBVIOUS
<1>2. a = b * (a \div b) + (a % b)
  OBVIOUS
<1>3. QED
  BY <1>1, <1>2

(* No other number is *)
LEMMA IntOnce ==
  ASSUME NEW a \in Int, NEW b \in Nat \ {0}, NEW q \in Int, NEW r \in 0 .. b - 1, a = b * q + r
  PROVE  a \div b = q /\ a % b = r
<1> DEFINE d == a \div b
           s == a % b
<1>1. d \in Int /\ s \in 0 .. b - 1 /\ a = b * d + s
  BY IntDivided
<1> HIDE DEF d, s
<1>2. \A x \in Int, y \in Int : x < y => b * x + b <= b * y
  <2>1. ASSUME NEW x \in Int, NEW y \in Int, x < y PROVE b * x + b <= b * y
    <3>1. y - x - 1 \in Nat
      BY <2>1
    <3>2. b * (y - x - 1) \in Nat /\ b * (y - x - 1) = b * y - b * x - b
      BY <3>1
    <3>3. b * x \in Int /\ b * y \in Int
      OBVIOUS
    <3>4. QED
      BY <3>2, <3>3
  <2>2. QED
    BY <2>1
<1>3. b * q \in Int /\ b * d \in Int
  BY <1>1
<1>4. d = q
  BY <1>1, <1>2, <1>3
<1>5. QED
  BY <1>1, <1>3, <1>4 DEF d, s

(* The remainder by a product, from those by its factors *)
LEMMA RemainderSplits ==
  ASSUME NEW a \in Int, NEW b \in Nat \ {0}, NEW c \in Nat \ {0}
  PROVE  a % (b * c) = (a % b) + b * ((a \div b) % c)
<1> DEFINE q == a \div b
           r == a % b
           t == q \div c
           u == q % c
<1>1. q \in Int /\ r \in 0 .. b - 1 /\ a = b * q + r
  BY IntDivided
<1>2. t \in Int /\ u \in 0 .. c - 1 /\ q = c * t + u
  BY <1>1, IntDivided
<1> HIDE DEF q, r, t, u
<1>3. b * c \in Nat \ {0}
  OBVIOUS
<1>4. a = (b * c) * t + (b * u + r)
  <2>1. b * (c * t + u) = (b * c) * t + b * u
    BY <1>2
  <2>2. (b * c) * t \in Int /\ b * u \in Int
    BY <1>2, <1>3
  <2>3. QED
    BY <1>1, <1>2, <2>1, <2>2
<1>5. b * u + r \in 0 .. b * c - 1
  <2>1. b * u \in Nat /\ b * (c - 1 - u) \in Nat /\ b * (c - 1 - u) = b * c - b - b * u
    BY <1>2
  <2>2. QED
    BY <1>1, <1>3, <2>1
<1>6. a % (b * c) = b * u + r
  BY <1>2, <1>3, <1>4, <1>5, IntOnce
<1>7. b * u \in Int
  BY <1>2
<1>8. QED
  BY <1>1, <1>6, <1>7 DEF q, r, u

(* What is left of a remainder by a multiple *)
LEMMA RemainderOfRemainder ==
  ASSUME NEW a \in Int, NEW b \in Nat \ {0}, NEW c \in Nat \ {0}
  PROVE  (a % (b * c)) % b = a % b
<1>1. b * c \in Nat \ {0}
  OBVIOUS
<1>2. a % b \in 0 .. b - 1 /\ (a \div b) % c \in Int
  <2>1. a \div b \in Int
    BY IntDivided
  <2>2. QED
    BY <2>1, IntDivided
<1>3. a % (b * c) = b * ((a \div b) % c) + (a % b)
  <2>1. b * ((a \div b) % c) \in Int
    BY <1>2
  <2>2. a % (b * c) = (a % b) + b * ((a \div b) % c)
    BY RemainderSplits
  <2> DEFINE x == b * ((a \div b) % c)
             y == a % b
  <2>3. x \in Int /\ y \in Int
    BY <1>2, <2>1
  <2> HIDE DEF x, y
  <2>4. x + y = y + x
    BY <2>3
  <2>5. QED
    BY <2>2, <2>4 DEF x, y
<1>4. a % (b * c) \in Int
  BY <1>1, IntDivided
<1>5. QED
  BY <1>2, <1>3, <1>4, IntOnce

-----------------------------------------------------------------------------
(* Numbers and their bytes *)

(* Every power of the radix is a number, and there are at least two digits *)
LEMMA Radices ==
  /\ Radix \in Nat \ {0, 1} /\ Wide \in Nat \ {0}
  /\ \A k \in Nat : /\ Power(Radix, k) \in Nat \ {0}
                     /\ Power(Radix, k + 1) = Radix * Power(Radix, k)
  /\ Power(Radix, 0) = 1
<1>1. ByteBits - 1 \in Nat /\ (ByteBits - 1) + 1 = ByteBits /\ 2 \in Nat \ {0}
  BY SizesAssumption
<1>2. Power(2, ByteBits - 1) \in Nat \ {0} /\ Power(2, ByteBits) = 2 * Power(2, ByteBits - 1)
  BY <1>1, PowersStep
<1>3. Radix \in Nat \ {0, 1}
  BY <1>2 DEF Radix
<1>4. \A k \in Nat : Power(Radix, k) \in Nat \ {0} /\ Power(Radix, k + 1) = Radix * Power(Radix, k)
  BY <1>3, PowersStep
<1>5. Power(Radix, 0) = 1
  BY <1>3, PowersStep
<1>6. QED
  BY <1>3, <1>4, <1>5 DEF Wide

(* Twice backwards is as before *)
LEMMA BackAndForth ==
  ASSUME NEW D, NEW s \in Seq(D)
  PROVE  /\ Backwards(s) \in Seq(D) /\ Len(Backwards(s)) = Len(s)
         /\ \A k \in 1 .. Len(s) : Backwards(s)[k] = s[Len(s) + 1 - k]
         /\ Backwards(Backwards(s)) = s
<1> DEFINE n == Len(s)
           b == Backwards(s)
<1>1. n \in Nat /\ DOMAIN s = 1 .. n /\ \A k \in 1 .. n : s[k] \in D
  OBVIOUS
<1>2. b = [k \in 1 .. n |-> s[n + 1 - k]]
  BY <1>1 DEF Backwards
<1>3. \A k \in 1 .. n : n + 1 - k \in 1 .. n /\ s[n + 1 - k] \in D
  BY <1>1
<1>4. b \in Seq(D) /\ Len(b) = n
  BY <1>1, <1>2, <1>3
<1>5. Backwards(b) = [k \in 1 .. n |-> b[n + 1 - k]]
  BY <1>4 DEF Backwards
<1>6. \A k \in 1 .. n : b[n + 1 - k] = s[k]
  <2>1. ASSUME NEW k \in 1 .. n PROVE b[n + 1 - k] = s[k]
    <3>1. n + 1 - k \in 1 .. n /\ n + 1 - (n + 1 - k) = k
      BY <1>1
    <3>2. QED
      BY <1>2, <3>1
  <2>2. QED
    BY <2>1
<1> HIDE DEF b
<1>7. Backwards(b) = s
  BY <1>1, <1>5, <1>6
<1>8. QED
  BY <1>2, <1>4, <1>7 DEF b

(* So are two changes between byte orders *)
LEMMA OrdersAgree ==
  ASSUME NEW D, NEW s \in Seq(D)
  PROVE  /\ LowFirst(s) \in Seq(D) /\ Len(LowFirst(s)) = Len(s) /\ LowFirst(LowFirst(s)) = s
         /\ InHostOrder(s) \in Seq(D) /\ Len(InHostOrder(s)) = Len(s)
         /\ InHostOrder(InHostOrder(s)) = s
<1>1. /\ Backwards(s) \in Seq(D) /\ Len(Backwards(s)) = Len(s)
      /\ Backwards(Backwards(s)) = s
  BY BackAndForth
<1>2. QED
  BY <1>1 DEF LowFirst, InHostOrder

Bytes == 0 .. Radix - 1

(* Bytes are numbers *)
LEMMA BytesNumbers == \A x \in Bytes : x \in Nat /\ x \in Int /\ x <= Radix - 1
BY Radices DEF Bytes

(* The sums a number is made of *)
SumsOf(s) ==
    CHOOSE sum : sum = [k \in 0 .. Len(s) |->
                            IF k = 0 THEN 0 ELSE sum[k - 1] + LowFirst(s)[k] * Power(Radix, k - 1)]

(* So is a number of its bytes *)
LEMMA SumsAre ==
  ASSUME NEW s \in Seq(Bytes)
  PROVE  /\ Number(s) = SumsOf(s)[Len(s)] /\ SumsOf(s)[0] = 0
         /\ \A k \in 1 .. Len(s) :
                SumsOf(s)[k] = SumsOf(s)[k - 1] + LowFirst(s)[k] * Power(Radix, k - 1)
<1> DEFINE n == Len(s)
           l == LowFirst(s)
           t(k) == l[k] * Power(Radix, k - 1)
           g == [q \in Nat \X Int |-> IF q[1] \in 1 .. n THEN q[2] + t(q[1]) ELSE 0]
<1>1. n \in Nat /\ l \in Seq(Bytes) /\ Len(l) = n
  BY OrdersAgree
<1>2. \A k \in 1 .. n : t(k) \in Int
  <2>1. ASSUME NEW k \in 1 .. n PROVE t(k) \in Int
    <3>1. l[k] \in Int /\ k - 1 \in Nat
      <4>1. l[k] \in Bytes
        BY <1>1
      <4>2. QED
        BY <4>1, BytesNumbers
    <3>2. Power(Radix, k - 1) \in Int
      BY <3>1, Radices
    <3>3. QED
      BY <3>1, <3>2
  <2>2. QED
    BY <2>1
<1> HIDE DEF t
<1>3. g \in [Nat \X Int -> Int]
  BY <1>2
<1>4. PICK f : Iterates(f, n, 0, g)
  <2> HIDE DEF g, n
  <2>1. QED
    BY <1>1, <1>3, IterationExists
<1>5. \A k \in 1 .. n : k - 1 \in 0 .. n /\ f[k - 1] \in Int /\ f[k] = f[k - 1] + t(k)
  <2>1. ASSUME NEW k \in 1 .. n PROVE k - 1 \in 0 .. n /\ f[k - 1] \in Int /\ f[k] = f[k - 1] + t(k)
    <3>1. k - 1 \in 0 .. n /\ f[k - 1] \in Int
      BY <1>1, <1>4 DEF Iterates
    <3>2. f[k] = g[<<k, f[k - 1]>>]
      BY <1>4 DEF Iterates
    <3>3. g[<<k, f[k - 1]>>] = f[k - 1] + t(k)
      BY <1>1, <3>1
    <3>4. QED
      BY <3>1, <3>2, <3>3
  <2>2. QED
    BY <2>1
<1>6. f = [k \in 0 .. n |-> IF k = 0 THEN 0 ELSE f[k - 1] + t(k)]
  <2> HIDE DEF g
  <2>1. DOMAIN f = 0 .. n /\ f[0] = 0
    BY <1>4 DEF Iterates
  <2>2. f = [k \in 0 .. n |-> f[k]]
    BY <1>4 DEF Iterates
  <2>3. \A k \in 0 .. n : f[k] = IF k = 0 THEN 0 ELSE f[k - 1] + t(k)
    BY <1>1, <1>5, <2>1
  <2>4. QED
    BY <2>2, <2>3
<1>7. SumsOf(s) = [k \in 0 .. n |-> IF k = 0 THEN 0 ELSE SumsOf(s)[k - 1] + t(k)]
  BY Zenon, <1>6 DEF SumsOf, t
<1>8. Number(s) = SumsOf(s)[n]
  BY Zenon DEF Number, SumsOf
<1>9. SumsOf(s)[0] = 0 /\ \A k \in 1 .. n : SumsOf(s)[k] = SumsOf(s)[k - 1] + t(k)
  <2> DEFINE S == SumsOf(s)
  <2>1. S = [k \in 0 .. n |-> IF k = 0 THEN 0 ELSE S[k - 1] + t(k)]
    BY <1>7
  <2> HIDE DEF S
  <2>2. S[0] = 0 /\ \A k \in 1 .. n : S[k] = S[k - 1] + t(k)
    BY <1>1, <2>1
  <2>3. QED
    BY <2>2 DEF S
<1>10. QED
  BY <1>8, <1>9 DEF t

(* A number fits into its bytes *)
LEMMA NumberFits ==
  ASSUME NEW s \in Seq(Bytes)
  PROVE  Number(s) \in 0 .. Power(Radix, Len(s)) - 1
<1> DEFINE n == Len(s)
           S == SumsOf(s)
           l == LowFirst(s)
           T == {m \in Nat : m <= n /\ ~ S[m] \in 0 .. Power(Radix, m) - 1}
<1>1. n \in Nat /\ l \in Seq(Bytes) /\ Len(l) = n
  BY OrdersAgree
<1>2. \A k \in 1 .. n : l[k] \in Bytes
  BY <1>1
<1>3. /\ Number(s) = S[n] /\ S[0] = 0
      /\ \A k \in 1 .. n : S[k] = S[k - 1] + l[k] * Power(Radix, k - 1)
  BY SumsAre
<1> HIDE DEF n, S, l
<1>4. T = {}
  <2>1. SUFFICES ASSUME T # {} PROVE FALSE
    OBVIOUS
  <2>2. PICK m \in T : \A k \in T : m <= k
    <3>1. T \in SUBSET Nat
      OBVIOUS
    <3> HIDE DEF T
    <3>2. QED
      BY <2>1, <3>1, Smallest
  <2>3. m # 0
    <3>1. S[m] \notin 0 .. Power(Radix, m) - 1
      BY <2>2
    <3>2. S[0] \in 0 .. Power(Radix, 0) - 1
      BY <1>3, Radices
    <3>3. QED
      BY <3>1, <3>2
  <2>4. m - 1 \in Nat /\ (m - 1) + 1 = m /\ m \in 1 .. n /\ m - 1 \notin T
    BY <1>1, <2>2, <2>3
  <2>5. S[m - 1] \in 0 .. Power(Radix, m - 1) - 1
    BY <1>1, <2>4
  <2> DEFINE p == Power(Radix, m - 1)
             d == l[m]
  <2>6. p \in Nat \ {0} /\ Power(Radix, m) = Radix * p /\ Radix \in Nat \ {0}
    BY <2>4, Radices
  <2>7. d \in Nat /\ d <= Radix - 1
    BY <1>2, <2>4, <2>6 DEF Bytes
  <2>8. S[m] = S[m - 1] + d * p
    BY <1>3, <2>4
  <2> HIDE DEF p, d
  <2>9. d * p \in Nat /\ (Radix - 1 - d) * p \in Nat /\ (Radix - 1 - d) * p = Radix * p - p - d * p
    <3>1. Radix - 1 - d \in Nat
      BY <2>6, <2>7
    <3>2. QED
      BY <2>6, <2>7, <3>1
  <2>10. Radix * p \in Nat
    BY <2>6
  <2>11. S[m - 1] \in 0 .. p - 1
    BY <2>5 DEF p
  <2>12. \A x, y, z \in Int : x \in 0 .. p - 1 /\ y >= 0 /\ z >= 0 /\ z = Radix * p - p - y
                               => x + y \in 0 .. Radix * p - 1
    BY <2>6, <2>10
  <2>13. S[m] \in 0 .. Radix * p - 1
    <3>1. S[m - 1] \in Int
      BY <2>6, <2>11
    <3>2. QED
      BY <2>8, <2>9, <2>11, <2>12, <3>1
  <2>14. QED
    BY <2>2, <2>6, <2>13
<1>5. n \notin T
  BY <1>4
<1>6. QED
  BY <1>1, <1>3, <1>5 DEF n

(* Digit number k of the remainder of n, and of n *)
LEMMA DigitsAre ==
  ASSUME NEW n \in Int, NEW sz \in Nat
  PROVE  /\ Digits(n, sz) \in Seq(Bytes) /\ Len(Digits(n, sz)) = sz
         /\ LowFirst(Digits(n, sz)) =
                [k \in 1 .. sz |-> ((n % Power(Radix, sz)) \div Power(Radix, k - 1)) % Radix]
<1> DEFINE D == [k \in 1 .. sz |-> ((n % Power(Radix, sz)) \div Power(Radix, k - 1)) % Radix]
<1>1. ASSUME NEW k \in 1 .. sz
      PROVE  ((n % Power(Radix, sz)) \div Power(Radix, k - 1)) % Radix \in Bytes
  <2>1. k - 1 \in Nat
    OBVIOUS
  <2>2. Power(Radix, sz) \in Nat \ {0} /\ Power(Radix, k - 1) \in Nat \ {0} /\ Radix \in Nat \ {0}
    BY <2>1, Radices
  <2>3. n % Power(Radix, sz) \in Int
    BY <2>2, IntDivided
  <2>4. (n % Power(Radix, sz)) \div Power(Radix, k - 1) \in Int
    BY <2>2, <2>3, IntDivided
  <2>5. QED
    BY <2>2, <2>4, IntDivided DEF Bytes
<1>2. D \in Seq(Bytes) /\ Len(D) = sz
  BY <1>1
<1>3. Digits(n, sz) = LowFirst(D)
  BY DEF Digits
<1> HIDE DEF D
<1>4. QED
  BY <1>2, <1>3, OrdersAgree DEF D

(* The digits of a number make the number, cut to their size *)
LEMMA NumberOfDigits ==
  ASSUME NEW n \in Int, NEW sz \in Nat
  PROVE  Number(Digits(n, sz)) = n % Power(Radix, sz)
<1> DEFINE s == Digits(n, sz)
           S == SumsOf(s)
           l == LowFirst(s)
           a == n % Power(Radix, sz)
           T == {m \in Nat : m <= sz /\ S[m] # a % Power(Radix, m)}
<1>1. s \in Seq(Bytes) /\ Len(s) = sz
  BY DigitsAre
<1>2. \A k \in 1 .. sz : l[k] = (a \div Power(Radix, k - 1)) % Radix
  BY DigitsAre
<1>3. /\ Number(s) = S[sz] /\ S[0] = 0
      /\ \A k \in 1 .. sz : S[k] = S[k - 1] + l[k] * Power(Radix, k - 1)
  <2> HIDE DEF s
  <2>1. QED
    BY <1>1, SumsAre
<1>4. a \in 0 .. Power(Radix, sz) - 1
  BY Radices, IntDivided
<1> HIDE DEF s, S, l, a
<1>5. T = {}
  <2>1. SUFFICES ASSUME T # {} PROVE FALSE
    OBVIOUS
  <2>2. PICK m \in T : \A k \in T : m <= k
    <3>1. T \in SUBSET Nat
      OBVIOUS
    <3> HIDE DEF T
    <3>2. QED
      BY <2>1, <3>1, Smallest
  <2>3. m # 0
    <3>1. a = 1 * a + 0 /\ 0 \in 0 .. 1 - 1 /\ a \in Int
      BY <1>4, Radices
    <3>2. a % 1 = 0
      BY <3>1, IntOnce
    <3>3. QED
      BY <1>3, <3>2, Radices
  <2>4. m - 1 \in Nat /\ (m - 1) + 1 = m /\ m \in 1 .. sz /\ m - 1 \notin T
    BY <2>2, <2>3
  <2> DEFINE p == Power(Radix, m - 1)
             d == (a \div p) % Radix
  <2>5. S[m - 1] = a % p
    BY <2>4
  <2>6. p \in Nat \ {0} /\ Power(Radix, m) = Radix * p /\ Radix \in Nat \ {0} /\ a \in Int
    BY <1>4, <2>4, Radices
  <2>7. S[m] = S[m - 1] + d * p
    BY <1>2, <1>3, <2>4
  <2>8. a % (p * Radix) = (a % p) + p * d
    BY <2>6, RemainderSplits
  <2>9. d \in Int /\ a % p \in Int
    <3>1. a \div p \in Int
      BY <2>6, IntDivided
    <3>2. QED
      BY <2>6, <3>1, IntDivided
  <2> HIDE DEF p, d
  <2>10. p * d = d * p /\ p * Radix = Radix * p
    BY <2>6, <2>9
  <2>11. S[m] = a % Power(Radix, m)
    BY <2>5, <2>6, <2>7, <2>8, <2>10
  <2>12. QED
    BY <2>2, <2>11
<1>6. S[sz] = a % Power(Radix, sz)
  <2>1. sz \notin T
    BY <1>5
  <2>2. QED
    BY <2>1
<1>7. a % Power(Radix, sz) = a
  <2> DEFINE p == Power(Radix, sz)
  <2>1. p \in Nat \ {0} /\ a = p * 0 + a
    BY <1>4, Radices
  <2>2. QED
    BY <1>4, <2>1, IntOnce
<1>8. QED
  BY <1>3, <1>6, <1>7 DEF s, a

-----------------------------------------------------------------------------
(* Typedefs *)

IsAlias(t) == Len(t) <= 1 /\ t[1] \in Typedefs

Aliased(n) == Decl[n].base

(* The parts of a type *)
LEMMA TypeParts ==
  ASSUME NEW t \in TypeIds
  PROVE  /\ Len(t) \in Nat \ {0} /\ t[Len(t)] \in DOMAIN Decl /\ t \in Seq({"ptr"} \cup DOMAIN Decl)
         /\ Len(t) <= 1 => Len(t) = 1 /\ t[1] \in DOMAIN Decl
         /\ (Len(t) > 1 \/ Decl[t[1]].kind # "typedef") <=> ~IsAlias(t)
<1>1. /\ t \in Seq({"ptr"} \cup DOMAIN Decl) /\ t # <<>> /\ t[Len(t)] \in DOMAIN Decl
  BY DEF TypeIds
<1>2. Len(t) \in Nat \ {0}
  BY <1>1
<1>3. ASSUME Len(t) <= 1 PROVE Len(t) = 1 /\ t[1] \in DOMAIN Decl
  <2>1. \A m \in Nat \ {0} : m <= 1 => m = 1
    OBVIOUS
  <2>2. Len(t) = 1
    BY Zenon, <1>2, <1>3, <2>1
  <2>3. QED
    BY Zenon, <1>1, <2>2
<1>4. t[1] \in DOMAIN Decl => (t[1] \in Typedefs <=> Decl[t[1]].kind = "typedef")
  BY Zenon DEF Typedefs
<1>5. Len(t) > 1 <=> ~(Len(t) <= 1)
  BY <1>2
<1>6. QED
  BY Zenon, <1>1, <1>2, <1>3, <1>4, <1>5 DEF IsAlias

(* A name is a type *)
LEMMA NamesAreTypes == \A n \in DOMAIN Decl : <<n>> \in TypeIds /\ Len(<<n>>) = 1 /\ <<n>>[1] = n
BY DEF TypeIds

(* What a typedef stands for is a type *)
LEMMA AliasedIsType == \A n \in Typedefs : n \in DOMAIN Decl /\ Aliased(n) \in TypeIds
BY TypesAssumption DEF Typedefs, Aliased

(* Typedefs end: among those of any set there is one that stands for none  *)
(* of them                                                                 *)
LEMMA TypedefsEnd ==
  ASSUME NEW S \in SUBSET Typedefs, S # {}
  PROVE  \E n \in S : IsAlias(Aliased(n)) => Aliased(n)[1] \notin S
<1>1. PICK n \in S : \A m \in S : Decl[n].base # <<m>>
  BY TypesAssumption
<1>2. Aliased(n) \in TypeIds
  BY AliasedIsType
<1>3. ASSUME IsAlias(Aliased(n)), Aliased(n)[1] \in S PROVE FALSE
  <2>1. Len(Aliased(n)) = 1 /\ Aliased(n) \in Seq({"ptr"} \cup DOMAIN Decl)
    BY <1>2, <1>3, TypeParts DEF IsAlias
  <2>2. Aliased(n) = <<Aliased(n)[1]>>
    BY <2>1
  <2>3. QED
    BY <1>1, <1>3, <2>2 DEF Aliased
<1>4. QED
  BY <1>3

(* f tells what the typedefs of D are in the end *)
Solves(f, D) ==
    /\ D \subseteq Typedefs
    /\ \A n \in D : IF IsAlias(Aliased(n)) THEN /\ Aliased(n)[1] \in D
                                               /\ f[n] = f[Aliased(n)[1]]
                     ELSE f[n] = Aliased(n)

(* Two solutions agree *)
LEMMA SolutionsAgree ==
  ASSUME NEW f, NEW D, NEW g, NEW E, Solves(f, D), Solves(g, E)
  PROVE  \A n \in D \cap E : f[n] = g[n]
<1> DEFINE S == {n \in D \cap E : f[n] # g[n]}
<1>1. SUFFICES ASSUME S # {} PROVE FALSE
  OBVIOUS
<1>2. S \in SUBSET Typedefs
  BY DEF Solves
<1>3. PICK n \in S : IsAlias(Aliased(n)) => Aliased(n)[1] \notin S
  <2> HIDE DEF S
  <2>1. QED
    BY Zenon, <1>1, <1>2, TypedefsEnd
<1>4. CASE IsAlias(Aliased(n))
  <2>1. /\ Aliased(n)[1] \in D \cap E /\ f[n] = f[Aliased(n)[1]] /\ g[n] = g[Aliased(n)[1]]
    BY <1>4 DEF Solves
  <2>2. QED
    BY <1>3, <1>4, <2>1
<1>5. CASE ~IsAlias(Aliased(n))
  BY <1>5 DEF Solves
<1>6. QED
  BY <1>4, <1>5

(* There is one for all typedefs *)
LEMMA SolutionExists == \E f : Solves(f, Typedefs)
<1> DEFINE Solved == {D \in SUBSET Typedefs : \E f : Solves(f, D)}
           Of(D) == CHOOSE f : Solves(f, D)
           In(n) == CHOOSE D \in Solved : n \in D
           U == UNION Solved
           F == [n \in Typedefs |-> IF n \in U THEN Of(In(n))[n] ELSE <<>>]
<1>1. \A D \in Solved : Solves(Of(D), D)
  BY Zenon
<1>2. \A n \in U : In(n) \in Solved /\ n \in In(n)
  BY Zenon
<1>3. \A n \in U : n \in Typedefs
  OBVIOUS
<1> HIDE DEF Solved, Of, In
<1>4. \A D \in Solved : \A n \in D : F[n] = Of(D)[n]
  <2>1. ASSUME NEW D \in Solved, NEW n \in D PROVE F[n] = Of(D)[n]
    <3>1. n \in U /\ n \in Typedefs
      BY <2>1, <1>3
    <3>2. F[n] = Of(In(n))[n]
      BY <3>1
    <3>3. Solves(Of(In(n)), In(n)) /\ n \in In(n) /\ Solves(Of(D), D)
      BY Zenon, <1>1, <1>2, <2>1, <3>1
    <3>4. \A k \in In(n) \cap D : Of(In(n))[k] = Of(D)[k]
      BY <3>3, SolutionsAgree
    <3>5. n \in In(n) \cap D
      BY <3>3
    <3>6. QED
      BY Zenon, <3>2, <3>4, <3>5
  <2>2. QED
    BY Zenon, <2>1
<1> HIDE DEF F
<1>5. Solves(F, U)
  <2>1. ASSUME NEW n \in U
        PROVE  IF IsAlias(Aliased(n)) THEN Aliased(n)[1] \in U /\ F[n] = F[Aliased(n)[1]]
               ELSE F[n] = Aliased(n)
    <3>1. PICK D \in Solved : n \in D
      BY <2>1
    <3>2. Solves(Of(D), D) /\ F[n] = Of(D)[n]
      BY <1>1, <1>4, <3>1
    <3>3. CASE IsAlias(Aliased(n))
      <4>1. Aliased(n)[1] \in D /\ Of(D)[n] = Of(D)[Aliased(n)[1]]
        BY <3>1, <3>2, <3>3 DEF Solves
      <4>2. QED
        BY <1>4, <3>2, <3>3, <4>1
    <3>4. CASE ~IsAlias(Aliased(n))
      BY <3>1, <3>2, <3>4 DEF Solves
    <3>5. QED
      BY <3>3, <3>4
  <2>2. QED
    BY <1>3, <2>1 DEF Solves
<1>6. U = Typedefs
  <2> DEFINE S == Typedefs \ U
  <2>1. SUFFICES ASSUME S # {} PROVE FALSE
    BY <1>3
  <2>2. PICK n \in S : IsAlias(Aliased(n)) => Aliased(n)[1] \notin S
    <3>1. S \in SUBSET Typedefs
      OBVIOUS
    <3> HIDE DEF S
    <3>2. QED
      BY Zenon, <2>1, <3>1, TypedefsEnd
  <2> DEFINE h == [m \in Typedefs |-> IF m = n THEN IF IsAlias(Aliased(n)) THEN F[Aliased(n)[1]]
                                                     ELSE Aliased(n)
                                       ELSE F[m]]
             V == U \cup {n}
  <2>3. /\ h[n] = IF IsAlias(Aliased(n)) THEN F[Aliased(n)[1]] ELSE Aliased(n)
        /\ \A m \in U : h[m] = F[m]
    BY <1>3
  <2>4. IsAlias(Aliased(n)) => Aliased(n)[1] \in U
    BY <2>2 DEF IsAlias
  <2> HIDE DEF h
  <2>5. ASSUME NEW m \in V
        PROVE  IF IsAlias(Aliased(m)) THEN Aliased(m)[1] \in V /\ h[m] = h[Aliased(m)[1]]
               ELSE h[m] = Aliased(m)
    <3>1. CASE m = n
      BY <2>3, <2>4, <3>1
    <3>2. CASE m \in U
      BY <1>5, <2>3, <3>2 DEF Solves
    <3>3. QED
      BY <3>1, <3>2
  <2>6. Solves(h, V)
    BY <1>3, <2>5 DEF Solves
  <2>7. V \in Solved
    BY <2>6 DEF Solved, Solves
  <2>8. QED
    BY <2>7
<1>7. QED
  BY <1>5, <1>6

(* What untypedef does *)
LEMMA UntypedefIs ==
  ASSUME NEW t \in TypeIds
  PROVE  Untypedef[t] = IF IsAlias(t) THEN Untypedef[Aliased(t[1])] ELSE t
<1>1. PICK f : Solves(f, Typedefs)
  BY SolutionExists
<1> DEFINE F == [u \in TypeIds |-> IF IsAlias(u) THEN f[u[1]] ELSE u]
           Of(G) == [u \in TypeIds |-> IF Len(u) > 1 \/ Decl[u[1]].kind # "typedef" THEN u
                                        ELSE G[Decl[u[1]].base]]
<1>2. \A u \in TypeIds : IsAlias(u) => f[u[1]] = F[Aliased(u[1])] /\ Aliased(u[1]) \in TypeIds
  BY <1>1, AliasedIsType DEF Solves, IsAlias
<1>3. F = Of(F)
  <2> HIDE DEF F
  <2>1. \A u \in TypeIds : F[u] = IF Len(u) > 1 \/ Decl[u[1]].kind # "typedef" THEN u
                                  ELSE F[Decl[u[1]].base]
    <3>1. ASSUME NEW u \in TypeIds
          PROVE  F[u] = IF Len(u) > 1 \/ Decl[u[1]].kind # "typedef" THEN u ELSE F[Decl[u[1]].base]
      <4>1. F[u] = IF IsAlias(u) THEN f[u[1]] ELSE u
        BY DEF F
      <4>2. QED
        BY <1>2, <4>1, TypeParts DEF Aliased
    <3>2. QED
      BY <3>1
  <2>2. F = [u \in TypeIds |-> F[u]]
    BY DEF F
  <2>3. QED
    BY <2>1, <2>2
<1> HIDE DEF F
<1>4. Untypedef = Of(Untypedef)
  BY Zenon, <1>3 DEF Untypedef
<1>5. Untypedef[t] = IF Len(t) > 1 \/ Decl[t[1]].kind # "typedef" THEN t
                     ELSE Untypedef[Decl[t[1]].base]
  BY Zenon, <1>4
<1>6. QED
  BY <1>5, TypeParts DEF Aliased

(* It ends at a type that is no typedef *)
LEMMA Untyped ==
  ASSUME NEW t \in TypeIds
  PROVE  /\ Untypedef[t] \in TypeIds /\ ~IsAlias(Untypedef[t])
         /\ Untypedef[Untypedef[t]] = Untypedef[t]
<1> DEFINE Right(u) == Untypedef[u] \in TypeIds /\ ~IsAlias(Untypedef[u])
           S == {n \in Typedefs : ~Right(Aliased(n))}
<1>1. ASSUME S # {} PROVE FALSE
  <2>1. S \in SUBSET Typedefs
    OBVIOUS
  <2>2. PICK n \in S : IsAlias(Aliased(n)) => Aliased(n)[1] \notin S
    <3> HIDE DEF S
    <3>1. QED
      BY Zenon, <1>1, <2>1, TypedefsEnd
  <2>3. Aliased(n) \in TypeIds
    BY AliasedIsType
  <2>4. CASE IsAlias(Aliased(n))
    <3>1. Right(Aliased(Aliased(n)[1]))
      BY <2>2, <2>4 DEF IsAlias
    <3>2. QED
      BY <2>2, <2>3, <2>4, <3>1, UntypedefIs
  <2>5. CASE ~IsAlias(Aliased(n))
    BY <2>2, <2>3, <2>5, UntypedefIs
  <2>6. QED
    BY <2>4, <2>5
<1>2. Right(t)
  <2>1. CASE IsAlias(t)
    <3>1. Right(Aliased(t[1]))
      BY <1>1, <2>1 DEF IsAlias
    <3>2. QED
      BY <2>1, <3>1, UntypedefIs
  <2>2. CASE ~IsAlias(t)
    BY <2>2, UntypedefIs
  <2>3. QED
    BY <2>1, <2>2
<1>3. QED
  BY <1>2, UntypedefIs

-----------------------------------------------------------------------------
(* Types and their sizes *)

(* A pointer to a type is a type of its own, with that base *)
LEMMA PointerTypes ==
  ASSUME NEW t \in TypeIds
  PROVE  /\ Pointer(t) \in TypeIds /\ Len(Pointer(t)) > 1
         /\ Untypedef[Pointer(t)] = Pointer(t) /\ Tail(Pointer(t)) = t
<1> DEFINE p == Pointer(t)
           n == Len(t)
           A == {"ptr"} \cup DOMAIN Decl
<1>1. t \in Seq(A) /\ n \in Nat \ {0} /\ t[n] \in DOMAIN Decl /\ \A i \in 1 .. n - 1 : t[i] = "ptr"
  BY TypeParts DEF TypeIds
<1>2. "ptr" \in A
  OBVIOUS
<1>3. p \in Seq(A) /\ Len(p) = n + 1 /\ p[1] = "ptr" /\ \A i \in 1 .. n : p[i + 1] = t[i]
  <2> HIDE DEF A
  <2>1. QED
    BY <1>1, <1>2 DEF Pointer
<1>4. Tail(p) = t
  <2> HIDE DEF A
  <2>1. QED
    BY <1>1, <1>2 DEF Pointer
<1> HIDE DEF p, n, A
<1>5. p # <<>> /\ p[Len(p)] \in DOMAIN Decl
  BY <1>1, <1>3
<1>6. \A i \in 1 .. Len(p) - 1 : p[i] = "ptr"
  <2>1. ASSUME NEW i \in 1 .. n, i # 1 PROVE p[i] = "ptr"
    <3>1. i - 1 \in 1 .. n - 1 /\ i - 1 \in 1 .. n /\ (i - 1) + 1 = i
      BY <1>1, <2>1
    <3>2. p[i] = t[i - 1]
      BY <1>3, <3>1
    <3>3. QED
      BY <1>1, <3>1, <3>2
  <2>2. QED
    BY <1>1, <1>3, <2>1
<1>7. p \in TypeIds
  BY <1>3, <1>5, <1>6 DEF TypeIds, A
<1>8. Len(p) > 1
  BY <1>1, <1>3
<1>9. ~IsAlias(p)
  BY <1>7, <1>8, TypeParts
<1>10. Untypedef[p] = p
  BY <1>7, <1>9, UntypedefIs
<1>11. QED
  BY <1>4, <1>7, <1>8, <1>10 DEF p

(* The base of a pointer is a type *)
LEMMA BaseTypes ==
  ASSUME NEW t \in TypeIds, Len(t) > 1
  PROVE  Tail(t) \in TypeIds
<1> DEFINE b == Tail(t)
           n == Len(t)
           A == {"ptr"} \cup DOMAIN Decl
<1>1. t \in Seq(A) /\ n \in Nat /\ n > 1 /\ t[n] \in DOMAIN Decl /\ \A i \in 1 .. n - 1 : t[i] = "ptr"
  BY TypeParts DEF TypeIds
<1>2. b \in Seq(A) /\ Len(b) = n - 1 /\ \A i \in 1 .. n - 1 : b[i] = t[i + 1]
  <2> HIDE DEF A
  <2>1. QED
    BY <1>1
<1> HIDE DEF b, n, A
<1>3. n - 1 \in 1 .. n - 1 /\ (n - 1) + 1 = n
  BY <1>1
<1>4. b # <<>> /\ b[Len(b)] \in DOMAIN Decl
  BY <1>1, <1>2, <1>3
<1>5. \A i \in 1 .. Len(b) - 1 : b[i] = "ptr"
  BY <1>1, <1>2
<1>6. b \in TypeIds
  BY <1>2, <1>4, <1>5 DEF TypeIds, A
<1>7. QED
  BY <1>6 DEF b

(* A type is a pointer, or has a declaration that is no typedef *)
LEMMA KindsAre ==
  ASSUME NEW t \in TypeIds
  PROVE  \/ /\ Kind(t) = "pointer" /\ Len(Untypedef[t]) > 1 /\ Size(t) = PtrSize
            /\ Base(t) \in TypeIds
         \/ /\ Kind(t) # "pointer" /\ Len(Untypedef[t]) = 1 /\ Untypedef[t][1] \in DOMAIN Decl
            /\ Kind(t) = Record(t).kind /\ Kind(t) # "typedef" /\ Size(t) = Record(t).size
            /\ Record(t) \in {Decl[n] : n \in DOMAIN Decl \ Typedefs}
<1> DEFINE u == Untypedef[t]
<1>1. u \in TypeIds /\ ~IsAlias(u)
  BY Untyped
<1>2. Len(u) \in Nat \ {0} /\ (Len(u) <= 1 => Len(u) = 1 /\ u[1] \in DOMAIN Decl)
  BY <1>1, TypeParts
<1>3. CASE Len(u) > 1
  BY <1>1, <1>3, BaseTypes DEF Kind, BareKind, Size, BareSize, Base
<1>4. CASE ~(Len(u) > 1)
  <2>1. Len(u) = 1 /\ u[1] \in DOMAIN Decl /\ Len(u) <= 1
    BY <1>2, <1>4
  <2>2. u[1] \notin Typedefs
    BY <1>1, <2>1 DEF IsAlias
  <2>3. Decl[u[1]].kind # "pointer" /\ Decl[u[1]].kind # "typedef"
    BY <2>1, <2>2, TypesAssumption DEF Typedefs
  <2>4. Kind(t) = Decl[u[1]].kind
    BY <1>4 DEF Kind, BareKind
  <2>5. Size(t) = Decl[u[1]].size
    BY <1>4 DEF Size, BareSize
  <2>6. QED
    BY <2>1, <2>2, <2>3, <2>4, <2>5 DEF Record
<1>5. QED
  BY <1>3, <1>4

(* Sizes are numbers, and small *)
LEMMA SizesAre ==
  ASSUME NEW t \in TypeIds
  PROVE  Size(t) \in Nat /\ 3 * Size(t) <= Far
<1>1. CASE Size(t) = PtrSize
  <2>1. PtrSize \in Nat /\ 3 * PtrSize <= 24 /\ Far >= 24
    BY SizesAssumption, TypesAssumption
  <2>2. Far \in Int
    BY Radices, SizesAssumption, IntDivided DEF Far
  <2>3. QED
    BY <1>1, <2>1, <2>2
<1>2. ASSUME NEW n \in DOMAIN Decl \ Typedefs, Size(t) = Decl[n].size PROVE Size(t) \in Nat /\ 3 * Size(t) <= Far
  BY <1>2, TypesAssumption DEF Typedefs
<1>3. QED
  BY <1>1, <1>2, KindsAre

(* Typedefs change neither kind nor size *)
LEMMA UntypedKinds ==
  ASSUME NEW t \in TypeIds
  PROVE  Kind(Untypedef[t]) = Kind(t) /\ Size(Untypedef[t]) = Size(t)
BY Zenon, Untyped DEF Kind, BareKind, Size, BareSize

(* The kind, size and base of a pointer *)
LEMMA PointersAre ==
  ASSUME NEW t \in TypeIds
  PROVE  Kind(Pointer(t)) = "pointer" /\ Size(Pointer(t)) = PtrSize /\ Base(Pointer(t)) = t
<1>1. Kind(Pointer(t)) = "pointer"
  BY PointerTypes DEF Kind, BareKind
<1>2. QED
  BY <1>1, PointerTypes DEF Size, BareSize, Base

(* Far is a number, and a client's calls do not reach round the memory *)
LEMMA FarIs ==
  /\ Far \in Nat /\ Far >= 24 /\ MaxCalls \in Nat
  /\ \A n \in 0 .. MaxCalls + 2 : n * Far \in Nat /\ n * Far < Wide /\ (n + 1) * Far = n * Far + Far
<1>1. MaxCalls \in Nat /\ MaxCalls + 3 \in Nat \ {0}
  BY SizesAssumption
<1>2. Wide \in Nat \ {0} /\ Wide \in Int
  BY Radices
<1> DEFINE r == Wide % (MaxCalls + 3)
<1>3. Far \in Int /\ r \in 0 .. (MaxCalls + 3) - 1 /\ Wide = (MaxCalls + 3) * Far + r
  BY <1>1, <1>2, IntDivided DEF Far
<1>4. Far >= 24 /\ Far \in Nat
  BY <1>3, TypesAssumption
<1> HIDE DEF r
<1>5. ASSUME NEW n \in 0 .. MaxCalls + 2
      PROVE  n * Far \in Nat /\ n * Far < Wide /\ (n + 1) * Far = n * Far + Far
  <2>1. MaxCalls + 3 - n \in Nat \ {0}
    BY <1>1
  <2>2. (MaxCalls + 3 - n) * Far = (MaxCalls + 3) * Far - n * Far /\ n * Far \in Nat
    BY <1>1, <1>4
  <2>3. (MaxCalls + 3 - n) * Far > 0
    BY <1>4, <2>1
  <2>4. (n + 1) * Far = n * Far + Far /\ (MaxCalls + 3) * Far \in Nat
    BY <1>1, <1>4
  <2>5. QED
    BY <1>3, <2>2, <2>3, <2>4
<1>6. QED
  BY <1>1, <1>4, <1>5

-----------------------------------------------------------------------------
(* Values *)

MemOK ==
    /\ image \in DOMAIN Images
    /\ mem \in [DOMAIN Memories[image] -> Bytes]

(* A value a client can have after n calls: no temporary has been left far *)
(* behind                                                                  *)
Near(v, n) == IsValue(v) /\ (~HasAddress(v) => v.offset <= n * Far)

(* What is less than the modulus is its own remainder *)
LEMMA OwnRemainder ==
  ASSUME NEW b \in Nat \ {0}, NEW a \in 0 .. b - 1
  PROVE  a % b = a /\ a \div b = 0
<1>1. a = b * 0 + a
  OBVIOUS
<1>2. QED
  BY <1>1, IntOnce

(* The parts of a value *)
LEMMA ValueParts ==
  ASSUME NEW v \in Values
  PROVE  /\ v.type \in TypeIds /\ v.store \in {"memory", "temp"} /\ v.offset \in 0 .. Wide - 1
         /\ v.offset \in Nat /\ v.offset < Wide /\ v.bytes \in Seq(Bytes)
         /\ v = [type |-> v.type, store |-> v.store, offset |-> v.offset, bytes |-> v.bytes]
<1>1. Wide \in Nat \ {0}
  BY Radices
<1>2. QED
  BY <1>1 DEF Values, Bytes

(* Where a value's bytes are *)
LEMMA AtIs ==
  ASSUME NEW v \in Values, NEW o \in Int
  PROVE  /\ At(v, o) \in Int /\ At(v, o) \in 0 .. Wide - 1
         /\ v.offset + o \in 0 .. Wide - 1 => At(v, o) = v.offset + o
<1>1. Wide \in Nat \ {0} /\ v.offset + o \in Int
  BY Radices, ValueParts
<1>2. QED
  BY <1>1, IntDivided, OwnRemainder DEF At

(* In a temporary they are where they should be *)
LEMMA TempReads ==
  ASSUME NEW n \in 0 .. MaxCalls, NEW v, Near(v, n), ~HasAddress(v),
         NEW sz \in 0 .. Far, NEW o \in 0 .. Far
  PROVE  /\ At(v, o) = v.offset + o /\ v.offset + o \in Nat
         /\ CanRead(v, sz, o) <=> At(v, o) + sz <= Len(v.bytes)
<1>1. v \in Values /\ v.offset <= n * Far
  BY DEF Near, IsValue
<1>2. v.offset \in Nat /\ v.bytes \in Seq(Bytes) /\ Len(v.bytes) \in Nat
  BY <1>1, ValueParts
<1>3. /\ n * Far \in Nat /\ (n + 1) * Far = n * Far + Far /\ (n + 2) * Far = (n + 1) * Far + Far
      /\ (n + 2) * Far < Wide /\ Far \in Nat /\ Wide \in Nat \ {0}
  <2>1. MaxCalls \in Nat /\ n \in 0 .. MaxCalls + 2 /\ n + 1 \in 0 .. MaxCalls + 2
        /\ n + 2 \in 0 .. MaxCalls + 2 /\ (n + 1) + 1 = n + 2
    BY FarIs
  <2>2. n * Far \in Nat /\ (n + 1) * Far = n * Far + Far
    BY <2>1, FarIs
  <2>3. ((n + 1) + 1) * Far = (n + 1) * Far + Far
    BY <2>1, FarIs
  <2>4. (n + 2) * Far < Wide
    BY <2>1, FarIs
  <2>5. QED
    BY <2>1, <2>2, <2>3, <2>4, FarIs, Radices
<1> DEFINE a == v.offset + o
           m == n * Far
<1>4. m \in Nat /\ m + Far + Far < Wide /\ v.offset <= m
  <2> DEFINE x == (n + 1) * Far
             y == (n + 2) * Far
  <2>1. x = m + Far /\ y = x + Far /\ y < Wide
    BY <1>3
  <2>2. m \in Nat /\ v.offset <= m
    BY <1>1, <1>3
  <2> HIDE DEF x, y, m
  <2>3. QED
    BY <1>3, <2>1, <2>2
<1> HIDE DEF m
<1>5. a \in Nat /\ a \in 0 .. Wide - 1 /\ sz + a \in 0 .. Wide - 1
  BY <1>2, <1>3, <1>4
<1>6. At(v, o) = a
  BY <1>1, <1>5, AtIs
<1> HIDE DEF a
<1>7. (sz + a) % Wide = sz + a /\ sz + a = a + sz
  BY <1>3, <1>5, OwnRemainder
<1>8. CanRead(v, sz, o) <=> (sz + a) % Wide <= Len(v.bytes)
  BY <1>6 DEF CanRead
<1>9. QED
  BY <1>5, <1>6, <1>7, <1>8 DEF a

(* What can be read is bytes *)
LEMMA RawBytes ==
  ASSUME MemOK, NEW n \in 0 .. MaxCalls, NEW v, Near(v, n),
         NEW sz \in 0 .. Far, NEW o \in 0 .. Far, CanRead(v, sz, o)
  PROVE  ReadRaw(v, sz, o) \in Seq(Bytes) /\ Len(ReadRaw(v, sz, o)) = sz
<1> DEFINE raw == ReadRaw(v, sz, o)
           B(k) == IF HasAddress(v) THEN mem[At(v, o) + k - 1] ELSE v.bytes[At(v, o) + k]
<1>1. v \in Values /\ v.bytes \in Seq(Bytes) /\ sz \in Nat /\ At(v, o) \in Int
  BY ValueParts, AtIs, FarIs DEF Near, IsValue
<1>2. raw = [k \in 1 .. sz |-> B(k)]
  BY DEF ReadRaw
<1>3. ASSUME NEW k \in 1 .. sz PROVE B(k) \in Bytes
  <2>1. CASE HasAddress(v)
    <3>1. k - 1 \in 0 .. sz - 1 /\ At(v, o) + (k - 1) = At(v, o) + k - 1
      BY <1>1
    <3>2. At(v, o) + (k - 1) \in DOMAIN mem
      BY <2>1, <3>1 DEF CanRead
    <3>3. QED
      BY <2>1, <3>1, <3>2 DEF MemOK
  <2>2. CASE ~HasAddress(v)
    <3>1. At(v, o) \in Nat /\ At(v, o) + sz <= Len(v.bytes)
      BY <2>2, TempReads
    <3>2. At(v, o) + k \in 1 .. Len(v.bytes)
      BY <1>1, <3>1
    <3>3. QED
      BY <1>1, <2>2, <3>2
  <2>3. QED
    BY <2>1, <2>2
<1> HIDE DEF B, raw
<1>4. raw \in Seq(Bytes) /\ Len(raw) = sz
  BY <1>1, <1>2, <1>3
<1>5. QED
  BY <1>4 DEF raw

(* A value in memory, and moving a value *)
LEMMA InMemoryNear ==
  ASSUME NEW t \in TypeIds, NEW a \in 0 .. Wide - 1, NEW n
  PROVE  Near(InMemory(t, a), n) /\ HasAddress(InMemory(t, a))
<1>1. InMemory(t, a) \in Values
  BY DEF InMemory, Values
<1>2. QED
  BY <1>1 DEF Near, IsValue, HasAddress, InMemory

(* What is in a value is a value, one step further *)
LEMMA MovedNear ==
  ASSUME NEW n \in 0 .. MaxCalls - 1, NEW v, Near(v, n), NEW t \in TypeIds, NEW o \in 0 .. Far
  PROVE  Near(Moved(v, t, o), n + 1) /\ (HasAddress(Moved(v, t, o)) <=> HasAddress(v))
         /\ Moved(v, t, o).bytes = v.bytes
<1> DEFINE w == Moved(v, t, o)
<1>1. v \in Values /\ (HasAddress(v) => v.bytes = <<>>)
  BY DEF Near, IsValue
<1>2. o \in Int /\ MaxCalls \in Nat
  BY FarIs
<1>3. (v.offset + o) % Wide \in 0 .. Wide - 1
  BY <1>1, <1>2, AtIs DEF At
<1>4. /\ w \in Values /\ w.offset = At(v, o) /\ w.store = v.store /\ w.bytes = v.bytes
  BY <1>1, <1>3 DEF Moved, Values, At
<1> HIDE DEF w
<1>5. ASSUME ~HasAddress(v) PROVE w.offset <= (n + 1) * Far
  <2>1. n \in 0 .. MaxCalls /\ n \in 0 .. MaxCalls + 2 /\ 0 \in 0 .. Far
    BY <1>2, FarIs
  <2>2. At(v, o) = v.offset + o
    BY <1>5, <2>1, TempReads
  <2>3. v.offset <= n * Far /\ v.offset \in Nat /\ n * Far \in Nat
    BY <1>1, <1>5, <2>1, ValueParts, FarIs DEF Near
  <2>4. (n + 1) * Far = n * Far + Far /\ Far \in Nat
    BY <2>1, FarIs
  <2>5. QED
    BY <1>4, <2>2, <2>3, <2>4
<1>6. QED
  BY <1>1, <1>4, <1>5 DEF Near, IsValue, HasAddress, w

-----------------------------------------------------------------------------
(* Numbers in values *)

(* Numbers of at most eight bytes are addresses *)
LEMMA PowersFit ==
  ASSUME NEW k \in 0 .. 8
  PROVE  Power(Radix, k) \in Nat \ {0} /\ Power(Radix, k) <= Wide
<1> DEFINE p == Power(Radix, k)
           q == Power(Radix, 8 - k)
<1>1. p \in Nat \ {0} /\ q \in Nat \ {0} /\ Radix \in Nat \ {0}
  BY Radices
<1>2. Power(Radix, k + (8 - k)) = p * q
  <2>1. k \in Nat /\ 8 - k \in Nat
    OBVIOUS
  <2>2. QED
    BY <1>1, <2>1, PowersLarger
<1>3. k + (8 - k) = 8
  OBVIOUS
<1>4. Wide = p * q
  BY <1>2, <1>3 DEF Wide
<1> HIDE DEF p, q
<1>5. p * (q - 1) \in Nat /\ p * (q - 1) = p * q - p /\ p * q \in Nat
  BY <1>1
<1>6. QED
  BY <1>1, <1>4, <1>5 DEF p

WordSizes == {1, 2, 4, 8}

(* What the accessor reads *)
LEMMA NumberRead ==
  ASSUME MemOK, NEW n \in 0 .. MaxCalls, NEW v, Near(v, n), NEW sz, NEW o \in 0 .. Far,
         IsNumber(v, sz, o)
  PROVE  /\ sz \in WordSizes /\ ReadUnsigned(v, sz, o) \in 0 .. Power(Radix, sz) - 1
         /\ ReadUnsigned(v, sz, o) \in 0 .. Wide - 1
<1>1. sz \in WordSizes /\ CanRead(v, sz, o)
  BY DEF IsNumber, WordSizes
<1>2. sz \in 0 .. 8 /\ sz \in 0 .. Far
  BY <1>1, FarIs DEF WordSizes
<1> DEFINE raw == ReadRaw(v, sz, o)
<1>3. raw \in Seq(Bytes) /\ Len(raw) = sz
  BY <1>1, <1>2, RawBytes
<1> HIDE DEF raw
<1>4. InHostOrder(raw) \in Seq(Bytes) /\ Len(InHostOrder(raw)) = sz
  BY <1>3, OrdersAgree
<1>5. Number(InHostOrder(raw)) \in 0 .. Power(Radix, sz) - 1
  BY <1>4, NumberFits
<1>6. ReadUnsigned(v, sz, o) \in 0 .. Power(Radix, sz) - 1
  BY <1>5 DEF ReadUnsigned, raw
<1>7. Power(Radix, sz) \in Nat /\ Power(Radix, sz) <= Wide /\ Wide \in Nat
  BY <1>2, PowersFit, Radices
<1>8. QED
  BY <1>1, <1>6, <1>7

(* A value that can be read as a number is one of its size *)
LEMMA UintIs ==
  ASSUME MemOK, NEW n \in 0 .. MaxCalls, NEW v, Near(v, n), HasUint[v]
  PROVE  /\ Size(v.type) \in WordSizes /\ AsUint[v] \in 0 .. Power(Radix, Size(v.type)) - 1
         /\ AsUint[v] \in 0 .. Wide - 1 /\ AsUint[v] \in Nat /\ AsInt(v) \in Int
<1>1. v \in Values /\ 0 \in 0 .. Far
  BY FarIs DEF Near, IsValue
<1> DEFINE sz == Size(v.type)
           a == AsUint[v]
<1>2. IsNumber(v, sz, 0) /\ a = ReadUnsigned(v, sz, 0)
  BY Zenon, <1>1 DEF HasUint, AsUint
<1> HIDE DEF sz, a
<1>3. sz \in WordSizes /\ a \in 0 .. Power(Radix, sz) - 1 /\ a \in 0 .. Wide - 1
  BY <1>1, <1>2, NumberRead
<1>4. Power(Radix, sz) \in Nat
  BY <1>3, Radices DEF WordSizes
<1>5. Signed(a, sz) \in Int /\ a \in Nat
  BY <1>3, <1>4 DEF Signed
<1>6. QED
  BY Zenon, <1>3, <1>5 DEF AsInt, sz, a

(* A temporary *)
LEMMA TemporaryNear ==
  ASSUME NEW t \in TypeIds, NEW b \in Seq(Bytes), NEW n \in Nat
  PROVE  /\ Near(Temporary(t, b), n) /\ ~HasAddress(Temporary(t, b))
         /\ Temporary(t, b) \in Values /\ Temporary(t, b).type = t
         /\ Temporary(t, b).offset = 0 /\ Temporary(t, b).bytes = b
<1>1. 0 \in 0 .. Wide - 1 /\ n * Far \in Nat
  BY Radices, FarIs
<1>2. Temporary(t, b) \in Values
  BY <1>1 DEF Temporary, Values, Bytes
<1>3. QED
  BY <1>1, <1>2 DEF Near, IsValue, HasAddress, Temporary

(* A temporary as large as its type is read whole *)
LEMMA TemporaryRead ==
  ASSUME NEW t \in TypeIds, NEW b \in Seq(Bytes), Len(b) = Size(t), Size(t) \in WordSizes
  PROVE  /\ HasUint[Temporary(t, b)]
         /\ AsUint[Temporary(t, b)] = Number(InHostOrder(b))
<1> DEFINE sz == Size(t)
           v == Temporary(t, b)
<1>1. v \in Values /\ v.type = t /\ ~HasAddress(v) /\ v.offset = 0 /\ v.bytes = b
  <2>1. 0 \in Nat
    OBVIOUS
  <2>2. QED
    BY <2>1, TemporaryNear
<1>2. sz \in WordSizes /\ Len(b) = sz
  OBVIOUS
<1> HIDE DEF v, sz
<1>3. At(v, 0) = 0
  <2>1. Wide \in Nat \ {0} /\ v.offset + 0 = 0 /\ 0 \in Int
    BY <1>1, Radices
  <2>2. v.offset + 0 \in 0 .. Wide - 1
    BY <2>1
  <2>3. QED
    BY Zenon, <1>1, <2>1, <2>2, AtIs
<1>4. sz \in 0 .. 8 /\ sz \in Nat
  BY <1>2 DEF WordSizes
<1>5. (sz + 0) % Wide <= sz
  <2>1. Wide \in Nat /\ 24 < Wide
    <3>1. MaxCalls \in Nat /\ Far \in Nat /\ Far >= 24 /\ Wide \in Nat
      BY FarIs, Radices
    <3>2. 1 \in 0 .. MaxCalls + 2 /\ 1 * Far = Far
      BY <3>1
    <3>3. 1 * Far < Wide
      BY Zenon, <3>2, FarIs
    <3>4. QED
      BY <3>1, <3>2, <3>3
  <2>2. sz \in 0 .. Wide - 1 /\ sz + 0 = sz /\ Wide \in Nat \ {0}
    BY <1>4, <2>1
  <2>3. QED
    BY <2>2, OwnRemainder
<1>6. CanRead(v, sz, 0)
  BY <1>1, <1>2, <1>3, <1>5 DEF CanRead
<1>7. IsNumber(v, sz, 0)
  BY <1>2, <1>6 DEF IsNumber, WordSizes
<1>8. ReadRaw(v, sz, 0) = b
  <2>1. ReadRaw(v, sz, 0) = [k \in 1 .. sz |-> b[0 + k]]
    BY <1>1, <1>3 DEF ReadRaw
  <2>2. \A k \in 1 .. sz : 0 + k = k
    BY <1>4
  <2>3. b = [k \in 1 .. sz |-> b[k]]
    BY <1>2
  <2>4. QED
    BY <2>1, <2>2, <2>3
<1>9. ReadUnsigned(v, sz, 0) = Number(InHostOrder(b))
  BY Zenon, <1>8 DEF ReadUnsigned
<1>10. HasUint[v] = IsNumber(v, sz, 0) /\ AsUint[v] = ReadUnsigned(v, sz, 0)
  BY Zenon, <1>1 DEF HasUint, AsUint, sz
<1>11. HasUint[v] /\ AsUint[v] = Number(InHostOrder(b))
  BY Zenon, <1>7, <1>9, <1>10
<1>12. QED
  BY <1>11 DEF v

(* A number in a temporary is read again, cut to the size of its type *)
LEMMA NumberInIs ==
  ASSUME NEW t \in TypeIds, NEW x \in Int, NEW n \in Nat
  PROVE  /\ Near(NumberIn(t, x), n) /\ NumberIn(t, x).type = t
         /\ Size(t) \in WordSizes =>
                /\ HasUint[NumberIn(t, x)]
                /\ AsUint[NumberIn(t, x)] = x % Power(Radix, Size(t))
<1> DEFINE sz == Size(t)
           d == Digits(x, sz)
           b == InHostOrder(d)
<1>1. sz \in Nat
  BY SizesAre
<1>2. d \in Seq(Bytes) /\ Len(d) = sz /\ Number(d) = x % Power(Radix, sz)
  BY <1>1, DigitsAre, NumberOfDigits
<1> HIDE DEF d
<1>3. b \in Seq(Bytes) /\ Len(b) = sz /\ InHostOrder(b) = d
  BY <1>2, OrdersAgree
<1>4. NumberIn(t, x) = Temporary(t, b)
  BY DEF NumberIn, d
<1> HIDE DEF b
<1>5. Near(Temporary(t, b), n) /\ Temporary(t, b).type = t
  BY <1>3, TemporaryNear
<1>6. sz \in WordSizes =>
        HasUint[Temporary(t, b)] /\ AsUint[Temporary(t, b)] = x % Power(Radix, sz)
  BY <1>2, <1>3, TemporaryRead
<1>7. QED
  BY <1>4, <1>5, <1>6

-----------------------------------------------------------------------------
(* Navigation *)

FieldFacts(f) == f.type \in TypeIds /\ f.offset \in 0 .. Far /\ f.bits \in 0 .. Far

(* Bytes lie within bits *)
LEMMA BytesOf ==
  ASSUME NEW o \in Nat
  PROVE  o \div ByteBits \in Nat /\ o \div ByteBits <= o /\ o % ByteBits \in 0 .. ByteBits - 1
<1> DEFINE q == o \div ByteBits
           r == o % ByteBits
<1>1. ByteBits \in Nat \ {0} /\ o \in Int
  BY SizesAssumption
<1>2. q \in Int /\ r \in 0 .. ByteBits - 1 /\ o = ByteBits * q + r
  BY <1>1, IntDivided
<1> HIDE DEF q, r
<1>3. q \in Nat
  <2>1. SUFFICES ASSUME q < 0 PROVE FALSE
    BY <1>2
  <2>2. ByteBits * (-q - 1) \in Nat /\ ByteBits * (-q - 1) = -(ByteBits * q) - ByteBits
        /\ ByteBits * q \in Int
    BY <1>1, <1>2, <2>1
  <2>3. QED
    BY <1>1, <1>2, <2>2
<1>4. (ByteBits - 1) * q \in Nat /\ (ByteBits - 1) * q = ByteBits * q - q /\ ByteBits * q \in Nat
  BY <1>1, <1>3
<1>5. q <= o
  BY <1>1, <1>2, <1>3, <1>4
<1>6. QED
  BY <1>2, <1>3, <1>5 DEF q, r

(* Powers of two are numbers *)
LEMMA TwoPowers == \A j \in Nat : Power(2, j) \in Nat \ {0}
<1>1. 2 \in Nat \ {0}
  OBVIOUS
<1>2. QED
  BY <1>1, PowersStep

(* The bits of a bit-field *)
LEMMA BitsRead ==
  ASSUME MemOK, NEW n \in 0 .. MaxCalls, NEW v, Near(v, n), NEW f, FieldFacts(f),
         CanRead(v, 1, f.offset \div ByteBits)
  PROVE  /\ FieldBits(v, f) \in Int /\ FieldBits(v, f) \in 0 .. Power(2, f.bits) - 1
         /\ FieldNumber(v, f) \in Int
<1> DEFINE o == f.offset \div ByteBits
           k == f.offset % ByteBits
           byte == ReadRaw(v, 1, o)[1]
<1>1. f.offset \in Nat /\ f.offset <= Far /\ f.bits \in Nat /\ Far \in Nat
  BY FarIs DEF FieldFacts
<1>2. o \in 0 .. Far /\ k \in Nat /\ 1 \in 0 .. Far
  <2>1. o \in Nat /\ o <= f.offset /\ k \in 0 .. ByteBits - 1
    BY <1>1, BytesOf
  <2>2. ByteBits \in Nat
    BY SizesAssumption
  <2> HIDE DEF o, k
  <2>3. QED
    BY <1>1, <2>1, <2>2, FarIs
<1>3. ReadRaw(v, 1, o) \in Seq(Bytes) /\ Len(ReadRaw(v, 1, o)) = 1
  BY <1>2, RawBytes
<1>4. byte \in Int
  <2>1. byte \in Bytes
    BY <1>3
  <2>2. QED
    BY <2>1, BytesNumbers
<1>5. Power(2, k) \in Nat \ {0} /\ Power(2, f.bits) \in Nat \ {0}
  <2> HIDE DEF k
  <2>1. QED
    BY Zenon, <1>1, <1>2, TwoPowers
<1>6. FieldBits(v, f) = (byte \div Power(2, k)) % Power(2, f.bits)
  BY DEF FieldBits
<1> HIDE DEF byte, k, o
<1>7. byte \div Power(2, k) \in Int
  BY <1>4, <1>5, IntDivided
<1>8. FieldBits(v, f) \in Int /\ FieldBits(v, f) \in 0 .. Power(2, f.bits) - 1
  BY <1>5, <1>6, <1>7, IntDivided
<1>9. FieldNumber(v, f) \in Int
  <2>1. FieldBits(v, f) - Power(2, f.bits) \in Int
    BY <1>5, <1>8
  <2>2. QED
    BY <1>8, <2>1 DEF FieldNumber
<1>10. QED
  BY <1>8, <1>9

(* No bytes are a sequence of bytes *)
LEMMA EmptySequence == <<>> \in Seq(Bytes)
OBVIOUS

(* The elements of a sequence *)
LEMMA ElementsOf ==
  ASSUME NEW S, NEW q \in Seq(S)
  PROVE  \A i \in DOMAIN q : q[i] \in S
OBVIOUS

(* A member of a value *)
LEMMA FieldNear ==
  ASSUME MemOK, NEW n \in 0 .. MaxCalls - 1, NEW v, Near(v, n), NEW f, FieldFacts(f)
  PROVE  /\ Near(CreateField(v, f), n + 1)
         /\ IsWhole(f) => (HasAddress(CreateField(v, f)) <=> HasAddress(v))
                          /\ CreateField(v, f).bytes = v.bytes
<1> DEFINE o == f.offset \div ByteBits
<1>1. n \in 0 .. MaxCalls /\ n + 1 \in Nat /\ f.type \in TypeIds
  BY FarIs DEF FieldFacts
<1>2. o \in 0 .. Far
  <2>1. f.offset \in Nat /\ f.offset <= Far /\ Far \in Nat
    BY FarIs DEF FieldFacts
  <2>2. o \in Nat /\ o <= f.offset
    BY <2>1, BytesOf
  <2> HIDE DEF o
  <2>3. QED
    BY <2>1, <2>2
<1>3. CASE IsWhole(f)
  <2>1. CreateField(v, f) = Moved(v, f.type, o)
    BY <1>3 DEF CreateField
  <2> HIDE DEF o
  <2>2. QED
    BY <1>1, <1>2, <2>1, MovedNear
<1>4. CASE ~IsWhole(f) /\ ~CanRead(v, 1, o)
  <2>1. CreateField(v, f) = Temporary(f.type, <<>>)
    BY <1>4 DEF CreateField
  <2>2. QED
    BY <1>1, <1>4, <2>1, EmptySequence, TemporaryNear
<1>5. CASE ~IsWhole(f) /\ CanRead(v, 1, o)
  <2>1. FieldNumber(v, f) \in Int /\ Size(f.type) \in Nat
    BY <1>1, <1>5, BitsRead, SizesAre
  <2>2. Digits(FieldNumber(v, f), Size(f.type)) \in Seq(Bytes)
    BY <2>1, DigitsAre
  <2>3. CreateField(v, f) = Temporary(f.type, Digits(FieldNumber(v, f), Size(f.type)))
    BY <1>5 DEF CreateField
  <2>4. QED
    BY <1>1, <1>5, <2>2, <2>3, TemporaryNear
<1>6. QED
  BY <1>3, <1>4, <1>5

(* What a record's declaration says *)
LEMMA RecordIs ==
  ASSUME NEW t \in TypeIds, Kind(t) = "record"
  PROVE  LET r == Record(t) IN
         /\ r.bases \in Seq([type : TypeIds, offset : 0 .. Far \div 2])
         /\ \A i \in DOMAIN r.bases : Kind(r.bases[i].type) = "record"
         /\ r.fields \in Seq([name : STRING, type : TypeIds, offset : 0 .. Far \div 2,
                              bits : 0 .. Far])
         /\ r.functions \in [DOMAIN r.functions -> Nat]
<1>1. Record(t) \in {Decl[n] : n \in DOMAIN Decl \ Typedefs} /\ Record(t).kind = "record"
  BY KindsAre
<1>2. PICK n \in DOMAIN Decl : Record(t) = Decl[n]
  BY <1>1
<1>3. QED
  BY <1>1, <1>2, TypesAssumption

(* Half of it twice is no further *)
LEMMA HalfFar == \A x \in 0 .. Far \div 2, y \in 0 .. Far \div 2 : x \in 0 .. Far /\ x + y \in 0 .. Far
<1>1. Far \in Nat
  BY FarIs
<1>2. QED
  BY <1>1

(* A record's bases and members *)
LEMMA MembersAre ==
  ASSUME NEW t \in TypeIds, Kind(t) = "record"
  PROVE  /\ \A i \in DOMAIN Record(t).fields : FieldFacts(Record(t).fields[i])
         /\ \A i \in DOMAIN Record(t).bases :
                Record(t).bases[i].type \in TypeIds /\ Record(t).bases[i].offset \in 0 .. Far
         /\ \A nm : \A f \in Found(t, nm) : FieldFacts(f)
<1> DEFINE r == Record(t)
           F == [name : STRING, type : TypeIds, offset : 0 .. Far \div 2, bits : 0 .. Far]
           B == [type : TypeIds, offset : 0 .. Far \div 2]
           Own(q, o, nm) == {[type |-> q.fields[i].type, offset |-> o + q.fields[i].offset,
                          bits |-> q.fields[i].bits] :
                            i \in {i \in DOMAIN q.fields : q.fields[i].name = nm}}
<1>1. r.bases \in Seq(B) /\ r.fields \in Seq(F)
      /\ \A i \in DOMAIN r.bases : Kind(r.bases[i].type) = "record"
  BY RecordIs
<1>2. \A i \in DOMAIN r.fields : r.fields[i] \in F
  <2> HIDE DEF F, r
  <2>1. QED
    BY Zenon, <1>1, ElementsOf
<1>3. \A i \in DOMAIN r.bases : r.bases[i] \in B
  <2> HIDE DEF B, r
  <2>1. QED
    BY Zenon, <1>1, ElementsOf
<1>4. \A i \in DOMAIN r.fields : FieldFacts(r.fields[i])
  BY <1>2, HalfFar DEF FieldFacts
<1>5. \A i \in DOMAIN r.bases : r.bases[i].type \in TypeIds /\ r.bases[i].offset \in 0 .. Far
                               /\ r.bases[i].offset \in 0 .. Far \div 2
  BY <1>3, HalfFar
<1>6. ASSUME NEW q, q.fields \in Seq(F), NEW o \in 0 .. Far \div 2, NEW nm, NEW f \in Own(q, o, nm)
      PROVE  FieldFacts(f)
  <2>1. PICK i \in DOMAIN q.fields :
            f = [type |-> q.fields[i].type, offset |-> o + q.fields[i].offset, bits |-> q.fields[i].bits]
    OBVIOUS
  <2>2. q.fields[i] \in F
    <3> HIDE DEF F
    <3>1. QED
      BY Zenon, <1>6, ElementsOf
  <2>3. o + q.fields[i].offset \in 0 .. Far
    BY <2>2, HalfFar
  <2>4. QED
    BY <2>1, <2>2, <2>3 DEF FieldFacts
<1>7. ASSUME NEW nm, NEW f \in Found(t, nm) PROVE FieldFacts(f)
  <2> DEFINE in == [b \in DOMAIN r.bases |-> Own(Record(r.bases[b].type), r.bases[b].offset, nm)]
             bs == {b \in DOMAIN in : in[b] # {}}
  <2>1. Found(t, nm) = IF Own(r, 0, nm) # {} THEN Own(r, 0, nm)
                       ELSE IF bs = {} THEN {} ELSE in[CHOOSE b \in bs : \A c \in bs : b <= c]
    BY Zenon DEF Found
  <2>2. CASE f \in Own(r, 0, nm)
    <3>1. 0 \in 0 .. Far \div 2
      BY FarIs
    <3> HIDE DEF Own, F, r
    <3>2. QED
      BY <1>1, <1>6, <2>2, <3>1
  <2>3. CASE f \notin Own(r, 0, nm)
    <3>1. bs # {} /\ f \in in[CHOOSE b \in bs : \A c \in bs : b <= c]
      <4> HIDE DEF in, bs, Own, r
      <4>1. QED
        BY <2>1, <2>3
    <3>2. bs \in SUBSET Nat
      <4>1. DOMAIN r.bases \in SUBSET Nat
        <5> HIDE DEF r, B
        <5>1. QED
          BY <1>1
      <4> HIDE DEF r, Own
      <4>2. QED
        BY <4>1
    <3>3. PICK b \in bs : f \in in[b]
      <4> HIDE DEF in, bs, Own, r
      <4>1. \E x \in bs : \A c \in bs : x <= c
        BY Zenon, <3>1, <3>2, Smallest
      <4>2. (CHOOSE b \in bs : \A c \in bs : b <= c) \in bs
        BY Zenon, <4>1
      <4>3. QED
        BY Zenon, <3>1, <4>2
    <3> HIDE DEF F, r
    <3>4. b \in DOMAIN r.bases /\ f \in Own(Record(r.bases[b].type), r.bases[b].offset, nm)
      <4> HIDE DEF Own
      <4>1. b \in DOMAIN r.bases
        BY Zenon
      <4>2. in[b] = Own(Record(r.bases[b].type), r.bases[b].offset, nm)
        BY Zenon, <4>1
      <4>3. QED
        BY Zenon, <3>3, <4>1, <4>2
    <3>5. r.bases[b].type \in TypeIds /\ Kind(r.bases[b].type) = "record"
          /\ r.bases[b].offset \in 0 .. Far \div 2
      BY <1>1, <1>5, <3>4
    <3>6. Record(r.bases[b].type).fields \in Seq(F)
      <4>1. QED
        BY Zenon, <3>5, RecordIs DEF F
    <3> HIDE DEF Own
    <3>7. QED
      BY Zenon, <1>6, <3>4, <3>5, <3>6
  <2>4. QED
    BY <2>2, <2>3
<1>8. QED
  BY <1>4, <1>5, <1>7

-----------------------------------------------------------------------------
(* Pointers *)

(* The types registered for addresses *)
DynOK ==
    \A a \in DOMAIN dynamic :
        /\ \E t \in TypeIds : dynamic[a].type = Pointer(t)
        /\ dynamic[a].addr \in 0 .. Wide - 1

IsPlace(d) == d.type \in TypeIds /\ Kind(d.type) = "pointer" /\ d.addr \in 0 .. Wide - 1

(* What is registered is a pointer type and an address *)
LEMMA RegisteredPlace ==
  ASSUME DynOK, NEW a \in 0 .. Wide - 1, NEW t \in TypeIds, Kind(t) = "pointer"
  PROVE  IsPlace(FromContext(a, t))
<1>1. CASE a \in DOMAIN dynamic
  <2>1. PICK u \in TypeIds : dynamic[a].type = Pointer(u)
    BY <1>1 DEF DynOK
  <2>2. /\ FromContext(a, t).type = Pointer(u) /\ FromContext(a, t).addr = dynamic[a].addr
    BY <1>1, <2>1 DEF FromContext
  <2>3. dynamic[a].addr \in 0 .. Wide - 1
    BY <1>1 DEF DynOK
  <2>4. QED
    BY <2>2, <2>3, PointerTypes, PointersAre DEF IsPlace
<1>2. CASE a \notin DOMAIN dynamic
  BY <1>2 DEF FromContext, IsPlace
<1>3. QED
  BY <1>1, <1>2

(* What the debug information says *)
LEMMA TargetIs ==
  ASSUME MemOK
  PROVE  /\ Target.end \in Orders /\ DOMAIN mem \subseteq 0 .. Wide - 1
         /\ Target.known \subseteq DOMAIN Decl
         /\ Target.objects \subseteq [type : TypeIds, addr : 0 .. Wide - 1]
         /\ Target.roots \subseteq Target.objects
         /\ \A f \in Target.functions : f.record \in TypeIds \cup {<<>>}
         /\ \A r \in Target.registers : r.as \in Target.objects
BY ImagesAssumption DEF MemOK, Target

(* The type of a pointer to a function *)
LEMMA WordsAre ==
  ASSUME NEW a \in 0 .. Wide - 1
  PROVE  Near(Word(a), 0) /\ Word(a) \in Values
<1>1. <<"fn">> \in TypeIds
  BY TypesAssumption, NamesAreTypes
<1>2. QED
  BY <1>1, PointerTypes, InMemoryNear DEF Word, Near, IsValue

(* A dynamic type is a pointer type and an address *)
LEMMA DynamicPlace ==
  ASSUME MemOK, DynOK, NEW a \in 0 .. Wide - 1, NEW t \in TypeIds, Kind(t) = "pointer"
  PROVE  IsPlace(DynamicType(a, t))
<1> DEFINE vt == AsUint[Word(a)]
           syms == {s \in SymbolsAt(vt) : s.vtable}
           recs == UNION {RecordsOf(s, vt) : s \in syms}
           ok == /\ IsDynamic(Base(t)) /\ HasUint[Word(a)] /\ recs # {}
                 /\ vt >= 2 * PtrSize /\ HasUint[TopOffset(vt)]
           rec == CHOOSE r \in recs : TRUE
<1>1. DynamicType(a, t) = IF ok THEN [type |-> Pointer(rec), addr |-> Start(a, vt)]
                          ELSE FromContext(a, t)
  BY Zenon DEF DynamicType
<1>2. CASE ok
  <2>1. rec \in recs
    <3>1. recs # {}
      BY <1>2
    <3> HIDE DEF recs
    <3>2. QED
      BY Zenon, <3>1
  <2>2. PICK s : rec \in RecordsOf(s, vt)
    <3> HIDE DEF rec, syms, vt
    <3>1. QED
      BY <2>1
  <2> HIDE DEF rec, recs, syms
  <2>3. rec \in TypeIds
    <3>1. CASE s.of \in Target.known
      <4>1. s.of \in DOMAIN Decl /\ rec = <<s.of>>
        BY <2>2, <3>1, TargetIs DEF RecordsOf
      <4>2. QED
        BY <4>1, NamesAreTypes
    <3>2. CASE s.of \notin Target.known
      <4>1. PICK f \in FirstFunctions(vt) : f.record # <<>> /\ rec = f.record
        BY <2>2, <3>2 DEF RecordsOf
      <4>2. f \in Target.functions
        BY <4>1 DEF FirstFunctions, ObjectsAt
      <4>3. f.record \in TypeIds \cup {<<>>}
        BY <4>2, TargetIs
      <4>4. QED
        BY <4>1, <4>3
    <3>3. QED
      BY <3>1, <3>2
  <2>4. MaxCalls \in Nat /\ 0 \in 0 .. MaxCalls
    BY FarIs
  <2>5. vt \in 0 .. Wide - 1 /\ vt \in Nat
    <3>1. HasUint[Word(a)] /\ Near(Word(a), 0)
      BY <1>2, WordsAre
    <3>2. QED
      BY <2>4, <3>1, UintIs
  <2> HIDE DEF vt
  <2>6. vt - 2 * PtrSize \in 0 .. Wide - 1
    <3>1. PtrSize \in Nat /\ Wide \in Nat /\ vt >= 2 * PtrSize
      BY <1>2, SizesAssumption, Radices
    <3>2. QED
      BY <2>5, <3>1
  <2>7. AsInt(TopOffset(vt)) \in Int
    <3>1. HasUint[TopOffset(vt)] /\ Near(TopOffset(vt), 0)
      BY <1>2, <2>6, WordsAre DEF TopOffset
    <3>2. QED
      BY <2>4, <3>1, UintIs
  <2>8. Start(a, vt) \in 0 .. Wide - 1
    <3>1. a + AsInt(TopOffset(vt)) \in Int /\ Wide \in Nat \ {0}
      BY <2>7, Radices
    <3>2. QED
      BY <3>1, IntDivided DEF Start
  <2>9. DynamicType(a, t).type = Pointer(rec) /\ DynamicType(a, t).addr = Start(a, vt)
    BY <1>1, <1>2
  <2>10. QED
    BY <2>3, <2>8, <2>9, PointerTypes, PointersAre DEF IsPlace
<1>3. CASE ~ok
  <2> HIDE DEF ok
  <2>1. QED
    BY <1>1, <1>3, RegisteredPlace
<1>4. QED
  BY <1>2, <1>3

(* What a pointer points to *)
LEMMA DereferenceNear ==
  ASSUME MemOK, DynOK, NEW n \in 0 .. MaxCalls, NEW v, Near(v, n), CanDereference(v),
         NEW resolve, NEW m
  PROVE  Near(Dereference(v, resolve), m)
<1>1. v.type \in TypeIds /\ Kind(v.type) = "pointer" /\ AsUint[v] \in 0 .. Wide - 1
      /\ Base(v.type) \in TypeIds
  <2>1. v \in Values /\ HasUint[v] /\ Kind(v.type) = "pointer"
    BY DEF Near, IsValue, CanDereference, IsPointer
  <2>2. v.type \in TypeIds
    BY <2>1, ValueParts
  <2>3. QED
    BY <2>1, <2>2, UintIs, KindsAre
<1>2. CASE resolve /\ Kind(Base(v.type)) = "record"
  <2> DEFINE d == DynamicType(AsUint[v], Type(v))
  <2>1. Type(v) \in TypeIds /\ Kind(Type(v)) = "pointer"
    BY <1>1, Untyped, UntypedKinds DEF Type
  <2>2. IsPlace(d)
    BY <1>1, <2>1, DynamicPlace
  <2>3. Dereference(v, resolve) = InMemory(Base(d.type), d.addr)
    BY Zenon, <1>2 DEF Dereference
  <2> HIDE DEF d
  <2>4. Base(d.type) \in TypeIds /\ d.addr \in 0 .. Wide - 1
    BY <2>2, KindsAre DEF IsPlace
  <2>5. QED
    BY <2>3, <2>4, InMemoryNear
<1>3. CASE ~(resolve /\ Kind(Base(v.type)) = "record")
  <2>1. Dereference(v, resolve) = InMemory(Base(v.type), AsUint[v])
    BY Zenon, <1>3 DEF Dereference
  <2>2. QED
    BY <1>1, <2>1, InMemoryNear
<1>4. QED
  BY <1>2, <1>3

-----------------------------------------------------------------------------
(* The invariant.  What is shared is the bytes of two temporaries. *)

SharedOK == shared => ~HasAddress(val) /\ ~HasAddress(old) /\ val.bytes = old.bytes

IInv ==
    /\ MemOK /\ DynOK
    /\ calls \in 0 .. MaxCalls
    /\ Near(val, calls) /\ Near(old, calls)
    /\ SharedOK

(* A value is no less near later *)
LEMMA NearLater ==
  ASSUME NEW n \in 0 .. MaxCalls - 1, NEW v, Near(v, n)
  PROVE  Near(v, n + 1)
<1>1. v \in Values /\ v.offset \in Nat
  BY ValueParts DEF Near, IsValue
<1>2. MaxCalls \in Nat /\ n \in 0 .. MaxCalls + 2 /\ Far \in Nat
  BY FarIs
<1>3. n * Far \in Nat /\ (n + 1) * Far = n * Far + Far
  BY <1>2, FarIs
<1> DEFINE x == n * Far
           y == (n + 1) * Far
<1>4. x \in Nat /\ y = x + Far
  BY <1>3
<1> HIDE DEF x, y
<1>5. v.offset <= x => v.offset <= y
  BY <1>1, <1>2, <1>4
<1>6. QED
  BY <1>5 DEF Near, x, y

(* Each call but a write leaves the debuggee as it is *)
LEMMA DebuggeeKept ==
  ASSUME UNCHANGED <<image, mem>>, MemOK
  PROVE  MemOK'
BY DEF MemOK

(* A call that obtains a value *)
LEMMA ObtainKeeps ==
  ASSUME IInv, Called, UNCHANGED <<debuggee, old>>,
         \/ UNCHANGED <<val, shared>>
         \/ /\ Near(val', calls + 1)
            /\ shared' => shared /\ (HasAddress(val') <=> HasAddress(val)) /\ val'.bytes = val.bytes
  PROVE  IInv'
<1>1. /\ calls \in 0 .. MaxCalls - 1 /\ calls' = calls + 1 /\ calls' \in 0 .. MaxCalls
      /\ UNCHANGED <<image, mem, dynamic, old>>
  BY FarIs DEF IInv, Called, debuggee
<1>2. MemOK' /\ DynOK'
  BY <1>1 DEF IInv, MemOK, DynOK
<1>3. Near(old, calls') /\ Near(val, calls')
  BY <1>1, NearLater DEF IInv
<1>4. Near(val', calls')
  BY <1>1, <1>3
<1>5. SharedOK'
  BY <1>1 DEF IInv, SharedOK
<1>6. QED
  BY <1>1, <1>2, <1>3, <1>4, <1>5 DEF IInv

(* What Obtain does *)
LEMMA Obtained ==
  ASSUME NEW STATE can, NEW STATE v, NEW STATE keeps, NEW STATE fair, Obtain(can, v, keeps, fair)
  PROVE  /\ Called /\ UNCHANGED <<debuggee, old>>
         /\ \/ UNCHANGED <<val, shared, honest>> /\ failed'
            \/ can /\ val' = v /\ shared' = (shared /\ keeps) /\ honest' = (honest /\ fair) /\ ~failed'
BY DEF Obtain, Throw

(* The client's value, before a call *)
LEMMA ValIs ==
  ASSUME IInv
  PROVE  /\ val \in Values /\ val.type \in TypeIds /\ MemOK /\ DynOK /\ Near(val, calls)
         /\ Type(val) \in TypeIds
         /\ Called => calls \in 0 .. MaxCalls - 1 /\ calls \in 0 .. MaxCalls /\ calls + 1 \in Nat
<1>1. val \in Values /\ MemOK /\ DynOK /\ Near(val, calls)
  BY DEF IInv, Near, IsValue
<1>2. val.type \in TypeIds
  BY <1>1, ValueParts
<1>3. Type(val) \in TypeIds
  BY <1>2, Untyped DEF Type
<1>4. Called => calls \in 0 .. MaxCalls - 1 /\ calls \in 0 .. MaxCalls /\ calls + 1 \in Nat
  BY FarIs DEF IInv, Called
<1>5. QED
  BY <1>1, <1>2, <1>3, <1>4

(* Navigating from a value to what is in it *)
LEMMA FieldKeeps == \A i : IInv /\ GoToField(i) => IInv'
<1> SUFFICES ASSUME IInv, NEW i, GoToField(i) PROVE IInv'
  OBVIOUS
<1> DEFINE f == Record(val.type).fields[i]
<1>1. /\ Called /\ UNCHANGED <<debuggee, old>>
      /\ \/ UNCHANGED <<val, shared>>
         \/ CanFieldAt(val, i) /\ val' = CreateField(val, f) /\ shared' = (shared /\ IsWhole(f))
  BY DEF GoToField, FieldAt, Obtain, Throw
<1>2. ASSUME CanFieldAt(val, i)
      PROVE  /\ Near(CreateField(val, f), calls + 1)
             /\ IsWhole(f) => (HasAddress(CreateField(val, f)) <=> HasAddress(val))
                              /\ CreateField(val, f).bytes = val.bytes
  <2>1. FieldFacts(f)
    BY <1>2, ValIs, MembersAre DEF CanFieldAt, IsRecord
  <2> HIDE DEF f
  <2>2. QED
    BY <1>1, <2>1, ValIs, FieldNear
<1> HIDE DEF f
<1>3. QED
  BY <1>1, <1>2, ObtainKeeps

(* To a member by name *)
LEMMA NamedKeeps == \A nm : IInv /\ GoToNamed(nm) => IInv'
<1> SUFFICES ASSUME IInv, NEW nm, GoToNamed(nm) PROVE IInv'
  OBVIOUS
<1> DEFINE f == TheField(val.type, nm)
<1>1. /\ Called /\ UNCHANGED <<debuggee, old>>
      /\ \/ UNCHANGED <<val, shared>>
         \/ CanAllField(val, nm) /\ val' = CreateField(val, f) /\ shared' = (shared /\ IsWhole(f))
  BY DEF GoToNamed, AllField, Obtain, Throw
<1>2. ASSUME CanAllField(val, nm)
      PROVE  /\ Near(CreateField(val, f), calls + 1)
             /\ IsWhole(f) => (HasAddress(CreateField(val, f)) <=> HasAddress(val))
                              /\ CreateField(val, f).bytes = val.bytes
  <2>1. f \in Found(val.type, nm)
    BY Zenon, <1>2 DEF CanAllField, TheField
  <2> HIDE DEF f
  <2>2. FieldFacts(f)
    BY <1>2, <2>1, ValIs, MembersAre DEF CanAllField, IsRecord
  <2>3. QED
    BY <1>1, <2>2, ValIs, FieldNear
<1> HIDE DEF f
<1>3. QED
  BY <1>1, <1>2, ObtainKeeps

(* To a record's own member by name, which always throws *)
LEMMA OwnThrows == \A nm : GoToOwn(nm) => Called /\ UNCHANGED <<debuggee, old, val, shared, honest>>
BY DEF GoToOwn, CanField, Obtain, Throw

LEMMA OwnKeeps == \A nm : IInv /\ GoToOwn(nm) => IInv'
BY OwnThrows, ObtainKeeps

(* To a base *)
LEMMA BaseKeeps == \A i : IInv /\ GoToBase(i) => IInv'
<1> SUFFICES ASSUME IInv, NEW i, GoToBase(i) PROVE IInv'
  OBVIOUS
<1> DEFINE b == Record(val.type).bases[i]
           v == Moved(val, b.type, b.offset \div ByteBits)
<1>1. /\ Called /\ UNCHANGED <<debuggee, old>>
      /\ \/ UNCHANGED <<val, shared>>
         \/ CanBaseAt(val, i) /\ val' = v /\ shared' = (shared /\ TRUE)
  BY Obtained DEF GoToBase, BaseAt
<1>2. ASSUME CanBaseAt(val, i)
      PROVE  Near(v, calls + 1) /\ (HasAddress(v) <=> HasAddress(val)) /\ v.bytes = val.bytes
  <2>1. b.type \in TypeIds /\ b.offset \in 0 .. Far
    BY <1>2, ValIs, MembersAre DEF CanBaseAt, IsRecord
  <2> HIDE DEF b
  <2>2. b.offset \in Nat /\ b.offset <= Far /\ Far \in Nat
    BY <2>1, FarIs
  <2>3. b.offset \div ByteBits \in 0 .. Far
    BY <2>2, BytesOf
  <2>4. QED
    BY <1>1, <2>1, <2>3, ValIs, MovedNear
<1> HIDE DEF v
<1>3. QED
  BY <1>1, <1>2, ObtainKeeps

(* To an element, also one beyond the end *)
LEMMA ElementKeeps == \A i \in 0 .. 3 : IInv /\ GoToElement(i) => IInv'
<1> SUFFICES ASSUME IInv, NEW i \in 0 .. 3, GoToElement(i) PROVE IInv'
  OBVIOUS
<1> DEFINE t == Record(val.type).base
           v == Moved(val, t, Size(t) * i)
<1>1. /\ Called /\ UNCHANGED <<debuggee, old>>
      /\ \/ UNCHANGED <<val, shared>>
         \/ IsArray(val) /\ val' = v /\ shared' = (shared /\ TRUE)
  BY Obtained DEF GoToElement, ElementAt
<1>2. ASSUME IsArray(val)
      PROVE  Near(v, calls + 1) /\ (HasAddress(v) <=> HasAddress(val)) /\ v.bytes = val.bytes
  <2>1. t \in TypeIds
    <3>1. Kind(val.type) # "pointer" /\ Kind(val.type) \in {"array", "vector"}
      BY <1>2 DEF IsArray
    <3>2. PICK n \in DOMAIN Decl : Record(val.type) = Decl[n]
      BY <3>1, ValIs, KindsAre
    <3>3. Decl[n].kind \in {"array", "vector"}
      BY <3>1, <3>2, ValIs, KindsAre
    <3>4. QED
      BY <3>2, <3>3, TypesAssumption
  <2> HIDE DEF t
  <2>2. Size(t) \in Nat /\ 3 * Size(t) <= Far /\ Far \in Nat
    BY <2>1, SizesAre, FarIs
  <2>3. Size(t) * i \in 0 .. Far
    <3>1. i \in {0, 1, 2, 3}
      OBVIOUS
    <3>2. QED
      BY <2>2, <3>1
  <2>4. QED
    BY <1>1, <2>1, <2>3, ValIs, MovedNear
<1> HIDE DEF v
<1>3. QED
  BY <1>1, <1>2, ObtainKeeps

(* To the same bytes with another type *)
LEMMA CastKeeps == \A t \in Casts : IInv /\ GoToCast(t) => IInv'
<1> SUFFICES ASSUME IInv, NEW t \in Casts, GoToCast(t) PROVE IInv'
  OBVIOUS
<1> DEFINE v == Moved(val, t, 0)
<1>1. /\ Called /\ UNCHANGED <<debuggee, old>>
      /\ \/ UNCHANGED <<val, shared>>
         \/ val' = v /\ shared' = (shared /\ TRUE)
  BY Obtained DEF GoToCast, Cast
<1>2. Near(v, calls + 1) /\ (HasAddress(v) <=> HasAddress(val)) /\ v.bytes = val.bytes
  <2>1. t \in TypeIds /\ 0 \in 0 .. Far
    BY TypesAssumption, FarIs
  <2>2. QED
    BY <1>1, <2>1, ValIs, MovedNear
<1> HIDE DEF v
<1>3. QED
  BY <1>1, <1>2, ObtainKeeps

(* A call that obtains a value with a storage of its own, or in memory *)
LEMMA FreshKeeps ==
  ASSUME IInv, NEW STATE can, NEW STATE v, NEW STATE fair, Obtain(can, v, FALSE, fair),
         Called /\ can => Near(v, calls + 1)
  PROVE  IInv'
<1>1. /\ Called /\ UNCHANGED <<debuggee, old>>
      /\ \/ UNCHANGED <<val, shared>>
         \/ can /\ val' = v /\ shared' = (shared /\ FALSE)
  BY DEF Obtain, Throw
<1>2. QED
  BY <1>1, ObtainKeeps

(* A value's pointer *)
LEMMA PtrKeeps == IInv /\ TakePtr => IInv'
<1> SUFFICES ASSUME IInv, TakePtr PROVE IInv'
  OBVIOUS
<1>1. Pointer(Type(val)) \in TypeIds /\ val.offset \in Int
  BY ValIs, ValueParts, PointerTypes
<1>2. Called => Near(Ptr(val), calls + 1)
  BY <1>1, ValIs, NumberInIs DEF Ptr
<1>3. QED
  BY <1>2, FreshKeeps DEF TakePtr

(* The pointer to a member of a value *)
LEMMA FieldPointerKeeps == \A nm : IInv /\ TakeFieldPointer(nm) => IInv'
<1> SUFFICES ASSUME IInv, NEW nm, TakeFieldPointer(nm) PROVE IInv'
  OBVIOUS
<1> DEFINE f == TheField(val.type, nm)
<1>1. ASSUME Called, CanFieldPointer(val, nm) PROVE Near(FieldPointer(val, nm), calls + 1)
  <2>1. f \in Found(val.type, nm)
    BY Zenon, <1>1 DEF CanFieldPointer, TheField
  <2>2. FieldPointer(val, nm) = NumberIn(Pointer(f.type), val.offset + f.offset \div ByteBits)
    BY Zenon DEF FieldPointer
  <2> HIDE DEF f
  <2>3. FieldFacts(f)
    BY <1>1, <2>1, ValIs, MembersAre DEF CanFieldPointer, IsRecord
  <2>4. f.offset \in Nat /\ f.type \in TypeIds
    BY <2>3, FarIs DEF FieldFacts
  <2>5. val.offset + (f.offset \div ByteBits) \in Int
    BY <2>4, BytesOf, ValIs, ValueParts
  <2>6. QED
    BY <1>1, <2>2, <2>4, <2>5, ValIs, PointerTypes, NumberInIs
<1>2. QED
  BY <1>1, FreshKeeps DEF TakeFieldPointer

(* The pointer to a member function *)
LEMMA FunctionKeeps == \A nm : IInv /\ TakeFunction(nm) => IInv'
<1> SUFFICES ASSUME IInv, NEW nm, TakeFunction(nm) PROVE IInv'
  OBVIOUS
<1>1. ASSUME Called, CanMemFunPtr(val, nm) PROVE Near(MemFunPtr(val, nm), calls + 1)
  <2>1. Record(val.type).functions[nm] \in Int
    BY <1>1, ValIs, RecordIs DEF CanMemFunPtr, IsRecord
  <2>2. Pointer(<<"fn">>) \in TypeIds
    BY TypesAssumption, NamesAreTypes, PointerTypes
  <2>3. QED
    BY <1>1, <2>1, <2>2, ValIs, NumberInIs DEF MemFunPtr
<1>2. QED
  BY <1>1, FreshKeeps DEF TakeFunction

(* A pointer's sum *)
LEMMA StepKeeps == \A n \in Steps : IInv /\ StepPointer(n) => IInv'
<1> SUFFICES ASSUME IInv, NEW n \in Steps, StepPointer(n) PROVE IInv'
  OBVIOUS
<1>1. ASSUME Called, CanAdd(val) PROVE Near(Add(val, n), calls + 1)
  <2>1. Kind(val.type) = "pointer" /\ HasUint[val] /\ Base(val.type) \in TypeIds
    BY <1>1, ValIs, KindsAre DEF CanAdd, IsPointer
  <2>2. AsUint[val] \in Nat /\ Size(Base(val.type)) \in Nat /\ n \in Int /\ Wide \in Nat \ {0}
    BY <1>1, <2>1, ValIs, UintIs, SizesAre, SizesAssumption, Radices
  <2>3. (AsUint[val] + Size(Base(val.type)) * n) \in Int
    BY <2>2
  <2>4. (AsUint[val] + Size(Base(val.type)) * n) % Wide \in Int
    BY <2>2, <2>3, IntDivided
  <2>5. QED
    BY <1>1, <2>4, ValIs, NumberInIs DEF Add
<1>2. QED
  BY <1>1, FreshKeeps DEF StepPointer

(* What a pointer points to *)
LEMMA FollowKeeps == \A resolve : IInv /\ Follow(resolve) => IInv'
<1> SUFFICES ASSUME IInv, NEW resolve, Follow(resolve) PROVE IInv'
  OBVIOUS
<1>1. ASSUME Called, CanDereference(val) PROVE Near(Dereference(val, resolve), calls + 1)
  BY <1>1, ValIs, DereferenceNear
<1>2. QED
  BY <1>1, FreshKeeps DEF Follow

(* A value that is kept *)
LEMMA KeepKeeps == IInv /\ Keep => IInv'
<1> SUFFICES ASSUME IInv, Keep PROVE IInv'
  OBVIOUS
<1>1. /\ calls \in 0 .. MaxCalls - 1 /\ calls' = calls + 1 /\ calls' \in 0 .. MaxCalls
      /\ UNCHANGED <<image, mem, dynamic, val>> /\ old' = val /\ shared' = ~HasAddress(val)
  BY FarIs DEF IInv, Called, debuggee, Keep
<1>2. MemOK' /\ DynOK'
  BY <1>1 DEF IInv, MemOK, DynOK
<1>3. Near(val, calls')
  BY <1>1, NearLater DEF IInv
<1>4. SharedOK'
  BY <1>1 DEF SharedOK
<1>5. QED
  BY <1>1, <1>2, <1>3, <1>4 DEF IInv

-----------------------------------------------------------------------------
(* Writes *)

(* Bytes over bytes are bytes *)
LEMMA StoredIs ==
  ASSUME IInv, NEW STATE s, s \in Seq(Bytes), NEW STATE o, o \in Nat, Stored(s, o), Called
  PROVE  /\ HasAddress(val) =>
                /\ mem' \in [DOMAIN mem -> Bytes] /\ UNCHANGED <<val, old>>
                /\ \A a \in DOMAIN mem :
                        mem'[a] = IF a \in At(val, o) .. At(val, o) + Len(s) - 1
                                  THEN s[a - At(val, o) + 1] ELSE mem[a]
         /\ ~HasAddress(val) =>
                /\ mem' = mem /\ val' \in Values /\ val'.bytes \in Seq(Bytes)
                /\ Len(val'.bytes) = Len(val.bytes)
                /\ val'.type = val.type /\ val'.store = val.store /\ val'.offset = val.offset
                /\ \A k \in 1 .. Len(val.bytes) :
                        val'.bytes[k] = IF k \in At(val, o) + 1 .. At(val, o) + Len(s)
                                        THEN s[k - At(val, o)] ELSE val.bytes[k]
                /\ shared => /\ old' \in Values /\ old'.bytes = val'.bytes
                             /\ old'.store = old.store /\ old'.offset = old.offset
                /\ ~shared => old' = old
<1> DEFINE at == At(val, o)
           new == [k \in DOMAIN val.bytes |-> IF k \in at + 1 .. at + Len(s)
                                              THEN s[k - at] ELSE val.bytes[k]]
<1>1. at \in Int /\ at \in Nat /\ Len(s) \in Nat /\ \A k \in 1 .. Len(s) : s[k] \in Bytes
  <2>1. val \in Values /\ o \in Int /\ Wide \in Nat
    BY ValIs, Radices
  <2>2. at \in 0 .. Wide - 1
    BY <2>1, AtIs
  <2>3. QED
    BY <2>1, <2>2
<1>2. CASE HasAddress(val)
  <2>1. mem' = [a \in DOMAIN mem |-> IF a \in at .. at + Len(s) - 1 THEN s[a - at + 1] ELSE mem[a]]
        /\ UNCHANGED <<val, old>>
    BY <1>2 DEF Stored
  <2>2. DOMAIN mem \subseteq Int /\ \A a \in DOMAIN mem : mem[a] \in Bytes
    BY ValIs, TargetIs DEF MemOK
  <2> HIDE DEF at
  <2>3. ASSUME NEW a \in DOMAIN mem, a \in at .. at + Len(s) - 1 PROVE s[a - at + 1] \in Bytes
    BY <1>1, <2>2, <2>3
  <2>4. mem' \in [DOMAIN mem -> Bytes]
    BY <2>1, <2>2, <2>3
  <2>5. \A a \in DOMAIN mem : mem'[a] = IF a \in at .. at + Len(s) - 1
                                       THEN s[a - at + 1] ELSE mem[a]
    BY <2>1
  <2>6. QED
    BY <1>2, <2>1, <2>4, <2>5 DEF at
<1>3. CASE ~HasAddress(val)
  <2>1. /\ mem' = mem /\ val' = [val EXCEPT !.bytes = new]
        /\ old' = IF shared THEN [old EXCEPT !.bytes = new] ELSE old
    BY <1>3 DEF Stored
  <2>2. val.bytes \in Seq(Bytes) /\ DOMAIN val.bytes = 1 .. Len(val.bytes) /\ Len(val.bytes) \in Nat
    BY ValIs, ValueParts
  <2> HIDE DEF at
  <2>3. ASSUME NEW k \in 1 .. Len(val.bytes) PROVE new[k] \in Bytes
    <3>1. CASE k \in at + 1 .. at + Len(s)
      <4>1. k - at \in 1 .. Len(s)
        BY <1>1, <3>1
      <4>2. QED
        BY <1>1, <2>2, <3>1, <4>1
    <3>2. CASE k \notin at + 1 .. at + Len(s)
      BY <2>2, <3>2
    <3>3. QED
      BY <3>1, <3>2
  <2>4. new \in Seq(Bytes) /\ Len(new) = Len(val.bytes)
    <3>1. new \in [1 .. Len(val.bytes) -> Bytes]
      BY <2>2, <2>3
    <3> HIDE DEF new
    <3>2. QED
      BY <2>2, <3>1
  <2>5. \A k \in 1 .. Len(val.bytes) : new[k] = IF k \in at + 1 .. at + Len(s)
                                                THEN s[k - at] ELSE val.bytes[k]
    BY <2>2
  <2> HIDE DEF new
  <2>6. /\ val' \in Values /\ val'.bytes = new
        /\ val'.type = val.type /\ val'.store = val.store /\ val'.offset = val.offset
    BY <2>1, <2>4, ValIs, ValueParts DEF Values, Bytes
  <2>7. shared => /\ old' \in Values /\ old'.bytes = new
                  /\ old'.store = old.store /\ old'.offset = old.offset
    <3>1. old \in Values
      BY DEF IInv, Near, IsValue
    <3>2. QED
      BY <2>1, <2>4, <3>1, ValueParts DEF Values, Bytes
  <2>8. QED
    BY <1>3, <2>1, <2>4, <2>5, <2>6, <2>7 DEF at
<1>4. QED
  BY <1>2, <1>3

(* A write keeps the invariant: who shares the storage sees the write *)
LEMMA StoreKeeps ==
  ASSUME IInv, NEW STATE can, NEW STATE s, NEW STATE o, Store(can, s, o),
         Called /\ can => s \in Seq(Bytes) /\ o \in Nat
  PROVE  IInv'
<1>1. /\ Called /\ UNCHANGED <<image, dynamic, shared>>
      /\ (can /\ Stored(s, o)) \/ UNCHANGED <<mem, val, old>>
  BY DEF Store
<1>2. calls \in 0 .. MaxCalls - 1 /\ calls' = calls + 1 /\ calls' \in 0 .. MaxCalls
  BY <1>1, FarIs DEF IInv, Called
<1>3. DynOK'
  BY <1>1 DEF IInv, DynOK
<1>4. Near(val, calls') /\ Near(old, calls')
  BY <1>2, NearLater DEF IInv
<1>5. CASE UNCHANGED <<mem, val, old>>
  <2>1. MemOK' /\ SharedOK'
    BY <1>1, <1>5 DEF IInv, MemOK, SharedOK
  <2>2. QED
    BY <1>2, <1>3, <1>4, <1>5, <2>1 DEF IInv
<1>6. CASE can /\ Stored(s, o)
  <2>1. s \in Seq(Bytes) /\ o \in Nat
    BY <1>1, <1>6
  <2>2. /\ HasAddress(val) => mem' \in [DOMAIN mem -> Bytes] /\ UNCHANGED <<val, old>>
        /\ ~HasAddress(val) =>
                /\ mem' = mem /\ val' \in Values
                /\ val'.store = val.store /\ val'.offset = val.offset
                /\ shared => /\ old' \in Values /\ old'.bytes = val'.bytes
                             /\ old'.store = old.store /\ old'.offset = old.offset
                /\ ~shared => old' = old
    BY <1>1, <1>6, <2>1, StoredIs
  <2>3. MemOK'
    BY <1>1, <2>2 DEF IInv, MemOK, Bytes
  <2>4. SharedOK'
    BY <1>1, <2>2 DEF IInv, SharedOK, HasAddress
  <2>5. Near(val', calls')
    BY <1>4, <2>2 DEF Near, IsValue, HasAddress
  <2>6. Near(old', calls')
    BY <1>4, <2>2 DEF Near, IsValue, HasAddress, IInv, SharedOK
  <2>7. QED
    BY <1>2, <1>3, <2>3, <2>4, <2>5, <2>6 DEF IInv
<1>7. QED
  BY <1>1, <1>5, <1>6

(* The bytes of a number, as the debuggee stores them *)
LEMMA BytesToWrite ==
  ASSUME NEW n \in Int, NEW sz \in Nat
  PROVE  InHostOrder(Digits(n, sz)) \in Seq(Bytes) /\ Len(InHostOrder(Digits(n, sz))) = sz
BY DigitsAre, OrdersAgree

(* Numbers *)
LEMMA WriteNumberKeeps == \A n \in Numbers : IInv /\ WriteNumber(n) => IInv'
<1> SUFFICES ASSUME IInv, NEW n \in Numbers, WriteNumber(n) PROVE IInv'
  OBVIOUS
<1>1. n \in Int /\ Size(val.type) \in Nat
  BY SizesAssumption, ValIs, SizesAre
<1>2. InHostOrder(Digits(n, Size(val.type))) \in Seq(Bytes) /\ 0 \in Nat
  BY <1>1, BytesToWrite
<1>3. QED
  BY <1>2, StoreKeeps DEF WriteNumber

(* Truth values *)
LEMMA WriteBoolKeeps == \A b \in BOOLEAN : IInv /\ WriteBool(b) => IInv'
<1> SUFFICES ASSUME IInv, NEW b \in BOOLEAN, WriteBool(b) PROVE IInv'
  OBVIOUS
<1> DEFINE n == IF b THEN 1 ELSE 0
<1>1. n \in Int /\ Size(val.type) \in Nat
  BY ValIs, SizesAre
<1>2. Store(Kind(val.type) = "bool" /\ HasUint[val], InHostOrder(Digits(n, Size(val.type))), 0)
  BY DEF WriteBool
<1> HIDE DEF n
<1>3. InHostOrder(Digits(n, Size(val.type))) \in Seq(Bytes) /\ 0 \in Nat
  BY <1>1, BytesToWrite
<1>4. QED
  BY <1>2, <1>3, StoreKeeps

(* Half of a size *)
LEMMA HalvesAre ==
  ASSUME IInv, NEW part
  PROVE  /\ Half(val) \in Nat /\ Half(val) \in 0 .. Far /\ PartOffset(val, part) \in Nat
         /\ PartOffset(val, part) \in 0 .. Far
<1>1. Size(val.type) \in Nat /\ 3 * Size(val.type) <= Far /\ Far \in Nat
  BY ValIs, SizesAre, FarIs
<1>2. Half(val) \in Nat /\ Half(val) \in 0 .. Far
  BY <1>1 DEF Half
<1>3. QED
  BY <1>1, <1>2 DEF PartOffset

(* Parts of complex numbers *)
LEMMA WritePartKeeps == \A n \in Numbers, part \in {"real", "img"} : IInv /\ WritePart(part, n) => IInv'
<1> SUFFICES ASSUME IInv, NEW n \in Numbers, NEW part \in {"real", "img"}, WritePart(part, n)
             PROVE  IInv'
  OBVIOUS
<1>1. n \in Int /\ Half(val) \in Nat /\ PartOffset(val, part) \in Nat
  BY SizesAssumption, HalvesAre
<1>2. InHostOrder(Digits(n, Half(val))) \in Seq(Bytes)
  BY <1>1, BytesToWrite
<1>3. QED
  BY <1>1, <1>2, StoreKeeps DEF WritePart

(* The bytes of another value *)
LEMMA AssignKeeps == IInv /\ Assign => IInv'
<1> SUFFICES ASSUME IInv, Assign PROVE IInv'
  OBVIOUS
<1> DEFINE sz == Size(val.type)
<1>1. Store(sz = Size(old.type) /\ CanRead(old, sz, 0) /\ CanRead(val, sz, 0), ReadRaw(old, sz, 0), 0)
  BY DEF Assign
<1>2. sz \in 0 .. Far /\ 0 \in 0 .. Far
  BY ValIs, SizesAre, FarIs
<1> HIDE DEF sz
<1>3. ASSUME Called, CanRead(old, sz, 0) PROVE ReadRaw(old, sz, 0) \in Seq(Bytes) /\ 0 \in Nat
  BY <1>2, <1>3, ValIs, RawBytes DEF IInv
<1>4. QED
  BY <1>1, <1>3, StoreKeeps

(* A type that an application registers *)
LEMMA RegisterKeeps ==
  \A a, t, b : IInv /\ t \in TypeIds /\ b \in 0 .. Wide - 1 /\ AddDynamicType(a, Pointer(t), b) => IInv'
<1> SUFFICES ASSUME IInv, NEW a, NEW t \in TypeIds, NEW b \in 0 .. Wide - 1,
                    AddDynamicType(a, Pointer(t), b)
             PROVE  IInv'
  OBVIOUS
<1>1. /\ Called /\ UNCHANGED <<image, mem, val, old, shared>>
      /\ dynamic' = IF a \in DOMAIN dynamic THEN dynamic
                    ELSE [x \in DOMAIN dynamic \cup {a} |->
                            IF x = a THEN [type |-> Pointer(t), addr |-> b] ELSE dynamic[x]]
  BY DEF AddDynamicType
<1>2. calls \in 0 .. MaxCalls - 1 /\ calls' = calls + 1 /\ calls' \in 0 .. MaxCalls
  BY <1>1, FarIs DEF IInv, Called
<1>3. DynOK'
  <2>1. ASSUME NEW x \in DOMAIN dynamic'
        PROVE  /\ \E u \in TypeIds : dynamic'[x].type = Pointer(u)
               /\ dynamic'[x].addr \in 0 .. Wide - 1
    <3>1. CASE x \in DOMAIN dynamic
      <4>1. dynamic'[x] = dynamic[x]
        BY <1>1, <3>1
      <4>2. QED
        BY <3>1, <4>1 DEF IInv, DynOK
    <3>2. CASE x \notin DOMAIN dynamic
      <4>1. dynamic'[x] = [type |-> Pointer(t), addr |-> b]
        BY <1>1, <2>1, <3>2
      <4>2. QED
        BY <4>1
    <3>3. QED
      BY <3>1, <3>2
  <2>2. QED
    BY <2>1 DEF DynOK
<1>4. MemOK' /\ SharedOK' /\ Near(val, calls') /\ Near(old, calls')
  BY <1>1, <1>2, NearLater DEF IInv, MemOK, SharedOK
<1>5. QED
  BY <1>1, <1>2, <1>3, <1>4 DEF IInv

-----------------------------------------------------------------------------
(* The types of the state *)

(* The invariant holds at the start *)
LEMMA InitIInv == Init => IInv
<1> SUFFICES ASSUME Init PROVE IInv
  OBVIOUS
<1>1. image \in DOMAIN Images /\ mem = Memories[image] /\ dynamic = [a \in {} |-> 0]
      /\ old = val /\ shared = FALSE /\ calls = 0
  BY DEF Init
<1>2. MemOK /\ DynOK /\ SharedOK
  BY <1>1, ImagesAssumption DEF MemOK, DynOK, SharedOK, Bytes
<1>3. PICK r \in Target.roots : val = InMemory(r.type, r.addr)
  BY DEF Init
<1>4. r.type \in TypeIds /\ r.addr \in 0 .. Wide - 1
  BY <1>2, TargetIs
<1>5. Near(val, 0) /\ Near(old, 0)
  BY <1>1, <1>3, <1>4, InMemoryNear
<1>6. QED
  BY <1>1, <1>2, <1>5, FarIs DEF IInv

(* Each call keeps it *)
LEMMA NextIInv == IInv /\ [Next]_vars => IInv'
<1> SUFFICES ASSUME IInv, [Next]_vars PROVE IInv'
  OBVIOUS
<1>1. CASE Navigate
  <2>1. CASE \E i \in Indices : GoToField(i) \/ GoToBase(i) \/ GoToElement(i - 1)
    <3>1. PICK i \in Indices : GoToField(i) \/ GoToBase(i) \/ GoToElement(i - 1)
      BY <2>1
    <3>2. i - 1 \in 0 .. 3
      BY DEF Indices
    <3>3. QED
      BY <3>1, <3>2, FieldKeeps, BaseKeeps, ElementKeeps
  <2>2. CASE \E nm \in Names : GoToNamed(nm) \/ GoToOwn(nm) \/ TakeFieldPointer(nm)
    BY <2>2, NamedKeeps, OwnKeeps, FieldPointerKeeps
  <2>3. CASE \E nm \in FunctionNames : TakeFunction(nm)
    BY <2>3, FunctionKeeps
  <2>4. CASE \E t \in Casts : GoToCast(t)
    BY <2>4, CastKeeps
  <2>5. CASE TakePtr
    BY <2>5, PtrKeeps
  <2>6. CASE \E n \in Steps : StepPointer(n)
    BY <2>6, StepKeeps
  <2>7. CASE \E resolve \in BOOLEAN : Follow(resolve)
    BY <2>7, FollowKeeps
  <2>8. CASE Keep
    BY <2>8, KeepKeeps
  <2>9. QED
    BY <1>1, <2>1, <2>2, <2>3, <2>4, <2>5, <2>6, <2>7, <2>8 DEF Navigate
<1>2. CASE Modify
  <2>1. CASE \E n \in Numbers : WriteNumber(n) \/ WritePart("real", n) \/ WritePart("img", n)
    BY <2>1, WriteNumberKeeps, WritePartKeeps
  <2>2. CASE \E b \in BOOLEAN : WriteBool(b)
    BY <2>2, WriteBoolKeeps
  <2>3. CASE Assign
    BY <2>3, AssignKeeps
  <2>4. QED
    BY <1>2, <2>1, <2>2, <2>3 DEF Modify
<1>3. CASE Register
  <2>1. PICK r \in Target.registers : AddDynamicType(r.addr, Pointer(r.as.type), r.as.addr)
    BY <1>3 DEF Register
  <2>2. r.as.type \in TypeIds /\ r.as.addr \in 0 .. Wide - 1
    BY ValIs, TargetIs
  <2>3. QED
    BY <2>1, <2>2, RegisterKeeps
<1>4. CASE UNCHANGED vars
  BY <1>4 DEF vars, debuggee, IInv, MemOK, DynOK, SharedOK
<1>5. QED
  BY <1>1, <1>2, <1>3, <1>4 DEF Next

(* Values stay what they are declared to be *)
LEMMA IInvTypes == IInv => TypeOK
<1> SUFFICES ASSUME IInv PROVE TypeOK
  OBVIOUS
<1>1. mem \in [DOMAIN Memories[image] -> 0 .. Radix - 1] /\ IsValue(val) /\ IsValue(old)
  BY DEF IInv, MemOK, Near, Bytes
<1>2. \A a \in DOMAIN dynamic : dynamic[a].type \in TypeIds
  BY PointerTypes DEF IInv, DynOK
<1>3. QED
  BY <1>1, <1>2 DEF TypeOK, IInv, SharedOK

(* Whatever a client does, what it has in hand is a value: of a declared   *)
(* type, at a place of the memory or in a temporary made of bytes, and two *)
(* values that share a temporary see the same bytes in it.                 *)
THEOREM ValueTypeCorrect == Spec => []TypeOK
<1>1. QED
  BY InitIInv, NextIInv, IInvTypes, PTL DEF Spec

-----------------------------------------------------------------------------
(* What is written is there to be read *)

(* Each byte of a number is stored where the debuggee's byte order has it *)
LEMMA ByteStored ==
  ASSUME MemOK, NEW n \in Int, NEW sz \in Nat, NEW j \in 0 .. sz - 1
  PROVE  InHostOrder(Digits(n, sz))[j + 1] = ByteOf(n % Power(Radix, sz), sz, j)
<1> DEFINE d == Digits(n, sz)
           low == LowFirst(d)
           m == n % Power(Radix, sz)
           place == IF Target.end = "little" THEN j ELSE sz - 1 - j
<1>1. /\ d \in Seq(Bytes) /\ Len(d) = sz
      /\ low = [k \in 1 .. sz |-> (m \div Power(Radix, k - 1)) % Radix]
  BY DigitsAre
<1>2. Target.end \in Orders /\ Host \in Orders
  BY TargetIs, SizesAssumption
<1>3. \A k \in 1 .. sz : Backwards(d)[k] = d[sz + 1 - k]
  <2> HIDE DEF d
  <2>1. QED
    BY <1>1, BackAndForth
<1>4. low = IF Host = "little" THEN d ELSE Backwards(d)
  BY DEF LowFirst
<1>5. InHostOrder(d) = IF Target.end = Host THEN d ELSE Backwards(d)
  BY DEF InHostOrder
<1>6. ByteOf(m, sz, j) = (m \div Power(Radix, place)) % Radix
  BY Zenon DEF ByteOf
<1>7. place + 1 \in 1 .. sz /\ (place + 1) - 1 = place
  OBVIOUS
<1>8. low[place + 1] = (m \div Power(Radix, place)) % Radix
  <2> DEFINE p == place
  <2>1. p + 1 \in 1 .. sz /\ (p + 1) - 1 = p
    BY <1>7
  <2> HIDE DEF m, d, low, p
  <2>2. low[p + 1] = (m \div Power(Radix, (p + 1) - 1)) % Radix
    BY <1>1, <2>1
  <2>3. low[p + 1] = (m \div Power(Radix, p)) % Radix
    BY <2>1, <2>2
  <2>4. QED
    BY <2>3 DEF p
<1>9. InHostOrder(d)[j + 1] = low[place + 1]
  <2> HIDE DEF d, low
  <2>1. j + 1 \in 1 .. sz /\ sz - j \in 1 .. sz /\ sz + 1 - (j + 1) = sz - j /\ sz + 1 - (sz - j) = j + 1
        /\ (sz - 1 - j) + 1 = sz - j
    OBVIOUS
  <2>2. Backwards(d)[j + 1] = d[sz - j] /\ Backwards(d)[sz - j] = d[j + 1]
    BY <1>3, <2>1
  <2>3. CASE Target.end = "little"
    BY <1>2, <1>4, <1>5, <2>2, <2>3 DEF Orders
  <2>4. CASE Target.end = "big"
    BY <1>2, <1>4, <1>5, <2>1, <2>2, <2>4 DEF Orders
  <2>5. QED
    BY <1>2, <2>3, <2>4 DEF Orders
<1>10. QED
  BY <1>6, <1>8, <1>9

(* A number that is written is read, and nothing else changes *)
LEMMA Written ==
  ASSUME IInv, Called, UNCHANGED image, NEW n \in Int, NEW sz \in WordSizes, NEW o \in 0 .. Far,
         CanRead(val, sz, o), NEW s, s = InHostOrder(Digits(n, sz)), Stored(s, o)
  PROVE  /\ ReadUnsigned(val, sz, o)' = n % Power(Radix, sz)
         /\ Landed(n, sz, o)
         /\ val'.type = val.type
<1> DEFINE first == At(val, o)
<1>1. sz \in Nat /\ sz \in 0 .. Far /\ o \in Nat /\ calls \in 0 .. MaxCalls /\ Near(val, calls)
  BY FarIs, ValIs DEF WordSizes, IInv
<1>2. s \in Seq(Bytes) /\ Len(s) = sz /\ InHostOrder(s) = Digits(n, sz)
  BY <1>1, BytesToWrite, DigitsAre, OrdersAgree
<1>3. /\ HasAddress(val) =>
                /\ UNCHANGED <<val, old>>
                /\ \A a \in DOMAIN mem :
                        mem'[a] = IF a \in first .. first + sz - 1
                                  THEN s[a - first + 1] ELSE mem[a]
      /\ ~HasAddress(val) =>
                /\ mem' = mem
                /\ val'.type = val.type /\ val'.store = val.store /\ val'.offset = val.offset
                /\ \A k \in 1 .. Len(val.bytes) :
                        val'.bytes[k] = IF k \in first + 1 .. first + sz
                                        THEN s[k - first] ELSE val.bytes[k]
  BY <1>1, <1>2, StoredIs
<1>4. val'.type = val.type /\ val'.store = val.store /\ val'.offset = val.offset
  BY <1>3
<1>5. first \in Int /\ first \in Nat
  BY <1>1, ValIs, AtIs
<1>6. DOMAIN mem \subseteq Int /\ DOMAIN val.bytes = 1 .. Len(val.bytes) /\ Len(val.bytes) \in Nat
  BY ValIs, ValueParts, TargetIs
<1>7. HasAddress(val) => \A k \in 0 .. sz - 1 : first + k \in DOMAIN mem
  BY DEF CanRead
<1>8. ~HasAddress(val) => first + sz <= Len(val.bytes)
  BY <1>1, TempReads
<1>9. At(val, o)' = first /\ (HasAddress(val)' <=> HasAddress(val))
  BY <1>4 DEF At, HasAddress
<1>10. ReadRaw(val, sz, o)' = [k \in 1 .. sz |-> IF HasAddress(val) THEN mem'[first + k - 1]
                                                ELSE val'.bytes[first + k]]
  BY <1>9 DEF ReadRaw
<1>11. \A j \in 0 .. sz - 1 : s[j + 1] = ByteOf(n % Power(Radix, sz), sz, j)
  BY <1>1, ValIs, ByteStored
<1> HIDE DEF first
<1>12. ASSUME NEW k \in 1 .. sz
       PROVE  (IF HasAddress(val) THEN mem'[first + k - 1] ELSE val'.bytes[first + k]) = s[k]
  <2>1. CASE HasAddress(val)
    <3>1. first + k - 1 \in DOMAIN mem
      <4>1. k - 1 \in 0 .. sz - 1 /\ first + (k - 1) = first + k - 1
        BY <1>1, <1>5
      <4>2. QED
        BY <1>7, <2>1, <4>1
    <3>2. first + k - 1 \in first .. first + sz - 1 /\ (first + k - 1) - first + 1 = k
      BY <1>1, <1>5
    <3>3. QED
      BY <1>3, <2>1, <3>1, <3>2
  <2>2. CASE ~HasAddress(val)
    <3>1. first + k \in 1 .. Len(val.bytes) /\ first + k \in first + 1 .. first + sz
          /\ (first + k) - first = k
      BY <1>1, <1>5, <1>6, <1>8, <2>2
    <3>2. QED
      BY <1>3, <2>2, <3>1
  <2>3. QED
    BY <2>1, <2>2
<1>13. ReadRaw(val, sz, o)' = s
  <2>1. s = [k \in 1 .. sz |-> s[k]]
    BY <1>2
  <2>2. QED
    BY <1>10, <1>12, <2>1
<1>14. ReadUnsigned(val, sz, o)' = Number(InHostOrder(s))
  <2>1. Target' = Target
    BY DEF Target
  <2>2. InHostOrder(s)' = InHostOrder(s)
    BY <2>1 DEF InHostOrder
  <2>3. ReadUnsigned(val, sz, o)' = Number((InHostOrder(ReadRaw(val, sz, o)))')
    BY DEF ReadUnsigned
  <2>4. (InHostOrder(ReadRaw(val, sz, o)))' = InHostOrder(s)'
    BY <1>13 DEF InHostOrder
  <2>5. QED
    BY <2>2, <2>3, <2>4
<1>15. ReadUnsigned(val, sz, o)' = n % Power(Radix, sz)
  BY <1>1, <1>2, <1>14, NumberOfDigits
<1>16. Landed(n, sz, o)
  <2> DEFINE New(at, byte) == IF at \in first .. first + sz - 1
                              THEN ByteOf(n % Power(Radix, sz), sz, at - first) ELSE byte
  <2>1. ASSUME HasAddress(val), NEW a \in DOMAIN mem PROVE mem'[a] = New(a, mem[a])
    <3>1. CASE a \in first .. first + sz - 1
      <4>1. a - first \in 0 .. sz - 1
        BY <1>1, <1>5, <1>6, <3>1
      <4>2. QED
        BY <1>3, <1>11, <2>1, <3>1, <4>1
    <3>2. CASE a \notin first .. first + sz - 1
      BY <1>3, <2>1, <3>2
    <3>3. QED
      BY <3>1, <3>2
  <2>2. ASSUME ~HasAddress(val), NEW k \in DOMAIN val.bytes
        PROVE  val'.bytes[k] = New(k - 1, val.bytes[k])
    <3>1. CASE k - 1 \in first .. first + sz - 1
      <4>1. k - 1 - first \in 0 .. sz - 1 /\ (k - 1 - first) + 1 = k - first
            /\ k \in first + 1 .. first + sz /\ k \in 1 .. Len(val.bytes)
        <5>1. k \in 1 .. Len(val.bytes) /\ k \in Int /\ first \in Int /\ sz \in Int
          BY <1>1, <1>5, <1>6, <2>2
        <5> HIDE DEF first
        <5>2. k - 1 - first \in 0 .. sz - 1 /\ (k - 1 - first) + 1 = k - first
              /\ k \in first + 1 .. first + sz
          BY <3>1, <5>1
        <5>3. QED
          BY <5>1, <5>2
      <4>2. val'.bytes[k] = s[k - first]
        BY <1>3, <2>2, <4>1
      <4>3. s[(k - 1 - first) + 1] = ByteOf(n % Power(Radix, sz), sz, k - 1 - first)
        BY <1>11, <4>1
      <4>4. QED
        BY <3>1, <4>1, <4>2, <4>3
    <3>2. CASE k - 1 \notin first .. first + sz - 1
      <4>1. k \notin first + 1 .. first + sz /\ k \in 1 .. Len(val.bytes)
        BY <1>1, <1>5, <1>6, <3>2
      <4>2. QED
        BY <1>3, <2>2, <3>2, <4>1
    <3>3. QED
      BY <3>1, <3>2
  <2>3. ~HasAddress(val) => mem' = mem
    BY <1>3
  <2>4. QED
    BY Zenon, <2>1, <2>2, <2>3 DEF Landed, first
<1>17. QED
  BY <1>4, <1>15, <1>16

(* A number that a call writes *)
LEMMA NumberWritten ==
  ASSUME IInv, NEW n \in Int, NEW can, NEW sz, NEW o \in 0 .. Far,
         can => IsNumber(val, sz, o),
         Store(can, InHostOrder(Digits(n, sz)), o), ~failed'
  PROVE  /\ ReadUnsigned(val, sz, o)' = n % Power(Radix, sz)
         /\ Landed(n, sz, o)
         /\ val'.type = val.type /\ IInv'
<1> DEFINE s == InHostOrder(Digits(n, sz))
<1>1. Called /\ UNCHANGED image /\ can /\ Stored(s, o)
  BY DEF Store
<1>2. sz \in WordSizes /\ CanRead(val, sz, o) /\ sz \in Nat /\ o \in Nat
  BY <1>1, FarIs DEF IsNumber, WordSizes
<1>3. s \in Seq(Bytes)
  BY <1>2, BytesToWrite
<1>4. IInv'
  BY <1>2, <1>3, StoreKeeps
<1>5. QED
  BY <1>1, <1>2, <1>4, Written

(* What a value reads after a call *)
LEMMA ReadLater ==
  ASSUME val' \in Values, val'.type = val.type
  PROVE  /\ \A sz : sz = Size(val.type) => AsUint[val]' = ReadUnsigned(val, sz, 0)'
         /\ AsInt(val)' = Signed(AsUint[val]', Size(val.type))
         /\ AsBool(val)' <=> AsUint[val]' # 0
         /\ \A part, sz, o : sz = Half(val) /\ o = PartOffset(val, part) =>
                ReadPart(val, part)' = ReadUnsigned(val, sz, o)'
<1>1. ASSUME NEW sz, sz = Size(val.type) PROVE AsUint[val]' = ReadUnsigned(val, sz, 0)'
  BY <1>1 DEF AsUint
<1>2. AsInt(val)' = Signed(AsUint[val]', Size(val.type))
  BY DEF AsInt
<1>3. AsBool(val)' <=> AsUint[val]' # 0
  BY DEF AsBool
<1>4. ASSUME NEW part, NEW sz, NEW o, sz = Half(val), o = PartOffset(val, part)
      PROVE  ReadPart(val, part)' = ReadUnsigned(val, sz, o)'
  BY <1>4 DEF ReadPart, Half, PartOffset
<1>5. QED
  BY <1>1, <1>2, <1>3, <1>4

(* Each kind of number, in its own place *)
LEMMA NumbersReadBack == \A n \in Numbers :
    IInv /\ WriteNumber(n) /\ ~failed' =>
        /\ AsUint[val]' = n % Power(Radix, Size(val.type))
        /\ AsInt(val)' = Signed(n % Power(Radix, Size(val.type)), Size(val.type))
        /\ Landed(n, Size(val.type), 0)
<1> SUFFICES ASSUME IInv, NEW n \in Numbers, WriteNumber(n), ~failed'
             PROVE  /\ AsUint[val]' = n % Power(Radix, Size(val.type))
                    /\ AsInt(val)' = Signed(n % Power(Radix, Size(val.type)), Size(val.type))
                    /\ Landed(n, Size(val.type), 0)
  OBVIOUS
<1> DEFINE sz == Size(val.type)
           can == HasUint[val]
<1>1. n \in Int /\ 0 \in 0 .. Far /\ Store(can, InHostOrder(Digits(n, sz)), 0)
  BY SizesAssumption, FarIs DEF WriteNumber
<1>2. can => IsNumber(val, sz, 0)
  BY ValIs DEF HasUint
<1> HIDE DEF can
<1>3. ReadUnsigned(val, sz, 0)' = n % Power(Radix, sz) /\ Landed(n, sz, 0) /\ val'.type = val.type /\ IInv'
  BY <1>1, <1>2, NumberWritten
<1>4. val' \in Values
  BY <1>3 DEF IInv, Near, IsValue
<1>5. QED
  BY <1>3, <1>4, ReadLater

(* Truth values *)
LEMMA BoolsReadBack == \A b \in BOOLEAN :
    IInv /\ WriteBool(b) /\ ~failed' => AsBool(val)' = b /\ Landed(IF b THEN 1 ELSE 0, Size(val.type), 0)
<1> SUFFICES ASSUME IInv, NEW b \in BOOLEAN, WriteBool(b), ~failed'
             PROVE  AsBool(val)' = b /\ Landed(IF b THEN 1 ELSE 0, Size(val.type), 0)
  OBVIOUS
<1> DEFINE sz == Size(val.type)
           can == Kind(val.type) = "bool" /\ HasUint[val]
           n == IF b THEN 1 ELSE 0
<1>1. n \in Int /\ 0 \in 0 .. Far /\ Store(can, InHostOrder(Digits(n, sz)), 0)
  BY FarIs DEF WriteBool
<1>2. can => IsNumber(val, sz, 0)
  BY ValIs DEF HasUint
<1>3. sz \in Nat \ {0}
  <2>1. can
    BY <1>1 DEF Store
  <2>2. QED
    BY <1>2, <2>1 DEF IsNumber
<1>4. n = (IF b THEN 1 ELSE 0)
  OBVIOUS
<1> HIDE DEF can, n
<1>5. ReadUnsigned(val, sz, 0)' = n % Power(Radix, sz) /\ Landed(n, sz, 0) /\ val'.type = val.type /\ IInv'
  BY <1>1, <1>2, NumberWritten
<1>6. val' \in Values
  BY <1>5 DEF IInv, Near, IsValue
<1>7. n % Power(Radix, sz) = n
  <2>1. Power(Radix, sz) \in Nat \ {0, 1}
    <3>1. sz - 1 \in Nat /\ (sz - 1) + 1 = sz
      BY <1>3
    <3>2. Power(Radix, sz) = Radix * Power(Radix, sz - 1) /\ Power(Radix, sz - 1) \in Nat \ {0}
          /\ Power(Radix, sz) \in Nat \ {0} /\ Radix \in Nat \ {0, 1}
      BY <1>3, <3>1, Radices
    <3> DEFINE p == Power(Radix, sz)
               q == Power(Radix, sz - 1)
    <3>3. p = Radix * q /\ q \in Nat \ {0} /\ p \in Nat \ {0} /\ Radix \in Nat \ {0, 1}
      BY <3>2
    <3> HIDE DEF p, q
    <3>4. p # 1
      <4>1. SUFFICES ASSUME p = 1 PROVE FALSE
        OBVIOUS
      <4>2. (Radix - 2) * q \in Nat /\ (Radix - 2) * q = Radix * q - 2 * q
        BY <3>3
      <4>3. QED
        BY <3>3, <4>1, <4>2
    <3>5. QED
      BY <3>3, <3>4 DEF p
  <2>2. n \in 0 .. Power(Radix, sz) - 1
    BY <1>4, <2>1
  <2>3. QED
    BY <2>1, <2>2, OwnRemainder
<1>8. AsUint[val]' = n
  BY <1>5, <1>6, <1>7, ReadLater
<1>9. AsBool(val)' <=> n # 0
  BY <1>5, <1>6, <1>8, ReadLater
<1>10. AsBool(val)' = (n # 0)
  BY <1>8 DEF AsBool
<1>11. (n # 0) = b
  BY <1>4
<1>12. QED
  BY <1>5, <1>10, <1>11 DEF n

(* The halves of complex numbers *)
LEMMA PartsReadBack == \A n \in Numbers, part \in {"real", "img"} :
    IInv /\ WritePart(part, n) /\ ~failed' =>
        /\ ReadPart(val, part)' = n % Power(Radix, Size(val.type) \div 2)
        /\ Landed(n, Size(val.type) \div 2, IF part = "real" THEN 0 ELSE Size(val.type) \div 2)
<1> SUFFICES ASSUME IInv, NEW n \in Numbers, NEW part \in {"real", "img"}, WritePart(part, n), ~failed'
             PROVE  /\ ReadPart(val, part)' = n % Power(Radix, Size(val.type) \div 2)
                    /\ Landed(n, Size(val.type) \div 2,
                              IF part = "real" THEN 0 ELSE Size(val.type) \div 2)
  OBVIOUS
<1>4. PICK sz, o : sz = Half(val) /\ o = PartOffset(val, part)
  OBVIOUS
<1> DEFINE can == IsComplex(val) /\ IsNumber(val, sz, o)
<1>1. n \in Int /\ o \in 0 .. Far /\ Store(can, InHostOrder(Digits(n, sz)), o)
  BY <1>4, SizesAssumption, HalvesAre DEF WritePart
<1>2. can => IsNumber(val, sz, o)
  OBVIOUS
<1>3. sz = Size(val.type) \div 2 /\ o = IF part = "real" THEN 0 ELSE sz
  BY <1>4 DEF Half, PartOffset
<1> HIDE DEF can
<1>5. ReadUnsigned(val, sz, o)' = n % Power(Radix, sz) /\ Landed(n, sz, o) /\ val'.type = val.type /\ IInv'
  BY <1>1, <1>2, NumberWritten
<1>6. val' \in Values
  BY <1>5 DEF IInv, Near, IsValue
<1>7. ReadPart(val, part)' = ReadUnsigned(val, sz, o)'
  BY <1>4, <1>5, <1>6, ReadLater
<1>8. QED
  BY <1>3, <1>5, <1>7

(* A number that has been written is there to be read, in the debuggee's   *)
(* byte order and cut to the value's size, and a write changes nothing     *)
(* beside it, for bytes, memories and numbers of any size.                 *)
THEOREM WrittenNumbersRead == Spec => WritesReadBack
<1> DEFINE ReadBack ==
        InPlace => LET sz == Size(val.type) IN
            /\ \A n \in Numbers :
                    WriteNumber(n) /\ ~failed' =>
                        /\ AsUint[val]' = n % Power(Radix, sz)
                        /\ AsInt(val)' = Signed(n % Power(Radix, sz), sz)
                        /\ Landed(n, sz, 0)
            /\ \A b \in BOOLEAN :
                    WriteBool(b) /\ ~failed' =>
                        AsBool(val)' = b /\ Landed(IF b THEN 1 ELSE 0, sz, 0)
            /\ \A n \in Numbers, part \in {"real", "img"} :
                    WritePart(part, n) /\ ~failed' =>
                        /\ ReadPart(val, part)' = n % Power(Radix, sz \div 2)
                        /\ Landed(n, sz \div 2, IF part = "real" THEN 0 ELSE sz \div 2)
<1>1. IInv => ReadBack
  BY Zenon, NumbersReadBack, BoolsReadBack, PartsReadBack
<1>2. IInv /\ [Next]_vars => [ReadBack]_vars
  BY <1>1
<1>3. WritesReadBack <=> [][ReadBack]_vars
  BY DEF WritesReadBack
<1> HIDE DEF ReadBack
<1>4. QED
  BY <1>2, <1>3, InitIInv, NextIInv, PTL DEF Spec

-----------------------------------------------------------------------------
(* Pointers compute as in C++ *)

(* What fits a pointer is an address *)
LEMMA FitsIs ==
  /\ PtrSize \in WordSizes /\ Power(Radix, PtrSize) \in Nat \ {0}
  /\ \A a : Fits(a) => a \in Nat /\ a % Power(Radix, PtrSize) = a /\ a \in 0 .. Wide - 1 /\ a % Wide = a
<1>1. PtrSize \in WordSizes /\ PtrSize \in 0 .. 8
  BY SizesAssumption DEF WordSizes
<1>2. Power(Radix, PtrSize) \in Nat \ {0} /\ Power(Radix, PtrSize) <= Wide /\ Wide \in Nat \ {0}
  BY <1>1, PowersFit, Radices
<1>3. ASSUME NEW a, Fits(a)
      PROVE  a \in Nat /\ a % Power(Radix, PtrSize) = a /\ a \in 0 .. Wide - 1 /\ a % Wide = a
  <2> DEFINE p == Power(Radix, PtrSize)
  <2>1. p \in Nat \ {0} /\ p <= Wide /\ Wide \in Nat \ {0} /\ a \in 0 .. p - 1
    BY <1>2, <1>3 DEF Fits
  <2> HIDE DEF p
  <2>2. a \in Nat /\ a \in 0 .. Wide - 1
    BY <2>1
  <2>3. a % p = a /\ a % Wide = a
    BY <2>1, <2>2, OwnRemainder
  <2>4. QED
    BY <2>2, <2>3 DEF p
<1>4. QED
  BY <1>1, <1>2, <1>3

(* A pointer made of an address *)
LEMMA PointerMade ==
  ASSUME NEW t \in TypeIds, Kind(t) = "pointer", NEW a, Fits(a)
  PROVE  /\ HasUint[NumberIn(t, a)] /\ AsUint[NumberIn(t, a)] = a /\ NumberIn(t, a).type = t
         /\ IsPointer(NumberIn(t, a)) /\ CanDereference(NumberIn(t, a))
<1>1. Size(t) = PtrSize /\ Size(t) \in WordSizes /\ a \in Int /\ a % Power(Radix, PtrSize) = a /\ 0 \in Nat
  BY KindsAre, FitsIs
<1>2. /\ HasUint[NumberIn(t, a)] /\ AsUint[NumberIn(t, a)] = a /\ NumberIn(t, a).type = t
  BY <1>1, NumberInIs
<1>3. IsPointer(NumberIn(t, a)) /\ CanDereference(NumberIn(t, a))
  BY <1>2 DEF IsPointer, CanDereference
<1>4. QED
  BY <1>2, <1>3

(* Of a multiple, the factor *)
LEMMA FactorOf ==
  ASSUME NEW z \in Nat \ {0}, NEW n \in Int
  PROVE  (z * n) \div z = n
<1>1. z * n \in Int /\ z * n = z * n + 0 /\ 0 \in 0 .. z - 1
  OBVIOUS
<1>2. QED
  BY <1>1, IntOnce

(* The difference of pointers is what has been added *)
LEMMA StepsDiffer ==
  ASSUME NEW z \in Nat \ {0}, NEW n \in Int, NEW u \in Int
  PROVE  LET a == u + z * n IN
         /\ (IF a >= u THEN (a - u) \div z ELSE -((u - a) \div z)) = n
         /\ (IF u >= a THEN (u - a) \div z ELSE -((a - u) \div z)) = -n
<1> DEFINE d == z * n
           e == z * (-n)
           a == u + d
<1>1. d \in Int /\ e \in Int /\ e = -d /\ (n >= 0 => d >= 0) /\ (n < 0 => d < 0) /\ a \in Int
  <2>1. d \in Int /\ e \in Int /\ e = -d
    OBVIOUS
  <2>2. ASSUME n >= 0 PROVE d >= 0
    BY <2>2
  <2>3. ASSUME n < 0 PROVE d < 0
    <3>1. z * (-n) >= -n
      <4>1. (z - 1) * (-n) \in Nat /\ (z - 1) * (-n) = z * (-n) - (-n)
        BY <2>3
      <4>2. QED
        BY <2>3, <4>1
    <3>2. QED
      BY <2>1, <2>3, <3>1
  <2>4. QED
    BY <2>1, <2>2, <2>3
<1>2. d \div z = n /\ e \div z = -n
  BY FactorOf
<1>3. a - u = d /\ u - a = e
  BY <1>1
<1>4. (a >= u <=> d >= 0) /\ (u >= a <=> d <= 0)
  BY <1>1
<1> HIDE DEF d, e, a
<1>5. (IF a >= u THEN (a - u) \div z ELSE -((u - a) \div z)) = n
  BY <1>1, <1>2, <1>3, <1>4
<1>6. (IF u >= a THEN (u - a) \div z ELSE -((a - u) \div z)) = -n
  <2>1. CASE u >= a
    BY <1>2, <1>3, <2>1
  <2>2. CASE ~(u >= a)
    BY <1>2, <1>3, <2>2
  <2>3. QED
    BY <2>1, <2>2
<1>7. QED
  BY <1>5, <1>6 DEF a, d

(* Adding to a pointer *)
LEMMA SumsAgree ==
  ASSUME IInv, CanAdd(val), NEW n \in Steps, Fits(AsUint[val] + n * Size(Base(val.type)))
  PROVE  LET p == Add(val, n)
             a == AsUint[val] + n * Size(Base(val.type))
         IN  /\ CanDifference(p, val)
             /\ Difference(p, val) = n /\ Difference(val, p) = -n
             /\ Dereference(p, FALSE) = InMemory(Base(val.type), a)
<1> DEFINE z == Size(Base(val.type))
           u == AsUint[val]
           a == u + n * z
           p == Add(val, n)
<1>1. /\ Kind(val.type) = "pointer" /\ HasUint[val] /\ Base(val.type) \in TypeIds /\ z # 0
  BY ValIs, KindsAre DEF CanAdd, IsPointer
<1>2. calls \in 0 .. MaxCalls
  BY DEF IInv
<1>3. u \in Nat /\ z \in Nat \ {0} /\ n \in Int
  BY <1>1, <1>2, ValIs, UintIs, SizesAre, SizesAssumption
<1>4. Type(val) \in TypeIds /\ Kind(Type(val)) = "pointer" /\ Base(Type(val)) = Base(val.type)
      /\ Untypedef[Type(val)] = Type(val)
  BY <1>1, ValIs, Untyped, UntypedKinds DEF Type, Base
<1>5. a \in Nat /\ a % Wide = a /\ Fits(a)
  BY FitsIs
<1>6. p = NumberIn(Type(val), a)
  <2>1. n * z = z * n
    BY <1>3
  <2>2. p = NumberIn(Type(val), (u + z * n) % Wide)
    BY Zenon DEF Add
  <2>3. QED
    BY <1>5, <2>1, <2>2
<1>7. /\ HasUint[p] /\ AsUint[p] = a /\ p.type = Type(val) /\ IsPointer(p)
      /\ Dereference(p, FALSE) = InMemory(Base(val.type), a)
  <2>1. HasUint[p] /\ AsUint[p] = a /\ p.type = Type(val) /\ IsPointer(p)
    <3> HIDE DEF a, p
    <3>1. QED
      BY <1>4, <1>5, <1>6, PointerMade
  <2> HIDE DEF a, p
  <2>2. QED
    BY <1>4, <2>1 DEF Dereference
<1> HIDE DEF p
<1>8. Type(p) = Type(val) /\ Size(Base(p.type)) = z
  BY <1>4, <1>7 DEF Type
<1>9. CanDifference(p, val)
  BY <1>1, <1>7, <1>8 DEF CanDifference, CanAdd, IsPointer
<1>10. /\ Difference(p, val) = (IF a >= u THEN (a - u) \div z ELSE -((u - a) \div z))
       /\ Difference(val, p) = (IF u >= a THEN (u - a) \div z ELSE -((a - u) \div z))
  BY <1>7, <1>8 DEF Difference
<1>11. Difference(p, val) = n /\ Difference(val, p) = -n
  <2>1. a = u + z * n
    BY <1>3
  <2> HIDE DEF u, z, a
  <2>2. LET b == u + z * n IN
        /\ (IF b >= u THEN (b - u) \div z ELSE -((u - b) \div z)) = n
        /\ (IF u >= b THEN (u - b) \div z ELSE -((b - u) \div z)) = -n
    BY <1>3, StepsDiffer
  <2>3. QED
    BY <1>10, <2>1, <2>2
<1>12. QED
  BY <1>7, <1>9, <1>11 DEF p

(* A value's pointer points to it *)
LEMMA PtrsAgree ==
  ASSUME IInv, HasAddress(val), Fits(val.offset)
  PROVE  Dereference(Ptr(val), FALSE) = [val EXCEPT !.type = Type(val)]
<1>1. Type(val) \in TypeIds
  BY ValIs
<1>2. Pointer(Type(val)) \in TypeIds /\ Kind(Pointer(Type(val))) = "pointer"
      /\ Base(Pointer(Type(val))) = Type(val)
  BY <1>1, PointerTypes, PointersAre
<1>3. Dereference(Ptr(val), FALSE) = InMemory(Type(val), val.offset)
  <2>1. Ptr(val).type = Pointer(Type(val)) /\ AsUint[Ptr(val)] = val.offset
    BY <1>2, PointerMade DEF Ptr
  <2>2. QED
    BY <1>2, <2>1 DEF Dereference
<1>4. val.bytes = <<>> /\ val.store = "memory"
  BY DEF IInv, Near, IsValue, HasAddress
<1>5. val = [type |-> val.type, store |-> val.store, offset |-> val.offset, bytes |-> val.bytes]
  BY ValIs, ValueParts
<1>6. [val EXCEPT !.type = Type(val)] = InMemory(Type(val), val.offset)
  BY <1>4, <1>5 DEF InMemory
<1>7. QED
  BY <1>3, <1>6

(* The pointer to a member function finds the function *)
LEMMA FunctionsAgree ==
  ASSUME IInv, NEW nm, CanMemFunPtr(val, nm)
  PROVE  LET p == MemFunPtr(val, nm) IN
         ObjectsAt(AsUint[p]) # {} /\ FunctionName(p).name = nm /\ FunctionOffset(p) = 0
<1> DEFINE d == Record(val.type)
           a == d.functions[nm]
           p == MemFunPtr(val, nm)
<1>1. Kind(val.type) = "record" /\ nm \in DOMAIN d.functions /\ a # 0
  BY DEF CanMemFunPtr, IsRecord
<1>2. d.kind = "record" /\ d \in {Decl[n] : n \in DOMAIN Decl} /\ a \in Nat
  BY <1>1, ValIs, KindsAre, RecordIs
<1>3. image \in DOMAIN Images
  BY ValIs DEF MemOK
<1>4. a < Power(Radix, PtrSize)
      /\ LET there == {f \in Images[image].functions : a \in f.lo .. f.hi}
         IN  there # {} /\ \A f \in there : f.name = nm /\ f.lo = a
  <2> HIDE DEF d
  <2>1. QED
    BY <1>1, <1>2, <1>3, FunctionsAssumption
<1>5. Fits(a)
  BY <1>2, <1>4, FitsIs DEF Fits
<1>6. Pointer(<<"fn">>) \in TypeIds /\ Kind(Pointer(<<"fn">>)) = "pointer"
  BY TypesAssumption, NamesAreTypes, PointerTypes, PointersAre
<1>7. p = NumberIn(Pointer(<<"fn">>), a)
  BY Zenon DEF MemFunPtr
<1> HIDE DEF p, a
<1>8. AsUint[p] = a
  BY <1>5, <1>6, <1>7, PointerMade
<1>9. ObjectsAt(a) = {f \in Images[image].functions : a \in f.lo .. f.hi}
  BY DEF ObjectsAt, Target
<1>10. ObjectsAt(a) # {} /\ \A f \in ObjectsAt(a) : f.name = nm /\ f.lo = a
  BY <1>4, <1>9
<1>11. FunctionName(p) \in ObjectsAt(a)
  BY Zenon, <1>8, <1>10 DEF FunctionName
<1>12. FunctionName(p).name = nm /\ FunctionName(p).lo = a
  BY Zenon, <1>10, <1>11
<1>13. FunctionOffset(p) = 0
  BY <1>2, <1>8, <1>12 DEF FunctionOffset, a
<1>14. QED
  BY <1>8, <1>10, <1>12, <1>13 DEF p

(* What is added to a pointer is what the difference is, p + n points n    *)
(* elements further, a value's pointer points to the value and the pointer *)
(* to a member function to that function: for pointers of every size and   *)
(* elements of every size, wherever the sum is an address.                 *)
THEOREM PointersCompute == Spec => []PointersAgree
<1>1. IInv => PointersAgree
  BY SumsAgree, PtrsAgree, FunctionsAgree DEF PointersAgree
<1>2. QED
  BY <1>1, InitIInv, NextIInv, PTL DEF Spec

-----------------------------------------------------------------------------
(* Members *)

(* What the declaration of a record says of its members *)
LEMMA RecordLies ==
  ASSUME NEW t \in TypeIds, Kind(t) = "record"
  PROVE  LET r == Record(t) IN
         /\ Size(t) \in Nat
         /\ \A i \in DOMAIN r.fields :
                /\ r.fields[i].offset + r.fields[i].bits <= Size(t) * ByteBits
                /\ \A j \in DOMAIN r.fields : i < j => r.fields[i].offset <= r.fields[j].offset
                /\ ~IsWhole(r.fields[i]) =>
                        r.fields[i].bits # 0
                        /\ (r.fields[i].offset % ByteBits) + r.fields[i].bits <= ByteBits
         /\ \A b \in DOMAIN r.bases : LET fs == Record(r.bases[b].type).fields IN
                \A j \in DOMAIN fs :
                    r.bases[b].offset + fs[j].offset + fs[j].bits <= Size(t) * ByteBits
<1>1. Record(t) \in {Decl[n] : n \in DOMAIN Decl \ Typedefs} /\ Record(t).kind = "record"
      /\ Size(t) = Record(t).size
  BY KindsAre
<1>2. PICK n \in DOMAIN Decl : Record(t) = Decl[n]
  BY <1>1
<1>3. Size(t) \in Nat
  BY SizesAre
<1> DEFINE r == Record(t)
<1>4. /\ r.kind = "record" /\ r.size = Size(t) /\ r = Decl[n]
  BY <1>1, <1>2
<1> HIDE DEF r
<1>5. /\ \A i \in DOMAIN r.fields :
                /\ r.fields[i].offset + r.fields[i].bits <= r.size * ByteBits
                /\ \A j \in DOMAIN r.fields : i < j => r.fields[i].offset <= r.fields[j].offset
                /\ ~IsWhole(r.fields[i]) =>
                        r.fields[i].bits # 0
                        /\ (r.fields[i].offset % ByteBits) + r.fields[i].bits <= ByteBits
      /\ \A b \in DOMAIN r.bases : LET fs == Record(r.bases[b].type).fields IN
                \A j \in DOMAIN fs :
                    r.bases[b].offset + fs[j].offset + fs[j].bits <= r.size * ByteBits
  BY Zenon, <1>4, TypesAssumption
<1>6. QED
  BY Zenon, <1>3, <1>4, <1>5 DEF r

(* Member f, o bits further *)
Shifted(f, o) == [type |-> f.type, offset |-> o + f.offset, bits |-> f.bits]

(* A member found by name is the record's own or that of a base *)
LEMMA FoundIs ==
  ASSUME NEW t \in TypeIds, Kind(t) = "record", NEW nm, NEW f \in Found(t, nm)
  PROVE  \/ \E i \in DOMAIN Record(t).fields : f = Shifted(Record(t).fields[i], 0)
         \/ \E b \in DOMAIN Record(t).bases :
                \E i \in DOMAIN Record(Record(t).bases[b].type).fields :
                    f = Shifted(Record(Record(t).bases[b].type).fields[i], Record(t).bases[b].offset)
<1> DEFINE r == Record(t)
           Own(q, o) == {[type |-> q.fields[i].type, offset |-> o + q.fields[i].offset,
                          bits |-> q.fields[i].bits] :
                            i \in {i \in DOMAIN q.fields : q.fields[i].name = nm}}
           in == [b \in DOMAIN r.bases |-> Own(Record(r.bases[b].type), r.bases[b].offset)]
           bs == {b \in DOMAIN in : in[b] # {}}
<1>1. Found(t, nm) = IF Own(r, 0) # {} THEN Own(r, 0)
                     ELSE IF bs = {} THEN {} ELSE in[CHOOSE b \in bs : \A c \in bs : b <= c]
  BY Zenon DEF Found
<1>2. ASSUME NEW q, NEW o, f \in Own(q, o) PROVE \E i \in DOMAIN q.fields : f = Shifted(q.fields[i], o)
  BY <1>2 DEF Shifted
<1>3. CASE f \in Own(r, 0)
  <2> HIDE DEF Own, r
  <2>1. QED
    BY <1>2, <1>3 DEF r
<1>4. CASE f \notin Own(r, 0)
  <2>1. bs # {} /\ f \in in[CHOOSE b \in bs : \A c \in bs : b <= c]
    <3> HIDE DEF in, bs, Own, r
    <3>1. QED
      BY <1>1, <1>4
  <2>2. bs \in SUBSET Nat
    <3>1. DOMAIN r.bases \in SUBSET Nat
      <4>1. r.bases \in Seq([type : TypeIds, offset : 0 .. Far \div 2])
        BY RecordIs
      <4> HIDE DEF r
      <4>2. QED
        BY <4>1
    <3> HIDE DEF r, Own
    <3>2. QED
      BY <3>1
  <2>3. PICK b \in bs : f \in in[b]
    <3> HIDE DEF in, bs, Own, r
    <3>1. \E x \in bs : \A c \in bs : x <= c
      BY Zenon, <2>1, <2>2, Smallest
    <3>2. (CHOOSE x \in bs : \A c \in bs : x <= c) \in bs
      BY Zenon, <3>1
    <3>3. QED
      BY Zenon, <2>1, <3>2
  <2>4. b \in DOMAIN r.bases /\ f \in Own(Record(r.bases[b].type), r.bases[b].offset)
    <3> HIDE DEF Own, r
    <3>1. b \in DOMAIN r.bases
      BY Zenon
    <3>2. in[b] = Own(Record(r.bases[b].type), r.bases[b].offset)
      BY Zenon, <3>1
    <3>3. QED
      BY Zenon, <2>3, <3>1, <3>2
  <2> HIDE DEF Own, r, in, bs
  <2>5. \E i \in DOMAIN Record(r.bases[b].type).fields :
            f = Shifted(Record(r.bases[b].type).fields[i], r.bases[b].offset)
    BY Zenon, <1>2, <2>4
  <2>6. QED
    BY Zenon, <2>4, <2>5 DEF r
<1>5. QED
  BY <1>3, <1>4

(* It lies in the record *)
LEMMA FoundLies ==
  ASSUME NEW t \in TypeIds, Kind(t) = "record", NEW nm, NEW f \in Found(t, nm)
  PROVE  /\ FieldFacts(f)
         /\ f.offset + f.bits <= Size(t) * ByteBits
         /\ f.offset \div ByteBits \in Nat /\ f.offset \div ByteBits <= Size(t)
<1> DEFINE r == Record(t)
<1>1. FieldFacts(f)
  BY MembersAre
<1>2. f.offset \in Nat /\ f.bits \in Nat /\ ByteBits \in Nat \ {0} /\ Size(t) \in Nat
  BY <1>1, FarIs, SizesAssumption, SizesAre DEF FieldFacts
<1>3. f.offset + f.bits <= Size(t) * ByteBits
  <2>1. CASE \E i \in DOMAIN r.fields : f = Shifted(r.fields[i], 0)
    <3>1. PICK i \in DOMAIN r.fields : f = Shifted(r.fields[i], 0)
      BY <2>1
    <3>2. r.fields[i].offset + r.fields[i].bits <= Size(t) * ByteBits
      BY RecordLies
    <3>3. FieldFacts(r.fields[i])
      BY MembersAre
    <3>4. r.fields[i].offset \in Nat
      BY <3>3, FarIs DEF FieldFacts
    <3>5. f.offset = r.fields[i].offset /\ f.bits = r.fields[i].bits
      BY <3>1, <3>4 DEF Shifted
    <3>6. QED
      BY <3>2, <3>5
  <2>2. CASE \E b \in DOMAIN r.bases : \E i \in DOMAIN Record(r.bases[b].type).fields :
                f = Shifted(Record(r.bases[b].type).fields[i], r.bases[b].offset)
    <3>1. PICK b \in DOMAIN r.bases : \E i \in DOMAIN Record(r.bases[b].type).fields :
                f = Shifted(Record(r.bases[b].type).fields[i], r.bases[b].offset)
      BY <2>2
    <3> DEFINE fs == Record(r.bases[b].type).fields
    <3>2. PICK i \in DOMAIN fs : f = Shifted(fs[i], r.bases[b].offset)
      BY <3>1
    <3>3. r.bases[b].offset + fs[i].offset + fs[i].bits <= Size(t) * ByteBits
      BY RecordLies
    <3> HIDE DEF fs, r
    <3>4. f.offset = r.bases[b].offset + fs[i].offset /\ f.bits = fs[i].bits
      BY <3>2 DEF Shifted
    <3>5. QED
      BY <3>3, <3>4
  <2>3. QED
    BY <2>1, <2>2, FoundIs
<1>4. f.offset \div ByteBits \in Nat /\ f.offset \div ByteBits <= Size(t)
  <2> DEFINE q == f.offset \div ByteBits
             k == f.offset % ByteBits
             z == Size(t)
  <2>1. q \in Nat /\ k \in 0 .. ByteBits - 1 /\ f.offset = ByteBits * q + k
    <3>1. f.offset \in Int
      BY <1>2
    <3>2. f.offset = ByteBits * q + k
      BY Zenon, <1>2, <3>1, IntDivided
    <3>3. QED
      BY Zenon, <1>2, <3>2, BytesOf
  <2>2. z \in Nat /\ f.offset <= z * ByteBits
    <3>1. z * ByteBits \in Nat
      BY <1>2
    <3> HIDE DEF z
    <3>2. QED
      BY <1>2, <1>3, <3>1 DEF z
  <2> HIDE DEF q, k, z
  <2>3. SUFFICES ASSUME q > z PROVE FALSE
    BY <2>1, <2>2 DEF q, z
  <2>4. ByteBits * (q - z - 1) \in Nat
        /\ ByteBits * (q - z - 1) = ByteBits * q - z * ByteBits - ByteBits
    BY <1>2, <2>1, <2>2, <2>3
  <2>5. ByteBits * q \in Nat /\ z * ByteBits \in Nat
    BY <1>2, <2>1, <2>2
  <2>6. QED
    BY <1>2, <2>1, <2>2, <2>4, <2>5
<1>5. QED
  BY <1>1, <1>3, <1>4

(* A member through its pointer *)
LEMMA NamedAgree ==
  ASSUME IInv, NEW nm, CanFieldPointer(val, nm), ~ByteWide(TheField(val.type, nm)),
         Fits(val.offset + Size(val.type))
  PROVE  /\ CanAllField(val, nm)
         /\ Dereference(FieldPointer(val, nm), FALSE) = AllField(val, nm)
<1> DEFINE f == TheField(val.type, nm)
           q == f.offset \div ByteBits
           p == FieldPointer(val, nm)
<1>1. /\ Kind(val.type) = "record" /\ Found(val.type, nm) # {} /\ HasAddress(val)
      /\ f.offset % ByteBits = 0 /\ f.bits % ByteBits = 0
  BY DEF CanFieldPointer, IsRecord
<1>2. f \in Found(val.type, nm)
  BY Zenon, <1>1 DEF TheField
<1>3. IsWhole(f)
  BY <1>1 DEF ByteWide
<1>4. CanAllField(val, nm) /\ AllField(val, nm) = CreateField(val, f)
  BY <1>1, <1>3 DEF CanAllField, AllField, IsRecord, CanCreateField
<1>5. p = NumberIn(Pointer(f.type), val.offset + q)
  BY Zenon DEF FieldPointer
<1>6. CreateField(val, f) = Moved(val, f.type, q)
  BY <1>3 DEF CreateField
<1> HIDE DEF f
<1>7. f.type \in TypeIds /\ q \in Nat /\ q <= Size(val.type)
  BY <1>1, <1>2, ValIs, FoundLies DEF FieldFacts
<1> HIDE DEF q
<1>8. Fits(val.offset + q)
  <2> DEFINE w == Power(Radix, PtrSize)
  <2>1. w \in Nat \ {0} /\ val.offset + Size(val.type) \in 0 .. w - 1
    BY FitsIs DEF Fits
  <2>2. val.offset \in Nat /\ Size(val.type) \in Nat
    BY ValIs, ValueParts, SizesAre
  <2> HIDE DEF w
  <2>3. val.offset + q \in 0 .. w - 1
    BY <1>7, <2>1, <2>2
  <2>4. QED
    BY <2>3 DEF Fits, w
<1>9. (val.offset + q) % Wide = val.offset + q
  BY <1>8, FitsIs
<1>10. Dereference(p, FALSE) = InMemory(f.type, val.offset + q)
  <2>1. Pointer(f.type) \in TypeIds /\ Kind(Pointer(f.type)) = "pointer"
        /\ Base(Pointer(f.type)) = f.type
    BY <1>7, PointerTypes, PointersAre
  <2> DEFINE a == val.offset + q
  <2>2. p = NumberIn(Pointer(f.type), a) /\ Fits(a)
    BY <1>5, <1>8
  <2> HIDE DEF p, a
  <2>3. p.type = Pointer(f.type) /\ AsUint[p] = a
    BY <2>1, <2>2, PointerMade
  <2>4. QED
    BY <2>1, <2>3 DEF Dereference, a
<1>11. Moved(val, f.type, q) = InMemory(f.type, val.offset + q)
  <2>1. val.bytes = <<>> /\ val.store = "memory"
    BY <1>1 DEF IInv, Near, IsValue, HasAddress
  <2>2. val = [type |-> val.type, store |-> val.store, offset |-> val.offset, bytes |-> val.bytes]
    BY ValIs, ValueParts
  <2>3. Moved(val, f.type, q) =
            [type |-> f.type, store |-> val.store, offset |-> (val.offset + q) % Wide, bytes |-> val.bytes]
    <3> DEFINE w == Moved(val, f.type, q)
    <3>1. val \in Values /\ (val.offset + q) % Wide \in 0 .. Wide - 1
      BY <1>8, <1>9, ValIs, FitsIs
    <3>2. /\ w \in Values /\ w.type = f.type /\ w.offset = (val.offset + q) % Wide
          /\ w.store = val.store /\ w.bytes = val.bytes
      BY <1>7, <3>1 DEF Moved, Values
    <3> HIDE DEF w
    <3>3. w = [type |-> w.type, store |-> w.store, offset |-> w.offset, bytes |-> w.bytes]
      BY Zenon, <3>2, ValueParts
    <3>4. QED
      BY <3>2, <3>3 DEF w
  <2>4. QED
    BY <1>9, <2>1, <2>3 DEF InMemory
<1>12. QED
  BY <1>4, <1>6, <1>10, <1>11 DEF p

(* A member by number and by name *)
LEMMA NumberedAgree ==
  ASSUME IInv, NEW i, CanFieldAt(val, i),
         \A j \in DOMAIN Record(val.type).fields :
            Record(val.type).fields[j].name = Record(val.type).fields[i].name => j = i
  PROVE  FieldAt(val, i) = AllField(val, Record(val.type).fields[i].name)
<1> DEFINE r == Record(val.type)
           f == r.fields[i]
           g == Shifted(f, 0)
           own == {[type |-> r.fields[j].type, offset |-> 0 + r.fields[j].offset,
                    bits |-> r.fields[j].bits] : j \in {j \in DOMAIN r.fields : r.fields[j].name = f.name}}
<1>1. Kind(val.type) = "record" /\ i \in DOMAIN r.fields
  BY DEF CanFieldAt, IsRecord
<1>2. f.offset \in Nat
  BY <1>1, ValIs, MembersAre, FarIs DEF FieldFacts
<1>3. own = {g}
  <2> HIDE DEF r
  <2>1. {j \in DOMAIN r.fields : r.fields[j].name = f.name} = {i}
    BY <1>1 DEF r
  <2>2. own = {[type |-> r.fields[j].type, offset |-> 0 + r.fields[j].offset,
                bits |-> r.fields[j].bits] : j \in {i}}
    BY Zenon, <2>1
  <2>3. QED
    BY <2>2 DEF Shifted
<1>4. Found(val.type, f.name) = {g}
  <2>1. own # {} => Found(val.type, f.name) = own
    BY Zenon DEF Found
  <2> HIDE DEF own
  <2>2. QED
    BY <1>3, <2>1
<1>5. TheField(val.type, f.name) = g
  <2> HIDE DEF g
  <2>1. QED
    BY <1>4 DEF TheField
<1>6. g.type = f.type /\ g.offset = f.offset /\ g.bits = f.bits
  BY <1>2 DEF Shifted
<1>7. FieldAt(val, i) = CreateField(val, f)
  BY DEF FieldAt
<1>8. AllField(val, f.name) = CreateField(val, g)
  BY <1>5 DEF AllField
<1> HIDE DEF f, g
<1>9. (IsWhole(g) <=> IsWhole(f)) /\ FieldBits(val, g) = FieldBits(val, f)
  BY <1>6 DEF IsWhole, FieldBits
<1>10. FieldNumber(val, g) = FieldNumber(val, f)
  BY <1>6, <1>9 DEF FieldNumber
<1>11. CreateField(val, g) = CreateField(val, f)
  BY <1>6, <1>9, <1>10 DEF CreateField
<1>12. QED
  BY <1>7, <1>8, <1>11 DEF f

(* A member by what a pointer to member says *)
LEMMA MemVarsAgree ==
  ASSUME IInv, Kind(val.type) = "memptr", HasUint[val], AsUint[val] * ByteBits < Wide
  PROVE  LET fs    == Record(Record(val.type).object).fields
             there == {fs[i].name : i \in {i \in DOMAIN fs : fs[i].offset = AsUint[val] * ByteBits}}
         IN  MemVar(val) \subseteq there /\ (MemVar(val) = {} => there = {})
<1> DEFINE t == Record(val.type).object
           fs == Record(t).fields
           x == AsUint[val] * ByteBits
           o == x % Wide
           ks == {k \in DOMAIN fs : fs[k].offset >= o}
           k == CHOOSE k \in ks : \A j \in ks : k <= j
           there == {fs[i].name : i \in {i \in DOMAIN fs : fs[i].offset = x}}
<1>1. t \in TypeIds /\ Kind(t) = "record"
  <2>1. Record(val.type).kind = "memptr" /\ Record(val.type) \in {Decl[n] : n \in DOMAIN Decl \ Typedefs}
    BY ValIs, KindsAre
  <2>2. PICK n \in DOMAIN Decl : Record(val.type) = Decl[n]
    BY <2>1
  <2>3. QED
    BY <2>1, <2>2, TypesAssumption
<1>2. o = x /\ x \in Nat
  <2>1. calls \in 0 .. MaxCalls
    BY DEF IInv
  <2>2. AsUint[val] \in Nat /\ ByteBits \in Nat /\ Wide \in Nat \ {0}
    BY <2>1, ValIs, UintIs, SizesAssumption, Radices
  <2>3. x \in Nat /\ x \in 0 .. Wide - 1
    BY <2>2
  <2>4. QED
    BY <2>2, <2>3, OwnRemainder
<1>3. MemVar(val) = IF ks # {} /\ fs[k].offset = o THEN {fs[k].name} ELSE {}
  BY Zenon DEF MemVar
<1>4. /\ fs \in Seq([name : STRING, type : TypeIds, offset : 0 .. Far \div 2, bits : 0 .. Far])
      /\ \A i \in DOMAIN fs : FieldFacts(fs[i])
      /\ \A i \in DOMAIN fs, j \in DOMAIN fs : i < j => fs[i].offset <= fs[j].offset
  BY <1>1, RecordIs, MembersAre, RecordLies
<1> HIDE DEF t, fs, x, o
<1>5. DOMAIN fs \in SUBSET Nat
  BY <1>4
<1>6. \A i \in DOMAIN fs : fs[i].offset \in Nat
  BY <1>4, FarIs DEF FieldFacts
<1>7. ks # {} => k \in ks /\ \A j \in ks : k <= j
  <2>1. ks \in SUBSET Nat
    BY <1>5
  <2> HIDE DEF ks
  <2>2. ks # {} => \E n \in ks : \A j \in ks : n <= j
    BY <2>1, Smallest
  <2>3. QED
    BY Zenon, <2>2
<1> HIDE DEF k
<1>8. MemVar(val) \subseteq there
  <2>1. CASE ks # {} /\ fs[k].offset = o
    <3>1. k \in DOMAIN fs /\ fs[k].offset = x
      BY <1>2, <1>7, <2>1
    <3>2. MemVar(val) = {fs[k].name}
      BY <1>3, <2>1
    <3>3. QED
      BY <3>1, <3>2
  <2>2. CASE ~(ks # {} /\ fs[k].offset = o)
    BY <1>3, <2>2
  <2>3. QED
    BY <2>1, <2>2
<1>9. ASSUME MemVar(val) = {}, NEW i \in DOMAIN fs, fs[i].offset = x PROVE FALSE
  <2>1. i \in ks
    BY <1>2, <1>9
  <2>2. k \in ks /\ k <= i /\ k \in DOMAIN fs /\ fs[k].offset >= o
    BY <1>7, <2>1
  <2>3. fs[k].offset <= fs[i].offset
    <3>1. CASE k = i
      BY <1>6, <3>1
    <3>2. CASE k # i
      <4>1. k < i
        BY <1>5, <2>2, <3>2
      <4>2. QED
        BY <1>4, <2>2, <4>1
    <3>3. QED
      BY <3>1, <3>2
  <2>4. fs[k].offset = o
    BY <1>2, <1>6, <1>9, <2>2, <2>3
  <2>5. QED
    BY <1>3, <1>9, <2>1, <2>4
<1>10. MemVar(val) = {} => there = {}
  BY <1>9
<1>11. QED
  BY <1>8, <1>10 DEF fs, t, x

(* x has the low bits fb of a field as wide as 2 * h, p is a multiple of it *)
CutOf(h, fb, x, p) ==
    /\ h \in Nat \ {0} /\ fb \in 0 .. 2 * h - 1 /\ x \in {fb, fb - 2 * h}
    /\ \E c \in Nat \ {0} : p = (2 * h) * c

(* A number cut to a multiple of a power of two keeps its low bits, and    *)
(* its sign if it was of so many bits                                      *)
LEMMA CutNumbers ==
  ASSUME NEW h, NEW fb, NEW x, NEW p, CutOf(h, fb, x, p)
  PROVE  /\ (x % p) % (2 * h) = fb
         /\ (x \in -h .. h - 1 /\ 2 * (x % p) >= p) => ((x % p) - p = x)
         /\ (x \in -h .. h - 1 /\ ~(2 * (x % p) >= p)) => (x % p = x)
<1>1. PICK c \in Nat \ {0} : p = (2 * h) * c
  BY DEF CutOf
<1>2. h \in Nat \ {0} /\ fb \in 0 .. 2 * h - 1 /\ x \in {fb, fb - 2 * h}
  BY DEF CutOf
<1> DEFINE b == 2 * h
           u == x % p
<1>3. b \in Nat \ {0} /\ fb \in Int /\ x \in Int /\ p \in Nat \ {0} /\ b <= p
  <2>1. b \in Nat \ {0} /\ fb \in Int /\ x \in Int
    BY <1>2
  <2>2. p = b * c
    BY <1>1
  <2> HIDE DEF b
  <2>3. p \in Nat /\ b * (c - 1) \in Nat /\ b * (c - 1) = p - b
    BY <2>1, <2>2
  <2>4. QED
    BY <2>1, <2>3
<1>4. u % b = x % b
  <2>1. p = b * c
    BY <1>1
  <2> HIDE DEF b
  <2>2. c \in Nat \ {0} /\ (x % (b * c)) % b = x % b
    BY Zenon, <1>3, RemainderOfRemainder
  <2>3. QED
    BY Zenon, <2>1, <2>2
<1>5. x % b = fb
  <2>1. CASE x = fb
    <3>1. x = b * 0 + fb /\ fb \in 0 .. b - 1
      BY <1>2, <2>1
    <3> HIDE DEF b
    <3>2. QED
      BY <1>3, <3>1, IntOnce
  <2>2. CASE x = fb - b
    <3>1. x = b * (-1) + fb /\ fb \in 0 .. b - 1
      BY <1>2, <2>2
    <3> HIDE DEF b
    <3>2. QED
      BY <1>3, <3>1, IntOnce
  <2>3. QED
    BY <1>2, <2>1, <2>2
<1>6. ASSUME x \in -h .. h - 1 PROVE (IF 2 * u >= p THEN u - p ELSE u) = x
  <2>1. CASE x >= 0
    <3>1. x = p * 0 + x /\ x \in 0 .. p - 1 /\ 2 * x < p
      <4>1. 2 * x < b /\ x \in Nat
        BY <1>2, <1>3, <1>6, <2>1
      <4> HIDE DEF b
      <4>2. QED
        BY <1>3, <4>1
    <3>2. u = x
      BY <1>3, <3>1, IntOnce
    <3>3. QED
      BY <1>3, <3>1, <3>2
  <2>2. CASE x < 0
    <3>1. x = p * (-1) + (x + p) /\ x + p \in 0 .. p - 1 /\ 2 * (x + p) >= p
      <4>1. -(2 * x) <= b /\ x \in Int
        BY <1>2, <1>3, <1>6, <2>2
      <4> HIDE DEF b
      <4>2. QED
        BY <1>3, <2>2, <4>1
    <3>2. u = x + p
      <4>1. -1 \in Int
        OBVIOUS
      <4>2. QED
        BY <1>3, <3>1, <4>1, IntOnce
    <3>3. QED
      BY <1>3, <3>1, <3>2
  <2>3. QED
    BY <1>3, <2>1, <2>2
<1>7. QED
  BY <1>4, <1>5, <1>6

(* What is in a temporary of a bit-field that can be read *)
LEMMA BitsInTemporary ==
  ASSUME MemOK, NEW n \in 0 .. MaxCalls, NEW v, Near(v, n), NEW f, FieldFacts(f), ~IsWhole(f),
         HasUint[CreateField(v, f)]
  PROVE  /\ CanRead(v, 1, f.offset \div ByteBits) /\ Size(f.type) \in WordSizes
         /\ CreateField(v, f) = Temporary(f.type, Digits(FieldNumber(v, f), Size(f.type)))
<1> DEFINE t == f.type
           can == CanRead(v, 1, f.offset \div ByteBits)
           d == Digits(FieldNumber(v, f), Size(t))
           w == CreateField(v, f)
<1>1. w = IF ~can THEN Temporary(t, <<>>) ELSE Temporary(t, d)
  BY DEF CreateField
<1>2. t \in TypeIds /\ Size(t) \in Nat /\ 0 \in 0 .. MaxCalls /\ 0 \in 0 .. Far /\ 0 \in Nat
  BY SizesAre, FarIs DEF FieldFacts
<1>3. can => FieldNumber(v, f) \in Int
  BY BitsRead
<1>4. can => d \in Seq(Bytes)
  BY <1>2, <1>3, DigitsAre
<1> HIDE DEF d, t, can
<1>5. /\ w \in Values /\ w.type = t /\ Near(w, 0) /\ ~HasAddress(w) /\ w.offset = 0
      /\ ~can => w.bytes = <<>>
  <2> HIDE DEF w
  <2>1. CASE can
    BY <1>1, <1>2, <1>4, <2>1, TemporaryNear
  <2>2. CASE ~can
    BY <1>1, <1>2, <2>2, EmptySequence, TemporaryNear
  <2>3. QED
    BY <2>1, <2>2
<1>6. IsNumber(w, Size(t), 0)
  BY Zenon, <1>5 DEF HasUint
<1>7. Size(t) \in WordSizes /\ CanRead(w, Size(t), 0)
  BY <1>6 DEF IsNumber, WordSizes
<1>8. can
  <2>1. SUFFICES ASSUME ~can PROVE FALSE
    OBVIOUS
  <2>2. w.bytes = <<>>
    BY <1>5, <2>1
  <2>3. Size(t) \in 0 .. Far
    BY <1>7, FarIs DEF WordSizes
  <2>4. At(w, 0) = w.offset + 0 /\ (CanRead(w, Size(t), 0) <=> At(w, 0) + Size(t) <= Len(w.bytes))
    <3> HIDE DEF w
    <3>1. 0 \in 0 .. MaxCalls /\ 0 \in 0 .. Far /\ Near(w, 0) /\ ~HasAddress(w)
      BY <1>2, <1>5
    <3>2. QED
      BY ZenonT(60), <2>3, <3>1, TempReads
  <2>5. QED
    BY <1>5, <1>7, <2>2, <2>4 DEF WordSizes
<1>9. QED
  BY <1>1, <1>7, <1>8 DEF can, t, d, w

(* The bits of a bit-field are shown *)
LEMMA BitsShown ==
  ASSUME MemOK, NEW n \in 0 .. MaxCalls, NEW v, Near(v, n), NEW f, FieldFacts(f), ~IsWhole(f),
         f.bits # 0, (f.offset % ByteBits) + f.bits <= ByteBits,
         HasUint[CreateField(v, f)], Target.end = Host \/ Size(f.type) = 1
  PROVE  LET w == CreateField(v, f) IN
         /\ AsUint[w] % Power(2, f.bits) = FieldBits(v, f)
         /\ Kind(f.type) = "signed" =>
                AsInt(w) \in -(Power(2, f.bits - 1)) .. Power(2, f.bits - 1) - 1
<1> DEFINE w == CreateField(v, f)
           t == f.type
           sz == Size(t)
           x == FieldNumber(v, f)
           fb == FieldBits(v, f)
           d == Digits(x, sz)
           h == Power(2, f.bits - 1)
<1>1. CanRead(v, 1, f.offset \div ByteBits) /\ sz \in WordSizes /\ w = Temporary(t, d)
  BY BitsInTemporary
<1>2. x \in Int /\ fb \in 0 .. Power(2, f.bits) - 1
  BY <1>1, BitsRead
<1>3. f.bits \in Nat \ {0} /\ f.bits - 1 \in Nat /\ t \in TypeIds /\ f.offset \in Nat
      /\ ByteBits \in Nat \ {0} /\ sz \in Nat \ {0}
  BY <1>1, FarIs, SizesAssumption DEF FieldFacts, WordSizes
<1>4. f.bits <= ByteBits
  <2> DEFINE k == f.offset % ByteBits
  <2>1. k \in Nat /\ k + f.bits <= ByteBits
    BY <1>3, BytesOf
  <2> HIDE DEF k
  <2>2. QED
    BY <1>3, <2>1
<1>5. h \in Nat \ {0} /\ Power(2, f.bits) = 2 * h
  <2>1. (f.bits - 1) + 1 = f.bits /\ 2 \in Nat \ {0}
    BY <1>3
  <2>2. Power(2, f.bits - 1) \in Nat \ {0} /\ Power(2, (f.bits - 1) + 1) = 2 * Power(2, f.bits - 1)
    BY Zenon, <1>3, <2>1, PowersStep
  <2>3. QED
    BY Zenon, <2>1, <2>2
<1>6. d \in Seq(Bytes) /\ Len(d) = sz /\ Number(d) = x % Power(Radix, sz)
  BY <1>2, <1>3, DigitsAre, NumberOfDigits
<1>7. InHostOrder(d) = d
  <2>1. CASE Target.end = Host
    BY <2>1 DEF InHostOrder
  <2>2. CASE sz = 1
    <3> HIDE DEF d
    <3>1. Backwards(d) \in Seq(Bytes) /\ Len(Backwards(d)) = 1 /\ Len(d) = 1 /\ Backwards(d)[1] = d[1]
      BY <1>6, <2>2, BackAndForth
    <3>2. Backwards(d) = d
      BY <1>6, <3>1
    <3>3. QED
      BY <3>2 DEF InHostOrder
  <2>3. QED
    BY <2>1, <2>2
<1>8. AsUint[w] = x % Power(Radix, sz) /\ w.type = t
  <2>1. AsUint[Temporary(t, d)] = Number(InHostOrder(d))
    <3> HIDE DEF d
    <3>1. QED
      BY <1>1, <1>3, <1>6, TemporaryRead
  <2>2. w.type = t
    BY <1>1 DEF Temporary
  <2>3. QED
    BY Zenon, <1>1, <1>6, <1>7, <2>1, <2>2
<1>9. PICK c \in Nat \ {0} : Power(Radix, sz) = (2 * h) * c
  <2>1. sz - 1 \in Nat /\ (sz - 1) + 1 = sz /\ ByteBits - f.bits \in Nat
        /\ f.bits + (ByteBits - f.bits) = ByteBits /\ 2 \in Nat \ {0}
    BY <1>3, <1>4
  <2>2. Power(Radix, sz) = Radix * Power(Radix, sz - 1) /\ Power(Radix, sz - 1) \in Nat \ {0}
    BY <2>1, Radices
  <2>3. Radix = Power(2, f.bits) * Power(2, ByteBits - f.bits)
    <3>1. Power(2, f.bits + (ByteBits - f.bits)) = Power(2, f.bits) * Power(2, ByteBits - f.bits)
      <4>1. f.bits \in Nat
        BY <1>3
      <4>2. QED
        BY Zenon, <2>1, <4>1, PowersLarger
    <3>2. QED
      BY Zenon, <2>1, <3>1 DEF Radix
  <2>4. Power(2, ByteBits - f.bits) \in Nat \ {0}
    BY <2>1, TwoPowers
  <2> DEFINE a == Power(2, ByteBits - f.bits)
             e == Power(Radix, sz - 1)
  <2>5. a \in Nat \ {0} /\ e \in Nat \ {0} /\ Power(Radix, sz) = ((2 * h) * a) * e
    BY <1>5, <2>2, <2>3, <2>4
  <2> HIDE DEF a, e, h, sz
  <2>6. a * e \in Nat \ {0} /\ ((2 * h) * a) * e = (2 * h) * (a * e)
    BY <1>5, <2>5
  <2>7. QED
    BY <2>5, <2>6
<1>10. x \in {fb, fb - 2 * h} /\ fb \in 0 .. 2 * h - 1
  BY <1>2, <1>5 DEF FieldNumber
<1>11. ASSUME Kind(t) = "signed" PROVE x \in -h .. h - 1
  <2>1. x = IF fb >= h THEN fb - 2 * h ELSE fb
    BY <1>5, <1>11 DEF FieldNumber
  <2> HIDE DEF x, fb, h
  <2>2. QED
    BY <1>5, <1>10, <2>1
<1> HIDE DEF x, fb, h, sz
<1> DEFINE p == Power(Radix, sz)
<1>12. /\ (x % p) % (2 * h) = fb
       /\ (x \in -h .. h - 1 /\ 2 * (x % p) >= p) => ((x % p) - p = x)
       /\ (x \in -h .. h - 1 /\ ~(2 * (x % p) >= p)) => (x % p = x)
  <2>1. p = (2 * h) * c
    BY <1>9
  <2> HIDE DEF p
  <2>2. QED
    <3>1. CutOf(h, fb, x, p)
      BY <1>5, <1>10, <2>1 DEF CutOf
    <3>2. QED
      BY <3>1, CutNumbers
<1>13. AsUint[w] % Power(2, f.bits) = fb
  BY <1>5, <1>8, <1>9, <1>12
<1>14. ASSUME Kind(t) = "signed" PROVE AsInt(w) = x
  <2>1. AsInt(w) = Signed(AsUint[w], sz)
    BY <1>8 DEF AsInt, sz
  <2>2. QED
    BY <1>8, <1>9, <1>11, <1>12, <1>14, <2>1 DEF Signed
<1>15. QED
  BY <1>11, <1>13, <1>14 DEF fb, h

(* The members of a record, by number *)
LEMMA OwnAgree ==
  ASSUME IInv, NEW i, CanFieldAt(val, i)
  PROVE  LET f == Record(val.type).fields[i] IN
         /\ (~IsWhole(f) /\ HasUint[FieldAt(val, i)] /\ (Target.end = Host \/ Size(f.type) = 1)) =>
                /\ AsUint[FieldAt(val, i)] % Power(2, f.bits) = FieldBits(val, f)
                /\ (Kind(f.type) = "signed") =>
                    AsInt(FieldAt(val, i)) \in -(Power(2, f.bits - 1)) .. Power(2, f.bits - 1) - 1
         /\ ~IsWhole(f) => ~HasAddress(FieldAt(val, i))
<1> DEFINE f == Record(val.type).fields[i]
           w == CreateField(val, f)
<1>1. Kind(val.type) = "record" /\ i \in DOMAIN Record(val.type).fields /\ FieldAt(val, i) = w
  BY DEF CanFieldAt, IsRecord, FieldAt
<1>2. FieldFacts(f) /\ (~IsWhole(f) => f.bits # 0 /\ (f.offset % ByteBits) + f.bits <= ByteBits)
  BY <1>1, ValIs, MembersAre, RecordLies
<1>3. calls \in 0 .. MaxCalls /\ MemOK /\ Near(val, calls)
  BY ValIs DEF IInv
<1>4. ~IsWhole(f) => ~HasAddress(w)
  BY DEF CreateField, Temporary, HasAddress
<1> HIDE DEF f
<1>5. ASSUME ~IsWhole(f), HasUint[w], Target.end = Host \/ Size(f.type) = 1
      PROVE  /\ AsUint[w] % Power(2, f.bits) = FieldBits(val, f)
             /\ Kind(f.type) = "signed" =>
                    AsInt(w) \in -(Power(2, f.bits - 1)) .. Power(2, f.bits - 1) - 1
  BY <1>2, <1>3, <1>5, BitsShown
<1> HIDE DEF w
<1>6. QED
  BY Zenon, <1>1, <1>4, <1>5 DEF f

(* A member by name, by number, through its pointer and by a pointer to    *)
(* member is one, and a bit-field shows its bits: for records and members  *)
(* of every size.                                                          *)
THEOREM MembersAgree == Spec => []FieldsAgree
<1>1. ASSUME IInv, ~HasAddress(val), NEW nm PROVE ~CanFieldPointer(val, nm)
  BY <1>1 DEF CanFieldPointer
<1>2. IInv => FieldsAgree
  BY Zenon, <1>1, MemVarsAgree, NamedAgree, NumberedAgree, OwnAgree DEF FieldsAgree
<1>3. QED
  BY <1>2, InitIInv, NextIInv, PTL DEF Spec

-----------------------------------------------------------------------------
(* The objects in objects *)

Bare  == {t \in TypeIds : Untypedef[t] = t}
Parts == Bare \X Nat                    \* types without typedefs, and addresses

(* What a type without typedefs is of, if it is of objects *)
LEMMA BareTypes ==
  /\ \A t \in TypeIds : Untypedef[t] \in Bare
  /\ \A t \in Bare : /\ t \in TypeIds /\ Untypedef[t] = t
                     /\ Kind(t) \in {"record", "array", "vector"} =>
                            /\ Len(t) = 1 /\ t[1] \in Aggregates /\ t = <<t[1]>>
                            /\ Record(t) = Decl[t[1]] /\ Decl[t[1]].kind = Kind(t)
<1>1. \A t \in TypeIds : Untypedef[t] \in Bare
  BY Untyped DEF Bare
<1>2. ASSUME NEW t \in Bare, Kind(t) \in {"record", "array", "vector"}
      PROVE  /\ Len(t) = 1 /\ t[1] \in Aggregates /\ t = <<t[1]>>
             /\ Record(t) = Decl[t[1]] /\ Decl[t[1]].kind = Kind(t)
  <2>1. t \in TypeIds /\ Untypedef[t] = t
    BY DEF Bare
  <2>2. Len(t) = 1 /\ t[1] \in DOMAIN Decl /\ Kind(t) = Record(t).kind
    BY <1>2, <2>1, KindsAre
  <2>3. Record(t) = Decl[t[1]]
    BY <2>1 DEF Record
  <2>4. t = <<t[1]>>
    <3>1. t \in Seq({"ptr"} \cup DOMAIN Decl)
      BY <2>1, TypeParts
    <3>2. QED
      BY <2>2, <3>1
  <2>5. QED
    BY <1>2, <2>2, <2>3, <2>4 DEF Aggregates
<1>3. QED
  BY <1>1, <1>2 DEF Bare

(* The parts of an object are objects, of the types its type is made of *)
LEMMA PartsAre ==
  ASSUME NEW p \in Parts
  PROVE  /\ PartsIn(p) \subseteq Parts
         /\ PartsIn(p) # {} => p[1] = <<p[1][1]>> /\ p[1][1] \in Aggregates
         /\ \A q \in PartsIn(p) : q[1] \in MadeOf(p[1][1])
<1> DEFINE t == p[1]
<1>1. t \in Bare /\ p[2] \in Nat /\ t \in TypeIds
  BY BareTypes DEF Parts
<1>2. CASE Kind(t) = "record"
  <2> DEFINE r == Record(t)
  <2>1. /\ t = <<t[1]>> /\ t[1] \in Aggregates /\ t[1] \in DOMAIN Decl
        /\ r = Decl[t[1]] /\ Decl[t[1]].kind = "record"
    BY <1>1, <1>2, BareTypes DEF Aggregates
  <2>2. /\ \A i \in DOMAIN r.bases : r.bases[i].type \in TypeIds /\ r.bases[i].offset \in Nat
        /\ \A i \in DOMAIN r.fields : r.fields[i].type \in TypeIds /\ r.fields[i].offset \in Nat
    BY <1>1, <1>2, MembersAre, FarIs DEF FieldFacts
  <2>3. MadeOf(t[1]) = {Untypedef[r.bases[i].type] : i \in DOMAIN r.bases} \cup
                       {Untypedef[r.fields[i].type] : i \in DOMAIN r.fields}
    BY <2>1 DEF MadeOf
  <2>4. \A q \in PartsIn(p) :
            \/ \E i \in DOMAIN r.bases :
                    q = <<Untypedef[r.bases[i].type], p[2] + r.bases[i].offset \div ByteBits>>
            \/ \E i \in DOMAIN r.fields :
                    q = <<Untypedef[r.fields[i].type], p[2] + r.fields[i].offset \div ByteBits>>
    BY <1>2 DEF PartsIn, BasesIn
  <2> HIDE DEF r
  <2>5. ASSUME NEW q \in PartsIn(p) PROVE q \in Parts /\ q[1] \in MadeOf(t[1])
    <3>1. CASE \E i \in DOMAIN r.bases :
                    q = <<Untypedef[r.bases[i].type], p[2] + r.bases[i].offset \div ByteBits>>
      BY <1>1, <2>2, <2>3, <3>1, BareTypes, BytesOf DEF Parts
    <3>2. CASE \E i \in DOMAIN r.fields :
                    q = <<Untypedef[r.fields[i].type], p[2] + r.fields[i].offset \div ByteBits>>
      BY <1>1, <2>2, <2>3, <3>2, BareTypes, BytesOf DEF Parts
    <3>3. QED
      BY <2>4, <3>1, <3>2
  <2>6. QED
    BY <2>1, <2>5
<1>3. CASE Kind(t) \in {"array", "vector"}
  <2> DEFINE d == Decl[t[1]]
             u == Untypedef[d.base]
             z == Size(d.base)
  <2>1. /\ t = <<t[1]>> /\ t[1] \in Aggregates /\ t[1] \in DOMAIN Decl
        /\ Record(t) = d /\ d.kind \in {"array", "vector"}
    BY <1>1, <1>3, BareTypes DEF Aggregates
  <2>2. d.base \in TypeIds /\ d.length \in Nat
    BY <2>1, TypesAssumption
  <2>3. u \in Bare /\ z \in Nat
    BY <2>2, BareTypes, SizesAre
  <2>4. MadeOf(t[1]) = {u}
    BY <2>1 DEF MadeOf
  <2>5. PartsIn(p) = {<<u, p[2] + i * z>> : i \in 0 .. d.length - 1}
    BY <1>3, <2>1 DEF PartsIn
  <2> HIDE DEF d, u, z
  <2>6. \A i \in 0 .. d.length - 1 : p[2] + i * z \in Nat
    <3>1. \A i \in Nat : i * z \in Nat
      BY <2>3
    <3>2. QED
      BY <1>1, <2>2, <3>1
  <2>7. QED
    BY <2>1, <2>3, <2>4, <2>5, <2>6 DEF Parts
<1>4. CASE Kind(t) \notin {"record", "array", "vector"}
  BY <1>4 DEF PartsIn
<1>5. QED
  BY <1>2, <1>3, <1>4

(* A set of objects with the objects directly in them *)
WithParts(T) == UNION {{p} \cup PartsIn(p) : p \in T}

LEMMA WithPartsIs ==
  ASSUME NEW T \in SUBSET Parts
  PROVE  /\ WithParts(T) \in SUBSET Parts /\ T \subseteq WithParts(T)
         /\ \A p \in T : PartsIn(p) \subseteq WithParts(T)
         /\ \A q \in WithParts(T) : q \in T \/ \E p \in T : q \in PartsIn(p)
<1>1. \A p \in T : p \in Parts /\ PartsIn(p) \subseteq Parts
  BY PartsAre
<1>2. QED
  BY <1>1 DEF WithParts

(* The objects of a debuggee and what is in them down to any depth *)
Listed(n) == {<<Untypedef[o.type], o.addr>> : o \in Images[n].objects}

Descends(f, S, k) ==
    f \in [0 .. k -> SUBSET Parts] /\ f[0] = S /\ \A j \in 1 .. k : f[j] = WithParts(f[j - 1])

LEMMA ListedParts == \A n \in DOMAIN Images : Listed(n) \in SUBSET Parts
<1>1. SUFFICES ASSUME NEW n \in DOMAIN Images, NEW o \in Images[n].objects
               PROVE  <<Untypedef[o.type], o.addr>> \in Parts
  BY DEF Listed
<1>2. Images[n].objects \subseteq [type : TypeIds, addr : 0 .. Wide - 1]
  BY ImagesAssumption
<1>3. o.type \in TypeIds /\ o.addr \in Nat
  BY <1>2, Radices
<1>4. QED
  BY <1>3, BareTypes DEF Parts

LEMMA DescentExists ==
  ASSUME NEW S \in SUBSET Parts, NEW n \in Nat
  PROVE  \E f : Descends(f, S, n)
<1> DEFINE T == {m \in Nat : ~ \E f : Descends(f, S, m)}
<1>1. SUFFICES ASSUME T # {} PROVE FALSE
  OBVIOUS
<1>2. PICK m \in T : \A k \in T : m <= k
  <2>1. T \in SUBSET Nat
    OBVIOUS
  <2> HIDE DEF T
  <2>2. QED
    BY <1>1, <2>1, Smallest
<1>3. CASE m = 0
  <2>1. Descends([k \in 0 .. 0 |-> S], S, 0)
    BY DEF Descends
  <2>2. QED
    BY <1>3, <2>1
<1>4. CASE m # 0
  <2>1. m - 1 \in Nat /\ m - 1 \notin T
    BY <1>2, <1>4
  <2>2. PICK f : Descends(f, S, m - 1)
    BY <2>1
  <2> DEFINE h == [k \in 0 .. m |-> IF k = m THEN WithParts(f[m - 1]) ELSE f[k]]
  <2>3. f[m - 1] \in SUBSET Parts /\ WithParts(f[m - 1]) \in SUBSET Parts
    BY <2>1, <2>2, WithPartsIs DEF Descends
  <2>4. \A k \in 0 .. m - 1 : f[k] \in SUBSET Parts /\ h[k] = f[k] /\ k \in 0 .. m
    BY <2>1, <2>2 DEF Descends
  <2>5. h \in [0 .. m -> SUBSET Parts] /\ h[0] = S /\ h[m] = WithParts(f[m - 1])
    BY <1>4, <2>1, <2>2, <2>3, <2>4 DEF Descends
  <2>6. ASSUME NEW k \in 1 .. m PROVE h[k] = WithParts(h[k - 1])
    <3>1. CASE k = m
      <4>1. m - 1 \in 0 .. m - 1
        BY <2>1
      <4>2. h[m - 1] = f[m - 1]
        BY <2>4, <4>1
      <4> HIDE DEF h
      <4>3. QED
        BY <2>5, <3>1, <4>2
    <3>2. CASE k # m
      <4>1. k \in 1 .. m - 1 /\ k \in 0 .. m - 1 /\ k - 1 \in 0 .. m - 1
        BY <3>2
      <4>2. h[k] = f[k] /\ h[k - 1] = f[k - 1]
        BY <2>4, <4>1
      <4> HIDE DEF h
      <4>3. QED
        BY <2>2, <4>1, <4>2 DEF Descends
    <3>3. QED
      BY <3>1, <3>2
  <2> HIDE DEF h
  <2>7. Descends(h, S, m)
    BY <2>5, <2>6 DEF Descends
  <2>8. QED
    BY <2>7
<1>5. QED
  BY <1>3, <1>4

Depth == Cardinality(DOMAIN Decl)

LEMMA DepthIs == Depth \in Nat /\ IsFiniteSet(DOMAIN Decl)
BY TypesAssumption, FS_CardinalityType DEF Depth

(* Inside goes down as deep as there are declared types *)
LEMMA InsideIs ==
  ASSUME NEW n \in DOMAIN Images
  PROVE  \E f : Descends(f, Listed(n), Depth) /\ Inside[n] = f[Depth]
<1> DEFINE S == Listed(n)
           D(f) == f = [k \in 0 .. Depth |-> IF k = 0 THEN S ELSE WithParts(f[k - 1])]
           all == CHOOSE f : D(f)
<1>1. PICK f : Descends(f, S, Depth)
  BY DescentExists, ListedParts, DepthIs
<1>2. D(f)
  BY <1>1 DEF Descends
<1>3. D(all)
  <2> HIDE DEF D
  <2>1. QED
    BY <1>2
<1>4. Inside[n] = all[Depth]
  BY DEF Inside, Closure, WithParts, Depth, Listed
<1>5. Descends(all, S, Depth)
  <2>1. all = [k \in 0 .. Depth |-> IF k = 0 THEN S ELSE WithParts(all[k - 1])]
    BY <1>3
  <2> HIDE DEF all, S
  <2>2. all[0] = S /\ \A k \in 1 .. Depth : all[k] = WithParts(all[k - 1])
    BY <2>1, DepthIs
  <2> HIDE DEF D
  <2> DEFINE T == {k \in 0 .. Depth : all[k] \notin SUBSET Parts}
  <2>3. T = {}
    <3>1. SUFFICES ASSUME T # {} PROVE FALSE
      OBVIOUS
    <3>2. T \in SUBSET Nat
      BY DepthIs
    <3>3. PICK m \in T : \A k \in T : m <= k
      <4> HIDE DEF T
      <4>1. QED
        BY <3>1, <3>2, Smallest
    <3>4. m # 0
      BY <2>2, <3>3, ListedParts DEF S
    <3>5. m - 1 \in 0 .. Depth /\ m - 1 \notin T /\ m \in 1 .. Depth
      BY <3>3, <3>4, DepthIs
    <3>6. all[m - 1] \in SUBSET Parts
      BY <3>5
    <3>7. all[m] \in SUBSET Parts
      BY <2>2, <3>5, <3>6, WithPartsIs
    <3>8. QED
      BY <3>3, <3>7
  <2>4. all = [k \in 0 .. Depth |-> all[k]]
    BY <2>1
  <2>5. all \in [0 .. Depth -> SUBSET Parts]
    <3>1. \A k \in 0 .. Depth : all[k] \in SUBSET Parts
      BY <2>3
    <3> HIDE DEF T
    <3>2. QED
      BY <2>4, <3>1
  <2>6. QED
    BY <2>2, <2>5 DEF Descends
<1>6. QED
  BY <1>4, <1>5

(* Declared types, each of which is directly in the one before *)
Chain(c, k) ==
    c \in [0 .. k -> Aggregates] /\ \A i \in 0 .. k - 1 : <<c[i + 1]>> \in MadeOf(c[i])

(* There are only so many types, and none is in one of its own *)
LEMMA ChainsAreShort == ~ \E c : Chain(c, Depth)
<1>1. SUFFICES ASSUME NEW c, Chain(c, Depth) PROVE FALSE
  OBVIOUS
<1>2. PICK x \in 0 .. Depth, y \in 0 .. Depth : x # y /\ c[x] = c[y]
  <2>1. c \in [0 .. Depth -> DOMAIN Decl]
    BY <1>1 DEF Chain, Aggregates
  <2>2. IsFiniteSet(0 .. Depth) /\ Cardinality(0 .. Depth) = Depth + 1
    BY DepthIs, FS_Interval
  <2>3. Cardinality(DOMAIN Decl) < Cardinality(0 .. Depth)
    BY <2>2, DepthIs DEF Depth
  <2>4. QED
    BY <2>1, <2>2, <2>3, DepthIs, FS_PigeonHole
<1>3. PICK i \in 0 .. Depth, j \in 0 .. Depth : i < j /\ c[i] = c[j]
  <2>1. x < y \/ y < x
    BY <1>2
  <2>2. QED
    BY <1>2, <2>1
<1> DEFINE S == {c[k] : k \in i .. j - 1}
<1>4. S \in SUBSET Aggregates /\ c[i] \in S
  BY <1>1, <1>3, DepthIs DEF Chain
<1>5. PICK m \in S : \A n \in S : <<n>> \notin MadeOf(m)
  <2> HIDE DEF S
  <2>1. S # {}
    BY <1>4
  <2>2. QED
    BY <1>4, <2>1, TypesAssumption
<1>6. PICK k \in i .. j - 1 : m = c[k]
  BY <1>5
<1>7. c[k + 1] \in S
  BY <1>3, <1>4, <1>6
<1>8. k \in 0 .. Depth - 1
  BY <1>3, <1>6, DepthIs
<1>9. <<c[k + 1]>> \in MadeOf(c[k])
  BY <1>1, <1>8 DEF Chain
<1>10. QED
  BY <1>5, <1>6, <1>7, <1>9

(* Whether object p is reached in step k and not before *)
FirstIn(f, k, p) == p \in f[k] /\ (k # 0 => p \notin f[k - 1])

(* What is reached late lies under as many objects *)
LEMMA LateParts ==
  ASSUME NEW S \in SUBSET Parts, NEW f, Descends(f, S, Depth)
  PROVE  \A k \in 0 .. Depth : \A p : FirstIn(f, k, p) /\ PartsIn(p) # {} =>
            \E c : Chain(c, k) /\ p[1] = <<c[k]>>
<1> DEFINE Good(k, p) == FirstIn(f, k, p) /\ PartsIn(p) # {} => \E c : Chain(c, k) /\ p[1] = <<c[k]>>
           T == {k \in 0 .. Depth : ~ \A p : Good(k, p)}
<1>1. SUFFICES ASSUME T # {} PROVE FALSE
  OBVIOUS
<1>2. PICK m \in T : \A k \in T : m <= k
  <2>1. T \in SUBSET Nat
    BY DepthIs
  <2> HIDE DEF T
  <2>2. QED
    BY <1>1, <2>1, Smallest
<1>3. m \in 0 .. Depth /\ m \in Nat
  BY <1>2, DepthIs
<1>4. PICK p : FirstIn(f, m, p) /\ PartsIn(p) # {} /\ ~ \E c : Chain(c, m) /\ p[1] = <<c[m]>>
  BY <1>2
<1>5. p \in f[m] /\ p \in Parts
  BY <1>3, <1>4 DEF FirstIn, Descends
<1>6. p[1] = <<p[1][1]>> /\ p[1][1] \in Aggregates
  BY <1>4, <1>5, PartsAre
<1>7. CASE m = 0
  <2> DEFINE c == [i \in 0 .. 0 |-> p[1][1]]
  <2>1. Chain(c, 0) /\ c[0] = p[1][1]
    BY <1>6 DEF Chain
  <2> HIDE DEF c
  <2>2. QED
    BY <1>4, <1>6, <1>7, <2>1
<1>8. CASE m # 0
  <2>1. /\ m - 1 \in 0 .. Depth /\ m \in 1 .. Depth /\ m - 1 \in Nat
        /\ (m - 1 # 0 => m - 1 \in 1 .. Depth /\ (m - 1) - 1 \in 0 .. Depth)
        /\ ~(m <= m - 1)
    BY <1>3, <1>8, DepthIs
  <2>2. f[m] = WithParts(f[m - 1]) /\ f[m - 1] \in SUBSET Parts
    BY <2>1 DEF Descends
  <2>3. PICK q \in f[m - 1] : p \in PartsIn(q)
    BY <1>4, <1>5, <1>8, <2>2, WithPartsIs DEF FirstIn
  <2>4. FirstIn(f, m - 1, q)
    <3>1. ASSUME m - 1 # 0, q \in f[(m - 1) - 1] PROVE FALSE
      <4>1. f[m - 1] = WithParts(f[(m - 1) - 1]) /\ f[(m - 1) - 1] \in SUBSET Parts
        BY <2>1, <3>1 DEF Descends
      <4>2. p \in f[m - 1]
        BY <2>3, <3>1, <4>1, WithPartsIs
      <4>3. QED
        BY <1>4, <1>8, <4>2 DEF FirstIn
    <3>2. QED
      BY <2>3, <3>1 DEF FirstIn
  <2>5. m - 1 \notin T
    BY <1>2, <2>1
  <2>6. PICK c : Chain(c, m - 1) /\ q[1] = <<c[m - 1]>>
    BY <2>1, <2>3, <2>4, <2>5
  <2> DEFINE d == [i \in 0 .. m |-> IF i = m THEN p[1][1] ELSE c[i]]
  <2>7. p[1] \in MadeOf(c[m - 1])
    <3>1. q \in Parts /\ p[1] \in MadeOf(q[1][1])
      BY <2>2, <2>3, PartsAre
    <3>2. q[1][1] = c[m - 1]
      BY <2>6
    <3>3. QED
      BY <3>1, <3>2
  <2>8. /\ \A i \in 0 .. m - 1 : i \in 0 .. m /\ d[i] = c[i] /\ c[i] \in Aggregates
        /\ d[m] = p[1][1] /\ m - 1 \in 0 .. m - 1
    BY <1>3, <2>1, <2>6 DEF Chain
  <2>9. d \in [0 .. m -> Aggregates]
    BY <1>6, <2>6, <1>3, <1>8 DEF Chain
  <2> HIDE DEF d
  <2>10. ASSUME NEW i \in 0 .. m - 1 PROVE <<d[i + 1]>> \in MadeOf(d[i])
    <3>1. CASE i = m - 1
      <4>1. i + 1 = m
        BY <1>3, <3>1
      <4>2. QED
        BY <1>6, <2>7, <2>8, <3>1, <4>1
    <3>2. CASE i # m - 1
      <4>1. i \in 0 .. (m - 1) - 1 /\ i + 1 \in 0 .. m - 1
        BY <1>3, <3>2
      <4>2. <<c[i + 1]>> \in MadeOf(c[i])
        BY <2>6, <4>1 DEF Chain
      <4>3. QED
        BY <2>8, <4>1, <4>2
    <3>3. QED
      BY <3>1, <3>2
  <2>11. Chain(d, m) /\ p[1] = <<d[m]>>
    BY <1>6, <2>8, <2>9, <2>10 DEF Chain
  <2>12. QED
    BY <1>4, <2>11
<1>9. QED
  BY <1>7, <1>8

(* The objects of a debuggee are in Inside, and with each all objects in it *)
LEMMA InsideClosed ==
  ASSUME NEW n \in DOMAIN Images
  PROVE  /\ Inside[n] \in SUBSET Parts /\ Listed(n) \subseteq Inside[n]
         /\ \A p \in Inside[n] : PartsIn(p) \subseteq Inside[n]
<1> DEFINE S == Listed(n)
<1>1. S \in SUBSET Parts
  BY ListedParts
<1>2. PICK f : Descends(f, S, Depth) /\ Inside[n] = f[Depth]
  BY InsideIs
<1> HIDE DEF S
<1>3. Depth \in Nat /\ Depth \in 0 .. Depth
  BY DepthIs
<1>4. f[Depth] \in SUBSET Parts
  BY <1>2, <1>3 DEF Descends
<1>5. ASSUME NEW p \in f[Depth] PROVE PartsIn(p) \subseteq f[Depth]
  <2>1. CASE PartsIn(p) = {}
    BY <2>1
  <2>2. CASE PartsIn(p) # {}
    <3>1. ~FirstIn(f, Depth, p)
      BY <1>1, <1>2, <1>3, <2>2, LateParts, ChainsAreShort
    <3>2. Depth # 0 /\ p \in f[Depth - 1]
      BY <1>5, <3>1 DEF FirstIn
    <3>3. Depth \in 1 .. Depth /\ Depth - 1 \in 0 .. Depth
      BY <1>3, <3>2
    <3>4. f[Depth] = WithParts(f[Depth - 1]) /\ f[Depth - 1] \in SUBSET Parts
      BY <1>2, <3>3 DEF Descends
    <3>5. QED
      BY <3>2, <3>4, WithPartsIs
  <2>3. QED
    BY <2>1, <2>2
<1>6. S \subseteq f[Depth]
  <2> DEFINE T == {k \in 0 .. Depth : ~(S \subseteq f[k])}
  <2>1. T = {}
    <3>1. SUFFICES ASSUME T # {} PROVE FALSE
      OBVIOUS
    <3>2. PICK m \in T : \A k \in T : m <= k
      <4>1. T \in SUBSET Nat
        BY <1>3
      <4> HIDE DEF T
      <4>2. QED
        BY <3>1, <4>1, Smallest
    <3>3. m # 0
      BY <1>2, <3>2 DEF Descends
    <3>4. m - 1 \in 0 .. Depth /\ m \in 1 .. Depth /\ m - 1 \notin T
      BY <1>3, <3>2, <3>3
    <3>5. S \subseteq f[m - 1]
      BY <3>4
    <3>6. f[m] = WithParts(f[m - 1]) /\ f[m - 1] \in SUBSET Parts
      BY <1>2, <3>4 DEF Descends
    <3>7. f[m - 1] \subseteq f[m]
      BY <3>6, WithPartsIs
    <3>8. QED
      BY <3>2, <3>5, <3>7
  <2>2. QED
    BY <1>3, <2>1
<1>7. QED
  BY <1>2, <1>4, <1>5, <1>6 DEF S

-----------------------------------------------------------------------------
(* What the debuggee's objects hold *)

(* The addresses of objects are within a pointer's reach *)
LEMMA HeldFits ==
  ASSUME MemOK, NEW t, NEW a, Holds(a, t)
  PROVE  Fits(a)
<1>1. image \in DOMAIN Images /\ <<Untypedef[t], a>> \in Inside[image]
  BY DEF MemOK, Holds
<1>2. QED
  BY <1>1, ObjectsAssumption DEF Fits

(* An object and its type, without typedefs or with *)
LEMMA HeldParts ==
  ASSUME MemOK, NEW t \in TypeIds, NEW a, Holds(a, t)
  PROVE  LET p == <<Untypedef[t], a>> IN
         /\ PartsIn(p) \subseteq Inside[image]
         /\ Kind(p[1]) = Kind(t) /\ Record(p[1]) = Record(t) /\ p[1] = Untypedef[t] /\ p[2] = a
         /\ Holds(a, Untypedef[t])
<1>1. image \in DOMAIN Images /\ <<Untypedef[t], a>> \in Inside[image]
  BY DEF MemOK, Holds
<1>2. PartsIn(<<Untypedef[t], a>>) \subseteq Inside[image]
  BY <1>1, InsideClosed
<1>3. Untypedef[Untypedef[t]] = Untypedef[t] /\ Kind(Untypedef[t]) = Kind(t)
  BY Untyped, UntypedKinds
<1>4. QED
  BY <1>1, <1>2, <1>3 DEF Record, Holds

(* The members of an object that are no bit-fields are objects *)
LEMMA MembersHeld ==
  ASSUME MemOK, NEW t \in TypeIds, NEW a, Holds(a, t), Kind(t) = "record",
         NEW i \in DOMAIN Record(t).fields, IsWhole(Record(t).fields[i])
  PROVE  Holds(a + (Record(t).fields[i].offset \div ByteBits), Record(t).fields[i].type)
<1> DEFINE p == <<Untypedef[t], a>>
           r == Record(t)
<1>1. /\ PartsIn(p) \subseteq Inside[image]
      /\ Kind(p[1]) = "record" /\ Record(p[1]) = r /\ p[2] = a
  BY HeldParts
<1> HIDE DEF p
<1>2. PartsIn(p) = BasesIn(p) \cup
            {<<Untypedef[f.type], a + f.offset \div ByteBits>> :
                f \in {f \in {r.fields[k] : k \in DOMAIN r.fields} : IsWhole(f)}}
  BY <1>1 DEF PartsIn
<1>3. r.fields[i] \in {f \in {r.fields[k] : k \in DOMAIN r.fields} : IsWhole(f)}
  OBVIOUS
<1> HIDE DEF r
<1>4. <<Untypedef[r.fields[i].type], a + r.fields[i].offset \div ByteBits>> \in PartsIn(p)
  BY <1>2, <1>3
<1>5. QED
  BY <1>1, <1>4 DEF Holds, r

(* So are its bases *)
LEMMA BasesHeld ==
  ASSUME MemOK, NEW t \in TypeIds, NEW a, Holds(a, t), Kind(t) = "record",
         NEW i \in DOMAIN Record(t).bases
  PROVE  Holds(a + (Record(t).bases[i].offset \div ByteBits), Record(t).bases[i].type)
<1> DEFINE p == <<Untypedef[t], a>>
           r == Record(t)
<1>1. /\ PartsIn(p) \subseteq Inside[image]
      /\ Kind(p[1]) = "record" /\ Record(p[1]) = r /\ p[2] = a
  BY HeldParts
<1> HIDE DEF p
<1>2. BasesIn(p) \subseteq PartsIn(p)
  BY <1>1 DEF PartsIn
<1>3. BasesIn(p) = {<<Untypedef[b.type], a + b.offset \div ByteBits>> :
                        b \in {r.bases[k] : k \in DOMAIN r.bases}}
  BY <1>1 DEF BasesIn
<1>4. r.bases[i] \in {r.bases[k] : k \in DOMAIN r.bases}
  OBVIOUS
<1> HIDE DEF r
<1>5. <<Untypedef[r.bases[i].type], a + r.bases[i].offset \div ByteBits>> \in BasesIn(p)
  BY <1>3, <1>4
<1>6. QED
  BY <1>1, <1>2, <1>5 DEF Holds, r

(* So are the elements of an array *)
LEMMA ElementsHeld ==
  ASSUME MemOK, NEW t \in TypeIds, NEW a, Holds(a, t), Kind(t) \in {"array", "vector"},
         NEW i \in Nat, i < Record(t).length
  PROVE  Holds(a + i * Size(Record(t).base), Record(t).base)
<1> DEFINE p == <<Untypedef[t], a>>
           r == Record(t)
<1>1. /\ PartsIn(p) \subseteq Inside[image]
      /\ Kind(p[1]) \in {"array", "vector"} /\ Record(p[1]) = r /\ p[2] = a
  BY HeldParts
<1> HIDE DEF p
<1>2. PartsIn(p) = {<<Untypedef[r.base], a + k * Size(r.base)>> : k \in 0 .. r.length - 1}
  BY <1>1 DEF PartsIn
<1>3. r.length \in Nat
  <2>1. PICK n \in DOMAIN Decl : r = Decl[n]
    BY KindsAre
  <2>2. Decl[n].kind \in {"array", "vector"}
    BY <2>1, KindsAre
  <2>3. QED
    BY <2>1, <2>2, TypesAssumption
<1>4. i \in 0 .. r.length - 1
  BY <1>3
<1> HIDE DEF r
<1>5. <<Untypedef[r.base], a + i * Size(r.base)>> \in PartsIn(p)
  BY <1>2, <1>4
<1>6. QED
  BY <1>1, <1>5 DEF Holds, r

(* A member found by name, its own or that of a base *)
LEMMA NamedHeld ==
  ASSUME MemOK, NEW t \in TypeIds, NEW a, Holds(a, t), Kind(t) = "record",
         NEW nm, NEW f \in Found(t, nm), IsWhole(f)
  PROVE  Holds(a + (f.offset \div ByteBits), f.type)
<1> DEFINE r == Record(t)
<1>1. FieldFacts(f) /\ a \in Nat /\ ByteBits \in Nat \ {0}
  BY MembersAre, HeldFits, FitsIs, SizesAssumption
<1>2. CASE \E i \in DOMAIN r.fields : f = Shifted(r.fields[i], 0)
  <2>1. PICK i \in DOMAIN r.fields : f = Shifted(r.fields[i], 0)
    BY <1>2
  <2>2. FieldFacts(r.fields[i])
    BY MembersAre
  <2>3. r.fields[i].offset \in Nat
    BY <2>2, FarIs DEF FieldFacts
  <2> DEFINE g == r.fields[i]
  <2>4. f.offset = g.offset /\ f.bits = g.bits /\ f.type = g.type
    BY <2>1, <2>3 DEF Shifted
  <2>5. IsWhole(g)
    BY <2>4 DEF IsWhole
  <2>6. Holds(a + (g.offset \div ByteBits), g.type)
    BY <2>5, MembersHeld
  <2>7. QED
    BY <2>4, <2>6
<1>3. CASE \E b \in DOMAIN r.bases : \E i \in DOMAIN Record(r.bases[b].type).fields :
                f = Shifted(Record(r.bases[b].type).fields[i], r.bases[b].offset)
  <2>1. PICK b \in DOMAIN r.bases : \E i \in DOMAIN Record(r.bases[b].type).fields :
                f = Shifted(Record(r.bases[b].type).fields[i], r.bases[b].offset)
    BY <1>3
  <2> DEFINE u == r.bases[b].type
             o == r.bases[b].offset
  <2>2. PICK i \in DOMAIN Record(u).fields : f = Shifted(Record(u).fields[i], o)
    BY <2>1
  <2> DEFINE g == Record(u).fields[i]
  <2>3. u \in TypeIds /\ o \in Nat /\ Kind(u) = "record"
    <3>1. u \in TypeIds /\ o \in 0 .. Far
      BY MembersAre
    <3>2. Kind(u) = "record"
      BY RecordIs
    <3>3. QED
      BY <3>1, <3>2, FarIs
  <2>4. o % ByteBits = 0
    <3>1. PICK n \in DOMAIN Decl : r = Decl[n] /\ Decl[n].kind = "record"
      BY KindsAre
    <3>2. \A j \in DOMAIN Decl[n].bases : Decl[n].bases[j].offset % ByteBits = 0
      BY <3>1, TypesAssumption
    <3>3. QED
      BY <3>1, <3>2
  <2>5. Holds(a + (o \div ByteBits), u)
    BY BasesHeld
  <2> HIDE DEF r, u, o
  <2>6. FieldFacts(g)
    BY <2>2, <2>3, MembersAre
  <2> HIDE DEF g
  <2>7. g.offset \in Nat
    BY <2>6, FarIs DEF FieldFacts
  <2>8. f.offset = o + g.offset /\ f.bits = g.bits /\ f.type = g.type
    BY <2>2 DEF Shifted, g
  <2> DEFINE e == o \div ByteBits
             d == g.offset \div ByteBits
             m == g.offset % ByteBits
  <2>9. e \in Nat /\ o = ByteBits * e /\ d \in Nat /\ m \in 0 .. ByteBits - 1 /\ g.offset = ByteBits * d + m
    <3>1. e \in Nat /\ d \in Nat /\ m \in 0 .. ByteBits - 1
      BY <2>3, <2>7, BytesOf
    <3>2. o = ByteBits * e + (o % ByteBits) /\ g.offset = ByteBits * d + m
      BY <1>1, <2>3, <2>7, Divided
    <3> HIDE DEF e, d, m
    <3>3. ByteBits * e \in Nat
      BY <1>1, <3>1
    <3>4. QED
      BY <2>4, <3>1, <3>2, <3>3
  <2> HIDE DEF e, d, m
  <2>10. f.offset = ByteBits * (e + d) + m
    <3>1. ByteBits * (e + d) = ByteBits * e + ByteBits * d
      BY <1>1, <2>9
    <3>2. ByteBits * e \in Nat /\ ByteBits * d \in Nat
      BY <1>1, <2>9
    <3>3. QED
      BY <2>8, <2>9, <3>1, <3>2
  <2>11. f.offset \div ByteBits = e + d /\ f.offset % ByteBits = m
    <3> DEFINE s == e + d
    <3>1. s \in Nat /\ f.offset = ByteBits * s + m
      BY <2>9, <2>10
    <3> HIDE DEF s
    <3>2. (ByteBits * s + m) \div ByteBits = s /\ (ByteBits * s + m) % ByteBits = m
      BY Zenon, <1>1, <2>9, <3>1, DividedParts
    <3>3. QED
      BY <3>1, <3>2 DEF s
  <2>12. IsWhole(g)
    BY <2>8, <2>11 DEF IsWhole, m
  <2>13. Holds((a + e) + d, g.type)
    BY <2>2, <2>3, <2>5, <2>12, MembersHeld DEF e, d, g
  <2>14. (a + e) + d = a + (f.offset \div ByteBits)
    BY <1>1, <2>9, <2>11
  <2>15. QED
    BY <2>8, <2>13, <2>14
<1>4. QED
  BY <1>2, <1>3, FoundIs

-----------------------------------------------------------------------------
(* What a client has that only navigates *)

(* An object of the debuggee's; or a number, or the address of an object   *)
(* or a function, in a temporary                                           *)
GoodVal(v) ==
    IF HasAddress(v) THEN Holds(v.offset, v.type)
    ELSE /\ Kind(v.type) \notin {"record", "array", "vector"}
         /\ IsPointer(v) /\ Base(v.type) # <<"fn">> => Holds(AsUint[v], Base(v.type))

(* The debuggee is then as it was *)
HInv == honest => mem = Memories[image] /\ GoodVal(val)

(* A call that obtains a value keeps the invariant if the value is good *)
LEMMA ObtainHonest ==
  ASSUME HInv, NEW STATE can, NEW STATE v, NEW STATE keeps, NEW STATE fair,
         Obtain(can, v, keeps, fair), Called /\ can /\ honest /\ fair => GoodVal(v)
  PROVE  HInv'
<1>1. /\ image' = image /\ mem' = mem /\ Called
      /\ \/ val' = val /\ honest' = honest
         \/ can /\ val' = v /\ honest' = (honest /\ fair)
  BY DEF Obtain, Throw, debuggee
<1>2. AsUint' = AsUint
  BY <1>1 DEF AsUint, ReadUnsigned, InHostOrder, ReadRaw, At, HasAddress, Target
<1>3. SUFFICES ASSUME honest' PROVE mem' = Memories[image'] /\ GoodVal(val)'
  BY DEF HInv
<1>4. mem = Memories[image] /\ mem' = Memories[image']
  BY <1>1, <1>3 DEF HInv
<1>5. CASE val' = val /\ honest' = honest
  <2>1. GoodVal(val)
    BY <1>3, <1>5 DEF HInv
  <2>2. GoodVal(val)'
    BY <1>1, <1>2, <1>5, <2>1 DEF GoodVal, HasAddress, Holds, IsPointer
  <2>3. QED
    BY <1>4, <2>2
<1>6. CASE can /\ val' = v /\ honest' = (honest /\ fair)
  <2>1. GoodVal(v)
    BY <1>1, <1>3, <1>6
  <2>2. GoodVal(val)'
    BY <1>1, <1>2, <1>6, <2>1 DEF GoodVal, HasAddress, Holds, IsPointer
  <2>3. QED
    BY <1>4, <2>2
<1>7. QED
  BY <1>1, <1>5, <1>6

(* A value in an object's place, o bytes further *)
LEMMA MovedGood ==
  ASSUME IInv, HasAddress(val), NEW t \in TypeIds, NEW o \in Nat, Holds(val.offset + o, t)
  PROVE  GoodVal(Moved(val, t, o))
<1> DEFINE a == val.offset + o
           w == Moved(val, t, o)
<1>1. Fits(a) /\ a % Wide = a /\ a \in 0 .. Wide - 1
  BY ValIs, HeldFits, FitsIs
<1>2. w.type = t /\ w.offset = a % Wide /\ w.store = val.store
  BY ValIs DEF Moved, Values
<1> HIDE DEF a, w
<1>3. HasAddress(w) /\ w.offset = a
  BY <1>1, <1>2 DEF HasAddress
<1>4. Holds(a, t)
  BY DEF a
<1>5. QED
  BY <1>2, <1>3, <1>4 DEF GoodVal, w

(* A bit-field is a number *)
LEMMA BitsGood ==
  ASSUME NEW v, NEW f, ~IsWhole(f), CanCreateField(f)
  PROVE  GoodVal(CreateField(v, f))
<1>1. Kind(f.type) \in {"bool", "signed", "unsigned", "complex_signed", "complex_unsigned"}
  BY DEF CanCreateField, IsBuiltin
<1>2. CreateField(v, f).type = f.type /\ CreateField(v, f).store = "temp"
  BY DEF CreateField, Temporary
<1>3. QED
  BY <1>1, <1>2 DEF GoodVal, HasAddress, IsPointer

(* A member *)
LEMMA FieldHonest == \A i : IInv /\ HInv /\ GoToField(i) => HInv'
<1> SUFFICES ASSUME IInv, HInv, NEW i, GoToField(i) PROVE HInv'
  OBVIOUS
<1> DEFINE f == Record(val.type).fields[i]
<1>1. ASSUME CanFieldAt(val, i), honest PROVE GoodVal(FieldAt(val, i))
  <2>1. CASE IsWhole(f)
    <3>1. Kind(val.type) = "record" /\ i \in DOMAIN Record(val.type).fields /\ GoodVal(val)
      BY <1>1 DEF CanFieldAt, IsRecord, HInv
    <3>2. HasAddress(val) /\ Holds(val.offset, val.type)
      BY <3>1 DEF GoodVal
    <3>3. Holds(val.offset + (f.offset \div ByteBits), f.type)
      BY <2>1, <3>1, <3>2, ValIs, MembersHeld
    <3>4. FieldFacts(f)
      BY <3>1, ValIs, MembersAre
    <3>5. FieldAt(val, i) = Moved(val, f.type, f.offset \div ByteBits)
      BY <2>1 DEF FieldAt, CreateField
    <3> HIDE DEF f
    <3>6. f.type \in TypeIds /\ f.offset \div ByteBits \in Nat
      BY <3>4, BytesOf, FarIs DEF FieldFacts
    <3>7. QED
      BY <3>2, <3>3, <3>5, <3>6, MovedGood
  <2>2. CASE ~IsWhole(f)
    BY <1>1, <2>2, BitsGood DEF CanFieldAt, FieldAt
  <2>3. QED
    BY <2>1, <2>2
<1>2. QED
  BY <1>1, ObtainHonest DEF GoToField

(* A member by name *)
LEMMA NamedHonest == \A nm : IInv /\ HInv /\ GoToNamed(nm) => HInv'
<1> SUFFICES ASSUME IInv, HInv, NEW nm, GoToNamed(nm) PROVE HInv'
  OBVIOUS
<1> DEFINE f == TheField(val.type, nm)
<1>1. ASSUME CanAllField(val, nm), honest PROVE GoodVal(AllField(val, nm))
  <2>1. f \in Found(val.type, nm) /\ CanCreateField(f)
    BY Zenon, <1>1 DEF CanAllField, TheField
  <2>2. AllField(val, nm) = CreateField(val, f)
    BY Zenon DEF AllField
  <2> HIDE DEF f
  <2>3. CASE IsWhole(f)
    <3>1. Kind(val.type) = "record" /\ GoodVal(val)
      BY <1>1 DEF CanAllField, IsRecord, HInv
    <3>2. HasAddress(val) /\ Holds(val.offset, val.type)
      BY <3>1 DEF GoodVal
    <3>3. Holds(val.offset + (f.offset \div ByteBits), f.type)
      BY <2>1, <2>3, <3>1, <3>2, ValIs, NamedHeld
    <3>4. FieldFacts(f)
      BY <2>1, <3>1, ValIs, MembersAre
    <3>5. f.type \in TypeIds /\ f.offset \div ByteBits \in Nat
      BY <3>4, BytesOf, FarIs DEF FieldFacts
    <3>6. CreateField(val, f) = Moved(val, f.type, f.offset \div ByteBits)
      BY <2>3 DEF CreateField
    <3>7. QED
      BY <2>2, <3>2, <3>3, <3>5, <3>6, MovedGood
  <2>4. CASE ~IsWhole(f)
    BY <2>1, <2>2, <2>4, BitsGood
  <2>5. QED
    BY <2>3, <2>4
<1>2. QED
  BY <1>1, ObtainHonest DEF GoToNamed

(* A base *)
LEMMA BaseHonest == \A i : IInv /\ HInv /\ GoToBase(i) => HInv'
<1> SUFFICES ASSUME IInv, HInv, NEW i, GoToBase(i) PROVE HInv'
  OBVIOUS
<1> DEFINE b == Record(val.type).bases[i]
<1>1. ASSUME CanBaseAt(val, i), honest PROVE GoodVal(BaseAt(val, i))
  <2>1. Kind(val.type) = "record" /\ i \in DOMAIN Record(val.type).bases /\ GoodVal(val)
    BY <1>1 DEF CanBaseAt, IsRecord, HInv
  <2>2. HasAddress(val) /\ Holds(val.offset, val.type)
    BY <2>1 DEF GoodVal
  <2>3. Holds(val.offset + (b.offset \div ByteBits), b.type)
    BY <2>1, <2>2, ValIs, BasesHeld
  <2>4. b.type \in TypeIds /\ b.offset \in 0 .. Far
    BY <2>1, ValIs, MembersAre
  <2>5. BaseAt(val, i) = Moved(val, b.type, b.offset \div ByteBits)
    BY DEF BaseAt
  <2> HIDE DEF b
  <2>6. b.offset \div ByteBits \in Nat
    BY <2>4, BytesOf, FarIs
  <2>7. QED
    BY <2>2, <2>3, <2>4, <2>5, <2>6, MovedGood
<1>2. QED
  BY <1>1, ObtainHonest DEF GoToBase

(* An element of an array *)
LEMMA ElementHonest == \A i \in 0 .. 3 : IInv /\ HInv /\ GoToElement(i) => HInv'
<1> SUFFICES ASSUME IInv, HInv, NEW i \in 0 .. 3, GoToElement(i) PROVE HInv'
  OBVIOUS
<1> DEFINE t == Record(val.type).base
<1>1. ASSUME IsArray(val), honest, i < Record(val.type).length PROVE GoodVal(ElementAt(val, i))
  <2>1. Kind(val.type) \in {"array", "vector"} /\ GoodVal(val)
    BY <1>1 DEF IsArray, HInv
  <2>2. HasAddress(val) /\ Holds(val.offset, val.type)
    BY <2>1 DEF GoodVal
  <2>3. Holds(val.offset + i * Size(t), t)
    BY <1>1, <2>1, <2>2, ValIs, ElementsHeld
  <2>4. t \in TypeIds
    <3>1. PICK n \in DOMAIN Decl : Record(val.type) = Decl[n]
      BY <2>1, ValIs, KindsAre
    <3>2. Decl[n].kind \in {"array", "vector"}
      BY <2>1, <3>1, ValIs, KindsAre
    <3>3. QED
      BY <3>1, <3>2, TypesAssumption
  <2>5. ElementAt(val, i) = Moved(val, t, Size(t) * i)
    BY DEF ElementAt
  <2> HIDE DEF t
  <2>6. Size(t) * i \in Nat /\ Size(t) * i = i * Size(t)
    BY <2>4, SizesAre
  <2>7. QED
    BY <2>2, <2>3, <2>4, <2>5, <2>6, MovedGood
<1>2. QED
  BY <1>1, ObtainHonest DEF GoToElement

(* A value cast to its own type *)
LEMMA CastHonest == \A t \in Casts : IInv /\ HInv /\ GoToCast(t) => HInv'
<1> SUFFICES ASSUME IInv, HInv, NEW t \in Casts, GoToCast(t) PROVE HInv'
  OBVIOUS
<1>1. ASSUME honest, t = val.type PROVE GoodVal(Cast(val, t))
  <2>1. GoodVal(val) /\ val \in Values
    BY <1>1, ValIs DEF HInv
  <2> DEFINE w == Cast(val, t)
  <2>2. val.offset \in 0 .. Wide - 1 /\ (val.offset + 0) % Wide = val.offset
    BY <2>1, ValueParts, OwnRemainder, Radices
  <2>3. /\ w \in Values /\ w.type = val.type /\ w.offset = val.offset
        /\ w.store = val.store /\ w.bytes = val.bytes
    BY <1>1, <2>1, <2>2 DEF Cast, Moved, Values
  <2> HIDE DEF w
  <2>4. w = val
    <3>1. /\ w = [type |-> w.type, store |-> w.store, offset |-> w.offset, bytes |-> w.bytes]
          /\ val = [type |-> val.type, store |-> val.store, offset |-> val.offset, bytes |-> val.bytes]
      BY Zenon, <2>1, <2>3, ValueParts
    <3>2. QED
      BY <2>3, <3>1
  <2>5. QED
    BY <2>1, <2>4 DEF w
<1>2. QED
  BY <1>1, ObtainHonest DEF GoToCast

(* The address of an object, in a pointer *)
LEMMA AddressGood ==
  ASSUME MemOK, NEW t \in TypeIds, NEW a, Holds(a, t), NEW u \in TypeIds, Kind(u) = "pointer", Base(u) = t
  PROVE  GoodVal(NumberIn(u, a))
<1> DEFINE w == NumberIn(u, a)
<1>1. Fits(a)
  BY HeldFits
<1>2. AsUint[w] = a /\ w.type = u
  BY <1>1, PointerMade
<1>3. ~HasAddress(w)
  BY DEF NumberIn, Temporary, HasAddress
<1> HIDE DEF w
<1>4. QED
  BY <1>2, <1>3 DEF GoodVal, w

(* The type of an object, without typedefs *)
LEMMA TypeHeld ==
  ASSUME MemOK, NEW t \in TypeIds, NEW a
  PROVE  Holds(a, Untypedef[t]) <=> Holds(a, t)
BY Untyped DEF Holds

(* A value's pointer *)
LEMMA PtrHonest == IInv /\ HInv /\ TakePtr => HInv'
<1> SUFFICES ASSUME IInv, HInv, TakePtr PROVE HInv'
  OBVIOUS
<1>1. ASSUME honest, HasAddress(val) PROVE GoodVal(Ptr(val))
  <2>1. Holds(val.offset, val.type)
    BY <1>1 DEF HInv, GoodVal
  <2> DEFINE t == Type(val)
             u == Pointer(Type(val))
  <2>2. Holds(val.offset, t) /\ t \in TypeIds
    BY <2>1, ValIs, TypeHeld DEF Type
  <2>3. u \in TypeIds /\ Kind(u) = "pointer" /\ Base(u) = t
    BY <2>2, PointerTypes, PointersAre
  <2>4. Ptr(val) = NumberIn(u, val.offset)
    BY DEF Ptr
  <2> HIDE DEF t, u
  <2>5. QED
    BY <2>2, <2>3, <2>4, ValIs, AddressGood
<1>2. QED
  BY <1>1, ObtainHonest DEF TakePtr

(* The pointer to a member *)
LEMMA FieldPointerHonest == \A nm : IInv /\ HInv /\ TakeFieldPointer(nm) => HInv'
<1> SUFFICES ASSUME IInv, HInv, NEW nm, TakeFieldPointer(nm) PROVE HInv'
  OBVIOUS
<1> DEFINE f == TheField(val.type, nm)
<1>1. ASSUME CanFieldPointer(val, nm), honest, ~ByteWide(f) PROVE GoodVal(FieldPointer(val, nm))
  <2>1. /\ Kind(val.type) = "record" /\ Found(val.type, nm) # {} /\ HasAddress(val)
        /\ f.offset % ByteBits = 0 /\ f.bits % ByteBits = 0
    BY <1>1 DEF CanFieldPointer, IsRecord
  <2>2. f \in Found(val.type, nm)
    BY Zenon, <2>1 DEF TheField
  <2>3. IsWhole(f)
    BY <1>1, <2>1 DEF ByteWide
  <2>4. FieldPointer(val, nm) = NumberIn(Pointer(f.type), val.offset + f.offset \div ByteBits)
    BY Zenon DEF FieldPointer
  <2> HIDE DEF f
  <2>5. Holds(val.offset, val.type)
    BY <1>1, <2>1 DEF HInv, GoodVal
  <2>6. Holds(val.offset + (f.offset \div ByteBits), f.type)
    BY <2>1, <2>2, <2>3, <2>5, ValIs, NamedHeld
  <2>7. f.type \in TypeIds
    BY <2>1, <2>2, ValIs, MembersAre DEF FieldFacts
  <2> DEFINE u == Pointer(f.type)
  <2>8. u \in TypeIds /\ Kind(u) = "pointer" /\ Base(u) = f.type
    BY <2>7, PointerTypes, PointersAre
  <2> HIDE DEF u
  <2>9. GoodVal(NumberIn(u, val.offset + (f.offset \div ByteBits)))
    BY <2>6, <2>7, <2>8, ValIs, AddressGood
  <2>10. QED
    BY <2>4, <2>9 DEF u
<1>2. QED
  BY <1>1, ObtainHonest DEF TakeFieldPointer

(* The pointer to a member function *)
LEMMA FunctionHonest == \A nm : IInv /\ HInv /\ TakeFunction(nm) => HInv'
<1> SUFFICES ASSUME IInv, HInv, NEW nm, TakeFunction(nm) PROVE HInv'
  OBVIOUS
<1>1. GoodVal(MemFunPtr(val, nm))
  <2> DEFINE w == MemFunPtr(val, nm)
  <2>1. <<"fn">> \in TypeIds
    BY TypesAssumption, NamesAreTypes
  <2>2. w.type = Pointer(<<"fn">>) /\ w.store = "temp"
    BY DEF MemFunPtr, NumberIn, Temporary
  <2> HIDE DEF w
  <2>3. Kind(w.type) = "pointer" /\ Base(w.type) = <<"fn">> /\ ~HasAddress(w)
    BY <2>1, <2>2, PointersAre DEF HasAddress
  <2>4. QED
    BY <2>3 DEF GoodVal, w
<1>2. QED
  BY <1>1, ObtainHonest DEF TakeFunction

(* A pointer's sum *)
LEMMA StepHonest == \A n \in Steps : IInv /\ HInv /\ StepPointer(n) => HInv'
<1> SUFFICES ASSUME IInv, HInv, NEW n \in Steps, StepPointer(n) PROVE HInv'
  OBVIOUS
<1> DEFINE t == Base(val.type)
           a == AsUint[val] + n * Size(t)
<1>1. ASSUME Called, CanAdd(val), Holds(a, t) PROVE GoodVal(Add(val, n))
  <2>1. Kind(val.type) = "pointer" /\ HasUint[val] /\ t \in TypeIds
    BY <1>1, ValIs, KindsAre DEF CanAdd, IsPointer
  <2>2. n * Size(t) = Size(t) * n
    <3>1. n \in Int /\ Size(t) \in Nat
      BY <2>1, SizesAre, SizesAssumption
    <3>2. QED
      BY <3>1
  <2>3. Add(val, n) = NumberIn(Type(val), a % Wide)
    BY Zenon, <2>2 DEF Add
  <2>4. a % Wide = a
    BY <1>1, ValIs, HeldFits, FitsIs
  <2>5. Type(val) \in TypeIds /\ Kind(Type(val)) = "pointer" /\ Base(Type(val)) = t
    BY <2>1, ValIs, Untyped, UntypedKinds DEF Type, Base
  <2> HIDE DEF a, t
  <2>6. QED
    BY <1>1, <2>1, <2>3, <2>4, <2>5, ValIs, AddressGood
<1>2. QED
  BY <1>1, ObtainHonest DEF StepPointer

(* A call that changes neither the debuggee nor what the client has *)
LEMMA SameHonest == HInv /\ UNCHANGED <<image, mem, val, honest>> => HInv'
<1> SUFFICES ASSUME HInv, UNCHANGED <<image, mem, val, honest>> PROVE HInv'
  OBVIOUS
<1>1. image' = image /\ mem' = mem /\ val' = val /\ honest' = honest
  OBVIOUS
<1>2. AsUint' = AsUint
  BY <1>1 DEF AsUint, ReadUnsigned, InHostOrder, ReadRaw, At, HasAddress, Target
<1>3. GoodVal(val)' <=> GoodVal(val)
  BY <1>1, <1>2 DEF GoodVal, HasAddress, Holds, IsPointer
<1>4. QED
  BY <1>1, <1>3 DEF HInv

(* A write: the client has no longer only navigated, unless it fails *)
LEMMA StoreHonest ==
  ASSUME HInv, NEW STATE can, NEW STATE s, NEW STATE o, Store(can, s, o)
  PROVE  HInv'
<1>1. CASE can
  <2>1. honest' = FALSE
    BY <1>1 DEF Store
  <2>2. QED
    BY <2>1 DEF HInv
<1>2. CASE ~can
  BY <1>2, SameHonest DEF Store
<1>3. QED
  BY <1>1, <1>2

-----------------------------------------------------------------------------
(* Virtual tables *)

(* A pointer in the debuggee's memory, as it was, is read as it is there *)
LEMMA WordIs ==
  ASSUME MemOK, mem = Memories[image], NEW a \in 0 .. Wide - 1, HasWord(image, a)
  PROVE  /\ HasUint[Word(a)] /\ AsUint[Word(a)] = WordAt(image, a)
         /\ WordAt(image, a) \in Nat /\ WordAt(image, a) \in 0 .. Wide - 1
<1> DEFINE w == Word(a)
           s == [k \in 1 .. PtrSize |-> Memories[image][a + k - 1]]
<1>1. w \in Values /\ Near(w, 0)
  BY WordsAre
<1>2. /\ w.type = Pointer(<<"fn">>) /\ w.offset = a /\ HasAddress(w)
      /\ Size(w.type) = PtrSize
  <2>1. <<"fn">> \in TypeIds
    BY TypesAssumption, NamesAreTypes
  <2>2. QED
    BY <2>1, PointersAre DEF Word, InMemory, HasAddress
<1> HIDE DEF w
<1>3. At(w, 0) = a
  <2>1. 0 \in Int /\ w.offset + 0 \in 0 .. Wide - 1 /\ w.offset + 0 = a
    BY <1>2, Radices
  <2>2. QED
    BY <1>1, <2>1, AtIs
<1>4. PtrSize \in WordSizes
  BY FitsIs
<1>5. CanRead(w, PtrSize, 0)
  <2>1. \A k \in 0 .. PtrSize - 1 : a + k \in DOMAIN mem
    BY DEF HasWord
  <2>2. QED
    BY <1>2, <1>3, <2>1 DEF CanRead
<1>6. IsNumber(w, Size(w.type), 0)
  BY <1>2, <1>4, <1>5 DEF IsNumber, WordSizes
<1>7. ReadRaw(w, PtrSize, 0) = s
  BY <1>2, <1>3 DEF ReadRaw
<1>8. ReadUnsigned(w, PtrSize, 0) = WordAt(image, a)
  <2> HIDE DEF s
  <2>1. WordAt(image, a) = Number(IF Images[image].end = Host THEN s ELSE Backwards(s))
    BY Zenon DEF WordAt, s
  <2>2. QED
    BY Zenon, <1>7, <2>1 DEF ReadUnsigned, InHostOrder, Target
<1>9. HasUint[w] /\ AsUint[w] = WordAt(image, a)
  BY <1>1, <1>2, <1>6, <1>8 DEF HasUint, AsUint
<1>10. AsUint[w] \in Nat /\ AsUint[w] \in 0 .. Wide - 1
  <2>1. 0 \in 0 .. MaxCalls
    BY FarIs
  <2>2. QED
    BY <1>1, <1>9, <2>1, UintIs
<1>11. QED
  BY <1>9, <1>10 DEF w

(* The pointer to a part of an object that has virtual functions leads to  *)
(* the object, if there is debug information about its class               *)
LEMMA TableRead ==
  ASSUME MemOK, mem = Memories[image], NEW a \in 0 .. Wide - 1, NEW t, IsDynamic(Base(t)),
         NEW object, object[2] \in 0 .. Wide - 1, HasTable(image, a, object)
  PROVE  LET syms == {s \in SymbolsAt(AsUint[Word(a)]) : s.vtable}
             d    == DynamicType(a, t)
         IN  /\ syms # {} /\ \A s \in syms : <<s.of>> = object[1]
             /\ \/ /\ \E s \in syms : s.of \in Target.known
                   /\ d = [type |-> Pointer(object[1]), addr |-> object[2]]
                \/ /\ \A s \in syms : s.of \notin Target.known
                   /\ \/ d = FromContext(a, t)
                      \/ \E f \in Target.functions :
                            /\ f.record # <<>>
                            /\ d = [type |-> Pointer(f.record), addr |-> object[2]]
<1> DEFINE vt == AsUint[Word(a)]
           syms == {s \in SymbolsAt(vt) : s.vtable}
           recs == UNION {RecordsOf(s, vt) : s \in syms}
           d == DynamicType(a, t)
           rec == CHOOSE r \in recs : TRUE
           top == vt - 2 * PtrSize
<1>1. HasWord(image, a) /\ HasUint[Word(a)] /\ vt = WordAt(image, a) /\ vt \in Nat /\ vt \in 0 .. Wide - 1
  BY WordIs DEF HasTable
<1>2. /\ vt >= 2 * PtrSize /\ HasWord(image, top)
      /\ Signed(WordAt(image, top), PtrSize) = object[2] - a
      /\ syms # {} /\ \A s \in syms : <<s.of>> = object[1]
  <2>1. syms = {s \in Images[image].symbols : s.vtable /\ WordAt(image, a) \in s.lo .. s.hi}
    BY <1>1 DEF SymbolsAt, Target
  <2> HIDE DEF syms
  <2>2. QED
    BY <1>1, <2>1 DEF HasTable
<1>3. HasUint[TopOffset(vt)] /\ AsInt(TopOffset(vt)) = object[2] - a
  <2>1. top \in 0 .. Wide - 1 /\ PtrSize \in WordSizes
    <3>1. PtrSize \in WordSizes /\ PtrSize \in Nat
      BY FitsIs, SizesAssumption
    <3> HIDE DEF vt
    <3>2. QED
      BY <1>1, <1>2, <3>1, Radices
  <2> HIDE DEF top
  <2>2. HasUint[Word(top)] /\ AsUint[Word(top)] = WordAt(image, top)
    BY <1>2, <2>1, WordIs
  <2>3. Size(Word(top).type) = PtrSize
    <3>1. <<"fn">> \in TypeIds
      BY TypesAssumption, NamesAreTypes
    <3>2. QED
      BY <3>1, PointersAre DEF Word, InMemory
  <2>4. AsInt(Word(top)) = object[2] - a
    BY <1>2, <2>2, <2>3 DEF AsInt
  <2>5. TopOffset(vt) = Word(top)
    BY DEF TopOffset, top
  <2>6. QED
    BY <2>2, <2>4, <2>5
<1>4. Start(a, vt) = object[2]
  <2>1. a + (object[2] - a) = object[2] /\ object[2] % Wide = object[2]
    <3> DEFINE o == object[2]
    <3>1. o \in 0 .. Wide - 1 /\ Wide \in Nat \ {0}
      BY Radices
    <3> HIDE DEF o
    <3>2. o % Wide = o /\ a + (o - a) = o
      BY <3>1, OwnRemainder
    <3>3. QED
      BY <3>2 DEF o
  <2>2. QED
    BY <1>3, <2>1 DEF Start
<1>5. d = IF recs # {} THEN [type |-> Pointer(rec), addr |-> object[2]] ELSE FromContext(a, t)
  <2>1. d = IF /\ IsDynamic(Base(t)) /\ HasUint[Word(a)] /\ recs # {}
               /\ vt >= 2 * PtrSize /\ HasUint[TopOffset(vt)]
            THEN [type |-> Pointer(rec), addr |-> Start(a, vt)] ELSE FromContext(a, t)
    BY Zenon DEF DynamicType
  <2> HIDE DEF d, recs, rec, vt
  <2>2. QED
    BY <1>1, <1>2, <1>3, <1>4, <2>1
<1>6. recs # {} => rec \in recs
  <2> HIDE DEF recs
  <2>1. QED
    BY Zenon
<1>7. \A r \in recs : \E s \in syms : r \in RecordsOf(s, vt)
  <2> HIDE DEF syms, vt
  <2>1. QED
    BY Zenon
<1>8. \A s \in syms : RecordsOf(s, vt) \subseteq recs
  <2> HIDE DEF syms, vt
  <2>1. QED
    BY Zenon
<1> HIDE DEF recs, rec, d, syms, vt, top
<1>9. CASE \E s \in syms : s.of \in Target.known
  <2>1. \A s \in syms : s.of \in Target.known
    <3>1. PICK x \in syms : x.of \in Target.known
      BY <1>9
    <3>2. ASSUME NEW s \in syms PROVE s.of \in Target.known
      <4>1. <<s.of>> = <<x.of>>
        BY <1>2
      <4>2. s.of = x.of
        BY <4>1
      <4>3. QED
        BY <3>1, <4>2
    <3>3. QED
      BY <3>2
  <2>2. \A s \in syms : RecordsOf(s, vt) = {object[1]}
    BY <1>2, <2>1 DEF RecordsOf
  <2>3. recs # {} /\ rec = object[1]
    BY <1>2, <1>6, <1>7, <1>8, <2>2
  <2>4. QED
    BY <1>2, <1>5, <1>9, <2>3 DEF syms, vt, d
<1>10. CASE \A s \in syms : s.of \notin Target.known
  <2>1. CASE recs = {}
    BY <1>2, <1>5, <1>10, <2>1 DEF syms, vt, d
  <2>2. CASE recs # {}
    <3>1. PICK s \in syms : rec \in RecordsOf(s, vt)
      BY <1>6, <1>7, <2>2
    <3>2. PICK f \in FirstFunctions(vt) : f.record # <<>> /\ rec = f.record
      BY <1>10, <3>1 DEF RecordsOf
    <3>3. f \in Target.functions
      BY <3>2 DEF FirstFunctions, ObjectsAt
    <3>4. QED
      BY <1>2, <1>5, <1>10, <2>2, <3>2, <3>3 DEF syms, vt, d
  <2>3. QED
    BY <2>1, <2>2
<1>11. QED
  BY <1>9, <1>10

(* A type with virtual functions *)
LEMMA DynamicIs ==
  ASSUME NEW t \in TypeIds
  PROVE  IsDynamic(Untypedef[t]) <=> IsDynamic(t)
BY Untyped, UntypedKinds DEF IsDynamic, Record

(* What a pointer is to *)
LEMMA PointedIs ==
  ASSUME IInv, CanDereference(val)
  PROVE  /\ Kind(val.type) = "pointer" /\ HasUint[val] /\ AsUint[val] \in 0 .. Wide - 1
         /\ Base(val.type) \in TypeIds /\ Type(val) \in TypeIds
         /\ Kind(Type(val)) = "pointer" /\ Base(Type(val)) = Base(val.type)
<1>1. Kind(val.type) = "pointer" /\ HasUint[val]
  BY DEF CanDereference, IsPointer
<1>2. AsUint[val] \in 0 .. Wide - 1
  BY <1>1, ValIs, UintIs DEF IInv
<1>3. Base(val.type) \in TypeIds
  BY <1>1, ValIs, KindsAre
<1>4. Type(val) \in TypeIds /\ Kind(Type(val)) = "pointer" /\ Base(Type(val)) = Base(val.type)
  BY <1>1, ValIs, Untyped, UntypedKinds DEF Type, Base
<1>5. QED
  BY <1>1, <1>2, <1>3, <1>4

(* An object in memory *)
LEMMA InMemoryGood ==
  ASSUME NEW t, NEW a, Holds(a, t)
  PROVE  GoodVal(InMemory(t, a))
<1>1. InMemory(t, a).store = "memory" /\ InMemory(t, a).type = t /\ InMemory(t, a).offset = a
  BY DEF InMemory
<1>2. QED
  BY <1>1 DEF GoodVal, HasAddress

(* What a pointer points to *)
LEMMA FollowHonest == \A resolve : IInv /\ HInv /\ Follow(resolve) => HInv'
<1> SUFFICES ASSUME IInv, HInv, NEW resolve, Follow(resolve) PROVE HInv'
  OBVIOUS
<1> DEFINE a == AsUint[val]
           t == Base(val.type)
           fair == /\ Holds(a, t)
                   /\ (resolve /\ IsDynamic(t)) => ~Unnamed(val)
                   /\ a \notin DOMAIN dynamic
<1>1. ASSUME CanDereference(val), honest, fair PROVE GoodVal(Dereference(val, resolve))
  <2>1. /\ HasUint[val] /\ a \in 0 .. Wide - 1 /\ t \in TypeIds
        /\ Base(Type(val)) = t /\ MemOK /\ mem = Memories[image]
    BY <1>1, PointedIs, ValIs DEF HInv
  <2>2. CASE ~(resolve /\ Kind(t) = "record")
    <3>1. Dereference(val, resolve) = InMemory(t, a)
      BY Zenon, <2>2 DEF Dereference
    <3>2. QED
      BY <1>1, <3>1, InMemoryGood
  <2>3. CASE resolve /\ Kind(t) = "record"
    <3> DEFINE d == DynamicType(a, Type(val))
    <3>1. Dereference(val, resolve) = InMemory(Base(d.type), d.addr)
      BY Zenon, <2>3 DEF Dereference
    <3>2. FromContext(a, Type(val)) = [type |-> Type(val), addr |-> a]
      BY Zenon, <1>1 DEF FromContext
    <3>3. Holds(d.addr, Base(d.type))
      <4>1. CASE ~IsDynamic(t)
        <5>1. d = FromContext(a, Type(val))
          BY <2>1, <4>1 DEF DynamicType
        <5> HIDE DEF d, a, t
        <5>2. d.type = Type(val) /\ d.addr = a
          BY <3>2, <5>1
        <5>3. QED
          BY <1>1, <2>1, <5>2
      <4>2. CASE IsDynamic(t)
        <5>1. <<Untypedef[t], a>> \in Inside[image] /\ image \in DOMAIN Images
          BY <1>1, <2>1 DEF Holds, MemOK
        <5>2. IsDynamic(Untypedef[t])
          BY <2>1, <4>2, DynamicIs
        <5>3. PICK object \in Inside[image] : HasTable(image, a, object)
          BY <5>1, <5>2, ObjectsAssumption
        <5>4. object[1] \in Bare /\ object[2] \in 0 .. Wide - 1 /\ object = <<object[1], object[2]>>
          <6>1. object \in Parts
            BY <5>1, InsideClosed
          <6>2. object[1] \in Bare /\ object = <<object[1], object[2]>>
            BY <6>1 DEF Parts
          <6>3. Fits(object[2])
            BY <5>1, ObjectsAssumption DEF Fits
          <6>4. QED
            BY <6>2, <6>3, FitsIs
        <5> DEFINE syms == {s \in SymbolsAt(AsUint[Word(a)]) : s.vtable}
        <5>5. syms # {} /\ \A s \in syms : s.of \in Target.known
          <6>1. ~Unnamed(val)
            BY <1>1, <2>3, <4>2
          <6>2. \A s \in syms : s.of \in Target.known
            BY <6>1 DEF Unnamed
          <6>3. syms # {}
            BY <2>1, <4>2, <5>3, <5>4, TableRead
          <6>4. QED
            BY <6>2, <6>3
        <5>6. d = [type |-> Pointer(object[1]), addr |-> object[2]]
          <6>1. \/ d = [type |-> Pointer(object[1]), addr |-> object[2]]
                \/ \A s \in syms : s.of \notin Target.known
            BY <2>1, <4>2, <5>3, <5>4, TableRead
          <6> HIDE DEF syms, d
          <6>2. QED
            BY <5>5, <6>1
        <5> HIDE DEF d
        <5>7. Base(d.type) = object[1] /\ d.addr = object[2] /\ Untypedef[object[1]] = object[1]
          BY <5>4, <5>6, BareTypes, PointersAre
        <5>8. QED
          BY <5>3, <5>4, <5>7 DEF Holds
      <4>3. QED
        BY <4>1, <4>2
    <3>4. QED
      BY <3>1, <3>3, InMemoryGood
  <2>4. QED
    BY <2>2, <2>3
<1>2. QED
  BY <1>1, ObtainHonest DEF Follow

(* A client starts from an object *)
LEMMA InitHonest == Init => HInv
<1> SUFFICES ASSUME Init PROVE HInv
  OBVIOUS
<1>1. image \in DOMAIN Images /\ mem = Memories[image]
  BY DEF Init
<1>2. PICK r \in Target.roots : val = InMemory(r.type, r.addr)
  BY DEF Init
<1>3. r \in Images[image].objects
  BY <1>1, <1>2, ImagesAssumption DEF Target
<1>4. <<Untypedef[r.type], r.addr>> \in Listed(image)
  BY <1>3 DEF Listed
<1>5. Holds(r.addr, r.type)
  BY <1>1, <1>4, InsideClosed DEF Holds
<1>6. GoodVal(val)
  BY <1>2, <1>5, InMemoryGood
<1>7. QED
  BY <1>1, <1>6 DEF HInv

(* A call that throws keeps it *)
LEMMA OwnHonest == \A nm : HInv /\ GoToOwn(nm) => HInv'
BY OwnThrows, SameHonest DEF debuggee

(* Each call keeps the invariant *)
LEMMA NextHonest == IInv /\ HInv /\ [Next]_vars => HInv'
<1> SUFFICES ASSUME IInv, HInv, [Next]_vars PROVE HInv'
  OBVIOUS
<1>1. CASE Navigate
  <2>1. CASE \E i \in Indices : GoToField(i) \/ GoToBase(i) \/ GoToElement(i - 1)
    <3>1. PICK i \in Indices : GoToField(i) \/ GoToBase(i) \/ GoToElement(i - 1)
      BY <2>1
    <3>2. i - 1 \in 0 .. 3
      BY DEF Indices
    <3>3. QED
      BY <3>1, <3>2, FieldHonest, BaseHonest, ElementHonest
  <2>2. CASE \E nm \in Names : GoToNamed(nm) \/ GoToOwn(nm) \/ TakeFieldPointer(nm)
    BY <2>2, NamedHonest, OwnHonest, FieldPointerHonest
  <2>3. CASE \E nm \in FunctionNames : TakeFunction(nm)
    BY <2>3, FunctionHonest
  <2>4. CASE \E t \in Casts : GoToCast(t)
    BY <2>4, CastHonest
  <2>5. CASE TakePtr
    BY <2>5, PtrHonest
  <2>6. CASE \E n \in Steps : StepPointer(n)
    BY <2>6, StepHonest
  <2>7. CASE \E resolve \in BOOLEAN : Follow(resolve)
    BY <2>7, FollowHonest
  <2>8. CASE Keep
    BY <2>8, SameHonest DEF Keep, debuggee
  <2>9. QED
    BY <1>1, <2>1, <2>2, <2>3, <2>4, <2>5, <2>6, <2>7, <2>8 DEF Navigate
<1>2. CASE Modify
  <2>1. CASE \E n \in Numbers : WriteNumber(n) \/ WritePart("real", n) \/ WritePart("img", n)
    BY <2>1, StoreHonest DEF WriteNumber, WritePart
  <2>2. CASE \E b \in BOOLEAN : WriteBool(b)
    BY <2>2, StoreHonest DEF WriteBool
  <2>3. CASE Assign
    BY <2>3, StoreHonest DEF Assign
  <2>4. QED
    BY <1>2, <2>1, <2>2, <2>3 DEF Modify
<1>3. CASE Register
  BY <1>3, SameHonest DEF Register, AddDynamicType
<1>4. CASE UNCHANGED vars
  BY <1>4, SameHonest DEF vars, debuggee
<1>5. QED
  BY <1>1, <1>2, <1>3, <1>4 DEF Next

(* Whoever starts from an object of the debuggee and only navigates - to   *)
(* members by number and by name, bases, elements, through pointers with   *)
(* and without their dynamic types, from a value to its pointer and a      *)
(* member's, along an array - has an object of the debuggee in hand, of    *)
(* the type it has there, or a pointer to one: for all types and objects.  *)
THEOREM NavigationStaysOnObjects == Spec => []ObjectsOnly
<1>1. HInv => ObjectsOnly
  BY DEF HInv, GoodVal, ObjectsOnly
<1>2. QED
  BY <1>1, InitIInv, NextIInv, InitHonest, NextHonest, PTL DEF Spec

(* What dynamic_type_at_addr tells of an object's base *)
LEMMA ShownWhole ==
  ASSUME IInv, HInv, honest, CanDereference(val), IsDynamic(Base(val.type)),
         NEW o \in Target.objects, IsDynamic(o.type),
         <<Untypedef[Base(val.type)], AsUint[val]>> \in BaseParts(o)
  PROVE  LET r == Dereference(val, TRUE)
             c == FromContext(AsUint[val], Type(val))
         IN  \/ r = InMemory(o.type, o.addr)
             \/ o.type[1] \notin Target.known /\ r = InMemory(Base(c.type), c.addr)
             \/ o.type[1] \notin Target.known /\ Inherited(o, r)
<1> DEFINE a == AsUint[val]
           t == Base(val.type)
           d == DynamicType(a, Type(val))
           r == Dereference(val, TRUE)
           c == FromContext(a, Type(val))
<1>1. /\ a \in 0 .. Wide - 1 /\ t \in TypeIds /\ Base(Type(val)) = t
      /\ MemOK /\ mem = Memories[image]
  BY PointedIs, ValIs DEF HInv
<1>2. o \in Images[image].objects /\ image \in DOMAIN Images /\ o.type \in TypeIds /\ o.addr \in 0 .. Wide - 1
  BY <1>1, ImagesAssumption DEF Target, MemOK
<1> DEFINE object == <<o.type, o.addr>>
<1>3. HasTable(image, a, object)
  <2> DEFINE p == <<Untypedef[t], a>>
  <2>1. IsDynamic(p[1]) /\ p \in BaseParts(o) /\ p[2] = a
    BY <1>1, DynamicIs
  <2> HIDE DEF p, object
  <2>2. HasTable(image, p[2], <<o.type, o.addr>>)
    BY <1>2, <2>1, ObjectsAssumption
  <2>3. QED
    BY <2>1, <2>2 DEF object
<1>4. r = InMemory(Base(d.type), d.addr)
  <2>1. Kind(t) = "record"
    BY DEF IsDynamic
  <2>2. QED
    BY Zenon, <2>1 DEF Dereference
<1> DEFINE syms == {s \in SymbolsAt(AsUint[Word(a)]) : s.vtable}
<1>5. /\ syms # {} /\ \A s \in syms : <<s.of>> = o.type
      /\ \/ d = [type |-> Pointer(o.type), addr |-> o.addr]
         \/ /\ \A s \in syms : s.of \notin Target.known
            /\ \/ d = c
               \/ \E f \in Target.functions :
                     f.record # <<>> /\ d = [type |-> Pointer(f.record), addr |-> o.addr]
  <2>1. object[1] = o.type /\ object[2] = o.addr
    OBVIOUS
  <2>2. IsDynamic(Base(Type(val))) /\ object[2] \in 0 .. Wide - 1
    BY <1>1, <1>2, <2>1
  <2> HIDE DEF object, a
  <2>3. /\ syms # {} /\ \A s \in syms : <<s.of>> = object[1]
        /\ \/ d = [type |-> Pointer(object[1]), addr |-> object[2]]
           \/ /\ \A s \in syms : s.of \notin Target.known
              /\ \/ d = c
                 \/ \E f \in Target.functions :
                       f.record # <<>> /\ d = [type |-> Pointer(f.record), addr |-> object[2]]
    BY <1>1, <1>3, <2>2, TableRead
  <2> HIDE DEF syms, d, c
  <2>4. QED
    BY <2>1, <2>3
<1> HIDE DEF syms, d, c, r, a
<1>6. CASE d = [type |-> Pointer(o.type), addr |-> o.addr]
  <2>1. Base(d.type) = o.type /\ d.addr = o.addr
    BY <1>2, <1>6, PointersAre
  <2>2. QED
    BY <1>4, <2>1 DEF r
<1>7. CASE \A s \in syms : s.of \notin Target.known
  <2>1. o.type[1] \notin Target.known
    <3>1. PICK s \in syms : <<s.of>> = o.type
      BY <1>5
    <3>2. s.of = o.type[1]
      BY <3>1
    <3>3. QED
      BY <1>7, <3>1, <3>2
  <2>2. CASE d = c
    BY <1>4, <2>1, <2>2 DEF r, c, a
  <2>3. CASE \E f \in Target.functions :
                f.record # <<>> /\ d = [type |-> Pointer(f.record), addr |-> o.addr]
    <3>1. PICK f \in Target.functions :
                f.record # <<>> /\ d = [type |-> Pointer(f.record), addr |-> o.addr]
      BY <2>3
    <3>2. f.record \in TypeIds
      BY <1>1, <3>1, TargetIs
    <3>3. Base(d.type) = f.record /\ d.addr = o.addr
      BY <3>1, <3>2, PointersAre
    <3>4. r = InMemory(f.record, o.addr)
      BY <1>4, <3>3
    <3>5. CASE f.record = o.type
      BY <3>4, <3>5 DEF r
    <3>6. CASE f.record # o.type
      <4>1. Inherited(o, r)
        BY <3>4, <3>6 DEF Inherited
      <4>2. QED
        BY <2>1, <4>1 DEF r
    <3>7. QED
      BY <3>5, <3>6
  <2>4. CASE d = [type |-> Pointer(o.type), addr |-> o.addr]
    BY <1>6, <2>4
  <2>5. QED
    BY <1>5, <2>2, <2>3, <2>4
<1>8. QED
  BY <1>5, <1>6, <1>7

(* Through a pointer to any of its bases an object is shown whole, with    *)
(* the type its virtual table names and from where it starts; without      *)
(* debug information about that type as the pointer says, as registered by *)
(* the application, or as the class of its table's first function: for all *)
(* classes, with their bases wherever they lie, and all objects.           *)
THEOREM DynamicTypesAreRight == Spec => []DynamicTypeRight
<1>1. IInv /\ HInv => DynamicTypeRight
  BY ShownWhole DEF DynamicTypeRight
<1>2. QED
  BY <1>1, InitIInv, NextIInv, InitHonest, NextHonest, PTL DEF Spec
===============================================================================
