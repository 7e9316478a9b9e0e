---------------------------- MODULE NumberLemmas ----------------------------
(***************************************************************************)
(* What the proofs about containers and about times need of natural        *)
(* numbers and their division: a least element for every set, in place of  *)
(* induction, and the quotient as the only number of its kind.             *)
(***************************************************************************)
EXTENDS Integers, FiniteSets, FiniteSetTheorems, WellFoundedInduction, TLAPS

(* A set of natural numbers has a least element *)
LEMMA Smallest ==
  ASSUME NEW T \in SUBSET Nat, T # {}
  PROVE  \E n \in T : \A m \in T : n <= m
<1> DEFINE R == StrictSubsetOrdering(Nat)
           S == FiniteSubsetsOf(Nat)
           F == {0 .. n : n \in T}
<1>1. IsWellFoundedOn(R, S)
  BY FS_StrictSubsetOrderingWellFounded
<1>2. \A n \in Nat : 0 .. n \in S
  BY FS_Interval DEF FiniteSubsetsOf
<1>3. F \subseteq S /\ F # {}
  BY <1>2
<1>4. ASSUME NEW m \in Nat, NEW n \in Nat, m < n
      PROVE  <<0 .. m, 0 .. n>> \in R
  <2>1. 0 .. m \in SUBSET Nat /\ 0 .. n \in SUBSET Nat /\ 0 .. m \subseteq 0 .. n
    BY <1>4
  <2>2. n \in 0 .. n /\ n \notin 0 .. m
    BY <1>4
  <2>3. QED
    BY <2>1, <2>2 DEF StrictSubsetOrdering
<1> HIDE DEF R, S
<1>5. PICK X \in F : \A Y \in F : ~ (<<Y, X>> \in R)
  <2> HIDE DEF F
  <2>1. QED
    BY <1>1, <1>3, WFMin
<1>6. PICK n \in T : X = 0 .. n
  OBVIOUS
<1>7. \A m \in T : ~(m < n)
  BY <1>4, <1>5, <1>6
<1>8. QED
  BY <1>7

(* The quotient is the only one *)
LEMMA DividedOnce ==
  ASSUME NEW b \in Nat \ {0}, NEW d \in Nat, NEW e \in Nat, NEW r \in 0 .. b - 1, NEW s \in 0 .. b - 1,
         b * d + r = b * e + s
  PROVE  d = e /\ r = s
<1>1. CASE d < e
  <2>1. b * d + b <= b * e
    <3>1. e - d - 1 \in Nat
      BY <1>1
    <3>2. b * (e - d - 1) \in Nat
      BY <3>1
    <3>3. b * (e - d - 1) = b * e - b * d - b
      BY <3>1
    <3>4. b * d \in Nat /\ b * e \in Nat
      OBVIOUS
    <3>5. QED
      BY <3>2, <3>3, <3>4
  <2>2. b * d \in Nat /\ b * e \in Nat
    OBVIOUS
  <2>3. QED
    BY <2>1, <2>2
<1>2. CASE e < d
  <2>1. b * e + b <= b * d
    <3>1. d - e - 1 \in Nat
      BY <1>2
    <3>2. b * (d - e - 1) \in Nat
      BY <3>1
    <3>3. b * (d - e - 1) = b * d - b * e - b
      BY <3>1
    <3>4. b * d \in Nat /\ b * e \in Nat
      OBVIOUS
    <3>5. QED
      BY <3>2, <3>3, <3>4
  <2>2. b * d \in Nat /\ b * e \in Nat
    OBVIOUS
  <2>3. QED
    BY <2>1, <2>2
<1>3. CASE d = e
  <2>1. b * d \in Nat /\ b * d = b * e
    BY <1>3
  <2>2. QED
    BY <1>3, <2>1
<1>4. QED
  BY <1>1, <1>2, <1>3

(* Division *)
LEMMA Divided ==
  ASSUME NEW a \in Nat, NEW b \in Nat \ {0}
  PROVE  /\ a \div b \in Nat /\ a % b \in Nat /\ a % b < b
         /\ a = b * (a \div b) + (a % b)
         /\ a < b => a \div b = 0 /\ a % b = a
<1> DEFINE d == a \div b
           r == a % b
<1>1. d \in Nat
  OBVIOUS
<1>2. r \in Nat /\ r < b
  OBVIOUS
<1>3. a = b * d + r
  OBVIOUS
<1>6. a = b * (a \div b) + (a % b)
  OBVIOUS
<1> HIDE DEF d, r
<1>4. ASSUME a < b PROVE d = 0 /\ r = a
  <2>1. b * 0 + a = b * d + r
    BY <1>3
  <2>2. a \in 0 .. b - 1 /\ r \in 0 .. b - 1
    BY <1>2, <1>4
  <2>3. QED
    BY <1>1, <2>1, <2>2, DividedOnce
<1>5. a \div b \in Nat /\ a % b \in Nat /\ a % b < b
  BY <1>1, <1>2 DEF d, r
<1>7. a < b => a \div b = 0 /\ a % b = a
  BY Zenon, <1>4 DEF d, r
<1>8. QED
  BY Zenon, <1>5, <1>6, <1>7

(* One further *)
LEMMA DividedNext ==
  ASSUME NEW a \in Nat, NEW b \in Nat \ {0}
  PROVE  /\ (a % b) + 1 < b => (a + 1) \div b = a \div b /\ (a + 1) % b = (a % b) + 1
         /\ (a % b) + 1 = b => (a + 1) \div b = a \div b + 1 /\ (a + 1) % b = 0
<1> DEFINE d == a \div b
           r == a % b
           e == (a + 1) \div b
           s == (a + 1) % b
<1>1. d \in Nat /\ r \in Nat /\ r < b /\ a = b * d + r
  BY Divided
<1>2. a + 1 \in Nat /\ e \in Nat /\ s \in Nat /\ s < b /\ a + 1 = b * e + s
  BY Divided
<1> HIDE DEF d, r, e, s
<1>3. b * d \in Nat /\ b * e \in Nat
  BY <1>1, <1>2
<1>4. ASSUME r + 1 < b PROVE e = d /\ s = r + 1
  <2>1. r + 1 \in 0 .. b - 1 /\ s \in 0 .. b - 1 /\ b * d + (r + 1) = b * e + s
    BY <1>1, <1>2, <1>3, <1>4
  <2>2. QED
    BY <1>1, <1>2, <2>1, DividedOnce
<1>5. ASSUME r + 1 = b PROVE e = d + 1 /\ s = 0
  <2>1. b * (d + 1) = b * d + b
    BY <1>1
  <2>2. 0 \in 0 .. b - 1 /\ s \in 0 .. b - 1 /\ b * (d + 1) + 0 = b * e + s /\ d + 1 \in Nat
    BY <1>1, <1>2, <1>3, <1>5, <2>1
  <2>3. QED
    BY <1>2, <2>2, DividedOnce
<1>6. QED
  BY <1>4, <1>5 DEF d, r, e, s

(* Less is in the same part or an earlier one *)
LEMMA DividedOrder ==
  ASSUME NEW a \in Nat, NEW c \in Nat, NEW b \in Nat \ {0}, a <= c
  PROVE  a \div b <= c \div b
<1> DEFINE d == a \div b
           r == a % b
           e == c \div b
           s == c % b
<1>1. d \in Nat /\ r \in Nat /\ r < b /\ a = b * d + r
  BY Divided
<1>2. e \in Nat /\ s \in Nat /\ s < b /\ c = b * e + s
  BY Divided
<1> HIDE DEF d, r, e, s
<1>3. SUFFICES ASSUME e < d PROVE FALSE
  BY <1>1, <1>2 DEF d, e
<1>4. d - e - 1 \in Nat
  BY <1>1, <1>2, <1>3
<1>5. b * (d - e - 1) \in Nat /\ b * (d - e - 1) = b * d - b * e - b
  BY <1>1, <1>2, <1>4
<1>6. b * d \in Nat /\ b * e \in Nat
  BY <1>1, <1>2
<1>7. QED
  BY <1>1, <1>2, <1>5, <1>6

(* What is below q times b is in one of the first q parts *)
LEMMA DividedBelow ==
  ASSUME NEW a \in Nat, NEW b \in Nat \ {0}, NEW q \in Nat, a < b * q
  PROVE  a \div b < q
<1> DEFINE d == a \div b
           r == a % b
<1>1. d \in Nat /\ r \in Nat /\ r < b /\ a = b * d + r
  BY Divided
<1> HIDE DEF d, r
<1>2. SUFFICES ASSUME d >= q PROVE FALSE
  BY <1>1 DEF d
<1>3. d - q \in Nat
  BY <1>1, <1>2
<1>4. b * (d - q) \in Nat /\ b * (d - q) = b * d - b * q
  BY <1>1, <1>3
<1>5. b * d \in Nat /\ b * q \in Nat
  BY <1>1
<1>6. QED
  BY <1>1, <1>4, <1>5

(* What a part holds is not less than the part's begin *)
LEMMA DividedParts ==
  ASSUME NEW b \in Nat \ {0}, NEW q \in Nat, NEW r \in 0 .. b - 1
  PROVE  (b * q + r) \div b = q /\ (b * q + r) % b = r
<1> DEFINE a == b * q + r
           d == a \div b
           s == a % b
<1>1. a \in Nat
  <2>1. b * q \in Nat
    OBVIOUS
  <2>2. QED
    BY <2>1
<1> HIDE DEF a
<1>2. d \in Nat /\ s \in Nat /\ s < b /\ a = b * d + s
  BY <1>1, Divided
<1> HIDE DEF d, s
<1>3. b * q + r = b * d + s
  BY <1>2 DEF a
<1>4. s \in 0 .. b - 1
  BY <1>2
<1>5. q = d /\ r = s
  BY <1>2, <1>3, <1>4, DividedOnce
<1>6. QED
  BY Zenon, <1>5 DEF a, d, s
=============================================================================
